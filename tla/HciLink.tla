-------------------------------- MODULE HciLink --------------------------------
(***************************************************************************)
(* The debugger on its serial line: Hci, the timing of its UART            *)
(* (hw/src/cmn/uart), the memories and CPU registers it reaches, and the   *)
(* host program of sw/src, which sends a packet and, when the packet has   *)
(* an answer, waits for all of it before it sends the next.                *)
(*                                                                         *)
(* Timing.  Receiver and transmitter advance on the ticks of one divider   *)
(* of the system clock (162 clocks each; TickClks here) and both report a  *)
(* finished byte one clock after a tick.  A transmitted byte lasts TxTicks *)
(* ticks.  The host's baud rate is a little lower than the FPGA's (38400   *)
(* against 100 MHz / 162 / 16), so that consecutive received bytes are at  *)
(* least as far apart: RxGaps is the set of distances, in ticks.           *)
(*                                                                         *)
(* The host keeps an image of what it has written, against which answers   *)
(* and memories are compared.                                              *)
(***************************************************************************)
EXTENDS Hci, FiniteSets

CONSTANTS
  TickClks,        \* clocks between two ticks of the baud clock
  TxTicks,         \* ticks to transmit a byte
  RxGaps,          \* possible distances, in ticks, of two received bytes
  RamSize,         \* cells of CPU memory, mirrored below 0x2000
  VramSize,        \* cells of PPU memory
  RegSels,         \* CPU registers that are read, by number
  Packets          \* what the host may send

(* A tick leaves time to fill the transmit FIFO from a memory, a byte in two
   clocks, and to disable the PPU: 162 clocks against 20 and 8.  The flags of
   CPU register P are bits of a byte. *)
ASSUME LinkAssumption ==
  /\ Base % 16 = 0
  /\ TickClks \in Nat /\ TickClks >= 2 * FifoDepth + 4 /\ TickClks > 8
  /\ TxTicks \in Nat \ {0}
  /\ RxGaps # {} /\ RxGaps \subseteq Nat \ (0 .. TxTicks - 1)
  /\ RamSize \in Nat \ {0} /\ VramSize \in Nat \ {0}
  /\ RegSels \subseteq 0 .. 6

(* A packet is a record with its opcode and the arguments that its constructor
   needs; memory beyond PpuCtrl is not CPU memory. *)
ASSUME PacketsAssumption ==
  \A p \in Packets :
    /\ p.op \in Byte
    /\ p.op \in {OP_ECHO, OP_CPU_MEM_WR, OP_PPU_MEM_WR, OP_CART_SET_CFG} => p.data \in Seq(Byte)
    /\ p.op \in {OP_ECHO, OP_CPU_MEM_WR, OP_PPU_MEM_WR} => Len(p.data) < Base * Base
    /\ p.op \in {OP_CPU_MEM_RD, OP_PPU_MEM_RD} => p.n \in 0 .. Base * Base - 1
    /\ p.op \in {OP_CPU_MEM_RD, OP_CPU_MEM_WR} => p.addr \in 0 .. PpuCtrl - 1
    /\ p.op \in {OP_PPU_MEM_RD, OP_PPU_MEM_WR} => p.addr \in 0 .. Base * Base - 1
    /\ p.op = OP_CPU_MEM_RD => p.addr + p.n <= PpuCtrl
    /\ p.op = OP_CPU_MEM_WR => p.addr + Len(p.data) <= PpuCtrl
    /\ p.op = OP_PPU_MEM_RD => p.addr + p.n <= Base * Base
    /\ p.op = OP_PPU_MEM_WR => p.addr + Len(p.data) <= Base * Base
    /\ p.op \in {OP_CPU_REG_RD, OP_CPU_REG_WR} => p.sel \in RegSels
    /\ p.op = OP_CPU_REG_WR => p.val \in Byte
    /\ p.op = OP_CART_SET_CFG => Len(p.data) = 5

VARIABLES
  phase,      \* uart_baud_clk.v q_cnt
  tx_ticks,   \* ticks left of the byte being transmitted, 0 when idle
  tx_done,    \* uart_tx.v q_tx_done_tick
  rx_ticks,   \* ticks until the next byte of the line has been received
  rx_done,    \* uart_rx.v q_done_tick
  rx_byte,    \* uart_rx.v q_data
  line,       \* bytes the host has sent that are not yet received
  ram, vram,  \* CPU and PPU memory
  last_a,     \* the memories' registered address
  regs,       \* CPU registers
  host        \* what the host knows and waits for

uartVars == <<phase, tx_ticks, tx_done, rx_ticks, rx_done, rx_byte>>
linkVars == <<vars, uartVars, line, ram, vram, last_a, regs, host>>

INSTANCE DbgPackets    \* its Base is the one of Hci

LinkInit ==
  /\ Init
  /\ phase = 0
  /\ tx_ticks = 0 /\ tx_done = FALSE
  /\ rx_ticks = 0 /\ rx_done = FALSE /\ rx_byte = 0
  /\ line = <<>>
  /\ ram = [c \in 0 .. RamSize - 1 |-> 0]
  /\ vram = [c \in 0 .. VramSize - 1 |-> 0]
  /\ last_a = 0
  /\ regs = [r \in RegSels |-> RegAtReset(r)]
  /\ host = [running |-> FALSE, want |-> <<>>, got |-> <<>>,
             ram |-> ram, vram |-> vram, regs |-> regs,
             unknown |-> FALSE]

--------------------------------------------------------------------------------
PacketBytes(p) ==
  LET packet ==
        CASE p.op = OP_ECHO         -> EchoPacket(p.data)
          [] p.op = OP_CPU_MEM_RD   -> CpuMemRdPacket(p.addr, p.n)
          [] p.op = OP_CPU_MEM_WR   -> CpuMemWrPacket(p.addr, p.data)
          [] p.op = OP_PPU_MEM_RD   -> PpuMemRdPacket(p.addr, p.n)
          [] p.op = OP_PPU_MEM_WR   -> PpuMemWrPacket(p.addr, p.data)
          [] p.op = OP_CPU_REG_RD   -> CpuRegRdPacket(p.sel)
          [] p.op = OP_CPU_REG_WR   -> CpuRegWrPacket(p.sel, p.val)
          [] p.op = OP_CART_SET_CFG -> CartSetCfgPacket(<<0, 0, 0, 0>> \o p.data)
          [] OTHER                  -> DbgPacket(<<p.op>>, 0)
  IN  packet.data

Cells(mem, size, addr, n) == [i \in 1 .. n |-> {mem[(addr + i - 1) % size]}]

(* ReturnBytesExpected and the values the host may expect: one set of bytes for
   each byte of the answer. *)
Answer(p, h) ==
  CASE p.op = OP_ECHO -> [i \in DOMAIN p.data |-> {p.data[i]}]
    [] p.op = OP_CPU_MEM_RD -> Cells(h.ram, RamSize, p.addr, p.n)
    [] p.op = OP_PPU_MEM_RD -> Cells(h.vram, VramSize, p.addr, p.n)
    [] p.op = OP_CPU_REG_RD -> <<{h.regs[p.sel]}>>
    [] p.op = OP_QUERY_DBG_BRK -> <<IF h.running THEN {0, 1} ELSE {1}>>
    [] p.op = OP_QUERY_ERR_CODE -> <<{IF h.unknown THEN 2 ELSE 0}>>
    [] OTHER -> <<>>

Stored(mem, size, addr, data) ==
  [c \in 0 .. size - 1 |->
     LET hits == {i \in DOMAIN data : (addr + i - 1) % size = c}
     IN  IF hits = {} THEN mem[c]
         ELSE data[CHOOSE i \in hits : \A j \in hits : j <= i]]

SetReg(file, sel, val) == [file EXCEPT ![sel] = RegWritten(sel, @, val)]

(* The host's image after the packet has been obeyed. *)
Obeyed(p, h) ==
  [h EXCEPT
     !.running = IF p.op = OP_DBG_RUN THEN TRUE
                 ELSE IF p.op = OP_DBG_BRK THEN FALSE ELSE @,
     !.ram  = IF p.op = OP_CPU_MEM_WR THEN Stored(@, RamSize, p.addr, p.data) ELSE @,
     !.vram = IF p.op = OP_PPU_MEM_WR THEN Stored(@, VramSize, p.addr, p.data) ELSE @,
     !.regs = IF p.op = OP_CPU_REG_WR THEN SetReg(@, p.sel, p.val) ELSE @,
     !.unknown = @ \/ p.op > OP_CART_SET_CFG]

(* A running console obeys only a break and answers only QUERY_DBG_BRK; the
   host sends it nothing else. *)
MaySend(p) ==
  /\ line = <<>>
  /\ Len(host.got) = Len(host.want)
  /\ host.running => p.op \in {OP_DBG_BRK, OP_QUERY_DBG_BRK}

(* SendData; ReceiveData is the guard of the next HostSend. *)
HostSend(p) ==
  /\ MaySend(p)
  /\ line' = PacketBytes(p)
  /\ rx_ticks' \in RxGaps
  /\ host' = [Obeyed(p, host) EXCEPT !.want = Answer(p, host), !.got = <<>>]
  /\ UNCHANGED <<vars, phase, tx_ticks, tx_done, rx_done, rx_byte,
                 ram, vram, last_a, regs>>

--------------------------------------------------------------------------------
(* The hardware: everything below happens on one clock. *)

baud_clk_tick == phase = TickClks - 1

BaudClock == phase' = IF baud_clk_tick THEN 0 ELSE phase + 1

(* uart_rx.v: the stop bit of the next byte ends on a tick. *)
Receiver ==
  \/ /\ baud_clk_tick /\ line # <<>> /\ rx_ticks <= 1
     /\ rx_done' = TRUE
     /\ rx_byte' = Head(line)
     /\ line' = Tail(line)
     /\ rx_ticks' \in RxGaps
  \/ /\ ~(baud_clk_tick /\ line # <<>> /\ rx_ticks <= 1)
     /\ rx_done' = FALSE
     /\ rx_ticks' = IF baud_clk_tick /\ line # <<>> THEN rx_ticks - 1 ELSE rx_ticks
     /\ UNCHANGED <<rx_byte, line>>

(* Faulty: the byte leaves the FIFO as its transmission starts. *)
Transmitter_DoneAtStart ==
  LET starts == tx_ticks = 0 /\ ~tx_fifo.empty /\ ~tx_done
  IN  /\ tx_ticks' = IF starts THEN TxTicks
                     ELSE IF tx_ticks > 0 /\ baud_clk_tick THEN tx_ticks - 1 ELSE tx_ticks
      /\ tx_done' = starts

(* uart_tx.v: a byte starts when the FIFO is not empty, except on the clock
   that reports the previous one done, and ends on a tick. *)
Transmitter ==
  /\ tx_ticks' = IF tx_ticks = 0
                   THEN IF ~tx_fifo.empty /\ ~tx_done THEN TxTicks ELSE 0
                   ELSE IF baud_clk_tick THEN tx_ticks - 1 ELSE tx_ticks
  /\ tx_done' = (baud_clk_tick /\ tx_ticks = 1)

(* A byte that is done reaches the host.  The only answer a running console
   gives is that of a query; 1 tells the host that the CPU has stopped. *)
HostReceive ==
  IF tx_done
    THEN LET b == Head(tx_fifo.entries)
         IN  host' = [host EXCEPT !.got = Append(@, b),
                                  !.running = @ /\ b # 1]
    ELSE UNCHANGED host

(* Block RAMs answer one clock late; wram.v is enabled below 0x2000. *)
cpu_din      == IF q_addr < PpuCtrl THEN ram[last_a % RamSize] ELSE 0
ppu_vram_din == vram[last_a % VramSize]
dbgreg_in    == regs[cpu_dbgreg_sel]

Memories ==
  /\ ram' = IF ~cpu_r_nw /\ q_addr < PpuCtrl
              THEN [ram EXCEPT ![q_addr % RamSize] = cpu_dout] ELSE ram
  /\ vram' = IF ppu_vram_wr THEN [vram EXCEPT ![q_addr % VramSize] = rd_data] ELSE vram
  /\ regs' = IF cpu_dbgreg_wr THEN SetReg(regs, cpu_dbgreg_sel, rd_data) ELSE regs
  /\ last_a' = q_addr

(* The CPU can ask for a break only while it runs. *)
Clock ==
  \E brk \in IF active THEN {FALSE} ELSE BOOLEAN :
    /\ Fsm(brk, cpu_din, ppu_vram_din, dbgreg_in)
    /\ UartBuffers(brk, rx_done, rx_byte, FALSE, tx_done)
    /\ BaudClock
    /\ Receiver
    /\ Transmitter
    /\ HostReceive
    /\ Memories

LinkNext == Clock \/ \E p \in Packets : HostSend(p)

(* The clock never stops; the host need not send anything. *)
LinkSpec == LinkInit /\ [][LinkNext]_linkVars /\ WF_linkVars(Clock)

--------------------------------------------------------------------------------

(***************************************************************************)
(* Every byte the host gets is the one the packet asked for, in its place: *)
(* no answer is lost, repeated, reordered, or read from the neighbouring   *)
(* address, whatever packets came before it.                               *)
(***************************************************************************)
AnswersMatch ==
  /\ Len(host.got) <= Len(host.want)
  /\ \A i \in DOMAIN host.got : host.got[i] \in host.want[i]

(* uart.v leaves the receive FIFO's full flag unconnected, and ECHO and the
   two queries do not look at tx_full: neither FIFO may meet a write when it
   is full. *)
BuffersKeepUp ==
  /\ rx_done => ~rx_fifo.full
  /\ q_wr_en => ~tx_fifo.full

(***************************************************************************)
(* A FIFO of fifo.v that is read and written on one clock can claim to be  *)
(* empty with an entry left, which would hold back the last byte of an     *)
(* answer or of a packet.  Here both UART events fall on the clock after a *)
(* tick and the debugger is done with its own accesses well before the     *)
(* next, so that the flags always tell the truth.                          *)
(***************************************************************************)
FlagsHonest ==
  /\ rx_fifo.empty <=> rx_fifo.entries = <<>>
  /\ tx_fifo.empty <=> tx_fifo.entries = <<>>
  /\ rx_fifo.full <=> Len(rx_fifo.entries) = FifoDepth
  /\ tx_fifo.full <=> Len(tx_fifo.entries) = FifoDepth

(* Nothing of a packet is under way between the host and the debugger. *)
Quiet ==
  /\ line = <<>> /\ ~rx_done /\ rx_fifo.entries = <<>>
  /\ q_state \in {"S_DECODE", "S_DISABLED"}

(* A host that thinks the console has stopped is right as soon as nothing is
   under way: a break is obeyed even when the CPU breaks on the same clock,
   and no data byte is taken for OP_DBG_RUN. *)
StopBelieved == Quiet /\ ~host.running => active

(* Every packet comes to its end with its whole answer at the host: the
   debugger neither hangs half-way nor keeps a byte back. *)
EveryPacketCompletes ==
  []<>(Len(host.got) = Len(host.want) /\ q_state \in {"S_DECODE", "S_DISABLED"})

================================================================================
