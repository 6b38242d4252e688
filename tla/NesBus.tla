--------------------------------- MODULE NesBus --------------------------------
(***************************************************************************)
(* The CPU's bus and everyone who drives it (hw/src/nes_top.v and          *)
(* hw/src/cpu/rp2a03.v): the CPU, sprite DMA, which takes the bus from the *)
(* CPU, and the debugger, which takes it from both.  On the other side     *)
(* stand the memories, which answer one clock late, and the PPU's          *)
(* registers, which act when their address appears.                        *)
(*                                                                         *)
(* The CPU is seen from its pins.  A bus cycle lasts ClkPhases clocks on   *)
(* which the CPU is ready; it puts a new address out on phase 0 and takes  *)
(* the data in on SamplePhase.  An instruction is the sequence of its bus  *)
(* cycles, and any instruction of Instructions may follow any other.       *)
(*                                                                         *)
(* Memory is not written here: the byte at address a is always Cell(a).    *)
(***************************************************************************)
EXTENDS Hci

CONSTANTS
  ClkPhases,      \* clocks of a CPU cycle: 56 in cpu.v
  SamplePhase,    \* 28 in cpu.v
  LastByte,       \* last byte of a page that DMA copies: 255 in sprdma.v
  Instructions,   \* sequences of bus cycles
  HostPackets,    \* packets sent to a stopped console
  HostBreaks      \* whether the host also stops a running one

ASSUME NesBusAssumption ==
  /\ ClkPhases \in Nat /\ SamplePhase \in 2 .. ClkPhases - 1
  /\ LastByte \in 0 .. Base - 1
  /\ Instructions \subseteq Seq([a : 0 .. Base * Base - 1, r_nw : BOOLEAN, d : Byte, hlt : BOOLEAN])
  /\ <<>> \notin Instructions
  /\ HostPackets \subseteq Seq(Byte) /\ <<OP_DBG_RUN>> \in HostPackets
  /\ HostBreaks \in BOOLEAN
  /\ Base <= 256                              \* the bytes of PpuRi
  /\ PpuCtrl % 8 = 0 /\ PpuCtrl > 20          \* 0x2000, with 0x4014 beyond its registers

DmaReg == 2 * PpuCtrl + 20    \* 0x4014

StartsCopy(c) == c.a = DmaReg /\ ~c.r_nw

(* An instruction is fetched first.  Where it writes an address of the
   program's choice, and not the stack, it has read just before. *)
ASSUME InstructionsAssumption ==
  \A ins \in Instructions :
    /\ ins[1].r_nw
    /\ \A i \in 2 .. Len(ins) : StartsCopy(ins[i]) => ins[i - 1].r_nw

VARIABLES
  cpu,            \* the rest of the instruction; its head is the current cycle
  q_clk_phase,
  q_ready,
  dma_state, dma_addr, dma_cnt, dma_data,    \* sprdma.v
  ri,             \* ppu_ri.v
  oam,            \* sprite RAM, where it has been written
  last_a,         \* the memories' registered address
  line,           \* bytes the host has sent that have not arrived
  seen            \* history: what happened in this CPU cycle and in the last copy

DMA == INSTANCE SprDma
         WITH q_state <- dma_state, q_addr <- dma_addr, q_cnt <- dma_cnt,
              q_data <- dma_data, OamData <- PpuCtrl + 4

RI == INSTANCE PpuRi

cpuVars == <<cpu, q_clk_phase, q_ready>>
dmaVars == <<dma_state, dma_addr, dma_cnt, dma_data>>
busVars == <<vars, cpuVars, dmaVars, ri, oam, last_a, line, seen>>

BusInit ==
  /\ Init
  /\ cpu \in Instructions
  /\ q_clk_phase = 1
  /\ q_ready = FALSE
  /\ DMA!Init
  /\ ri = RI!Reset
  /\ oam = <<>>
  /\ last_a = 0
  /\ line = <<>>
  /\ seen = [accesses |-> 0, breaks |-> 0, copies |-> 0,
             page |-> 0, start |-> 0, disturbed |-> FALSE, broken |-> FALSE]

--------------------------------------------------------------------------------
(* The CPU's side. *)

cycle == Head(cpu)

(* Faulty: waits for DMA to be ready again, which waits for a read. *)
ready_in_AfterCooldown == ~active /\ dma_state = "S_READY"

ready_in == ~active /\ ~DMA!active_out

(* Faulty: does not wait for the buses to be switched over. *)
rdy_Undelayed == ready_in

rdy == ready_in /\ q_ready

(* Faulty: also breaks while the CPU stands still. *)
brk_out_NotReady == cycle.hlt /\ q_clk_phase = 1

brk_out == cycle.hlt /\ q_clk_phase = 1 /\ rdy

EndOfCycle == rdy /\ q_clk_phase = 0
Samples    == rdy /\ q_clk_phase = SamplePhase /\ cycle.r_nw

CpuClock ==
  /\ q_ready' = ready_in
  /\ q_clk_phase' = IF rdy THEN (q_clk_phase + 1) % ClkPhases ELSE q_clk_phase
  /\ IF EndOfCycle
       THEN IF Len(cpu) > 1 THEN cpu' = Tail(cpu) ELSE cpu' \in Instructions
       ELSE UNCHANGED cpu

--------------------------------------------------------------------------------
(* The bus: the debugger, or else DMA, or else the CPU. *)

bus_a    == IF active THEN q_addr
            ELSE IF DMA!active_out THEN DMA!cpumc_a_out ELSE cycle.a
bus_r_nw == IF active THEN cpu_r_nw
            ELSE IF DMA!active_out THEN DMA!cpumc_r_nw_out ELSE cycle.r_nw
bus_d    == IF bus_r_nw THEN 0
            ELSE IF active THEN cpu_dout
            ELSE IF DMA!active_out THEN DMA!cpumc_d_out ELSE cycle.d

InPpu(a) == a \div PpuCtrl = 1
InMemory(a) == a < PpuCtrl \/ a >= 4 * PpuCtrl

Cell(a) == (a + a \div Base) % Base

ppu_ri_ncs == ~InPpu(bus_a)

bus_q == IF InMemory(bus_a) THEN Cell(last_a)
         ELSE RI!cpu_d_out(ppu_ri_ncs, bus_r_nw)

(* No vertical blank, no sprites and no video memory on the PPU's far side. *)
RegisterInputs ==
  [ncs |-> ppu_ri_ncs, sel |-> bus_a % 8, r_nw |-> bus_r_nw, d |-> bus_d,
   vram_a |-> 0, vram_d |-> 0, pram_d |-> 0, vblank |-> FALSE,
   spr_ram_d |-> IF ri.spr_ram_a \in DOMAIN oam THEN oam[ri.spr_ram_a] ELSE 0,
   overflow |-> FALSE, pri_col |-> FALSE]

RegisterClock ==
  /\ ri' = RI!Clocked(RegisterInputs)
  /\ oam' = IF RI!spr_ram_wr_out(RegisterInputs)
              THEN [c \in DOMAIN oam \cup {ri.spr_ram_a} |->
                      IF c = ri.spr_ram_a THEN bus_d ELSE oam[c]]
              ELSE oam

DmaClock == DMA!Clock(cycle.a, cycle.r_nw, cycle.d, bus_q)

(* The debugger; a byte of the host may arrive when the last has been taken,
   and answers leave at once.  CPU registers and video memory read as 0. *)
HciClock ==
  \E arrives \in {FALSE} \cup {line # <<>> /\ rx_fifo.entries = <<>>} :
    /\ Fsm(brk_out, bus_q, 0, 0)
    /\ UartBuffers(brk_out, arrives, IF arrives THEN Head(line) ELSE 0, FALSE, ~tx_fifo.empty)
    /\ line' = IF arrives THEN Tail(line) ELSE line

(* Counting to two is enough for the properties. *)
Count(n, event) == IF event /\ n < 2 THEN n + 1 ELSE n

OwnAccess == ~active /\ ~DMA!active_out /\ RI!executes(ppu_ri_ncs)
Triggered == dma_state = "S_READY" /\ dma_state' = "S_ACTIVE"

History ==
  seen' = [accesses |-> IF EndOfCycle THEN 0 ELSE Count(seen.accesses, OwnAccess),
           breaks   |-> IF EndOfCycle THEN 0 ELSE Count(seen.breaks, brk_out /\ ~active),
           copies   |-> IF EndOfCycle THEN 0 ELSE Count(seen.copies, Triggered),
           page     |-> IF Triggered THEN cycle.d ELSE seen.page,
           start    |-> IF Triggered THEN ri.spr_ram_a ELSE seen.start,
           disturbed |-> ~Triggered /\ (seen.disturbed \/ (DMA!active_out /\ active)),
           broken   |-> ~EndOfCycle /\ (seen.broken \/ active)]

Clock ==
  /\ CpuClock
  /\ DmaClock
  /\ RegisterClock
  /\ HciClock
  /\ last_a' = bus_a
  /\ History

(* The host sends a packet when the last one has been obeyed. *)
HostSend(p) ==
  /\ line = <<>> /\ rx_fifo.entries = <<>>
  /\ IF active THEN q_state = "S_DECODE" /\ p \in HostPackets
               ELSE HostBreaks /\ p = <<OP_DBG_BRK>>
  /\ line' = p
  /\ UNCHANGED <<vars, cpuVars, dmaVars, ri, oam, last_a, seen>>

BusNext == Clock \/ \E p \in HostPackets \cup {<<OP_DBG_BRK>>} : HostSend(p)

(* The clock never stops; the host need not send anything. *)
BusSpec == BusInit /\ [][BusNext]_busVars /\ WF_busVars(Clock)

--------------------------------------------------------------------------------

(***************************************************************************)
(* When the CPU takes its data in, memory is looking at the CPU's address: *)
(* a break or a copy that had the bus until just now leaves nothing behind *)
(* (q_ready, "latch external ready signal to delay 1 clk so top-level addr *)
(* muxing can complete", cpu.v).                                           *)
(***************************************************************************)
CpuReadsOwnAddress == Samples => last_a = cycle.a

(***************************************************************************)
(* A copy of memory that the debugger did not interrupt has, with its last *)
(* byte, put the whole page into sprite RAM, in order, starting at the     *)
(* sprite RAM address and wrapping around (sprdma.v; ppu_ri.v moves the    *)
(* address on with every byte).                                            *)
(***************************************************************************)
CopyEnds == dma_state = "S_ACTIVE" /\ dma_state' = "S_COOLDOWN"

PageInMemory(page) == \A i \in 0 .. LastByte : InMemory(page * Base + i)

DmaCopiesPage ==
  [][ CopyEnds /\ ~seen'.disturbed /\ PageInMemory(seen.page) =>
        \A i \in 0 .. LastByte :
          LET c == (seen.start + i) % 256
          IN  c \in DOMAIN oam' /\ oam'[c] = Cell(seen.page * Base + i) ]_busVars

(***************************************************************************)
(* A write of 0x4014 starts one copy, and nothing else starts one: the     *)
(* write is still on the bus when the copy is over, and S_COOLDOWN must    *)
(* keep it from starting another, whatever breaks come in between.         *)
(***************************************************************************)
OneCopyPerWrite ==
  /\ seen.copies <= 1
  /\ EndOfCycle => seen.copies = IF StartsCopy(cycle) THEN 1 ELSE 0

(***************************************************************************)
(* Each CPU cycle on a PPU register is obeyed exactly once (ppu_ri.v,      *)
(* "prevents executing the same command multiple times"): not again on     *)
(* each of its clocks, and not never.  A cycle that the debugger breaks    *)
(* into is left out: /CS falls again when the CPU gets the bus back.       *)
(***************************************************************************)
PpuObeysOnce == EndOfCycle /\ InPpu(cycle.a) /\ ~seen.broken => seen.accesses = 1

(* And the second for writes: nes_top.v has the PPU "snoop the CPU address bus
   for register reads/writes" at 0x2000-0x2007. *)
PpuSeesWrites ==
  EndOfCycle /\ InPpu(cycle.a) /\ ~cycle.r_nw => seen.accesses >= 1

(***************************************************************************)
(* A HLT stops the CPU once (cpu.v: it "asks hci to deassert the rdy       *)
(* signal"): not again when the host lets it go on, and a break of the     *)
(* host's at the same time does not make it miss.                          *)
(***************************************************************************)
HltBreaksOnce ==
  /\ seen.breaks <= 1
  /\ EndOfCycle /\ cycle.hlt => seen.breaks = 1

PpuDisableEnds == q_state = "S_PPU_DISABLE" /\ q_state' = "S_DECODE"

(* PPU_DISABLE turns the picture off and resets the write toggle, whatever
   was on the bus before (hci.v puts address 0 in between the registers). *)
PpuDisableTakesEffect ==
  [][PpuDisableEnds => ~ri'.bg_en /\ ~ri'.spr_en /\ ~ri'.byte_sel]_busVars

(* As long as the debugger stays out, CPU cycles keep ending: no copy holds
   the CPU for ever. *)
CpuProceeds == <>[](~active) => []<>EndOfCycle

================================================================================
