---------------------------------- MODULE Hci ----------------------------------
(***************************************************************************)
(* hw/src/hci/hci.v, the debugger side of the console: a state machine     *)
(* that takes packets off the receive FIFO of its UART one byte per clock, *)
(* drives the CPU and PPU buses with them and answers over the transmit    *)
(* FIFO.  While it is in any state but S_DISABLED it owns the buses and    *)
(* the CPU stands still.                                                   *)
(*                                                                         *)
(* One step is one clock edge of the whole block.  The inputs of a clock   *)
(* are parameters: brk (the CPU met a HLT), the data read from the two     *)
(* buses and from a CPU register, a parity error, a byte arriving from the *)
(* receiver and the transmitter finishing a byte.  The clock's outputs are *)
(* the state functions of the section "outputs".                           *)
(*                                                                         *)
(* A byte is a number below Base (256 in the code); addresses have two     *)
(* bytes and the execute counter one bit more than two bytes.              *)
(***************************************************************************)
EXTENDS Integers, Sequences

CONSTANTS
  Base,        \* number of values of a byte: 256 in the code
  FifoDepth,   \* entries of each UART FIFO: 2**3 in the code
  PpuCtrl      \* address 0x2000

Byte == 0 .. Base - 1

ASSUME HciAssumption ==
  /\ Base \in Nat /\ Base >= 16          \* room for the opcodes
  /\ FifoDepth \in Nat /\ FifoDepth >= 2
  /\ PpuCtrl \in 0 .. Base * Base - 3

OP_ECHO           == 0
OP_CPU_MEM_RD     == 1
OP_CPU_MEM_WR     == 2
OP_DBG_BRK        == 3
OP_DBG_RUN        == 4
OP_CPU_REG_RD     == 5
OP_CPU_REG_WR     == 6
OP_QUERY_DBG_BRK  == 7
OP_QUERY_ERR_CODE == 8
OP_PPU_MEM_RD     == 9
OP_PPU_MEM_WR     == 10
OP_PPU_DISABLE    == 11
OP_CART_SET_CFG   == 12

VARIABLES
  q_state,
  q_decode_cnt,       \* header byte within a packet
  q_execute_cnt,      \* bytes (reads: half bytes) left to execute
  q_addr,             \* drives both address buses
  q_err_code,         \* sticky: which of the two errors happened
  q_cart_cfg,         \* the last five configuration bytes
  q_cart_cfg_upd,
  q_tx_data,          \* registered write port of the transmit FIFO
  q_wr_en,
  q_rx_parity_err,    \* uart.v: sticky parity error
  rx_fifo,            \* uart.v: received bytes
  tx_fifo             \* uart.v: bytes to transmit

hciRegs == <<q_state, q_decode_cnt, q_execute_cnt, q_addr, q_err_code,
             q_cart_cfg, q_cart_cfg_upd, q_tx_data, q_wr_en>>
vars == <<hciRegs, q_rx_parity_err, rx_fifo, tx_fifo>>

(* Only NewQueue, PopsFrom, PushesTo and Clocked of the queue are used. *)
RX == INSTANCE ByteQueue WITH Data <- Byte, Depth <- FifoDepth, queue <- rx_fifo
TX == INSTANCE ByteQueue WITH Data <- Byte, Depth <- FifoDepth, queue <- tx_fifo

States ==
  {"S_DISABLED", "S_DECODE", "S_ECHO_STG_0", "S_ECHO_STG_1",
   "S_CPU_MEM_RD_STG_0", "S_CPU_MEM_RD_STG_1",
   "S_CPU_MEM_WR_STG_0", "S_CPU_MEM_WR_STG_1",
   "S_CPU_REG_RD", "S_CPU_REG_WR_STG_0", "S_CPU_REG_WR_STG_1",
   "S_QUERY_ERR_CODE",
   "S_PPU_MEM_RD_STG_0", "S_PPU_MEM_RD_STG_1",
   "S_PPU_MEM_WR_STG_0", "S_PPU_MEM_WR_STG_1",
   "S_PPU_DISABLE", "S_CART_SET_CFG_STG_0", "S_CART_SET_CFG_STG_1"}

Init ==
  /\ q_state = "S_DECODE"      \* the console starts in a debug break
  /\ q_decode_cnt = 0
  /\ q_execute_cnt = 0
  /\ q_addr = 0
  /\ q_err_code = [parity |-> FALSE, opcode |-> FALSE]
  /\ q_cart_cfg = <<0, 0, 0, 0, 0>>
  /\ q_cart_cfg_upd = FALSE
  /\ q_tx_data = 0
  /\ q_wr_en = FALSE
  /\ q_rx_parity_err = FALSE
  /\ rx_fifo = RX!NewQueue
  /\ tx_fifo = TX!NewQueue

--------------------------------------------------------------------------------
(* Outputs of the clock. *)

active == q_state # "S_DISABLED"

rx_empty == rx_fifo.empty
tx_full  == tx_fifo.full
rd_data  == Head(rx_fifo.entries)    \* read only when ~rx_empty

(* The states that consume a byte as soon as there is one. *)
ByteStates ==
  States \ {"S_DISABLED", "S_CPU_REG_RD", "S_QUERY_ERR_CODE", "S_PPU_DISABLE",
            "S_CPU_MEM_RD_STG_1", "S_PPU_MEM_RD_STG_1", "S_CART_SET_CFG_STG_0"}

rd_en(brk) ==
  /\ ~rx_empty
  /\ \/ q_state = "S_DISABLED" /\ ~brk
     \/ q_state = "S_CPU_REG_RD" /\ ~tx_full
     \/ q_state \in ByteStates

(* CPU bus: writes are the memory-write packet and the two of PPU_DISABLE. *)
MemWrite   == q_state = "S_CPU_MEM_WR_STG_1" /\ ~rx_empty
PpuRegZero == q_state = "S_PPU_DISABLE" /\ q_decode_cnt \in {1, 3}
cpu_r_nw   == ~(MemWrite \/ PpuRegZero)
cpu_dout   == IF PpuRegZero THEN 0 ELSE rd_data

ppu_vram_wr   == q_state = "S_PPU_MEM_WR_STG_1" /\ ~rx_empty
cpu_dbgreg_wr == q_state = "S_CPU_REG_WR_STG_1" /\ ~rx_empty

cpu_dbgreg_sel ==
  IF cpu_dbgreg_wr THEN q_addr % 16 ELSE rd_data % 16    \* a read selects by the byte

--------------------------------------------------------------------------------
(* Arithmetic on registers. *)

Wide == Base * Base    \* values of an address

Joined(hi, lo) == hi * Base + lo
LowByte(n) == n % Base
NextAddr == IF q_addr = Wide - 1 THEN 0 ELSE q_addr + 1

(* The 17-bit execute counter wraps below zero. *)
LessOne(n) == IF n = 0 THEN 2 * Wide - 1 ELSE n - 1
NextDecodeCnt == (q_decode_cnt + 1) % 8

(* The byte that reports the sticky error bits. *)
ErrByte == (IF q_err_code.parity THEN 1 ELSE 0) + (IF q_err_code.opcode THEN 2 ELSE 0)

(* Requests to the transmit FIFO pass through registers: the FIFO sees them
   on the next clock. *)
Send(b) == q_wr_en' = TRUE /\ q_tx_data' = b
NoSend  == q_wr_en' = FALSE /\ q_tx_data' = 0

Goto(s) == q_state' = s

(* The error bits record a parity error on every clock, an unknown opcode when
   Decode meets one. *)
Errors(unknown) ==
  q_err_code' = [parity |-> q_err_code.parity \/ q_rx_parity_err,
                 opcode |-> q_err_code.opcode \/ unknown]

NoCfg == UNCHANGED q_cart_cfg /\ q_cart_cfg_upd' = FALSE

(* A state that waits for a byte, or for room to answer, keeps its registers. *)
Wait ==
  /\ \/ q_state \in ByteStates /\ rx_empty
     \/ q_state = "S_CPU_REG_RD" /\ (rx_empty \/ tx_full)
     \/ q_state = "S_QUERY_ERR_CODE" /\ tx_full
     \/ q_state \in {"S_CPU_MEM_RD_STG_1", "S_PPU_MEM_RD_STG_1"}
          /\ q_execute_cnt % 2 = 1 /\ tx_full
  /\ UNCHANGED <<q_state, q_decode_cnt, q_execute_cnt, q_addr>>
  /\ NoSend /\ NoCfg /\ Errors(FALSE)

--------------------------------------------------------------------------------
(* Faulty: a running console misses DBG_BRK. *)
Disabled_Deaf(brk) ==
  /\ q_state = "S_DISABLED"
  /\ Goto(IF brk THEN "S_DECODE" ELSE "S_DISABLED")
  /\ IF ~brk /\ ~rx_empty /\ rd_data = OP_QUERY_DBG_BRK THEN Send(0) ELSE NoSend
  /\ UNCHANGED <<q_decode_cnt, q_execute_cnt, q_addr>>
  /\ NoCfg /\ Errors(FALSE)

(* S_DISABLED: the CPU runs.  A break from the CPU comes first; otherwise one
   byte is taken, of which only DBG_BRK and QUERY_DBG_BRK mean anything. *)
Disabled(brk) ==
  /\ q_state = "S_DISABLED"
  /\ Goto(IF brk \/ (~rx_empty /\ rd_data = OP_DBG_BRK) THEN "S_DECODE" ELSE "S_DISABLED")
  /\ IF ~brk /\ ~rx_empty /\ rd_data = OP_QUERY_DBG_BRK THEN Send(0) ELSE NoSend
  /\ UNCHANGED <<q_decode_cnt, q_execute_cnt, q_addr>>
  /\ NoCfg /\ Errors(FALSE)

(* The state an opcode leads to; QUERY_DBG_BRK and unknown opcodes stay. *)
DecodeTarget(op) ==
  CASE op = OP_ECHO           -> "S_ECHO_STG_0"
    [] op = OP_CPU_MEM_RD     -> "S_CPU_MEM_RD_STG_0"
    [] op = OP_CPU_MEM_WR     -> "S_CPU_MEM_WR_STG_0"
    [] op = OP_CPU_REG_RD     -> "S_CPU_REG_RD"
    [] op = OP_CPU_REG_WR     -> "S_CPU_REG_WR_STG_0"
    [] op = OP_QUERY_ERR_CODE -> "S_QUERY_ERR_CODE"
    [] op = OP_PPU_MEM_RD     -> "S_PPU_MEM_RD_STG_0"
    [] op = OP_PPU_MEM_WR     -> "S_PPU_MEM_WR_STG_0"
    [] op = OP_PPU_DISABLE    -> "S_PPU_DISABLE"
    [] op = OP_CART_SET_CFG   -> "S_CART_SET_CFG_STG_0"
    [] op = OP_DBG_RUN        -> "S_DISABLED"
    [] OTHER                  -> "S_DECODE"

(* S_DECODE: between packets. *)
Decode ==
  /\ q_state = "S_DECODE" /\ ~rx_empty
  /\ q_decode_cnt' = 0
  /\ Goto(DecodeTarget(rd_data))
  /\ IF rd_data = OP_QUERY_DBG_BRK THEN Send(1) ELSE NoSend
  /\ Errors(rd_data > OP_CART_SET_CFG)
  /\ UNCHANGED <<q_execute_cnt, q_addr>>
  /\ NoCfg

(* Faulty: an ECHO of no bytes waits for one. *)
EchoHeader_NoZero ==
  /\ q_state = "S_ECHO_STG_0" /\ ~rx_empty
  /\ q_decode_cnt' = NextDecodeCnt
  /\ q_execute_cnt' = IF q_decode_cnt = 0 THEN rd_data
                      ELSE Joined(rd_data, LowByte(q_execute_cnt))
  /\ Goto(IF q_decode_cnt = 0 THEN "S_ECHO_STG_0" ELSE "S_ECHO_STG_1")
  /\ UNCHANGED q_addr
  /\ NoSend /\ NoCfg /\ Errors(FALSE)

(* S_ECHO_STG_0: two bytes of count. *)
EchoHeader ==
  /\ q_state = "S_ECHO_STG_0" /\ ~rx_empty
  /\ q_decode_cnt' = NextDecodeCnt
  /\ \/ /\ q_decode_cnt = 0
        /\ q_execute_cnt' = rd_data
        /\ UNCHANGED q_state
     \/ /\ q_decode_cnt # 0
        /\ q_execute_cnt' = Joined(rd_data, LowByte(q_execute_cnt))
        /\ Goto(IF q_execute_cnt' # 0 THEN "S_ECHO_STG_1" ELSE "S_DECODE")
  /\ UNCHANGED q_addr
  /\ NoSend /\ NoCfg /\ Errors(FALSE)

(* S_ECHO_STG_1: send every byte back, whether the transmit FIFO has room or
   not. *)
EchoByte ==
  /\ q_state = "S_ECHO_STG_1" /\ ~rx_empty
  /\ q_execute_cnt' = LessOne(q_execute_cnt)
  /\ Send(rd_data)
  /\ Goto(IF q_execute_cnt' = 0 THEN "S_DECODE" ELSE "S_ECHO_STG_1")
  /\ UNCHANGED <<q_decode_cnt, q_addr>>
  /\ NoCfg /\ Errors(FALSE)

(***************************************************************************)
(* The header of the four memory packets: two bytes of address, two of     *)
(* count.  Reads count clocks, two for each byte.                          *)
(***************************************************************************)
MemHeader(stg0, stg1, clocksPerByte) ==
  /\ q_state = stg0 /\ ~rx_empty
  /\ q_decode_cnt' = NextDecodeCnt
  /\ q_addr' = CASE q_decode_cnt = 0 -> rd_data
                 [] q_decode_cnt = 1 -> Joined(rd_data, LowByte(q_addr))
                 [] OTHER            -> q_addr
  /\ q_execute_cnt' =
       CASE q_decode_cnt \in {0, 1} -> q_execute_cnt
         [] q_decode_cnt = 2 -> rd_data
         [] OTHER -> clocksPerByte * Joined(rd_data, LowByte(q_execute_cnt))
  /\ Goto(IF q_decode_cnt <= 2 THEN stg0
          ELSE IF q_execute_cnt' # 0 THEN stg1 ELSE "S_DECODE")
  /\ NoSend /\ NoCfg /\ Errors(FALSE)

(* Faulty: the address moves on both clocks of a byte. *)
MemReadDummy_Moves(stg1) ==
  /\ q_state = stg1
  /\ q_execute_cnt % 2 = 0
  /\ q_execute_cnt' = LessOne(q_execute_cnt)
  /\ q_addr' = NextAddr
  /\ UNCHANGED <<q_state, q_decode_cnt>>
  /\ NoSend /\ NoCfg /\ Errors(FALSE)

(* CPU_MEM_RD and PPU_MEM_RD, second stage, even count: the clock on which the
   memory looks the byte up and tx_full catches up with the last request. *)
MemReadDummy(stg1) ==
  /\ q_state = stg1
  /\ q_execute_cnt % 2 = 0
  /\ q_execute_cnt' = LessOne(q_execute_cnt)
  /\ UNCHANGED <<q_state, q_decode_cnt, q_addr>>
  /\ NoSend /\ NoCfg /\ Errors(FALSE)

(* Faulty: no dummy clock, a byte on every clock. *)
MemReadByte_EveryClock(stg1, din) ==
  /\ q_state = stg1
  /\ ~tx_full
  /\ q_execute_cnt' = LessOne(q_execute_cnt)
  /\ Send(din)
  /\ q_addr' = NextAddr
  /\ Goto(IF q_execute_cnt' = 0 THEN "S_DECODE" ELSE stg1)
  /\ UNCHANGED q_decode_cnt
  /\ NoCfg /\ Errors(FALSE)

(* Faulty: sends whether there is room or not. *)
MemReadByte_Unguarded(stg1, din) ==
  /\ q_state = stg1
  /\ q_execute_cnt % 2 = 1
  /\ q_execute_cnt' = LessOne(q_execute_cnt)
  /\ Send(din)
  /\ q_addr' = NextAddr
  /\ Goto(IF q_execute_cnt' = 0 THEN "S_DECODE" ELSE stg1)
  /\ UNCHANGED q_decode_cnt
  /\ NoCfg /\ Errors(FALSE)

(* ... odd count: send the byte on the bus as soon as there is room. *)
MemReadByte(stg1, din) ==
  /\ q_state = stg1
  /\ q_execute_cnt % 2 = 1
  /\ ~tx_full
  /\ q_execute_cnt' = LessOne(q_execute_cnt)
  /\ Send(din)
  /\ q_addr' = NextAddr
  /\ Goto(IF q_execute_cnt' = 0 THEN "S_DECODE" ELSE stg1)
  /\ UNCHANGED q_decode_cnt
  /\ NoCfg /\ Errors(FALSE)

(* Faulty: ends with one byte still to come. *)
MemWriteByte_EndsEarly(stg1) ==
  /\ q_state = stg1 /\ ~rx_empty
  /\ q_execute_cnt' = LessOne(q_execute_cnt)
  /\ q_addr' = NextAddr
  /\ Goto(IF q_execute_cnt' <= 1 THEN "S_DECODE" ELSE stg1)
  /\ UNCHANGED q_decode_cnt
  /\ NoSend /\ NoCfg /\ Errors(FALSE)

(* CPU_MEM_WR and PPU_MEM_WR, second stage: the write itself is MemWrite or
   ppu_vram_wr, at the address before it moves on. *)
MemWriteByte(stg1) ==
  /\ q_state = stg1 /\ ~rx_empty
  /\ q_execute_cnt' = LessOne(q_execute_cnt)
  /\ q_addr' = NextAddr
  /\ Goto(IF q_execute_cnt' = 0 THEN "S_DECODE" ELSE stg1)
  /\ UNCHANGED q_decode_cnt
  /\ NoSend /\ NoCfg /\ Errors(FALSE)

CpuRegRd(cpu_dbgreg_in) ==
  /\ q_state = "S_CPU_REG_RD" /\ ~rx_empty /\ ~tx_full
  /\ Send(cpu_dbgreg_in)
  /\ Goto("S_DECODE")
  /\ UNCHANGED <<q_decode_cnt, q_execute_cnt, q_addr>>
  /\ NoCfg /\ Errors(FALSE)

(* The register number is kept in q_addr; the write is cpu_dbgreg_wr. *)
CpuRegWrSelect ==
  /\ q_state = "S_CPU_REG_WR_STG_0" /\ ~rx_empty
  /\ q_addr' = rd_data
  /\ Goto("S_CPU_REG_WR_STG_1")
  /\ UNCHANGED <<q_decode_cnt, q_execute_cnt>>
  /\ NoSend /\ NoCfg /\ Errors(FALSE)

CpuRegWrByte ==
  /\ q_state = "S_CPU_REG_WR_STG_1" /\ ~rx_empty
  /\ Goto("S_DECODE")
  /\ UNCHANGED <<q_decode_cnt, q_execute_cnt, q_addr>>
  /\ NoSend /\ NoCfg /\ Errors(FALSE)

QueryErrCode ==
  /\ q_state = "S_QUERY_ERR_CODE" /\ ~tx_full
  /\ Send(ErrByte)
  /\ Goto("S_DECODE")
  /\ UNCHANGED <<q_decode_cnt, q_execute_cnt, q_addr>>
  /\ NoCfg /\ Errors(FALSE)

(* Faulty: the address goes from one register straight to the next. *)
PpuDisable_NoGap ==
  /\ q_state = "S_PPU_DISABLE"
  /\ q_decode_cnt' = NextDecodeCnt
  /\ q_addr' = CASE q_decode_cnt \in {0, 1} -> PpuCtrl
                 [] q_decode_cnt \in {2, 3} -> PpuCtrl + 1
                 [] OTHER -> PpuCtrl + 2
  /\ Goto(IF q_decode_cnt = 5 THEN "S_DECODE" ELSE "S_PPU_DISABLE")
  /\ UNCHANGED q_execute_cnt
  /\ NoSend /\ NoCfg /\ Errors(FALSE)

(* Six clocks on the CPU bus: write 0 to 0x2000, write 0 to 0x2001, read
   0x2002, with address 0 in between. *)
PpuDisable ==
  /\ q_state = "S_PPU_DISABLE"
  /\ q_decode_cnt' = NextDecodeCnt
  /\ q_addr' = CASE q_decode_cnt = 0 -> PpuCtrl
                 [] q_decode_cnt = 2 -> PpuCtrl + 1
                 [] q_decode_cnt = 4 -> PpuCtrl + 2
                 [] q_decode_cnt \in {1, 3, 5} -> 0
                 [] OTHER -> q_addr
  /\ Goto(IF q_decode_cnt = 5 THEN "S_DECODE" ELSE "S_PPU_DISABLE")
  /\ UNCHANGED q_execute_cnt
  /\ NoSend /\ NoCfg /\ Errors(FALSE)

CartSetCfgStart ==
  /\ q_state = "S_CART_SET_CFG_STG_0"
  /\ q_execute_cnt' = 4
  /\ Goto("S_CART_SET_CFG_STG_1")
  /\ UNCHANGED <<q_decode_cnt, q_addr>>
  /\ NoSend /\ NoCfg /\ Errors(FALSE)

(* The count is tested before it is decremented: five bytes. *)
CartSetCfgByte ==
  /\ q_state = "S_CART_SET_CFG_STG_1" /\ ~rx_empty
  /\ q_execute_cnt' = LessOne(q_execute_cnt)
  /\ q_cart_cfg' = Append(Tail(q_cart_cfg), rd_data)
  /\ q_cart_cfg_upd' = (q_execute_cnt = 0)
  /\ Goto(IF q_execute_cnt = 0 THEN "S_DECODE" ELSE "S_CART_SET_CFG_STG_1")
  /\ UNCHANGED <<q_decode_cnt, q_addr>>
  /\ NoSend /\ Errors(FALSE)

(* One clock of the state machine. *)
Fsm(brk, cpu_din, ppu_vram_din, cpu_dbgreg_in) ==
  \/ Wait
  \/ Disabled(brk)
  \/ Decode
  \/ EchoHeader
  \/ EchoByte
  \/ MemHeader("S_CPU_MEM_RD_STG_0", "S_CPU_MEM_RD_STG_1", 2)
  \/ MemReadDummy("S_CPU_MEM_RD_STG_1")
  \/ MemReadByte("S_CPU_MEM_RD_STG_1", cpu_din)
  \/ MemHeader("S_CPU_MEM_WR_STG_0", "S_CPU_MEM_WR_STG_1", 1)
  \/ MemWriteByte("S_CPU_MEM_WR_STG_1")
  \/ CpuRegRd(cpu_dbgreg_in)
  \/ CpuRegWrSelect
  \/ CpuRegWrByte
  \/ QueryErrCode
  \/ MemHeader("S_PPU_MEM_RD_STG_0", "S_PPU_MEM_RD_STG_1", 2)
  \/ MemReadDummy("S_PPU_MEM_RD_STG_1")
  \/ MemReadByte("S_PPU_MEM_RD_STG_1", ppu_vram_din)
  \/ MemHeader("S_PPU_MEM_WR_STG_0", "S_PPU_MEM_WR_STG_1", 1)
  \/ MemWriteByte("S_PPU_MEM_WR_STG_1")
  \/ PpuDisable
  \/ CartSetCfgStart
  \/ CartSetCfgByte

(* One clock of the two FIFOs and of the parity flag.  The receiver does not
   look at the receive FIFO's full flag. *)
UartBuffers(brk, rx_done_tick, rx_data, parity_err, tx_done_tick) ==
  /\ rx_fifo' = RX!Clocked(rx_fifo, rd_en(brk), rx_done_tick, rx_data)
  /\ tx_fifo' = TX!Clocked(tx_fifo, tx_done_tick, q_wr_en, q_tx_data)
  /\ q_rx_parity_err' = (q_rx_parity_err \/ parity_err)

(* The block in an arbitrary environment. *)
Next ==
  \E brk, rx_done_tick, tx_done_tick, parity_err \in BOOLEAN,
     rx_data, din \in Byte :
    /\ Fsm(brk, din, din, din)
    /\ UartBuffers(brk, rx_done_tick, rx_data, parity_err, tx_done_tick)

Spec == Init /\ [][Next]_vars

--------------------------------------------------------------------------------

TypeOK ==
  /\ q_state \in States
  /\ q_decode_cnt \in 0 .. 7
  /\ q_execute_cnt \in 0 .. 2 * Wide - 1
  /\ q_addr \in 0 .. Wide - 1
  /\ q_err_code \in [parity : BOOLEAN, opcode : BOOLEAN]
  /\ q_cart_cfg \in Seq(Byte)
  /\ q_cart_cfg_upd \in BOOLEAN
  /\ q_tx_data \in Byte
  /\ q_wr_en \in BOOLEAN
  /\ q_rx_parity_err \in BOOLEAN
  /\ RX!TypeOK
  /\ TX!TypeOK

(* The states that look at tx_full before they send. *)
GuardedStates ==
  {"S_CPU_MEM_RD_STG_1", "S_PPU_MEM_RD_STG_1", "S_CPU_REG_RD", "S_QUERY_ERR_CODE"}

(***************************************************************************)
(* tx_full is looked at one clock before the registered request reaches    *)
(* the FIFO.  Whatever happens on that clock, a request that was guarded   *)
(* still finds room ("allow uart tx fifo 1 cycle to update tx_full         *)
(* setting", hci.v): no byte of a memory, register or error-code answer is *)
(* dropped.                                                                *)
(***************************************************************************)
GuardedSendsAccepted ==
  [][(q_state \in GuardedStates /\ q_wr_en') => ~(tx_full')]_vars

(* What that rests on: where tx_full is about to be believed, no request is
   under way that it does not account for yet. *)
NoRequestUnderWay ==
  /\ q_state \in {"S_CPU_REG_RD", "S_QUERY_ERR_CODE"} => ~q_wr_en
  /\ q_state \in {"S_CPU_MEM_RD_STG_1", "S_PPU_MEM_RD_STG_1"} /\ q_wr_en
       => q_execute_cnt % 2 = 0

================================================================================
