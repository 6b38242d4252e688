------------------------------- MODULE HciConsole ------------------------------
(***************************************************************************)
(* The debugger on its serial line is the console that the host program    *)
(* believes in: HciLink, clock by clock, with its FIFOs, UART and          *)
(* counters, implements Console, byte by byte.                             *)
(***************************************************************************)
EXTENDS HciLink

MemOps ==
  [S_CPU_MEM_RD_STG_0 |-> OP_CPU_MEM_RD, S_CPU_MEM_RD_STG_1 |-> OP_CPU_MEM_RD,
   S_CPU_MEM_WR_STG_0 |-> OP_CPU_MEM_WR, S_CPU_MEM_WR_STG_1 |-> OP_CPU_MEM_WR,
   S_PPU_MEM_RD_STG_0 |-> OP_PPU_MEM_RD, S_PPU_MEM_RD_STG_1 |-> OP_PPU_MEM_RD,
   S_PPU_MEM_WR_STG_0 |-> OP_PPU_MEM_WR, S_PPU_MEM_WR_STG_1 |-> OP_PPU_MEM_WR]

OtherOps ==
  [S_ECHO_STG_0 |-> OP_ECHO, S_ECHO_STG_1 |-> OP_ECHO,
   S_CPU_REG_RD |-> OP_CPU_REG_RD,
   S_CPU_REG_WR_STG_0 |-> OP_CPU_REG_WR, S_CPU_REG_WR_STG_1 |-> OP_CPU_REG_WR,
   S_CART_SET_CFG_STG_0 |-> OP_CART_SET_CFG, S_CART_SET_CFG_STG_1 |-> OP_CART_SET_CFG]

Reading == {"S_CPU_MEM_RD_STG_1", "S_PPU_MEM_RD_STG_1"}
Writing == {"S_CPU_MEM_WR_STG_1", "S_PPU_MEM_WR_STG_1"}
Moving  == Reading \cup Writing

(* PPU_DISABLE takes no bytes, and QUERY_ERR_CODE counts as taken when it is
   answered. *)
StateSeen ==
  CASE q_state = "S_DISABLED" -> "running"
    [] q_state \in {"S_DECODE", "S_PPU_DISABLE", "S_QUERY_ERR_CODE"} -> "decode"
    [] q_state \in Reading -> "answer"
    [] q_state \in Writing \cup {"S_ECHO_STG_1"} -> "data"
    [] OTHER -> "header"

OpSeen ==
  CASE q_state \in DOMAIN MemOps   -> MemOps[q_state]
    [] q_state \in DOMAIN OtherOps -> OtherOps[q_state]
    [] OTHER -> 0

(* The header so far is in the registers it has been shifted into. *)
HdrSeen ==
  CASE q_state \in DOMAIN MemOps \ Moving ->
         SubSeq(Ushort(q_addr) \o <<q_execute_cnt % Base>>, 1, q_decode_cnt)
    [] q_state = "S_ECHO_STG_0"         -> SubSeq(<<q_execute_cnt % Base>>, 1, q_decode_cnt)
    [] q_state = "S_CPU_REG_WR_STG_1"   -> <<q_addr>>
    [] q_state = "S_CART_SET_CFG_STG_1" -> SubSeq(q_cart_cfg, q_execute_cnt + 2, 5)
    [] OTHER -> <<>>

(* Reads count two clocks for each byte. *)
LeftSeen ==
  CASE q_state \in Reading -> (q_execute_cnt + 1) \div 2
    [] q_state \in Writing \cup {"S_ECHO_STG_1"} -> q_execute_cnt
    [] OTHER -> 0

LineSeen ==
  (IF q_state = "S_QUERY_ERR_CODE" THEN <<OP_QUERY_ERR_CODE>> ELSE <<>>)
    \o rx_fifo.entries
    \o (IF rx_done THEN <<rx_byte>> ELSE <<>>)
    \o line

AnswersSeen ==
  host.got \o tx_fifo.entries \o (IF q_wr_en THEN <<q_tx_data>> ELSE <<>>)

(* The memories repeat; 0x2000 and above is not RAM. *)
RamCell(a)  == IF a < PpuCtrl THEN a % RamSize ELSE RamSize
VramCell(a) == a % VramSize

C == INSTANCE Console WITH
       CpuCells <- 0 .. RamSize - 1, PpuCells <- 0 .. VramSize - 1,
       CpuCell <- RamCell, PpuCell <- VramCell,
       MaxCount <- Wide - 1, CpuResults <- Byte,
       state <- StateSeen, op <- OpSeen, hdr <- HdrSeen,
       addr <- IF q_state \in Moving THEN q_addr ELSE 0,
       left <- LeftSeen,
       cpuMem <- ram, ppuMem <- vram,
       regs <- [r \in 0 .. 6 |-> IF r \in RegSels THEN regs[r] ELSE RegAtReset(r)],
       cfg <- q_cart_cfg, err <- q_err_code.opcode, ppuOn <- FALSE,
       line <- LineSeen, answers <- AnswersSeen, open <- TRUE

(***************************************************************************)
(* However bytes, clocks, FIFOs and breaks fall together, every byte of    *)
(* the line is obeyed once and in order, and answered as Console says; no  *)
(* byte is lost, and none is taken twice, on either side.                  *)
(***************************************************************************)
ImplementsConsole == C!ConsoleSpec
================================================================================
