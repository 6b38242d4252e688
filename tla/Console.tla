-------------------------------- MODULE Console --------------------------------
(***************************************************************************)
(* The console as the host sees it: the debugger of hw/src/hci/hci.v one   *)
(* byte at a time, without clocks, FIFOs or UART.  Bytes that the host has *)
(* sent wait on the line; answers wait until the host reads them, and are  *)
(* lost while no program has the serial port open.                         *)
(***************************************************************************)
EXTENDS DbgPackets, SequencesExt

CONSTANTS
  CpuCells, PpuCells,    \* the cells of both memories that matter
  CpuCell(_), PpuCell(_),    \* the cell that an address selects
  MaxCount,              \* bound: no packet moves more bytes
  CpuResults             \* what a program may leave in the accumulator

ASSUME ConsoleAssumption ==
  /\ Base \in Nat /\ Base > DbgPacketOpCode.CartSetCfg
  /\ MaxCount \in Nat /\ CpuResults \subseteq 0 .. Base - 1

VARIABLES
  state,     \* "running", "decode", "header", "data" or "answer"
  op, hdr,   \* the packet that is being received: opcode and header so far
  addr,      \* address of the next byte of a memory packet
  left,      \* bytes of data or of answer to come
  cpuMem, ppuMem, regs,
  cfg,       \* cartridge configuration
  err,       \* an unknown opcode has been met
  ppuOn,     \* the program has enabled the PPU
  line,      \* bytes on their way to the console
  answers,   \* bytes on their way to the host
  open       \* a program has the port open

memVars     == <<cpuMem, ppuMem, regs, cfg, err, ppuOn>>
parseVars   == <<state, op, hdr, addr, left>>
consoleVars == <<parseVars, memVars, line, answers, open>>

LOCAL Op == DbgPacketOpCode
Byte == 0 .. Base - 1

ConsoleInit ==
  /\ state = "decode"    \* out of reset the console is in a debug break
  /\ op = 0 /\ hdr = <<>> /\ addr = 0 /\ left = 0
  /\ cpuMem = [a \in CpuCells |-> 0]
  /\ ppuMem = [a \in PpuCells |-> 0]
  /\ regs = [r \in 0 .. 6 |-> RegAtReset(r)]
  /\ cfg = <<0, 0, 0, 0, 0>>
  /\ err = FALSE /\ ppuOn = FALSE
  /\ line = <<>> /\ answers = <<>>

--------------------------------------------------------------------------------
(* Parts of the actions. *)

Cell(mem, a) == IF a \in DOMAIN mem THEN mem[a] ELSE 0

Put(mem, a, b) == IF a \in DOMAIN mem THEN [mem EXCEPT ![a] = b] ELSE mem

NextAddr == (addr + 1) % (Base * Base)

Answer(b) == answers' = IF open THEN Append(answers, b) ELSE answers
Silence   == UNCHANGED answers

(* Back to the start of a packet. *)
EndPacket ==
  /\ state' = "decode"
  /\ op' = 0 /\ hdr' = <<>> /\ addr' = 0 /\ left' = 0

HeaderSize(o) ==
  CASE o = Op.Echo -> 2
    [] o \in {Op.CpuMemRd, Op.CpuMemWr, Op.PpuMemRd, Op.PpuMemWr} -> 4
    [] o = Op.CpuRegRd -> 1
    [] o = Op.CpuRegWr -> 2
    [] o = Op.CartSetCfg -> 5
    [] OTHER -> 0

(* S_DISABLED: every byte is thrown away but a break and a query. *)
WhileRunning(b) ==
  /\ state = "running"
  /\ IF b = Op.DbgHlt THEN EndPacket ELSE UNCHANGED parseVars
  /\ IF b = Op.QueryHlt THEN Answer(0) ELSE Silence
  /\ UNCHANGED memVars

(* S_DECODE: the packets of one byte are obeyed, the others begin. *)
Opcode(b) ==
  /\ state = "decode"
  /\ \/ /\ HeaderSize(b) > 0
        /\ state' = "header" /\ op' = b
        /\ UNCHANGED <<hdr, addr, left>>
     \/ /\ HeaderSize(b) = 0
        /\ state' = IF b = Op.DbgRun THEN "running" ELSE "decode"
        /\ UNCHANGED <<op, hdr, addr, left>>
  /\ CASE b = Op.QueryHlt     -> Answer(1)
       [] b = Op.QueryErrCode -> Answer(IF err THEN 2 ELSE 0)
       [] OTHER               -> Silence
  /\ err' = (err \/ b > Op.CartSetCfg)
  /\ ppuOn' = (ppuOn /\ b # Op.PpuDisable)
  /\ UNCHANGED <<cpuMem, ppuMem, regs, cfg>>

(* The configuration is a shift register of the bytes of its packet. *)
ShiftedIn(b) == IF op = Op.CartSetCfg THEN Append(Tail(cfg), b) ELSE cfg

(* A byte of the header, not the last. *)
HeaderByte(b) ==
  /\ state = "header" /\ Len(hdr) + 1 < HeaderSize(op)
  /\ hdr' = Append(hdr, b)
  /\ cfg' = ShiftedIn(b)
  /\ Silence
  /\ UNCHANGED <<state, op, addr, left, cpuMem, ppuMem, regs, err, ppuOn>>

(* The last byte of the header of a packet with bytes to move: to the data,
   or to the answer, unless there are none. *)
CountRead(b) ==
  LET count == FromUshort(hdr[Len(hdr)], b)
      n == IF count > MaxCount THEN MaxCount ELSE count
  IN  /\ state = "header" /\ Len(hdr) + 1 = HeaderSize(op)
      /\ op \in {Op.Echo, Op.CpuMemRd, Op.CpuMemWr, Op.PpuMemRd, Op.PpuMemWr}
      /\ \/ n = 0 /\ EndPacket
         \/ /\ n > 0
            /\ state' = IF op \in {Op.CpuMemRd, Op.PpuMemRd} THEN "answer" ELSE "data"
            /\ addr' = IF op = Op.Echo THEN 0 ELSE FromUshort(hdr[1], hdr[2])
            /\ left' = n
            /\ hdr' = <<>>
            /\ UNCHANGED op
      /\ Silence
      /\ UNCHANGED memVars

(* The last byte of a packet that is all header. *)
LastByte(b) ==
  /\ state = "header" /\ Len(hdr) + 1 = HeaderSize(op)
  /\ op \in {Op.CpuRegRd, Op.CpuRegWr, Op.CartSetCfg}
  /\ IF op = Op.CpuRegRd THEN Answer(Cell(regs, b % 16)) ELSE Silence
  /\ regs' = IF op = Op.CpuRegWr
               THEN LET r == hdr[1] % 16 IN Put(regs, r, RegWritten(r, Cell(regs, r), b))
               ELSE regs
  /\ cfg' = ShiftedIn(b)
  /\ EndPacket
  /\ UNCHANGED <<cpuMem, ppuMem, err, ppuOn>>

(* One byte moved: the next address, or the end of the packet. *)
Moved ==
  IF left = 1 THEN EndPacket
  ELSE /\ left' = left - 1
       /\ addr' = IF op = Op.Echo THEN addr ELSE NextAddr
       /\ UNCHANGED <<state, op, hdr>>

DataByte(b) ==
  /\ state = "data"
  /\ IF op = Op.Echo THEN Answer(b) ELSE Silence
  /\ cpuMem' = IF op = Op.CpuMemWr THEN Put(cpuMem, CpuCell(addr), b) ELSE cpuMem
  /\ ppuMem' = IF op = Op.PpuMemWr THEN Put(ppuMem, PpuCell(addr), b) ELSE ppuMem
  /\ Moved
  /\ UNCHANGED <<regs, cfg, err, ppuOn>>

--------------------------------------------------------------------------------
(* The steps of the console. *)

(* The debugger takes the next byte of the line. *)
Consume ==
  /\ line # <<>>
  /\ LET b == Head(line)
     IN \/ WhileRunning(b)
        \/ Opcode(b)
        \/ HeaderByte(b)
        \/ CountRead(b)
        \/ LastByte(b)
        \/ DataByte(b)
  /\ line' = Tail(line)
  /\ UNCHANGED open

(* A memory is read out; nothing is taken from the line meanwhile. *)
AnswerByte ==
  /\ state = "answer"
  /\ Answer(IF op = Op.CpuMemRd THEN Cell(cpuMem, CpuCell(addr))
                               ELSE Cell(ppuMem, PpuCell(addr)))
  /\ Moved
  /\ UNCHANGED <<memVars, line, open>>

(* The program executes HLT.  Registers are left as the program likes. *)
CpuHalts ==
  /\ state = "running"
  /\ EndPacket
  /\ \E r \in CpuResults : regs' = [regs EXCEPT ![CpuReg.Ac] = r]
  /\ UNCHANGED <<cpuMem, ppuMem, cfg, err, ppuOn, line, answers, open>>

CpuEnablesPpu ==
  /\ state = "running"
  /\ ppuOn' = TRUE
  /\ UNCHANGED <<parseVars, cpuMem, ppuMem, regs, cfg, err, line, answers, open>>

(* What the host may do to the line: send more, and read answers, in order. *)
HostTurn ==
  /\ open
  /\ IsPrefix(line, line')
  /\ IsSuffix(answers', answers)
  /\ UNCHANGED <<parseVars, memVars, open>>

(* A console that is not reset, with a program that has the port open. *)
ConsoleNext ==
  \/ Consume
  \/ AnswerByte
  \/ CpuHalts
  \/ CpuEnablesPpu
  \/ HostTurn

ConsoleSpec == ConsoleInit /\ open = TRUE /\ [][ConsoleNext]_consoleVars

(* The reset button.  Memories keep their contents; what is in the FIFOs, here
   any part of the line and of the answers, is lost. *)
ResetButton ==
  /\ EndPacket
  /\ regs' = [r \in 0 .. 6 |-> RegAtReset(r)]
  /\ cfg' = <<0, 0, 0, 0, 0>>
  /\ err' = FALSE /\ ppuOn' = FALSE
  /\ \E n \in 0 .. Len(line) : line' = SubSeq(line, n + 1, Len(line))
  /\ \E n \in 0 .. Len(answers) : answers' = SubSeq(answers, 1, n)
  /\ UNCHANGED <<cpuMem, ppuMem, open>>

(* Nothing more will come from the console by itself. *)
Silent == line = <<>> /\ state # "answer"
================================================================================
