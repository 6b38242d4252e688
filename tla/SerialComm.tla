------------------------------- MODULE SerialComm ------------------------------
(***************************************************************************)
(* sw/src/serialcomm.cpp: sending to and receiving from the console.       *)
(*                                                                         *)
(* Three variables do not belong to the program but keep its history.      *)
(* tracked is what a careful observer can say of the console from the      *)
(* packets sent: "stopped", "running" (or stopped since, by itself), or    *)
(* "lost" once a packet has been sent to a console that does not listen,   *)
(* or a transfer has been cut off.  misled tells that an answer was wrong  *)
(* although the console was not lost; loaded is the ROM file whose loading *)
(* was the last thing sent, or empty.                                      *)
(***************************************************************************)
EXTENDS Windows

CONSTANTS
  Junk,       \* what uninitialised memory may hold
  MaxLine     \* bytes the serial driver buffers

ASSUME SerialAssumption == Junk # {} /\ Junk \subseteq 0 .. Base - 1

VARIABLES tracked, misled, loaded

historyVars == <<tracked, misled, loaded>>
serialVars  == <<line, answers, open, historyVars>>

LOCAL Op == DbgPacketOpCode

OpCode(p) == Head(p.data)

(* A packet is under way to a console that the host waits for. *)
Reading ==
  \E at \in {"EchoRead", "RawRead", "LuaRead", "WaitForHlt"} : At(at)

NoTraffic == UNCHANGED serialVars

--------------------------------------------------------------------------------

(* The console after the packet: while it runs it only listens for a break
   and for QUERY_DBG_BRK. *)
TrackedAfter(p) ==
  CASE tracked = "stopped" -> IF OpCode(p) = Op.DbgRun THEN "running" ELSE "stopped"
    [] tracked = "running" /\ OpCode(p) = Op.DbgHlt   -> "stopped"
    [] tracked = "running" /\ OpCode(p) = Op.QueryHlt -> "running"
    [] OTHER -> "lost"

(* Users and scripts are assumed to send only what the console will listen to:
   nothing but a break or a query once they have set it running. *)
Heeded(p) == TrackedAfter(p) # "lost"

(* WriteFile returns when the driver has taken all the bytes; the write
   timeout, 50 ms and 10 ms for each byte, is far longer than they need. *)
SendData(p, rom) ==
  /\ line = <<>> \/ Len(line) + SizeInBytes(p) <= MaxLine
  /\ line' = line \o p.data
  /\ tracked' = TrackedAfter(p)
  /\ loaded' = rom
  /\ UNCHANGED <<answers, open, misled>>

(* Faulty: a time limit that a console at work can exceed. *)
MayReceive_TimesOutEarly(n) == TRUE

(* ReadFile returns with all the bytes or, after 5 s in which the console has
   long finished, with fewer. *)
MayReceive(n) == Len(answers) >= n \/ Silent

(* The buffer after the read; what has not come is as it was before. *)
Received(n, before) ==
  [i \in 1 .. n |-> IF i <= Len(answers) THEN answers[i] ELSE before]

(* The answer to p of a console that obeyed it. *)
Belongs(p, got) ==
  LET word(i) == FromUshort(p.data[i], p.data[i + 1])
      cells(mem) == [i \in 1 .. word(4) |-> Cell(mem, (word(2) + i - 1) % (Base * Base))]
  IN  CASE OpCode(p) = Op.Echo     -> got = SubSeq(p.data, 4, Len(p.data))
        [] OpCode(p) = Op.CpuMemRd -> got = cells(cpuMem)
        [] OpCode(p) = Op.PpuMemRd -> got = cells(ppuMem)
        [] OpCode(p) = Op.CpuRegRd -> got = <<Cell(regs, p.data[2])>>
        [] OpCode(p) = Op.QueryHlt -> got = <<0>> \/ (got = <<1>> /\ state # "running")
        [] OTHER                   -> got = <<>>

ReceiveData(p, got) ==
  LET n == p.expects
  IN  /\ MayReceive(n)
      /\ answers' = SubSeq(answers, n + 1, Len(answers))
      /\ misled' = (misled \/ (tracked # "lost" /\ (Len(answers) < n \/ ~Belongs(p, got))))
      /\ tracked' = IF tracked = "running" /\ OpCode(p) = Op.QueryHlt /\ got = <<1>>
                      THEN "stopped" ELSE tracked
      /\ UNCHANGED <<line, open, loaded>>

(* CreateFile: from now on the answers of the console are kept. *)
OpenPort ==
  /\ open' = TRUE
  /\ tracked' = CASE Silent /\ state = "decode"  -> "stopped"
                  [] Silent /\ state = "running" -> "running"
                  [] OTHER -> "lost"
  /\ UNCHANGED <<line, answers, misled, loaded>>

(* ~SerialComm *)
ClosePort ==
  /\ open' = FALSE
  /\ answers' = <<>>
  /\ UNCHANGED <<line, historyVars>>
================================================================================
