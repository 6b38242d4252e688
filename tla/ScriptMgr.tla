------------------------------- MODULE ScriptMgr -------------------------------
(***************************************************************************)
(* The script manager: the test script dialog (sw/src/scriptmgrdlg.cpp)    *)
(* and the functions a Lua script may call (sw/src/scriptmgr.cpp).  A      *)
(* script is any sequence of such calls, and a run executes the selected   *)
(* scripts one after the other.                                            *)
(***************************************************************************)
EXTENDS SerialComm

CONSTANTS
  Addrs, Counts, Tables,    \* arguments of the memory functions and of Echo
  RegSels, Values,          \* arguments of the register functions
  AsmFiles,                 \* contents of the .prg files, address first
  MaxScripts                \* bound: scripts selected for one run

ASSUME ScriptAssumption ==
  /\ Addrs \subseteq Nat /\ Counts \subseteq Nat /\ Values \subseteq Nat
  /\ RegSels \subseteq 0 .. 15
  /\ \A file \in AsmFiles : Len(file) >= 2

VARIABLES
  m_hWndDlg,    \* there is a script dialog to write to
  shown         \* what it shows: progress and results

scriptVars == <<m_hWndDlg, shown>>

ScriptResult == {"pass", "fail", "error"}

NothingShown == [done |-> 0, of |-> 0, pass |-> 0, fail |-> 0, error |-> 0]

--------------------------------------------------------------------------------
(* Writing to the dialog.  A message to a window that is gone is lost: in a
   release build assert(m_hWndDlg) is evaluated and ignored (util.h:60).  In a
   debug build it fails, at the next script's progress or in a script's print. *)

AssertionFails == ~m_hWndDlg /\ (At("TestScriptDlgRun") \/ At("ExecuteScript"))

SetProgress(was, done, of) == [was EXCEPT !.done = done, !.of = of]

SetResults(was, run) ==
  [was EXCEPT !.pass = run.pass, !.fail = run.fail, !.error = run.error]

Show(now) == shown' = IF m_hWndDlg THEN now ELSE shown

--------------------------------------------------------------------------------
(* The dialog. *)

(* WM_INITDIALOG comes before DialogBox's loop. *)
LaunchTestScriptDlg ==
  /\ MenuPicked("TestScripts")
  /\ Call(Dialog("TestScriptDlg"))
  /\ m_hWndDlg' = TRUE
  /\ shown' = NothingShown
  /\ NoTraffic
  /\ UNCHANGED quit

(* "Run", which the user can also press while a script waits behind a box. *)
TestScriptDlgRun ==
  /\ Pressed("TestScriptDlg")
  /\ \/ /\ Call(Box("No tests selected."))
        /\ UNCHANGED shown
     \/ \E n \in 1 .. MaxScripts :
          LET run == [at |-> "TestScriptDlgRun", i |-> 0, n |-> n,
                      pass |-> 0, fail |-> 0, error |-> 0]
          IN  Call(run) /\ Show(SetResults(shown, run))
  /\ NoTraffic
  /\ UNCHANGED <<quit, m_hWndDlg>>

(* Faulty: a count is set, not raised. *)
Tallied_Overwrites(run, result) == [run EXCEPT !.i = @ + 1, ![result] = 1]

(* Faulty: the same script over and over. *)
Tallied_SameIndex(run, result) == [run EXCEPT !.i = 1, ![result] = 1]

Tallied(run, result) == [run EXCEPT !.i = @ + 1, ![result] = @ + 1]

(* The next script.  Without the dialog its name cannot be had, and what is
   executed is the directory itself, which Lua cannot open. *)
RunScript ==
  /\ At("TestScriptDlgRun")
  /\ LET run == Head(stack)
     IN  /\ run.i < run.n
         /\ IF m_hWndDlg THEN Call(Frame("ExecuteScript"))
            ELSE Become(Tallied(run, "error"))
         /\ Show(SetProgress(shown, run.i, run.n))
  /\ NoTraffic
  /\ UNCHANGED <<quit, m_hWndDlg>>

(* The script returns a result or fails; one that returns nothing has what
   an earlier one left on Lua's stack. *)
ScriptEnds ==
  /\ At("ExecuteScript")
  /\ \E result \in ScriptResult :
       LET run == Tallied(stack[2], result)
       IN  /\ stack' = <<run>> \o SubSeq(stack, 3, Len(stack))
           /\ Show(SetResults(shown, run))
  /\ NoTraffic
  /\ UNCHANGED <<quit, m_hWndDlg>>

RunEnds ==
  /\ At("TestScriptDlgRun")
  /\ LET run == Head(stack)
     IN  /\ run.i = run.n
         /\ Show(SetProgress(shown, run.n, run.n))
  /\ Return
  /\ NoTraffic
  /\ UNCHANGED <<quit, m_hWndDlg>>

(* "Done", which the user can also press behind a box. *)
TestScriptDlgDone ==
  /\ Pumping /\ Live("TestScriptDlg") # {}
  /\ EndDialog("TestScriptDlg")
  /\ m_hWndDlg' = FALSE
  /\ shown' = NothingShown
  /\ NoTraffic
  /\ UNCHANGED quit

--------------------------------------------------------------------------------
(* The Lua functions.  print, whose text is left out, and a call with arguments
   of the wrong type change nothing. *)

InScript(p) == At("ExecuteScript") /\ Heeded(p)

Quietly == UNCHANGED <<quit, scriptVars>>

(* A function that sends a packet and returns, and one that reads the answer
   into a new buffer before it returns. *)
Posts(p) ==
  /\ InScript(p)
  /\ SendData(p, <<>>)
  /\ Stay
  /\ Quietly

Asks(p) ==
  /\ InScript(p)
  /\ SendData(p, <<>>)
  /\ Call([at |-> "LuaRead", p |-> p])
  /\ Quietly

LuaRead ==
  /\ At("LuaRead")
  /\ \E before \in Junk :
       LET p == Head(stack).p IN ReceiveData(p, Received(p.expects, before))
  /\ Return
  /\ UNCHANGED <<quit, scriptVars>>

(* Numbers are cut to the width of their C type; an entry that a table does
   not have is 0. *)
USHORT(n) == n % (Base * Base)
Copied(table, n) == [i \in 1 .. n |-> IF i <= Len(table) THEN table[i] % Base ELSE 0]

LuaEcho ==
  \E n \in Counts, table \in Tables : Asks(EchoPacket(Copied(table, USHORT(n))))

LuaCpuMemRd ==
  \E a \in Addrs, n \in Counts : Asks(CpuMemRdPacket(USHORT(a), USHORT(n)))

LuaCpuMemWr ==
  \E a \in Addrs, n \in Counts, table \in Tables :
    Posts(CpuMemWrPacket(USHORT(a), Copied(table, USHORT(n))))

LuaPpuMemRd ==
  \E a \in Addrs, n \in Counts : Asks(PpuMemRdPacket(USHORT(a), USHORT(n)))

LuaPpuMemWr ==
  \E a \in Addrs, n \in Counts, table \in Tables :
    Posts(PpuMemWrPacket(USHORT(a), Copied(table, USHORT(n))))

LuaCpuRegRd == \E sel \in RegSels : Asks(CpuRegRdPacket(sel))

LuaCpuRegWr ==
  \E sel \in RegSels, val \in Values : Posts(CpuRegWrPacket(sel, val % Base))

LuaDbgHlt == Posts(DbgHltPacket)

LuaDbgRun == Posts(DbgRunPacket)

(* The query is sent until its answer is not 0. *)
LuaWaitForHlt ==
  /\ InScript(QueryHltPacket)
  /\ SendData(QueryHltPacket, <<>>)
  /\ Call([at |-> "WaitForHlt", asked |-> TRUE])
  /\ Quietly

(* Faulty: the loop ends after any answer. *)
WaitForHltAnswered_AnyAnswer ==
  /\ At("WaitForHlt") /\ Head(stack).asked
  /\ \E before \in Junk \cup {0} : ReceiveData(QueryHltPacket, Received(1, before))
  /\ Return
  /\ UNCHANGED <<quit, scriptVars>>

(* One buffer serves all the reads; it holds 0 when a second one is made. *)
WaitForHltAnswered ==
  /\ At("WaitForHlt") /\ Head(stack).asked
  /\ \E before \in Junk \cup {0} :
       LET got == Received(1, before)
       IN  /\ ReceiveData(QueryHltPacket, got)
           /\ IF got = <<0>> THEN Become([at |-> "WaitForHlt", asked |-> FALSE])
              ELSE Return
  /\ UNCHANGED <<quit, scriptVars>>

WaitForHltAgain ==
  /\ At("WaitForHlt") /\ ~Head(stack).asked
  /\ SendData(QueryHltPacket, <<>>)
  /\ Become([at |-> "WaitForHlt", asked |-> TRUE])
  /\ Quietly

(* The file's first two bytes are the address of the others.  A file that
   cannot be read is told in a box, behind which the script waits. *)
LuaLoadAsm ==
  \/ \E file \in AsmFiles :
       Posts(CpuMemWrPacket(FromUshort(file[1], file[2]), SubSeq(file, 3, Len(file))))
  \/ /\ At("ExecuteScript")
     /\ \E text \in {"Failed to read data from .prg file.", "Failed to open .prg file."} :
          Call(Box(text))
     /\ NoTraffic
     /\ Quietly

--------------------------------------------------------------------------------

(* What the program does by itself. *)
ScriptMgrGoesOn ==
  \/ RunScript
  \/ RunEnds
  \/ LuaRead
  \/ WaitForHltAnswered
  \/ WaitForHltAgain

(* What the user does, and what scripts do. *)
ScriptMgrUsed ==
  \/ LaunchTestScriptDlg
  \/ TestScriptDlgRun
  \/ TestScriptDlgDone

ScriptCalls ==
  \/ LuaEcho
  \/ LuaCpuMemRd
  \/ LuaCpuMemWr
  \/ LuaPpuMemRd
  \/ LuaPpuMemWr
  \/ LuaCpuRegRd
  \/ LuaCpuRegWr
  \/ LuaDbgHlt
  \/ LuaDbgRun
  \/ LuaWaitForHlt
  \/ LuaLoadAsm
================================================================================
