---------------------------------- MODULE Host ---------------------------------
(***************************************************************************)
(* The host program and the console it debugs, with the user who handles   *)
(* both: NesDbg and ScriptMgr share the thread, the windows and the serial *)
(* port, and take turns with Console.                                      *)
(***************************************************************************)
EXTENDS NesDbg, ScriptMgr

CONSTANT Faults    \* bound: which of "kill" and "reset" happen

hostVars == <<consoleVars, windowVars, historyVars, starts, scriptVars>>

(* A console that has just been switched on, and a program that has not been
   started yet, or that has found the console. *)
HostInit(connected) ==
  /\ ConsoleInit
  /\ open = connected
  /\ stack = IF connected THEN <<Frame("GetMessage")>> ELSE <<>>
  /\ quit = FALSE /\ starts = 0
  /\ tracked = "stopped" /\ misled = FALSE /\ loaded = <<>>
  /\ m_hWndDlg = FALSE /\ shown = NothingShown

--------------------------------------------------------------------------------
(* The steps of the program leave the console alone, and each of its parts
   leaves the variables of the others. *)

ConsoleWaits == UNCHANGED <<parseVars, memVars>>

NesDbgStep(step)    == step /\ ConsoleWaits /\ UNCHANGED scriptVars
ScriptMgrStep(step) == step /\ ConsoleWaits /\ UNCHANGED starts
WindowStep(step)    == step /\ ConsoleWaits /\ NoTraffic /\ UNCHANGED <<starts, scriptVars>>
ConsoleStep(step)   == step /\ UNCHANGED <<windowVars, historyVars, starts, scriptVars>>

ProgramGoesOn ==
  \/ NesDbgStep(NesDbgGoesOn)
  \/ ScriptMgrStep(ScriptMgrGoesOn)
  \/ WindowStep(DialogReturns)

Used ==
  \/ NesDbgStep(NesDbgUsed)
  \/ ScriptMgrStep(ScriptMgrUsed)
  \/ WindowStep(CloseMain)

BoxDismissed == WindowStep(DismissBox)
ScriptCalled == ScriptMgrStep(ScriptCalls)
ScriptOver   == ScriptMgrStep(ScriptEnds)

ConsoleWorks == ConsoleStep(Consume \/ AnswerByte)
ProgramHalts == ConsoleStep(CpuHalts)
PpuEnabled   == ConsoleStep(CpuEnablesPpu)

(* Killed by somebody, or by itself: a debug build stops at an assertion that
   fails (util.h, DebugBreak), and a release build goes on. *)
Killed ==
  /\ "kill" \in Faults \/ AssertionFails
  /\ Kill
  /\ m_hWndDlg' = FALSE /\ shown' = NothingShown
  /\ ConsoleWaits

(* Bound: the console is reset only while nothing is on the line. *)
Idle == Silent /\ answers = <<>> /\ ~Reading

ConsoleReset ==
  /\ "reset" \in Faults /\ Idle
  /\ ResetButton
  /\ tracked' = IF At("LoadRom") THEN "lost" ELSE "stopped"
  /\ loaded' = <<>>
  /\ UNCHANGED <<misled, windowVars, starts, scriptVars>>

HostNext ==
  \/ ProgramGoesOn
  \/ Used
  \/ BoxDismissed
  \/ ScriptCalled
  \/ ScriptOver
  \/ ConsoleWorks
  \/ ProgramHalts
  \/ PpuEnabled
  \/ Killed
  \/ ConsoleReset

(* The program's thread and the console go on; nobody has to use them. *)
Going == WF_hostVars(ProgramGoesOn) /\ WF_hostVars(ConsoleWorks)

HostSpec == HostInit(FALSE) /\ [][HostNext]_hostVars /\ Going

(* For a session of scripts: the programs on the console come to their HLT,
   a script does not call functions for ever, and boxes and dialogs are
   closed. *)
ScriptsSpec ==
  /\ HostInit(TRUE) /\ [][HostNext]_hostVars
  /\ Going
  /\ WF_hostVars(ProgramHalts)
  /\ SF_hostVars(ScriptOver)
  /\ SF_hostVars(BoxDismissed)
  /\ SF_hostVars(ScriptMgrStep(TestScriptDlgDone))

--------------------------------------------------------------------------------

(***************************************************************************)
(* Callers of ReceiveData do not look at its result.  As long as packets   *)
(* are sent only to a console that listens, they need not: every read      *)
(* returns in full, with the answer to the packet that was sent just       *)
(* before and not to an earlier one, though writes are never acknowledged  *)
(* and scripts, the raw debugger and LoadRom share the line.               *)
(***************************************************************************)
AnswersBelong == ~misled

(* Host and console do not drift apart: when nothing is under way a console
   that was left stopped is between two packets, one that was left running
   runs or has halted there, and no answer is left over for the next read. *)
InStep ==
  line = <<>> /\ ~Reading =>
    /\ tracked = "stopped" => state = "decode"
    /\ tracked = "running" => state \in {"running", "decode"}
    /\ tracked # "lost" => answers = <<>>

(* WaitForHlt keeps its script back until the console has stopped, however
   the program on the console and the queries interleave. *)
WaitEndsHalted ==
  [][ At("WaitForHlt") /\ stack' = Tail(stack) /\ tracked # "lost" => state = "decode" ]_hostVars

(* The dialog's tally is right when no run is under way, also after runs
   that the user started behind the boxes of others, or in a dialog opened
   there: every script of the last run to finish has been counted, once, and
   none of another run. *)
TallyAddsUp ==
  m_hWndDlg /\ ~UnderWay("TestScriptDlgRun") =>
    /\ shown.done = shown.of
    /\ shown.pass + shown.fail + shown.error = shown.of

(* A run comes to its end, with whatever happens behind its boxes: the
   user ends the dialog, opens another, starts further runs, or closes the
   program.  Where a run has lost its dialog the end is that of its loop in a
   release build, and in a debug build also that of the program, at
   assert(m_hWndDlg). *)
RunsEnd == UnderWay("TestScriptDlgRun") ~> ~UnderWay("TestScriptDlgRun")

(***************************************************************************)
(* A ROM that has been sent runs: the console gets out of its debug break  *)
(* with the file's data in both memories, its header in the cartridge      *)
(* configuration, the program counter at its reset vector, and the PPU     *)
(* off, although LoadRom gets no answer, may have found the console        *)
(* running, and stops watching once it has sent the last packet.           *)
(***************************************************************************)
RunsRom(rom) ==
  LET prg == rom[5] * PrgBank
      in(i, b) == i <= Len(rom) => b = rom[i]
  IN  /\ state = "running" /\ ~ppuOn
      /\ \A i \in 1 .. 5 : in(4 + i, cfg[i])
      /\ \A a \in CpuCells :
           a \in 32768 .. 32768 + prg - 1 => in(17 + (a - 32768), cpuMem[a])
      /\ \A a \in PpuCells :
           a < rom[6] * ChrBank => in(17 + prg + a, ppuMem[a])
      /\ in((17 + prg) - 4, regs[CpuReg.Pcl])
      /\ in((17 + prg) - 3, regs[CpuReg.Pch])

RomRuns ==
  loaded # <<>> /\ line # <<>> ~> (loaded = <<>> \/ RunsRom(loaded))

(* The program refuses a console only if the console was running, or in the
   middle of something, when the program started, or was cut off since: a
   console between two packets, with nothing on the line, is always found,
   whatever an earlier program has been cut off in.  Not that it is found
   rightly: where a program is killed just after its echo has been sent, the
   next may take the answer to that echo for its own, and is a packet behind
   from then on. *)
Refused == Shows("NES FPGA not connected.")

RefusalMeansLost == [][ ~Refused /\ Refused' => tracked = "lost" ]_hostVars
================================================================================
