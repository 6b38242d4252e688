-------------------------------- MODULE Windows --------------------------------
(***************************************************************************)
(* What the host program of sw/src rests on: one thread, whose calls nest. *)
(* A message box or a dialog box runs a message loop of its own until it   *)
(* is closed, and such a loop serves every window of the program, not only *)
(* its own: what the user does there is called from inside the loop.       *)
(*                                                                         *)
(* stack holds the calls under way, innermost first, each a record whose   *)
(* field at names the function.  It is empty while no program runs.        *)
(***************************************************************************)
EXTENDS Console

CONSTANTS
  Menu,        \* bound: items of the main menu that the user picks
  MaxDepth     \* bound: calls under way when the user starts another

VARIABLES
  stack,
  quit         \* WM_QUIT has been posted

windowVars == <<stack, quit>>

Frame(at) == [at |-> at]
Box(text) == [at |-> "MessageBox", text |-> text]
Dialog(at) == [at |-> at, ended |-> FALSE]

At(at) == stack # <<>> /\ Head(stack).at = at
UnderWay(at) == \E i \in DOMAIN stack : stack[i].at = at
Shows(text) == \E i \in DOMAIN stack : stack[i] = Box(text)

Call(frame)   == stack' = <<frame>> \o stack
Return        == stack' = Tail(stack)
Become(frame) == stack' = <<frame>> \o Tail(stack)
Stay          == UNCHANGED stack

--------------------------------------------------------------------------------

Dialogs == {"RawDbgDlg", "TestScriptDlg"}

(* Where a dialog box of this kind is, if the user has not ended it. *)
Live(at) == {i \in DOMAIN stack : stack[i].at = at /\ ~stack[i].ended}

EndDialog(at) ==
  stack' = [i \in DOMAIN stack |->
              IF i \in Live(at) THEN [stack[i] EXCEPT !.ended = TRUE] ELSE stack[i]]

(* A message loop is innermost.  The main window is disabled while it has a
   dialog box; message boxes and the file dialog are opened without an owner
   and disable nothing. *)
Pumping ==
  /\ \E at \in {"GetMessage", "MessageBox", "GetOpenFileName"} \cup Dialogs : At(at)
  /\ ~quit

MainEnabled == UnderWay("GetMessage") /\ \A at \in Dialogs : Live(at) = {}

(* The user picks an item of the main menu, or presses a button of a dialog. *)
MenuPicked(item) ==
  item \in Menu /\ Pumping /\ MainEnabled /\ Len(stack) < MaxDepth

Pressed(at) ==
  Pumping /\ Live(at) # {} /\ Len(stack) < MaxDepth

(* A message box is answered, or ended by WM_QUIT, which stays posted. *)
DismissBox ==
  /\ At("MessageBox")
  /\ Return
  /\ UNCHANGED quit

(* DialogBox returns to its caller as soon as its own loop runs again. *)
DialogReturns ==
  /\ \E at \in Dialogs : At(at)
  /\ Head(stack).ended
  /\ Return
  /\ UNCHANGED quit

(* Exit in the menu, or the main window's close box: WM_CLOSE destroys the
   window and WM_DESTROY posts WM_QUIT. *)
CloseMain ==
  /\ Pumping /\ MainEnabled
  /\ quit' = TRUE
  /\ UNCHANGED stack
================================================================================
