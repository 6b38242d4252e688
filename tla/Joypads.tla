-------------------------------- MODULE Joypads --------------------------------
(***************************************************************************)
(* The joypad controller (hw/src/cpu/jp.v) between two joypads, which it   *)
(* scans all the time, and a program, which strobes and reads at any time. *)
(*                                                                         *)
(* A joypad is a shift register: while the latch is high it takes in what  *)
(* is pressed, and at a rising clock it moves on to the next button.  Its  *)
(* answer comes later than the clock on which it was asked.                *)
(***************************************************************************)
EXTENDS Naturals, Sequences

CONSTANTS
  Buttons,      \* of a joypad: 8
  SlotClks,     \* clocks for a button: 64
  CycleClks,    \* clocks of a CPU cycle: 56
  Players,      \* joypads whose buttons are moved
  MaxMoves      \* bound: moves of buttons

Pads == {0, 1}    \* joypad 1 at 0x4016, joypad 2 at 0x4017
Button == 1 .. Buttons

ASSUME JoypadsAssumption ==
  /\ Buttons \in Nat /\ Buttons >= 2
  /\ SlotClks \in Nat /\ SlotClks % 2 = 0 /\ SlotClks >= 4
  /\ CycleClks \in Nat /\ CycleClks >= 2
  /\ Players \subseteq Pads /\ MaxMoves \in Nat

VARIABLES
  q_cnt, q_jp_clk, q_jp_latch,    \* the scan
  jp_state,                       \* q_jp1_state, q_jp2_state: what it has found
  q_addr, read_state, strobe,     \* the program's side
  pressed, pad, pad_clk,          \* buttons, shift registers, the clock they saw last
  bus, left,                      \* the program's access, [pad, wr, din], and its clocks left
  moves,
  (* History *)
  latched,                        \* what was pressed at the last latch and the one before
  granted,                        \* the same, when a strobe was made; empty before
  reads                           \* reads since then

scanVars == <<q_cnt, q_jp_clk, q_jp_latch, jp_state>>
readVars == <<q_addr, read_state, strobe>>
padVars == <<pressed, pad, pad_clk>>
vars == <<scanVars, readVars, padVars, bus, left, moves, latched, granted, reads>>

None == [b \in Button |-> FALSE]
Nobody == [pad |-> 2, wr |-> FALSE, din |-> FALSE]    \* any other address
Accesses == [pad : Pads, wr : BOOLEAN, din : BOOLEAN]

Init ==
  /\ q_cnt = 0 /\ q_jp_clk = FALSE /\ q_jp_latch = FALSE
  /\ jp_state = [p \in Pads |-> None]
  /\ q_addr = 2 /\ read_state = [p \in Pads |-> [i \in 1 .. Buttons + 1 |-> FALSE]]
  /\ strobe = FALSE
  /\ pressed = [p \in Pads |-> None] /\ pad = pressed /\ pad_clk = FALSE
  /\ bus = Nobody /\ left = 0 /\ moves = 0
  /\ latched = [p \in Pads |-> <<None, None>>]
  /\ granted = [p \in Pads |-> <<>>] /\ reads = [p \in Pads |-> 0]

--------------------------------------------------------------------------------
(* The scan: a slot of clocks for each button.  The latch takes the place of
   the first clock pulse, and shows button 1; a slot begins with taking in
   the button that the slot before has asked for. *)

Slot == q_cnt \div SlotClks
SlotBegins == q_cnt % SlotClks < 2
SlotHalves == q_cnt % SlotClks \in {SlotClks \div 2, SlotClks \div 2 + 1}

state_idx == ((Slot + Buttons - 1) % Buttons) + 1

Line(p) == pad[p][1]

Scan ==
  /\ q_cnt' = (q_cnt + 1) % (Buttons * SlotClks)
  /\ jp_state' = IF SlotBegins THEN [p \in Pads |-> [jp_state[p] EXCEPT ![state_idx] = Line(p)]]
                 ELSE jp_state
  /\ q_jp_latch' = IF SlotBegins /\ Slot = 0 THEN TRUE
                   ELSE IF SlotHalves THEN FALSE ELSE q_jp_latch
  /\ q_jp_clk' = IF SlotBegins /\ Slot # 0 THEN TRUE
                 ELSE IF SlotHalves THEN FALSE ELSE q_jp_clk

(* The joypads. *)
Shift(p) ==
  IF q_jp_latch THEN pressed[p]
  ELSE IF q_jp_clk /\ ~pad_clk THEN [b \in Button |-> IF b = Buttons THEN FALSE ELSE pad[p][b + 1]]
  ELSE pad[p]

PadClock ==
  /\ pad' = [p \in Pads |-> Shift(p)]
  /\ pad_clk' = q_jp_clk
  /\ latched' = IF q_jp_latch /\ ~q_jp_latch'
                  THEN [p \in Pads |-> <<pressed[p], latched[p][1]>>]
                  ELSE latched

--------------------------------------------------------------------------------
(* The program's side: an access counts on its first clock. *)

Strobes == bus.pad = 0 /\ bus.wr

(* A one and then a zero hand over what has been found by now. *)
Grants == Strobes /\ strobe /\ ~bus.din

(* Faulty: every clock of an access counts. *)
Counts_EveryClock == bus.pad \in Pads

Counts == bus.pad \in Pads /\ bus.pad # q_addr

Granted(p) == <<FALSE>> \o jp_state[p]

ReadClock ==
  /\ q_addr' = bus.pad
  /\ strobe' = IF Counts /\ Strobes THEN bus.din ELSE strobe
  /\ read_state' =
       IF Counts /\ Grants THEN [p \in Pads |-> Granted(p)]
       ELSE IF Counts /\ ~bus.wr
         THEN [read_state EXCEPT ![bus.pad] = Append(Tail(@), TRUE)]
       ELSE read_state

dout == read_state[bus.pad][1]

--------------------------------------------------------------------------------

(* A clock; the CPU may be held in its access for any time. *)
Clock(held) ==
  /\ held => left > 0
  /\ Scan /\ PadClock /\ ReadClock
  /\ left' = IF held \/ left = 0 THEN left ELSE left - 1
  /\ bus' = IF ~held /\ left <= 1 THEN Nobody ELSE bus
  /\ UNCHANGED <<pressed, moves, granted, reads>>

(* The program begins an access, after others or directly after one, by a read
   of the cycle before as cpu.v's indexed stores and read-modify-writes make it:
   with left = 0, q_addr is the address of the cycle directly before.  Of cycles
   on one address in a row the first alone is an access in the history. *)
Access(acc) ==
  /\ left = 0
  /\ bus' = acc /\ left' = CycleClks
  /\ LET first == acc.pad # q_addr
         grants == first /\ acc.pad = 0 /\ acc.wr /\ ~acc.din /\ strobe
     IN  /\ granted' = IF grants THEN latched ELSE granted
         /\ reads' = IF grants THEN [p \in Pads |-> 0]
                     ELSE IF first /\ ~acc.wr /\ reads[acc.pad] <= Buttons
                       THEN [reads EXCEPT ![acc.pad] = @ + 1]
                     ELSE reads
  /\ UNCHANGED <<scanVars, readVars, padVars, moves, latched>>

(* A player moves a button. *)
Move(p, b) ==
  /\ moves < MaxMoves
  /\ moves' = moves + 1
  /\ pressed' = [pressed EXCEPT ![p][b] = ~@]
  /\ UNCHANGED <<scanVars, readVars, pad, pad_clk, bus, left, latched, granted, reads>>

Next == \/ \E held \in BOOLEAN : Clock(held)
        \/ \E acc \in Accesses : Access(acc)
        \/ \E p \in Players, b \in Button : Move(p, b)

Spec == Init /\ [][Next]_vars

--------------------------------------------------------------------------------

(* The CPU takes a byte in on a later clock than the first of its cycle.  A read
   in the cycle after the strobe's own is none of those counted. *)
Reading == bus.pad \in Pads /\ ~bus.wr /\ q_addr = bus.pad /\ reads[bus.pad] > 0

(***************************************************************************)
(* After a strobe the first read gives the first button, the second read   *)
(* the second, and so on, and when there are no more, ones.  A button is   *)
(* as it was in one of the last two scans before the strobe, whenever that *)
(* was made and however long the CPU stood still in an access (jp.v: scan, *)
(* hand-over on the edge of the strobe, one shift for each read).  An      *)
(* instruction that reads an address twice in a row, or reads it and then  *)
(* writes it, makes one read of it: the second read gives the same button, *)
(* and the write neither strobes nor ends a strobe (jp.v:152).             *)
(***************************************************************************)
ReadsGiveButtons ==
  Reading /\ granted[bus.pad] # <<>> =>
    LET n == reads[bus.pad]
    IN  IF n > Buttons THEN dout
        ELSE \E scan \in {1, 2} : dout = granted[bus.pad][scan][n]

================================================================================
