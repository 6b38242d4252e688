------------------------------ MODULE JoypadProofs -----------------------------
(***************************************************************************)
(* What a program reads of the joypads is what was pressed, for any number *)
(* of buttons, any length of a slot and of a CPU cycle, any accesses and   *)
(* any holds of the CPU.                                                   *)
(***************************************************************************)
EXTENDS Joypads, SequenceTheorems, TLAPS

Phase == q_cnt % SlotClks
Half  == SlotClks \div 2

LEMMA ConstantFacts ==
  /\ Buttons \in Nat /\ Buttons >= 2
  /\ SlotClks \in Nat /\ SlotClks >= 4
  /\ Half \in Nat /\ Half >= 2 /\ Half + 2 <= SlotClks
BY JoypadsAssumption DEF JoypadsAssumption, Half

--------------------------------------------------------------------------------
(* The scan counter as a slot and a clock of it. *)

LEMMA SlotAndPhase ==
  ASSUME q_cnt \in 0 .. Buttons * SlotClks - 1
  PROVE  /\ Slot \in 0 .. Buttons - 1 /\ Phase \in 0 .. SlotClks - 1
         /\ q_cnt = SlotClks * Slot + Phase
<1>1. /\ Slot \in Nat /\ Phase \in 0 .. SlotClks - 1
      /\ q_cnt = SlotClks * Slot + Phase
  BY ConstantFacts DEF Slot, Phase
<1>2. Slot < Buttons
  BY ConstantFacts DEF Slot
<1> QED BY <1>1, <1>2, ConstantFacts

LEMMA Decompose ==
  ASSUME NEW s \in Nat, NEW f \in 0 .. SlotClks - 1
  PROVE  (SlotClks * s + f) \div SlotClks = s /\ (SlotClks * s + f) % SlotClks = f
BY ConstantFacts

LEMMA ScanStep ==
  ASSUME q_cnt \in 0 .. Buttons * SlotClks - 1, Scan
  PROVE  /\ q_cnt' \in 0 .. Buttons * SlotClks - 1
         /\ Phase < SlotClks - 1 => Slot' = Slot /\ Phase' = Phase + 1
         /\ Phase = SlotClks - 1 => /\ Slot' = IF Slot = Buttons - 1 THEN 0 ELSE Slot + 1
                                    /\ Phase' = 0
<1>1. /\ Slot \in 0 .. Buttons - 1 /\ Phase \in 0 .. SlotClks - 1
      /\ q_cnt = SlotClks * Slot + Phase
  BY SlotAndPhase
<1>2. q_cnt' = IF q_cnt + 1 = Buttons * SlotClks THEN 0 ELSE q_cnt + 1
  BY ConstantFacts DEF Scan
<1>3. q_cnt' \in 0 .. Buttons * SlotClks - 1
  BY <1>2, ConstantFacts
<1>4. ASSUME Phase < SlotClks - 1
      PROVE  Slot' = Slot /\ Phase' = Phase + 1
  <2>1. q_cnt + 1 < Buttons * SlotClks
    BY <1>1, <1>4, ConstantFacts
  <2>2. q_cnt' = SlotClks * Slot + (Phase + 1)
    BY <1>1, <1>2, <2>1, ConstantFacts
  <2>3. Slot \in Nat /\ Phase + 1 \in 0 .. SlotClks - 1
    BY <1>1, <1>4, ConstantFacts
  <2>4. q_cnt' \div SlotClks = Slot /\ q_cnt' % SlotClks = Phase + 1
    BY <2>2, <2>3, Decompose
  <2> QED BY <2>4 DEF Slot, Phase
<1>5. ASSUME Phase = SlotClks - 1
      PROVE  /\ Slot' = IF Slot = Buttons - 1 THEN 0 ELSE Slot + 1
             /\ Phase' = 0
  <2>1. q_cnt + 1 = SlotClks * (Slot + 1)
    BY <1>1, <1>5, ConstantFacts
  <2>2. CASE Slot = Buttons - 1
    <3>1. q_cnt' = SlotClks * 0 + 0
      BY <1>2, <2>1, <2>2, ConstantFacts
    <3> QED BY <2>2, <3>1, Decompose, ConstantFacts DEF Slot, Phase
  <2>3. CASE Slot < Buttons - 1
    <3>1. q_cnt' = SlotClks * (Slot + 1) + 0
      BY <1>1, <1>2, <2>1, <2>3, ConstantFacts
    <3> QED BY <1>1, <2>3, <3>1, Decompose, ConstantFacts DEF Slot, Phase
  <2> QED BY <1>1, <2>2, <2>3, ConstantFacts
<1> QED BY <1>3, <1>4, <1>5

LEMMA IndexOfSlot ==
  ASSUME Slot \in 0 .. Buttons - 1
  PROVE  state_idx = IF Slot = 0 THEN Buttons ELSE Slot
BY ConstantFacts DEF state_idx

--------------------------------------------------------------------------------
(* The scan: its signals, what the joypads hold, and what has been found. *)

Signals ==
  /\ q_cnt \in 0 .. Buttons * SlotClks - 1
  /\ q_jp_latch <=> Slot = 0 /\ Phase \in 1 .. Half
  /\ q_jp_clk <=> Slot # 0 /\ Phase \in 1 .. Half
  /\ pad_clk <=> Slot # 0 /\ Phase \in 2 .. Half + 1
  /\ q_jp_latch \in BOOLEAN /\ q_jp_clk \in BOOLEAN /\ pad_clk \in BOOLEAN

Picture == [Button -> BOOLEAN]

PadTypes ==
  /\ pressed \in [Pads -> Picture]
  /\ pad \in [Pads -> Picture]
  /\ jp_state \in [Pads -> Picture]

(* How often the joypads have moved on since their latch. *)
Shifts ==
  IF Slot = 0 THEN IF Phase < 2 THEN Buttons - 1 ELSE 0
  ELSE IF Phase < 2 THEN Slot - 1 ELSE Slot

(* Outside the latch they show the last picture, moved on. *)
Shown ==
  ~(Slot = 0 /\ Phase \in 2 .. Half) =>
    \A p \in Pads, b \in Button : b + Shifts <= Buttons => pad[p][b] = latched[p][1][b + Shifts]

(* A button found since the last latch is that of the last picture, another
   one that of the picture before. *)
Fresh(b) ==
  IF Slot = 0 THEN Phase <= Half /\ (b < Buttons \/ Phase >= 1)
  ELSE b < Slot \/ (b = Slot /\ Phase >= 1)

Found ==
  \A p \in Pads, b \in Button : jp_state[p][b] = latched[p][IF Fresh(b) THEN 1 ELSE 2][b]

ScanInv == Signals /\ PadTypes /\ Shown /\ Found

LEMMA InitScan == Init => ScanInv
<1> SUFFICES ASSUME Init PROVE ScanInv
  OBVIOUS
<1>1. Slot = 0 /\ Phase = 0 /\ q_cnt \in 0 .. Buttons * SlotClks - 1
  <2>1. q_cnt = SlotClks * 0 + 0 /\ 0 \in 0 .. SlotClks - 1
    BY ConstantFacts DEF Init
  <2>2. Slot = 0 /\ Phase = 0
    BY <2>1, Decompose DEF Slot, Phase
  <2>3. Buttons * SlotClks >= 1
    BY ConstantFacts
  <2> QED BY <2>1, <2>2, <2>3, ConstantFacts DEF Init
<1>2. Signals
  <2>1. q_jp_latch = FALSE /\ q_jp_clk = FALSE /\ pad_clk = FALSE
    BY DEF Init
  <2>2. Phase \notin 1 .. Half /\ Phase \notin 2 .. Half + 1
    BY <1>1, ConstantFacts
  <2> QED BY <1>1, <2>1, <2>2 DEF Signals
<1>3. /\ pressed = [p \in Pads |-> None] /\ pad = [p \in Pads |-> None] /\ jp_state = [p \in Pads |-> None]
      /\ latched = [p \in Pads |-> <<None, None>>]
      /\ None \in Picture /\ \A b \in Button : None[b] = FALSE
  BY DEF Init, None, Picture
<1>4. PadTypes
  BY <1>3 DEF PadTypes
<1>5. Shown
  <2>1. SUFFICES ASSUME NEW p \in Pads, NEW b \in Button, b + Shifts <= Buttons
                 PROVE  pad[p][b] = latched[p][1][b + Shifts]
    BY DEF Shown
  <2>2. b + Shifts \in Button
    BY <1>1, <2>1, ConstantFacts DEF Shifts, Button
  <2> QED BY <1>3, <2>2
<1>6. Found
  BY <1>3 DEF Found
<1> QED BY <1>2, <1>4, <1>5, <1>6 DEF ScanInv

LEMMA SlotClocks ==
  ASSUME Signals
  PROVE  /\ SlotBegins <=> Phase < 2
         /\ SlotHalves <=> Phase \in {Half, Half + 1}
BY SlotAndPhase, ConstantFacts DEF Signals, SlotBegins, SlotHalves, Phase, Half

LEMMA SignalsStep ==
  ASSUME Signals, Scan, PadClock
  PROVE  Signals'
<1> DEFINE s == Slot
           f == Phase
<1>1. s \in 0 .. Buttons - 1 /\ f \in 0 .. SlotClks - 1
  BY SlotAndPhase DEF Signals
<1>2. /\ q_cnt' \in 0 .. Buttons * SlotClks - 1
      /\ f < SlotClks - 1 => Slot' = s /\ Phase' = f + 1
      /\ f = SlotClks - 1 => Slot' = (IF s = Buttons - 1 THEN 0 ELSE s + 1) /\ Phase' = 0
  BY ScanStep DEF Signals
<1>3. /\ q_jp_latch' = IF f < 2 /\ s = 0 THEN TRUE ELSE IF f \in {Half, Half + 1} THEN FALSE ELSE q_jp_latch
      /\ q_jp_clk' = IF f < 2 /\ s # 0 THEN TRUE ELSE IF f \in {Half, Half + 1} THEN FALSE ELSE q_jp_clk
      /\ pad_clk' = q_jp_clk
  BY SlotClocks DEF Scan, PadClock
<1>4. /\ q_jp_latch <=> s = 0 /\ f \in 1 .. Half
      /\ q_jp_clk <=> s # 0 /\ f \in 1 .. Half
      /\ q_jp_latch \in BOOLEAN /\ q_jp_clk \in BOOLEAN
  BY DEF Signals
<1> HIDE DEF s, f
<1>5. /\ q_jp_latch' <=> Slot' = 0 /\ Phase' \in 1 .. Half
      /\ q_jp_clk' <=> Slot' # 0 /\ Phase' \in 1 .. Half
      /\ pad_clk' <=> Slot' # 0 /\ Phase' \in 2 .. Half + 1
  <2>1. CASE f = SlotClks - 1
    BY <1>1, <1>2, <1>3, <1>4, <2>1, ConstantFacts
  <2>2. CASE f < SlotClks - 1
    BY <1>1, <1>2, <1>3, <1>4, <2>2, ConstantFacts
  <2> QED BY <1>1, <2>1, <2>2, ConstantFacts
<1>6. q_jp_latch' \in BOOLEAN /\ q_jp_clk' \in BOOLEAN /\ pad_clk' \in BOOLEAN
  BY <1>3, <1>4
<1> QED BY <1>2, <1>5, <1>6 DEF Signals

(* What the joypads hold after a clock. *)
LEMMA PadStep ==
  ASSUME PadTypes, PadClock, Scan, UNCHANGED pressed
  PROVE  PadTypes'
<1>1. pressed \in [Pads -> Picture] /\ pad \in [Pads -> Picture] /\ jp_state \in [Pads -> Picture]
  BY DEF PadTypes
<1>2. \A p \in Pads : Shift(p) \in Picture
  <2>1. TAKE p \in Pads
  <2>2. pressed[p] \in Picture /\ pad[p] \in Picture
    BY <1>1
  <2>3. \A b \in Button : (IF b = Buttons THEN FALSE ELSE pad[p][b + 1]) \in BOOLEAN
    <3>1. ASSUME NEW b \in Button, b # Buttons PROVE pad[p][b + 1] \in BOOLEAN
      <4>1. b + 1 \in Button
        BY <3>1, ConstantFacts DEF Button
      <4> QED BY <2>2, <4>1 DEF Picture
    <3> QED BY <3>1
  <2>4. [b \in Button |-> IF b = Buttons THEN FALSE ELSE pad[p][b + 1]] \in Picture
    BY <2>3 DEF Picture
  <2> QED BY <2>2, <2>4 DEF Shift
<1>3. pad' \in [Pads -> Picture]
  BY <1>2 DEF PadClock
<1>4. \A p \in Pads : Line(p) \in BOOLEAN
  BY <1>1, ConstantFacts DEF Line, Picture, Button
<1>5. jp_state' \in [Pads -> Picture]
  BY <1>1, <1>4 DEF Scan, Picture
<1> QED BY <1>1, <1>3, <1>5 DEF PadTypes

(* From one clock to the next: the latch closes, a joypad moves on, or it
   stands still. *)
LEMMA ShownStep ==
  ASSUME Signals, Signals', PadTypes, Shown, Scan, PadClock
  PROVE  Shown'
<1> DEFINE s == Slot
           f == Phase
           s1 == Slot'
           f1 == Phase'
           before == Shifts
           after == Shifts'
<1>1. s \in 0 .. Buttons - 1 /\ f \in 0 .. SlotClks - 1
  BY SlotAndPhase DEF Signals
<1>2. /\ f < SlotClks - 1 => s1 = s /\ f1 = f + 1
      /\ f = SlotClks - 1 => s1 = (IF s = Buttons - 1 THEN 0 ELSE s + 1) /\ f1 = 0
  BY ScanStep DEF Signals
<1>3. /\ q_jp_latch <=> s = 0 /\ f \in 1 .. Half
      /\ q_jp_latch' <=> s1 = 0 /\ f1 \in 1 .. Half
      /\ q_jp_clk <=> s # 0 /\ f \in 1 .. Half
      /\ pad_clk <=> s # 0 /\ f \in 2 .. Half + 1
  BY DEF Signals
<1>4. /\ before = IF s = 0 THEN IF f < 2 THEN Buttons - 1 ELSE 0 ELSE IF f < 2 THEN s - 1 ELSE s
      /\ after = IF s1 = 0 THEN IF f1 < 2 THEN Buttons - 1 ELSE 0 ELSE IF f1 < 2 THEN s1 - 1 ELSE s1
  BY DEF Shifts
<1> SUFFICES ASSUME ~(s1 = 0 /\ f1 \in 2 .. Half), NEW p \in Pads, NEW b \in Button, b + after <= Buttons
             PROVE  pad'[p][b] = latched'[p][1][b + after]
  BY DEF Shown
<1>5. /\ pad'[p] = Shift(p)
      /\ latched' = IF q_jp_latch /\ ~q_jp_latch'
                      THEN [j \in Pads |-> <<pressed[j], latched[j][1]>>] ELSE latched
  BY DEF PadClock
<1>6. b \in 1 .. Buttons
  BY DEF Button
<1>7. ~(s = 0 /\ f \in 2 .. Half) =>
         \A c \in 1 .. Buttons : c + before <= Buttons => pad[p][c] = latched[p][1][c + before]
  BY DEF Shown, Button
<1> HIDE DEF s, f, s1, f1, before, after
<1>8. CASE q_jp_latch
  <2>1. ~q_jp_latch' /\ after = 0
    BY <1>1, <1>2, <1>3, <1>4, <1>8, ConstantFacts
  <2>2. pad'[p][b] = pressed[p][b] /\ latched'[p][1] = pressed[p]
    BY <1>5, <1>8, <2>1 DEF Shift
  <2> QED BY <1>6, <2>1, <2>2
<1>9. CASE ~q_jp_latch /\ q_jp_clk /\ ~pad_clk
  <2>1. after = before + 1 /\ ~(s = 0) /\ before \in Nat
    BY <1>1, <1>2, <1>3, <1>4, <1>9, ConstantFacts
  <2>2. b < Buttons /\ b + 1 \in 1 .. Buttons /\ (b + 1) + before <= Buttons
    BY <1>6, <2>1, ConstantFacts
  <2>3. pad'[p][b] = pad[p][b + 1]
    <3>1. Shift(p) = [c \in Button |-> IF c = Buttons THEN FALSE ELSE pad[p][c + 1]]
      BY <1>9 DEF Shift
    <3>2. b \in Button /\ b # Buttons
      BY <1>6, <2>2, ConstantFacts
    <3> QED BY <1>5, <3>1, <3>2
  <2>4. latched' = latched
    BY <1>5, <1>9
  <2>5. pad[p][b + 1] = latched[p][1][(b + 1) + before]
    BY <1>7, <2>1, <2>2
  <2>6. (b + 1) + before = b + after
    BY <1>6, <2>1
  <2> QED BY <2>3, <2>4, <2>5, <2>6
<1>10. CASE ~q_jp_latch /\ ~(q_jp_clk /\ ~pad_clk)
  <2>1. after = before
    BY <1>1, <1>2, <1>3, <1>4, <1>10, ConstantFacts
  <2>2. ~(s = 0 /\ f \in 2 .. Half)
    BY <1>3, <1>10, ConstantFacts
  <2>3. pad'[p] = pad[p] /\ latched' = latched
    BY <1>5, <1>10 DEF Shift
  <2> QED BY <1>6, <1>7, <2>1, <2>2, <2>3
<1> QED BY <1>8, <1>9, <1>10

LEMMA FoundStep ==
  ASSUME Signals, Signals', PadTypes, Shown, Found, Scan, PadClock
  PROVE  Found'
<1> DEFINE s == Slot
           f == Phase
           s1 == Slot'
           f1 == Phase'
           taken == IF s = 0 THEN Buttons ELSE s
<1>1. s \in 0 .. Buttons - 1 /\ f \in 0 .. SlotClks - 1
  BY SlotAndPhase DEF Signals
<1>2. /\ f < SlotClks - 1 => s1 = s /\ f1 = f + 1
      /\ f = SlotClks - 1 => s1 = (IF s = Buttons - 1 THEN 0 ELSE s + 1) /\ f1 = 0
  BY ScanStep DEF Signals
<1>3. /\ q_jp_latch <=> s = 0 /\ f \in 1 .. Half
      /\ q_jp_latch' <=> s1 = 0 /\ f1 \in 1 .. Half
  BY DEF Signals
<1> SUFFICES ASSUME NEW p \in Pads, NEW b \in Button
             PROVE  jp_state'[p][b] = latched'[p][IF Fresh(b)' THEN 1 ELSE 2][b]
  BY DEF Found
<1>4. /\ Fresh(b) <=> IF s = 0 THEN f <= Half /\ (b < Buttons \/ f >= 1) ELSE b < s \/ (b = s /\ f >= 1)
      /\ Fresh(b)' <=> IF s1 = 0 THEN f1 <= Half /\ (b < Buttons \/ f1 >= 1)
                       ELSE b < s1 \/ (b = s1 /\ f1 >= 1)
  BY DEF Fresh
<1>5. b \in 1 .. Buttons /\ jp_state[p][b] = latched[p][IF Fresh(b) THEN 1 ELSE 2][b]
  BY DEF Button, Found
<1>6. state_idx = taken /\ (SlotBegins <=> f < 2)
  BY <1>1, IndexOfSlot, SlotClocks
<1>7. f < 2 => pad[p][1] = latched[p][1][taken]
  <2>1. f < 2 => 1 + Shifts = taken
    BY <1>1, ConstantFacts DEF Shifts
  <2>2. taken <= Buttons /\ 1 \in Button
    BY <1>1, ConstantFacts DEF Button
  <2>3. f < 2 => ~(Slot = 0 /\ Phase \in 2 .. Half)
    BY ConstantFacts
  <2> QED BY <2>1, <2>2, <2>3 DEF Shown
<1>8. /\ f < 2 /\ b = taken => jp_state'[p][b] = pad[p][1]
      /\ ~(f < 2 /\ b = taken) => jp_state'[p][b] = jp_state[p][b]
  BY <1>6 DEF Scan, PadTypes, Picture, Line
<1>9. latched' = IF q_jp_latch /\ ~q_jp_latch'
                   THEN [j \in Pads |-> <<pressed[j], latched[j][1]>>] ELSE latched
  BY DEF PadClock
<1> DEFINE old == Fresh(b)
           new == Fresh(b)'
<1> HIDE DEF s, f, s1, f1, old, new
<1>10. CASE q_jp_latch /\ ~q_jp_latch'
  <2>1. f = Half /\ s = 0 /\ s1 = 0 /\ f1 = Half + 1 /\ old /\ ~new /\ ~(f < 2)
    BY <1>1, <1>2, <1>3, <1>4, <1>5, <1>10, ConstantFacts DEF old, new
  <2>2. latched'[p][2] = latched[p][1]
    BY <1>9, <1>10
  <2> QED BY <1>5, <1>8, <2>1, <2>2 DEF old, new
<1>11. CASE ~(q_jp_latch /\ ~q_jp_latch')
  <2>1. latched' = latched
    BY <1>9, <1>11
  <2>2. CASE f < 2 /\ b = taken
    <3>1. new
      BY <1>1, <1>2, <1>4, <1>5, <2>2, ConstantFacts DEF new
    <3> QED BY <1>7, <1>8, <2>1, <2>2, <3>1 DEF new
  <2>3. CASE ~(f < 2 /\ b = taken)
    <3>1. new <=> old
      BY <1>1, <1>2, <1>3, <1>4, <1>5, <1>11, <2>3, ConstantFacts DEF new, old
    <3> QED BY <1>5, <1>8, <2>1, <2>3, <3>1 DEF new, old
  <2> QED BY <2>2, <2>3
<1> QED BY <1>10, <1>11

--------------------------------------------------------------------------------
(* The program's side. *)

(* A read register: one bit more than there are buttons. *)
ReadState(reg) == reg \in Seq(BOOLEAN) /\ Len(reg) = Buttons + 1

LEMMA HandOver ==
  ASSUME NEW found \in Picture
  PROVE  LET reg == <<FALSE>> \o found
         IN  ReadState(reg) /\ \A i \in 1 .. Buttons : reg[i + 1] = found[i]
<1>1. found \in Seq(BOOLEAN) /\ Len(found) = Buttons
  BY ConstantFacts DEF Picture, Button
<1>2. <<FALSE>> \in Seq(BOOLEAN) /\ Len(<<FALSE>>) = 1
  OBVIOUS
<1>3. <<FALSE>> \o found \in Seq(BOOLEAN) /\ Len(<<FALSE>> \o found) = Buttons + 1
  BY <1>1, <1>2, ConstantFacts
<1>4. \A i \in 1 .. Buttons : (<<FALSE>> \o found)[i + 1] = found[i]
  BY <1>1, <1>2, ConstantFacts
<1> QED BY <1>3, <1>4 DEF ReadState

LEMMA ShiftOut ==
  ASSUME NEW reg, ReadState(reg)
  PROVE  LET next == Append(Tail(reg), TRUE)
         IN  /\ ReadState(next)
             /\ \A i \in 1 .. Buttons : next[i] = reg[i + 1]
             /\ next[Buttons + 1] = TRUE
<1>1. Tail(reg) \in Seq(BOOLEAN) /\ Len(Tail(reg)) = Buttons
  BY ConstantFacts DEF ReadState
<1>2. \A i \in 1 .. Buttons : Tail(reg)[i] = reg[i + 1]
  BY ConstantFacts DEF ReadState
<1> DEFINE rest == Tail(reg)
<1> HIDE DEF rest
<1>3. /\ Append(rest, TRUE) \in Seq(BOOLEAN) /\ Len(Append(rest, TRUE)) = Buttons + 1
      /\ \A i \in 1 .. Buttons : Append(rest, TRUE)[i] = rest[i]
      /\ Append(rest, TRUE)[Buttons + 1] = TRUE
  <2>1. rest \in Seq(BOOLEAN) /\ Len(rest) = Buttons /\ TRUE \in BOOLEAN
    BY <1>1 DEF rest
  <2>2. /\ Append(rest, TRUE) \in Seq(BOOLEAN) /\ Len(Append(rest, TRUE)) = Len(rest) + 1
        /\ \A i \in 1 .. Len(rest) : Append(rest, TRUE)[i] = rest[i]
        /\ Append(rest, TRUE)[Len(rest) + 1] = TRUE
    <3>1. ASSUME NEW S, NEW seq \in Seq(S), NEW elt \in S
          PROVE  /\ Append(seq, elt) \in Seq(S) /\ Len(Append(seq, elt)) = Len(seq) + 1
                 /\ \A i \in 1 .. Len(seq) : Append(seq, elt)[i] = seq[i]
                 /\ Append(seq, elt)[Len(seq) + 1] = elt
      BY <3>1, AppendProperties
    <3> QED BY <2>1, <3>1, Zenon
  <2> QED BY <2>1, <2>2
<1> QED BY <1>2, <1>3 DEF ReadState, rest


(* An access that has not counted yet. *)
Granting == Counts /\ Grants
Shifting(p) == Counts /\ ~bus.wr /\ bus.pad = p

AccessOK ==
  /\ bus \in Accesses \cup {Nobody} /\ left \in Nat
  /\ left = 0 => bus = Nobody
  /\ q_addr \in 0 .. 2 /\ strobe \in BOOLEAN
  /\ \A p \in Pads : ReadState(read_state[p])
  /\ DOMAIN read_state = Pads
  /\ reads \in [Pads -> 0 .. Buttons + 1]
  /\ Granting => granted = latched /\ \A p \in Pads : reads[p] = 0

(* What the n-th read after a strobe may give. *)
Gives(p, n, v) ==
  IF n > Buttons THEN v = TRUE
  ELSE n > 0 => \E scan \in {1, 2} : v = granted[p][scan][n]

(* The register of a joypad when so many reads have been made. *)
Holds(p, done) == \A i \in 1 .. Buttons + 1 : Gives(p, done + i - 1, read_state[p][i])

(* A read is counted in reads when it begins, and shifts on its first clock. *)
ReadsOK ==
  ~Granting =>
    \A p \in Pads : granted[p] # <<>> =>
      IF Shifting(p)
        THEN \E done \in 0 .. Buttons + 1 :
               Holds(p, done) /\ reads[p] = IF done > Buttons THEN done ELSE done + 1
        ELSE Holds(p, reads[p])

LEMMA InitReads == Init => AccessOK /\ ReadsOK
<1> SUFFICES ASSUME Init PROVE AccessOK /\ ReadsOK
  OBVIOUS
<1>1. /\ bus = Nobody /\ bus.pad = 2 /\ left = 0 /\ q_addr = 2 /\ strobe = FALSE
      /\ read_state = [p \in Pads |-> [i \in 1 .. Buttons + 1 |-> FALSE]]
      /\ granted = [p \in Pads |-> <<>>] /\ reads = [p \in Pads |-> 0]
  BY DEF Init, Nobody
<1>2. ReadState([i \in 1 .. Buttons + 1 |-> FALSE])
  <2>1. [i \in 1 .. Buttons + 1 |-> FALSE] \in Seq(BOOLEAN)
    BY ConstantFacts
  <2>2. Len([i \in 1 .. Buttons + 1 |-> FALSE]) = Buttons + 1
    BY ConstantFacts
  <2> QED BY <2>1, <2>2 DEF ReadState
<1>3. ~Counts /\ bus.pad \notin Pads
  BY <1>1 DEF Counts, Pads
<1>4. DOMAIN read_state = Pads /\ \A p \in Pads : ReadState(read_state[p])
  BY <1>1, <1>2
<1>5. reads \in [Pads -> 0 .. Buttons + 1]
  BY <1>1, ConstantFacts
<1>6. AccessOK
  <2>1. ~Granting
    BY <1>3 DEF Granting
  <2>2. bus \in Accesses \cup {Nobody} /\ left \in Nat /\ q_addr \in 0 .. 2
    BY <1>1
  <2>3. strobe \in BOOLEAN
    BY <1>1
  <2> QED BY <1>1, <1>4, <1>5, <2>1, <2>2, <2>3 DEF AccessOK
<1>7. ReadsOK
  BY <1>1 DEF ReadsOK
<1> QED BY <1>6, <1>7

LEMMA BusFields ==
  ASSUME bus \in Accesses \cup {Nobody}
  PROVE  bus.pad \in 0 .. 2 /\ bus.wr \in BOOLEAN /\ bus.din \in BOOLEAN
<1>1. CASE bus = Nobody
  BY <1>1 DEF Nobody
<1>2. CASE bus \in Accesses
  <2>1. bus.pad \in Pads /\ bus.wr \in BOOLEAN /\ bus.din \in BOOLEAN
    BY <1>2 DEF Accesses
  <2> QED BY <2>1 DEF Pads
<1> QED BY <1>1, <1>2

(* Once an access has been seen for a clock it counts no more. *)
LEMMA Counted ==
  ASSUME AccessOK, NEW held \in BOOLEAN, Clock(held)
  PROVE  bus' \in {bus, Nobody} /\ q_addr' = bus.pad /\ ~Counts'
<1>1. bus' \in {bus, Nobody} /\ q_addr' = bus.pad
  BY DEF Clock, ReadClock
<1>2. CASE bus' = bus
  BY <1>1, <1>2 DEF Counts
<1>3. CASE bus' = Nobody
  BY <1>1, <1>3 DEF Counts, Nobody, Pads
<1> QED BY <1>1, <1>2, <1>3


LEMMA ReadStateStep ==
  ASSUME ScanInv, AccessOK, ReadClock
  PROVE  /\ \A p \in Pads : ReadState(read_state'[p])
         /\ DOMAIN read_state' = Pads
         /\ Granting => \A p \in Pads : read_state'[p] = Granted(p)
         /\ ~Granting => \A p \in Pads :
              read_state'[p] = IF Shifting(p) THEN Append(Tail(read_state[p]), TRUE) ELSE read_state[p]
<1>1. DOMAIN read_state = Pads /\ \A p \in Pads : ReadState(read_state[p])
  BY DEF AccessOK
<1>2. CASE Granting
  <2>1. read_state' = [p \in Pads |-> Granted(p)]
    BY <1>2 DEF ReadClock, Granting
  <2>2. \A p \in Pads : ReadState(Granted(p))
    <3>1. TAKE p \in Pads
    <3>2. jp_state[p] \in Picture
      BY DEF ScanInv, PadTypes
    <3> QED BY <3>2, HandOver DEF Granted
  <2> QED BY <1>2, <2>1, <2>2
<1>3. CASE ~Granting /\ Counts /\ ~bus.wr
  <2>1. bus.pad \in Pads /\ read_state' = [read_state EXCEPT ![bus.pad] = Append(Tail(read_state[bus.pad]), TRUE)]
    BY <1>3 DEF ReadClock, Granting, Counts
  <2>2. ReadState(Append(Tail(read_state[bus.pad]), TRUE))
    BY <1>1, <2>1, ShiftOut
  <2>3. \A p \in Pads : Shifting(p) <=> bus.pad = p
    BY <1>3 DEF Shifting
  <2> QED BY <1>1, <1>3, <2>1, <2>2, <2>3
<1>4. CASE ~Granting /\ ~(Counts /\ ~bus.wr)
  <2>1. read_state' = read_state /\ \A p \in Pads : ~Shifting(p)
    BY <1>4 DEF ReadClock, Granting, Shifting
  <2> QED BY <1>1, <1>4, <2>1
<1> QED BY <1>2, <1>3, <1>4

LEMMA AccessStaysOK ==
  ASSUME ScanInv, AccessOK, NEW held \in BOOLEAN, Clock(held)
  PROVE  AccessOK'
<1>1. bus' \in {bus, Nobody} /\ q_addr' = bus.pad /\ ~Counts'
  BY Counted
<1>2. bus \in Accesses \cup {Nobody} /\ left \in Nat /\ (left = 0 => bus = Nobody)
  BY DEF AccessOK
<1>3. bus' \in Accesses \cup {Nobody}
  BY <1>1, <1>2
<1>4. left' \in Nat /\ (left' = 0 => bus' = Nobody)
  BY <1>2 DEF Clock
<1>5. q_addr' \in 0 .. 2 /\ strobe' \in BOOLEAN
  <2>1. bus.pad \in 0 .. 2 /\ bus.din \in BOOLEAN
    BY <1>2, BusFields
  <2>2. strobe \in BOOLEAN
    BY DEF AccessOK
  <2>3. strobe' = IF Counts /\ Strobes THEN bus.din ELSE strobe
    BY DEF Clock, ReadClock
  <2>4. strobe' \in BOOLEAN
    BY <2>1, <2>2, <2>3
  <2> QED BY <1>1, <2>1, <2>4
<1>6. DOMAIN read_state' = Pads /\ \A p \in Pads : ReadState(read_state'[p])
  BY ReadStateStep DEF Clock
<1>7. reads' = reads
  BY DEF Clock
<1>9. reads' \in [Pads -> 0 .. Buttons + 1]
  BY <1>7 DEF AccessOK
<1>10. ~Granting'
  BY <1>1 DEF Granting
<1>11. \A p \in Pads : ReadState(read_state[p])'
  BY <1>6 DEF ReadState
<1> QED BY <1>3, <1>4, <1>5, <1>6, <1>9, <1>10, <1>11 DEF AccessOK


(* A clock hands over what has been found, or moves a register on, or does
   nothing to it. *)
LEMMA ReadsClockStep ==
  ASSUME ScanInv, AccessOK, ReadsOK, NEW held \in BOOLEAN, Clock(held)
  PROVE  ReadsOK'
<1>1. ~Counts' /\ granted' = granted /\ reads' = reads
  BY Counted DEF Clock
<1>2. SUFFICES ASSUME NEW p \in Pads, granted[p] # <<>>,
                      NEW i \in 1 .. Buttons + 1
               PROVE  Gives(p, reads[p] + i - 1, read_state'[p][i])
  <2>1. ~Granting' /\ \A p \in Pads : ~Shifting(p)'
    BY <1>1 DEF Granting, Shifting
  <2>2. ASSUME \A p \in Pads : granted[p] # <<>> =>
                 \A i \in 1 .. Buttons + 1 : Gives(p, reads[p] + i - 1, read_state'[p][i])
        PROVE  \A p \in Pads : granted'[p] # <<>> => Holds(p, reads[p])'
    BY <1>1, <2>2 DEF Holds, Gives
  <2> QED BY <2>1, <2>2 DEF ReadsOK
<1>3. CASE Granting
  <2>1. granted = latched /\ reads[p] = 0
    BY <1>3 DEF AccessOK
  <2>2. read_state'[p] = Granted(p)
    BY <1>3, ReadStateStep DEF Clock
  <2>3. CASE i = 1
    BY <2>1, <2>3, ConstantFacts DEF Gives
  <2>4. CASE i > 1
    <3>1. i - 1 \in 1 .. Buttons /\ (i - 1) + 1 = i
      BY <2>4, ConstantFacts
    <3>2. jp_state[p] \in Picture
      BY DEF ScanInv, PadTypes
    <3>3. Granted(p)[i] = jp_state[p][i - 1]
      <4>1. \A k \in 1 .. Buttons : Granted(p)[k + 1] = jp_state[p][k]
        BY <3>2, HandOver DEF Granted
      <4>2. Granted(p)[(i - 1) + 1] = jp_state[p][i - 1]
        BY <3>1, <4>1
      <4> QED BY <3>1, <4>2
    <3>4. jp_state[p][i - 1] = latched[p][IF Fresh(i - 1) THEN 1 ELSE 2][i - 1]
      BY <3>1 DEF ScanInv, Found, Button
    <3>5. \E scan \in {1, 2} : read_state'[p][i] = granted[p][scan][i - 1]
      BY <2>1, <2>2, <3>3, <3>4
    <3>6. reads[p] + i - 1 = i - 1 /\ ~(i - 1 > Buttons)
      BY <2>1, <3>1, ConstantFacts
    <3> QED BY <3>5, <3>6 DEF Gives
  <2> QED BY <2>3, <2>4
<1>4. CASE ~Granting /\ Shifting(p)
  <2>1. PICK done \in 0 .. Buttons + 1 :
          Holds(p, done) /\ reads[p] = IF done > Buttons THEN done ELSE done + 1
    BY <1>2, <1>4 DEF ReadsOK
  <2>2. ReadState(read_state[p]) /\ read_state'[p] = Append(Tail(read_state[p]), TRUE)
    BY <1>4, ReadStateStep DEF Clock, AccessOK
  <2>3. CASE i = Buttons + 1
    <3>1. read_state'[p][i] = TRUE
      BY <2>2, <2>3, ShiftOut
    <3>2. reads[p] + i - 1 > Buttons
      BY <2>1, <2>3, ConstantFacts
    <3> QED BY <3>1, <3>2 DEF Gives
  <2>4. CASE i <= Buttons
    <3>1. read_state'[p][i] = read_state[p][i + 1] /\ i + 1 \in 1 .. Buttons + 1
      <4>1. \A k \in 1 .. Buttons : read_state'[p][k] = read_state[p][k + 1]
        BY <2>2, ShiftOut
      <4>2. i \in 1 .. Buttons /\ i + 1 \in 1 .. Buttons + 1
        BY <2>4, ConstantFacts
      <4> QED BY <4>1, <4>2
    <3>2. Gives(p, done + (i + 1) - 1, read_state[p][i + 1])
      BY <2>1, <3>1 DEF Holds
    <3>3. CASE done <= Buttons
      <4>1. done + (i + 1) - 1 = reads[p] + i - 1
        BY <2>1, <3>3, ConstantFacts
      <4> QED BY <3>1, <3>2, <4>1
    <3>4. CASE done > Buttons
      <4>1. done + (i + 1) - 1 > Buttons /\ reads[p] + i - 1 > Buttons
        BY <2>1, <3>4, ConstantFacts
      <4> QED BY <3>1, <3>2, <4>1 DEF Gives
    <3> QED BY <2>1, <3>3, <3>4, ConstantFacts
  <2> QED BY <2>3, <2>4, ConstantFacts
<1>5. CASE ~Granting /\ ~Shifting(p)
  <2>1. Holds(p, reads[p])
    BY <1>2, <1>5 DEF ReadsOK
  <2>2. read_state'[p] = read_state[p]
    BY <1>5, ReadStateStep DEF Clock
  <2> QED BY <2>1, <2>2 DEF Holds
<1> QED BY <1>3, <1>4, <1>5


(* An access begins: reads counts it, the registers have not seen it. *)
LEMMA AccessStep ==
  ASSUME AccessOK, ReadsOK, NEW acc \in Accesses, Access(acc)
  PROVE  AccessOK' /\ ReadsOK'
<1> DEFINE first == acc.pad # q_addr
           grants == first /\ acc.pad = 0 /\ acc.wr /\ ~acc.din /\ strobe
<1>1. /\ left = 0 /\ bus' = acc /\ left' = CycleClks
      /\ granted' = IF grants THEN latched ELSE granted
      /\ reads' = IF grants THEN [p \in Pads |-> 0]
                  ELSE IF first /\ ~acc.wr /\ reads[acc.pad] <= Buttons
                    THEN [reads EXCEPT ![acc.pad] = reads[acc.pad] + 1]
                  ELSE reads
      /\ latched' = latched /\ q_addr' = q_addr /\ strobe' = strobe /\ read_state' = read_state
  BY DEF Access, readVars
<1>2. acc.pad \in Pads /\ acc.wr \in BOOLEAN /\ acc.din \in BOOLEAN
  BY DEF Accesses
<1>3. ~Granting /\ \A p \in Pads : ~Shifting(p)
  <2>1. bus = Nobody
    BY <1>1 DEF AccessOK
  <2> QED BY <2>1 DEF Granting, Shifting, Counts, Nobody, Pads
<1>4. Counts' <=> first
  BY <1>1, <1>2 DEF Counts
<1>5. Granting' <=> grants
  BY <1>1, <1>4 DEF Granting, Grants, Strobes
<1>6. \A p \in Pads : Shifting(p)' <=> first /\ ~acc.wr /\ acc.pad = p
  BY <1>1, <1>4 DEF Shifting
<1>7. reads \in [Pads -> 0 .. Buttons + 1]
  BY DEF AccessOK
<1> HIDE DEF first, grants
<1>8. reads' \in [Pads -> 0 .. Buttons + 1]
  <2>1. CASE grants
    BY <1>1, <2>1, ConstantFacts
  <2>2. CASE ~grants /\ first /\ ~acc.wr /\ reads[acc.pad] <= Buttons
    <3>1. reads[acc.pad] + 1 \in 0 .. Buttons + 1
      BY <1>2, <1>7, <2>2, ConstantFacts
    <3> QED BY <1>1, <1>7, <2>2, <3>1
  <2>3. CASE ~grants /\ ~(first /\ ~acc.wr /\ reads[acc.pad] <= Buttons)
    BY <1>1, <1>7, <2>3
  <2> QED BY <2>1, <2>2, <2>3
<1>10. AccessOK'
  <2>1. bus' \in Accesses \cup {Nobody} /\ left' \in Nat /\ left' # 0
    BY <1>1, JoypadsAssumption DEF JoypadsAssumption
  <2>2. q_addr' \in 0 .. 2 /\ strobe' \in BOOLEAN
    BY <1>1 DEF AccessOK
  <2>3. DOMAIN read_state' = Pads /\ \A p \in Pads : ReadState(read_state[p])'
    BY <1>1 DEF AccessOK, ReadState
  <2>4. grants => granted' = latched' /\ \A p \in Pads : reads'[p] = 0
    BY <1>1
  <2> QED BY <1>1, <1>5, <1>8, <2>1, <2>2, <2>3, <2>4 DEF AccessOK
<1>11. ReadsOK'
  <2> SUFFICES ASSUME ~grants, NEW p \in Pads, granted'[p] # <<>>
               PROVE  IF Shifting(p)'
                        THEN \E done \in 0 .. Buttons + 1 :
                               Holds(p, done)' /\ reads'[p] = IF done > Buttons THEN done ELSE done + 1
                        ELSE Holds(p, reads[p])'
    BY <1>5 DEF ReadsOK
  <2>1. granted' = granted /\ read_state' = read_state
    BY <1>1
  <2>2. Holds(p, reads[p]) /\ reads[p] \in 0 .. Buttons + 1
    BY <1>3, <1>7, <2>1 DEF ReadsOK
  <2>3. CASE Shifting(p)'
    <3>1. reads'[p] = IF reads[p] > Buttons THEN reads[p] ELSE reads[p] + 1
      BY <1>1, <1>6, <1>7, <2>2, <2>3, ConstantFacts
    <3>2. PICK done \in 0 .. Buttons + 1 : done = reads[p]
      BY <2>2
    <3>3. Holds(p, done)'
      BY <2>1, <2>2, <3>2 DEF Holds, Gives
    <3> QED BY <2>3, <3>1, <3>2, <3>3
  <2>4. CASE ~Shifting(p)'
    <3>1. reads'[p] = reads[p]
      BY <1>1, <1>2, <1>6, <1>7, <2>4
    <3>2. Holds(p, reads[p])'
      BY <2>1, <2>2, <3>1 DEF Holds, Gives
    <3> QED BY <2>4, <3>2
  <2> QED BY <2>3, <2>4
<1> QED BY <1>10, <1>11


LEMMA StandsStill ==
  ASSUME AccessOK, ReadsOK, UNCHANGED <<readVars, bus, left, latched, granted, reads>>
  PROVE  AccessOK' /\ ReadsOK'
<1>1. AccessOK'
  BY DEF AccessOK, ReadState, readVars, Granting, Counts, Grants, Strobes
<1>2. /\ Granting' <=> Granting
      /\ \A p \in Pads : Shifting(p)' <=> Shifting(p)
  BY DEF readVars, Granting, Shifting, Counts, Grants, Strobes
<1>3. /\ granted' = granted /\ reads' = reads /\ read_state' = read_state
  BY DEF readVars
<1>4. ReadsOK'
  <2> SUFFICES ASSUME ~Granting, NEW p \in Pads, granted'[p] # <<>>
               PROVE  IF Shifting(p)'
                        THEN \E done \in 0 .. Buttons + 1 :
                               Holds(p, done)' /\ reads'[p] = IF done > Buttons THEN done ELSE done + 1
                        ELSE Holds(p, reads[p])'
    BY <1>2 DEF ReadsOK
  <2>1. CASE Shifting(p)
    <3>1. PICK done \in 0 .. Buttons + 1 :
            Holds(p, done) /\ reads[p] = IF done > Buttons THEN done ELSE done + 1
      BY <1>3, <2>1 DEF ReadsOK
    <3>2. Holds(p, done)'
      BY <1>3, <3>1 DEF Holds, Gives
    <3> QED BY <1>2, <1>3, <2>1, <3>1, <3>2
  <2>2. CASE ~Shifting(p)
    <3>1. Holds(p, reads[p])
      BY <1>3, <2>2 DEF ReadsOK
    <3>2. Holds(p, reads[p])'
      BY <1>3, <3>1 DEF Holds, Gives
    <3> QED BY <1>2, <2>2, <3>2
  <2> QED BY <2>1, <2>2
<1> QED BY <1>1, <1>4

LEMMA ScanKept ==
  ASSUME ScanInv, UNCHANGED <<scanVars, pad, pad_clk, latched>>, pressed' \in [Pads -> Picture]
  PROVE  ScanInv'
<1>1. /\ q_cnt' = q_cnt /\ q_jp_latch' = q_jp_latch /\ q_jp_clk' = q_jp_clk
      /\ jp_state' = jp_state /\ pad' = pad /\ pad_clk' = pad_clk /\ latched' = latched
  BY DEF scanVars
<1>2. Signals'
  BY <1>1 DEF ScanInv, Signals, Slot, Phase
<1>3. PadTypes'
  BY <1>1 DEF ScanInv, PadTypes
<1>4. Shown'
  BY <1>1 DEF ScanInv, Shown, Shifts, Slot, Phase
<1>5. Found'
  BY <1>1 DEF ScanInv, Found, Fresh, Slot, Phase
<1> QED BY <1>2, <1>3, <1>4, <1>5 DEF ScanInv

--------------------------------------------------------------------------------

IInv == ScanInv /\ AccessOK /\ ReadsOK

(* Every reachable state satisfies IInv: the scan keeps the picture it is
   taking and the one before apart (jp.v, the scan), and what a program has
   been handed over leaves the register one button at a time. *)
THEOREM Inductive == Spec => []IInv
<1>1. Init => IInv
  BY InitScan, InitReads DEF IInv
<1>2. IInv /\ [Next]_vars => IInv'
  <2> SUFFICES ASSUME IInv, [Next]_vars PROVE IInv'
    OBVIOUS
  <2> USE DEF IInv
  <2>1. ASSUME NEW held \in BOOLEAN, Clock(held) PROVE IInv'
    <3>1. Scan /\ PadClock /\ UNCHANGED pressed /\ Signals /\ PadTypes /\ Shown /\ Found
      BY <2>1 DEF Clock, ScanInv
    <3>2. Signals' /\ PadTypes'
      BY <3>1, SignalsStep, PadStep
    <3>3. Shown' /\ Found'
      BY <3>1, <3>2, ShownStep, FoundStep
    <3>4. AccessOK' /\ ReadsOK'
      BY <2>1, AccessStaysOK, ReadsClockStep
    <3> QED BY <3>2, <3>3, <3>4 DEF ScanInv
  <2>2. ASSUME NEW acc \in Accesses, Access(acc) PROVE IInv'
    <3>1. ScanInv'
      <4>1. UNCHANGED <<scanVars, pad, pad_clk, latched>> /\ pressed' = pressed
        BY <2>2 DEF Access, padVars
      <4> QED BY <4>1, ScanKept DEF ScanInv, PadTypes
    <3> QED BY <2>2, <3>1, AccessStep
  <2>3. ASSUME NEW p \in Players, NEW b \in Button, Move(p, b) PROVE IInv'
    <3>1. pressed' = [pressed EXCEPT ![p][b] = ~pressed[p][b]]
      BY <2>3 DEF Move
    <3>2. pressed \in [Pads -> Picture] /\ p \in Pads
      BY JoypadsAssumption DEF JoypadsAssumption, ScanInv, PadTypes
    <3>3. pressed' \in [Pads -> Picture]
      BY <3>1, <3>2 DEF Picture
    <3>4. ScanInv'
      BY <2>3, <3>3, ScanKept DEF Move
    <3> QED BY <2>3, <3>4, StandsStill DEF Move
  <2>4. ASSUME UNCHANGED vars PROVE IInv'
    <3>1. ScanInv'
      <4>1. UNCHANGED <<scanVars, pad, pad_clk, latched>> /\ pressed' = pressed
        BY <2>4 DEF vars, padVars
      <4> QED BY <4>1, ScanKept DEF ScanInv, PadTypes
    <3> QED BY <2>4, <3>1, StandsStill DEF vars
  <2> QED BY <2>1, <2>2, <2>3, <2>4 DEF Next
<1> QED BY <1>1, <1>2, PTL DEF Spec

(* After a strobe the reads give the buttons in their order, each as it was
   in one of the last two scans, and then ones (jp.v: scan, hand-over, shift),
   however long the CPU stands still in an access. *)
THEOREM ButtonsRead == Spec => []ReadsGiveButtons
<1>1. IInv => ReadsGiveButtons
  <2> SUFFICES ASSUME IInv, Reading, granted[bus.pad] # <<>>
               PROVE  LET n == reads[bus.pad]
                      IN  IF n > Buttons THEN dout
                          ELSE \E scan \in {1, 2} : dout = granted[bus.pad][scan][n]
    BY DEF ReadsGiveButtons
  <2> DEFINE p == bus.pad
             n == reads[p]
  <2>1. p \in Pads /\ ~bus.wr /\ ~Counts
    BY DEF Reading, Counts
  <2>2. n \in 0 .. Buttons + 1 /\ n > 0
    BY <2>1 DEF IInv, AccessOK, Reading
  <2>3. Holds(p, n)
    BY <2>1 DEF IInv, ReadsOK, Granting, Shifting
  <2>4. Gives(p, n, dout)
    <3>1. Gives(p, n + 1 - 1, read_state[p][1])
      BY <2>3, ConstantFacts DEF Holds
    <3>2. n + 1 - 1 = n
      BY <2>2, ConstantFacts
    <3> QED BY <3>1, <3>2 DEF dout
  <2> QED BY <2>2, <2>4 DEF Gives
<1> QED BY <1>1, Inductive, PTL
================================================================================
