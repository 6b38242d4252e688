-------------------------------- MODULE ApuProofs ------------------------------
(***************************************************************************)
(* The frame counter's order of half and quarter frames, the triangle      *)
(* without clicks, a noise that does not die, sweeps that go one way and   *)
(* envelopes that fall in step, for every sequence, every length of a CPU  *)
(* cycle, every program and every hold of the CPU.                         *)
(***************************************************************************)
EXTENDS Apu, TLAPS

LEMMA ConstantFacts ==
  /\ CycleClks \in Nat /\ CycleClks >= 1
  /\ \A i \in 1 .. 5 : Marks[i] \in Nat
  /\ Marks[1] < Marks[2] /\ Marks[2] < Marks[3] /\ Marks[3] < Marks[4] /\ Marks[4] < Marks[5]
BY ApuAssumption, UnitsAssumption DEF ApuAssumption, UnitsAssumption

(* The clock counter, without its modulus. *)
LEMMA CycleStep ==
  ASSUME NEW q \in 0 .. CycleClks - 1
  PROVE  (q + 1) % CycleClks = IF q = CycleClks - 1 THEN 0 ELSE q + 1
BY ConstantFacts

--------------------------------------------------------------------------------
(* The sequence and the write on the bus have their ranges, and an idle bus
   does not name the mode. *)
Writes == [a : 0 .. 32, d : Byte]

SequenceTypeOK ==
  /\ frame.cnt \in 0 .. Marks[5]
  /\ q_clk_cnt \in 0 .. CycleClks - 1
  /\ bus \in [w : Writes, left : 0 .. CycleClks, held : BOOLEAN]
  /\ program \subseteq Writes
  /\ ModeWr => bus.left > 0

(* What comes next follows from where the sequence is. *)
InStep ==
  expect # "any" =>
    /\ frame.cnt <= Marks[1] => expect = "quarter"
    /\ Marks[1] < frame.cnt /\ frame.cnt <= Marks[2] => expect = "half"
    /\ Marks[2] < frame.cnt /\ frame.cnt <= Marks[3] => expect = "quarter"
    /\ Marks[3] < frame.cnt /\ frame.cnt <= Marks[4] => expect = "half"
    /\ Marks[4] < frame.cnt => expect = IF frame.seq_mode THEN "half" ELSE "quarter"

(* A clock of the write on the bus is still to restart the sequence... *)
ToRestart == q_clk_cnt = 0 \/ q_clk_cnt + bus.left > CycleClks

(* ...or one of them has. *)
Restarted ==
  /\ frame.cnt = Marks[5]
  /\ frame.seq_mode = Flag(bus.w.d, 7)
  /\ expect = IF Flag(bus.w.d, 7) THEN "half" ELSE "quarter"

IInv ==
  /\ SequenceTypeOK
  /\ ~ModeWr => InStep
  /\ ModeWr => bus.held \/ ToRestart \/ Restarted

LEMMA Initially == Init => IInv
<1> SUFFICES ASSUME Init PROVE IInv
  OBVIOUS
<1>1. /\ frame.cnt = 0 /\ q_clk_cnt = 0
      /\ bus = [w |-> [a |-> 32, d |-> 0], left |-> 0, held |-> FALSE]
      /\ expect = "quarter"
  BY DEF Init, NoFrame, Idle, NoWrite
<1>2. ~ModeWr
  BY <1>1 DEF ModeWr, Mode
<1>3. program \subseteq Writes
  BY ApuAssumption DEF Init, ApuAssumption, Writes
<1>4. SequenceTypeOK
  BY <1>1, <1>2, <1>3, ConstantFacts DEF SequenceTypeOK, Writes, Byte
<1>5. InStep
  BY <1>1, ConstantFacts DEF InStep
<1> QED BY <1>2, <1>4, <1>5 DEF IInv

--------------------------------------------------------------------------------
(* A clock leaves the write on the bus, held or not, or ends it. *)
LEMMA BusStep ==
  ASSUME SequenceTypeOK, NEW held \in BOOLEAN, Clock(held)
  PROVE  /\ (bus \in [w : Writes, left : 0 .. CycleClks, held : BOOLEAN])'
         /\ (ModeWr => bus.left > 0)'
         /\ \/ bus'.w = bus.w /\ bus'.held
            \/ /\ bus'.w = bus.w /\ bus'.held = bus.held
               /\ bus.left > 1 /\ bus'.left = bus.left - 1
            \/ ~ModeWr' /\ bus.left <= 1
<1>1. bus' = IF held THEN [bus EXCEPT !.held = TRUE]
             ELSE IF bus.left > 1 THEN [bus EXCEPT !.left = @ - 1]
             ELSE Idle
  BY DEF Clock
<1>2. held => bus.left > 0
  BY DEF Clock
<1>3. CASE held
  <2>1. bus' = [bus EXCEPT !.held = TRUE]
    BY <1>1, <1>3
  <2>2. /\ bus'.w = bus.w /\ bus'.left = bus.left /\ bus'.held
        /\ bus' \in [w : Writes, left : 0 .. CycleClks, held : BOOLEAN]
    BY <2>1 DEF SequenceTypeOK
  <2> QED BY <1>2, <1>3, <2>2
<1>4. CASE ~held /\ bus.left > 1
  <2> DEFINE rest == bus.left - 1
  <2>1. bus' = [bus EXCEPT !.left = rest]
    BY <1>1, <1>4
  <2>2. rest \in 0 .. CycleClks /\ rest > 0
    BY <1>4, ConstantFacts DEF SequenceTypeOK
  <2>3. (bus \in [w : Writes, left : 0 .. CycleClks, held : BOOLEAN])'
    <3> HIDE DEF rest
    <3> QED BY <2>1, <2>2 DEF SequenceTypeOK
  <2>4. bus'.w = bus.w /\ bus'.left = rest /\ bus'.held = bus.held
    <3> HIDE DEF rest
    <3> QED BY <2>1 DEF SequenceTypeOK
  <2>5. (ModeWr => bus.left > 0)'
    BY <2>2, <2>4
  <2>6. /\ bus'.w = bus.w /\ bus'.held = bus.held
        /\ bus.left > 1 /\ bus'.left = bus.left - 1
    BY <1>4, <2>4
  <2> HIDE DEF rest
  <2> QED BY ONLY <2>3, <2>5, <2>6
<1>5. CASE ~held /\ ~(bus.left > 1)
  <2>1. bus' = Idle /\ bus.left <= 1
    BY <1>1, <1>5 DEF SequenceTypeOK
  <2>2. ~ModeWr'
    BY <2>1 DEF ModeWr, Idle, NoWrite, Mode
  <2>3. (bus \in [w : Writes, left : 0 .. CycleClks, held : BOOLEAN])'
    BY <2>1, ConstantFacts DEF Idle, NoWrite, Writes, Byte
  <2> QED BY <2>1, <2>2, <2>3
<1> QED BY <1>3, <1>4, <1>5

LEMMA CounterStep ==
  ASSUME SequenceTypeOK, NEW held \in BOOLEAN, Clock(held)
  PROVE  /\ q_clk_cnt' = IF q_clk_cnt = CycleClks - 1 THEN 0 ELSE q_clk_cnt + 1
         /\ (q_clk_cnt \in 0 .. CycleClks - 1)'
BY CycleStep, ConstantFacts DEF SequenceTypeOK, Clock

(* What the frame counter and the history do on a clock without a write of
   the mode... *)
LEMMA FrameStep ==
  ASSUME SequenceTypeOK, NEW held \in BOOLEAN, Clock(held), ~ModeWr
  PROVE  /\ frame'.cnt = IF ~apu_cycle_pulse THEN frame.cnt
                         ELSE IF (~frame.seq_mode /\ frame.cnt = Marks[4]) \/ frame.cnt = Marks[5]
                           THEN 0 ELSE frame.cnt + 1
         /\ frame'.seq_mode = frame.seq_mode
         /\ expect' = IF EPulse THEN IF LPulse THEN "quarter" ELSE "half" ELSE expect
<1>1. frame' = FrameNext(frame, cpu_cycle_pulse, apu_cycle_pulse, ModeWr, bus.w.d)
  BY DEF Clock
<1> QED BY <1>1 DEF FrameNext, Clock, History

(* ...and with one. *)
LEMMA RestartStep ==
  ASSUME SequenceTypeOK, NEW held \in BOOLEAN, Clock(held), ModeWr
  PROVE  /\ q_clk_cnt = 0 => frame'.cnt = Marks[5]
         /\ q_clk_cnt # 0 => frame'.cnt = frame.cnt
         /\ frame'.seq_mode = Flag(bus.w.d, 7)
         /\ expect' = IF bus.held THEN "any"
                      ELSE IF Flag(bus.w.d, 7) THEN "half" ELSE "quarter"
<1>1. frame' = FrameNext(frame, cpu_cycle_pulse, apu_cycle_pulse, ModeWr, bus.w.d)
  BY DEF Clock
<1>2. cpu_cycle_pulse <=> q_clk_cnt = 0
  BY DEF cpu_cycle_pulse
<1>3. apu_cycle_pulse => cpu_cycle_pulse
  BY DEF apu_cycle_pulse, DivPulse
<1> QED BY <1>1, <1>2, <1>3 DEF FrameNext, Clock, History

LEMMA CountStep ==
  ASSUME SequenceTypeOK, NEW held \in BOOLEAN, Clock(held)
  PROVE  (frame.cnt \in 0 .. Marks[5])'
<1>1. CASE ModeWr
  BY <1>1, RestartStep, ConstantFacts DEF SequenceTypeOK
<1>2. CASE ~ModeWr
  BY <1>2, FrameStep, ConstantFacts DEF SequenceTypeOK
<1> QED BY <1>1, <1>2

--------------------------------------------------------------------------------

(* Where the sequence is in step it stays so. *)
LEMMA InStepStays ==
  ASSUME SequenceTypeOK, InStep, NEW held \in BOOLEAN, Clock(held), ~ModeWr
  PROVE  InStep'
<1>1. EPulse <=> /\ apu_cycle_pulse
                 /\ \/ frame.cnt = Marks[1] \/ frame.cnt = Marks[2] \/ frame.cnt = Marks[3]
                    \/ ~frame.seq_mode /\ frame.cnt = Marks[4]
                    \/ frame.seq_mode /\ frame.cnt = Marks[5]
  BY DEF EPulse, e_pulse
<1>2. LPulse <=> /\ apu_cycle_pulse
                 /\ \/ frame.cnt = Marks[2]
                    \/ ~frame.seq_mode /\ frame.cnt = Marks[4]
                    \/ frame.seq_mode /\ frame.cnt = Marks[5]
  BY DEF LPulse, l_pulse
<1>3. CASE ~apu_cycle_pulse
  BY <1>1, <1>3, FrameStep DEF InStep
<1>4. CASE apu_cycle_pulse /\ EPulse
  BY <1>1, <1>2, <1>4, FrameStep, ConstantFacts DEF InStep, SequenceTypeOK
<1>5. CASE apu_cycle_pulse /\ ~EPulse
  BY <1>1, <1>5, FrameStep, ConstantFacts DEF InStep, SequenceTypeOK
<1> QED BY <1>3, <1>4, <1>5

LEMMA ClockStep ==
  ASSUME IInv, NEW held \in BOOLEAN, Clock(held)
  PROVE  IInv'
<1>1. SequenceTypeOK'
  <2>1. UNCHANGED program
    BY DEF Clock
  <2> QED BY <2>1, BusStep, CounterStep, CountStep DEF IInv, SequenceTypeOK
<1>2. CASE ~ModeWr
  <2>1. ~ModeWr'
    BY <1>2, BusStep DEF IInv, ModeWr
  <2>2. InStep'
    BY <1>2, InStepStays DEF IInv
  <2> QED BY <1>1, <2>1, <2>2 DEF IInv
<1>3. CASE ModeWr /\ bus.held
  <2>1. InStep'
    BY <1>3, RestartStep DEF IInv, InStep
  <2>2. ModeWr' => bus'.held
    BY <1>3, BusStep DEF IInv
  <2> QED BY <1>1, <2>1, <2>2 DEF IInv
<1>4. CASE ModeWr /\ ~bus.held /\ (q_clk_cnt = 0 \/ Restarted)
  <2>1. /\ frame'.cnt = Marks[5] /\ frame'.seq_mode = Flag(bus.w.d, 7)
        /\ expect' = IF Flag(bus.w.d, 7) THEN "half" ELSE "quarter"
    BY <1>4, RestartStep DEF IInv, Restarted
  <2>2. InStep'
    BY <2>1, ConstantFacts DEF InStep
  <2>3. ModeWr' => bus'.w = bus.w
    BY BusStep DEF IInv
  <2>4. ModeWr' => Restarted'
    BY <2>1, <2>3 DEF Restarted
  <2> QED BY <1>1, <2>2, <2>4 DEF IInv
<1>5. CASE ModeWr /\ ~bus.held /\ q_clk_cnt # 0 /\ q_clk_cnt + bus.left > CycleClks
  <2>1. bus.left > 1
    BY <1>5, ConstantFacts DEF IInv, SequenceTypeOK
  <2>2. \/ bus'.w = bus.w /\ bus'.held
        \/ bus'.w = bus.w /\ bus'.left = bus.left - 1
    BY <2>1, BusStep DEF IInv, SequenceTypeOK
  <2>3. ModeWr'
    BY <1>5, <2>2 DEF ModeWr
  <2>4. bus'.held \/ ToRestart'
    BY <1>5, <2>2, CounterStep, ConstantFacts DEF IInv, SequenceTypeOK, ToRestart
  <2> QED BY <1>1, <2>3, <2>4 DEF IInv
<1> QED BY <1>2, <1>3, <1>4, <1>5 DEF IInv, ToRestart

LEMMA WriteStep ==
  ASSUME IInv, NEW w \in program, Write(w)
  PROVE  IInv'
<1>1. /\ bus.left = 0 /\ bus' = [w |-> w, left |-> CycleClks, held |-> FALSE]
      /\ UNCHANGED <<frame, q_clk_cnt, expect, program>>
  BY DEF Write, apuVars
<1>2. ~ModeWr /\ InStep
  BY <1>1 DEF IInv, SequenceTypeOK
<1>3. InStep'
  BY <1>1, <1>2 DEF InStep
<1>4. SequenceTypeOK'
  BY <1>1, ConstantFacts DEF IInv, SequenceTypeOK, ModeWr
<1>5. ToRestart'
  BY <1>1, ConstantFacts DEF IInv, SequenceTypeOK, ToRestart
<1> QED BY <1>3, <1>4, <1>5 DEF IInv

LEMMA Inductive == Spec => []IInv
<1>1. ASSUME IInv, [Next]_vars
      PROVE  IInv'
  <2>1. ASSUME NEW held \in BOOLEAN, Clock(held)
        PROVE  IInv'
    BY <1>1, <2>1, ClockStep
  <2>2. ASSUME NEW w \in program, Write(w)
        PROVE  IInv'
    BY <1>1, <2>2, WriteStep
  <2>3. CASE UNCHANGED vars
    BY <1>1, <2>3 DEF vars, apuVars, IInv, SequenceTypeOK, InStep, ToRestart, Restarted, ModeWr
  <2> QED BY <1>1, <2>1, <2>2, <2>3 DEF Next
<1> QED BY <1>1, Initially, PTL DEF Spec

(***************************************************************************)
(* Quarter frames with and without a half frame take turns, from any write *)
(* of a mode on that the CPU was not held in (apu_frame_counter.v), for    *)
(* every sequence and length of a CPU cycle.                               *)
(***************************************************************************)
THEOREM Alternates == Spec => []QuartersAlternate
<1>1. IInv => QuartersAlternate
  BY ConstantFacts DEF IInv, InStep, QuartersAlternate, EPulse, LPulse, e_pulse, l_pulse, SequenceTypeOK
<1> QED BY <1>1, Inductive, PTL

--------------------------------------------------------------------------------
(* The triangle. *)

SeqOK == kind = "triangle" => ch.seq \in 0 .. 31

LEMMA TriangleStep ==
  ASSUME kind = "triangle", SeqOK, NEW held \in BOOLEAN, Clock(held)
  PROVE  /\ SeqOK'
         /\ triangle_out(ch') - triangle_out(ch) \in {-1, 0, 1}
<1>1. ch' = TriangleNext(ch, q_en, cpu_cycle_pulse, LPulse, EPulse, ChannelWr, Reg, bus.w.d)
  BY DEF Clock, d_ch
<1>2. ch'.seq = ch.seq \/ ch'.seq = (ch.seq + 1) % 32
  BY <1>1 DEF TriangleNext
<1> QED BY <1>2 DEF SeqOK, triangle_out

LEMMA TriangleInductive == Spec => []SeqOK
<1>1. Init => SeqOK
  BY ApuAssumption DEF Init, ApuAssumption, Channels, Triangles, SeqOK
<1>2. ASSUME SeqOK, [Next]_vars
      PROVE  SeqOK'
  <2>1. ASSUME NEW held \in BOOLEAN, Clock(held)
        PROVE  SeqOK'
    <3>1. kind' = kind
      BY <2>1 DEF Clock
    <3> QED BY <1>2, <2>1, <3>1, TriangleStep DEF SeqOK
  <2>2. ASSUME NEW w \in program, Write(w)
        PROVE  SeqOK'
    BY <1>2, <2>2 DEF Write, apuVars, SeqOK
  <2>3. CASE UNCHANGED vars
    BY <1>2, <2>3 DEF vars, apuVars, SeqOK
  <2> QED BY <1>2, <2>1, <2>2, <2>3 DEF Next
<1> QED BY <1>1, <1>2, PTL DEF Spec

(* However it is started, stopped or disabled, the output of the triangle
   moves by one step at most (apu_triangle.v, q_seq). *)
THEOREM TriangleGlides == Spec => NoClicks
<1>1. ASSUME SeqOK, [Next]_vars
      PROVE  [kind = "triangle" =>
                triangle_out(ch') - triangle_out(ch) \in {-1, 0, 1}]_ch
  <2>1. ASSUME NEW held \in BOOLEAN, Clock(held)
        PROVE  kind = "triangle" => triangle_out(ch') - triangle_out(ch) \in {-1, 0, 1}
    BY <1>1, <2>1, TriangleStep
  <2>2. ASSUME NEW w \in program, Write(w)
        PROVE  UNCHANGED ch
    BY <2>2 DEF Write, apuVars
  <2>3. CASE UNCHANGED vars
    BY <2>3 DEF vars, apuVars
  <2> QED BY <1>1, <2>1, <2>2, <2>3 DEF Next
<1> QED BY <1>1, TriangleInductive, PTL DEF Spec, NoClicks

--------------------------------------------------------------------------------
(* Powers of two, as far as registers are wide. *)

LEMMA Powers ==
  /\ 2^1 \in Nat \ {0, 1}
  /\ 2^2 \in Nat \ {0, 1}
  /\ 2^3 \in Nat \ {0, 1}
  /\ 2^4 \in Nat \ {0, 1}
  /\ 2^5 \in Nat \ {0, 1}
  /\ 2^6 \in Nat \ {0, 1}
  /\ 2^7 \in Nat \ {0, 1}
  /\ 2^8 \in Nat \ {0, 1}
  /\ 2^9 \in Nat \ {0, 1}
  /\ 2^10 \in Nat \ {0, 1}
  /\ 2^11 \in Nat \ {0, 1}
  /\ 2^12 \in Nat \ {0, 1}
  /\ 2^13 \in Nat \ {0, 1}
  /\ 2^14 \in Nat \ {0, 1}
  /\ 2^15 \in Nat \ {0, 1}
  /\ 2^16 \in Nat \ {0, 1}
OBVIOUS

LEMMA PowerFacts ==
  ASSUME NEW k \in 1 .. 16
  PROVE  2^k \in Nat \ {0, 1}
<1>1. CASE k = 1
  BY <1>1, Powers, Zenon
<1>2. CASE k = 2
  BY <1>2, Powers, Zenon
<1>3. CASE k = 3
  BY <1>3, Powers, Zenon
<1>4. CASE k = 4
  BY <1>4, Powers, Zenon
<1>5. CASE k = 5
  BY <1>5, Powers, Zenon
<1>6. CASE k = 6
  BY <1>6, Powers, Zenon
<1>7. CASE k = 7
  BY <1>7, Powers, Zenon
<1>8. CASE k = 8
  BY <1>8, Powers, Zenon
<1>9. CASE k = 9
  BY <1>9, Powers, Zenon
<1>10. CASE k = 10
  BY <1>10, Powers, Zenon
<1>11. CASE k = 11
  BY <1>11, Powers, Zenon
<1>12. CASE k = 12
  BY <1>12, Powers, Zenon
<1>13. CASE k = 13
  BY <1>13, Powers, Zenon
<1>14. CASE k = 14
  BY <1>14, Powers, Zenon
<1>15. CASE k = 15
  BY <1>15, Powers, Zenon
<1>16. CASE k = 16
  BY <1>16, Powers, Zenon
<1> QED BY <1>1, <1>2, <1>3, <1>4, <1>5, <1>6, <1>7, <1>8, <1>9, <1>10, <1>11, <1>12, <1>13, <1>14, <1>15, <1>16

(* A single bit that is left is fed back. *)
LEMMA ShiftStep ==
  ASSUME NEW c, c.lfsr \in Nat \ {0}
  PROVE  Fed(c) * 2^(NoiseBits - 1) + c.lfsr \div 2 \in Nat \ {0}
<1> DEFINE top == 2^(NoiseBits - 1)
           tap == IF c.mode THEN NoiseTap ELSE 1
<1>1. tap \in 1 .. 16 /\ NoiseBits - 1 \in 1 .. 16
  BY ChannelsAssumption DEF ChannelsAssumption
<1>2. top \in Nat \ {0, 1} /\ 2^tap \in Nat \ {0, 1}
  BY <1>1, PowerFacts
<1>3. Fed(c) \in {0, 1}
  BY DEF Fed
<1>4. CASE c.lfsr = 1
  <2>1. 1 \div 2^0 = 1 /\ 1 % 2^1 = 1 /\ 0 % 2^1 = 0
    OBVIOUS
  <2>2. 1 \div 2^tap = 0
    <3> DEFINE p == 2^tap
    <3>1. p \in Nat \ {0, 1}
      BY <1>2
    <3> HIDE DEF p
    <3>2. 1 \div p = 0
      BY <3>1
    <3> QED BY <3>2 DEF p
  <2>3. Flag(c.lfsr, 0) /\ ~Flag(c.lfsr, tap)
    BY <1>4, <2>1, <2>2 DEF Flag, Field
  <2>4. Fed(c) = 1
    BY <2>3 DEF Fed
  <2>5. c.lfsr \div 2 = 0
    BY <1>4
  <2>6. Fed(c) * top + c.lfsr \div 2 \in Nat \ {0}
    <3> HIDE DEF top
    <3> QED BY <1>2, <2>4, <2>5
  <2> QED BY <2>6
<1>5. CASE c.lfsr # 1
  <2>1. c.lfsr \div 2 \in Nat \ {0}
    BY <1>5
  <2>2. Fed(c) * top \in Nat
    <3> HIDE DEF top
    <3> QED BY <1>2, <1>3
  <2>3. Fed(c) * top + c.lfsr \div 2 \in Nat \ {0}
    <3> DEFINE high == Fed(c) * top
               low == c.lfsr \div 2
    <3>1. high \in Nat /\ low \in Nat \ {0}
      BY <2>1, <2>2
    <3> HIDE DEF high, low
    <3>2. high + low \in Nat \ {0}
      BY <3>1
    <3> QED BY <3>2 DEF high, low
  <2> QED BY <2>3
<1> QED BY <1>4, <1>5

NoiseOK == kind = "noise" => ch.lfsr \in Nat \ {0}

(***************************************************************************)
(* The noise channel's shift register never runs empty, for every width,   *)
(* every tap and every switch between the modes (apu_noise.v, d_lfsr: a    *)
(* bit that is alone at the bottom is fed back at the top).                *)
(***************************************************************************)
THEOREM NoiseGoesOn == Spec => []NoiseNeverDies
<1>1. Init => NoiseOK
  <2>1. 2^NoiseBits - 1 \in Nat
    <3>1. NoiseBits \in 1 .. 16
      BY ChannelsAssumption DEF ChannelsAssumption
    <3>2. 2^NoiseBits \in Nat \ {0, 1}
      BY <3>1, PowerFacts
    <3> QED BY <3>2
  <2>2. \A c \in Noises : c.lfsr \in Nat \ {0}
    BY <2>1 DEF Noises
  <2> QED BY <2>2, ApuAssumption DEF Init, ApuAssumption, Channels, NoiseOK
<1>2. ASSUME NoiseOK, [Next]_vars
      PROVE  NoiseOK'
  <2>1. ASSUME NEW held \in BOOLEAN, Clock(held)
        PROVE  NoiseOK'
    <3>1. kind' = kind
      BY <2>1 DEF Clock
    <3>2. SUFFICES ASSUME kind = "noise" PROVE ch'.lfsr \in Nat \ {0}
      BY <3>1 DEF NoiseOK
    <3>3. ch' = NoiseNext(ch, q_en, apu_cycle_pulse, LPulse, EPulse, ChannelWr, Reg, bus.w.d)
      BY <2>1, <3>2 DEF Clock, d_ch
    <3>4. \/ ch'.lfsr = ch.lfsr
          \/ ch'.lfsr = Fed(ch) * 2^(NoiseBits - 1) + ch.lfsr \div 2
      BY <3>3 DEF NoiseNext
    <3> QED BY <1>2, <3>2, <3>4, ShiftStep DEF NoiseOK
  <2>2. ASSUME NEW w \in program, Write(w)
        PROVE  NoiseOK'
    BY <1>2, <2>2 DEF Write, apuVars, NoiseOK
  <2>3. CASE UNCHANGED vars
    BY <1>2, <2>3 DEF vars, apuVars, NoiseOK
  <2> QED BY <1>2, <2>1, <2>2, <2>3 DEF Next
<1>3. NoiseOK => NoiseNeverDies
  BY DEF NoiseOK, NoiseNeverDies
<1> QED BY <1>1, <1>2, <1>3, PTL DEF Spec

--------------------------------------------------------------------------------
(* The periods of the pulse channels. *)

LEMMA Doubled ==
  /\ 2^2 = 2 * 2^1
  /\ 2^3 = 2 * 2^2
  /\ 2^4 = 2 * 2^3
  /\ 2^5 = 2 * 2^4
  /\ 2^6 = 2 * 2^5
  /\ 2^7 = 2 * 2^6
  /\ 2^8 = 2 * 2^7
  /\ 2^9 = 2 * 2^8
  /\ 2^10 = 2 * 2^9
  /\ 2^11 = 2 * 2^10
OBVIOUS

LEMMA NextPower ==
  ASSUME NEW k \in 1 .. 10
  PROVE  2^(k + 1) = 2 * 2^k
<1>1. CASE k = 1
  <2>1. k + 1 = 2
    BY <1>1
  <2> QED BY <1>1, <2>1, Doubled, Zenon
<1>2. CASE k = 2
  <2>1. k + 1 = 3
    BY <1>2
  <2> QED BY <1>2, <2>1, Doubled, Zenon
<1>3. CASE k = 3
  <2>1. k + 1 = 4
    BY <1>3
  <2> QED BY <1>3, <2>1, Doubled, Zenon
<1>4. CASE k = 4
  <2>1. k + 1 = 5
    BY <1>4
  <2> QED BY <1>4, <2>1, Doubled, Zenon
<1>5. CASE k = 5
  <2>1. k + 1 = 6
    BY <1>5
  <2> QED BY <1>5, <2>1, Doubled, Zenon
<1>6. CASE k = 6
  <2>1. k + 1 = 7
    BY <1>6
  <2> QED BY <1>6, <2>1, Doubled, Zenon
<1>7. CASE k = 7
  <2>1. k + 1 = 8
    BY <1>7
  <2> QED BY <1>7, <2>1, Doubled, Zenon
<1>8. CASE k = 8
  <2>1. k + 1 = 9
    BY <1>8
  <2> QED BY <1>8, <2>1, Doubled, Zenon
<1>9. CASE k = 9
  <2>1. k + 1 = 10
    BY <1>9
  <2> QED BY <1>9, <2>1, Doubled, Zenon
<1>10. CASE k = 10
  <2>1. k + 1 = 11
    BY <1>10
  <2> QED BY <1>10, <2>1, Doubled, Zenon
<1> QED BY <1>1, <1>2, <1>3, <1>4, <1>5, <1>6, <1>7, <1>8, <1>9, <1>10

LEMMA PowerSum ==
  ASSUME NEW l \in 1 .. 8, NEW h \in 0 .. 3
  PROVE  2^(l + h) = 2^l * 2^h
<1> DEFINE p == 2^l
<1>0. l \in 1 .. 10 /\ l \in 1 .. 16
  OBVIOUS
<1>1. p \in Nat
  BY <1>0, PowerFacts
<1>2. 2^(l + 1) = 2 * p
  BY <1>0, NextPower
<1>3. 2^(l + 2) = 4 * p
  <2>1. l + 1 \in 1 .. 10 /\ (l + 1) + 1 = l + 2
    OBVIOUS
  <2>2. 2^(l + 2) = 2 * 2^(l + 1)
    BY <2>1, NextPower, Zenon
  <2> HIDE DEF p
  <2> QED BY <1>1, <1>2, <2>2
<1>4. 2^(l + 3) = 8 * p
  <2>1. l + 2 \in 1 .. 10 /\ (l + 2) + 1 = l + 3
    OBVIOUS
  <2>2. 2^(l + 3) = 2 * 2^(l + 2)
    BY <2>1, NextPower, Zenon
  <2> HIDE DEF p
  <2> QED BY <1>1, <1>3, <2>2
<1>5. CASE h = 0
  <2>1. l + h = l /\ 2^0 = 1
    BY <1>5
  <2>2. 2^(l + h) = p /\ 2^h = 1
    BY <1>5, <2>1, Zenon
  <2> QED BY <1>1, <2>2
<1>6. CASE h = 1
  <2>1. 2^1 = 2 /\ p * 2 = 2 * p
    <3> HIDE DEF p
    <3> QED BY <1>1
  <2>2. 2^(l + h) = 2 * p /\ 2^h = 2
    BY <1>2, <1>6, <2>1, Zenon
  <2> QED BY ONLY <2>1, <2>2, Zenon
<1>7. CASE h = 2
  <2>1. 2^2 = 4 /\ p * 4 = 4 * p
    <3> HIDE DEF p
    <3> QED BY <1>1
  <2>2. 2^(l + h) = 4 * p /\ 2^h = 4
    BY <1>3, <1>7, <2>1, Zenon
  <2> QED BY ONLY <2>1, <2>2, Zenon
<1>8. CASE h = 3
  <2>1. 2^3 = 8 /\ p * 8 = 8 * p
    <3> HIDE DEF p
    <3> QED BY <1>1
  <2>2. 2^(l + h) = 8 * p /\ 2^h = 8
    BY <1>4, <1>8, <2>1, Zenon
  <2> QED BY ONLY <2>1, <2>2, Zenon
<1> QED BY <1>5, <1>6, <1>7, <1>8

LEMMA PeriodTopFacts ==
  /\ 2^LowBits \in Nat \ {0} /\ 2^HighBits \in Nat \ {0}
  /\ PeriodTop = 2^LowBits * 2^HighBits /\ PeriodTop \in Nat \ {0}
<1>1. LowBits \in 1 .. 8 /\ LowBits \in 1 .. 16 /\ HighBits \in 0 .. 3
  BY UnitsAssumption DEF UnitsAssumption
<1>2. 2^LowBits \in Nat \ {0}
  BY <1>1, PowerFacts
<1>3. 2^HighBits \in Nat \ {0}
  <2>1. CASE HighBits = 0
    <3>1. 2^0 \in Nat \ {0}
      OBVIOUS
    <3> QED BY <2>1, <3>1, Zenon
  <2>2. CASE HighBits # 0
    <3>1. HighBits \in 1 .. 16
      BY <1>1, <2>2
    <3> QED BY <3>1, PowerFacts
  <2> QED BY <2>1, <2>2
<1>4. PeriodTop = 2^LowBits * 2^HighBits
  BY <1>1, PowerSum DEF PeriodTop
<1>5. 2^LowBits * 2^HighBits \in Nat \ {0}
  <2> DEFINE low == 2^LowBits
             high == 2^HighBits
  <2>1. low \in Nat \ {0} /\ high \in Nat \ {0}
    BY <1>2, <1>3
  <2> HIDE DEF low, high
  <2>2. low * high \in Nat \ {0}
    BY <2>1
  <2> QED BY <2>2 DEF low, high
<1> QED BY <1>2, <1>3, <1>4, <1>5

(* A number with low and high part. *)
LEMMA TwoParts ==
  ASSUME NEW low \in Nat \ {0}, NEW high \in Nat \ {0}
  PROVE  /\ \A p \in 0 .. low * high - 1 : p \div low \in 0 .. high - 1
         /\ \A q \in 0 .. high - 1, r \in 0 .. low - 1 : low * q + r \in 0 .. low * high - 1
<1>1. ASSUME NEW p \in 0 .. low * high - 1
      PROVE  p \div low \in 0 .. high - 1
  <2> DEFINE q == p \div low
  <2>1. p \in Nat /\ p < low * high
    OBVIOUS
  <2>2. q \in Nat /\ low * q <= p
    BY <2>1
  <2>3. q < high
    <3> HIDE DEF q
    <3>1. SUFFICES ASSUME q >= high PROVE FALSE
      BY <2>2
    <3>2. low * q >= low * high
      BY <2>2, <3>1
    <3> QED BY <2>1, <2>2, <3>2
  <2> QED BY <2>2, <2>3
<1>2. ASSUME NEW q \in 0 .. high - 1, NEW r \in 0 .. low - 1
      PROVE  low * q + r \in 0 .. low * high - 1
  <2>1. low * q <= low * (high - 1) /\ low * q \in Nat
    OBVIOUS
  <2>2. low * (high - 1) = low * high - low
    OBVIOUS
  <2> QED BY <2>1, <2>2
<1> QED BY <1>1, <1>2

(* The two halves of a period are written without leaving its range. *)
LEMMA PeriodsKept ==
  ASSUME NEW period \in Periods, NEW d \in Nat
  PROVE  PeriodLow(period, d) \in Periods /\ PeriodHigh(period, d) \in Periods
<1> DEFINE low == 2^LowBits
           high == 2^HighBits
<1>1. low \in Nat \ {0} /\ high \in Nat \ {0} /\ Periods = 0 .. low * high - 1
  BY PeriodTopFacts DEF Periods
<1>2. period \in 0 .. low * high - 1
  BY <1>1
<1> SUFFICES /\ low * (period \div low) + (d % low) \in 0 .. low * high - 1
             /\ low * (d % high) + (period % low) \in 0 .. low * high - 1
  BY <1>1 DEF PeriodLow, PeriodHigh
<1> HIDE DEF low, high
<1>3. period \div low \in 0 .. high - 1
  BY <1>1, <1>2, TwoParts
<1>4. period \in Nat
  BY <1>2
<1>5. d % low \in 0 .. low - 1 /\ d % high \in 0 .. high - 1 /\ period % low \in 0 .. low - 1
  BY <1>1, <1>4
<1> QED BY <1>1, <1>3, <1>5, TwoParts

(* A sweep that is not silenced moves the period one way, inside its range. *)
LEMMA SweepStep ==
  ASSUME NEW sreg \in Nat, NEW period \in Periods, NEW channel \in {0, 1},
         SweepShift(sreg) # 0, ~SweepSilences(sreg, period, channel)
  PROVE  LET target == SweepTarget(sreg, period, channel) % PeriodTop
         IN  /\ target \in Periods
             /\ IF SweepNegate(sreg) THEN target <= period ELSE target >= period
<1> DEFINE top == PeriodTop
           shifted == period \div 2^SweepShift(sreg)
           target == SweepTarget(sreg, period, channel)
<1>1. top \in Nat \ {0} /\ period \in 0 .. top - 1
  BY PeriodTopFacts DEF Periods
<1>2. 2^SweepShift(sreg) \in Nat \ {0, 1}
  <2>1. SweepShift(sreg) \in 1 .. 16
    BY DEF SweepShift
  <2> QED BY <2>1, PowerFacts
<1>3. shifted \in 0 .. period
  <2> DEFINE by == 2^SweepShift(sreg)
  <2>1. by \in Nat \ {0, 1} /\ period \in Nat
    BY <1>1, <1>2
  <2> HIDE DEF by
  <2>2. period \div by \in 0 .. period
    BY <2>1
  <2> QED BY <2>2 DEF by
<1>4. target = (IF SweepNegate(sreg) THEN period + (2 * top - 1 - shifted) + channel
                ELSE period + shifted) % (2 * top)
  BY DEF SweepTarget
<1>5. ~(target >= top)
  BY DEF SweepSilences
<1> HIDE DEF top, shifted, target
<1>6. target \in Nat /\ target < top
  <2>1. 2 * top \in Nat \ {0}
    BY <1>1
  <2> QED BY <1>1, <1>3, <1>4, <1>5, <2>1
<1>7. target % top = target /\ target \in 0 .. top - 1
  BY <1>1, <1>6
<1>8. CASE ~SweepNegate(sreg)
  <2>1. (period + shifted) \in 0 .. 2 * top - 1
    BY <1>1, <1>3
  <2>2. target = period + shifted
    BY <1>1, <1>4, <1>8, <2>1
  <2>3. target >= period
    BY <1>1, <1>3, <2>2
  <2> QED BY <1>7, <1>8, <2>3 DEF top, target, Periods
<1>9. CASE SweepNegate(sreg)
  <2> DEFINE less == period - 1 - shifted + channel
  <2>1. less \in -1 .. period
    BY <1>1, <1>3
  <2>2. target = (2 * top + less) % (2 * top)
    BY <1>1, <1>3, <1>4, <1>9
  <2>3. CASE less = -1
    <3>1. 2 * top + less \in 0 .. 2 * top - 1
      BY <1>1, <2>3
    <3>2. target = 2 * top - 1
      BY <1>1, <2>2, <2>3, <3>1
    <3> QED BY <1>1, <1>6, <3>2
  <2>4. CASE less # -1
    <3>1. less \in 0 .. 2 * top - 1
      BY <1>1, <2>1, <2>4
    <3>2. target = less
      <4> HIDE DEF less
      <4> QED BY <1>1, <2>2, <3>1
    <3>3. target <= period
      BY <1>1, <2>1, <3>2
    <3> QED BY <1>7, <1>9, <3>3 DEF top, target, Periods
  <2> QED BY <2>3, <2>4
<1> QED BY <1>8, <1>9

IsPulse == kind \in {"pulse0", "pulse1"}
Channel == IF kind = "pulse0" THEN 0 ELSE 1

PulseOK ==
  /\ kind \in {"pulse0", "pulse1", "triangle", "noise"}
  /\ IsPulse => ch.period \in Periods /\ ch.sreg \in Nat

LEMMA PulseInitially == Init => PulseOK
<1> SUFFICES ASSUME Init PROVE PulseOK
  OBVIOUS
<1>1. PICK s \in Scenes : kind = s.kind /\ ch = s.ch
  BY DEF Init
<1>2. s.kind \in {"pulse0", "pulse1", "triangle", "noise"} /\ s.ch \in Channels(s.kind)
  BY ApuAssumption DEF ApuAssumption, Kinds
<1>3. IsPulse => ch \in Pulses
  BY <1>1, <1>2 DEF IsPulse, Channels
<1>4. \A c \in Pulses : c.period \in Periods /\ c.sreg \in Nat
  BY DEF Pulses, Byte
<1> QED BY <1>1, <1>2, <1>3, <1>4 DEF PulseOK

LEMMA PulseStep ==
  ASSUME IInv, PulseOK, NEW held \in BOOLEAN, Clock(held)
  PROVE  /\ PulseOK'
         /\ ch'.period # ch.period /\ ~ChannelWr =>
              IF SweepNegate(ch.sreg) THEN ch'.period < ch.period ELSE ch'.period > ch.period
<1>1. kind' = kind
  BY DEF Clock
<1>2. CASE IsPulse
  <2>1. ch' = PulseNext(ch, Channel, q_en, cpu_cycle_pulse, LPulse, EPulse, ChannelWr, Reg, bus.w.d)
    BY <1>2 DEF Clock, d_ch, IsPulse, Channel
  <2>2. /\ \/ ch'.period = PeriodLow(ch.period, bus.w.d) /\ ChannelWr
           \/ ch'.period = PeriodHigh(ch.period, bus.w.d) /\ ChannelWr
           \/ /\ ch'.period = SweepTarget(ch.sreg, ch.period, Channel) % PeriodTop
              /\ Sweeps(ch, Channel, LPulse)
           \/ ch'.period = ch.period
        /\ ch'.sreg \in {ch.sreg, bus.w.d}
    BY <2>1 DEF PulseNext
  <2>3. bus.w.d \in Nat
    BY DEF IInv, SequenceTypeOK, Writes, Byte
  <2>4. ch.period \in Periods /\ ch.sreg \in Nat /\ Channel \in {0, 1}
    BY <1>2 DEF PulseOK, Channel
  <2>5. Sweeps(ch, Channel, LPulse) =>
          LET target == SweepTarget(ch.sreg, ch.period, Channel) % PeriodTop
          IN  /\ target \in Periods
              /\ IF SweepNegate(ch.sreg) THEN target <= ch.period ELSE target >= ch.period
    BY <2>4, SweepStep DEF Sweeps
  <2>6. ch'.period \in Periods /\ ch'.sreg \in Nat
    BY <2>2, <2>3, <2>4, <2>5, PeriodsKept
  <2>7. ASSUME ch'.period # ch.period, ~ChannelWr
        PROVE  IF SweepNegate(ch.sreg) THEN ch'.period < ch.period ELSE ch'.period > ch.period
    <3>1. IF SweepNegate(ch.sreg) THEN ch'.period <= ch.period ELSE ch'.period >= ch.period
      BY <2>2, <2>5, <2>7
    <3>2. ch.period \in Nat /\ ch'.period \in Nat
      BY <2>4, <2>6, PeriodTopFacts DEF Periods
    <3> QED BY <2>7, <3>1, <3>2
  <2> QED BY <1>1, <2>6, <2>7 DEF PulseOK
<1>3. CASE ~IsPulse
  <2>1. ~ChannelWr => ch'.period = ch.period
    BY <1>3 DEF Clock, d_ch, PulseOK, IsPulse, TriangleNext, NoiseNext
  <2> QED BY <1>1, <1>3, <2>1 DEF PulseOK, IsPulse
<1> QED BY <1>2, <1>3

(***************************************************************************)
(* A sweep takes the period of a pulse channel one way only and does not   *)
(* wrap around, for periods of every width that the registers admit, every *)
(* shift, both complements and any writes in between (apu_pulse.v: the     *)
(* target has one bit more than the period, and that bit stops the sweep). *)
(***************************************************************************)
THEOREM SweepsOneWay == Spec => SweepGoesOneWay
<1>1. ASSUME IInv, PulseOK, [Next]_vars
      PROVE  /\ PulseOK'
             /\ [ ch'.period # ch.period /\ ~ChannelWr =>
                    IF SweepNegate(ch.sreg) THEN ch'.period < ch.period
                                            ELSE ch'.period > ch.period ]_ch
  <2>1. ASSUME NEW held \in BOOLEAN, Clock(held)
        PROVE  /\ PulseOK'
               /\ ch'.period # ch.period /\ ~ChannelWr =>
                    IF SweepNegate(ch.sreg) THEN ch'.period < ch.period
                                            ELSE ch'.period > ch.period
    BY <1>1, <2>1, PulseStep
  <2>2. ASSUME NEW w \in program, Write(w)
        PROVE  UNCHANGED <<kind, ch>>
    BY <2>2 DEF Write, apuVars
  <2>3. UNCHANGED vars => UNCHANGED <<kind, ch>>
    BY DEF vars, apuVars
  <2>4. UNCHANGED <<kind, ch>> => PulseOK'
    BY <1>1 DEF PulseOK, IsPulse
  <2> QED BY <1>1, <2>1, <2>2, <2>3, <2>4 DEF Next
<1> QED BY <1>1, PulseInitially, Inductive, PTL DEF Spec, SweepGoesOneWay

--------------------------------------------------------------------------------
(* The envelope. *)

(* The volume after n falls. *)
Level(loops, n) ==
  IF loops THEN (31 - n) % 16 ELSE IF n > 15 THEN 0 ELSE 15 - n

(* decay quarter frames after the restart, with the divider at first when it
   came, the volume has fallen n times; a whole decay is as far as is counted. *)
Decayed(env, quarters) ==
  LET loops == Loops(env)
      top == EnvPeriod(env)
      period == top + 1
  IN  /\ env.div <= top
      /\ quarters \in 0 .. 16 * period
      /\ loops => quarters # 16 * period
      /\ quarters = 16 * period => env.cnt = 0
      /\ quarters # 16 * period =>
           \E first \in 0 .. top, n \in 0 .. 16 :
             /\ quarters + env.div = first + n * period
             /\ env.cnt = Level(loops, n)

EnvOK ==
  HasEnvelope => /\ kind \in {"pulse0", "pulse1", "noise"}
                 /\ ch.env \in Envelopes
                 /\ decay = -1 \/ Decayed(ch.env, decay)

(* At the end of a whole decay the volume has fallen sixteen times. *)
LEMMA WholeDecay ==
  ASSUME NEW top \in 0 .. 15, NEW div \in 0 .. top, NEW first \in 0 .. top, NEW n \in 0 .. 16,
         16 * (top + 1) + div = first + n * (top + 1)
  PROVE  n = 16
<1>1. SUFFICES ASSUME n <= 15 PROVE FALSE
  OBVIOUS
<1>2. n * (top + 1) <= 15 * (top + 1)
  BY <1>1
<1> QED BY <1>2

LEMMA EnvKept ==
  ASSUME NEW env \in Envelopes, NEW eg \in BOOLEAN, NEW wr \in BOOLEAN,
         NEW restart \in BOOLEAN, NEW d \in Byte
  PROVE  EnvNext(env, eg, wr, restart, d) \in Envelopes
<1> DEFINE next == EnvNext(env, eg, wr, restart, d)
<1>1. env.reg \in 0 .. 63 /\ env.cnt \in 0 .. 15 /\ env.start \in BOOLEAN /\ env.div \in 0 .. 15
  BY DEF Envelopes
<1>2. env.reg % 16 \in 0 .. 15 /\ d % 64 \in 0 .. 63
  BY <1>1 DEF Byte
<1>3. next.reg \in 0 .. 63
  BY <1>1, <1>2 DEF EnvNext
<1>4. next.cnt \in 0 .. 15
  BY <1>1 DEF EnvNext
<1>5. next.start \in BOOLEAN
  BY <1>1 DEF EnvNext
<1>6. next.div \in 0 .. 15
  BY <1>1, <1>2 DEF EnvNext, DivNext, DivPulse, EnvPeriod
<1>7. next = [reg |-> next.reg, cnt |-> next.cnt, start |-> next.start, div |-> next.div]
  BY DEF EnvNext
<1> QED BY <1>3, <1>4, <1>5, <1>6, <1>7 DEF Envelopes

(* A quarter frame with a restart begins a decay, wherever the divider is. *)
LEMMA EnvRestarts ==
  ASSUME NEW env \in Envelopes, env.start, env.div <= EnvPeriod(env),
         NEW restart \in BOOLEAN, NEW d \in Byte
  PROVE  Decayed(EnvNext(env, TRUE, FALSE, restart, d), 0)
<1> DEFINE next == EnvNext(env, TRUE, FALSE, restart, d)
<1> SUFFICES Decayed(next, 0)
  OBVIOUS
<1>1. next.reg = env.reg /\ next.cnt = 15 /\ next.div = env.div
  BY DEF EnvNext, DivNext, DivPulse
<1>2. EnvPeriod(env) \in 0 .. 15 /\ env.div \in 0 .. EnvPeriod(env)
  BY DEF Envelopes, EnvPeriod
<1>3. EnvPeriod(next) = EnvPeriod(env)
  BY <1>1 DEF EnvPeriod
<1> DEFINE loops == Loops(next)
<1>4. Level(loops, 0) = 15
  <2> HIDE DEF loops
  <2> QED BY DEF Level
<1>5. next.cnt = Level(Loops(next), 0)
  BY <1>1, <1>4
<1> HIDE DEF next
<1>6. 0 + next.div = next.div + 0 * (EnvPeriod(next) + 1)
  BY <1>1, <1>2, <1>3
<1>7. /\ next.div \in 0 .. EnvPeriod(next) /\ 0 \in 0 .. 16
      /\ 0 \in 0 .. 16 * (EnvPeriod(next) + 1) /\ 0 # 16 * (EnvPeriod(next) + 1)
  BY <1>1, <1>2, <1>3
<1>8. \E first \in 0 .. EnvPeriod(next), n \in 0 .. 16 :
        0 + next.div = first + n * (EnvPeriod(next) + 1) /\ next.cnt = Level(Loops(next), n)
  <2> HIDE DEF loops
  <2> QED BY <1>5, <1>6, <1>7, Zenon
<1>9. next.div <= EnvPeriod(next)
  BY <1>1, <1>3
<1> QED BY <1>7, <1>8, <1>9, Zenon DEF Decayed

(* Any other quarter frame counts it on. *)
LEMMA EnvFalls ==
  ASSUME NEW env \in Envelopes, ~env.start, NEW quarters \in Nat, Decayed(env, quarters),
         NEW restart \in BOOLEAN, NEW d \in Byte
  PROVE  LET whole == 16 * (EnvPeriod(env) + 1)
         IN  Decayed(EnvNext(env, TRUE, FALSE, restart, d),
                     IF Loops(env) THEN (quarters + 1) % whole
                     ELSE IF quarters < whole THEN quarters + 1
                     ELSE quarters)
<1> DEFINE next == EnvNext(env, TRUE, FALSE, restart, d)
           top == EnvPeriod(env)
           loops == Loops(env)
           whole == 16 * (top + 1)
           after == IF loops THEN (quarters + 1) % whole
                    ELSE IF quarters < whole THEN quarters + 1
                    ELSE quarters
           div2 == IF env.div = 0 THEN top ELSE env.div - 1
           cnt2 == IF env.div # 0 THEN env.cnt
                   ELSE IF env.cnt # 0 THEN env.cnt - 1
                   ELSE IF loops THEN 15 ELSE env.cnt
<1>1. SUFFICES Decayed(next, after)
  OBVIOUS
<1>2. /\ top \in 0 .. 15 /\ env.div \in 0 .. top /\ loops \in BOOLEAN
      /\ quarters \in 0 .. whole
  BY DEF Decayed, Envelopes, EnvPeriod, Loops, Flag
<1>3. /\ loops => quarters # whole
      /\ quarters = whole => env.cnt = 0
      /\ quarters # whole =>
           \E first \in 0 .. top, n \in 0 .. 16 :
             quarters + env.div = first + n * (top + 1) /\ env.cnt = Level(loops, n)
  BY DEF Decayed
<1>4. div2 \in 0 .. top
  BY <1>2
<1>5. next.reg = env.reg /\ next.cnt = cnt2 /\ next.div = div2
  BY DEF EnvNext, DivNext, DivPulse
<1>6. EnvPeriod(next) = top /\ Loops(next) = loops
  BY <1>5 DEF EnvPeriod, Loops
<1> HIDE DEF next
<1>7. ASSUME NEW q \in 0 .. whole, loops => q # whole, q = whole => cnt2 = 0,
             q # whole => \E first \in 0 .. top, n \in 0 .. 16 :
                            q + div2 = first + n * (top + 1) /\ cnt2 = Level(loops, n)
      PROVE  Decayed(next, q)
  <2> HIDE DEF top, loops, div2, cnt2
  <2> QED BY <1>4, <1>5, <1>6, <1>7 DEF Decayed
<1>8. CASE quarters = whole
  <2>1. ~loops /\ cnt2 = 0
    BY <1>3, <1>8
  <2>2. after = quarters
    BY <1>2, <1>8, <2>1
  <2> HIDE DEF top, loops, div2, cnt2, after
  <2> QED BY <1>2, <1>7, <1>8, <2>1, <2>2
<1>9. CASE quarters < whole
  <2> HIDE DEF top, loops
  <2>1. PICK first \in 0 .. top, n \in 0 .. 16 :
          quarters + env.div = first + n * (top + 1) /\ env.cnt = Level(loops, n)
    BY <1>2, <1>3, <1>9
  <2>2. PICK m \in 0 .. 16 :
          (quarters + 1) + div2 = first + m * (top + 1) /\ cnt2 = Level(loops, m)
    <3> DEFINE div == env.div
               cnt == env.cnt
    <3>1. /\ div \in 0 .. top /\ top \in 0 .. 15 /\ loops \in BOOLEAN
          /\ quarters < 16 * (top + 1) /\ first \in 0 .. top /\ n \in 0 .. 16
          /\ quarters + div = first + n * (top + 1) /\ cnt = Level(loops, n)
      BY <1>2, <1>9, <2>1
    <3> HIDE DEF div, cnt
    <3>2. CASE div # 0
      <4>1. (quarters + 1) + (div - 1) = first + n * (top + 1)
        BY <3>1
      <4> QED BY <3>1, <3>2, <4>1 DEF div, cnt
    <3>3. CASE div = 0
      <4>1. n < 16
        BY <3>1, <3>3
      <4>2. (n + 1) * (top + 1) = n * (top + 1) + (top + 1)
        <5> DEFINE p == top + 1
        <5>1. p \in Nat
          BY <3>1
        <5> HIDE DEF p
        <5>2. (n + 1) * p = n * p + p
          BY <5>1
        <5> QED BY <5>2 DEF p
      <4>3. (quarters + 1) + top = first + (n + 1) * (top + 1)
        <5> DEFINE product == n * (top + 1)
        <5>1. product \in Int
          BY <3>1
        <5>2. quarters = first + product
          BY <3>1, <3>3, <5>1
        <5> HIDE DEF product
        <5>3. (quarters + 1) + top = first + (product + (top + 1))
          BY <3>1, <5>1, <5>2
        <5> QED BY <4>2, <5>3 DEF product
      <4>4. (IF cnt # 0 THEN cnt - 1 ELSE IF loops THEN 15 ELSE cnt) = Level(loops, n + 1)
        BY <3>1, <4>1 DEF Level
      <4>5. n + 1 \in 0 .. 16 /\ div2 = top
        BY <3>3, <4>1 DEF div
      <4>6. cnt2 = Level(loops, n + 1)
        BY <3>3, <4>4 DEF div, cnt
      <4> HIDE DEF div2, cnt2
      <4> QED BY <4>3, <4>5, <4>6
    <3> QED BY <3>2, <3>3
  <2>3. CASE quarters + 1 = whole
    <3>1. 16 * (top + 1) + div2 = first + m * (top + 1)
      BY <2>2, <2>3
    <3> HIDE DEF div2, cnt2
    <3>2. m = 16
      BY <1>2, <1>4, <3>1, WholeDecay
    <3>3. cnt2 = IF loops THEN 15 ELSE 0
      BY <2>2, <3>2 DEF Level
    <3>4. CASE loops
      <4>1. after = 0
        BY <1>2, <2>3, <3>4
      <4>2. cnt2 = Level(loops, 0)
        BY <3>3, <3>4 DEF Level
      <4>3. 0 + div2 = div2 + 0 * (top + 1)
        BY <1>2, <1>4
      <4>4. 0 \in 0 .. whole /\ 0 # whole /\ 0 \in 0 .. 16
        BY <1>2
      <4> HIDE DEF whole, after
      <4>5. Decayed(next, 0)
        BY <1>4, <1>7, <4>2, <4>3, <4>4
      <4> QED BY <4>1, <4>5
    <3>5. CASE ~loops
      <4>1. after = whole
        BY <1>2, <1>9, <2>3, <3>5
      <4>2. whole \in 0 .. whole
        BY <1>2
      <4> HIDE DEF whole, after
      <4> QED BY <1>7, <3>3, <3>5, <4>1, <4>2
    <3> QED BY <3>4, <3>5
  <2>4. CASE quarters + 1 # whole
    <3>1. quarters + 1 \in 0 .. whole /\ quarters + 1 < whole
      BY <1>2, <1>9, <2>4
    <3>2. (quarters + 1) % whole = quarters + 1
      <4> whole \in Nat
        BY <1>2
      <4> HIDE DEF whole
      <4> QED BY <1>2, <3>1
    <3>3. after = quarters + 1
      BY <1>9, <3>2
    <3> HIDE DEF div2, cnt2, whole, after
    <3> QED BY <1>7, <2>2, <2>4, <3>1, <3>3
  <2> QED BY <2>3, <2>4
<1> HIDE DEF after
<1> QED BY <1>2, <1>8, <1>9

(* A clock that leaves the volume and the divider alone leaves the decay. *)
LEMMA EnvWaits ==
  ASSUME NEW env \in Envelopes, NEW quarters, Decayed(env, quarters),
         NEW env2, env2.reg = env.reg, env2.cnt = env.cnt, env2.div = env.div
  PROVE  Decayed(env2, quarters)
<1>1. EnvPeriod(env2) = EnvPeriod(env) /\ Loops(env2) = Loops(env)
  BY DEF EnvPeriod, Loops
<1> QED BY <1>1 DEF Decayed

LEMMA EnvInitially == Init => EnvOK
<1> SUFFICES ASSUME Init, HasEnvelope
             PROVE  /\ kind \in {"pulse0", "pulse1", "noise"}
                    /\ ch.env \in Envelopes /\ decay = -1
  BY DEF EnvOK
<1>1. PICK s \in Scenes : kind = s.kind /\ ch = s.ch
  BY DEF Init
<1>2. kind \in {"pulse0", "pulse1", "noise"} /\ ch \in Channels(kind)
  BY <1>1, ApuAssumption DEF ApuAssumption, Kinds, HasEnvelope
<1>3. ch \in Pulses \/ ch \in Noises
  BY <1>2 DEF Channels
<1>4. ch.env \in Envelopes
  BY <1>3 DEF Pulses, Noises
<1> QED BY <1>2, <1>4 DEF Init

LEMMA EnvClock ==
  ASSUME IInv, EnvOK, HasEnvelope, NEW held \in BOOLEAN, Clock(held)
  PROVE  EnvOK'
<1> DEFINE wr == ChannelWr /\ Reg = 0
           restart == ChannelWr /\ Reg = 3
           env == ch.env
           d == bus.w.d
           next == EnvNext(env, EPulse, wr, restart, d)
           whole == 16 * (EnvPeriod(env) + 1)
<1>1. kind' = kind /\ kind \in {"pulse0", "pulse1", "noise"}
  BY DEF Clock, EnvOK
<1>2. ch'.env = next
  BY <1>1 DEF Clock, d_ch, PulseNext, NoiseNext
<1>3. /\ env \in Envelopes /\ d \in Byte /\ wr \in BOOLEAN /\ restart \in BOOLEAN
      /\ EPulse \in BOOLEAN
      /\ decay = -1 \/ Decayed(env, decay)
  BY DEF EnvOK, IInv, SequenceTypeOK, Writes, EPulse, e_pulse, apu_cycle_pulse, DivPulse
<1>4. decay = -1 \/ decay \in Nat
  <2>1. EnvPeriod(env) \in 0 .. 15
    BY <1>3 DEF Envelopes, EnvPeriod
  <2>2. Decayed(env, decay) => decay \in 0 .. whole
    BY DEF Decayed
  <2> QED BY <1>3, <2>1, <2>2
<1>5. decay' = IF wr THEN -1
               ELSE IF EPulse /\ env.start
                 THEN IF env.div <= EnvPeriod(env) THEN 0 ELSE -1
               ELSE IF EPulse /\ decay >= 0
                 THEN IF Loops(env) THEN (decay + 1) % whole
                      ELSE IF decay < whole THEN decay + 1 ELSE decay
               ELSE decay
  BY DEF Clock, History, Decay
<1>6. decay' = -1 \/ Decayed(next, decay')
  <2> HIDE DEF env, d, wr, restart
  <2>1. CASE wr
    BY <1>5, <2>1
  <2>2. CASE ~wr /\ EPulse /\ env.start
    <3>1. CASE env.div <= EnvPeriod(env)
      <4>1. Decayed(EnvNext(env, TRUE, FALSE, restart, d), 0)
        BY <1>3, <2>2, <3>1, EnvRestarts
      <4>2. next = EnvNext(env, TRUE, FALSE, restart, d)
        BY <1>3, <2>2
      <4>3. decay' = 0
        BY <1>5, <2>2, <3>1
      <4> HIDE DEF next
      <4> QED BY <4>1, <4>2, <4>3
    <3>2. CASE ~(env.div <= EnvPeriod(env))
      BY <1>5, <2>2, <3>2
    <3> QED BY <3>1, <3>2
  <2>3. CASE ~wr /\ EPulse /\ ~env.start
    <3>1. CASE decay = -1
      BY <1>5, <2>3, <3>1
    <3>2. CASE decay # -1
      <4> DEFINE after == IF Loops(env) THEN (decay + 1) % whole
                          ELSE IF decay < whole THEN decay + 1 ELSE decay
      <4>1. Decayed(env, decay) /\ decay \in Nat /\ decay >= 0
        BY <1>3, <1>4, <3>2
      <4>2. Decayed(EnvNext(env, TRUE, FALSE, restart, d), after)
        BY <1>3, <2>3, <4>1, EnvFalls
      <4>3. next = EnvNext(env, TRUE, FALSE, restart, d)
        BY <1>3, <2>3
      <4>4. decay' = after
        BY <1>5, <2>3, <4>1
      <4> HIDE DEF next, after
      <4> QED BY <4>2, <4>3, <4>4
    <3> QED BY <3>1, <3>2
  <2>4. CASE ~wr /\ ~EPulse
    <3>1. decay' = decay
      BY <1>5, <2>4
    <3>2. next.reg = env.reg /\ next.cnt = env.cnt /\ next.div = env.div
      BY <2>4 DEF EnvNext, DivNext, DivPulse
    <3> HIDE DEF next
    <3> QED BY <1>3, <3>1, <3>2, EnvWaits
  <2> QED BY <2>1, <2>2, <2>3, <2>4
<1>7. next \in Envelopes
  BY <1>3, EnvKept
<1> HIDE DEF next
<1> QED BY <1>1, <1>2, <1>6, <1>7 DEF EnvOK, HasEnvelope

(* Quarter frames in whole periods, whatever the divider began with. *)
LEMMA FallsBetween ==
  ASSUME NEW top \in 0 .. 15, NEW x \in Nat, NEW n \in 0 .. 16,
         NEW first \in 0 .. top, NEW div \in 0 .. top, x + div = first + n * (top + 1)
  PROVE  x \div (top + 1) + 0 = n \/ x \div (top + 1) + 1 = n
<1> DEFINE p == top + 1
           q == x \div p
<1>1. /\ p \in 1 .. 16 /\ x \in Nat /\ n \in 0 .. 16
      /\ first \in 0 .. p - 1 /\ div \in 0 .. p - 1 /\ x + div = first + n * p
  OBVIOUS
<1>2. q \in Nat /\ q * p <= x /\ x < q * p + p
  <2> HIDE DEF p
  <2> QED BY <1>1
<1>3. SUFFICES q + 0 = n \/ q + 1 = n
  OBVIOUS
<1> HIDE DEF p, q
<1>4. (q - 1) * p = q * p - p /\ (q + 2) * p = q * p + 2 * p
  BY <1>1, <1>2
<1>5. ~(n <= q - 1)
  <2>1. n <= q - 1 => n * p <= (q - 1) * p
    BY <1>1, <1>2
  <2>2. n * p \in Int /\ q * p \in Int
    BY <1>1, <1>2
  <2> QED BY <1>1, <1>2, <1>4, <2>1, <2>2
<1>6. ~(n >= q + 2)
  <2>1. n >= q + 2 => n * p >= (q + 2) * p
    BY <1>1, <1>2
  <2>2. n * p \in Int /\ q * p \in Int
    BY <1>1, <1>2
  <2> QED BY <1>1, <1>2, <1>4, <2>1, <2>2
<1> QED BY <1>1, <1>2, <1>5, <1>6

(* What has been counted is what the volume shows. *)
LEMMA EnvShown == EnvOK => EnvelopeDecays
<1> SUFFICES ASSUME EnvOK, EnvelopeKnown
             PROVE  \E steps \in {0, 1} :
                      LET fallen == decay \div (EnvPeriod(ch.env) + 1) + steps
                      IN  ch.env.cnt = IF Loops(ch.env) THEN (31 - fallen) % 16
                                       ELSE IF fallen > 15 THEN 0 ELSE 15 - fallen
  BY DEF EnvelopeDecays
<1> DEFINE env == ch.env
           top == EnvPeriod(env)
           loops == Loops(env)
           cnt == env.cnt
           div == env.div
<1>1. env \in Envelopes /\ Decayed(env, decay) /\ decay >= 0
  BY DEF EnvOK, EnvelopeKnown
<1>2. top \in 0 .. 15 /\ div \in 0 .. top /\ loops \in BOOLEAN
  BY <1>1 DEF Decayed, Envelopes, EnvPeriod, Loops, Flag
<1>3. /\ decay \in 0 .. 16 * (top + 1)
      /\ loops => decay # 16 * (top + 1)
      /\ decay = 16 * (top + 1) => cnt = 0
      /\ decay # 16 * (top + 1) =>
           \E first \in 0 .. top, n \in 0 .. 16 :
             decay + div = first + n * (top + 1) /\ cnt = Level(loops, n)
  BY <1>1 DEF Decayed
<1>4. SUFFICES \E steps \in {0, 1} : cnt = Level(loops, decay \div (top + 1) + steps)
  BY DEF Level
<1> HIDE DEF env, top, loops, cnt, div
<1>5. CASE decay = 16 * (top + 1)
  <2>1. decay \div (top + 1) = 16
    BY <1>2, <1>5
  <2>2. cnt = Level(loops, 16 + 0)
    BY <1>3, <1>5 DEF Level
  <2> QED BY <2>1, <2>2
<1>6. CASE decay # 16 * (top + 1)
  <2>1. PICK first \in 0 .. top, n \in 0 .. 16 :
          decay + div = first + n * (top + 1) /\ cnt = Level(loops, n)
    BY <1>3, <1>6
  <2>2. decay \div (top + 1) + 0 = n \/ decay \div (top + 1) + 1 = n
    <3>1. /\ top \in 0 .. 15 /\ decay \in Nat /\ n \in 0 .. 16
          /\ first \in 0 .. top /\ div \in 0 .. top /\ decay + div = first + n * (top + 1)
      BY <1>2, <1>3, <2>1
    <3> QED BY ONLY <3>1, FallsBetween, Zenon
  <2> QED BY <2>1, <2>2
<1> QED BY <1>5, <1>6

(***************************************************************************)
(* From a restart on the volume is what the period of the divider and the  *)
(* quarter frames since then say, and at 0 it stays or starts over, for    *)
(* every sequence of the frame counter, every setting of the envelope and  *)
(* any writes in between (apu_envelope_generator.v: the divider is not     *)
(* reloaded by the restart, so that only the first step may be shorter).   *)
(***************************************************************************)
THEOREM EnvelopeFalls == Spec => []EnvelopeDecays
<1>1. ASSUME IInv, EnvOK, [Next]_vars
      PROVE  EnvOK'
  <2>1. CASE ~HasEnvelope
    <3>1. kind' = kind
      BY <1>1 DEF Next, Clock, Write, apuVars, vars
    <3> QED BY <2>1, <3>1 DEF EnvOK, HasEnvelope
  <2>2. CASE HasEnvelope
    <3>1. ASSUME NEW held \in BOOLEAN, Clock(held)
          PROVE  EnvOK'
      BY <1>1, <2>2, <3>1, EnvClock
    <3>2. ASSUME NEW w \in program, Write(w)
          PROVE  UNCHANGED <<kind, ch, decay>>
      BY <3>2 DEF Write, apuVars
    <3>3. UNCHANGED vars => UNCHANGED <<kind, ch, decay>>
      BY DEF vars, apuVars
    <3>4. UNCHANGED <<kind, ch, decay>> => EnvOK'
      BY <1>1 DEF EnvOK, HasEnvelope
    <3> QED BY <1>1, <3>1, <3>2, <3>3, <3>4 DEF Next
  <2> QED BY <2>1, <2>2
<1> QED BY <1>1, EnvInitially, EnvShown, Inductive, PTL DEF Spec

================================================================================
