---------------------------------- MODULE Apu ----------------------------------
(***************************************************************************)
(* The audio processing unit (hw/src/cpu/apu/apu.v) under a program that   *)
(* writes its registers on any clock, and a CPU that may be held in the    *)
(* middle of a write by the debugger, while the sound goes on.             *)
(*                                                                         *)
(* The channels have nothing to do with each other: one of them, kind, is  *)
(* looked at together with the frame counter, and it may be any.           *)
(***************************************************************************)
EXTENDS ApuChannels

CONSTANTS
  CycleClks,    \* clocks of a CPU cycle: 56
  Scenes,       \* what a program has set up: [kind, ch, writes], the writes
                \* those it makes from now on, each [a, d], at any time
  MaxWrites,    \* bound: writes made
  Held          \* whether the CPU may be held in the middle of a write

Kinds == <<"pulse0", "pulse1", "triangle", "noise">>    \* at 0x4000, 0x4004, 0x4008, 0x400C

Channels(kind) ==
  CASE kind \in {"pulse0", "pulse1"} -> Pulses
    [] kind = "triangle" -> Triangles
    [] kind = "noise" -> Noises

(* Addresses from 0x4000. *)
Status == 21
Mode == 23
NoWrite == [a |-> 32, d |-> 0]

ASSUME ApuAssumption ==
  /\ CycleClks \in Nat \ {0} /\ MaxWrites \in Nat /\ Held \in BOOLEAN
  /\ \A s \in Scenes : /\ \E i \in 1 .. 4 : s.kind = Kinds[i]
                       /\ s.ch \in Channels(s.kind)
                       /\ s.writes \subseteq [a : 0 .. 31, d : Byte]

VARIABLES
  q_clk_cnt,    \* clocks of the APU's own CPU cycle
  apu_cnt,      \* apu_pulse_gen: CPU cycles of an APU cycle
  frame,        \* frame counter
  kind,         \* which channel is looked at
  q_en,         \* its enable bit
  ch,           \* its registers
  program,      \* writes the program makes
  bus,          \* the write on the bus, with the clocks left of it
  made,         \* how many there have been
  (* History *)
  expect,       \* which quarter frame is next: with a half frame or without
  decay         \* quarter frames since the envelope was at its top, -1 if unknown

apuVars == <<q_clk_cnt, apu_cnt, frame, kind, q_en, ch>>
vars == <<apuVars, program, bus, made, expect, decay>>

Idle == [w |-> NoWrite, left |-> 0, held |-> FALSE]

Init ==
  /\ q_clk_cnt = 0 /\ apu_cnt = 0
  /\ frame = NoFrame
  /\ \E s \in Scenes : kind = s.kind /\ ch = s.ch /\ program = s.writes
  /\ q_en = TRUE
  /\ bus = Idle /\ made = 0
  /\ expect = "quarter" /\ decay = -1

--------------------------------------------------------------------------------

cpu_cycle_pulse == q_clk_cnt = 0
apu_cycle_pulse == DivPulse(cpu_cycle_pulse, apu_cnt)

EPulse == e_pulse(frame, apu_cycle_pulse)
LPulse == l_pulse(frame, apu_cycle_pulse)

ModeWr == bus.w.a = Mode
StatusWr == bus.w.a = Status

Index == CHOOSE i \in 1 .. 4 : Kinds[i] = kind
ChannelWr == bus.w.a \div 4 = Index - 1
Reg == bus.w.a % 4

(* Its bit of 0x4015. *)
d_en == IF StatusWr THEN Flag(bus.w.d, Index - 1) ELSE q_en

d_ch ==
  CASE kind = "pulse0" ->
         PulseNext(ch, 0, q_en, cpu_cycle_pulse, LPulse, EPulse, ChannelWr, Reg, bus.w.d)
    [] kind = "pulse1" ->
         PulseNext(ch, 1, q_en, cpu_cycle_pulse, LPulse, EPulse, ChannelWr, Reg, bus.w.d)
    [] kind = "triangle" ->
         TriangleNext(ch, q_en, cpu_cycle_pulse, LPulse, EPulse, ChannelWr, Reg, bus.w.d)
    [] kind = "noise" ->
         NoiseNext(ch, q_en, apu_cycle_pulse, LPulse, EPulse, ChannelWr, Reg, bus.w.d)

(* The channel's bit of a read of 0x4015. *)
Active == IF kind = "triangle" THEN triangle_active(ch) ELSE ch.length # 0

Output ==
  CASE kind = "pulse0" -> pulse_out(ch, 0)
    [] kind = "pulse1" -> pulse_out(ch, 1)
    [] kind = "triangle" -> triangle_out(ch)
    [] kind = "noise" -> noise_out(ch)

HasEnvelope == kind # "triangle"

(* A whole decay, after which a looping envelope starts over. *)
Decay == 16 * (EnvPeriod(ch.env) + 1)

History ==
  /\ expect' = IF ModeWr THEN IF bus.held THEN "any"
                              ELSE IF Flag(bus.w.d, 7) THEN "half" ELSE "quarter"
               ELSE IF EPulse THEN IF LPulse THEN "quarter" ELSE "half"
               ELSE expect
  /\ decay' = IF ~HasEnvelope THEN decay
              ELSE IF ChannelWr /\ Reg = 0 THEN -1
              ELSE IF EPulse /\ ch.env.start
                THEN IF ch.env.div <= EnvPeriod(ch.env) THEN 0 ELSE -1
              ELSE IF EPulse /\ decay >= 0
                THEN IF Loops(ch.env) THEN (decay + 1) % Decay
                     ELSE IF decay < Decay THEN decay + 1 ELSE decay
              ELSE decay

(* A clock of everything; the CPU goes on with its write, if there is one,
   unless it is held. *)
Clock(held) ==
  /\ held => Held /\ bus.left > 0
  /\ q_clk_cnt' = (q_clk_cnt + 1) % CycleClks
  /\ apu_cnt' = DivNext(cpu_cycle_pulse, FALSE, 1, apu_cnt)
  /\ frame' = FrameNext(frame, cpu_cycle_pulse, apu_cycle_pulse, ModeWr, bus.w.d)
  /\ q_en' = d_en
  /\ ch' = d_ch
  /\ bus' = IF held THEN [bus EXCEPT !.held = TRUE]
            ELSE IF bus.left > 1 THEN [bus EXCEPT !.left = @ - 1]
            ELSE Idle
  /\ History
  /\ UNCHANGED <<kind, program, made>>

(* The CPU begins a write. *)
Write(w) ==
  /\ bus.left = 0
  /\ made < MaxWrites
  /\ made' = made + 1
  /\ bus' = [w |-> w, left |-> CycleClks, held |-> FALSE]
  /\ UNCHANGED <<apuVars, program, expect, decay>>

Next == \/ \E held \in BOOLEAN : Clock(held)
        \/ \E w \in program : Write(w)

(* The clock never stops; a program need not write anything. *)
Spec == Init /\ [][Next]_vars /\ WF_vars(\E held \in BOOLEAN : Clock(held))

--------------------------------------------------------------------------------

(***************************************************************************)
(* Envelopes and lengths are clocked in turn, every second quarter frame   *)
(* with a half frame, in both modes, from the write of a mode on, whatever *)
(* the sequence was doing when it was written (apu_frame_counter.v: a      *)
(* write lasts a CPU cycle, and one clock of it restarts the sequence).    *)
(* A CPU held in that write restarts it again and again, see Held.         *)
(***************************************************************************)
QuartersAlternate ==
  EPulse /\ ~ModeWr /\ expect # "any" => (LPulse <=> expect = "half")

(* The envelope was restarted and has been left alone since. *)
EnvelopeKnown == HasEnvelope /\ decay >= 0 /\ ~(ChannelWr /\ Reg = 0)

(***************************************************************************)
(* From a restart on the volume falls from 15 to 0 by one in as many       *)
(* quarter frames as the period says, plus one; only the first step may be *)
(* shorter, for the divider goes on where it was.  At 0 it stays or starts *)
(* over (apu_envelope_generator.v: counter, flag and divider are all       *)
(* wanted by the frame counter, a restart and the divider at once).        *)
(***************************************************************************)
EnvelopeDecays ==
  EnvelopeKnown =>
    \E steps \in {0, 1} :
      LET fallen == decay \div (EnvPeriod(ch.env) + 1) + steps
      IN  ch.env.cnt = IF Loops(ch.env) THEN (31 - fallen) % 16
                       ELSE IF fallen > 15 THEN 0 ELSE 15 - fallen

(***************************************************************************)
(* Left alone, a sweep takes the period one way only and does not wrap     *)
(* around at either end (apu_pulse.v: a target of twelve bits, of which    *)
(* the top one silences the channel and stops the sweep).                  *)
(***************************************************************************)
SweepGoesOneWay ==
  [][ ch'.period # ch.period /\ ~ChannelWr =>
        IF SweepNegate(ch.sreg) THEN ch'.period < ch.period ELSE ch'.period > ch.period ]_ch

(* Started, stopped or disabled at any time, the triangle goes on from where
   it was, without a step in its output (apu_triangle.v, q_seq). *)
NoClicks ==
  [][ kind = "triangle" =>
        triangle_out(ch') - triangle_out(ch) \in {-1, 0, 1} ]_ch

(* The shift register of the noise channel never runs empty, however its mode
   is switched: it would be silent for good (apu_noise.v, d_lfsr). *)
NoiseNeverDies == kind = "noise" => ch.lfsr # 0

Halted == IF kind = "triangle" THEN Flag(ch.cntl, 7) ELSE Loops(ch.env)

(***************************************************************************)
(* A note ends by itself, unless it is one that is held: in every mode,    *)
(* after any switch of modes, the sequence does not stop short of the      *)
(* half frames that count its length (apu_length_counter.v: "count down    *)
(* and silence the channel when it reaches zero").                         *)
(***************************************************************************)
NotesEnd ==
  <>[](bus.left = 0 /\ ~Halted) => <>[](~Active /\ (HasEnvelope => Output = 0))

================================================================================
