------------------------------- MODULE ApuChannels -----------------------------
(***************************************************************************)
(* The sound channels (hw/src/cpu/apu/apu_pulse.v, apu_triangle.v,         *)
(* apu_noise.v) and the blocks they are built of: divider, envelope        *)
(* generator, length counter, sweep and frame counter.  Each is a record   *)
(* of its registers, or a single one, and an operator for what it becomes  *)
(* on a clock: a channel from                                              *)
(*   en    the channel's bit of 0x4015                                     *)
(*   cyc   the pulse its timer counts, of CPU or APU cycles                *)
(*   lc, eg  half and quarter frame                                        *)
(*   wr    a write of one of its four registers, a, with d                 *)
(* A register that two blocks keep, such as the flag that halts the length *)
(* counter and loops the envelope, is one field.                           *)
(***************************************************************************)
EXTENDS Integers

CONSTANTS
  Marks,       \* APU cycles of the sequence: <<0x0E90, 0x1D20, 0x2BB1, 0x3A42, 0x48D0>>
  LowBits,     \* bits of a timer period that its first register holds: 8
  HighBits,    \* bits that its second register holds: 3
  Lowest,      \* least period that is heard: 8
  NoiseBits,   \* width of the noise channel's shift register: 15
  NoiseTap,    \* its second tap in the short mode: 6
  NoisePeriods \* timer periods by the low bits of 0x400E

ASSUME UnitsAssumption ==
  /\ Marks \in [1 .. 5 -> Nat]
  /\ \A i \in 1 .. 4 : Marks[i] < Marks[i + 1]
  /\ LowBits \in 1 .. 8 /\ HighBits \in 0 .. 3 /\ Lowest \in Nat

ASSUME ChannelsAssumption ==
  /\ NoiseBits \in 2 .. 16 /\ NoiseTap \in 1 .. NoiseBits - 1
  /\ NoisePeriods \in [0 .. 15 -> Nat]

(* n bits of d from bit k on. *)
Field(d, k, n) == (d \div 2^k) % 2^n
Flag(d, k) == Field(d, k, 1) = 1

Byte == 0 .. 255

--------------------------------------------------------------------------------
(* apu_div.v: counts down with each pulse and starts over with the period,
   whatever the period was when it began. *)

DivPulse(pulse, cnt) == pulse /\ cnt = 0

DivNext(pulse, reload, period, cnt) ==
  IF reload \/ DivPulse(pulse, cnt) THEN period
  ELSE IF pulse THEN cnt - 1
  ELSE cnt

--------------------------------------------------------------------------------
(* apu_envelope_generator.v.  A restart waits for the next quarter frame. *)

Envelopes == [reg : 0 .. 63, cnt : 0 .. 15, start : BOOLEAN, div : 0 .. 15]
NoEnvelope == [reg |-> 0, cnt |-> 0, start |-> FALSE, div |-> 0]

EnvPeriod(env) == env.reg % 16
Loops(env) == Flag(env.reg, 5)

EnvNext_StepsAnyway(env, eg, wr, restart, d) ==    \* faulty: the divider runs on without a pulse out
  [reg   |-> IF wr THEN d % 64 ELSE env.reg,
   cnt   |-> IF eg /\ env.start THEN 15
             ELSE IF eg /\ env.cnt # 0 THEN env.cnt - 1
             ELSE IF eg /\ Loops(env) THEN 15
             ELSE env.cnt,
   start |-> restart \/ (env.start /\ ~eg),
   div   |-> DivNext(eg, FALSE, EnvPeriod(env), env.div)]

EnvNext(env, eg, wr, restart, d) ==
  LET steps == eg /\ ~env.start
      decays == DivPulse(steps, env.div)
  IN  [reg   |-> IF wr THEN d % 64 ELSE env.reg,
       cnt   |-> IF eg /\ env.start THEN 15
                 ELSE IF decays /\ env.cnt # 0 THEN env.cnt - 1
                 ELSE IF decays /\ Loops(env) THEN 15
                 ELSE env.cnt,
       start |-> restart \/ (env.start /\ ~eg),
       div   |-> DivNext(steps, FALSE, EnvPeriod(env), env.div)]

env_out(env) == IF Flag(env.reg, 4) THEN EnvPeriod(env) ELSE env.cnt

--------------------------------------------------------------------------------
(* apu_length_counter.v. *)

LengthOf(code) ==
  <<10, 254, 20, 2, 40, 4, 80, 6, 160, 8, 60, 10, 14, 12, 26, 14,
    12, 16, 24, 18, 48, 20, 96, 22, 192, 24, 72, 26, 16, 28, 32, 30>>[code + 1]

LengthNext_Lingers(length, en, halt, lc, wr, code) ==     \* faulty: stops at one
  IF ~en THEN 0
  ELSE IF wr THEN LengthOf(code)
  ELSE IF lc /\ ~halt /\ length > 1 THEN length - 1
  ELSE length

LengthNext(length, en, halt, lc, wr, code) ==
  IF ~en THEN 0
  ELSE IF wr THEN LengthOf(code)
  ELSE IF lc /\ ~halt /\ length # 0 THEN length - 1
  ELSE length

--------------------------------------------------------------------------------
(* Timer periods, and the sweep of apu_pulse.v: target and silence. *)

PeriodTop == 2^(LowBits + HighBits)
Periods == 0 .. PeriodTop - 1

PeriodLow(period, d)  == 2^LowBits * (period \div 2^LowBits) + (d % 2^LowBits)
PeriodHigh(period, d) == 2^LowBits * (d % 2^HighBits) + (period % 2^LowBits)

SweepShift(sreg)  == sreg % 8
SweepNegate(sreg) == Flag(sreg, 3)

(* Computed with one bit more than a period has.  The two pulse channels
   complement the shifted period differently. *)
SweepTarget_Narrow(sreg, period, channel) ==     \* faulty: the carry is lost
  LET shifted == period \div 2^SweepShift(sreg)
  IN  (IF SweepNegate(sreg) THEN period + (2 * PeriodTop - 1 - shifted) + channel
       ELSE period + shifted) % PeriodTop

SweepTarget(sreg, period, channel) ==
  LET shifted == period \div 2^SweepShift(sreg)
  IN  (IF SweepNegate(sreg) THEN period + (2 * PeriodTop - 1 - shifted) + channel
       ELSE period + shifted) % (2 * PeriodTop)

SweepSilences(sreg, period, channel) ==
  period < Lowest \/ SweepTarget(sreg, period, channel) >= PeriodTop

--------------------------------------------------------------------------------
(* apu_frame_counter.v.  apu is the pulse of an APU cycle, cpu that of a CPU
   cycle, wr the write of the mode, which lasts as long as the CPU's cycle. *)

NoFrame == [cnt |-> 0, seq_mode |-> FALSE, irq_inhibit |-> FALSE]

e_pulse(frame, apu) ==
  apu /\ \/ frame.cnt \in {Marks[1], Marks[2], Marks[3]}
         \/ ~frame.seq_mode /\ frame.cnt = Marks[4]
         \/ frame.seq_mode /\ frame.cnt = Marks[5]

l_pulse(frame, apu) ==
  apu /\ \/ frame.cnt = Marks[2]
         \/ ~frame.seq_mode /\ frame.cnt = Marks[4]
         \/ frame.seq_mode /\ frame.cnt = Marks[5]

FrameNext_KeepsCount(frame, cpu, apu, wr, d) ==     \* faulty: a new mode goes on where the old one was
  [cnt |-> IF ~apu THEN frame.cnt
           ELSE IF (~frame.seq_mode /\ frame.cnt = Marks[4]) \/ frame.cnt = Marks[5] THEN 0
           ELSE frame.cnt + 1,
   seq_mode    |-> IF wr THEN Flag(d, 7) ELSE frame.seq_mode,
   irq_inhibit |-> IF wr THEN Flag(d, 6) ELSE frame.irq_inhibit]

FrameNext(frame, cpu, apu, wr, d) ==
  [cnt |-> IF cpu /\ wr THEN Marks[5]
           ELSE IF ~apu THEN frame.cnt
           ELSE IF (~frame.seq_mode /\ frame.cnt = Marks[4]) \/ frame.cnt = Marks[5] THEN 0
           ELSE frame.cnt + 1,
   seq_mode    |-> IF wr THEN Flag(d, 7) ELSE frame.seq_mode,
   irq_inhibit |-> IF wr THEN Flag(d, 6) ELSE frame.irq_inhibit]

--------------------------------------------------------------------------------
(* The channels. *)

Duties == 0 .. 3

Pulses ==
  [env : Envelopes, period : Periods, timer : 0 .. 2 * (PeriodTop - 1), duty : Duties,
   seq : 0 .. 7, sreg : Byte, sreload : BOOLEAN, sdiv : 0 .. 7, length : Byte]

NoPulse ==
  [env |-> NoEnvelope, period |-> 0, timer |-> 0, duty |-> 0, seq |-> 0,
   sreg |-> 0, sreload |-> FALSE, sdiv |-> 0, length |-> 0]

(* The sweep has the period changed, unless the program does. *)
Sweeps(ch, channel, lc) ==
  /\ DivPulse(lc, ch.sdiv)
  /\ Flag(ch.sreg, 7) /\ SweepShift(ch.sreg) # 0
  /\ ~SweepSilences(ch.sreg, ch.period, channel)

PulseNext(ch, channel, en, cyc, lc, eg, wr, a, d) ==
  [env    |-> EnvNext(ch.env, eg, wr /\ a = 0, wr /\ a = 3, d),
   period |-> IF wr /\ a = 2 THEN PeriodLow(ch.period, d)
              ELSE IF wr /\ a = 3 THEN PeriodHigh(ch.period, d)
              ELSE IF Sweeps(ch, channel, lc)
                THEN SweepTarget(ch.sreg, ch.period, channel) % PeriodTop
              ELSE ch.period,
   timer  |-> DivNext(cyc, FALSE, 2 * ch.period, ch.timer),
   duty   |-> IF wr /\ a = 0 THEN Field(d, 6, 2) ELSE ch.duty,
   seq    |-> IF DivPulse(cyc, ch.timer) THEN (ch.seq + 7) % 8 ELSE ch.seq,
   sreg   |-> IF wr /\ a = 1 THEN d ELSE ch.sreg,
   sreload |-> (wr /\ a = 1) \/ (ch.sreload /\ ~lc),
   sdiv   |-> DivNext(lc, lc /\ ch.sreload, Field(ch.sreg, 4, 3), ch.sdiv),
   length |-> LengthNext(ch.length, en, Loops(ch.env), lc, wr /\ a = 3, Field(d, 3, 5))]

(* The steps of the sequence on which the output is high. *)
High(duty) ==
  CASE duty = 0 -> {7}
    [] duty = 1 -> {6, 7}
    [] duty = 2 -> 4 .. 7
    [] duty = 3 -> 0 .. 5

pulse_out(ch, channel) ==
  IF ch.length # 0 /\ ~SweepSilences(ch.sreg, ch.period, channel) /\ ch.seq \in High(ch.duty)
    THEN env_out(ch.env)
    ELSE 0

--------------------------------------------------------------------------------
(* The triangle has a linear counter beside the length counter, and no
   volume: it stops where it is. *)

Triangles ==
  [period : Periods, timer : Periods, halt : BOOLEAN, cntl : Byte, val : 0 .. 127,
   length : Byte, seq : 0 .. 31]

NoTriangle ==
  [period |-> 0, timer |-> 0, halt |-> FALSE, cntl |-> 0, val |-> 0, length |-> 0, seq |-> 0]

triangle_active(ch) == ch.val # 0 /\ ch.length # 0

TriangleNext(ch, en, cyc, lc, eg, wr, a, d) ==
  [period |-> IF wr /\ a = 2 THEN PeriodLow(ch.period, d)
              ELSE IF wr /\ a = 3 THEN PeriodHigh(ch.period, d)
              ELSE ch.period,
   timer  |-> DivNext(cyc, FALSE, ch.period, ch.timer),
   halt   |-> (wr /\ a = 3) \/ (ch.halt /\ ~(eg /\ ~Flag(ch.cntl, 7))),
   cntl   |-> IF wr /\ a = 0 THEN d ELSE ch.cntl,
   val    |-> IF eg /\ ch.halt THEN ch.cntl % 128
              ELSE IF eg /\ ch.val # 0 THEN ch.val - 1
              ELSE ch.val,
   length |-> LengthNext(ch.length, en, Flag(ch.cntl, 7), lc, wr /\ a = 3, Field(d, 3, 5)),
   seq    |-> IF triangle_active(ch) /\ DivPulse(cyc, ch.timer) THEN (ch.seq + 1) % 32
              ELSE ch.seq]

triangle_out_Gated(ch) ==    \* faulty: silent like the other channels
  IF ~triangle_active(ch) THEN 0
  ELSE IF ch.seq >= 16 THEN ch.seq - 16 ELSE 15 - ch.seq

triangle_out(ch) == IF ch.seq >= 16 THEN ch.seq - 16 ELSE 15 - ch.seq

--------------------------------------------------------------------------------

Noises ==
  [env : Envelopes, period : Nat, timer : Nat, lfsr : 1 .. 2^NoiseBits - 1,
   mode : BOOLEAN, length : Byte]

NoNoise ==
  [env |-> NoEnvelope, period |-> 0, timer |-> 0, lfsr |-> 1, mode |-> FALSE, length |-> 0]

Fed_Masks(ch) ==    \* faulty: both taps are to be set
  IF Flag(ch.lfsr, 0) /\ Flag(ch.lfsr, IF ch.mode THEN NoiseTap ELSE 1) THEN 1 ELSE 0

(* The bit that is shifted in at the top. *)
Fed(ch) ==
  IF Flag(ch.lfsr, 0) # Flag(ch.lfsr, IF ch.mode THEN NoiseTap ELSE 1) THEN 1 ELSE 0

NoiseNext(ch, en, cyc, lc, eg, wr, a, d) ==
  [env    |-> EnvNext(ch.env, eg, wr /\ a = 0, wr /\ a = 3, d),
   period |-> IF wr /\ a = 2 THEN NoisePeriods[d % 16] ELSE ch.period,
   timer  |-> DivNext(cyc, FALSE, 2 * ch.period, ch.timer),
   lfsr   |-> IF DivPulse(cyc, ch.timer) THEN Fed(ch) * 2^(NoiseBits - 1) + ch.lfsr \div 2
              ELSE ch.lfsr,
   mode   |-> IF wr /\ a = 2 THEN Flag(d, 7) ELSE ch.mode,
   length |-> LengthNext(ch.length, en, Loops(ch.env), lc, wr /\ a = 3, Field(d, 3, 5))]

noise_out(ch) == IF Flag(ch.lfsr, 0) /\ ch.length # 0 THEN env_out(ch.env) ELSE 0

================================================================================
