---------------------------------- MODULE MCApu --------------------------------
(* Apu with a short sequence, periods of three bits and a shift register of
   five, and a scene for each unit of a channel. *)
EXTENDS Apu

ShortSequence == <<1, 2, 4, 5, 7>>
ShortPeriods == [i \in 0 .. 15 |-> i]

W(reg, data) == [a : {reg}, d : data]

(* Another mode, at any time: four steps or five. *)
Modes == W(Mode, {0, 128})

(* A decaying envelope, its period and loop changed, restarted. *)
Fading ==
  [kind |-> "pulse1",
   ch |-> [NoPulse EXCEPT !.env = [NoEnvelope EXCEPT !.reg = 1, !.start = TRUE], !.length = 2],
   writes |-> W(4, {34}) \cup W(7, {24})]

(* Noise, with its mode and period switched and the sound restarted. *)
Hiss ==
  [kind |-> "noise",
   ch |-> [NoNoise EXCEPT !.env = [NoEnvelope EXCEPT !.reg = 16], !.length = 2],
   writes |-> W(12, {17}) \cup W(14, {0, 128}) \cup W(15, {24})]

(* Short notes under changes of mode, of the enable bit and of the length. *)
Notes ==
  [kind |-> "pulse0",
   ch |-> [NoPulse EXCEPT !.env = [NoEnvelope EXCEPT !.reg = 16], !.length = 2],
   writes |-> Modes \cup W(0, {48, 16}) \cup W(3, {24, 40}) \cup W(Status, {0, 1})]

(* Sweeps up and down, with the period changed on the way. *)
Sweep(i, channel) ==
  [kind |-> Kinds[i],
   ch |-> [NoPulse EXCEPT !.env = [NoEnvelope EXCEPT !.reg = 48], !.period = 3, !.length = 2,
                          !.sreg = 129, !.duty = 2],
   writes |-> W(channel + 1, {153}) \cup W(channel + 3, {1})]

Triangle ==
  [kind |-> "triangle",
   ch |-> [NoTriangle EXCEPT !.cntl = 2, !.length = 2, !.period = 1, !.halt = TRUE],
   writes |-> Modes \cup W(8, {2, 130}) \cup W(11, {24}) \cup W(Status, {0, 4})]

AllScenes == {Fading, Hiss, Notes, Sweep(1, 0), Sweep(2, 4), Triangle}
================================================================================
