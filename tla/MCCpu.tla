--------------------------------- MODULE MCCpu ---------------------------------
(* Cpu with a clock of three phases, on programs that end in a jump to itself
   at 0x4C4C: memory that holds nothing else holds 0x4C, which is JMP_ABS. *)
EXTENDS Cpu, FiniteSets

(* Pages 0 to 4 hold data, and pointers to them; the three vectors point to
   0xF000. *)
SomeBackground(a) ==
  CASE a < 1280 -> IF a % 2 = 0 THEN (a * 37 + a \div 256) % 256 ELSE 2 + ((a \div 256 + a \div 2) % 3)
    [] a \in {65531, 65533, 65535} -> 240
    [] a \in {65530, 65532, 65534} -> 0
    [] a \in 1280 .. 65529 -> 76

At(pc, code) == [a \in {(pc + i - 1) % 65536 : i \in DOMAIN code} |-> code[((a - pc) % 65536) + 1]]

Quiet == [nnmi |-> 0, nres |-> 0, dbg |-> 0]

Scene(pc, code, ac, x, y, c) ==
  [pc |-> pc, mem |-> At(pc, code), ac |-> ac, x |-> x, y |-> y, c |-> c, left |-> Quiet]

(* Every byte as an opcode, for the addresses that it makes. *)
Addressing ==
  {Scene(pc, <<op, lo, hi>>, 164, x, y, 1) :
     pc \in {33022}, op \in 0 .. 255, lo \in {16, 255}, hi \in {2}, x \in {1, 254}, y \in {3, 250}}

(* What has no address in memory, for its result. *)
Immediate == {e[3] : e \in {e \in Opcodes : e[2] = "IMM"}}
Inherent  == {e[3] : e \in {e \in Opcodes : e[2] \in {"ACC", "IMP"}}}
Relative  == {e[3] : e \in {e \in Opcodes : e[2] = "REL"}}
Edges     == {0, 1, 127, 128, 255}

Arithmetic ==
  {Scene(32768, <<op, v>>, n, n, n, c) : op \in Immediate, v \in Edges, n \in Edges, c \in {0, 1}}
    \cup {Scene(32768, <<op>>, n, 127 - n \div 2, n, c) : op \in Inherent, n \in Edges, c \in {0, 1}}
    \cup {Scene(pc, <<201, 127, op, off>>, n, 0, 0, 0) :
            op \in Relative, off \in {5, 127, 128, 250}, n \in {0, 127, 255}, pc \in {33020, 32776}}
    \cup {Scene(32768, <<105, v, op, 5>>, n, 0, 0, 0) :
            op \in Relative, v \in {1, 127}, n \in {0, 1, 127}}

(* LDX #0, TXS and then: JSR, RTS; PHP, PLP; PHA, PLA; BRK, RTI: with the
   stack wrapping around. *)
Stacking ==
  {[Scene(1528, <<162, 0, 154>> \o code, 197, 0, 0, c) EXCEPT
      !.mem = @ @@ At(61440, <<64>>) @@ At(1600, <<96>>)] :
     code \in {<<32, 64, 6, 138>>, <<8, 104, 40>>, <<72, 40, 8, 104>>, <<0, 0, 234>>, <<186, 8>>},
     c \in {0, 1}}

(* Interrupts at any moment: around instructions that fetch ahead and that do
   not, BRK, and branches taken, not taken and to another page.  The handler
   is INC 5, RTI. *)
Disturbed(budget) ==
  {[Scene(pc, code, 255, 1, 1, 1) EXCEPT
      !.mem = @ @@ At(61440, <<230, 5, 64>>), !.left = budget] :
     pc \in {1528},
     code \in {<<105, 3, 234, 48, 2>>, <<16, 2, 144, 3, 176, 1>>, <<8, 40, 120, 88>>,
               <<0, 0, 169, 7>>, <<32, 64, 6>>, <<224, 1, 208, 2, 240, 251>>, <<254, 16, 2, 72>>}}

(* The debugger, with HLT and without. *)
Debugged ==
  {[Scene(1528, code, 9, 1, 1, 0) EXCEPT
      !.mem = @ @@ At(32768, <<138, 133, 5>>), !.left = [Quiet EXCEPT !.dbg = 2, !.nnmi = 1]] :
     code \in {<<234, 2, 152>>, <<32, 64, 6>>}}

SomeScenes ==
  Addressing \cup Arithmetic \cup Stacking
    \cup Disturbed([Quiet EXCEPT !.nnmi = 1])
    \cup Disturbed([Quiet EXCEPT !.nnmi = 1, !.nres = 1])
    \cup Debugged
================================================================================
