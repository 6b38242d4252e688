--------------------------------- MODULE CpuIsa --------------------------------
(***************************************************************************)
(* What a program may count on from the CPU: the instruction set of the    *)
(* 6502, as cpu.v implements it, one instruction or interrupt at a time.   *)
(*                                                                         *)
(* arch is what the program sees, at the beginning of an instruction: pc,  *)
(* where it is, the registers, the flags and the memory.  doing says what  *)
(* begins there.                                                           *)
(***************************************************************************)
EXTENDS CpuBytes, TLC

CONSTANTS
  Instruction,     \* what each byte means as an opcode: see CpuDecode
  Background(_)    \* memory where nothing has been written

VARIABLES
  arch,
  doing,       \* "instruction", "nmi", "reset", "none" (the debugger has set pc)
               \* or "half set"
  nmiLine,     \* /NMI, as it has been seen last
  owedNmi,     \* it has fallen and has not been answered
  rstLine, owedRst

isaVars == <<arch, doing, nmiLine, owedNmi, rstLine, owedRst>>

Byte(n) == n % 256
W(n)    == n % 65536
Is(b)   == IF b THEN 1 ELSE 0

Cell(a, addr)    == IF addr \in DOMAIN a.mem THEN a.mem[addr] ELSE Background(addr)
Put(a, addr, v)  == [a EXCEPT !.mem = (addr :> v) @@ @]
Pointer(a, p)    == Cell(a, p) + 256 * Cell(a, (p \div 256) * 256 + Byte(p + 1))

(* The two bytes after the opcode. *)
Lo(a)   == Cell(a, W(a.pc + 1))
Abs(a)  == Lo(a) + 256 * Cell(a, W(a.pc + 2))

Length(mode) ==
  CASE mode \in {"IMP", "ACC"} -> 1
    [] mode \in {"ABS", "ABSX", "ABSY", "IND"} -> 3
    [] mode \in {"IMM", "ZP", "ZPX", "ZPY", "INDX", "INDY", "REL"} -> 2

Address(a, mode) ==
  CASE mode = "IMM"  -> W(a.pc + 1)
    [] mode = "ZP"   -> Lo(a)
    [] mode = "ZPX"  -> Byte(Lo(a) + a.x)
    [] mode = "ZPY"  -> Byte(Lo(a) + a.y)
    [] mode = "ABS"  -> Abs(a)
    [] mode = "ABSX" -> W(Abs(a) + a.x)
    [] mode = "ABSY" -> W(Abs(a) + a.y)
    [] mode = "IND"  -> Pointer(a, Abs(a))
    [] mode = "INDX" -> Pointer(a, Byte(Lo(a) + a.x))
    [] mode = "INDY" -> W(Pointer(a, Lo(a)) + a.y)

NZ(a, v) == [a EXCEPT !.n = Bit(v, 7), !.z = Is(v = 0)]

(* The flags as a byte, and what a byte makes of them; b tells BRK and PHP
   from an interrupt. *)
Flags(a, b) == 128 * a.n + 64 * a.v + 32 + 16 * b + 8 * a.d + 4 * a.i + 2 * a.z + a.c
SetFlags(a, v) ==
  [a EXCEPT !.n = Bit(v, 7), !.v = Bit(v, 6), !.d = Bit(v, 3), !.i = Bit(v, 2), !.z = Bit(v, 1), !.c = Bit(v, 0)]

Push(a, v) == [Put(a, 256 + a.s, v) EXCEPT !.s = Byte(@ - 1)]
Pop(a)     == [a EXCEPT !.s = Byte(@ + 1)]
Top(a)     == Cell(a, 256 + Byte(a.s + 1))
PushWord(a, v) == Push(Push(a, v \div 256), v % 256)

(* There is no decimal mode. *)
Add(a, v) ==
  LET sum == a.ac + v + a.c
  IN  [NZ(a, Byte(sum)) EXCEPT !.ac = Byte(sum), !.c = sum \div 256,
         !.v = Is(Bit(a.ac, 7) = Bit(v, 7) /\ Bit(a.ac, 7) # Bit(sum, 7))]
Compare(a, reg, v) == [NZ(a, Byte(reg - v)) EXCEPT !.c = Is(reg >= v)]

Alu(a, op, v) ==
  CASE op = "ADC" -> Add(a, v)
    [] op = "SBC" -> Add(a, 255 - v)
    [] op = "AND" -> [NZ(a, BitAnd(a.ac, v)) EXCEPT !.ac = BitAnd(a.ac, v)]
    [] op = "ORA" -> [NZ(a, BitOr(a.ac, v)) EXCEPT !.ac = BitOr(a.ac, v)]
    [] op = "EOR" -> [NZ(a, BitXor(a.ac, v)) EXCEPT !.ac = BitXor(a.ac, v)]
    [] op = "BIT" -> [a EXCEPT !.n = Bit(v, 7), !.v = Bit(v, 6), !.z = Is(BitAnd(a.ac, v) = 0)]
    [] op = "CMP" -> Compare(a, a.ac, v)
    [] op = "CPX" -> Compare(a, a.x, v)
    [] op = "CPY" -> Compare(a, a.y, v)
    [] op = "LDA" -> [NZ(a, v) EXCEPT !.ac = v]
    [] op = "LDX" -> [NZ(a, v) EXCEPT !.x = v]
    [] op = "LDY" -> [NZ(a, v) EXCEPT !.y = v]
Reads == {"ADC", "SBC", "AND", "ORA", "EOR", "BIT", "CMP", "CPX", "CPY", "LDA", "LDX", "LDY"}

Stored(a, op) ==
  CASE op = "STA" -> a.ac [] op = "STX" -> a.x [] op = "STY" -> a.y [] op = "SAX" -> BitAnd(a.ac, a.x)
Stores == {"STA", "STX", "STY", "SAX"}

(* The result, and the carry that comes with it. *)
Changed(a, op, v) ==
  CASE op = "ASL" -> [v |-> Byte(2 * v), c |-> Bit(v, 7)]
    [] op = "ROL" -> [v |-> Byte(2 * v + a.c), c |-> Bit(v, 7)]
    [] op = "LSR" -> [v |-> v \div 2, c |-> Bit(v, 0)]
    [] op = "ROR" -> [v |-> v \div 2 + 128 * a.c, c |-> Bit(v, 0)]
    [] op = "INC" -> [v |-> Byte(v + 1), c |-> a.c]
    [] op = "DEC" -> [v |-> Byte(v - 1), c |-> a.c]
Changes == {"ASL", "ROL", "LSR", "ROR", "INC", "DEC"}

Taken(a, op) ==
  CASE op = "BPL" -> a.n = 0 [] op = "BMI" -> a.n = 1
    [] op = "BVC" -> a.v = 0 [] op = "BVS" -> a.v = 1
    [] op = "BCC" -> a.c = 0 [] op = "BCS" -> a.c = 1
    [] op = "BNE" -> a.z = 0 [] op = "BEQ" -> a.z = 1

(* To a vector, with what is needed to come back pushed. *)
Interrupt(a, ret, b, vector) ==
  LET pushed == Push(PushWord(a, ret), Flags(a, b))
  IN  [pushed EXCEPT !.i = 1, !.pc = Pointer(pushed, vector)]

(* RTI and RTS. *)
Return(a) == LET b == Pop(a) IN [Pop(b) EXCEPT !.pc = Top(a) + 256 * Top(b)]

Implied(a, op) ==
  CASE op = "CLC" -> [a EXCEPT !.c = 0] [] op = "SEC" -> [a EXCEPT !.c = 1]
    [] op = "CLI" -> [a EXCEPT !.i = 0] [] op = "SEI" -> [a EXCEPT !.i = 1]
    [] op = "CLD" -> [a EXCEPT !.d = 0] [] op = "SED" -> [a EXCEPT !.d = 1]
    [] op = "CLV" -> [a EXCEPT !.v = 0]
    [] op = "TAX" -> [NZ(a, a.ac) EXCEPT !.x = a.ac]
    [] op = "TAY" -> [NZ(a, a.ac) EXCEPT !.y = a.ac]
    [] op = "TSX" -> [NZ(a, a.s) EXCEPT !.x = a.s]
    [] op = "TXA" -> [NZ(a, a.x) EXCEPT !.ac = a.x]
    [] op = "TXS" -> [a EXCEPT !.s = a.x]
    [] op = "TYA" -> [NZ(a, a.y) EXCEPT !.ac = a.y]
    [] op = "INX" -> [NZ(a, Byte(a.x + 1)) EXCEPT !.x = Byte(@ + 1)]
    [] op = "INY" -> [NZ(a, Byte(a.y + 1)) EXCEPT !.y = Byte(@ + 1)]
    [] op = "DEX" -> [NZ(a, Byte(a.x - 1)) EXCEPT !.x = Byte(@ - 1)]
    [] op = "DEY" -> [NZ(a, Byte(a.y - 1)) EXCEPT !.y = Byte(@ - 1)]
    [] op = "PHA" -> Push(a, a.ac)
    [] op = "PHP" -> Push(a, Flags(a, 1))
    [] op = "PLA" -> [NZ(Pop(a), Top(a)) EXCEPT !.ac = Top(a)]
    [] op = "PLP" -> SetFlags(Pop(a), Top(a))
    [] op \in {"NOP", "HLT", "none"} -> a

(* One instruction. *)
Execute(a) ==
  LET i    == Instruction[Cell(a, a.pc)]
      next == W(a.pc + Length(i.mode))
      addr == Address(a, i.mode)
      b    == [a EXCEPT !.pc = next]
      off  == IF Lo(a) > 127 THEN Lo(a) - 256 ELSE Lo(a)
      new(v) == Changed(a, i.op, v)
  IN  CASE i.op \in Reads -> Alu(b, i.op, Cell(a, addr))
        [] i.op \in Stores -> Put(b, addr, Stored(a, i.op))
        [] i.op \in Changes /\ i.mode = "ACC" ->
             [NZ(b, new(a.ac).v) EXCEPT !.ac = new(a.ac).v, !.c = new(a.ac).c]
        [] i.op \in Changes /\ i.mode # "ACC" ->
             LET r == new(Cell(a, addr)) IN Put([NZ(b, r.v) EXCEPT !.c = r.c], addr, r.v)
        [] i.mode = "REL" -> IF Taken(a, i.op) THEN [a EXCEPT !.pc = W(next + off)] ELSE b
        [] i.op = "JMP" -> [a EXCEPT !.pc = addr]
        [] i.op = "JSR" -> [PushWord(a, W(a.pc + 2)) EXCEPT !.pc = Abs(a)]
        [] i.op = "RTS" -> [Return(a) EXCEPT !.pc = W(@ + 1)]
        [] i.op = "RTI" -> Return(SetFlags(Pop(a), Top(a)))
        [] i.op = "BRK" -> Interrupt(a, W(a.pc + 2), 1, \hFFFE)
        [] OTHER -> Implied(b, i.op)

After(a, what) ==
  CASE what = "instruction" -> Execute(a)
    [] what = "nmi" -> Interrupt(a, a.pc, 0, \hFFFA)
    [] what = "reset" -> Interrupt(a, a.pc, 0, \hFFFC)
    [] what = "none" -> a

--------------------------------------------------------------------------------
NmiFalls == nmiLine /\ ~nmiLine'
RstFalls == rstLine /\ ~rstLine'

(* The next instruction, or the interrupt that is owed; the one before has
   been answered for good. *)
Step ==
  /\ doing # "half set"
  /\ doing = "nmi" => ~owedNmi
  /\ doing = "reset" => ~owedRst
  /\ arch' = After(arch, doing)
  /\ doing' = IF owedRst THEN "reset" ELSE IF owedNmi THEN "nmi" ELSE "instruction"
  /\ owedNmi' = (owedNmi \/ NmiFalls)
  /\ owedRst' = (owedRst \/ RstFalls)

(* A line falls, or what is being answered is not owed any more. *)
Lines ==
  /\ UNCHANGED <<arch, doing>>
  /\ owedNmi' = (owedNmi \/ NmiFalls) \/ (doing = "nmi" /\ ~owedNmi')
  /\ owedRst' = (owedRst \/ RstFalls) \/ (doing = "reset" /\ ~owedRst')

(* The debugger sets a register between instructions or during a HLT. *)
SetRegister ==
  /\ doing \in {"half set", "none"} \/ (doing = "instruction" /\ Instruction[Cell(arch, arch.pc)].op = "HLT")
  /\ \/ arch' = [arch EXCEPT !.ac = arch'.ac]
     \/ arch' = [arch EXCEPT !.x = arch'.x]
     \/ arch' = [arch EXCEPT !.y = arch'.y]
     \/ arch' = SetFlags(arch, Flags(arch', 0))
  /\ UNCHANGED <<doing, nmiLine, owedNmi, rstLine, owedRst>>

(* The debugger sets half of pc, and then the other.  The instruction under
   way is given up, whatever it has done so far. *)
SetPc ==
  /\ doing' \in {"half set", "none"}
  /\ doing \in {"half set", "none"} => arch' = [arch EXCEPT !.pc = arch'.pc]
  /\ doing' = "none" =>
       /\ doing \in {"half set", "none"}
       /\ \/ arch'.pc \div 256 = arch.pc \div 256
          \/ arch'.pc % 256 = arch.pc % 256
  /\ UNCHANGED <<nmiLine, owedNmi, rstLine, owedRst>>

Init ==
  /\ doing = "none"
  /\ nmiLine = TRUE /\ owedNmi = FALSE
  /\ rstLine = TRUE /\ owedRst = FALSE

Next == Lines \/ Step \/ SetRegister \/ SetPc

Spec == Init /\ [][Next]_isaVars
================================================================================
