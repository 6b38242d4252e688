-------------------------------- MODULE CpuBytes -------------------------------
(* Bytes and their bits, for cpu.v and for the instruction set. *)
EXTENDS Integers

AllOnes == 255
Bit(v, i) == (v \div 2^i) % 2

(* The byte whose bits are 1 where one says. *)
BitsWhere(one(_)) ==
  LET b(i) == IF one(i) THEN 2^i ELSE 0
  IN  b(0) + b(1) + b(2) + b(3) + b(4) + b(5) + b(6) + b(7)

(* The bits that all bytes of D have at 1. *)
AndAll(D) == BitsWhere(LAMBDA i : \A v \in D : Bit(v, i) = 1)

BitAnd(x, y) == AndAll({x, y})
BitOr(x, y)  == BitsWhere(LAMBDA i : Bit(x, i) = 1 \/ Bit(y, i) = 1)
BitXor(x, y) == BitsWhere(LAMBDA i : Bit(x, i) # Bit(y, i))
================================================================================
