------------------------------- MODULE MCPpuPort -------------------------------
(* PpuPort with few bytes to write and memories whose bytes tell cells apart. *)
EXTENDS PpuPort

Chr(c) == c % 3
Ciram(c) == 3 + (c % 3)

WriteTo(reg, bytes) == [sel : {reg}, r_nw : {FALSE}, d : bytes]
ReadFrom(reg) == [sel |-> reg, r_nw |-> TRUE, d |-> 0]

(* Scroll positions and addresses such as 0x3f21 and 0x21ff, in any order of
   their halves, and accesses there by steps of 1 and of 32. *)
Program ==
  {ReadFrom(2), ReadFrom(5), ReadFrom(7)} \cup WriteTo(0, {4, 3}) \cup WriteTo(5, {157})
    \cup WriteTo(6, {255, 33}) \cup WriteTo(7, {215})
================================================================================
