------------------------------- MODULE VideoPort -------------------------------
(***************************************************************************)
(* What a program may believe of the PPU's port to video memory            *)
(* (registers 0x2000, 0x2002, 0x2005, 0x2006 and 0x2007) while the picture *)
(* is off: an address register v, a second one, t, in which scroll         *)
(* position and address are put together, a write toggle w and a read      *)
(* buffer.  An access is one step.  PpuPort implements this specification. *)
(***************************************************************************)
EXTENDS VideoMemory

CONSTANT Data    \* bytes the program writes

VARIABLES
  t, v,      \* fifteen bits: fine Y, name tables, coarse Y, coarse X
  x,         \* fine X
  w,         \* the next write to 0x2005 or 0x2006 is the second
  incr32,    \* step by a line of tiles instead of a tile
  buf,       \* the byte read ahead
  out,       \* the byte the last read got
  stored     \* the byte the last access stored in memory and where, if any

portVars == <<t, v, x, w, incr32, buf, out, stored>>

Bits(n, lo, len) == (n \div 2^lo) % 2^len
WithBits(n, lo, len, b) == n - 2^lo * Bits(n, lo, len) + 2^lo * b

Init ==
  /\ t = 0 /\ v = 0 /\ x = 0
  /\ ~w /\ ~incr32
  /\ buf = 0 /\ out = 0
  /\ stored = <<>>

Ctrl(d) ==
  /\ t' = WithBits(t, 10, 2, Bits(d, 0, 2))
  /\ incr32' = (Bits(d, 2, 1) = 1)
  /\ UNCHANGED <<v, x, w, buf, out>>
  /\ stored' = <<>>

ReadStatus ==
  /\ w' = FALSE
  /\ out' = 0      \* no vertical blank, no sprite
  /\ UNCHANGED <<t, v, x, incr32, buf>>
  /\ stored' = <<>>

Scroll(d) ==
  /\ w' = ~w
  /\ \/ ~w /\ t' = WithBits(t, 0, 5, Bits(d, 3, 5)) /\ x' = Bits(d, 0, 3)
     \/ w /\ t' = WithBits(WithBits(t, 12, 3, Bits(d, 0, 3)), 5, 5, Bits(d, 3, 5))
          /\ UNCHANGED x
  /\ UNCHANGED <<v, incr32, buf, out>>
  /\ stored' = <<>>

Addr(d) ==
  /\ w' = ~w
  /\ \/ ~w /\ t' = WithBits(t, 8, 7, Bits(d, 0, 6)) /\ UNCHANGED v
     \/ w /\ t' = WithBits(t, 0, 8, d) /\ v' = t'
  /\ UNCHANGED <<x, incr32, buf, out>>
  /\ stored' = <<>>

Step == v' = (v + (IF incr32 THEN 32 ELSE 1)) % 32768

a == v % 16384
InPalette == a \div 256 = 63

Store(d) ==
  /\ stored' = IF InPalette THEN <<"palette", PramCell(a), d % 64>>
               ELSE IF InCiram(a) THEN <<"names", CiramCell(a), d>>
               ELSE <<"patterns", ChrCell(a), d>>
  /\ Step
  /\ UNCHANGED <<t, x, w, incr32, buf, out>>

(* A read gets the byte that the read before it went for, except from the
   palette, and goes for the next. *)
Load ==
  /\ out' = IF InPalette THEN PramByte(PramCell(a)) ELSE buf
  /\ buf' = MemByte(a)
  /\ Step
  /\ UNCHANGED <<t, x, w, incr32>>
  /\ stored' = <<>>

(* A read of another register, and a write of 0x2002. *)
Nothing ==
  /\ UNCHANGED <<t, v, x, w, incr32, buf, out>>
  /\ stored' = <<>>

Next ==
  \/ ReadStatus \/ Load \/ Nothing
  \/ \E d \in Data : Ctrl(d) \/ Scroll(d) \/ Addr(d) \/ Store(d)

Spec == Init /\ [][Next]_portVars

================================================================================
