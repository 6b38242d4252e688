--------------------------------- MODULE MCHost --------------------------------
(* Host with bytes of eight bits and memories of a few cells.  Data bytes look
   like opcodes: 3 is a break, 4 is RUN, 7 a query. *)
EXTENDS Host

SameCell(a) == a
SomeCpuCells == 32768 .. 32771
SomePpuCells == {0, 1}

(* Raw debugger: a read, a write with a byte missing, an odd number of digits. *)
SomeTexts ==
  { <<0, 1, Space, 0, 1, 8, 0, Space, 0, 2, 0, 0>>,
    <<0, 2, 0, 1, 8, 0, 0, 1, 0, 0>>,
    <<0, 2, 0>> }

Header(prg, chr, flags, mapper) ==
  <<78, 69, 83, 26, prg, chr, flags, mapper, 0, 0, 0, 0, 4, 3, 0, 0>>

(* With a bank of each, cut short; with no bank; refused, for two reasons. *)
SomeRoms ==
  { Header(1, 1, 1, 0) \o <<7, 3, 4, 9>> \o <<5>>,
    Header(0, 0, 1, 0),
    Header(3, 0, 0, 16) }

SomeTables == {<<7>>}
SomeAsmFiles == {<<1, 0, 7>>}
================================================================================
