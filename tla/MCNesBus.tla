-------------------------------- MODULE MCNesBus -------------------------------
(* NesBus with CPU cycles of four clocks and pages of four bytes. *)
EXTENDS NesBus

Read(addr)     == [a |-> addr, r_nw |-> TRUE, d |-> 0, hlt |-> FALSE]
Write(addr, b) == [a |-> addr, r_nw |-> FALSE, d |-> b, hlt |-> FALSE]

Fetch == Read(32768)

(* The bus cycles of some instructions, as cpu.v makes them. *)
LoadAbs(addr)       == <<Fetch, Read(addr)>>
StoreAbs(addr, b)   == <<Fetch, Write(addr, b)>>
StoreAbsX(addr, b)  == <<Fetch, Read(addr), Write(addr, b)>>
Inc(addr, b)        == <<Fetch, Read(addr), Read(addr), Write(addr, b)>>
Jsr                 == <<Fetch, Write(509, 1), Write(508, 2)>>
Hlt                 == <<Fetch, [Fetch EXCEPT !.hlt = TRUE]>>

(* As programs do it: the sprite RAM address, here two bytes before the end,
   and then the page; by an instruction that writes it after two reads. *)
CopySprites(page) == StoreAbs(8195, 254) \o Inc(16404, page)

(* Memory, copies and stops: no PPU register, which a break may disturb. *)
StoppedProgram == {LoadAbs(5), CopySprites(3), Hlt}

(* PPU registers, what PPU_DISABLE has to undo, and pushes and a HLT on the way. *)
PictureProgram ==
  {LoadAbs(5), LoadAbs(8194),
   StoreAbs(8192, 128) \o StoreAbs(8193, 24) \o StoreAbs(8197, 9) \o Jsr \o Hlt}

IndexedProgram == {LoadAbs(5), LoadAbs(8194), StoreAbsX(8197, 9)}

Run == {<<OP_DBG_RUN>>}

(* The debugger reads and writes both memories and disables the PPU. *)
Session ==
  Run \cup
  {<<OP_PPU_DISABLE>>, <<OP_CPU_MEM_RD, 9, 0, 2, 0>>,
   <<OP_PPU_MEM_RD, 0, 32, 1, 0>>, <<OP_PPU_MEM_WR, 7, 0, 1, 0, 4>>}
================================================================================
