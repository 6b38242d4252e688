-------------------------------- MODULE PpuSpr ---------------------------------
(***************************************************************************)
(* hw/src/ppu/ppu_spr.v: the sprites.  While one line is shown the next    *)
(* line's sprites are looked for in sprite RAM, one in four pixels, and    *)
(* noted in the temporary memory stm; their patterns are fetched beyond    *)
(* the right edge and kept in the buffer sbm; from there each is loaded    *)
(* into its shift registers when the line reaches its column.              *)
(*                                                                         *)
(* Registers and memories have the code's names.  Eight equal blocks of    *)
(* the code are one function over slots.                                   *)
(***************************************************************************)
EXTENDS PpuVga

CONSTANTS
  Sprites,    \* entries of sprite RAM: 64
  Slots,      \* sprites on a line: 8
  Rows        \* rows of a pattern: 8

ASSUME SprAssumption ==
  /\ Sprites \in Nat \ {0} /\ Width = 4 * Sprites
  /\ Slots \in Nat \ {0} /\ FetchX = Width + 8 * Slots
  /\ Rows \in 1 .. 8

VARIABLES
  oam,           \* sprite RAM: four bytes of each sprite
  stm,           \* the sprites found for the next line
  in_rng_cnt,    \* how many
  spr_overflow,
  pd,            \* the two bytes of the pattern being fetched
  sbm,           \* what is shown on the current line
  shift          \* the shift registers of each slot

sprVars == <<oam, stm, in_rng_cnt, spr_overflow, pd, sbm, shift>>

Slot == 0 .. Slots - 1
Cells == 0 .. 4 * Sprites - 1

NoFind == [primary |-> FALSE, tile |-> 0, x |-> 0, ps |-> 0, priority |-> 0,
           h_inv |-> FALSE, row |-> 0]
NoSprite == [primary |-> FALSE, priority |-> 0, ps |-> 0, pd1 |-> 0, pd0 |-> 0, x |-> 0]
Dry == [pd1 |-> 0, pd0 |-> 0]

(* The memories come up filled with zeroes. *)
SprInit ==
  /\ stm = [o \in Slot |-> NoFind]
  /\ in_rng_cnt = 0
  /\ spr_overflow = FALSE
  /\ pd = Dry
  /\ sbm = [o \in Slot |-> NoSprite]
  /\ shift = [o \in Slot |-> Dry]

--------------------------------------------------------------------------------
(* Evaluation, while the screen's columns pass: sprite x / 4 in column x. *)

Candidate == nes_x \div 4

oam_rd_y(i) == (oam[4 * i] + 1) % 256
rng_cmp_res(i, y) == (y + 512 - oam_rd_y(i)) % 512
in_rng(i, y, spr_h) == rng_cmp_res(i, y) < (IF spr_h THEN 2 * Rows ELSE Rows)

Found(en, spr_h) ==
  /\ en /\ nes_y_next < Shown
  /\ nes_x < Width /\ nes_x % 4 = 0
  /\ in_rng(Candidate, nes_y_next, spr_h)
  /\ in_rng_cnt < Slots

Note(i, y) ==
  LET attr == oam[4 * i + 2]
      row  == rng_cmp_res(i, y) % (2 * Rows)
  IN  [primary |-> i = 0, tile |-> oam[4 * i + 1], x |-> oam[4 * i + 3],
       ps |-> attr % 4, priority |-> Bit(attr, 5), h_inv |-> Bit(attr, 6) = 1,
       row |-> IF Bit(attr, 7) = 1 THEN 2 * Rows - 1 - row ELSE row]

d_in_rng_cnt(en, spr_h) ==
  IF en /\ nes_y_next < Shown /\ nes_x = FetchX THEN 0
  ELSE IF Found(en, spr_h) THEN in_rng_cnt + 1
  ELSE in_rng_cnt

d_spr_overflow_Forgets(en) ==     \* faulty: cleared on every line
  IF nes_x = 0 THEN FALSE ELSE spr_overflow \/ in_rng_cnt >= Slots

d_spr_overflow(en) ==
  IF nes_y_next = 0 /\ nes_x = 0 THEN FALSE ELSE spr_overflow \/ in_rng_cnt >= Slots

Evaluate(en, spr_h) ==
  /\ in_rng_cnt' = d_in_rng_cnt(en, spr_h)
  /\ spr_overflow' = d_spr_overflow(en)
  /\ stm' = IF Found(en, spr_h)
              THEN [stm EXCEPT ![in_rng_cnt % Slots] = Note(Candidate, nes_y_next)]
              ELSE stm

--------------------------------------------------------------------------------
(* Fetching, beyond the right edge: eight columns for each slot. *)

SprFetching(en) == en /\ nes_y_next < Shown /\ nes_x \in Width .. FetchX - 1

Fetched_o == (nes_x - Width) \div 8
SprPhase == (nes_x % 8) \div 2

spr_vram_req(en) == SprFetching(en) /\ Fetched_o < in_rng_cnt /\ SprPhase < 2

spr_vram_a(spr_h, pt_sel) ==
  LET s == stm[Fetched_o]
      plane == SprPhase % 2
  IN  IF spr_h
        THEN 4096 * (s.tile % 2) + 32 * (s.tile \div 2) + 16 * (s.row \div Rows)
               + 8 * plane + (s.row % Rows)
        ELSE 4096 * pt_sel + 16 * s.tile + 8 * plane + (s.row % Rows)

(* Shift registers put out bit 0 first: a pattern is stored reversed. *)
Pattern(vram_d) == IF stm[Fetched_o].h_inv THEN vram_d ELSE Reversed(vram_d)

Buffered ==
  LET s == stm[Fetched_o]
  IN  [primary |-> s.primary, priority |-> s.priority, ps |-> s.ps,
       pd1 |-> pd.pd1, pd0 |-> pd.pd0, x |-> s.x]

(* The buffer from a pixel's second clock on. *)
sbm_now(en) ==
  IF ~SprFetching(en) THEN sbm
  ELSE IF Fetched_o >= in_rng_cnt THEN [sbm EXCEPT ![Fetched_o] = NoSprite]
  ELSE IF SprPhase = 2 THEN [sbm EXCEPT ![Fetched_o] = Buffered]
  ELSE sbm

Fetch(en, vram_d) ==
  /\ sbm' = sbm_now(en)
  /\ pd' = IF ~SprFetching(en) \/ Fetched_o >= in_rng_cnt THEN pd
           ELSE CASE SprPhase = 0 -> [pd EXCEPT !.pd0 = Pattern(vram_d)]
                  [] SprPhase = 1 -> [pd EXCEPT !.pd1 = Pattern(vram_d)]
                  [] OTHER -> pd

--------------------------------------------------------------------------------
(* Output.  A slot is loaded on the first clocks of its column and shifted
   by the pixel pulse on the last. *)

Showing(en) == en /\ nes_y < Shown

Loaded(en, o) ==
  IF Showing(en) /\ nes_x = sbm[o].x THEN [pd1 |-> sbm[o].pd1, pd0 |-> sbm[o].pd0]
  ELSE shift[o]

Show(en) ==
  shift' = IF Showing(en)
             THEN [o \in Slot |-> [pd1 |-> Loaded(en, o).pd1 \div 2,
                                   pd0 |-> Loaded(en, o).pd0 \div 2]]
             ELSE shift

Colour(en, o) == 2 * (Loaded(en, o).pd1 % 2) + (Loaded(en, o).pd0 % 2)

Nothing == [primary |-> FALSE, priority |-> 0, palette_idx |-> 0]

(* The first slot with a colour wins.  What it is comes from the buffer, which
   beyond the right edge is filled for the next line. *)
spr_out(en, ls_clip) ==
  LET now == sbm_now(en)
      Opaque == {o \in Slot : Colour(en, o) # 0}
      o == CHOOSE p \in Opaque : \A q \in Opaque : p <= q
  IN  IF ~en \/ (ls_clip /\ nes_x < 8) \/ Opaque = {} THEN Nothing
      ELSE [primary |-> now[o].primary, priority |-> now[o].priority,
            palette_idx |-> 4 * now[o].ps + Colour(en, o)]

(* All that happens by the end of a pixel. *)
SprPixel(en, spr_h, vram_d) ==
  Evaluate(en, spr_h) /\ Fetch(en, vram_d) /\ Show(en) /\ UNCHANGED oam

(* A byte written by the register interface. *)
OamWrite(a, d) == oam' = [oam EXCEPT ![a % (4 * Sprites)] = d]

================================================================================
