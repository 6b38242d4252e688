-------------------------------- MODULE PpuTiles -------------------------------
(***************************************************************************)
(* hw/src/ppu/ppu_bg.v while the picture is made: what it asks of video    *)
(* memory, the tile it has fetched, the shift registers from which pixels  *)
(* leave, and when the scroll counters of PpuBg move.                      *)
(*                                                                         *)
(* The registers are fields of the record tile, named as in the code; the  *)
(* operators give the values at the end of a NES pixel.                    *)
(***************************************************************************)
EXTENDS PpuBg, PpuVga

VARIABLE tile

NoTile == [par |-> 0, ar |-> 0, pd0 |-> 0, pd1 |-> 0,
           bit3 |-> 0, bit2 |-> 0, bit1 |-> 0, bit0 |-> 0]

(* Lines on which the background is at work. *)
Working(en) == en /\ (nes_y < Shown \/ nes_y_next = 0)

(* Where it fetches and shifts: on the screen, and two tiles ahead. *)
Fetching(en) == Working(en) /\ (nes_x < Width \/ nes_x \in FetchX .. FetchX + 15)

Phase == nes_x % 8

TileDone(en) == Fetching(en) /\ Phase = 7
LineDone(en) == Working(en) /\ nes_x = FetchX - 1

PixelRequests_BothLines(en) ==   \* faulty: steps down after each VGA line
  [inc_addr |-> FALSE, upd_cntrs |-> FALSE,
   upd_h |-> LineDone(en),
   upd_v |-> LineDone(en) /\ nes_y_next = 0,
   inc_v |-> LineDone(en) /\ nes_y_next # 0,
   inc_h |-> TileDone(en)]

(* What the pixel pulse asks of the counters. *)
PixelRequests(en) ==
  [inc_addr |-> FALSE, upd_cntrs |-> FALSE,
   upd_h |-> LineDone(en),
   upd_v |-> LineDone(en) /\ nes_y_next # nes_y /\ nes_y_next = 0,
   inc_v |-> LineDone(en) /\ nes_y_next # nes_y /\ nes_y_next # 0,
   inc_h |-> TileDone(en)]

--------------------------------------------------------------------------------
(* Addresses of a tile's name, attributes and pattern. *)

NameAddress(c) == 8192 + 2048 * c.vc + 1024 * c.hc + 32 * c.vtc + c.htc

AttributeAddress(c) ==
  8192 + 2048 * c.vc + 1024 * c.hc + 960 + 8 * (c.vtc \div 4) + c.htc \div 4

PatternAddress(c, s, par, plane) == 4096 * s + 16 * par + 8 * plane + c.fvc

TileRead(en) == Fetching(en) /\ Phase < 4

(* The address for this pixel; without a read it is 0x2007's. *)
bg_vram_a(en, c, s) ==
  IF ~TileRead(en) THEN AddressRi(c)
  ELSE CASE Phase = 0 -> NameAddress(c)
         [] Phase = 1 -> AttributeAddress(c)
         [] Phase = 2 -> PatternAddress(c, s, tile.par, 0)
         [] Phase = 3 -> PatternAddress(c, s, tile.par, 1)

(* The pair of attribute bits for the quarter the tile is in. *)
Quarter(c) == 4 * ((c.vtc \div 2) % 2) + 2 * ((c.htc \div 2) % 2)

Fetched(c, vram_d) ==
  CASE Phase = 0 -> [tile EXCEPT !.par = vram_d]
    [] Phase = 1 -> [tile EXCEPT !.ar = (vram_d \div 2^Quarter(c)) % 4]
    [] Phase = 2 -> [tile EXCEPT !.pd0 = vram_d]
    [] Phase = 3 -> [tile EXCEPT !.pd1 = vram_d]
    [] OTHER -> tile

(* One pixel further: attributes keep their top bit, patterns run dry. *)
Shifted(t) ==
  [t EXCEPT !.bit3 = 256 * Bit(@, 8) + (@ \div 2), !.bit2 = 256 * Bit(@, 8) + (@ \div 2),
            !.bit1 = @ \div 2, !.bit0 = @ \div 2]

(* The tile enters above the one that is leaving. *)
Entered(t) ==
  [t EXCEPT !.bit3 = 256 * Bit(tile.ar, 1) + (@ % 256), !.bit2 = 256 * Bit(tile.ar, 0) + (@ % 256),
            !.bit1 = 256 * Reversed(tile.pd1) + (@ % 256),
            !.bit0 = 256 * Reversed(tile.pd0) + (@ % 256)]

TileAfterPixel(en, c, vram_d) ==
  IF ~Fetching(en) THEN tile
  ELSE LET t == Shifted(Fetched(c, vram_d)) IN IF TileDone(en) THEN Entered(t) ELSE t

--------------------------------------------------------------------------------

Clipped(ls_clip) == ls_clip /\ nes_x < 8

(* Colour of the pixel, an index into the background's half of the palette. *)
bg_palette_idx(en, ls_clip, fh) ==
  IF Clipped(ls_clip) \/ ~en THEN 0
  ELSE 8 * Bit(tile.bit3, fh) + 4 * Bit(tile.bit2, fh)
         + 2 * Bit(tile.bit1, fh) + Bit(tile.bit0, fh)

================================================================================
