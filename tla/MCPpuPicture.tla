----------------------------- MODULE MCPpuPicture ------------------------------
(* PpuPicture with a screen of sixteen by three pixels, four sprites of two
   rows and two slots.  Scroll positions are near the ends of the counters, so
   that the small screen lies across the borders of the name tables. *)
EXTENDS PpuPicture

(* Bytes in which neighbours differ and both planes have zeroes and ones. *)
Chr(c) == (c * 37 + (c \div 8) * 11 + 5) % 256
Ciram(c) == (c * 3 + c \div 32) % 256

On == [Reset EXCEPT !.bg_en = TRUE, !.spr_en = TRUE, !.vblank = TRUE, !.vblank_in = TRUE]

(* Sprite RAM from a sequence of bytes. *)
Oam(bytes) == [a \in Cells |-> bytes[a + 1]]

R(sel) == [sel |-> sel, r_nw |-> TRUE, d |-> 0]
W(sel, d) == [sel |-> sel, r_nw |-> FALSE, d |-> d]

Hidden == 100

(* Scrolling over the corner of the four tables, with a change of fine and
   coarse position, name tables and blanking at any time. *)
Scroll ==
  [ri |-> [On EXCEPT !.vt = 29, !.fv = 6, !.ht = 30, !.fh = 3, !.h = 1, !.spr_en = FALSE],
   oam |-> Oam(<<Hidden, 0, 0, 0, Hidden, 0, 0, 0, Hidden, 0, 0, 0, Hidden, 0, 0, 0>>),
   accesses |-> {W(5, 254), W(5, 13), W(0, 2), R(2)}]

Blanked ==
  [ri |-> [On EXCEPT !.vt = 3, !.fv = 7, !.ht = 7, !.fh = 6, !.bg_ls_clip = TRUE, !.spr_en = FALSE],
   oam |-> Oam(<<Hidden, 0, 0, 0, Hidden, 0, 0, 0, Hidden, 0, 0, 0, Hidden, 0, 0, 0>>),
   accesses |-> {W(1, 0), W(1, 10), W(6, 5)}]

(* Three sprites on one line, overlapping, and one of them at the top. *)
Crowd ==
  [ri |-> [On EXCEPT !.fh = 2, !.ht = 5],
   oam |-> Oam(<<0, 5, 0, 2,  255, 9, 33, 5,  1, 7, 194, 6,  0, 3, 3, 4>>),
   accesses |-> {W(1, 30), W(3, 0), W(4, 1)}]

(* Tall sprites, in front, behind and at the right edge. *)
Tall ==
  [ri |-> [On EXCEPT !.spr_h = TRUE, !.s = 1],
   oam |-> Oam(<<0, 5, 32, 11,  255, 8, 129, 0,  Hidden, 0, 0, 0,  0, 13, 66, 8>>),
   accesses |-> {W(0, 48), W(0, 16), W(1, 8), W(1, 30)}]

(* Exactly as many sprites on a line as there are slots, in every frame. *)
Pair ==
  [ri |-> On,
   oam |-> Oam(<<0, 5, 0, 2,  255, 9, 33, 5,  Hidden, 0, 0, 0,  Hidden, 0, 0, 0>>),
   accesses |-> {}]

(* A sprite with columns beyond the right edge, on the line above sprite 0. *)
Edge ==
  [ri |-> On,
   oam |-> Oam(<<0, 5, 0, 2,  255, 9, 33, 13,  Hidden, 0, 0, 0,  Hidden, 0, 0, 0>>),
   accesses |-> {}]

AllScenes == {Pair, Scroll, Blanked, Crowd, Tall, Edge}
================================================================================
