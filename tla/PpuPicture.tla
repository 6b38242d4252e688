------------------------------ MODULE PpuPicture -------------------------------
(***************************************************************************)
(* The PPU at work (hw/src/ppu/ppu.v): background, sprites, priority and   *)
(* vertical blank, while a program reads and writes the registers at any   *)
(* time.                                                                   *)
(*                                                                         *)
(* A pixel takes eight clocks.  The last one, with the pixel pulse, is     *)
(* Pixel; Access and Idle are clocks before it, as many as there are.  A   *)
(* value that is stable from a pixel's second clock on, such as the byte   *)
(* of an address, is the value on its last clock.                          *)
(***************************************************************************)
EXTENDS PpuRi, PpuTiles, PpuSpr, VideoMemory, FiniteSets

CONSTANTS
  Scenes,      \* what a program has set up: [ri, oam, accesses], the accesses
               \* those it makes from now on, each [sel, r_nw, d]
  MaxAccesses  \* bound: accesses made

ASSUME PictureAssumption ==
  /\ \A s \in Scenes : /\ s.ri \in Registers
                       /\ s.oam \in [Cells -> Byte]
                       /\ s.accesses \subseteq [sel : {0, 1, 2, 3, 4, 5, 6}, r_nw : BOOLEAN, d : Byte]
  /\ MaxAccesses \in Nat

VARIABLES
  ctr,           \* scroll counters
  pri_obj_col,   \* sprite 0 has met the background
  program,       \* accesses the program makes
  made,          \* how many it has made
  (* History *)
  origin,        \* latches that the counters were loaded with for this frame and line
  steady,        \* the counters have not been disturbed since the frame was begun
  calm,          \* lines evaluated since sprites were last disturbed, up to 3
  whole,         \* sprites have not been disturbed since line 0
  met,           \* sprite 0 and background have overlapped on the screen in this frame
  told           \* reads of 0x2002 that told of the current vertical blank

codeVars == <<ri, ctr, tile, hcnt, vcnt, vblank, sprVars, pri_obj_col>>
historyVars == <<origin, steady, calm, whole, met, told>>
vars == <<codeVars, program, made, historyVars>>

NoOrigin == [v |-> 0, vt |-> 0, fv |-> 0, h |-> 0, ht |-> 0]

(* The program has set up registers and sprite RAM in the vertical blank. *)
Init ==
  /\ hcnt = 0 /\ vcnt = 2 * Shown /\ vblank = TRUE
  /\ \E s \in Scenes : ri = s.ri /\ oam = s.oam /\ program = s.accesses
  /\ ctr = Split15(0)
  /\ tile = NoTile
  /\ SprInit
  /\ pri_obj_col = FALSE
  /\ made = 0
  /\ origin = NoOrigin
  /\ steady = FALSE /\ calm = 0 /\ whole = FALSE /\ met = FALSE
  /\ told = 0

--------------------------------------------------------------------------------
(* Video memory has one address; sprites come first. *)

vram_a_out ==
  IF spr_vram_req(ri.spr_en) THEN spr_vram_a(ri.spr_h, ri.spr_pt_sel)
  ELSE bg_vram_a(ri.bg_en, ctr, ri.s)

vram_d_in == MemByte(vram_a_out)

Inputs(ncs, acc) ==
  [ncs |-> ncs, sel |-> acc.sel, r_nw |-> acc.r_nw, d |-> acc.d,
   vram_a |-> vram_a_out, vram_d |-> vram_d_in, pram_d |-> PramByte(PramCell(vram_a_out)),
   vblank |-> vblank, spr_ram_d |-> oam[ri.spr_ram_a % (4 * Sprites)],
   overflow |-> spr_overflow, pri_col |-> pri_obj_col]

Unused == [sel |-> 0, r_nw |-> TRUE, d |-> 0]
NoAccess == Inputs(TRUE, Unused)

--------------------------------------------------------------------------------
(* Pixels of background and sprites, and which of them is seen. *)

Background == bg_palette_idx(ri.bg_en, ri.bg_ls_clip, ri.fh)
Sprite == spr_out(ri.spr_en, ri.spr_ls_clip)

bg_trans == Background % 4 = 0
spr_trans == Sprite.palette_idx % 4 = 0

d_pri_obj_col_AnySprite ==     \* faulty: any sprite counts
  IF nes_y_next = 0 THEN FALSE
  ELSE pri_obj_col \/ (~spr_trans /\ ~bg_trans)

d_pri_obj_col ==
  IF nes_y_next = 0 THEN FALSE
  ELSE pri_obj_col \/ (Sprite.primary /\ ~spr_trans /\ ~bg_trans)

(* The cell of palette RAM whose colour goes to the screen. *)
Seen_SpritesAlways ==     \* faulty: sprites behind the background are in front of it
  IF ~spr_trans THEN 16 + Sprite.palette_idx
  ELSE IF ~bg_trans THEN Background
  ELSE 0

Seen ==
  IF (Sprite.priority = 0 \/ bg_trans) /\ ~spr_trans THEN 16 + Sprite.palette_idx
  ELSE IF ~bg_trans THEN Background
  ELSE 0

--------------------------------------------------------------------------------
(* What the screen should show, from sprite RAM, the latches and memory. *)

OnScreen == nes_x < Width /\ nes_y < Shown

(* The playfield is four name tables of 256 by 240 pixels, which wraps. *)
Playfield(px, py) ==
  LET table == 8192 + 2048 * (py \div 240) + 1024 * (px \div 256)
      col == (px % 256) \div 8
      line == (py % 240) \div 8
      name == MemByte(table + 32 * line + col)
      attr == MemByte(table + 960 + 8 * (line \div 4) + col \div 4)
      quarter == (attr \div 4^(2 * ((line \div 2) % 2) + ((col \div 2) % 2))) % 4
      row == 4096 * ri.s + 16 * name + (py % 8)
      k == 7 - (px % 8)
  IN  4 * quarter + 2 * Bit(MemByte(row + 8), k) + Bit(MemByte(row), k)

FirstColumn == 256 * origin.h + 8 * origin.ht + ri.fh
FirstLine == 240 * origin.v + 8 * origin.vt + origin.fv

TruePlayfield ==
  IF ~ri.bg_en \/ (ri.bg_ls_clip /\ nes_x < 8) THEN 0
  ELSE Playfield((FirstColumn + nes_x) % 512, (FirstLine + nes_y) % 480)

(* Sprites on a line, those that are shown, and the colours of their pixels.
   A sprite's first line is the one below its coordinate. *)
Height == IF ri.spr_h THEN 2 * Rows ELSE Rows
Below(i, y) == y - ((oam[4 * i] + 1) % 256)
OnLine(y) == {i \in 0 .. Sprites - 1 : Below(i, y) \in 0 .. Height - 1}
ShownOnLine(y) == {i \in OnLine(y) : Cardinality({j \in OnLine(y) : j < i}) < Slots}

SpritePixel(i) ==
  LET name == oam[4 * i + 1]
      attr == oam[4 * i + 2]
      across == nes_x - oam[4 * i + 3]
      down == IF Bit(attr, 7) = 1 THEN Height - 1 - Below(i, nes_y) ELSE Below(i, nes_y)
      row == IF ri.spr_h THEN 4096 * (name % 2) + 16 * (2 * (name \div 2) + down \div Rows)
             ELSE 4096 * ri.spr_pt_sel + 16 * name
      k == IF Bit(attr, 6) = 1 THEN across ELSE 7 - across
  IN  IF across \notin 0 .. 7 THEN 0
      ELSE 2 * Bit(MemByte(row + 8 + (down % Rows)), k) + Bit(MemByte(row + (down % Rows)), k)

TrueSprite ==
  LET Visible == {i \in ShownOnLine(nes_y) : SpritePixel(i) # 0}
      i == CHOOSE j \in Visible : \A k \in Visible : j <= k
  IN  IF ~ri.spr_en \/ (ri.spr_ls_clip /\ nes_x < 8) \/ Visible = {} THEN Nothing
      ELSE [primary |-> i = 0, priority |-> Bit(oam[4 * i + 2], 5),
            palette_idx |-> 4 * (oam[4 * i + 2] % 4) + SpritePixel(i)]

--------------------------------------------------------------------------------
(* Clocks. *)

(* History of a clock: whether counters or sprites have been disturbed. *)
Disturbed == ctr' # ctr \/ ri'.s # ri.s \/ ~ri'.bg_en
SpritesDisturbed ==
  \/ ~ri'.spr_en
  \/ oam' # oam
  \/ ri'.spr_h # ri.spr_h
  \/ ri'.spr_pt_sel # ri.spr_pt_sel

(* A clock before the last of a pixel: registers and requests only. *)
Within(i) ==
  LET req == [inc_addr |-> inc_addr_out(i), upd_cntrs |-> ri.upd_cntrs,
              upd_h |-> FALSE, upd_v |-> FALSE, inc_v |-> FALSE, inc_h |-> FALSE]
  IN  /\ ri' = Clocked(i)
      /\ ctr' = Counters(ctr, ri, req)
      /\ IF spr_ram_wr_out(i) THEN OamWrite(ri.spr_ram_a, i.d) ELSE UNCHANGED oam
      /\ vblank' = d_vblank
      /\ steady' = (steady /\ ~Disturbed)
      /\ calm' = IF SpritesDisturbed THEN 0 ELSE calm
      /\ whole' = (whole /\ ~SpritesDisturbed)
      /\ told' = IF ~vblank /\ ~ri.vblank THEN 0
                 ELSE IF Reads(i, 2) /\ ri.vblank /\ told < 2 THEN told + 1
                 ELSE told
      /\ UNCHANGED <<tile, hcnt, vcnt, stm, in_rng_cnt, spr_overflow, pd, sbm, shift,
                     pri_obj_col, program, origin, met>>

(* The CPU's access appears on the bus. *)
Access(acc) ==
  /\ ri.ncs_in
  /\ made < MaxAccesses
  /\ made' = made + 1
  /\ Within(Inputs(FALSE, acc))

(* Another clock, if there is anything to be seen on it. *)
Idle ==
  /\ ~ri.ncs_in \/ ri.upd_cntrs \/ vblank # ri.vblank_in \/ d_vblank # vblank
  /\ UNCHANGED made
  /\ Within(NoAccess)

PixelHistory(req) ==
  /\ origin' = [v  |-> IF req.upd_v THEN ri.v ELSE origin.v,
                vt |-> IF req.upd_v THEN ri.vt ELSE origin.vt,
                fv |-> IF req.upd_v THEN ri.fv ELSE origin.fv,
                h  |-> IF req.upd_h THEN ri.h ELSE origin.h,
                ht |-> IF req.upd_h THEN ri.ht ELSE origin.ht]
  /\ steady' = (ri.bg_en /\ ~ri.upd_cntrs /\ (req.upd_v \/ steady))
  /\ calm' = IF ~ri.spr_en THEN 0
             ELSE IF hcnt = LinePixels - 1 /\ nes_y_next < Shown /\ calm < 3 THEN calm + 1
             ELSE calm
  /\ whole' = IF nes_x = 0 /\ nes_y_next = 0 THEN calm = 3 ELSE whole /\ ri.spr_en
  /\ met' = IF nes_y_next = 0 THEN FALSE
            ELSE met \/ (/\ OnScreen /\ whole /\ steady /\ origin.vt < 30
                         /\ 0 \in ShownOnLine(nes_y) /\ SpritePixel(0) # 0
                         /\ TrueSprite.primary /\ TruePlayfield % 4 # 0)
  /\ told' = IF ~vblank /\ ~ri.vblank THEN 0 ELSE told

Pixel ==
  LET req == [PixelRequests(ri.bg_en) EXCEPT !.upd_cntrs = ri.upd_cntrs]
  IN  /\ ri.ncs_in
      /\ ri' = Clocked(NoAccess)
      /\ ctr' = Counters(ctr, ri, req)
      /\ tile' = TileAfterPixel(ri.bg_en, ctr, vram_d_in)
      /\ SprPixel(ri.spr_en, ri.spr_h, vram_d_in)
      /\ pri_obj_col' = d_pri_obj_col
      /\ vblank' = d_vblank
      /\ NextPixel
      /\ PixelHistory(req)
      /\ UNCHANGED <<program, made>>

Next == Pixel \/ Idle \/ \E acc \in program : Access(acc)

Spec == Init /\ [][Next]_vars

--------------------------------------------------------------------------------

(* Every pixel of the background is the playfield's at the position the program
   last set, vertically for the frame, horizontally for the line and finely for
   the pixel, with clipping (ppu_bg.v: fetch ahead, shift and count as the line
   goes, every line twice).  Rows 30 and 31 are no rows of the playfield. *)
ShowsPlayfield == OnScreen /\ steady /\ origin.vt < 30 => Background = TruePlayfield

(* What is seen is the first of the line's sprites with a colour there, its row
   and its direction, unless it is behind an opaque background (ppu_spr.v:
   evaluation and fetching one line ahead, shifting; ppu.v: the multiplexer). *)
ShowsSprites ==
  OnScreen /\ calm = 3 =>
    LET s == TrueSprite
    IN  Seen = IF s.palette_idx % 4 # 0 /\ (s.priority = 0 \/ bg_trans)
                 THEN 16 + s.palette_idx
               ELSE IF ~bg_trans THEN Background ELSE 0

(* The overflow bit of a frame tells of a line so far with more sprites than
   there are slots, and is not lost until the next frame; it is never set
   unless a line has filled the slots (ppu_spr.v).  For a line with exactly as
   many this leaves the bit open. *)
Lines(n) == \E y \in 0 .. Shown - 1 : y <= nes_y_next /\ Cardinality(OnLine(y)) >= n

OverflowTells ==
  whole /\ nes_x \in Width + 1 .. FetchX =>
    /\ Lines(Slots + 1) => spr_overflow
    /\ spr_overflow => Lines(Slots)

(* Sprite 0 is reported to have met the background when it has on the screen
   (ppu.v, q_pri_obj_col), and otherwise only for what happens beyond the right
   edge, unseen: there its own last columns may lie, and there it may take the
   place of the line above's first sprite while that is still shown. *)
TakesOver(y) ==
  \E i \in 1 .. Sprites - 1 :
    /\ OnLine(y) \cap 0 .. i = {i} /\ 0 \in OnLine(y + 1)
    /\ oam[4 * i + 3] > Width - 4

HitTells ==
  whole /\ steady /\ origin.vt < 30 =>
    /\ met => pri_obj_col
    /\ pri_obj_col =>
         met \/ oam[3] > Width - 8 \/ \E y \in 0 .. Shown - 2 : TakesOver(y)

(* ppu_vga.v of vblank_out: "indicates a vblank is occuring (no PPU vram
   access)". *)
BlankWithoutFetches ==
  vblank => ~TileRead(ri.bg_en) /\ ~spr_vram_req(ri.spr_en)

(* A vertical blank is told to a program that polls 0x2002 at most once, on
   whatever clocks it looks (ppu_ri.v: edge of the signal, cleared by reads). *)
BlankToldOnce == told <= 1

================================================================================
