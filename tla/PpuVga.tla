-------------------------------- MODULE PpuVga ---------------------------------
(***************************************************************************)
(* Where the picture is: hw/src/ppu/ppu_vga.v on the counters of           *)
(* hw/src/cmn/vga_sync/vga_sync.v.  A step is one NES pixel, two pixels of *)
(* the VGA picture and eight clocks of the system; a NES line is two VGA   *)
(* lines, so every line is made twice.                                     *)
(*                                                                         *)
(* The code's numbers are constants.  Positions that ppu_bg.v and          *)
(* ppu_spr.v count from the end of the screen do so here: sprites are      *)
(* fetched from Width, the next line's tiles from FetchX.                  *)
(***************************************************************************)
EXTENDS Naturals

CONSTANTS
  Width,      \* pixels of a line: 256
  FetchX,     \* the next line's first tiles are fetched here: 320
  Border,     \* NES pixels left of the picture: 32
  LinePixels, \* all of a line: 400
  Shown,      \* lines made by background and sprites: 239
  VgaLines    \* VGA lines of a frame: 521

ASSUME VgaAssumption ==
  /\ Width \in Nat /\ Width % 8 = 0 /\ Width > 0
  /\ FetchX \in Nat /\ FetchX % 8 = 0 /\ FetchX >= Width
  /\ Border \in 1 .. 511
  /\ LinePixels \in Nat /\ LinePixels >= Border + FetchX + 16
  /\ LinePixels <= Border + 512
  /\ Shown \in Nat \ {0}
  /\ VgaLines \in Nat /\ VgaLines % 2 = 1 /\ VgaLines >= 2 * Shown + 3

VARIABLES
  hcnt,       \* NES pixels since the start of the VGA line
  vcnt,       \* VGA line, sync_y
  vblank      \* the vertical blank signal

(* Left of the picture the coordinate has wrapped below zero. *)
nes_x == (hcnt + 512 - Border) % 512
nes_y == vcnt \div 2
nes_y_next == ((vcnt + 1) % VgaLines) \div 2

(* The signal is registered: it changes one clock into the pixel. *)
d_vblank_Late ==     \* faulty: cleared two lines later, when the picture has begun
  IF nes_x = FetchX + 13 /\ vcnt = 2 * Shown - 1 THEN TRUE
  ELSE IF nes_x = 0 /\ vcnt = 0 THEN FALSE
  ELSE vblank

d_vblank ==
  IF nes_x = FetchX + 13 /\ vcnt = 2 * Shown - 1 THEN TRUE
  ELSE IF nes_x = 0 /\ vcnt = VgaLines - 2 THEN FALSE
  ELSE vblank

NextPixel ==
  /\ hcnt' = (hcnt + 1) % LinePixels
  /\ vcnt' = IF hcnt = LinePixels - 1 THEN (vcnt + 1) % VgaLines ELSE vcnt

(* Pixels of a byte. *)
Bit(d, k) == (d \div 2^k) % 2

(* The byte with its bits in the opposite order: the first pixel is bit 7. *)
Reversed(d) ==
  128 * Bit(d, 0) + 64 * Bit(d, 1) + 32 * Bit(d, 2) + 16 * Bit(d, 3)
    + 8 * Bit(d, 4) + 4 * Bit(d, 5) + 2 * Bit(d, 6) + Bit(d, 7)

================================================================================
