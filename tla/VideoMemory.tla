------------------------------ MODULE VideoMemory ------------------------------
(***************************************************************************)
(* What the PPU sees of video memory: pattern tables in the cartridge      *)
(* below 0x2000, name tables in two pages of internal memory above it,     *)
(* mirrored as the cartridge says (hw/src/cart/cart.v, hw/src/vram.v,      *)
(* hw/src/nes_top.v), and the palette of hw/src/ppu/ppu.v.  Contents are   *)
(* fixed: a byte read tells which cell it was read from.                   *)
(***************************************************************************)
EXTENDS Naturals

CONSTANTS
  ChrByte(_),     \* contents of the pattern tables, by cell
  CiramByte(_),   \* contents of the internal memory, by cell
  Vertical        \* vertical mirroring

InCiram(a) == (a \div 8192) % 2 = 1

ciram_a10(a) == IF Vertical THEN (a \div 1024) % 2 ELSE (a \div 2048) % 2
CiramCell(a) == 1024 * ciram_a10(a) + (a % 1024)
ChrCell(a) == a % 8192

MemByte(a) == IF InCiram(a) THEN CiramByte(CiramCell(a)) ELSE ChrByte(ChrCell(a))

(* The first colour of a sprite palette is that of the background palette. *)
PramCell(a) == IF a % 4 # 0 THEN a % 32 ELSE a % 16

(* The palette after reset. *)
PramByte(c) ==
  << 9, 1,  0, 1, 0, 2, 2, 13, 8, 16, 8, 36, 0, 0,  4, 44,
     0, 1, 52, 3, 0, 4, 0, 20, 0, 58, 0,  2, 0, 32, 44, 8 >>[c + 1]

================================================================================
