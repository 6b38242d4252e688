--------------------------------- MODULE PpuRi ---------------------------------
(***************************************************************************)
(* hw/src/ppu/ppu_ri.v: the PPU's register interface, addresses 0x2000 to  *)
(* 0x2007 of the CPU.  A register is read or written on the clock on which *)
(* its address appears on the bus (ncs falls), however long the address    *)
(* stays.                                                                  *)
(*                                                                         *)
(* The registers are the fields of the record ri, named as in the code     *)
(* without the prefix q_.  Clocked gives their next values from a record   *)
(* of inputs; fields of a byte are cut out as the code cuts them.          *)
(***************************************************************************)
EXTENDS Naturals

VARIABLE ri

Byte == 0 .. 255

Reset ==
  [fv |-> 0, vt |-> 0, v |-> 0, fh |-> 0, ht |-> 0, h |-> 0,    \* scroll latches
   s |-> 0, spr_pt_sel |-> 0,                                   \* pattern tables
   nvbl_en |-> FALSE, spr_h |-> FALSE, addr_incr |-> FALSE,     \* 0x2000
   spr_en |-> FALSE, bg_en |-> FALSE,                           \* 0x2001
   spr_ls_clip |-> FALSE, bg_ls_clip |-> FALSE,
   vblank |-> FALSE,                                            \* 0x2002
   spr_ram_a |-> 0,                                             \* 0x2003
   byte_sel |-> FALSE,      \* the next 0x2005/0x2006 write is the second
   upd_cntrs |-> FALSE,     \* asks the counters to load the latches
   rd_buf |-> 0, rd_rdy |-> FALSE,                              \* 0x2007 reads
   cpu_d_out |-> 0,
   ncs_in |-> TRUE, vblank_in |-> FALSE]                        \* last inputs

Field(d, lo, n) == (d \div 2^lo) % 2^n
Flag(d, k) == Field(d, k, 1) = 1

(* Faulty: every clock of a bus cycle executes the access. *)
executes_Level(ncs_in) == ~ncs_in

(* "Only evaluate RI reads/writes on /CS falling edges." *)
executes(ncs_in) == ri.ncs_in /\ ~ncs_in

InPalette(vram_a) == vram_a \div 256 = 63

--------------------------------------------------------------------------------
(* Outputs of a clock with inputs i. *)

Reads(i, sel)  == executes(i.ncs) /\ i.r_nw /\ i.sel = sel
Writes(i, sel) == executes(i.ncs) /\ ~i.r_nw /\ i.sel = sel

vram_wr_out(i)  == Writes(i, 7) /\ ~InPalette(i.vram_a)
pram_wr_out(i)  == Writes(i, 7) /\ InPalette(i.vram_a)
inc_addr_out(i) == Writes(i, 7) \/ Reads(i, 7)
spr_ram_wr_out(i) == Writes(i, 4)
cpu_d_out(ncs_in, r_nw_in) == IF ~ncs_in /\ r_nw_in THEN ri.cpu_d_out ELSE 0

--------------------------------------------------------------------------------
(* What happens on every clock: the byte asked for by a read of 0x2007 comes
   in, requests last one clock, and the status bit follows the blank. *)
EveryClock(i) ==
  [ri EXCEPT !.rd_buf = IF ri.rd_rdy THEN i.vram_d ELSE @,
             !.rd_rdy = FALSE,
             !.upd_cntrs = FALSE,
             !.vblank = IF ~ri.vblank_in /\ i.vblank THEN TRUE ELSE i.vblank /\ @,
             !.ncs_in = i.ncs,
             !.vblank_in = i.vblank]

Status(i) ==
  128 * (IF ri.vblank THEN 1 ELSE 0) + 64 * (IF i.pri_col THEN 1 ELSE 0)
    + 32 * (IF i.overflow THEN 1 ELSE 0)

AfterRead_KeepsBlank(f, i) ==     \* faulty: the status bit survives the read
  CASE i.sel = 2 -> [f EXCEPT !.cpu_d_out = Status(i), !.byte_sel = FALSE]
    [] i.sel = 4 -> [f EXCEPT !.cpu_d_out = i.spr_ram_d]
    [] i.sel = 7 -> [f EXCEPT !.cpu_d_out = IF InPalette(i.vram_a) THEN i.pram_d ELSE ri.rd_buf,
                              !.rd_rdy = TRUE]
    [] OTHER -> f

AfterRead(f, i) ==
  CASE i.sel = 2 -> [f EXCEPT !.cpu_d_out = Status(i), !.byte_sel = FALSE, !.vblank = FALSE]
    [] i.sel = 4 -> [f EXCEPT !.cpu_d_out = i.spr_ram_d]
    [] i.sel = 7 -> [f EXCEPT !.cpu_d_out = IF InPalette(i.vram_a) THEN i.pram_d ELSE ri.rd_buf,
                              !.rd_rdy = TRUE]
    [] OTHER -> f

WriteCtrl(f, d) ==
  [f EXCEPT !.nvbl_en = Flag(d, 7), !.spr_h = Flag(d, 5), !.s = Field(d, 4, 1),
            !.spr_pt_sel = Field(d, 3, 1), !.addr_incr = Flag(d, 2),
            !.v = Field(d, 1, 1), !.h = Field(d, 0, 1)]

WriteMask(f, d) ==
  [f EXCEPT !.spr_en = Flag(d, 4), !.bg_en = Flag(d, 3),
            !.spr_ls_clip = ~Flag(d, 2), !.bg_ls_clip = ~Flag(d, 1)]

(* 0x2005 and 0x2006 take two writes and share the toggle. *)
WriteScroll(f, d) ==
  IF ~ri.byte_sel
    THEN [f EXCEPT !.byte_sel = TRUE, !.fh = Field(d, 0, 3), !.ht = Field(d, 3, 5)]
    ELSE [f EXCEPT !.byte_sel = FALSE, !.fv = Field(d, 0, 3), !.vt = Field(d, 3, 5)]

WriteAddr_KeepsFineY(f, d) ==    \* faulty: the upper bit of fine Y survives
  IF ~ri.byte_sel
    THEN [f EXCEPT !.byte_sel = TRUE, !.fv = 4 * (@ \div 4) + Field(d, 4, 2), !.v = Field(d, 3, 1),
                   !.h = Field(d, 2, 1), !.vt = 8 * Field(d, 0, 2) + (@ % 8)]
    ELSE [f EXCEPT !.byte_sel = FALSE, !.vt = 8 * (@ \div 8) + Field(d, 5, 3),
                   !.ht = Field(d, 0, 5), !.upd_cntrs = TRUE]

WriteAddr(f, d) ==
  IF ~ri.byte_sel
    THEN [f EXCEPT !.byte_sel = TRUE, !.fv = Field(d, 4, 2), !.v = Field(d, 3, 1),
                   !.h = Field(d, 2, 1), !.vt = 8 * Field(d, 0, 2) + (@ % 8)]
    ELSE [f EXCEPT !.byte_sel = FALSE, !.vt = 8 * (@ \div 8) + Field(d, 5, 3),
                   !.ht = Field(d, 0, 5), !.upd_cntrs = TRUE]

AfterWrite(f, i) ==
  CASE i.sel = 0 -> WriteCtrl(f, i.d)
    [] i.sel = 1 -> WriteMask(f, i.d)
    [] i.sel = 3 -> [f EXCEPT !.spr_ram_a = i.d]
    [] i.sel = 4 -> [f EXCEPT !.spr_ram_a = (@ + 1) % 256]
    [] i.sel = 5 -> WriteScroll(f, i.d)
    [] i.sel = 6 -> WriteAddr(f, i.d)
    [] OTHER -> f

Clocked(i) ==
  IF ~executes(i.ncs) THEN EveryClock(i)
  ELSE IF i.r_nw THEN AfterRead(EveryClock(i), i)
  ELSE AfterWrite(EveryClock(i), i)

--------------------------------------------------------------------------------

Registers ==
  [fv : 0 .. 7, vt : 0 .. 31, v : 0 .. 1, fh : 0 .. 7, ht : 0 .. 31, h : 0 .. 1,
   s : 0 .. 1, spr_pt_sel : 0 .. 1,
   nvbl_en : BOOLEAN, spr_h : BOOLEAN, addr_incr : BOOLEAN,
   spr_en : BOOLEAN, bg_en : BOOLEAN, spr_ls_clip : BOOLEAN, bg_ls_clip : BOOLEAN,
   vblank : BOOLEAN, spr_ram_a : Byte, byte_sel : BOOLEAN, upd_cntrs : BOOLEAN,
   rd_buf : Byte, rd_rdy : BOOLEAN, cpu_d_out : Byte,
   ncs_in : BOOLEAN, vblank_in : BOOLEAN]

================================================================================
