--------------------------------- MODULE PpuBg ---------------------------------
(***************************************************************************)
(* hw/src/ppu/ppu_bg.v, the scroll counters and the video memory address   *)
(* made from them.  A position is a record of the five counters; Counters  *)
(* gives their next values from the latches of the register interface and  *)
(* a record of requests.                                                   *)
(***************************************************************************)
EXTENDS Naturals

(* { fvc, vc, hc, vtc, htc } as one number, and back. *)
Joined15(c) == 4096 * c.fvc + 2048 * c.vc + 1024 * c.hc + 32 * c.vtc + c.htc

Split15(n) ==
  [fvc |-> (n \div 4096) % 8, vc |-> (n \div 2048) % 2, hc |-> (n \div 1024) % 2,
   vtc |-> (n \div 32) % 32, htc |-> n % 32]

(* After an access of 0x2007: "all 5 counters function as a single 15-bit
   one", stepped at its lowest bit or at the VT counter. *)
AddressStep(c, amt) == Split15(Joined15(c) + (IF amt THEN 32 ELSE 1))

(* One line down; VT divides by 30 and leaves attribute data alone. *)
LineStep(c) ==
  LET last == c.vtc = 29 /\ c.fvc = 7
      n    == c.vc * 256 + c.vtc * 8 + c.fvc + 1
  IN  [c EXCEPT !.vc  = IF last THEN 1 - @ ELSE (n \div 256) % 2,
                !.vtc = IF last THEN 0 ELSE (n \div 8) % 32,
                !.fvc = IF last THEN 0 ELSE n % 8]

(* One tile to the right. *)
TileStep(c) ==
  LET n == c.hc * 32 + c.htc + 1
  IN  [c EXCEPT !.hc = (n \div 32) % 2, !.htc = n % 32]

LoadVertical(c, latch) == [c EXCEPT !.vc = latch.v, !.vtc = latch.vt, !.fvc = latch.fv]
LoadHorizontal(c, latch) == [c EXCEPT !.hc = latch.h, !.htc = latch.ht]

If(c, cond, next) == IF cond THEN next ELSE c

Counters(c, latch, req) ==
  IF req.inc_addr THEN AddressStep(c, latch.addr_incr)
  ELSE LET c1 == If(c, req.inc_v, LineStep(c))
           c2 == If(c1, req.inc_h, TileStep(c1))
           c3 == If(c2, req.upd_v \/ req.upd_cntrs, LoadVertical(c2, latch))
       IN  If(c3, req.upd_h \/ req.upd_cntrs, LoadHorizontal(c3, latch))

(* The address for 0x2007 accesses: fourteen bits. *)
AddressRi(c) == Joined15(c) % 16384

================================================================================
