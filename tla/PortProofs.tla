------------------------------- MODULE PortProofs ------------------------------
(***************************************************************************)
(* The register interface, its counters and the late memories implement    *)
(* the port to video memory, for every program of accesses, every length   *)
(* of a CPU cycle, both mirrorings and any contents of the memories.       *)
(***************************************************************************)
EXTENDS PpuPort, TLAPS

LEMMA CycleFacts == CycleClks \in Nat /\ CycleClks >= 2
BY PortAssumption DEF PortAssumption

LEMMA AccessFacts ==
  \A acc \in Accesses :
    acc.sel \in {0, 2, 5, 6, 7} /\ acc.r_nw \in BOOLEAN /\ acc.d \in 0 .. 255
BY PortAssumption DEF PortAssumption, Byte

--------------------------------------------------------------------------------
(* What a clock makes of the register interface, field by field. *)

(* No access is executed: requests end and the byte read ahead comes in. *)
LEMMA QuietFields ==
  ASSUME NEW i, ~executes(i.ncs), ~i.vblank, ~ri.vblank
  PROVE  LET f == Clocked(i)
         IN  /\ f.fv = ri.fv /\ f.vt = ri.vt /\ f.v = ri.v /\ f.fh = ri.fh
             /\ f.ht = ri.ht /\ f.h = ri.h
             /\ f.addr_incr = ri.addr_incr /\ f.byte_sel = ri.byte_sel
             /\ f.cpu_d_out = ri.cpu_d_out
             /\ f.rd_buf = IF ri.rd_rdy THEN i.vram_d ELSE ri.rd_buf
             /\ f.rd_rdy = FALSE /\ f.upd_cntrs = FALSE
             /\ ~f.vblank /\ f.vblank_in = i.vblank /\ f.ncs_in = i.ncs
<1> DEFINE f == EveryClock(i)
<1>1. Clocked(i) = f
  BY DEF Clocked
<1>2. /\ f.fv = ri.fv /\ f.vt = ri.vt /\ f.v = ri.v /\ f.fh = ri.fh
      /\ f.ht = ri.ht /\ f.h = ri.h
      /\ f.addr_incr = ri.addr_incr /\ f.byte_sel = ri.byte_sel
      /\ f.cpu_d_out = ri.cpu_d_out
      /\ f.vblank_in = i.vblank /\ f.ncs_in = i.ncs
  BY DEF EveryClock
<1>3. f.rd_buf = IF ri.rd_rdy THEN i.vram_d ELSE ri.rd_buf
  BY DEF EveryClock
<1>4. f.rd_rdy = FALSE /\ f.upd_cntrs = FALSE
  BY DEF EveryClock
<1>5. ~f.vblank
  <2>1. f.vblank = IF ~ri.vblank_in /\ i.vblank THEN TRUE ELSE i.vblank /\ ri.vblank
    BY DEF EveryClock
  <2> HIDE DEF f
  <2> QED BY <2>1, Zenon
<1> HIDE DEF f
<1> QED BY <1>1, <1>2, <1>3, <1>4, <1>5

(* What a read leaves alone. *)
LatchesKept(f) ==
  f.fv = ri.fv /\ f.vt = ri.vt /\ f.v = ri.v /\ f.fh = ri.fh /\ f.ht = ri.ht /\ f.h = ri.h

(* What every access does beside its own work. *)
AllKept(f, i) ==
  /\ LatchesKept(f) /\ f.addr_incr = ri.addr_incr /\ f.byte_sel = ri.byte_sel
  /\ f.cpu_d_out = ri.cpu_d_out /\ f.rd_buf = ri.rd_buf
  /\ f.rd_rdy = FALSE /\ f.upd_cntrs = FALSE
  /\ ~f.vblank /\ f.vblank_in = i.vblank /\ f.ncs_in = i.ncs

LEMMA EveryFields ==
  ASSUME NEW i, ~i.vblank, ~ri.vblank, ~ri.rd_rdy
  PROVE  AllKept(EveryClock(i), i)
<1> DEFINE f == EveryClock(i)
<1>1. /\ f.fv = ri.fv /\ f.vt = ri.vt /\ f.v = ri.v /\ f.fh = ri.fh
      /\ f.ht = ri.ht /\ f.h = ri.h
      /\ f.addr_incr = ri.addr_incr /\ f.byte_sel = ri.byte_sel
      /\ f.cpu_d_out = ri.cpu_d_out /\ f.rd_rdy = FALSE /\ f.upd_cntrs = FALSE
      /\ f.vblank_in = i.vblank /\ f.ncs_in = i.ncs
  BY DEF EveryClock
<1>2. f.rd_buf = ri.rd_buf
  BY DEF EveryClock
<1>3. ~f.vblank
  <2>1. f.vblank = IF ~ri.vblank_in /\ i.vblank THEN TRUE ELSE i.vblank /\ ri.vblank
    BY DEF EveryClock
  <2> HIDE DEF f
  <2> QED BY <2>1, Zenon
<1> HIDE DEF f
<1>4. AllKept(f, i)
  BY <1>1, <1>2, <1>3 DEF AllKept, LatchesKept
<1> QED BY <1>4 DEF f

LEMMA ReadFields ==
  ASSUME NEW i, executes(i.ncs), i.r_nw, i.sel \in {0, 2, 5, 6, 7},
         ~i.vblank, ~ri.vblank, ~ri.rd_rdy
  PROVE  LET f == Clocked(i)
         IN  /\ LatchesKept(f) /\ f.addr_incr = ri.addr_incr
             /\ i.sel = 2 => f.byte_sel = FALSE
             /\ i.sel # 2 => f.byte_sel = ri.byte_sel
             /\ f.cpu_d_out = CASE i.sel = 2 -> Status(i)
                                [] i.sel = 7 -> IF InPalette(i.vram_a) THEN i.pram_d ELSE ri.rd_buf
                                [] OTHER -> ri.cpu_d_out
             /\ f.rd_buf = ri.rd_buf /\ (f.rd_rdy <=> i.sel = 7)
             /\ ~f.upd_cntrs
             /\ ~f.vblank /\ f.vblank_in = i.vblank /\ f.ncs_in = i.ncs
<1> DEFINE e == EveryClock(i)
           f == Clocked(i)
           byte == IF InPalette(i.vram_a) THEN i.pram_d ELSE ri.rd_buf
<1>1. f = AfterRead(e, i)
  BY DEF Clocked
<1>2. CASE i.sel = 2
  <2> DEFINE g == [e EXCEPT !.cpu_d_out = Status(i), !.byte_sel = FALSE, !.vblank = FALSE]
  <2>1. f = g
    BY <1>1, <1>2 DEF AfterRead
  <2>2. /\ g.fv = e.fv /\ g.vt = e.vt /\ g.v = e.v /\ g.fh = e.fh /\ g.ht = e.ht /\ g.h = e.h
        /\ g.addr_incr = e.addr_incr /\ g.byte_sel = FALSE /\ g.cpu_d_out = Status(i)
        /\ g.rd_buf = e.rd_buf /\ g.rd_rdy = e.rd_rdy /\ g.upd_cntrs = e.upd_cntrs
        /\ g.vblank = FALSE /\ g.vblank_in = e.vblank_in /\ g.ncs_in = e.ncs_in
    BY DEF EveryClock
  <2> HIDE DEF g
  <2>3. /\ LatchesKept(f) /\ f.addr_incr = ri.addr_incr /\ f.byte_sel = FALSE
        /\ f.cpu_d_out = Status(i) /\ f.rd_buf = ri.rd_buf /\ f.rd_rdy = FALSE /\ f.upd_cntrs = FALSE
        /\ ~f.vblank /\ f.vblank_in = i.vblank /\ f.ncs_in = i.ncs
    <3>1. AllKept(e, i)
      BY EveryFields
    <3> HIDE DEF e, f
    <3> QED BY <2>1, <2>2, <3>1 DEF AllKept, LatchesKept
  <2>4. f.rd_rdy <=> i.sel = 7
    BY <1>2, <2>3
  <2>5. (i.sel = 2 => f.byte_sel = FALSE) /\ (i.sel # 2 => f.byte_sel = ri.byte_sel)
    BY <1>2, <2>3
  <2>6. f.cpu_d_out = CASE i.sel = 2 -> Status(i)
                         [] i.sel = 7 -> IF InPalette(i.vram_a) THEN i.pram_d ELSE ri.rd_buf
                         [] OTHER -> ri.cpu_d_out
    BY <1>2, <2>3
  <2> QED BY <1>2, <2>3, <2>4, <2>5, <2>6
<1>3. CASE i.sel = 7
  <2> DEFINE g == [e EXCEPT !.cpu_d_out = byte, !.rd_rdy = TRUE]
  <2>1. f = g
    BY <1>1, <1>3 DEF AfterRead
  <2>2. /\ g.fv = e.fv /\ g.vt = e.vt /\ g.v = e.v /\ g.fh = e.fh /\ g.ht = e.ht /\ g.h = e.h
        /\ g.addr_incr = e.addr_incr /\ g.byte_sel = e.byte_sel /\ g.cpu_d_out = byte
        /\ g.rd_buf = e.rd_buf /\ g.rd_rdy = TRUE /\ g.upd_cntrs = e.upd_cntrs
        /\ g.vblank = e.vblank /\ g.vblank_in = e.vblank_in /\ g.ncs_in = e.ncs_in
    BY DEF EveryClock
  <2> HIDE DEF g, byte
  <2>3. f.cpu_d_out = byte
    BY <2>1, <2>2
  <2>4. /\ LatchesKept(f) /\ f.addr_incr = ri.addr_incr /\ f.byte_sel = ri.byte_sel
        /\ f.rd_buf = ri.rd_buf /\ f.rd_rdy = TRUE /\ f.upd_cntrs = FALSE
        /\ ~f.vblank /\ f.vblank_in = i.vblank /\ f.ncs_in = i.ncs
    <3>1. AllKept(e, i)
      BY EveryFields
    <3> HIDE DEF e, f
    <3> QED BY <2>1, <2>2, <3>1 DEF AllKept, LatchesKept
  <2>5. f.rd_rdy <=> i.sel = 7
    BY <1>3, <2>3, <2>4
  <2>6. (i.sel = 2 => f.byte_sel = FALSE) /\ (i.sel # 2 => f.byte_sel = ri.byte_sel)
    BY <1>3, <2>3, <2>4
  <2>7. f.cpu_d_out = CASE i.sel = 2 -> Status(i)
                         [] i.sel = 7 -> IF InPalette(i.vram_a) THEN i.pram_d ELSE ri.rd_buf
                         [] OTHER -> ri.cpu_d_out
    BY <1>3, <2>3, <2>4 DEF byte
  <2> QED BY <1>3, <2>3, <2>4, <2>5, <2>6, <2>7 DEF byte
<1>4. CASE i.sel \in {0, 5, 6}
  <2>1. f = e
    BY <1>1, <1>4 DEF AfterRead
  <2>2. /\ LatchesKept(f) /\ f.addr_incr = ri.addr_incr /\ f.byte_sel = ri.byte_sel
        /\ f.cpu_d_out = ri.cpu_d_out /\ f.rd_buf = ri.rd_buf /\ f.rd_rdy = FALSE /\ f.upd_cntrs = FALSE
        /\ ~f.vblank /\ f.vblank_in = i.vblank /\ f.ncs_in = i.ncs
    <3>1. AllKept(e, i)
      BY EveryFields
    <3> HIDE DEF e, f
    <3> QED BY <2>1, <3>1 DEF AllKept
  <2>3. f.rd_rdy <=> i.sel = 7
    BY <1>4, <2>2
  <2>4. (i.sel = 2 => f.byte_sel = FALSE) /\ (i.sel # 2 => f.byte_sel = ri.byte_sel)
    BY <1>4, <2>2
  <2>5. f.cpu_d_out = CASE i.sel = 2 -> Status(i)
                         [] i.sel = 7 -> IF InPalette(i.vram_a) THEN i.pram_d ELSE ri.rd_buf
                         [] OTHER -> ri.cpu_d_out
    BY <1>4, <2>2
  <2> QED BY <1>4, <2>2, <2>3, <2>4, <2>5
<1> QED BY <1>2, <1>3, <1>4

(* What a write leaves alone, but for the latches, the toggle and the step. *)
OthersKept(f, i) ==
  /\ f.cpu_d_out = ri.cpu_d_out /\ f.rd_buf = ri.rd_buf /\ f.rd_rdy = FALSE
  /\ ~f.vblank /\ f.vblank_in = i.vblank /\ f.ncs_in = i.ncs

LEMMA CtrlFields ==
  ASSUME NEW i, executes(i.ncs), ~i.r_nw, i.sel = 0, ~i.vblank, ~ri.vblank, ~ri.rd_rdy
  PROVE  LET f == Clocked(i)
         IN  /\ f.fv = ri.fv /\ f.vt = ri.vt /\ f.fh = ri.fh /\ f.ht = ri.ht
             /\ f.v = Field(i.d, 1, 1) /\ f.h = Field(i.d, 0, 1)
             /\ f.addr_incr = Flag(i.d, 2) /\ f.byte_sel = ri.byte_sel
             /\ f.upd_cntrs = FALSE /\ OthersKept(f, i)
<1> DEFINE e == EveryClock(i)
           f == Clocked(i)
           g == [e EXCEPT !.nvbl_en = Flag(i.d, 7), !.spr_h = Flag(i.d, 5),
                          !.s = Field(i.d, 4, 1), !.spr_pt_sel = Field(i.d, 3, 1),
                          !.addr_incr = Flag(i.d, 2), !.v = Field(i.d, 1, 1),
                          !.h = Field(i.d, 0, 1)]
<1>1. f = g
  BY DEF Clocked, AfterWrite, WriteCtrl
<1>2. /\ g.fv = e.fv /\ g.vt = e.vt /\ g.fh = e.fh /\ g.ht = e.ht
      /\ g.v = Field(i.d, 1, 1) /\ g.h = Field(i.d, 0, 1)
      /\ g.addr_incr = Flag(i.d, 2) /\ g.byte_sel = e.byte_sel
      /\ g.cpu_d_out = e.cpu_d_out /\ g.rd_buf = e.rd_buf /\ g.rd_rdy = e.rd_rdy
      /\ g.upd_cntrs = e.upd_cntrs
      /\ g.vblank = e.vblank /\ g.vblank_in = e.vblank_in /\ g.ncs_in = e.ncs_in
  BY DEF EveryClock
<1> HIDE DEF g
<1>3. AllKept(e, i)
  BY EveryFields
<1>4. /\ f.fv = ri.fv /\ f.vt = ri.vt /\ f.fh = ri.fh /\ f.ht = ri.ht
      /\ f.v = Field(i.d, 1, 1) /\ f.h = Field(i.d, 0, 1)
      /\ f.addr_incr = Flag(i.d, 2) /\ f.byte_sel = ri.byte_sel
      /\ f.upd_cntrs = FALSE /\ OthersKept(f, i)
  <2> HIDE DEF e, f
  <2> QED BY <1>1, <1>2, <1>3 DEF AllKept, LatchesKept, OthersKept
<1> QED BY <1>4

LEMMA ScrollFields ==
  ASSUME NEW i, executes(i.ncs), ~i.r_nw, i.sel = 5, ~i.vblank, ~ri.vblank, ~ri.rd_rdy
  PROVE  LET f == Clocked(i)
         IN  /\ f.v = ri.v /\ f.h = ri.h /\ f.addr_incr = ri.addr_incr
             /\ ~ri.byte_sel => /\ f.byte_sel = TRUE
                                /\ f.fh = Field(i.d, 0, 3) /\ f.ht = Field(i.d, 3, 5)
                                /\ f.fv = ri.fv /\ f.vt = ri.vt
             /\ ri.byte_sel => /\ f.byte_sel = FALSE
                               /\ f.fv = Field(i.d, 0, 3) /\ f.vt = Field(i.d, 3, 5)
                               /\ f.fh = ri.fh /\ f.ht = ri.ht
             /\ f.upd_cntrs = FALSE /\ OthersKept(f, i)
<1> DEFINE e == EveryClock(i)
           f == Clocked(i)
           g1 == [e EXCEPT !.byte_sel = TRUE, !.fh = Field(i.d, 0, 3), !.ht = Field(i.d, 3, 5)]
           g2 == [e EXCEPT !.byte_sel = FALSE, !.fv = Field(i.d, 0, 3), !.vt = Field(i.d, 3, 5)]
<1>1. f = IF ~ri.byte_sel THEN g1 ELSE g2
  BY DEF Clocked, AfterWrite, WriteScroll
<1>2. /\ g1.fv = e.fv /\ g1.vt = e.vt /\ g1.v = e.v /\ g1.h = e.h
      /\ g1.fh = Field(i.d, 0, 3) /\ g1.ht = Field(i.d, 3, 5)
      /\ g1.addr_incr = e.addr_incr /\ g1.byte_sel = TRUE
      /\ g1.cpu_d_out = e.cpu_d_out /\ g1.rd_buf = e.rd_buf /\ g1.rd_rdy = e.rd_rdy
      /\ g1.upd_cntrs = e.upd_cntrs
      /\ g1.vblank = e.vblank /\ g1.vblank_in = e.vblank_in /\ g1.ncs_in = e.ncs_in
  BY DEF EveryClock
<1>3. /\ g2.fh = e.fh /\ g2.ht = e.ht /\ g2.v = e.v /\ g2.h = e.h
      /\ g2.fv = Field(i.d, 0, 3) /\ g2.vt = Field(i.d, 3, 5)
      /\ g2.addr_incr = e.addr_incr /\ g2.byte_sel = FALSE
      /\ g2.cpu_d_out = e.cpu_d_out /\ g2.rd_buf = e.rd_buf /\ g2.rd_rdy = e.rd_rdy
      /\ g2.upd_cntrs = e.upd_cntrs
      /\ g2.vblank = e.vblank /\ g2.vblank_in = e.vblank_in /\ g2.ncs_in = e.ncs_in
  BY DEF EveryClock
<1> HIDE DEF g1, g2
<1>4. AllKept(e, i)
  BY EveryFields
<1>5. CASE ~ri.byte_sel
  <2>1. f = g1
    BY <1>1, <1>5
  <2> HIDE DEF e, f
  <2> QED BY <1>2, <1>4, <1>5, <2>1 DEF AllKept, LatchesKept, OthersKept, f
<1>6. CASE ri.byte_sel
  <2>1. f = g2
    BY <1>1, <1>6
  <2> HIDE DEF e, f
  <2> QED BY <1>3, <1>4, <1>6, <2>1 DEF AllKept, LatchesKept, OthersKept, f
<1> QED BY <1>5, <1>6

LEMMA AddrFields ==
  ASSUME NEW i, executes(i.ncs), ~i.r_nw, i.sel = 6, ~i.vblank, ~ri.vblank, ~ri.rd_rdy
  PROVE  LET f == Clocked(i)
         IN  /\ f.fh = ri.fh /\ f.addr_incr = ri.addr_incr
             /\ ~ri.byte_sel => /\ f.byte_sel = TRUE /\ f.upd_cntrs = FALSE
                                /\ f.fv = Field(i.d, 4, 2) /\ f.v = Field(i.d, 3, 1)
                                /\ f.h = Field(i.d, 2, 1)
                                /\ f.vt = 8 * Field(i.d, 0, 2) + (ri.vt % 8)
                                /\ f.ht = ri.ht
             /\ ri.byte_sel => /\ f.byte_sel = FALSE /\ f.upd_cntrs = TRUE
                               /\ f.vt = 8 * (ri.vt \div 8) + Field(i.d, 5, 3)
                               /\ f.ht = Field(i.d, 0, 5)
                               /\ f.fv = ri.fv /\ f.v = ri.v /\ f.h = ri.h
             /\ OthersKept(f, i)
<1> DEFINE e == EveryClock(i)
           f == Clocked(i)
           g1 == [e EXCEPT !.byte_sel = TRUE, !.fv = Field(i.d, 4, 2), !.v = Field(i.d, 3, 1),
                           !.h = Field(i.d, 2, 1), !.vt = 8 * Field(i.d, 0, 2) + (@ % 8)]
           g2 == [e EXCEPT !.byte_sel = FALSE, !.vt = 8 * (@ \div 8) + Field(i.d, 5, 3),
                           !.ht = Field(i.d, 0, 5), !.upd_cntrs = TRUE]
<1>1. f = IF ~ri.byte_sel THEN g1 ELSE g2
  BY DEF Clocked, AfterWrite, WriteAddr
<1>2. /\ g1.fv = Field(i.d, 4, 2) /\ g1.v = Field(i.d, 3, 1) /\ g1.h = Field(i.d, 2, 1)
      /\ g1.vt = 8 * Field(i.d, 0, 2) + (e.vt % 8) /\ g1.fh = e.fh /\ g1.ht = e.ht
      /\ g1.addr_incr = e.addr_incr /\ g1.byte_sel = TRUE
      /\ g1.cpu_d_out = e.cpu_d_out /\ g1.rd_buf = e.rd_buf /\ g1.rd_rdy = e.rd_rdy
      /\ g1.upd_cntrs = e.upd_cntrs
      /\ g1.vblank = e.vblank /\ g1.vblank_in = e.vblank_in /\ g1.ncs_in = e.ncs_in
  BY DEF EveryClock
<1>3. /\ g2.fv = e.fv /\ g2.v = e.v /\ g2.h = e.h /\ g2.fh = e.fh
      /\ g2.vt = 8 * (e.vt \div 8) + Field(i.d, 5, 3) /\ g2.ht = Field(i.d, 0, 5)
      /\ g2.addr_incr = e.addr_incr /\ g2.byte_sel = FALSE
      /\ g2.cpu_d_out = e.cpu_d_out /\ g2.rd_buf = e.rd_buf /\ g2.rd_rdy = e.rd_rdy
      /\ g2.upd_cntrs = TRUE
      /\ g2.vblank = e.vblank /\ g2.vblank_in = e.vblank_in /\ g2.ncs_in = e.ncs_in
  BY DEF EveryClock
<1> HIDE DEF g1, g2
<1>4. AllKept(e, i)
  BY EveryFields
<1>5. CASE ~ri.byte_sel
  <2>1. f = g1
    BY <1>1, <1>5
  <2> HIDE DEF e, f
  <2> QED BY <1>2, <1>4, <1>5, <2>1 DEF AllKept, LatchesKept, OthersKept, f
<1>6. CASE ri.byte_sel
  <2>1. f = g2
    BY <1>1, <1>6
  <2> HIDE DEF e, f
  <2> QED BY <1>3, <1>4, <1>6, <2>1 DEF AllKept, LatchesKept, OthersKept, f
<1> QED BY <1>5, <1>6

(* A write of 0x2002 or 0x2007 is nothing to the registers. *)
LEMMA OtherWriteFields ==
  ASSUME NEW i, executes(i.ncs), ~i.r_nw, i.sel \in {2, 7}, ~i.vblank, ~ri.vblank, ~ri.rd_rdy
  PROVE  LET f == Clocked(i)
         IN  /\ LatchesKept(f) /\ f.addr_incr = ri.addr_incr /\ f.byte_sel = ri.byte_sel
             /\ f.upd_cntrs = FALSE /\ OthersKept(f, i)
<1> DEFINE e == EveryClock(i)
           f == Clocked(i)
<1>1. f = e
  BY DEF Clocked, AfterWrite
<1>2. /\ LatchesKept(e) /\ e.addr_incr = ri.addr_incr /\ e.byte_sel = ri.byte_sel
      /\ e.upd_cntrs = FALSE /\ OthersKept(e, i)
  BY EveryFields DEF AllKept, OthersKept
<1> QED BY <1>1, <1>2, Zenon

--------------------------------------------------------------------------------
(* The two ways to write an address: five counters, and one number of which
   some bits are replaced. *)

Fifteen(fv, v, h, vt, ht) == 4096 * fv + 2048 * v + 1024 * h + 32 * vt + ht

LEMMA FieldFacts ==
  ASSUME NEW d \in 0 .. 255
  PROVE  /\ Field(d, 0, 1) \in 0 .. 1 /\ Field(d, 1, 1) \in 0 .. 1 /\ Field(d, 2, 1) \in 0 .. 1
         /\ Field(d, 3, 1) \in 0 .. 1 /\ Field(d, 0, 2) \in 0 .. 3 /\ Field(d, 4, 2) \in 0 .. 3
         /\ Field(d, 0, 3) \in 0 .. 7 /\ Field(d, 5, 3) \in 0 .. 7
         /\ Field(d, 3, 5) \in 0 .. 31 /\ Field(d, 0, 5) \in 0 .. 31
         /\ Port!Bits(d, 0, 2) = 2 * Field(d, 1, 1) + Field(d, 0, 1)
         /\ Port!Bits(d, 0, 3) = Field(d, 0, 3) /\ Port!Bits(d, 3, 5) = Field(d, 3, 5)
         /\ Port!Bits(d, 0, 6) = 16 * Field(d, 4, 2) + 8 * Field(d, 3, 1) + 4 * Field(d, 2, 1)
                                   + Field(d, 0, 2)
         /\ d = 32 * Field(d, 5, 3) + Field(d, 0, 5)
         /\ (Port!Bits(d, 2, 1) = 1) = Flag(d, 2)
<1>1. /\ Field(d, 0, 1) \in 0 .. 1 /\ Field(d, 1, 1) \in 0 .. 1 /\ Field(d, 2, 1) \in 0 .. 1
      /\ Field(d, 3, 1) \in 0 .. 1 /\ Field(d, 0, 2) \in 0 .. 3 /\ Field(d, 4, 2) \in 0 .. 3
  BY DEF Field
<1>2. /\ Field(d, 0, 3) \in 0 .. 7 /\ Field(d, 5, 3) \in 0 .. 7
      /\ Field(d, 3, 5) \in 0 .. 31 /\ Field(d, 0, 5) \in 0 .. 31
  BY DEF Field
<1>3. Port!Bits(d, 0, 2) = 2 * Field(d, 1, 1) + Field(d, 0, 1)
  BY DEF Field, Port!Bits
<1>4. Port!Bits(d, 0, 3) = Field(d, 0, 3) /\ Port!Bits(d, 3, 5) = Field(d, 3, 5)
  BY DEF Field, Port!Bits
<1>5. Port!Bits(d, 0, 6) = 16 * Field(d, 4, 2) + 8 * Field(d, 3, 1) + 4 * Field(d, 2, 1)
                             + Field(d, 0, 2)
  BY DEF Field, Port!Bits
<1>6. d = 32 * Field(d, 5, 3) + Field(d, 0, 5)
  BY DEF Field
<1>7. (Port!Bits(d, 2, 1) = 1) = Flag(d, 2)
  BY DEF Field, Flag, Port!Bits
<1> QED BY <1>1, <1>2, <1>3, <1>4, <1>5, <1>6, <1>7

LEMMA SplitJoins ==
  ASSUME NEW n \in Nat
  PROVE  /\ Joined15(Split15(n)) = n % 32768
         /\ Split15(n).fvc \in 0 .. 7 /\ Split15(n).vc \in 0 .. 1 /\ Split15(n).hc \in 0 .. 1
         /\ Split15(n).vtc \in 0 .. 31 /\ Split15(n).htc \in 0 .. 31
<1>1. n % 32768 = 4096 * ((n \div 4096) % 8) + (n % 4096)
  OBVIOUS
<1>2. n % 4096 = 2048 * ((n \div 2048) % 2) + (n % 2048)
  OBVIOUS
<1>3. n % 2048 = 1024 * ((n \div 1024) % 2) + (n % 1024)
  OBVIOUS
<1>4. n % 1024 = 32 * ((n \div 32) % 32) + (n % 32)
  OBVIOUS
<1>5. /\ (n \div 4096) % 8 \in 0 .. 7 /\ (n \div 2048) % 2 \in 0 .. 1 /\ (n \div 1024) % 2 \in 0 .. 1
      /\ (n \div 32) % 32 \in 0 .. 31 /\ n % 32 \in 0 .. 31
  OBVIOUS
<1>6. Joined15(Split15(n)) = 4096 * ((n \div 4096) % 8) + 2048 * ((n \div 2048) % 2)
                               + 1024 * ((n \div 1024) % 2) + 32 * ((n \div 32) % 32) + (n % 32)
  BY DEF Joined15, Split15
<1>7. Joined15(Split15(n)) = n % 32768
  BY <1>1, <1>2, <1>3, <1>4, <1>5, <1>6
<1> QED BY <1>5, <1>7 DEF Split15

Parts(fv, v, h, vt, ht, d) ==
  /\ fv \in 0 .. 7 /\ v \in 0 .. 1 /\ h \in 0 .. 1 /\ vt \in 0 .. 31 /\ ht \in 0 .. 31
  /\ d \in 0 .. 255

(* The registers, as the code fills them, are the number with bits replaced. *)
BitsReplaced(fv, v, h, vt, ht, d) ==
  /\ Port!WithBits(Fifteen(fv, v, h, vt, ht), 10, 2, Port!Bits(d, 0, 2))
       = Fifteen(fv, Field(d, 1, 1), Field(d, 0, 1), vt, ht)
  /\ Port!WithBits(Fifteen(fv, v, h, vt, ht), 0, 5, Port!Bits(d, 3, 5))
       = Fifteen(fv, v, h, vt, Field(d, 3, 5))
  /\ Port!WithBits(Port!WithBits(Fifteen(fv, v, h, vt, ht), 12, 3, Port!Bits(d, 0, 3)),
                   5, 5, Port!Bits(d, 3, 5))
       = Fifteen(Field(d, 0, 3), v, h, Field(d, 3, 5), ht)
  /\ Port!WithBits(Fifteen(fv, v, h, vt, ht), 8, 7, Port!Bits(d, 0, 6))
       = Fifteen(Field(d, 4, 2), Field(d, 3, 1), Field(d, 2, 1),
                 8 * Field(d, 0, 2) + (vt % 8), ht)
  /\ Port!WithBits(Fifteen(fv, v, h, vt, ht), 0, 8, d)
       = Fifteen(fv, v, h, 8 * (vt \div 8) + Field(d, 5, 3), Field(d, 0, 5))

LEMMA BitsWritten ==
  ASSUME NEW fv, NEW v, NEW h, NEW vt, NEW ht, NEW d, Parts(fv, v, h, vt, ht, d)
  PROVE  BitsReplaced(fv, v, h, vt, ht, d)
<1> DEFINE j == Fifteen(fv, v, h, vt, ht)
<1> USE DEF Parts
<1>1. /\ j \in Nat
      /\ Port!Bits(j, 10, 2) = 2 * v + h
      /\ Port!Bits(j, 0, 5) = ht
      /\ Port!Bits(j, 12, 3) = fv
      /\ Port!Bits(j, 8, 7) = 16 * fv + 8 * v + 4 * h + (vt \div 8)
      /\ Port!Bits(j, 0, 8) = 32 * (vt % 8) + ht
  <2>1. j \in Nat
    BY DEF Fifteen
  <2>2. Port!Bits(j, 10, 2) = 2 * v + h
    BY DEF Fifteen, Port!Bits
  <2>3. Port!Bits(j, 0, 5) = ht
    BY DEF Fifteen, Port!Bits
  <2>4. Port!Bits(j, 12, 3) = fv
    BY DEF Fifteen, Port!Bits
  <2>5. Port!Bits(j, 8, 7) = 16 * fv + 8 * v + 4 * h + (vt \div 8)
    BY DEF Fifteen, Port!Bits
  <2>6. Port!Bits(j, 0, 8) = 32 * (vt % 8) + ht
    BY DEF Fifteen, Port!Bits
  <2> QED BY <2>1, <2>2, <2>3, <2>4, <2>5, <2>6
<1>2. /\ Field(d, 0, 1) \in 0 .. 1 /\ Field(d, 1, 1) \in 0 .. 1 /\ Field(d, 2, 1) \in 0 .. 1
      /\ Field(d, 3, 1) \in 0 .. 1 /\ Field(d, 0, 2) \in 0 .. 3 /\ Field(d, 4, 2) \in 0 .. 3
      /\ Field(d, 0, 3) \in 0 .. 7 /\ Field(d, 5, 3) \in 0 .. 7
      /\ Field(d, 3, 5) \in 0 .. 31 /\ Field(d, 0, 5) \in 0 .. 31
  BY FieldFacts
<1>3. /\ Port!Bits(d, 0, 2) = 2 * Field(d, 1, 1) + Field(d, 0, 1)
      /\ Port!Bits(d, 0, 3) = Field(d, 0, 3) /\ Port!Bits(d, 3, 5) = Field(d, 3, 5)
      /\ Port!Bits(d, 0, 6) = 16 * Field(d, 4, 2) + 8 * Field(d, 3, 1) + 4 * Field(d, 2, 1)
                                + Field(d, 0, 2)
      /\ d = 32 * Field(d, 5, 3) + Field(d, 0, 5)
  BY FieldFacts, Zenon
<1>4. vt = 8 * (vt \div 8) + (vt % 8) /\ vt \div 8 \in Nat /\ vt % 8 \in 0 .. 7
  OBVIOUS
<1>5. Port!WithBits(j, 10, 2, Port!Bits(d, 0, 2))
        = Fifteen(fv, Field(d, 1, 1), Field(d, 0, 1), vt, ht)
  <2>1. Port!WithBits(j, 10, 2, Port!Bits(d, 0, 2))
          = j - 1024 * (2 * v + h) + 1024 * (2 * Field(d, 1, 1) + Field(d, 0, 1))
    BY ONLY <1>1, <1>3 DEF Port!WithBits
  <2> QED BY <2>1, <1>2 DEF Fifteen
<1>6. Port!WithBits(j, 0, 5, Port!Bits(d, 3, 5)) = Fifteen(fv, v, h, vt, Field(d, 3, 5))
  <2>1. Port!WithBits(j, 0, 5, Port!Bits(d, 3, 5)) = j - 1 * ht + 1 * Field(d, 3, 5)
    BY ONLY <1>1, <1>3 DEF Port!WithBits
  <2> QED BY <1>2, <2>1 DEF Fifteen
<1>7. Port!WithBits(Port!WithBits(j, 12, 3, Port!Bits(d, 0, 3)), 5, 5, Port!Bits(d, 3, 5))
        = Fifteen(Field(d, 0, 3), v, h, Field(d, 3, 5), ht)
  <2> DEFINE k == Fifteen(Field(d, 0, 3), v, h, vt, ht)
  <2>1. Port!WithBits(j, 12, 3, Port!Bits(d, 0, 3)) = j - 4096 * fv + 4096 * Field(d, 0, 3)
    BY ONLY <1>1, <1>3 DEF Port!WithBits
  <2>2. Port!WithBits(j, 12, 3, Port!Bits(d, 0, 3)) = k
    BY <1>2, <2>1 DEF Fifteen
  <2>3. Port!Bits(k, 5, 5) = vt
    <3>1. ASSUME NEW x \in 0 .. 7 PROVE Port!Bits(Fifteen(x, v, h, vt, ht), 5, 5) = vt
      BY DEF Fifteen, Port!Bits
    <3> QED BY <1>2, <3>1
  <2>4. Port!WithBits(k, 5, 5, Port!Bits(d, 3, 5)) = k - 32 * vt + 32 * Field(d, 3, 5)
    BY ONLY <1>3, <2>3 DEF Port!WithBits
  <2>5. k - 32 * vt + 32 * Field(d, 3, 5) = Fifteen(Field(d, 0, 3), v, h, Field(d, 3, 5), ht)
    BY <1>2 DEF Fifteen
  <2> QED BY ONLY <2>2, <2>4, <2>5
<1>8. Port!WithBits(j, 8, 7, Port!Bits(d, 0, 6))
        = Fifteen(Field(d, 4, 2), Field(d, 3, 1), Field(d, 2, 1), 8 * Field(d, 0, 2) + (vt % 8), ht)
  <2>1. Port!WithBits(j, 8, 7, Port!Bits(d, 0, 6))
          = j - 256 * (16 * fv + 8 * v + 4 * h + (vt \div 8))
              + 256 * (16 * Field(d, 4, 2) + 8 * Field(d, 3, 1) + 4 * Field(d, 2, 1) + Field(d, 0, 2))
    BY ONLY <1>1, <1>3 DEF Port!WithBits
  <2> QED BY <1>2, <1>4, <2>1 DEF Fifteen
<1>9. Port!WithBits(j, 0, 8, d) = Fifteen(fv, v, h, 8 * (vt \div 8) + Field(d, 5, 3), Field(d, 0, 5))
  <2>1. Port!WithBits(j, 0, 8, d) = j - 1 * (32 * (vt % 8) + ht) + 1 * d
    BY ONLY <1>1 DEF Port!WithBits
  <2> DEFINE q == vt \div 8
             r == vt % 8
             high == Field(d, 5, 3)
             low == Field(d, 0, 5)
  <2>2. q \in Nat /\ r \in Nat /\ high \in Nat /\ low \in Nat /\ vt = 8 * q + r /\ d = 32 * high + low
    <3>1. q \in Nat /\ r \in Nat /\ vt = 8 * q + r
      BY <1>4
    <3>2. high \in Nat /\ low \in Nat
      BY <1>2
    <3> QED BY <1>3, <3>1, <3>2, Zenon
  <2>3. j - 1 * (32 * r + ht) + 1 * d = 4096 * fv + 2048 * v + 1024 * h + 32 * (8 * q + high) + low
    <3>1. j = 4096 * fv + 2048 * v + 1024 * h + 32 * vt + ht
      BY DEF Fifteen
    <3> HIDE DEF j, q, r, high, low
    <3> QED BY <2>2, <3>1
  <2> QED BY ONLY <2>1, <2>3 DEF Fifteen
<1> QED BY <1>5, <1>6, <1>7, <1>8, <1>9, Zenon DEF BitsReplaced

--------------------------------------------------------------------------------
(* The inductive invariant. *)

LatchesOK ==
  /\ ri.fv \in 0 .. 7 /\ ri.v \in 0 .. 1 /\ ri.h \in 0 .. 1
  /\ ri.vt \in 0 .. 31 /\ ri.ht \in 0 .. 31
  /\ ri.addr_incr \in BOOLEAN /\ ri.byte_sel \in BOOLEAN

CountersOK ==
  /\ ctr.fvc \in 0 .. 7 /\ ctr.vc \in 0 .. 1 /\ ctr.hc \in 0 .. 1
  /\ ctr.vtc \in 0 .. 31 /\ ctr.htc \in 0 .. 31

(* Two addresses in the same memory. *)
SameMemory(a, b) == InCiram(a) <=> InCiram(b)

(* /CS is low for the first half of an access; the requests that a clock makes
   are served by the next one, and a byte that is still to come is asked for of
   the memory that is heard. *)
AccessOK ==
  /\ clks \in 0 .. 2 * CycleClks
  /\ clks > 0 => access \in Accesses
  /\ ri.ncs_in <=> clks = 2 * CycleClks \/ clks < CycleClks
  /\ ~ri.vblank /\ ~ri.vblank_in
  /\ ri.upd_cntrs => clks = 2 * CycleClks - 1
  /\ ri.rd_rdy => clks = 2 * CycleClks - 1 /\ SameMemory(vram_a_out, last_a)
  /\ clks = 2 * CycleClks /\ access.sel = 7 /\ access.r_nw => ~Crosses

IInv == LatchesOK /\ CountersOK /\ AccessOK

LEMMA Initially == Init => IInv
<1> SUFFICES ASSUME Init PROVE IInv
  OBVIOUS
<1>1. LatchesOK /\ ri.ncs_in = TRUE /\ ri.vblank = FALSE /\ ri.vblank_in = FALSE
      /\ ri.upd_cntrs = FALSE /\ ri.rd_rdy = FALSE
  BY DEF Init, Reset, LatchesOK
<1>2. CountersOK
  <2>1. ctr = [fvc |-> 0, vc |-> 0, hc |-> 0, vtc |-> 0, htc |-> 0]
    BY DEF Init, Split15
  <2> QED BY <2>1 DEF CountersOK
<1>3. AccessOK
  BY <1>1, CycleFacts DEF Init, AccessOK
<1> QED BY <1>1, <1>2, <1>3 DEF IInv

(* The start of an access disturbs no register. *)
LEMMA StartStep ==
  ASSUME IInv, ~MayCross, NEW acc \in Accesses, Start(acc)
  PROVE  /\ IInv'
         /\ UNCHANGED <<ri, ctr, last_a, stored>>
<1>1. UNCHANGED <<ri, ctr, last_a, stored>>
  BY DEF Start
<1>2. LatchesOK' /\ CountersOK'
  BY <1>1 DEF IInv, LatchesOK, CountersOK
<1>3. /\ clks = 0 /\ clks' = 2 * CycleClks /\ access' = acc
      /\ acc.sel = 7 /\ acc.r_nw => ~Crosses
  BY DEF Start
<1>4. Crosses' <=> Crosses
  BY <1>1 DEF Crosses, vram_a_out
<1>5. /\ ri.ncs_in /\ ~ri.vblank /\ ~ri.vblank_in /\ ~ri.upd_cntrs /\ ~ri.rd_rdy
  BY <1>3, CycleFacts DEF IInv, AccessOK
<1>6. AccessOK'
  BY <1>1, <1>3, <1>4, <1>5, CycleFacts DEF AccessOK
<1> QED BY <1>1, <1>2, <1>6 DEF IInv

(* The inputs of a clock. *)
LEMMA InputFields ==
  ASSUME IInv, clks > 0
  PROVE  /\ Inputs.ncs = (clks <= CycleClks) /\ Inputs.sel = access.sel
         /\ Inputs.r_nw = access.r_nw /\ Inputs.d = access.d
         /\ Inputs.vram_a = vram_a_out /\ Inputs.vram_d = vram_d_in
         /\ Inputs.pram_d = PramByte(PramCell(vram_a_out))
         /\ Inputs.vblank = FALSE /\ Status(Inputs) = 0
         /\ access.sel \in {0, 2, 5, 6, 7} /\ access.r_nw \in BOOLEAN /\ access.d \in 0 .. 255
         /\ executes(Inputs.ncs) <=> clks = 2 * CycleClks
<1> DEFINE i == Inputs
<1>1. /\ i.ncs = (clks <= CycleClks) /\ i.sel = access.sel
      /\ i.r_nw = access.r_nw /\ i.d = access.d
      /\ i.vram_a = vram_a_out /\ i.vram_d = vram_d_in
      /\ i.pram_d = PramByte(PramCell(vram_a_out)) /\ i.vblank = FALSE
      /\ i.overflow = FALSE /\ i.pri_col = FALSE
  BY DEF Inputs
<1>2. access.sel \in {0, 2, 5, 6, 7} /\ access.r_nw \in BOOLEAN /\ access.d \in 0 .. 255
  BY AccessFacts DEF IInv, AccessOK
<1>3. executes(i.ncs) <=> clks = 2 * CycleClks
  <2>1. i.ncs <=> clks <= CycleClks
    BY DEF Inputs
  <2>2. /\ clks \in 0 .. 2 * CycleClks
        /\ ri.ncs_in <=> clks = 2 * CycleClks \/ clks < CycleClks
    BY DEF IInv, AccessOK
  <2> HIDE DEF i
  <2>3. ri.ncs_in /\ ~i.ncs <=> clks = 2 * CycleClks
    BY <2>1, <2>2, CycleFacts
  <2> QED BY <2>3 DEF executes
<1>4. Status(i) = 0
  BY <1>1 DEF IInv, AccessOK, Status
<1> QED BY <1>1, <1>2, <1>3, <1>4

--------------------------------------------------------------------------------
(* Clocks on which no access is executed. *)

PortV == IF ri.upd_cntrs THEN Latched ELSE Joined15(ctr)
PortBuf == IF ri.rd_rdy THEN vram_d_in ELSE ri.rd_buf

LEMMA CounterFields ==
  ASSUME Clock
  PROVE  ctr' = IF inc_addr_out(Inputs) THEN AddressStep(ctr, ri.addr_incr)
                ELSE IF ri.upd_cntrs THEN LoadHorizontal(LoadVertical(ctr, ri), ri)
                ELSE ctr
<1>1. ctr' = Counters(ctr, ri, Requests)
  BY DEF Clock
<1>2. /\ Requests.inc_addr = inc_addr_out(Inputs) /\ Requests.upd_cntrs = ri.upd_cntrs
      /\ Requests.inc_v = FALSE /\ Requests.inc_h = FALSE
      /\ Requests.upd_v = FALSE /\ Requests.upd_h = FALSE
  BY DEF Requests
<1> QED BY <1>1, <1>2 DEF Counters, If

LEMMA LatchedIs == Latched = Fifteen(ri.fv, ri.v, ri.h, ri.vt, ri.ht)
BY DEF Latched, Joined15, Fifteen

LEMMA LoadFields ==
  LET c == LoadHorizontal(LoadVertical(ctr, ri), ri)
  IN  c.fvc = ri.fv /\ c.vc = ri.v /\ c.hc = ri.h /\ c.vtc = ri.vt /\ c.htc = ri.ht
BY DEF LoadHorizontal, LoadVertical

LEMMA QuietClock ==
  ASSUME IInv, Clock, clks # 2 * CycleClks
  PROVE  /\ IInv'
         /\ Latched' = Latched /\ PortV' = PortV /\ PortBuf' = PortBuf
         /\ UNCHANGED <<ri.fh, ri.byte_sel, ri.addr_incr, ri.cpu_d_out, stored>>
<1> DEFINE i == Inputs
<1>1. clks > 0 /\ clks' = clks - 1 /\ access' = access /\ last_a' = vram_a_out
  BY DEF Clock
<1>2. /\ ~executes(i.ncs) /\ i.vblank = FALSE /\ i.vram_d = vram_d_in
      /\ (i.ncs <=> clks <= CycleClks)
  BY <1>1, InputFields
<1>3. ~ri.vblank /\ clks \in 0 .. 2 * CycleClks
  BY DEF IInv, AccessOK
<1>4. /\ LatchesKept(ri') /\ ri'.addr_incr = ri.addr_incr /\ ri'.byte_sel = ri.byte_sel
      /\ ri'.cpu_d_out = ri.cpu_d_out /\ ri'.rd_buf = IF ri.rd_rdy THEN vram_d_in ELSE ri.rd_buf
      /\ ri'.rd_rdy = FALSE /\ ri'.upd_cntrs = FALSE
      /\ ~ri'.vblank /\ ri'.vblank_in = FALSE /\ ri'.ncs_in = i.ncs
  <2>1. ri' = Clocked(i)
    BY DEF Clock
  <2> QED BY <1>2, <1>3, <2>1, QuietFields DEF LatchesKept
<1>5. ctr' = IF ri.upd_cntrs THEN LoadHorizontal(LoadVertical(ctr, ri), ri) ELSE ctr
  BY <1>2, CounterFields DEF inc_addr_out, Reads, Writes
<1>6. stored' = stored
  BY <1>2 DEF Clock
<1> HIDE DEF i
<1>7. LatchesOK' /\ CountersOK'
  <2>1. CountersOK'
    BY <1>5, LoadFields DEF IInv, LatchesOK, CountersOK
  <2> QED BY <1>4, <2>1 DEF IInv, LatchesOK, LatchesKept
<1>8. AccessOK'
  BY <1>1, <1>2, <1>3, <1>4, CycleFacts DEF IInv, AccessOK
<1>9. Latched' = Latched
  BY <1>4, LatchedIs DEF LatchesKept, Latched, Joined15
<1>10. PortV' = PortV
  <2>1. CASE ri.upd_cntrs
    <3>1. Joined15(ctr') = Latched
      BY <1>5, <2>1, LoadFields DEF Joined15, Latched
    <3> QED BY <1>4, <2>1, <3>1 DEF PortV
  <2>2. CASE ~ri.upd_cntrs
    BY <1>4, <1>5, <2>2 DEF PortV
  <2> QED BY <2>1, <2>2
<1>11. PortBuf' = PortBuf
  BY <1>4 DEF PortBuf
<1> QED BY <1>4, <1>6, <1>7, <1>8, <1>9, <1>10, <1>11 DEF IInv, LatchesKept

--------------------------------------------------------------------------------
(* The clock on which an access is executed. *)

LEMMA ExecFacts ==
  ASSUME IInv, Clock, clks = 2 * CycleClks
  PROVE  /\ ri' = Clocked(Inputs) /\ executes(Inputs.ncs) /\ Inputs.ncs = FALSE
         /\ ~ri.vblank /\ ~ri.rd_rdy /\ ~ri.upd_cntrs
         /\ clks' = 2 * CycleClks - 1 /\ access' = access /\ access \in Accesses
         /\ last_a' = vram_a_out /\ stored' = StoredBy(Inputs)
         /\ PortV = Joined15(ctr) /\ PortBuf = ri.rd_buf
<1>1. /\ ri' = Clocked(Inputs) /\ clks > 0 /\ access' = access /\ last_a' = vram_a_out
      /\ clks' = 2 * CycleClks - 1
  BY DEF Clock
<1>2. executes(Inputs.ncs)
  BY <1>1, InputFields
<1>3. ~Inputs.ncs /\ (Inputs.ncs \in BOOLEAN)
  BY <1>2 DEF executes, Inputs
<1>4. ~ri.vblank /\ ~ri.rd_rdy /\ ~ri.upd_cntrs /\ access \in Accesses
  BY <1>1, CycleFacts DEF IInv, AccessOK, LatchesOK
<1>5. stored' = StoredBy(Inputs)
  BY <1>2 DEF Clock
<1> QED BY <1>1, <1>2, <1>3, <1>4, <1>5 DEF PortV, PortBuf

LEMMA ExecInv ==
  ASSUME IInv, Clock, clks = 2 * CycleClks, LatchesOK', CountersOK',
         ~ri'.vblank, ri'.vblank_in = FALSE, ri'.ncs_in = FALSE,
         ri'.rd_rdy => SameMemory(vram_a_out', last_a')
  PROVE  IInv'
<1>1. clks' = 2 * CycleClks - 1 /\ access' \in Accesses
  BY ExecFacts
<1>2. AccessOK'
  BY <1>1, CycleFacts DEF AccessOK
<1> QED BY <1>2 DEF IInv

(* The counters as a number, after an access of 0x2007. *)
LEMMA AddressStepped ==
  ASSUME CountersOK, ri.addr_incr \in BOOLEAN
  PROVE  LET c == AddressStep(ctr, ri.addr_incr)
         IN  /\ Joined15(c) = (Joined15(ctr) + (IF ri.addr_incr THEN 32 ELSE 1)) % 32768
             /\ c.fvc \in 0 .. 7 /\ c.vc \in 0 .. 1 /\ c.hc \in 0 .. 1
             /\ c.vtc \in 0 .. 31 /\ c.htc \in 0 .. 31
<1> DEFINE n == Joined15(ctr) + (IF ri.addr_incr THEN 32 ELSE 1)
<1>1. n \in Nat
  <2>1. /\ ctr.fvc \in Nat /\ ctr.vc \in Nat /\ ctr.hc \in Nat /\ ctr.vtc \in Nat /\ ctr.htc \in Nat
    BY DEF CountersOK
  <2>2. Joined15(ctr) \in Nat
    BY <2>1 DEF Joined15
  <2> QED BY <2>2
<1>2. AddressStep(ctr, ri.addr_incr) = Split15(n)
  BY DEF AddressStep
<1> HIDE DEF n
<1>3. /\ Joined15(Split15(n)) = n % 32768
      /\ Split15(n).fvc \in 0 .. 7 /\ Split15(n).vc \in 0 .. 1 /\ Split15(n).hc \in 0 .. 1
      /\ Split15(n).vtc \in 0 .. 31 /\ Split15(n).htc \in 0 .. 31
  BY <1>1, SplitJoins
<1> QED BY <1>2, <1>3 DEF n

LEMMA PortAddress ==
  ASSUME IInv, Clock, clks = 2 * CycleClks
  PROVE  /\ Port!a = vram_a_out
         /\ Port!InPalette <=> InPalette(vram_a_out)
<1>1. Port!a = vram_a_out
  BY ExecFacts DEF Port!a, PortV, vram_a_out, AddressRi
<1> QED BY <1>1 DEF Port!InPalette, InPalette

LEMMA ReadStep ==
  ASSUME IInv, Clock, clks = 2 * CycleClks, access.r_nw
  PROVE  IInv' /\ Port!Next
<1> DEFINE i == Inputs
<1>1. /\ ri' = Clocked(i) /\ executes(i.ncs) /\ i.ncs = FALSE
      /\ ~ri.vblank /\ ~ri.rd_rdy /\ ~ri.upd_cntrs
      /\ last_a' = vram_a_out /\ stored' = StoredBy(i)
  BY ExecFacts
<1>2. /\ i.r_nw /\ i.sel = access.sel /\ i.sel \in {0, 2, 5, 6, 7} /\ i.vram_a = vram_a_out
      /\ i.pram_d = PramByte(PramCell(vram_a_out)) /\ i.vblank = FALSE /\ Status(i) = 0
  <2>1. clks > 0
    BY CycleFacts
  <2> QED BY <2>1, InputFields
<1>3. /\ LatchesKept(ri') /\ ri'.addr_incr = ri.addr_incr
      /\ i.sel = 2 => ri'.byte_sel = FALSE
      /\ i.sel # 2 => ri'.byte_sel = ri.byte_sel
      /\ ri'.cpu_d_out = CASE i.sel = 2 -> Status(i)
                           [] i.sel = 7 -> IF InPalette(i.vram_a) THEN i.pram_d ELSE ri.rd_buf
                           [] OTHER -> ri.cpu_d_out
      /\ ri'.rd_buf = ri.rd_buf /\ (ri'.rd_rdy <=> i.sel = 7)
      /\ ~ri'.upd_cntrs
      /\ ~ri'.vblank /\ ri'.vblank_in = FALSE /\ ri'.ncs_in = FALSE
  BY <1>1, <1>2, ReadFields
<1>4. stored' = <<>>
  BY <1>1, <1>2 DEF StoredBy, pram_wr_out, vram_wr_out, Writes
<1>5. LatchesOK'
  BY <1>3 DEF IInv, LatchesOK, LatchesKept
<1>6. ASSUME i.sel # 7 PROVE ctr' = ctr
  BY <1>1, <1>2, <1>6, CounterFields DEF inc_addr_out, Reads, Writes
<1>7. ASSUME i.sel = 7 PROVE ctr' = AddressStep(ctr, ri.addr_incr)
  BY <1>1, <1>2, <1>7, CounterFields DEF inc_addr_out, Reads, Writes
<1>8. CountersOK'
  <2>1. CASE i.sel # 7
    BY <1>6, <2>1 DEF IInv, CountersOK
  <2>2. CASE i.sel = 7
    BY <1>7, <2>2, AddressStepped DEF IInv, LatchesOK, CountersOK
  <2> QED BY <2>1, <2>2
<1>9. ASSUME i.sel = 7 PROVE SameMemory(vram_a_out', last_a')
  <2>1. ~Crosses
    BY <1>2, <1>9 DEF IInv, AccessOK
  <2>2. vram_a_out' = AddressRi(AddressStep(ctr, ri.addr_incr))
    BY <1>7, <1>9 DEF vram_a_out
  <2> QED BY <1>1, <2>1, <2>2 DEF Crosses, SameMemory
<1>10. IInv'
  BY <1>3, <1>5, <1>8, <1>9, ExecInv
<1>11. PortV = Joined15(ctr) /\ PortV' = Joined15(ctr') /\ Latched' = Latched
  BY <1>1, <1>3 DEF PortV, Latched, Joined15, LatchesKept
<1>12. PortBuf = ri.rd_buf /\ (i.sel # 7 => PortBuf' = ri.rd_buf) /\ (i.sel = 7 => PortBuf' = vram_d_in')
  BY <1>1, <1>3 DEF PortBuf
<1>13. CASE i.sel = 2
  <2>1. Port!ReadStatus
    BY <1>2, <1>3, <1>4, <1>6, <1>11, <1>12, <1>13 DEF Port!ReadStatus, PortV, PortBuf, LatchesKept
  <2> QED BY <1>10, <2>1 DEF Port!Next
<1>14. CASE i.sel \in {0, 5, 6}
  <2>1. Port!Nothing
    BY <1>2, <1>3, <1>4, <1>6, <1>11, <1>12, <1>14 DEF Port!Nothing, PortV, PortBuf, LatchesKept
  <2> QED BY <1>10, <2>1 DEF Port!Next
<1>15. CASE i.sel = 7
  <2>1. Port!a = vram_a_out /\ (Port!InPalette <=> InPalette(vram_a_out))
    BY PortAddress
  <2>2. ri'.cpu_d_out = IF Port!InPalette THEN Port!PramByte(Port!PramCell(Port!a)) ELSE PortBuf
    BY <1>2, <1>3, <1>12, <1>15, <2>1 DEF Port!PramByte, Port!PramCell, PramByte, PramCell
  <2>3. PortBuf' = Port!MemByte(Port!a)
    <3>1. vram_d_in' = IF InCiram(vram_a_out') THEN CiramByte(CiramCell(last_a'))
                       ELSE ChrByte(ChrCell(last_a'))
      BY DEF vram_d_in
    <3>2. vram_d_in' = MemByte(vram_a_out)
      BY <1>1, <1>9, <1>15, <3>1 DEF MemByte, SameMemory
    <3> QED BY <1>12, <1>15, <2>1, <3>2
            DEF MemByte, InCiram, CiramCell, ciram_a10, ChrCell,
                Port!MemByte, Port!InCiram, Port!CiramCell, Port!ciram_a10, Port!ChrCell
  <2>4. PortV' = (PortV + (IF ri.addr_incr THEN 32 ELSE 1)) % 32768
    BY <1>7, <1>11, <1>15, AddressStepped DEF IInv, LatchesOK
  <2>5. Port!Step
    BY <2>4 DEF Port!Step, PortV
  <2>6. Latched' = Latched /\ UNCHANGED <<ri.fh, ri.byte_sel, ri.addr_incr>>
    BY <1>3, <1>11, <1>15 DEF LatchesKept
  <2>7. Port!Load
    BY <1>4, <2>2, <2>3, <2>5, <2>6 DEF Port!Load, PortBuf
  <2> QED BY <1>10, <2>7 DEF Port!Next
<1> QED BY <1>2, <1>13, <1>14, <1>15

(* What the writes have in common. *)
LEMMA WriteFacts ==
  ASSUME IInv, Clock, clks = 2 * CycleClks, ~access.r_nw
  PROVE  /\ ri' = Clocked(Inputs) /\ executes(Inputs.ncs) /\ Inputs.ncs = FALSE
         /\ ~ri.vblank /\ ~ri.rd_rdy /\ ~ri.upd_cntrs /\ ~Inputs.r_nw /\ ~Inputs.vblank
         /\ Inputs.sel = access.sel /\ Inputs.d = access.d /\ Inputs.vram_a = vram_a_out
         /\ access.d \in 0 .. 255 /\ access.d \in {acc.d : acc \in Accesses}
         /\ access.sel # 7 => ctr' = ctr /\ stored' = <<>>
         /\ access.sel = 7 => ctr' = AddressStep(ctr, ri.addr_incr)
         /\ PortV = Joined15(ctr) /\ PortBuf = ri.rd_buf
<1> DEFINE i == Inputs
<1>1. /\ ri' = Clocked(i) /\ executes(i.ncs) /\ i.ncs = FALSE
      /\ ~ri.vblank /\ ~ri.rd_rdy /\ ~ri.upd_cntrs
      /\ access \in Accesses /\ stored' = StoredBy(i)
      /\ PortV = Joined15(ctr) /\ PortBuf = ri.rd_buf
  BY ExecFacts
<1>2. /\ ~i.r_nw /\ i.sel = access.sel /\ i.d = access.d /\ i.vram_a = vram_a_out
      /\ ~i.vblank /\ access.d \in 0 .. 255
  <2>1. clks > 0
    BY CycleFacts
  <2> QED BY <2>1, InputFields
<1>3. access.d \in {acc.d : acc \in Accesses}
  BY <1>1
<1>4. access.sel # 7 => ctr' = ctr
  BY <1>1, <1>2, CounterFields DEF inc_addr_out, Reads, Writes
<1>5. access.sel = 7 => ctr' = AddressStep(ctr, ri.addr_incr)
  BY <1>1, <1>2, CounterFields DEF inc_addr_out, Reads, Writes
<1>6. access.sel # 7 => stored' = <<>>
  BY <1>1, <1>2 DEF StoredBy, pram_wr_out, vram_wr_out, Writes
<1> QED BY <1>1, <1>2, <1>3, <1>4, <1>5, <1>6

(* Nor do the counters move, unless it is one of 0x2007. *)
LEMMA CountersRest ==
  ASSUME IInv, Clock, clks = 2 * CycleClks, ~access.r_nw, access.sel # 7
  PROVE  ctr' = ctr /\ stored' = <<>> /\ PortV = Joined15(ctr) /\ PortBuf = ri.rd_buf
BY WriteFacts

(* After a write no byte is on its way. *)
LEMMA WriteInv ==
  ASSUME IInv, Clock, clks = 2 * CycleClks, ~access.r_nw, LatchesOK', OthersKept(ri', Inputs)
  PROVE  IInv' /\ PortBuf' = ri.rd_buf
<1>1. ~ri'.rd_rdy /\ ri'.rd_buf = ri.rd_buf /\ ~ri'.vblank /\ ri'.ncs_in = FALSE
      /\ ri'.vblank_in = FALSE
  <2>1. Inputs.vblank = FALSE /\ Inputs.ncs = FALSE
    BY WriteFacts DEF Inputs
  <2> QED BY <2>1 DEF OthersKept
<1>2. CountersOK'
  <2>1. CASE access.sel # 7
    BY <2>1, WriteFacts DEF IInv, CountersOK
  <2>2. CASE access.sel = 7
    <3>1. ctr' = AddressStep(ctr, ri.addr_incr)
      BY <2>2, WriteFacts
    <3>2. CountersOK /\ ri.addr_incr \in BOOLEAN
      BY DEF IInv, LatchesOK
    <3> QED BY <3>1, <3>2, AddressStepped DEF CountersOK
  <2> QED BY <2>1, <2>2
<1>3. IInv'
  BY <1>1, <1>2, ExecInv
<1> QED BY <1>1, <1>3 DEF PortBuf

LEMMA LatchedWritten ==
  ASSUME LatchesOK, NEW d \in 0 .. 255
  PROVE  BitsReplaced(ri.fv, ri.v, ri.h, ri.vt, ri.ht, d)
<1>1. Parts(ri.fv, ri.v, ri.h, ri.vt, ri.ht, d)
  BY DEF LatchesOK, Parts
<1> QED BY <1>1, BitsWritten

LEMMA CtrlStep ==
  ASSUME IInv, Clock, clks = 2 * CycleClks, ~access.r_nw, access.sel = 0
  PROVE  IInv' /\ Port!Next
<1> DEFINE d == access.d
<1>1. /\ ri'.fv = ri.fv /\ ri'.vt = ri.vt /\ ri'.fh = ri.fh /\ ri'.ht = ri.ht
      /\ ri'.v = Field(d, 1, 1) /\ ri'.h = Field(d, 0, 1)
      /\ ri'.addr_incr = Flag(d, 2) /\ ri'.byte_sel = ri.byte_sel
      /\ ri'.upd_cntrs = FALSE /\ OthersKept(ri', Inputs)
  <2> DEFINE i == Inputs
  <2>1. /\ ri' = Clocked(i) /\ executes(i.ncs) /\ ~i.r_nw /\ i.sel = access.sel
        /\ ~i.vblank /\ ~ri.vblank /\ ~ri.rd_rdy /\ i.d = d
    BY WriteFacts
  <2> HIDE DEF i, d
  <2> QED BY <2>1, CtrlFields DEF i
<1>2. d \in 0 .. 255 /\ d \in {acc.d : acc \in Accesses}
  BY WriteFacts
<1>3. LatchesOK /\ LatchesOK'
  <2>1. Field(d, 1, 1) \in 0 .. 1 /\ Field(d, 0, 1) \in 0 .. 1 /\ Flag(d, 2) \in BOOLEAN
    BY <1>2, FieldFacts DEF Flag
  <2> QED BY <1>1, <2>1 DEF IInv, LatchesOK
<1>4. IInv' /\ PortBuf' = ri.rd_buf
  BY <1>1, <1>3, WriteInv
<1>5. Latched' = Port!WithBits(Latched, 10, 2, Port!Bits(d, 0, 2))
  <2>1. Latched' = Fifteen(ri.fv, Field(d, 1, 1), Field(d, 0, 1), ri.vt, ri.ht)
    BY <1>1 DEF Latched, Joined15, Fifteen
  <2>2. Fifteen(ri.fv, Field(d, 1, 1), Field(d, 0, 1), ri.vt, ri.ht)
          = Port!WithBits(Fifteen(ri.fv, ri.v, ri.h, ri.vt, ri.ht), 10, 2, Port!Bits(d, 0, 2))
    BY <1>2, <1>3, LatchedWritten DEF BitsReplaced
  <2> QED BY <2>1, <2>2, LatchedIs
<1>6. PortV' = PortV
  <2>1. PortV = Joined15(ctr) /\ ctr' = ctr
    BY CountersRest
  <2> QED BY <1>1, <2>1 DEF PortV
<1>7. ri'.addr_incr = (Port!Bits(d, 2, 1) = 1)
  BY <1>1, <1>2, FieldFacts
<1>8. PortBuf' = PortBuf /\ ri'.cpu_d_out = ri.cpu_d_out /\ stored' = <<>>
  <2>1. PortBuf = ri.rd_buf /\ stored' = <<>>
    BY CountersRest
  <2> QED BY <1>1, <1>4, <2>1 DEF OthersKept
<1>9. Port!Ctrl(d)
  BY <1>1, <1>5, <1>6, <1>7, <1>8 DEF Port!Ctrl, PortV, PortBuf
<1> QED BY <1>2, <1>4, <1>9 DEF Port!Next

LEMMA ScrollStep ==
  ASSUME IInv, Clock, clks = 2 * CycleClks, ~access.r_nw, access.sel = 5
  PROVE  IInv' /\ Port!Next
<1> DEFINE d == access.d
<1>1. /\ ri'.v = ri.v /\ ri'.h = ri.h /\ ri'.addr_incr = ri.addr_incr
      /\ ~ri.byte_sel => /\ ri'.byte_sel = TRUE
                         /\ ri'.fh = Field(d, 0, 3) /\ ri'.ht = Field(d, 3, 5)
                         /\ ri'.fv = ri.fv /\ ri'.vt = ri.vt
      /\ ri.byte_sel => /\ ri'.byte_sel = FALSE
                        /\ ri'.fv = Field(d, 0, 3) /\ ri'.vt = Field(d, 3, 5)
                        /\ ri'.fh = ri.fh /\ ri'.ht = ri.ht
      /\ ri'.upd_cntrs = FALSE /\ OthersKept(ri', Inputs)
  <2> DEFINE i == Inputs
  <2>1. /\ ri' = Clocked(i) /\ executes(i.ncs) /\ ~i.r_nw /\ i.sel = access.sel
        /\ ~i.vblank /\ ~ri.vblank /\ ~ri.rd_rdy /\ i.d = d
    BY WriteFacts
  <2> HIDE DEF i, d
  <2> QED BY <2>1, ScrollFields DEF i
<1>2. d \in 0 .. 255 /\ d \in {acc.d : acc \in Accesses}
  BY WriteFacts
<1>3. LatchesOK /\ LatchesOK'
  <2>1. Field(d, 0, 3) \in 0 .. 7 /\ Field(d, 3, 5) \in 0 .. 31
    BY <1>2, FieldFacts
  <2> QED BY <1>1, <2>1 DEF IInv, LatchesOK
<1>4. IInv' /\ PortBuf' = ri.rd_buf
  BY <1>1, <1>3, WriteInv
<1>5. PortV' = PortV
  <2>1. PortV = Joined15(ctr) /\ ctr' = ctr
    BY CountersRest
  <2> QED BY <1>1, <2>1 DEF PortV
<1>6. PortBuf' = PortBuf /\ ri'.cpu_d_out = ri.cpu_d_out /\ stored' = <<>>
  <2>1. PortBuf = ri.rd_buf /\ stored' = <<>>
    BY CountersRest
  <2> QED BY <1>1, <1>4, <2>1 DEF OthersKept
<1>7. Port!Bits(d, 0, 3) = Field(d, 0, 3)
  BY <1>2, FieldFacts
<1>8. CASE ~ri.byte_sel
  <2>1. Latched' = Port!WithBits(Latched, 0, 5, Port!Bits(d, 3, 5))
    <3>1. Latched' = Fifteen(ri.fv, ri.v, ri.h, ri.vt, Field(d, 3, 5))
      BY <1>1, <1>8 DEF Latched, Joined15, Fifteen
    <3>2. Fifteen(ri.fv, ri.v, ri.h, ri.vt, Field(d, 3, 5))
            = Port!WithBits(Fifteen(ri.fv, ri.v, ri.h, ri.vt, ri.ht), 0, 5, Port!Bits(d, 3, 5))
      BY <1>2, <1>3, LatchedWritten DEF BitsReplaced
    <3> QED BY <3>1, <3>2, LatchedIs
  <2>2. Port!Scroll(d)
    BY <1>1, <1>5, <1>6, <1>7, <1>8, <2>1 DEF Port!Scroll, PortV, PortBuf
  <2> QED BY <1>2, <1>4, <2>2 DEF Port!Next
<1>9. CASE ri.byte_sel
  <2>1. Latched' = Port!WithBits(Port!WithBits(Latched, 12, 3, Port!Bits(d, 0, 3)),
                                 5, 5, Port!Bits(d, 3, 5))
    <3>1. Latched' = Fifteen(Field(d, 0, 3), ri.v, ri.h, Field(d, 3, 5), ri.ht)
      BY <1>1, <1>9 DEF Latched, Joined15, Fifteen
    <3>2. Fifteen(Field(d, 0, 3), ri.v, ri.h, Field(d, 3, 5), ri.ht)
            = Port!WithBits(Port!WithBits(Fifteen(ri.fv, ri.v, ri.h, ri.vt, ri.ht),
                                          12, 3, Port!Bits(d, 0, 3)),
                            5, 5, Port!Bits(d, 3, 5))
      BY <1>2, <1>3, LatchedWritten DEF BitsReplaced
    <3> QED BY <3>1, <3>2, LatchedIs
  <2>2. Port!Scroll(d)
    BY <1>1, <1>5, <1>6, <1>9, <2>1 DEF Port!Scroll, PortV, PortBuf
  <2> QED BY <1>2, <1>4, <2>2 DEF Port!Next
<1> QED BY <1>3, <1>8, <1>9 DEF LatchesOK

LEMMA AddrStep ==
  ASSUME IInv, Clock, clks = 2 * CycleClks, ~access.r_nw, access.sel = 6
  PROVE  IInv' /\ Port!Next
<1> DEFINE d == access.d
<1>1. /\ ri'.fh = ri.fh /\ ri'.addr_incr = ri.addr_incr
      /\ ~ri.byte_sel => /\ ri'.byte_sel = TRUE /\ ri'.upd_cntrs = FALSE
                         /\ ri'.fv = Field(d, 4, 2) /\ ri'.v = Field(d, 3, 1)
                         /\ ri'.h = Field(d, 2, 1)
                         /\ ri'.vt = 8 * Field(d, 0, 2) + (ri.vt % 8)
                         /\ ri'.ht = ri.ht
      /\ ri.byte_sel => /\ ri'.byte_sel = FALSE /\ ri'.upd_cntrs = TRUE
                        /\ ri'.vt = 8 * (ri.vt \div 8) + Field(d, 5, 3)
                        /\ ri'.ht = Field(d, 0, 5)
                        /\ ri'.fv = ri.fv /\ ri'.v = ri.v /\ ri'.h = ri.h
      /\ OthersKept(ri', Inputs)
  <2> DEFINE i == Inputs
  <2>1. /\ ri' = Clocked(i) /\ executes(i.ncs) /\ ~i.r_nw /\ i.sel = access.sel
        /\ ~i.vblank /\ ~ri.vblank /\ ~ri.rd_rdy /\ i.d = d
    BY WriteFacts
  <2> HIDE DEF i, d
  <2> QED BY <2>1, AddrFields DEF i
<1>2. d \in 0 .. 255 /\ d \in {acc.d : acc \in Accesses}
  BY WriteFacts
<1>3. LatchesOK /\ LatchesOK'
  <2>1. /\ Field(d, 4, 2) \in 0 .. 3 /\ Field(d, 3, 1) \in 0 .. 1 /\ Field(d, 2, 1) \in 0 .. 1
        /\ Field(d, 0, 2) \in 0 .. 3 /\ Field(d, 5, 3) \in 0 .. 7 /\ Field(d, 0, 5) \in 0 .. 31
    BY <1>2, FieldFacts
  <2>2. LatchesOK
    BY DEF IInv
  <2>3. ri.vt % 8 \in 0 .. 7 /\ ri.vt \div 8 \in 0 .. 3
    BY <2>2 DEF LatchesOK
  <2>4. /\ 8 * Field(d, 0, 2) + (ri.vt % 8) \in 0 .. 31
        /\ 8 * (ri.vt \div 8) + Field(d, 5, 3) \in 0 .. 31
    BY <2>1, <2>3
  <2> HIDE DEF d
  <2>5. CASE ~ri.byte_sel
    <3>1. /\ ri'.fv \in 0 .. 7 /\ ri'.v \in 0 .. 1 /\ ri'.h \in 0 .. 1 /\ ri'.vt \in 0 .. 31
          /\ ri'.ht \in 0 .. 31
      BY <1>1, <2>1, <2>2, <2>4, <2>5 DEF LatchesOK
    <3> QED BY <1>1, <2>2, <2>5, <3>1 DEF LatchesOK
  <2>6. CASE ri.byte_sel
    <3>1. /\ ri'.fv \in 0 .. 7 /\ ri'.v \in 0 .. 1 /\ ri'.h \in 0 .. 1 /\ ri'.vt \in 0 .. 31
          /\ ri'.ht \in 0 .. 31
      BY <1>1, <2>1, <2>2, <2>4, <2>6 DEF LatchesOK
    <3> QED BY <1>1, <2>2, <2>6, <3>1 DEF LatchesOK
  <2> QED BY <2>2, <2>5, <2>6 DEF LatchesOK
<1>4. IInv' /\ PortBuf' = ri.rd_buf
  BY <1>1, <1>3, WriteInv
<1>5. PortBuf' = PortBuf /\ ri'.cpu_d_out = ri.cpu_d_out /\ stored' = <<>>
  <2>1. PortBuf = ri.rd_buf /\ stored' = <<>>
    BY CountersRest
  <2> QED BY <1>1, <1>4, <2>1 DEF OthersKept
<1>6. CASE ~ri.byte_sel
  <2>1. PortV' = PortV
    <3>1. PortV = Joined15(ctr) /\ ctr' = ctr
      BY CountersRest
    <3> QED BY <1>1, <1>6, <3>1 DEF PortV
  <2>2. Latched' = Port!WithBits(Latched, 8, 7, Port!Bits(d, 0, 6))
    <3>1. Latched' = Fifteen(Field(d, 4, 2), Field(d, 3, 1), Field(d, 2, 1),
                             8 * Field(d, 0, 2) + (ri.vt % 8), ri.ht)
      BY <1>1, <1>6 DEF Latched, Joined15, Fifteen
    <3>2. Fifteen(Field(d, 4, 2), Field(d, 3, 1), Field(d, 2, 1),
                  8 * Field(d, 0, 2) + (ri.vt % 8), ri.ht)
            = Port!WithBits(Fifteen(ri.fv, ri.v, ri.h, ri.vt, ri.ht), 8, 7, Port!Bits(d, 0, 6))
      BY <1>2, <1>3, LatchedWritten DEF BitsReplaced
    <3> QED BY <3>1, <3>2, LatchedIs
  <2>3. Port!Addr(d)
    BY <1>1, <1>5, <1>6, <2>1, <2>2 DEF Port!Addr, PortV, PortBuf
  <2> QED BY <1>2, <1>4, <2>3 DEF Port!Next
<1>7. CASE ri.byte_sel
  <2>1. PortV' = Latched'
    BY <1>1, <1>7 DEF PortV
  <2>2. Latched' = Port!WithBits(Latched, 0, 8, d)
    <3>1. Latched' = Fifteen(ri.fv, ri.v, ri.h, 8 * (ri.vt \div 8) + Field(d, 5, 3),
                             Field(d, 0, 5))
      BY <1>1, <1>7 DEF Latched, Joined15, Fifteen
    <3>2. Fifteen(ri.fv, ri.v, ri.h, 8 * (ri.vt \div 8) + Field(d, 5, 3), Field(d, 0, 5))
            = Port!WithBits(Fifteen(ri.fv, ri.v, ri.h, ri.vt, ri.ht), 0, 8, d)
      BY <1>2, <1>3, LatchedWritten DEF BitsReplaced
    <3> QED BY <3>1, <3>2, LatchedIs
  <2>3. Port!Addr(d)
    BY <1>1, <1>5, <1>7, <2>1, <2>2 DEF Port!Addr, PortV, PortBuf
  <2> QED BY <1>2, <1>4, <2>3 DEF Port!Next
<1> QED BY <1>3, <1>6, <1>7 DEF LatchesOK

LEMMA StoreStep ==
  ASSUME IInv, Clock, clks = 2 * CycleClks, ~access.r_nw, access.sel \in {2, 7}
  PROVE  IInv' /\ Port!Next
<1> DEFINE d == access.d
<1>1. /\ LatchesKept(ri') /\ ri'.addr_incr = ri.addr_incr /\ ri'.byte_sel = ri.byte_sel
      /\ ri'.upd_cntrs = FALSE /\ OthersKept(ri', Inputs)
  BY WriteFacts, OtherWriteFields
<1>2. d \in {acc.d : acc \in Accesses}
  BY WriteFacts
<1>3. LatchesOK /\ LatchesOK'
  BY <1>1 DEF IInv, LatchesOK, LatchesKept
<1>4. IInv' /\ PortBuf' = ri.rd_buf
  BY <1>1, <1>3, WriteInv
<1>5. Latched' = Latched /\ PortBuf' = PortBuf /\ ri'.cpu_d_out = ri.cpu_d_out /\ ri'.fh = ri.fh
  <2>1. PortBuf = ri.rd_buf
    BY WriteFacts
  <2> QED BY <1>1, <1>4, <2>1 DEF LatchesKept, OthersKept, Latched, Joined15
<1>6. PortV = Joined15(ctr) /\ PortV' = Joined15(ctr')
  BY <1>1, WriteFacts DEF PortV
<1>7. CASE access.sel = 2
  <2>1. PortV' = PortV /\ stored' = <<>>
    BY <1>6, <1>7, CountersRest
  <2>2. Port!Nothing
    BY <1>1, <1>5, <2>1 DEF Port!Nothing, PortV, PortBuf
  <2> QED BY <1>4, <2>2 DEF Port!Next
<1>8. CASE access.sel = 7
  <2>1. Port!a = vram_a_out /\ (Port!InPalette <=> InPalette(vram_a_out))
    BY PortAddress
  <2>2. ctr' = AddressStep(ctr, ri.addr_incr)
    BY <1>8, WriteFacts
  <2>3. PortV' = (PortV + (IF ri.addr_incr THEN 32 ELSE 1)) % 32768
    BY <1>3, <1>6, <2>2, AddressStepped DEF IInv, LatchesOK
  <2>4. Port!Step
    BY <2>3 DEF Port!Step, PortV
  <2>5. Writes(Inputs, 7) /\ Inputs.vram_a = vram_a_out /\ Inputs.d = d
    BY <1>8, WriteFacts DEF Writes
  <2>6. stored' = IF InPalette(vram_a_out) THEN <<"palette", PramCell(vram_a_out), d % 64>>
                  ELSE IF InCiram(vram_a_out) THEN <<"names", CiramCell(vram_a_out), d>>
                  ELSE <<"patterns", ChrCell(vram_a_out), d>>
    <3>1. stored' = StoredBy(Inputs)
      BY ExecFacts
    <3> QED BY <2>5, <3>1 DEF StoredBy, pram_wr_out, vram_wr_out
  <2>7. stored' = IF Port!InPalette THEN <<"palette", Port!PramCell(Port!a), d % 64>>
                  ELSE IF Port!InCiram(Port!a) THEN <<"names", Port!CiramCell(Port!a), d>>
                  ELSE <<"patterns", Port!ChrCell(Port!a), d>>
    BY <2>1, <2>6 DEF PramCell, InCiram, CiramCell, ciram_a10, ChrCell,
         Port!PramCell, Port!InCiram, Port!CiramCell, Port!ciram_a10, Port!ChrCell
  <2>8. Port!Store(d)
    BY <1>1, <1>5, <2>4, <2>7 DEF Port!Store, PortBuf
  <2> QED BY <1>2, <1>4, <2>8 DEF Port!Next
<1> QED BY <1>7, <1>8

--------------------------------------------------------------------------------
(* The whole step. *)

LEMMA ClockStep ==
  ASSUME IInv, Clock
  PROVE  IInv' /\ [Port!Next]_(Port!portVars)
<1>1. CASE clks # 2 * CycleClks
  <2>1. /\ IInv' /\ Latched' = Latched /\ PortV' = PortV /\ PortBuf' = PortBuf
        /\ UNCHANGED <<ri.fh, ri.byte_sel, ri.addr_incr, ri.cpu_d_out, stored>>
    BY <1>1, QuietClock
  <2>2. UNCHANGED Port!portVars
    BY <2>1 DEF Port!portVars, PortV, PortBuf
  <2> QED BY <2>1, <2>2
<1>2. CASE clks = 2 * CycleClks
  <2>1. access.sel \in {0, 2, 5, 6, 7} /\ access.r_nw \in BOOLEAN
    <3>1. access \in Accesses
      BY <1>2, ExecFacts
    <3> QED BY <3>1, AccessFacts
  <2>2. IInv' /\ Port!Next
    BY <1>2, <2>1, ReadStep, CtrlStep, ScrollStep, AddrStep, StoreStep
  <2> QED BY <2>2
<1> QED BY <1>1, <1>2

(* The registers 0x2000, 0x2002, 0x2005, 0x2006 and 0x2007 of ppu_ri.v, the
   counters of ppu_bg.v that a second write of 0x2006 loads a clock later and
   the read buffer that a read of 0x2007 fills a clock later are, together, the
   port to video memory: each access, however many clocks it holds the bus, is
   one step of VideoPort on the clock that executes it, and every other clock
   changes nothing a program sees.  The byte on its way to the read buffer
   comes from the memory addressed when it arrives, so the program must not
   read 0x2007 where the next address is in another memory. *)
THEOREM PortImplementsVideoPort ==
  ASSUME ~MayCross
  PROVE  Spec => ImplementsVideoPort
<1>1. Init => Port!Init
  <2> SUFFICES ASSUME Init PROVE Port!Init
    OBVIOUS
  <2>1. ctr = [fvc |-> 0, vc |-> 0, hc |-> 0, vtc |-> 0, htc |-> 0]
    BY DEF Init, Split15
  <2>2. /\ ri.fv = 0 /\ ri.vt = 0 /\ ri.v = 0 /\ ri.fh = 0 /\ ri.ht = 0 /\ ri.h = 0
        /\ ri.upd_cntrs = FALSE /\ ri.rd_rdy = FALSE /\ ri.rd_buf = 0 /\ ri.cpu_d_out = 0
        /\ ~ri.byte_sel /\ ~ri.addr_incr /\ stored = <<>>
    BY DEF Init, Reset
  <2>3. Latched = 0
    BY <2>2, LatchedIs DEF Fifteen
  <2>4. Joined15(ctr) = 0
    BY <2>1 DEF Joined15
  <2> QED BY <2>2, <2>3, <2>4 DEF Port!Init
<1>2. IInv /\ [Next]_vars => IInv' /\ [Port!Next]_(Port!portVars)
  <2> SUFFICES ASSUME IInv, [Next]_vars PROVE IInv' /\ [Port!Next]_(Port!portVars)
    OBVIOUS
  <2>1. CASE Clock
    BY <2>1, ClockStep
  <2>2. ASSUME UNCHANGED <<ri, ctr, last_a, stored>> PROVE UNCHANGED Port!portVars
    <3>1. /\ Latched' = Latched /\ PortV' = PortV /\ PortBuf' = PortBuf
      BY <2>2 DEF Latched, PortV, PortBuf, vram_d_in, vram_a_out
    <3> QED BY <2>2, <3>1 DEF Port!portVars, PortV, PortBuf
  <2>3. ASSUME NEW acc \in Accesses, Start(acc) PROVE IInv' /\ UNCHANGED Port!portVars
    BY <2>2, <2>3, StartStep
  <2>4. CASE UNCHANGED vars
    <3>1. UNCHANGED <<ri, ctr, last_a, stored>> /\ UNCHANGED <<clks, access>>
      BY <2>4 DEF vars
    <3>2. IInv'
      BY <3>1 DEF IInv, LatchesOK, CountersOK, AccessOK, Crosses, vram_a_out
    <3> QED BY <2>2, <3>1, <3>2
  <2> QED BY <2>1, <2>3, <2>4 DEF Next
<1> QED BY <1>1, <1>2, Initially, PTL DEF Spec, ImplementsVideoPort, Port!Spec

================================================================================
