-------------------------------- MODULE CpuData --------------------------------
(***************************************************************************)
(* hw/src/cpu/cpu.v: the data side of the CPU.  The control signals ctl    *)
(* open the drivers of four internal buses, which pull down the bits that  *)
(* any of them has at 0 (or, on ADL and ADH, one of them wins), and the    *)
(* latches of the registers.  r holds the registers that change on phase   *)
(* 0, l those that change in the middle of a cycle; names as in cpu.v,     *)
(* without their q_.                                                       *)
(***************************************************************************)
EXTENDS CpuBytes

Word(hi, lo) == 256 * hi + lo

On(ctl, signals) == ctl \cap signals # {}

(* What a driver puts on a bus: all ones where it does not drive. *)
Drive(on, v) == IF on THEN v ELSE AllOnes

(* The status register; bit 4 tells a BRK from an interrupt. *)
Status(r, irq_sel) ==
  128 * r.n + 64 * r.v + 32 + (IF irq_sel = "BRK" THEN 16 ELSE 0)
    + 8 * r.d + 4 * r.i + 2 * r.z + r.c

--------------------------------------------------------------------------------
(* The adder.  It keeps its last result when it is not used. *)

Sums ==
  {"adc_op", "aluinc_to_abh", "aluinc_to_abl", "aluinc_to_bi", "aluinc_to_s",
   "alusum_to_abh", "alusum_to_abl", "alusum_to_bi", "alusum_to_pch", "alusum_to_pcl",
   "alusum_to_s", "asl_acc_op", "asl_mem_op", "cmp_op", "dec_op", "dex_op", "dey_op",
   "inc_op", "inx_op", "iny_op", "rol_acc_op", "rol_mem_op"}
ShiftsRight == {"lsr_acc_op", "lsr_mem_op", "ror_acc_op", "ror_mem_op"}
TakesCarry == {"adc_op", "rol_acc_op", "rol_mem_op", "ror_acc_op", "ror_mem_op"}
AddsOne ==
  {"aluinc_to_abh", "aluinc_to_abl", "aluinc_to_bi", "aluinc_to_s", "cmp_op",
   "inc_op", "inx_op", "iny_op"}

addc(ctl, r) ==
  IF On(ctl, TakesCarry) THEN r.c ELSE IF On(ctl, AddsOne) THEN 1 ELSE 0

(* Bitwise logic comes first; only one of them is ever on. *)
Alu(ctl, r, l) ==
  LET sum == r.ai + r.bi + addc(ctl, r)
      add == sum % 256
      out == sum \div 256
  IN  CASE On(ctl, {"and_op", "bit_op"}) -> [add |-> BitAnd(r.ai, r.bi), acr |-> 0, avr |-> 0]
        [] On(ctl, {"eor_op"}) -> [add |-> BitXor(r.ai, r.bi), acr |-> 0, avr |-> 0]
        [] On(ctl, {"ora_op"}) -> [add |-> BitOr(r.ai, r.bi), acr |-> 0, avr |-> 0]
        [] On(ctl, Sums) ->
             [add |-> add, acr |-> out,
              avr |-> (Bit(r.ai, 7) + Bit(r.bi, 7) + Bit(add, 7) + out) % 2]
        [] On(ctl, ShiftsRight) ->
             [add |-> 128 * addc(ctl, r) + r.bi \div 2, acr |-> r.bi % 2, avr |-> 0]
        [] ~On(ctl, Sums \cup ShiftsRight \cup {"and_op", "bit_op", "eor_op", "ora_op"}) ->
             [add |-> l.add, acr |-> 0, avr |-> 0]

--------------------------------------------------------------------------------
(* The buses. *)

FromAlu ==
  {"adc_op", "and_op", "asl_acc_op", "asl_mem_op", "bit_op", "cmp_op", "dec_op", "dex_op",
   "dey_op", "eor_op", "inc_op", "inx_op", "iny_op", "lsr_acc_op", "lsr_mem_op", "ora_op",
   "rol_acc_op", "rol_mem_op", "ror_acc_op", "ror_mem_op"}
Loads     == {"lda_op", "ldx_op", "ldy_op"}
Transfers == {"tax_op", "tay_op", "tsx_op", "txa_op", "tya_op"}
PrgByte   == {"load_prg_byte", "load_prg_byte_noinc"}

sb_adh(ctl) == On(ctl, {"aluinc_to_abh", "alusum_to_abh", "alusum_to_pch", "one_to_ai", "one_to_i"})
sb_db(ctl) ==
  On(ctl, FromAlu \cup Loads \cup Transfers \cup
          {"dl_to_s", "dl_to_ai", "one_to_i", "x_to_bi", "x_to_dor", "y_to_bi", "y_to_dor"})

adl(ctl, r, l) ==
  CASE On(ctl, {"aluinc_to_abl", "aluinc_to_bi", "alusum_to_abl", "alusum_to_bi", "alusum_to_pcl"}) -> l.add
    [] "dl_to_abl" \in ctl -> l.dl
    [] On(ctl, PrgByte \cup {"pcl_to_bi"}) -> l.pcl
    [] On(ctl, {"s_to_abl", "s_to_bi", "s_to_pcl"}) -> r.s
    [] ~On(ctl, {"aluinc_to_abl", "aluinc_to_bi", "alusum_to_abl", "alusum_to_bi", "alusum_to_pcl",
                 "dl_to_abl", "pcl_to_bi", "s_to_abl", "s_to_bi", "s_to_pcl"} \cup PrgByte) ->
         AllOnes - (IF On(ctl, {"fa_to_abl", "fc_to_abl", "fe_to_abl"}) THEN 1 ELSE 0)
                 - (IF On(ctl, {"fc_to_abl", "fd_to_abl"}) THEN 2 ELSE 0)
                 - (IF On(ctl, {"fa_to_abl", "fb_to_abl"}) THEN 4 ELSE 0)

adh_in(ctl, l) ==
  IF On(ctl, {"dl_to_abh", "dl_to_pch"}) THEN l.dl
  ELSE IF On(ctl, PrgByte) THEN l.pch
  ELSE AllOnes - (IF "zero_to_abh" \in ctl THEN 1 ELSE 0)
               - (IF On(ctl, {"one_to_abh", "one_to_ai", "zero_to_abh"}) THEN 254 ELSE 0)

db_in(ctl, r, l, p) ==
  AndAll({
    Drive(On(ctl, {"ac_to_bi", "ac_to_dor"}), r.ac),
    Drive(On(ctl, Loads \cup {"dl_to_ai", "dl_to_bi", "dl_to_p", "dl_to_s", "invdl_to_bi"}), l.dl),
    Drive("p_to_dor" \in ctl, p),
    Drive(On(ctl, {"pch_to_bi", "pch_to_dor"}), l.pch),
    Drive("pcl_to_dor" \in ctl, l.pcl)})

sb_in(ctl, r, l) ==
  AndAll({
    Drive(On(ctl, {"ac_to_ai", "tax_op", "tay_op"}), r.ac),
    Drive(On(ctl, FromAlu \cup {"aluinc_to_abh", "aluinc_to_s", "alusum_to_abh",
                                  "alusum_to_pch", "alusum_to_s"}), l.add),
    Drive(On(ctl, {"s_to_ai", "tsx_op"}), r.s),
    Drive(On(ctl, {"txa_op", "txs_op", "x_to_ai", "x_to_bi", "x_to_dor"}), r.x),
    Drive(On(ctl, {"tya_op", "y_to_ai", "y_to_bi", "y_to_dor"}), r.y)})

--------------------------------------------------------------------------------
(* The registers. *)

Latched(on, v, old) == IF on THEN v ELSE old

SetsNZ == FromAlu \cup Loads \cup Transfers
SetsCarry ==
  TakesCarry \cup {"asl_acc_op", "asl_mem_op", "cmp_op", "lsr_acc_op", "lsr_mem_op"}

(* The buses with those that are connected. *)
Buses(ctl, r, l, irq_sel) ==
  LET adhi == adh_in(ctl, l)
      dbi  == db_in(ctl, r, l, Status(r, irq_sel))
      sbi  == sb_in(ctl, r, l)
      all  == AndAll({adhi, sbi, dbi})
      toAdh == sb_adh(ctl)
      toDb  == sb_db(ctl)
  IN  [ adl |-> adl(ctl, r, l),
        adh |-> IF toAdh /\ toDb THEN all ELSE IF toAdh THEN BitAnd(adhi, sbi) ELSE adhi,
        db  |-> IF toAdh /\ toDb THEN all ELSE IF toDb THEN BitAnd(dbi, sbi) ELSE dbi,
        sb  |-> IF toAdh /\ toDb THEN all
                ELSE IF toDb THEN BitAnd(sbi, dbi) ELSE IF toAdh THEN BitAnd(sbi, adhi) ELSE sbi ]

(* What is latched from buses and adder. *)
Latches(ctl, r, l, bus, alu, ir, t) ==
  LET ADL == bus.adl  ADH == bus.adh  DB == bus.db  SB == bus.sb
      pulled == "dl_to_p" \in ctl
      ir5  == Bit(r.ir, 5)
  IN [ ac |-> Latched(On(ctl, {"adc_op", "and_op", "asl_acc_op", "eor_op", "lda_op", "lsr_acc_op",
                               "ora_op", "rol_acc_op", "ror_acc_op", "txa_op", "tya_op"}), SB, r.ac),
       x  |-> Latched(On(ctl, {"dex_op", "inx_op", "ldx_op", "tax_op", "tsx_op"}), SB, r.x),
       y  |-> Latched(On(ctl, {"dey_op", "iny_op", "ldy_op", "tay_op"}), SB, r.y),
       s  |-> Latched(On(ctl, {"aluinc_to_s", "alusum_to_s", "dl_to_s", "txs_op"}), SB, r.s),
       c  |-> Latched(On(ctl, SetsCarry), alu.acr,
                Latched(pulled, Bit(DB, 0), Latched(On(ctl, {"clc_op", "sec_op"}), ir5, r.c))),
       d  |-> Latched(pulled, Bit(DB, 3), Latched(On(ctl, {"cld_op", "sed_op"}), ir5, r.d)),
       i  |-> Latched(pulled \/ "one_to_i" \in ctl, Bit(DB, 2),
                Latched(On(ctl, {"cli_op", "sei_op"}), ir5, r.i)),
       n  |-> Latched(On(ctl, (SetsNZ \ {"bit_op"}) \cup {"dl_bits67_to_p", "dl_to_p"}), Bit(DB, 7), r.n),
       v  |-> Latched("adc_op" \in ctl, alu.avr,
                Latched(On(ctl, {"dl_bits67_to_p", "dl_to_p"}), Bit(DB, 6),
                  Latched("clv_op" \in ctl, 0, r.v))),
       z  |-> Latched(pulled, Bit(DB, 1),
                Latched(On(ctl, SetsNZ), IF DB = 0 THEN 1 ELSE 0, r.z)),
       abh |-> Latched(On(ctl, PrgByte \cup {"aluinc_to_abh", "alusum_to_abh", "dl_to_abh", "ff_to_abh",
                                             "one_to_abh", "zero_to_abh"}), ADH, r.abh),
       abl |-> Latched(On(ctl, PrgByte \cup
                          {"aluinc_to_abl", "alusum_to_abl", "dl_to_abl", "s_to_abl", "fa_to_abl",
                           "fb_to_abl", "fc_to_abl", "fd_to_abl", "fe_to_abl", "ff_to_abl"}), ADL, r.abl),
       acr |-> alu.acr,
       ai  |-> Latched(On(ctl, {"ac_to_ai", "dl_to_ai", "neg1_to_ai", "one_to_ai", "s_to_ai",
                                "x_to_ai", "y_to_ai"}), SB, Latched("zero_to_ai" \in ctl, 0, r.ai)),
       bi  |-> Latched(On(ctl, {"aluinc_to_bi", "alusum_to_bi", "pcl_to_bi", "s_to_bi"}), ADL,
                 Latched(On(ctl, {"ac_to_bi", "dl_to_bi", "neg1_to_bi", "pch_to_bi", "x_to_bi", "y_to_bi"}), DB,
                   Latched("invdl_to_bi" \in ctl, AllOnes - DB, r.bi))),
       dor  |-> DB,
       ir   |-> ir,
       t    |-> t,
       pchs |-> Latched(On(ctl, {"alusum_to_pch", "dl_to_pch"}), ADH, l.pch),
       pcls |-> Latched(On(ctl, {"alusum_to_pcl", "s_to_pcl"}), ADL, l.pcl) ]

(* On phase 0, when the instruction register becomes ir and the cycle t. *)
Phase1Registers(ctl, r, l, irq_sel, ir, t) ==
  Latches(ctl, r, l, Buses(ctl, r, l, irq_sel), Alu(ctl, r, l), ir, t)

(* In the middle of a cycle, with the byte d_in on the bus and the program
   counter to be incremented or not. *)
Phase2Registers(ctl, r, l, d_in, i_pc) ==
  LET pc == (Word(r.pchs, r.pcls) + (IF i_pc THEN 1 ELSE 0)) % 65536
  IN  [ pch |-> pc \div 256,
        pcl |-> pc % 256,
        dl  |-> IF "write" \in ctl THEN l.dl ELSE d_in,
        pd  |-> IF "write" \in ctl THEN l.pd ELSE d_in,
        add |-> Alu(ctl, r, l).add ]
================================================================================
