-------------------------------- MODULE CpuProofs ------------------------------
(***************************************************************************)
(* Two things that hold of cpu.v for every program, whatever interrupts,   *)
(* holds and debugger do: registers and memory keep bytes, and a store to  *)
(* an address that a program has chosen follows a read.                    *)
(***************************************************************************)
EXTENDS Cpu, TLAPS

Bytes == 0 .. 255
Bits  == 0 .. 1

--------------------------------------------------------------------------------
(* Bytes. *)

LEMMA BitIsBit ==
  ASSUME NEW v \in Int
  PROVE  /\ Bit(v, 0) \in Bits /\ Bit(v, 1) \in Bits /\ Bit(v, 2) \in Bits /\ Bit(v, 3) \in Bits
         /\ Bit(v, 5) \in Bits /\ Bit(v, 6) \in Bits /\ Bit(v, 7) \in Bits
BY DEF Bit, Bits

LEMMA LogicBytes ==
  /\ \A D : AndAll(D) \in Bytes
  /\ \A x, y : BitAnd(x, y) \in Bytes /\ BitOr(x, y) \in Bytes /\ BitXor(x, y) \in Bytes
<1>1. ASSUME NEW D PROVE AndAll(D) \in Bytes
  BY DEF AndAll, BitsWhere, Bytes
<1>2. ASSUME NEW x, NEW y
      PROVE  BitAnd(x, y) \in Bytes /\ BitOr(x, y) \in Bytes /\ BitXor(x, y) \in Bytes
  <2>1. BitAnd(x, y) \in Bytes
    BY <1>1 DEF BitAnd
  <2>2. BitOr(x, y) \in Bytes
    BY DEF BitOr, BitsWhere, Bytes
  <2>3. BitXor(x, y) \in Bytes
    BY DEF BitXor, BitsWhere, Bytes
  <2> QED BY <2>1, <2>2, <2>3
<1> QED BY <1>1, <1>2

--------------------------------------------------------------------------------
(* Every register holds a byte, or a bit. *)

RegisterTypes ==
  [ac : Bytes, x : Bytes, y : Bytes, s : Bytes, c : Bits, d : Bits, i : Bits, n : Bits, v : Bits, z : Bits,
   abh : Bytes, abl : Bytes, acr : Bits, ai : Bytes, bi : Bytes, dor : Bytes, ir : Bytes, t : Nat,
   pchs : Bytes, pcls : Bytes]

LatchTypes == [pch : Bytes, pcl : Bytes, dl : Bytes, pd : Bytes, add : Bytes]

TypeOK ==
  /\ r \in RegisterTypes
  /\ l \in LatchTypes
  /\ \A a \in DOMAIN mem : mem[a] \in Bytes

LEMMA OnUnion ==
  ASSUME NEW signals, NEW A, NEW B
  PROVE  On(signals, A \cup B) <=> On(signals, A) \/ On(signals, B)
BY DEF On

LEMMA AluTypes ==
  ASSUME TypeOK
  PROVE  Alu(ctl, r, l).add \in Bytes /\ Alu(ctl, r, l).acr \in Bits /\ Alu(ctl, r, l).avr \in Bits
<1> DEFINE sum == r.ai + r.bi + addc(ctl, r)
           Typed(out) == out.add \in Bytes /\ out.acr \in Bits /\ out.avr \in Bits
           Logic == {"and_op", "bit_op", "eor_op", "ora_op"}
           anded == [add |-> BitAnd(r.ai, r.bi), acr |-> 0, avr |-> 0]
           xored == [add |-> BitXor(r.ai, r.bi), acr |-> 0, avr |-> 0]
           ored  == [add |-> BitOr(r.ai, r.bi), acr |-> 0, avr |-> 0]
           added == [add |-> sum % 256, acr |-> sum \div 256,
                     avr |-> (Bit(r.ai, 7) + Bit(r.bi, 7) + Bit(sum % 256, 7) + sum \div 256) % 2]
           right == [add |-> 128 * addc(ctl, r) + r.bi \div 2, acr |-> r.bi % 2, avr |-> 0]
           kept  == [add |-> l.add, acr |-> 0, avr |-> 0]
<1>1. /\ r.ai \in Bytes /\ r.bi \in Bytes /\ r.c \in Bits /\ l.add \in Bytes
  BY DEF TypeOK, RegisterTypes, LatchTypes
<1>2. addc(ctl, r) \in Bits
  BY <1>1 DEF addc, Bits
<1>3. sum \in 0 .. 511
  <2>1. \A a, b \in Bytes, carry \in Bits : a + b + carry \in 0 .. 511
    BY DEF Bytes, Bits
  <2> QED BY <2>1, <1>1, <1>2
<1>4. sum % 256 \in Bytes /\ sum \div 256 \in Bits
  <2>1. \A q \in 0 .. 511 : q % 256 \in 0 .. 255 /\ q \div 256 \in 0 .. 1
    OBVIOUS
  <2> QED BY <2>1, <1>3 DEF Bytes, Bits
<1>5. Typed(anded) /\ Typed(xored) /\ Typed(ored) /\ Typed(kept)
  BY <1>1, LogicBytes DEF Bits
<1> HIDE DEF sum
<1>6. Typed(added)
  <2>1. Bit(r.ai, 7) \in Bits /\ Bit(r.bi, 7) \in Bits /\ Bit(sum % 256, 7) \in Bits
    BY <1>1, <1>4, BitIsBit DEF Bytes
  <2>2. \A q \in Int : q % 2 \in Bits
    BY DEF Bits
  <2>3. Bit(r.ai, 7) + Bit(r.bi, 7) + Bit(sum % 256, 7) + sum \div 256 \in Int
    BY <2>1, <1>4 DEF Bits
  <2> QED BY <2>2, <2>3, <1>4
<1>7. Typed(right)
  <2>1. r.bi \div 2 \in 0 .. 127 /\ r.bi % 2 \in Bits
    BY <1>1 DEF Bytes, Bits
  <2>2. 128 * addc(ctl, r) + r.bi \div 2 \in Bytes
    BY <2>1, <1>2 DEF Bytes, Bits
  <2> QED BY <2>1, <2>2 DEF Bits
<1> DEFINE P1 == On(ctl, {"and_op", "bit_op"})
           P2 == On(ctl, {"eor_op"})
           P3 == On(ctl, {"ora_op"})
           P4 == On(ctl, Sums)
           P5 == On(ctl, ShiftsRight)
           P6 == ~On(ctl, Sums \cup ShiftsRight \cup Logic)
<1>8. P1 \/ P2 \/ P3 \/ P4 \/ P5 \/ P6
  <2>1. On(ctl, (Sums \cup ShiftsRight) \cup Logic) <=> On(ctl, Sums \cup ShiftsRight) \/ On(ctl, Logic)
    BY OnUnion
  <2>2. On(ctl, Sums \cup ShiftsRight) <=> P4 \/ P5
    BY OnUnion
  <2>3. On(ctl, Logic) => P1 \/ P2 \/ P3
    BY DEF On
  <2> HIDE DEF P1, P2, P3, P4, P5, Logic
  <2> QED BY <2>1, <2>2, <2>3
<1>9. Alu(ctl, r, l) =
        CASE P1 -> anded [] P2 -> xored [] P3 -> ored [] P4 -> added [] P5 -> right [] P6 -> kept
  BY DEF Alu, sum
<1> HIDE DEF P1, P2, P3, P4, P5, P6, Typed, anded, xored, ored, added, right, kept
<1>10. Typed(Alu(ctl, r, l))
  BY <1>5, <1>6, <1>7, <1>8, <1>9
<1> QED BY <1>10 DEF Typed

LEMMA AdlTypes == ASSUME TypeOK PROVE adl(ctl, r, l) \in Bytes
<1>1. l.add \in Bytes /\ l.dl \in Bytes /\ l.pcl \in Bytes /\ r.s \in Bytes
  BY DEF TypeOK, RegisterTypes, LatchTypes
<1> DEFINE FromAdd == {"aluinc_to_abl", "aluinc_to_bi", "alusum_to_abl", "alusum_to_bi", "alusum_to_pcl"}
           FromS   == {"s_to_abl", "s_to_bi", "s_to_pcl"}
           P1 == On(ctl, FromAdd)
           P2 == "dl_to_abl" \in ctl
           P3 == On(ctl, PrgByte \cup {"pcl_to_bi"})
           P4 == On(ctl, FromS)
           P5 == ~On(ctl, {"aluinc_to_abl", "aluinc_to_bi", "alusum_to_abl", "alusum_to_bi", "alusum_to_pcl",
                           "dl_to_abl", "pcl_to_bi", "s_to_abl", "s_to_bi", "s_to_pcl"} \cup PrgByte)
           vector == AllOnes - (IF On(ctl, {"fa_to_abl", "fc_to_abl", "fe_to_abl"}) THEN 1 ELSE 0)
                             - (IF On(ctl, {"fc_to_abl", "fd_to_abl"}) THEN 2 ELSE 0)
                             - (IF On(ctl, {"fa_to_abl", "fb_to_abl"}) THEN 4 ELSE 0)
<1>2. vector \in Bytes
  BY DEF AllOnes, Bytes
<1>3. P1 \/ P2 \/ P3 \/ P4 \/ P5
  BY DEF On
<1>4. adl(ctl, r, l) = CASE P1 -> l.add [] P2 -> l.dl [] P3 -> l.pcl [] P4 -> r.s [] P5 -> vector
  BY DEF adl
<1> HIDE DEF P1, P2, P3, P4, P5, vector
<1> QED BY <1>1, <1>2, <1>3, <1>4

BusTypes == [adl : Bytes, adh : Bytes, db : Bytes, sb : Bytes]
AluOut   == [add : Bytes, acr : Bits, avr : Bits]

LEMMA BusesTyped == ASSUME TypeOK PROVE Buses(ctl, r, l, irq.sel) \in BusTypes
<1>1. adh_in(ctl, l) \in Bytes
  BY DEF TypeOK, adh_in, LatchTypes, AllOnes, Bytes
<1>2. db_in(ctl, r, l, Status(r, irq.sel)) \in Bytes /\ sb_in(ctl, r, l) \in Bytes
  BY LogicBytes DEF db_in, sb_in
<1> QED
  BY <1>1, <1>2, LogicBytes, AdlTypes DEF Buses, BusTypes

(* What is latched on phase 0. *)
LEMMA LatchesTyped ==
  ASSUME r \in RegisterTypes, l \in LatchTypes, NEW bus \in BusTypes, NEW alu,
         alu.acr \in Bits, alu.avr \in Bits,
         NEW opcode \in Bytes, NEW cycle \in Nat
  PROVE  Latches(ctl, r, l, bus, alu, opcode, cycle) \in RegisterTypes
<1> DEFINE next == Latches(ctl, r, l, bus, alu, opcode, cycle)
<1>1. /\ bus.adl \in Bytes /\ bus.adh \in Bytes /\ bus.db \in Bytes /\ bus.sb \in Bytes
  BY DEF BusTypes
<1>2. /\ Bit(bus.db, 0) \in Bits /\ Bit(bus.db, 1) \in Bits /\ Bit(bus.db, 2) \in Bits
      /\ Bit(bus.db, 3) \in Bits /\ Bit(bus.db, 6) \in Bits /\ Bit(bus.db, 7) \in Bits
      /\ Bit(r.ir, 5) \in Bits
  BY <1>1, BitIsBit DEF RegisterTypes, Bytes
<1>3. /\ (IF bus.db = 0 THEN 1 ELSE 0) \in Bits /\ AllOnes - bus.db \in Bytes
      /\ 0 \in Bytes /\ 0 \in Bits
  BY <1>1 DEF AllOnes, Bytes, Bits
<1>4. /\ next.ac \in Bytes /\ next.x \in Bytes /\ next.y \in Bytes /\ next.s \in Bytes
      /\ next.abh \in Bytes /\ next.abl \in Bytes /\ next.dor \in Bytes
      /\ next.pchs \in Bytes /\ next.pcls \in Bytes
  BY <1>1 DEF Latches, Latched, RegisterTypes, LatchTypes
<1>5. next.ai \in Bytes /\ next.bi \in Bytes
  BY <1>1, <1>3 DEF Latches, Latched, RegisterTypes
<1>6. next.c \in Bits /\ next.d \in Bits /\ next.i \in Bits /\ next.n \in Bits
  BY <1>2 DEF Latches, Latched, RegisterTypes
<1>7. next.v \in Bits /\ next.z \in Bits
  BY <1>2, <1>3 DEF Latches, Latched, RegisterTypes
<1>8. next.acr \in Bits /\ next.ir = opcode /\ next.t = cycle
  BY DEF Latches
<1>9. next = [ac |-> next.ac, x |-> next.x, y |-> next.y, s |-> next.s, c |-> next.c, d |-> next.d,
              i |-> next.i, n |-> next.n, v |-> next.v, z |-> next.z,
              abh |-> next.abh, abl |-> next.abl, acr |-> next.acr, ai |-> next.ai, bi |-> next.bi,
              dor |-> next.dor, ir |-> next.ir, t |-> next.t, pchs |-> next.pchs, pcls |-> next.pcls]
  BY DEF Latches
<1> HIDE DEF next
<1>10. next \in RegisterTypes
  BY <1>4, <1>5, <1>6, <1>7, <1>8, <1>9 DEF RegisterTypes
<1> QED BY <1>10 DEF next

LEMMA Phase1Types ==
  ASSUME TypeOK, NEW opcode \in Bytes, NEW cycle \in Nat
  PROVE  Phase1Registers(ctl, r, l, irq.sel, opcode, cycle) \in RegisterTypes
BY BusesTyped, AluTypes, LatchesTyped DEF TypeOK, Phase1Registers

--------------------------------------------------------------------------------
(* Words of two bytes. *)

LEMMA UpTo ==
  ASSUME NEW n \in Int
  PROVE  \A a : a \in 0 .. n <=> a \in Int /\ 0 <= a /\ a <= n
OBVIOUS

LEMMA AddressRange == \A a : a \in Addresses <=> a \in Int /\ 0 <= a /\ a <= 65535
<1> DEFINE known == Addresses
<1>1. \A a : a \in known <=> a \in Int /\ 0 <= a /\ a <= 256 * 256 - 1
  <2>1. 256 * 256 - 1 \in Int
    OBVIOUS
  <2> QED BY <2>1, UpTo, Zenon DEF Addresses
<1> HIDE DEF known
<1>2. 256 * 256 - 1 = 65535
  OBVIOUS
<1>3. \A a : a \in known <=> a \in Int /\ 0 <= a /\ a <= 65535
  BY <1>1, <1>2
<1> QED BY <1>3 DEF known

LEMMA WordRange ==
  ASSUME NEW hi \in Bytes, NEW lo \in Bytes
  PROVE  Word(hi, lo) \in Addresses
<1>1. hi \in Int /\ lo \in Int /\ 0 <= hi /\ hi <= 255 /\ 0 <= lo /\ lo <= 255
  BY DEF Bytes
<1>2. Word(hi, lo) \in Int /\ 0 <= Word(hi, lo) /\ Word(hi, lo) <= 65535
  BY <1>1 DEF Word
<1> QED BY <1>2, AddressRange

LEMMA WordHalves ==
  ASSUME NEW pc \in Addresses
  PROVE  pc \div 256 \in Bytes /\ pc % 256 \in Bytes
<1>1. pc \in Int /\ 0 <= pc /\ pc < 65536
  BY AddressRange
<1>2. pc \div 256 \in Int /\ 0 <= pc \div 256
  BY <1>1
<1>3. pc \div 256 < 256
  BY <1>1
<1>4. pc % 256 \in 0 .. 255
  BY <1>1
<1> QED BY <1>2, <1>3, <1>4 DEF Bytes

LEMMA AddressNat == \A a \in Addresses : a \in Nat
BY AddressRange

LEMMA LowWord == \A q \in Nat : q % 65536 \in Addresses
<1>1. \A q \in Nat : q % 65536 \in Int /\ 0 <= q % 65536 /\ q % 65536 <= 65535
  OBVIOUS
<1> QED BY <1>1, AddressRange

(* The byte on the data bus. *)
LEMMA DataTyped == ASSUME TypeOK PROVE d_in \in Bytes
<1>1. r.abh \in Bytes /\ r.abl \in Bytes
  BY DEF TypeOK, RegisterTypes
<1>2. a_out \in Addresses
  BY <1>1, WordRange DEF a_out
<1>3. Background(a_out) \in Bytes
  BY <1>2, ScenesAssumption DEF ScenesAssumption, Bytes
<1> QED
  BY <1>3 DEF d_in, TypeOK

(* What is latched in the middle of a cycle. *)
LEMMA Phase2Types ==
  ASSUME TypeOK, NEW increment \in BOOLEAN
  PROVE  Phase2Registers(ctl, r, l, d_in, increment) \in LatchTypes
<1> DEFINE one == IF increment THEN 1 ELSE 0
           pc  == (Word(r.pchs, r.pcls) + one) % 65536
<1>1. r.pchs \in Bytes /\ r.pcls \in Bytes /\ l.dl \in Bytes /\ l.pd \in Bytes
  BY DEF TypeOK, RegisterTypes, LatchTypes
<1>2. pc \in Addresses
  <2>1. Word(r.pchs, r.pcls) \in Addresses
    BY <1>1, WordRange
  <2>2. Word(r.pchs, r.pcls) + one \in Nat
    <3>1. Word(r.pchs, r.pcls) \in Nat
      BY <2>1, AddressNat
    <3>2. one \in Nat
      OBVIOUS
    <3> HIDE DEF one
    <3> QED BY <3>1, <3>2
  <2> HIDE DEF one
  <2> QED BY <2>2, LowWord
<1> HIDE DEF pc
<1>3. pc \div 256 \in Bytes /\ pc % 256 \in Bytes
  BY <1>2, WordHalves
<1>4. Phase2Registers(ctl, r, l, d_in, increment) =
        [pch |-> pc \div 256, pcl |-> pc % 256,
         dl |-> IF "write" \in ctl THEN l.dl ELSE d_in,
         pd |-> IF "write" \in ctl THEN l.pd ELSE d_in,
         add |-> Alu(ctl, r, l).add]
  BY DEF Phase2Registers, pc, one
<1> QED
  BY <1>1, <1>3, <1>4, DataTyped, AluTypes DEF LatchTypes

--------------------------------------------------------------------------------
(* Every step keeps the types. *)

LEMMA InitTypes == Init => TypeOK
<1> SUFFICES ASSUME NEW scene \in Scenes,
                    r = [ac |-> scene.ac, x |-> scene.x, y |-> scene.y, s |-> 255,
                         c |-> scene.c, d |-> 0, i |-> 0, n |-> 0, v |-> 0, z |-> 0,
                         abh |-> scene.pc \div 256, abl |-> scene.pc % 256,
                         acr |-> 0, ai |-> 0, bi |-> 0, dor |-> 0, ir |-> \hEA, t |-> 0,
                         pchs |-> scene.pc \div 256, pcls |-> scene.pc % 256],
                    l = [pch |-> scene.pc \div 256, pcl |-> scene.pc % 256, dl |-> 0, pd |-> 0, add |-> 0],
                    mem = scene.mem
             PROVE  TypeOK
  BY DEF Init
<1>1. /\ scene.pc \div 256 \in Bytes /\ scene.pc % 256 \in Bytes
      /\ scene.ac \in Bytes /\ scene.x \in Bytes /\ scene.y \in Bytes /\ scene.c \in Bits
  BY ScenesAssumption, WordHalves DEF ScenesAssumption, Bytes, Bits
<1>2. 0 \in Bytes /\ 255 \in Bytes /\ \hEA \in Bytes /\ 0 \in Bits /\ 0 \in Nat
  BY DEF Bytes, Bits
<1>3. r \in RegisterTypes
  BY <1>1, <1>2 DEF RegisterTypes
<1>4. l \in LatchTypes
  BY <1>1, <1>2 DEF LatchTypes
<1>5. \A a \in DOMAIN mem : mem[a] \in Bytes
  BY ScenesAssumption DEF ScenesAssumption, Bytes
<1> QED BY <1>3, <1>4, <1>5 DEF TypeOK

LEMMA NextCycleNat ==
  ASSUME NEW i, NEW t \in Nat, NEW p, NEW carry, NEW sign
  PROVE  d_t(i, t, p, carry, sign) \in Nat
BY DEF d_t

LEMMA ClockTypes == ASSUME TypeOK, Clock PROVE TypeOK'
<1>1. r \in RegisterTypes /\ l \in LatchTypes /\ \A a \in DOMAIN mem : mem[a] \in Bytes
  BY DEF TypeOK
<1>2. CASE Latch
  <2>1. r' = Phase1Registers(ctl, r, l, irq.sel, d_ir, nextT) /\ l' = l /\ mem' = mem
    BY <1>2 DEF Latch
  <2>2. d_ir \in Bytes
    BY <1>1 DEF d_ir, RegisterTypes, LatchTypes, Bytes
  <2>3. nextT \in Nat
    BY <1>1, NextCycleNat DEF nextT, RegisterTypes
  <2>4. r' \in RegisterTypes
    BY <2>1, <2>2, <2>3, Phase1Types
  <2> QED BY <1>1, <2>1, <2>4 DEF TypeOK
<1>3. CASE Sample
  <2>1. /\ l' = Phase2Registers(ctl, r, l, d_in, i_pc) /\ r' = r
        /\ mem' = IF "write" \in ctl THEN Written(a_out, r.dor) ELSE mem
    BY <1>3 DEF Sample
  <2>2. l' \in LatchTypes
    BY <2>1, Phase2Types DEF i_pc
  <2>3. r.dor \in Bytes
    BY <1>1 DEF RegisterTypes
  <2>4. \A a \in DOMAIN mem' : mem'[a] \in Bytes
    BY <1>1, <2>1, <2>3 DEF Written
  <2> QED BY <1>1, <2>1, <2>2, <2>4 DEF TypeOK
<1>4. CASE Wait
  BY <1>4 DEF Wait, TypeOK
<1> QED BY <1>2, <1>3, <1>4 DEF Clock

LEMMA WriteRegisterTypes ==
  ASSUME TypeOK, NEW sel, NEW v \in Bytes, sel \in {"AC", "X", "Y", "P"},
         WriteRegister(sel, v), mem' = mem
  PROVE  TypeOK'
<1>1. l' = l /\ r \in RegisterTypes
  BY DEF WriteRegister, TypeOK
<1>2. /\ Bit(v, 0) \in Bits /\ Bit(v, 1) \in Bits /\ Bit(v, 2) \in Bits
      /\ Bit(v, 3) \in Bits /\ Bit(v, 6) \in Bits /\ Bit(v, 7) \in Bits
  BY BitIsBit DEF Bytes
<1>3. r' \in RegisterTypes
  <2>1. CASE sel = "AC"
    BY <2>1, <1>1 DEF WriteRegister, RegisterTypes
  <2>2. CASE sel = "X"
    BY <2>2, <1>1 DEF WriteRegister, RegisterTypes
  <2>3. CASE sel = "Y"
    BY <2>3, <1>1 DEF WriteRegister, RegisterTypes
  <2>4. CASE sel = "P"
    BY <2>4, <1>1, <1>2 DEF WriteRegister, RegisterTypes
  <2> QED BY <2>1, <2>2, <2>3, <2>4
<1> QED BY <1>1, <1>3 DEF TypeOK

LEMMA HoldTypes == ASSUME TypeOK, Hold PROVE TypeOK'
<1>1. r \in RegisterTypes /\ l \in LatchTypes /\ mem' = mem
  BY DEF TypeOK, Hold
<1>2. CASE UNCHANGED <<r, l>>
  BY <1>1, <1>2 DEF TypeOK
<1>3. ASSUME NEW sel \in {"PCH", "PCL"}, NEW v \in Bytes, WritePc(sel, v)
      PROVE  TypeOK'
  <2>1. r' \in RegisterTypes /\ l' \in LatchTypes
    BY <1>1, <1>3 DEF WritePc, RegisterTypes, LatchTypes
  <2> QED BY <1>1, <2>1 DEF TypeOK
<1>4. \A w \in DbgWrites :
        w[2] \in Bytes /\ w[1] \in {"PCH", "PCL"} \cup {"AC", "X", "Y", "P"}
  BY DEF DbgWrites, Bytes
<1>5. ASSUME NEW w \in DbgWrites,
             \/ w[1] \in {"PCL", "PCH"} /\ WritePc(w[1], w[2])
             \/ w[1] \notin {"PCL", "PCH"} /\ WriteRegister(w[1], w[2])
      PROVE  TypeOK'
  BY <1>1, <1>3, <1>4, <1>5, WriteRegisterTypes
<1> QED BY <1>2, <1>5 DEF Hold

(* Registers and memory hold bytes, flags bits, whatever the program. *)
THEOREM TypeCorrect == Spec => []TypeOK
<1>1. TypeOK /\ [Next]_cpuVars => TypeOK'
  <2> SUFFICES ASSUME TypeOK, [Next]_cpuVars PROVE TypeOK'
    OBVIOUS
  <2>1. CASE Clock
    BY <2>1, ClockTypes
  <2>2. CASE Hold
    BY <2>2, HoldTypes
  <2>3. ASSUME NEW line, Fall(line) \/ Rise(line) PROVE TypeOK'
    BY <2>3 DEF Fall, Rise, TypeOK
  <2>4. CASE UNCHANGED cpuVars
    BY <2>4 DEF cpuVars, TypeOK
  <2> QED BY <2>1, <2>2, <2>3, <2>4 DEF Next
<1> QED BY InitTypes, <1>1, PTL DEF Spec

--------------------------------------------------------------------------------
(* Which operations come with which addressing modes. *)

DataModes == {"IMM", "ZP", "ZPX", "ZPY", "ABS", "ABSX", "ABSY", "INDX", "INDY"}
AluOps    == {"ADC", "SBC", "AND", "EOR", "ORA", "BIT", "CMP", "CPX", "CPY"}
LoadOps   == {"LDA", "LDX", "LDY"}
StoreOps  == {"STA", "STX", "STY", "SAX"}
MemOps    == {"ASL", "LSR", "ROL", "ROR", "DEC", "INC"}

Computes(op, mode) == mode \in DataModes /\ op \in AluOps \cup LoadOps
Writing(op, mode)  == mode \in DataModes \ {"IMM"} /\ op \in StoreOps \cup MemOps
Jumps(op, mode)    == mode \in {"ABS", "IND"} /\ op = "JMP"
Shifts(op, mode)   == mode = "ACC" /\ op \in {"ASL", "LSR", "ROL", "ROR"}
Plain(op, mode)    == mode \in {"REL", "IMP"} /\ op \in DOMAIN Single \cup {"none"}

KindOK(op, mode) ==
  Computes(op, mode) \/ Writing(op, mode) \/ Jumps(op, mode) \/ Shifts(op, mode) \/ Plain(op, mode)

LEMMA GroupOneKinds ==
  ASSUME NEW e \in Grouped(GroupOne, GroupOneModes) \ {<<"STA", "IMM", \h89>>}
  PROVE  KindOK(e[1], e[2])
<1>1. PICK o \in DOMAIN GroupOne, m \in DOMAIN GroupOneModes : e = <<o, m, GroupOne[o] + GroupOneModes[m]>>
  BY DEF Grouped
<1>2. /\ e[1] = o /\ e[2] = m
      /\ o \in {"ORA", "AND", "EOR", "ADC", "STA", "LDA", "CMP", "SBC"}
      /\ m \in {"INDX", "ZP", "IMM", "ABS", "INDY", "ZPX", "ABSY", "ABSX"}
  BY <1>1 DEF GroupOne, GroupOneModes
<1>3. ~(o = "STA" /\ m = "IMM")
  BY <1>1 DEF GroupOne, GroupOneModes
<1> QED
  BY <1>2, <1>3 DEF KindOK, Computes, Writing, DataModes, AluOps, LoadOps, StoreOps

LEMMA GroupTwoKinds ==
  ASSUME NEW e \in Grouped(GroupTwo, GroupTwoModes) \ {<<"DEC", "ACC", \hCA>>, <<"INC", "ACC", \hEA>>}
  PROVE  KindOK(e[1], e[2])
<1>1. PICK o \in DOMAIN GroupTwo, m \in DOMAIN GroupTwoModes : e = <<o, m, GroupTwo[o] + GroupTwoModes[m]>>
  BY DEF Grouped
<1>2. /\ e[1] = o /\ e[2] = m
      /\ o \in MemOps
      /\ m \in {"ZP", "ACC", "ABS", "ZPX", "ABSX"}
  BY <1>1 DEF GroupTwo, GroupTwoModes, MemOps
<1>3. ~(o \in {"DEC", "INC"} /\ m = "ACC")
  BY <1>1 DEF GroupTwo, GroupTwoModes
<1> QED
  BY <1>2, <1>3 DEF KindOK, Writing, Shifts, DataModes, MemOps

LEMMA OtherKinds ==
  ASSUME NEW e \in Others
  PROVE  KindOK(e[1], e[2])
BY DEF Others, KindOK, Computes, Writing, Jumps, DataModes, AluOps, LoadOps, StoreOps

LEMMA OpcodeKinds == ASSUME NEW e \in Opcodes PROVE KindOK(e[1], e[2])
<1>1. CASE e \in {<<o, IF o \in Branches THEN "REL" ELSE "IMP", Single[o]>> : o \in DOMAIN Single}
  BY <1>1 DEF KindOK, Plain
<1> QED
  BY <1>1, GroupOneKinds, GroupTwoKinds, OtherKinds DEF Opcodes

(* What a byte means as an opcode. *)
LEMMA InstructionKinds ==
  ASSUME NEW b \in Bytes
  PROVE  KindOK(Instruction[b].op, Instruction[b].mode)
<1>1. CASE \E e \in Opcodes : e[3] = b
  <2> DEFINE e == CHOOSE e \in Opcodes : e[3] = b
  <2>1. e \in Opcodes
    BY <1>1
  <2>2. Instruction[b] = [op |-> e[1], mode |-> e[2]]
    BY <1>1 DEF Instruction, Bytes
  <2> HIDE DEF e
  <2> QED BY <2>1, <2>2, OpcodeKinds
<1>2. CASE ~ \E e \in Opcodes : e[3] = b
  <2>1. Instruction[b] = [op |-> "none", mode |-> "IMP"]
    BY <1>2 DEF Instruction, Bytes
  <2> QED BY <2>1 DEF KindOK, Plain
<1> QED BY <1>1, <1>2

--------------------------------------------------------------------------------
(* In which cycles an instruction writes. *)

LEMMA Domains ==
  /\ DOMAIN DataCycle = DataModes
  /\ DOMAIN AluOp = AluOps /\ DOMAIN LoadOp = LoadOps /\ DOMAIN ToDor = StoreOps /\ DOMAIN MemOp = MemOps
  /\ DOMAIN AccOp = {"ASL", "LSR", "ROL", "ROR"}
  /\ DOMAIN IndexOp = {"INX", "INY", "DEX", "DEY"}
  /\ DOMAIN RegOp = {"CLC", "CLD", "CLI", "CLV", "SEC", "SED", "SEI",
                      "TAX", "TAY", "TSX", "TXA", "TXS", "TYA"}
BY DEF DataCycle, DataModes, AluOp, AluOps, LoadOp, LoadOps, ToDor, StoreOps, MemOp, MemOps,
       AccOp, IndexOp, RegOp

LEMMA DataCycles ==
  ASSUME NEW mode \in DataModes
  PROVE  DataCycle[mode] \in 1 .. 5 /\ (mode # "IMM" => DataCycle[mode] \in 2 .. 5)
BY DEF DataModes, DataCycle

LEMMA AddressCyclesRead ==
  ASSUME NEW mode \in DataModes, NEW carry, NEW t \in 1 .. DataCycle[mode] - 1
  PROVE  "write" \notin AddressCycles(mode, carry)[t]
<1>1. CASE mode = "IMM"
  BY <1>1 DEF DataCycle
<1>2. CASE mode = "ZP"
  <2>1. t = 1
    BY <1>2 DEF DataCycle
  <2> QED BY <1>2, <2>1 DEF AddressCycles
<1>3. CASE mode \in {"ZPX", "ZPY"}
  <2>1. t \in {1, 2}
    BY <1>3 DEF DataCycle
  <2> QED BY <1>3, <2>1 DEF AddressCycles, Index
<1>4. CASE mode = "ABS"
  <2>1. t \in {1, 2}
    BY <1>4 DEF DataCycle
  <2> QED BY <1>4, <2>1 DEF AddressCycles
<1>5. CASE mode \in {"ABSX", "ABSY"}
  <2>1. t \in {1, 2, 3}
    BY <1>5 DEF DataCycle
  <2> QED BY <1>5, <2>1 DEF AddressCycles, Index
<1>6. CASE mode = "INDX"
  <2>1. t \in {1, 2, 3, 4}
    BY <1>6 DEF DataCycle
  <2> QED BY <1>6, <2>1 DEF AddressCycles
<1>7. CASE mode = "INDY"
  <2>1. t \in {1, 2, 3, 4}
    BY <1>7 DEF DataCycle
  <2> QED BY <1>7, <2>1 DEF AddressCycles
<1> QED BY <1>1, <1>2, <1>3, <1>4, <1>5, <1>6, <1>7 DEF DataModes

(* The only cycles in which an instruction writes. *)
WriteCycle(i, t) ==
  \/ i.op \in StoreOps /\ t = DataCycle[i.mode]
  \/ i.op \in MemOps /\ i.mode \in DataModes /\ t = DataCycle[i.mode] + 2
  \/ i.op \in {"PHA", "PHP"} /\ t = 2
  \/ i.op = "JSR" /\ t \in 3 .. 4
  \/ i.op = "BRK" /\ t \in 2 .. 4

Answers == {"RST", "NMI", "BRK"}

LEMMA OperandWrites ==
  ASSUME NEW i, Computes(i.op, i.mode) \/ Writing(i.op, i.mode),
         NEW t \in Nat, t > 0, t <= LastCycle(i), NEW carry,
         "write" \in WithOperand(i, t, carry)
  PROVE  WriteCycle(i, t)
<1> DEFINE d == DataCycle[i.mode]
<1>1. i.mode \in DataModes /\ d \in 1 .. 5
  BY DataCycles DEF Computes, Writing
<1>2. CASE t < d
  <2>1. t \in 1 .. DataCycle[i.mode] - 1
    BY <1>1, <1>2
  <2>2. "write" \notin AddressCycles(i.mode, carry)[t]
    BY <1>1, <2>1, AddressCyclesRead
  <2>3. \A op \in StoreOps : "write" \notin ToDor[op]
    BY DEF StoreOps, ToDor
  <2> QED BY <1>2, <2>2, <2>3, Domains DEF WithOperand
<1>3. CASE t >= d
  <2> DEFINE n == t - d + 1
  <2>1. n \in Nat /\ n > 0
    BY <1>1, <1>3
  <2>2. "write" \in OperandCycles(i.op)[n]
    BY <1>1, <1>3 DEF WithOperand
  <2>3. CASE i.op \in AluOps
    <3>1. LastCycle(i) = d + 1
      BY <1>1, <2>3, Domains DEF LastCycle, AluOps, MemOps, DataModes, Branches
    <3>2. n \in {1, 2}
      BY <1>1, <2>1, <3>1
    <3>3. OperandCycles(i.op) = << {"load_prg_byte"} \cup AluInputs(i.op), {"load_prg_byte", AluOp[i.op]} >>
      BY <2>3, Domains DEF OperandCycles, AluOps, LoadOps, StoreOps, MemOps
    <3>4. AluOp[i.op] # "write" /\ "write" \notin AluInputs(i.op)
      BY <2>3 DEF AluOp, AluOps, AluInputs
    <3> HIDE DEF n
    <3> QED BY <2>2, <3>2, <3>3, <3>4
  <2>4. CASE i.op \in LoadOps
    <3>1. LastCycle(i) = d
      BY <1>1, <2>4, Domains DEF LastCycle, AluOps, MemOps, LoadOps, DataModes, Branches
    <3>2. n = 1
      BY <1>1, <1>3, <3>1
    <3>3. OperandCycles(i.op) = << {"load_prg_byte", LoadOp[i.op]} >>
      BY <2>4, Domains DEF OperandCycles, AluOps, LoadOps, StoreOps, MemOps
    <3>4. LoadOp[i.op] # "write"
      BY <2>4 DEF LoadOp, LoadOps
    <3> HIDE DEF n
    <3> QED BY <2>2, <3>2, <3>3, <3>4
  <2>5. CASE i.op \in StoreOps
    <3>1. LastCycle(i) = d
      BY <1>1, <2>5, Domains DEF LastCycle, AluOps, MemOps, StoreOps, DataModes, Branches
    <3> QED BY <1>1, <1>3, <2>5, <3>1 DEF WriteCycle
  <2>6. CASE i.op \in MemOps
    <3>1. LastCycle(i) = d + 2
      BY <1>1, <2>6, Domains DEF LastCycle, AluOps, MemOps, DataModes, Branches
    <3>2. n \in {1, 2, 3}
      BY <1>1, <2>1, <3>1
    <3>3. OperandCycles(i.op) = << MemInputs(i.op), {MemOp[i.op]}, {"load_prg_byte", "write"} >>
      BY <2>6, Domains DEF OperandCycles, AluOps, LoadOps, StoreOps, MemOps
    <3>4. MemOp[i.op] # "write" /\ "write" \notin MemInputs(i.op)
      BY <2>6 DEF MemOp, MemOps, MemInputs
    <3>5. n = 3
      <4> HIDE DEF n
      <4> QED BY <2>2, <3>2, <3>3, <3>4
    <3> QED BY <1>1, <2>6, <3>5 DEF WriteCycle
  <2> QED BY <2>3, <2>4, <2>5, <2>6 DEF Computes, Writing
<1> QED BY <1>1, <1>2, <1>3

LEMMA OtherWrites ==
  ASSUME NEW i, Jumps(i.op, i.mode) \/ Shifts(i.op, i.mode) \/ Plain(i.op, i.mode),
         NEW t \in Nat, NEW answer \in Answers, NEW sign,
         t \in DOMAIN WithoutOperand(i, answer, sign),
         "write" \in WithoutOperand(i, answer, sign)[t]
  PROVE  WriteCycle(i, t)
<1> DEFINE cycles == WithoutOperand(i, answer, sign)
<1>1. CASE Shifts(i.op, i.mode)
  <2>1. cycles = << {"ac_to_ai", "ac_to_bi"}, {"load_prg_byte", AccOp[i.op]} >>
    BY <1>1, Domains DEF WithoutOperand, Shifts, Branches
  <2>2. AccOp[i.op] # "write"
    BY <1>1 DEF Shifts, AccOp
  <2> QED BY <2>1, <2>2
<1>2. CASE Jumps(i.op, i.mode)
  <2>1. cycles = JmpCycles(i.mode)
    BY <1>2, Domains DEF WithoutOperand, Jumps, Branches
  <2> QED BY <2>1 DEF JmpCycles
<1>3. CASE Plain(i.op, i.mode)
  <2>1. i.mode # "ACC" /\ i.op # "JMP"
    BY <1>3 DEF Plain, Single
  <2>2. CASE i.op \in DOMAIN IndexOp
    <3>1. cycles = << IndexInputs(i.op), {"load_prg_byte", IndexOp[i.op]} >>
      BY <2>1, <2>2, Domains DEF WithoutOperand, Branches
    <3>2. IndexOp[i.op] # "write" /\ "write" \notin IndexInputs(i.op)
      BY <2>2 DEF IndexOp, IndexInputs
    <3> QED BY <3>1, <3>2
  <2>3. CASE i.op \in DOMAIN RegOp
    <3>1. cycles = << {RegOp[i.op]} >>
      BY <2>1, <2>3, Domains DEF WithoutOperand, Branches
    <3>2. RegOp[i.op] # "write"
      BY <2>3 DEF RegOp
    <3> QED BY <3>1, <3>2
  <2>4. CASE i.op \in Branches
    <3>1. cycles = BranchCycles(sign)
      BY <2>1, <2>4, Domains DEF WithoutOperand, Branches
    <3> QED BY <3>1 DEF BranchCycles
  <2>5. CASE i.op = "JSR"
    <3>1. cycles = JsrCycles
      BY <2>1, <2>5, Domains DEF WithoutOperand, Branches
    <3> QED BY <3>1, <2>5 DEF JsrCycles, WriteCycle
  <2>6. CASE i.op = "RTS"
    <3>1. cycles = RtsCycles
      BY <2>1, <2>6, Domains DEF WithoutOperand, Branches
    <3> QED BY <3>1 DEF RtsCycles
  <2>7. CASE i.op = "RTI"
    <3>1. cycles = RtiCycles
      BY <2>1, <2>7, Domains DEF WithoutOperand, Branches
    <3> QED BY <3>1 DEF RtiCycles
  <2>8. CASE i.op \in {"PHA", "PHP"}
    <3>1. cycles = PushCycles(i.op)
      BY <2>1, <2>8, Domains DEF WithoutOperand, Branches
    <3> QED BY <3>1, <2>8 DEF PushCycles, WriteCycle
  <2>9. CASE i.op \in {"PLA", "PLP"}
    <3>1. cycles = PullCycles(i.op)
      BY <2>1, <2>9, Domains DEF WithoutOperand, Branches
    <3> QED BY <3>1 DEF PullCycles
  <2>10. CASE i.op = "BRK"
    <3>1. cycles = BrkCycles(answer)
      BY <2>1, <2>10, Domains DEF WithoutOperand, Branches
    <3> QED BY <3>1, <2>10 DEF BrkCycles, WriteCycle, Answers
  <2>11. CASE i.op \in {"NOP", "HLT", "none"}
    <3>1. cycles = <<>>
      BY <2>1, <2>11, Domains DEF WithoutOperand, Branches
    <3> QED BY <3>1
  <2>12. i.op \in {"BPL", "BMI", "BVC", "BVS", "BCC", "BCS", "BNE", "BEQ",
                    "BRK", "JSR", "RTI", "RTS", "PHP", "PLP", "PHA", "PLA",
                    "CLC", "SEC", "CLI", "SEI", "CLV", "CLD", "SED",
                    "TXA", "TYA", "TXS", "TAY", "TAX", "TSX",
                    "DEY", "INY", "DEX", "INX", "NOP", "HLT", "none"}
    BY <1>3 DEF Plain, Single
  <2> QED
    BY <2>2, <2>3, <2>4, <2>5, <2>6, <2>7, <2>8, <2>9, <2>10, <2>11, <2>12, Domains DEF Branches
<1> QED BY <1>1, <1>2, <1>3

LEMMA WriteCycles ==
  ASSUME NEW i, KindOK(i.op, i.mode), NEW t \in Nat, t <= LastCycle(i),
         NEW carry, NEW sign, NEW answer \in Answers,
         "write" \in Controls(i, t, carry, sign, answer)
  PROVE  t > 0 /\ WriteCycle(i, t)
<1>1. t > 0
  BY DEF Controls
<1>2. CASE Computes(i.op, i.mode) \/ Writing(i.op, i.mode)
  <2>1. i.mode \in DOMAIN DataCycle /\ i.op # "JMP"
    BY <1>2, Domains DEF Computes, Writing, AluOps, LoadOps, StoreOps, MemOps
  <2>2. "write" \in WithOperand(i, t, carry)
    BY <1>1, <2>1 DEF Controls
  <2> QED BY <1>1, <1>2, <2>2, OperandWrites
<1>3. CASE Jumps(i.op, i.mode) \/ Shifts(i.op, i.mode) \/ Plain(i.op, i.mode)
  <2>1. ~(i.mode \in DOMAIN DataCycle /\ i.op # "JMP")
    BY <1>3, Domains DEF Jumps, Shifts, Plain, DataModes
  <2>2. /\ t \in DOMAIN WithoutOperand(i, answer, sign)
        /\ "write" \in WithoutOperand(i, answer, sign)[t]
    BY <1>1, <2>1 DEF Controls
  <2> QED BY <1>1, <1>3, <2>2, OtherWrites
<1> QED BY <1>1, <1>2, <1>3 DEF KindOK

--------------------------------------------------------------------------------
(* From one cycle to the next. *)

LEMMA LastCycles ==
  ASSUME NEW i, KindOK(i.op, i.mode)
  PROVE  /\ LastCycle(i) \in 1 .. 7
         /\ Prefetches(i) => LastCycle(i) > 1
         /\ \A t \in Nat : \A carry : SkipsCarry(i, t, carry) => t + 2 <= LastCycle(i)
<1>1. CASE Computes(i.op, i.mode)
  <2>1. i.mode \in DataModes /\ DataCycle[i.mode] \in 1 .. 5
    BY <1>1, DataCycles DEF Computes
  <2>2. \A t \in Nat : \A carry : SkipsCarry(i, t, carry) => t + 2 = DataCycle[i.mode]
    BY <2>1 DEF SkipsCarry, DataCycle
  <2>3. CASE i.op \in AluOps
    <3>1. LastCycle(i) = DataCycle[i.mode] + 1
      BY <2>1, <2>3, Domains DEF LastCycle, AluOps, MemOps, DataModes, Branches
    <3> QED BY <2>1, <2>2, <3>1
  <2>4. CASE i.op \in LoadOps
    <3>1. LastCycle(i) = DataCycle[i.mode]
      BY <2>1, <2>4, Domains DEF LastCycle, AluOps, MemOps, LoadOps, DataModes, Branches
    <3>2. ~Prefetches(i)
      BY <2>1, <2>4, Domains DEF Prefetches, AluOps, LoadOps, DataModes
    <3> QED BY <2>1, <2>2, <3>1, <3>2
  <2> QED BY <1>1, <2>3, <2>4 DEF Computes
<1>2. CASE Writing(i.op, i.mode)
  <2>1. i.mode \in DataModes /\ DataCycle[i.mode] \in 1 .. 5 /\ i.op \in StoreOps \cup MemOps
    BY <1>2, DataCycles DEF Writing
  <2>2. LastCycle(i) \in {DataCycle[i.mode], DataCycle[i.mode] + 2}
    BY <2>1, Domains DEF LastCycle, AluOps, MemOps, StoreOps, DataModes, Branches
  <2>3. ~Prefetches(i) /\ \A t \in Nat : \A carry : ~SkipsCarry(i, t, carry)
    BY <2>1, Domains DEF Prefetches, SkipsCarry, AluOps, MemOps, StoreOps, DataModes
  <2> QED BY <2>1, <2>2, <2>3
<1>3. CASE Jumps(i.op, i.mode)
  <2>1. LastCycle(i) \in {2, 4}
    BY <1>3, Domains DEF Jumps, LastCycle, AluOps, MemOps, DataModes, Branches
  <2>2. \A t \in Nat : \A carry : ~SkipsCarry(i, t, carry)
    BY <1>3 DEF Jumps, SkipsCarry
  <2> QED BY <2>1, <2>2
<1>4. CASE Shifts(i.op, i.mode)
  <2>1. LastCycle(i) = 2
    BY <1>4, Domains DEF Shifts, LastCycle, AluOps, MemOps, DataModes, Branches
  <2>2. \A t \in Nat : \A carry : ~SkipsCarry(i, t, carry)
    BY <1>4 DEF Shifts, SkipsCarry
  <2> QED BY <2>1, <2>2
<1>5. CASE Plain(i.op, i.mode)
  <2>1. i.mode \notin DataModes \cup {"ACC"} /\ i.op # "JMP" /\ i.op \notin AluOps
    BY <1>5 DEF Plain, Single, DataModes, AluOps
  <2>2. \A t \in Nat : \A carry : ~SkipsCarry(i, t, carry)
    BY <2>1 DEF SkipsCarry, DataModes
  <2>3. CASE i.op \in DOMAIN IndexOp
    <3>1. LastCycle(i) = 2
      BY <2>1, <2>3, Domains DEF LastCycle, Branches
    <3> QED BY <2>2, <3>1
  <2>4. CASE i.op \in Branches \cup {"PHA", "PHP", "PLA", "PLP"}
    <3>1. LastCycle(i) = 3
      BY <2>1, <2>4, Domains DEF LastCycle, Branches
    <3> QED BY <2>2, <3>1
  <2>5. CASE i.op \in DOMAIN RegOp \cup {"NOP", "HLT", "JSR", "RTI", "RTS", "BRK", "none"}
    <3>1. LastCycle(i) \in {1, 5, 6}
      BY <2>1, <2>5, Domains DEF LastCycle, Branches
    <3>2. ~Prefetches(i)
      BY <2>1, <2>5, Domains DEF Prefetches
    <3> QED BY <2>2, <3>1, <3>2
  <2> QED BY <1>5, <2>3, <2>4, <2>5, Domains DEF Plain, Single, Branches
<1> QED BY <1>1, <1>2, <1>3, <1>4, <1>5 DEF KindOK

(* An instruction never stays in a cycle or goes back to one. *)
LEMMA NextCycle ==
  ASSUME NEW i, KindOK(i.op, i.mode), NEW t \in Nat, t <= LastCycle(i),
         NEW p, NEW carry, NEW sign
  PROVE  LET n == d_t(i, t, p, carry, sign)
         IN  /\ n \in Nat /\ n # t /\ n <= LastCycle(i)
             /\ n > 1 => /\ n > t
                         /\ i.op \in {"BRK", "JSR"} => n = t + 1
<1> DEFINE n == d_t(i, t, p, carry, sign)
           last == LastCycle(i)
<1>1. /\ last \in 1 .. 7
      /\ Prefetches(i) => last > 1
      /\ SkipsCarry(i, t, carry) => t + 2 <= last
  BY LastCycles
<1>2. i.op \in {"BRK", "JSR"} => ~SkipsCarry(i, t, carry)
  BY DEF SkipsCarry
<1> HIDE DEF last
<1>3. CASE t = 0
  <2>1. n = 1
    BY <1>1, <1>3 DEF d_t, last
  <2> QED BY <1>1, <1>3, <2>1 DEF last
<1>4. CASE t = last
  <2>1. n = IF Prefetches(i) THEN 1 ELSE 0
    BY <1>1, <1>4 DEF d_t, last
  <2> QED BY <1>1, <1>4, <2>1 DEF last
<1>5. CASE t > 0 /\ t < last
  <2>1. n \in {0, IF SkipsCarry(i, t, carry) THEN t + 2 ELSE t + 1}
    BY <1>1, <1>5 DEF d_t, last
  <2> HIDE DEF n
  <2>2. CASE SkipsCarry(i, t, carry)
    <3>1. n \in {0, t + 2}
      BY <2>1, <2>2
    <3> QED BY <1>1, <1>2, <1>5, <2>2, <3>1 DEF last, n
  <2>3. CASE ~SkipsCarry(i, t, carry)
    <3>1. n \in {0, t + 1}
      BY <2>1, <2>3
    <3> QED BY <1>1, <1>5, <3>1 DEF last, n
  <2> QED BY <2>2, <2>3
<1> QED BY <1>1, <1>3, <1>4, <1>5 DEF last

--------------------------------------------------------------------------------
(* BRK and JSR write to the stack: the first cycle puts its page on the
   address bus, and it stays there. *)

LEMMA StackControls ==
  ASSUME NEW i, KindOK(i.op, i.mode), i.op \in {"BRK", "JSR"}, NEW t \in 1 .. 3,
         NEW carry, NEW sign, NEW answer \in Answers
  PROVE  Controls(i, t, carry, sign, answer) = IF i.op = "BRK" THEN BrkCycles(answer)[t] ELSE JsrCycles[t]
<1> DEFINE cycles == WithoutOperand(i, answer, sign)
<1>1. i.mode \notin DataModes \cup {"ACC"}
  BY DEF KindOK, Computes, Writing, Jumps, Shifts, Plain, DataModes, AluOps, LoadOps, StoreOps, MemOps
<1>2. cycles = IF i.op = "BRK" THEN BrkCycles(answer) ELSE JsrCycles
  BY <1>1, Domains DEF WithoutOperand, Branches
<1>3. DOMAIN BrkCycles(answer) = 1 .. 6 /\ DOMAIN JsrCycles = 1 .. 5
  BY DEF BrkCycles, JsrCycles
<1>4. t \in DOMAIN cycles /\ t # 0
  BY <1>2, <1>3
<1> QED BY <1>1, <1>2, <1>4, Domains DEF Controls

LEMMA StackPage ==
  ASSUME NEW i, KindOK(i.op, i.mode), i.op \in {"BRK", "JSR"}, NEW t \in 1 .. 3,
         NEW carry, NEW sign, NEW answer \in Answers,
         NEW alu, NEW opcode, NEW cycle,
         t > 1 => r.abh = 1
  PROVE  LET signals == Controls(i, t, carry, sign, answer)
         IN  Latches(signals, r, l, Buses(signals, r, l, answer), alu, opcode, cycle).abh = 1
<1> DEFINE signals == Controls(i, t, carry, sign, answer)
           bus == Buses(signals, r, l, answer)
           Drivers == PrgByte \cup {"aluinc_to_abh", "alusum_to_abh", "dl_to_abh", "ff_to_abh",
                                    "one_to_abh", "zero_to_abh"}
<1>1. Latches(signals, r, l, bus, alu, opcode, cycle).abh = Latched(On(signals, Drivers), bus.adh, r.abh)
  BY DEF Latches
<1>2. CASE t = 1
  <2>1. /\ "one_to_abh" \in signals
        /\ \A s \in {"dl_to_abh", "dl_to_pch", "load_prg_byte", "load_prg_byte_noinc", "zero_to_abh",
                     "aluinc_to_abh", "alusum_to_abh", "alusum_to_pch", "one_to_ai", "one_to_i"} :
             s \notin signals
    BY <1>2, StackControls DEF BrkCycles, JsrCycles
  <2> HIDE DEF signals
  <2>2. ~On(signals, {"dl_to_abh", "dl_to_pch"}) /\ ~On(signals, PrgByte) /\ ~sb_adh(signals)
    BY <2>1 DEF On, PrgByte, sb_adh
  <2>3. On(signals, {"one_to_abh", "one_to_ai", "zero_to_abh"}) /\ On(signals, Drivers)
    BY <2>1 DEF On
  <2>4. adh_in(signals, l) = 1
    BY <2>1, <2>2, <2>3 DEF adh_in, AllOnes
  <2>5. bus.adh = 1
    BY <2>2, <2>4 DEF Buses
  <2> HIDE DEF bus, Drivers
  <2> QED BY <1>1, <2>3, <2>5 DEF Latched, signals, bus
<1>3. CASE t \in {2, 3}
  <2>1. \A s \in Drivers : s \notin signals
    BY <1>3, StackControls DEF BrkCycles, JsrCycles, PrgByte
  <2>2. ~On(signals, Drivers)
    BY <2>1 DEF On
  <2> QED BY <1>1, <1>3, <2>2 DEF Latched
<1> QED BY <1>2, <1>3

--------------------------------------------------------------------------------
(* A store follows a read. *)

CycleOK ==
  /\ r.t <= LastCycle(instruction)
  /\ irq.sel \in Answers
  /\ instruction.op \in {"BRK", "JSR"} /\ r.t \in 2 .. 4 => Stacks

LEMMA InstructionKind == ASSUME TypeOK PROVE KindOK(instruction.op, instruction.mode)
BY InstructionKinds DEF TypeOK, RegisterTypes, instruction

LEMMA InstructionKindAfter ==
  ASSUME TypeOK'
  PROVE  KindOK(instruction'.op, instruction'.mode) /\ LastCycle(instruction') \in 1 .. 7
<1>1. r'.ir \in Bytes
  BY DEF TypeOK, RegisterTypes
<1>2. KindOK(instruction'.op, instruction'.mode)
  BY <1>1, InstructionKinds DEF instruction
<1> QED BY <1>2, LastCycles

LEMMA AnswerKept == ASSUME irq.sel \in Answers PROVE IrqLatches.sel \in Answers
BY DEF IrqLatches, d_irq_sel, Answers

(* What Latch makes of cycle, instruction and stack page. *)
LEMMA LatchStep ==
  ASSUME TypeOK, CycleOK, Latch
  PROVE  /\ r'.t = nextT /\ r'.ir = d_ir
         /\ nextT \in Nat /\ nextT # r.t /\ nextT <= LastCycle(instruction)
         /\ nextT > 1 => nextT > r.t /\ instruction' = instruction
         /\ instruction.op \in {"BRK", "JSR"} /\ nextT \in 2 .. 4 => r'.abh = 1
<1>1. r' = Latches(ctl, r, l, Buses(ctl, r, l, irq.sel), Alu(ctl, r, l), d_ir, nextT)
  BY DEF Latch, Phase1Registers
<1>2. r'.t = nextT /\ r'.ir = d_ir
  BY <1>1 DEF Latches
<1>3. KindOK(instruction.op, instruction.mode) /\ r.t \in Nat /\ r.t <= LastCycle(instruction)
  BY InstructionKind DEF TypeOK, RegisterTypes, CycleOK
<1>4. /\ nextT \in Nat /\ nextT # r.t /\ nextT <= LastCycle(instruction)
      /\ nextT > 1 => nextT > r.t
      /\ nextT > 1 /\ instruction.op \in {"BRK", "JSR"} => nextT = r.t + 1
  BY <1>3, NextCycle DEF nextT
<1>5. nextT > 1 => instruction' = instruction
  <2>1. nextT > 1 => ~begins
    BY <1>4 DEF begins
  <2> QED BY <1>2, <2>1 DEF d_ir, instruction
<1>6. ASSUME instruction.op \in {"BRK", "JSR"}, nextT \in 2 .. 4
      PROVE  r'.abh = 1
  <2>1. r.t \in 1 .. 3
    BY <1>3, <1>4, <1>6
  <2>2. r.t > 1 => r.abh = 1
    BY <1>6, <2>1 DEF CycleOK, Stacks
  <2> QED
    BY <1>1, <1>3, <1>6, <2>1, <2>2, StackPage DEF ctl, CycleOK
<1> QED BY <1>2, <1>4, <1>5, <1>6

LEMMA CycleStep ==
  ASSUME TypeOK, TypeOK', CycleOK, [Next]_cpuVars
  PROVE  CycleOK'
<1>1. KindOK(instruction'.op, instruction'.mode) /\ LastCycle(instruction') \in 1 .. 7
  BY InstructionKindAfter
<1>2. r.t \in Nat /\ irq.sel \in Answers /\ IrqLatches.sel \in Answers
  BY AnswerKept DEF TypeOK, RegisterTypes, CycleOK
<1>3. ASSUME r'.t = r.t, r'.ir = r.ir, r'.abh = r.abh, irq'.sel \in Answers PROVE CycleOK'
  BY <1>3 DEF CycleOK, instruction, Stacks
<1>4. CASE Clock
  <2>1. irq'.sel \in Answers
    BY <1>2, <1>4 DEF Clock
  <2>2. CASE Latch
    <3>1. /\ r'.t = nextT /\ nextT \in Nat /\ nextT <= LastCycle(instruction)
          /\ nextT > 1 => instruction' = instruction
          /\ instruction.op \in {"BRK", "JSR"} /\ nextT \in 2 .. 4 => r'.abh = 1
      BY <2>2, LatchStep
    <3>2. r'.t <= LastCycle(instruction')
      BY <1>1, <3>1
    <3>3. instruction'.op \in {"BRK", "JSR"} /\ r'.t \in 2 .. 4 => r'.abh = 1
      BY <3>1
    <3> QED BY <2>1, <3>2, <3>3 DEF CycleOK, Stacks
  <2>3. CASE Sample \/ Wait
    BY <1>3, <2>1, <2>3 DEF Sample, Wait
  <2> QED BY <1>4, <2>2, <2>3 DEF Clock
<1>5. CASE Hold
  <2>1. irq'.sel \in Answers
    BY <1>2, <1>5 DEF Hold
  <2>2. CASE UNCHANGED r
    BY <1>3, <2>1, <2>2
  <2>3. ASSUME NEW sel, NEW v, WritePc(sel, v) PROVE CycleOK'
    <3>1. r'.t = 0
      BY <2>3 DEF WritePc, TypeOK, RegisterTypes
    <3> QED BY <1>1, <2>1, <3>1 DEF CycleOK
  <2>4. ASSUME NEW sel \in {"AC", "X", "Y", "P"}, NEW v, WriteRegister(sel, v) PROVE CycleOK'
    <3>1. r'.t = r.t /\ r'.ir = r.ir /\ r'.abh = r.abh
      BY <2>4 DEF WriteRegister, TypeOK, RegisterTypes
    <3> QED BY <1>3, <2>1, <3>1
  <2>5. \A w \in DbgWrites : w[1] \in {"PCL", "PCH"} \/ w[1] \in {"AC", "X", "Y", "P"}
    BY DEF DbgWrites
  <2> QED BY <1>5, <2>2, <2>3, <2>4, <2>5 DEF Hold
<1>6. ASSUME NEW line, Fall(line) \/ Rise(line) PROVE CycleOK'
  BY <1>2, <1>3, <1>6 DEF Fall, Rise
<1>7. CASE UNCHANGED cpuVars
  BY <1>2, <1>3, <1>7 DEF cpuVars
<1> QED BY <1>4, <1>5, <1>6, <1>7 DEF Next

LEMMA InitCycle == ASSUME Init PROVE CycleOK
<1>1. r.t = 0 /\ irq.sel = "RST"
  BY DEF Init
<1>2. LastCycle(instruction) \in 1 .. 7
  BY InitTypes, InstructionKind, LastCycles
<1> QED BY <1>1, <1>2 DEF CycleOK, Answers

(* A step into a cycle that writes outside the stack comes from one that
   does not write. *)
LEMMA StoreStep ==
  ASSUME TypeOK, TypeOK', CycleOK, CycleOK', [Next]_cpuVars, r.t # r'.t, Writes', ~Stacks'
  PROVE  ~Writes
<1>1. KindOK(instruction'.op, instruction'.mode)
  BY InstructionKindAfter
<1>2. r'.t \in Nat /\ r.t \in Nat
  BY DEF TypeOK, RegisterTypes
<1>3. r'.t > 0 /\ WriteCycle(instruction', r'.t)
  <2>1. r'.t <= LastCycle(instruction') /\ irq'.sel \in Answers
    BY DEF CycleOK
  <2>2. "write" \in Controls(instruction', r'.t, r'.acr, ai7', irq'.sel)
    BY DEF Writes, ctl
  <2> QED BY <1>1, <1>2, <2>1, <2>2, WriteCycles
<1>4. instruction'.op \notin {"BRK", "JSR"}
  BY <1>3 DEF CycleOK, WriteCycle, StoreOps, MemOps
<1>5. r'.t > 1
  BY <1>1, <1>3, DataCycles DEF WriteCycle, KindOK, Computes, Writing, Jumps, Shifts, Plain, StoreOps,
     AluOps, LoadOps, MemOps, Single
<1>6. Latch
  <2>1. ~(r'.t = r.t \/ r'.t = 0)
    BY <1>3, <1>2
  <2>2. \A sel, v : WritePc(sel, v) => r'.t = 0
    BY DEF WritePc, TypeOK, RegisterTypes
  <2>3. \A sel \in {"AC", "X", "Y", "P"} : \A v : WriteRegister(sel, v) => r'.t = r.t
    BY DEF WriteRegister, TypeOK, RegisterTypes
  <2>4. \A w \in DbgWrites : w[1] \in {"PCL", "PCH"} \/ w[1] \in {"AC", "X", "Y", "P"}
    BY DEF DbgWrites
  <2>5. ~Hold
    BY <2>1, <2>2, <2>3, <2>4 DEF Hold
  <2>6. \A line : ~Fall(line) /\ ~Rise(line)
    BY <2>1 DEF Fall, Rise
  <2>7. Clock
    BY <2>1, <2>5, <2>6 DEF Next, cpuVars
  <2> QED BY <2>1, <2>7 DEF Clock, Sample, Wait
<1>7. instruction' = instruction /\ r'.t > r.t
  BY <1>5, <1>6, LatchStep
<1>8. ASSUME Writes PROVE FALSE
  <2>1. WriteCycle(instruction, r.t)
    <3>1. KindOK(instruction.op, instruction.mode) /\ r.t <= LastCycle(instruction) /\ irq.sel \in Answers
      BY InstructionKind DEF CycleOK
    <3>2. "write" \in Controls(instruction, r.t, r.acr, ai7, irq.sel)
      BY <1>8 DEF Writes, ctl
    <3> QED BY <1>2, <3>1, <3>2, WriteCycles
  <2> QED BY <1>2, <1>3, <1>4, <1>7, <2>1 DEF WriteCycle, StoreOps, MemOps
<1> QED BY <1>8

(* Whatever the program, the interrupts and the debugger, the cycle before a
   write of an instruction is a read, unless it writes to the stack (the
   Decode ROM of cpu.v: no cycle that writes follows another but in BRK and
   JSR). *)
THEOREM StoresAfterReads == Spec => StoresFollowReads
<1> DEFINE Store == r.t # r'.t /\ Writes' /\ ~Stacks' => ~Writes
<1>1. TypeOK /\ TypeOK' /\ CycleOK /\ [Next]_cpuVars => CycleOK'
  BY CycleStep
<1>2. Init => CycleOK
  BY InitCycle
<1>3. TypeOK /\ TypeOK' /\ CycleOK /\ CycleOK' /\ [Next]_cpuVars => [Store]_cpuVars
  BY StoreStep
<1> QED BY <1>1, <1>2, <1>3, TypeCorrect, PTL DEF Spec, StoresFollowReads
================================================================================
