------------------------------- MODULE LinkProofs ------------------------------
(***************************************************************************)
(* The debugger on its serial line answers every packet right, for every   *)
(* set of packets, width of a byte, size of the memories, depth of the     *)
(* FIFOs and pace of the line.                                             *)
(*                                                                         *)
(* The inductive invariant follows the packet under way: which one it is,  *)
(* how many of its bytes the state machine has taken, what its registers   *)
(* hold at that point, and what the memories still lack of the image that  *)
(* the host already has; and it follows the clocks since the last tick,    *)
(* because the FIFOs are only as good as the distance of their two sides.  *)
(***************************************************************************)
EXTENDS HciLink, HciProofs, SequenceTheorems

LEMMA LinkFacts ==
  /\ TickClks \in Nat /\ TickClks >= 2 * FifoDepth + 4 /\ TickClks > 8
  /\ TxTicks \in Nat /\ TxTicks >= 1
  /\ RxGaps # {} /\ \A g \in RxGaps : g \in Nat /\ g >= TxTicks
  /\ RamSize \in Nat /\ RamSize >= 1 /\ VramSize \in Nat /\ VramSize >= 1
  /\ RegSels \subseteq 0 .. 6
BY LinkAssumption DEF LinkAssumption

--------------------------------------------------------------------------------
(* Sequences of bytes. *)

LEMMA Rejoined ==
  ASSUME NEW S, NEW s \in Seq(S), s # <<>>
  PROVE  <<Head(s)>> \o Tail(s) = s
BY HeadTailProperties, ConcatProperties, SeqEqual

LEMMA FirstOff ==
  ASSUME NEW S, NEW b \in S, NEW s \in Seq(S)
  PROVE  /\ <<b>> \o s \in Seq(S) /\ <<b>> \o s # <<>>
         /\ Head(<<b>> \o s) = b /\ Tail(<<b>> \o s) = s
<1>1. <<b>> \in Seq(S) /\ Len(<<b>>) = 1 /\ <<b>>[1] = b
  OBVIOUS
<1> DEFINE t == <<b>> \o s
<1>2. /\ t \in Seq(S) /\ Len(t) = 1 + Len(s) /\ Len(s) \in Nat
      /\ \A i \in 1 .. 1 + Len(s) : t[i] = IF i <= 1 THEN <<b>>[i] ELSE s[i - 1]
  BY <1>1, ConcatProperties
<1> HIDE DEF t
<1>3. t # <<>> /\ t[1] = b
  BY <1>1, <1>2
<1>4. Head(t) = b
  BY <1>2, <1>3
<1>5. /\ Tail(t) \in Seq(S) /\ Len(Tail(t)) = Len(s)
      /\ \A i \in 1 .. Len(s) : Tail(t)[i] = t[i + 1]
  BY <1>2, <1>3, HeadTailProperties
<1>6. \A i \in 1 .. Len(s) : Tail(t)[i] = s[i]
  <2> TAKE i \in 1 .. Len(s)
  <2>1. i + 1 \in 1 .. 1 + Len(s) /\ ~(i + 1 <= 1) /\ (i + 1) - 1 = i
    BY <1>2
  <2> QED BY <1>2, <1>5, <2>1
<1>7. Tail(t) = s
  BY <1>5, <1>6, SeqEqual
<1> QED BY <1>2, <1>3, <1>4, <1>7 DEF t

LEMMA OneLong ==
  ASSUME NEW S, NEW s \in Seq(S), Len(s) = 1
  PROVE  s # <<>> /\ Tail(s) = <<>> /\ s = <<Head(s)>> /\ Head(s) \in S
<1>1. s # <<>> /\ Head(s) \in S
  OBVIOUS
<1>2. s = <<Head(s)>>
  OBVIOUS
<1>3. Tail(s) \in Seq(S) /\ Len(Tail(s)) = 0
  BY <1>1, HeadTailProperties
<1>4. Tail(s) = <<>>
  BY <1>3, EmptySeq
<1> QED BY <1>1, <1>2, <1>4

LEMMA ShortSeq ==
  ASSUME NEW S, NEW s \in Seq(S), Len(s) <= 1, s # <<>>
  PROVE  Len(s) = 1 /\ Tail(s) = <<>> /\ s = <<Head(s)>> /\ Head(s) \in S
<1> DEFINE n == Len(s)
<1>1. n \in Nat /\ n # 0 /\ n <= 1
  BY EmptySeq
<1> HIDE DEF n
<1>2. n = 1
  BY <1>1
<1> QED BY <1>2, OneLong DEF n

(* A byte from one sequence to the end of another. *)
LEMMA AppendedBehind ==
  ASSUME NEW S, NEW s \in Seq(S), NEW t \in Seq(S), NEW b \in S
  PROVE  s \o Append(t, b) = (s \o t) \o <<b>>
<1>1. \A u \in Seq(S) : (s \o t) \o u = s \o (t \o u)
  BY ConcatAssociative
<1>2. <<b>> \in Seq(S)
  OBVIOUS
<1>3. Append(t, b) = t \o <<b>>
  BY AppendIsConcat
<1>4. (s \o t) \o <<b>> = s \o (t \o <<b>>)
  BY <1>1, <1>2
<1> QED BY <1>3, <1>4

LEMMA HeadMoved ==
  ASSUME NEW S, NEW s \in Seq(S), NEW t \in Seq(S), t # <<>>
  PROVE  Append(s, Head(t)) \o Tail(t) = s \o t
<1>1. \A h \in Seq(S) : \A r \in Seq(S) : (s \o h) \o r = s \o (h \o r)
  BY ConcatAssociative
<1>2. Head(t) \in S /\ Tail(t) \in Seq(S)
  BY HeadTailProperties
<1>3. <<Head(t)>> \in Seq(S)
  BY <1>2
<1>4. (s \o <<Head(t)>>) \o Tail(t) = s \o (<<Head(t)>> \o Tail(t))
  BY <1>1, <1>2, <1>3
<1>5. <<Head(t)>> \o Tail(t) = t
  BY Rejoined
<1>6. Append(s, Head(t)) = s \o <<Head(t)>>
  BY <1>2, AppendIsConcat
<1> QED BY <1>4, <1>5, <1>6

LEMMA DivFacts ==
  ASSUME NEW n \in Nat, NEW b \in Nat, b > 0
  PROVE  n \div b \in Nat /\ n % b \in 0 .. b - 1 /\ n % b = n - b * (n \div b)
OBVIOUS

(* Two bytes of a number, low byte first, and the number back. *)
LEMMA TwoBytes ==
  ASSUME NEW n \in 0 .. Wide - 1
  PROVE  /\ n % Base \in Byte /\ n \div Base \in Byte
         /\ (n \div Base) % Base = n \div Base
         /\ LowByte(n % Base) = n % Base
         /\ Joined(n \div Base, n % Base) = n
<1> DEFINE q == n \div Base
           r == n % Base
<1>1. Base \in Nat /\ Base >= 16 /\ n \in Nat /\ n < Base * Base
  BY ConstantFacts, WideType DEF Wide
<1>2. q \in Nat /\ r \in 0 .. Base - 1 /\ r = n - Base * q
  BY <1>1, DivFacts
<1> HIDE DEF q, r
<1>3. q < Base
  <2> SUFFICES ASSUME q >= Base PROVE FALSE
    BY <1>1, <1>2
  <2>1. Base * q >= Base * Base
    BY <1>1, <1>2
  <2> QED BY <1>1, <1>2, <2>1
<1>4. \A m \in 0 .. Base - 1 : m % Base = m
  BY <1>1
<1>5. q % Base = q /\ r % Base = r
  BY <1>1, <1>2, <1>3, <1>4
<1>6. q * Base + r = n
  BY <1>1, <1>2
<1> QED BY <1>1, <1>2, <1>3, <1>5, <1>6 DEF q, r, Byte, LowByte, Joined

(* An opcode and two bytes, as a sequence. *)
LEMMA ThreeBytes ==
  ASSUME NEW a \in Byte, NEW b \in Byte, NEW c \in Byte
  PROVE  <<a>> \o <<b, c>> = <<a, b, c>>
<1>1. <<a>> \in Seq(Byte) /\ <<b, c>> \in Seq(Byte) /\ <<a, b, c>> \in Seq(Byte)
  OBVIOUS
<1>2. /\ <<a>> \o <<b, c>> \in Seq(Byte) /\ Len(<<a>> \o <<b, c>>) = 3
      /\ \A i \in 1 .. 3 : (<<a>> \o <<b, c>>)[i] = IF i <= 1 THEN <<a>>[i] ELSE <<b, c>>[i - 1]
  BY <1>1, ConcatProperties
<1>3. \A i \in 1 .. 3 : (<<a>> \o <<b, c>>)[i] = <<a, b, c>>[i]
  BY <1>2
<1> QED BY <1>1, <1>2, <1>3, SeqEqual

LEMMA FiveBytes ==
  ASSUME NEW a \in Byte, NEW b \in Byte, NEW c \in Byte, NEW d \in Byte, NEW e \in Byte
  PROVE  <<a>> \o <<b, c>> \o <<d, e>> = <<a, b, c, d, e>>
<1> DEFINE s == <<a, b, c>>
           t == <<d, e>>
           r == <<a, b, c, d, e>>
<1>1. /\ s \in Seq(Byte) /\ t \in Seq(Byte) /\ r \in Seq(Byte)
      /\ Len(s) = 3 /\ Len(t) = 2 /\ Len(r) = 5
      /\ \A i \in 1 .. 5 : r[i] = IF i <= 3 THEN s[i] ELSE t[i - 3]
  OBVIOUS
<1> HIDE DEF s, t, r
<1>2. s \o t = r
  <2>1. /\ s \o t \in Seq(Byte) /\ Len(s \o t) = Len(s) + Len(t)
        /\ \A i \in 1 .. Len(s) + Len(t) :
             (s \o t)[i] = IF i <= Len(s) THEN s[i] ELSE t[i - Len(s)]
    BY <1>1, ConcatProperties
  <2>2. Len(s \o t) = 5 /\ \A i \in 1 .. 5 : (s \o t)[i] = r[i]
    BY <1>1, <2>1
  <2> QED BY <1>1, <2>1, <2>2, SeqEqual
<1>3. <<a>> \o <<b, c>> = s
  BY ThreeBytes DEF s
<1> QED BY <1>2, <1>3 DEF r, t

(* The bytes d behind a header h. *)
LEMMA Behind ==
  ASSUME NEW h \in Seq(Byte), NEW d \in Seq(Byte)
  PROVE  /\ h \o d \in Seq(Byte) /\ Len(h \o d) = Len(h) + Len(d)
         /\ \A i \in 1 .. Len(h) : (h \o d)[i] = h[i]
         /\ \A i \in 1 .. Len(d) : (h \o d)[Len(h) + i] = d[i]
<1>1. /\ h \o d \in Seq(Byte) /\ Len(h \o d) = Len(h) + Len(d)
      /\ Len(h) \in Nat /\ Len(d) \in Nat
      /\ \A i \in 1 .. Len(h) + Len(d) :
           (h \o d)[i] = IF i <= Len(h) THEN h[i] ELSE d[i - Len(h)]
  BY ConcatProperties
<1>2. ASSUME NEW i \in 1 .. Len(d)
      PROVE  (h \o d)[Len(h) + i] = d[i]
  <2>1. Len(h) + i \in 1 .. Len(h) + Len(d) /\ ~(Len(h) + i <= Len(h)) /\ (Len(h) + i) - Len(h) = i
    BY <1>1
  <2> QED BY <1>1, <2>1
<1>3. ASSUME NEW i \in 1 .. Len(h)
      PROVE  (h \o d)[i] = h[i]
  BY <1>1
<1> QED BY <1>1, <1>2, <1>3

--------------------------------------------------------------------------------
(* The packets, byte by byte. *)

ReadOps  == {OP_CPU_MEM_RD, OP_PPU_MEM_RD}
WriteOps == {OP_CPU_MEM_WR, OP_PPU_MEM_WR}

(* Four bytes of address and count, behind the opcode. *)
HeaderBytes(b, addr, n) ==
  /\ b[2] = addr % Base /\ b[3] = addr \div Base
  /\ b[4] = n % Base /\ b[5] = n \div Base

Layout(p, b) ==
  /\ b \in Seq(Byte) /\ Len(b) >= 1 /\ b[1] = p.op
  /\ p.op = OP_ECHO =>
       /\ Len(b) = Len(p.data) + 3
       /\ b[2] = Len(p.data) % Base /\ b[3] = Len(p.data) \div Base
       /\ \A i \in 1 .. Len(p.data) : b[3 + i] = p.data[i]
  /\ p.op \in ReadOps => Len(b) = 5 /\ HeaderBytes(b, p.addr, p.n)
  /\ p.op \in WriteOps =>
       /\ Len(b) = Len(p.data) + 5
       /\ HeaderBytes(b, p.addr, Len(p.data))
       /\ \A i \in 1 .. Len(p.data) : b[5 + i] = p.data[i]
  /\ p.op = OP_CPU_REG_RD => Len(b) = 2 /\ b[2] = p.sel
  /\ p.op = OP_CPU_REG_WR => Len(b) = 3 /\ b[2] = p.sel /\ b[3] = p.val
  /\ p.op = OP_CART_SET_CFG => Len(b) = 6
  /\ p.op \notin ReadOps \cup WriteOps
                 \cup {OP_ECHO, OP_CPU_REG_RD, OP_CPU_REG_WR, OP_CART_SET_CFG} => Len(b) = 1


LEMMA PacketFacts ==
  ASSUME NEW p \in Packets
  PROVE  /\ p.op \in Byte
         /\ p.op \in {OP_ECHO, OP_CPU_MEM_WR, OP_PPU_MEM_WR} =>
              p.data \in Seq(Byte) /\ Len(p.data) \in 0 .. Wide - 1
         /\ p.op \in ReadOps => p.n \in 0 .. Wide - 1
         /\ p.op \in ReadOps \cup WriteOps => p.addr \in 0 .. Wide - 1
         /\ p.op = OP_CPU_MEM_RD => p.addr + p.n <= PpuCtrl
         /\ p.op = OP_CPU_MEM_WR => p.addr + Len(p.data) <= PpuCtrl
         /\ p.op = OP_PPU_MEM_RD => p.addr + p.n <= Wide
         /\ p.op = OP_PPU_MEM_WR => p.addr + Len(p.data) <= Wide
         /\ p.op \in {OP_CPU_REG_RD, OP_CPU_REG_WR} => p.sel \in RegSels /\ p.sel \in 0 .. 6
         /\ p.op = OP_CPU_REG_WR => p.val \in Byte
         /\ p.op = OP_CART_SET_CFG => p.data \in Seq(Byte) /\ Len(p.data) = 5
<1>1. PpuCtrl \in Nat /\ PpuCtrl <= Wide - 3
  BY ConstantFacts, WideType
<1>2. /\ p.op \in {OP_ECHO, OP_CPU_MEM_WR, OP_PPU_MEM_WR} =>
           p.data \in Seq(Byte) /\ Len(p.data) \in Nat /\ Len(p.data) < Wide
      /\ p.op \in ReadOps => p.n \in 0 .. Wide - 1
      /\ p.op \in {OP_CPU_MEM_RD, OP_CPU_MEM_WR} => p.addr \in 0 .. PpuCtrl - 1
      /\ p.op \in {OP_PPU_MEM_RD, OP_PPU_MEM_WR} => p.addr \in 0 .. Wide - 1
  BY PacketsAssumption DEF PacketsAssumption, Wide, ReadOps
<1>3. p.op \in ReadOps \cup WriteOps => p.addr \in 0 .. Wide - 1
  BY <1>1, <1>2, WideType DEF ReadOps, WriteOps
<1>4. p.op \in {OP_ECHO, OP_CPU_MEM_WR, OP_PPU_MEM_WR} => Len(p.data) \in 0 .. Wide - 1
  BY <1>2, WideType
<1> QED BY <1>2, <1>3, <1>4, PacketsAssumption, LinkFacts DEF PacketsAssumption, Wide


LEMMA PacketLayout ==
  ASSUME NEW p \in Packets
  PROVE  Layout(p, PacketBytes(p))
<1> DEFINE b == PacketBytes(p)
<1> USE DEF OP_ECHO, OP_CPU_MEM_RD, OP_CPU_MEM_WR, OP_CPU_REG_RD, OP_CPU_REG_WR,
            OP_PPU_MEM_RD, OP_PPU_MEM_WR, OP_CART_SET_CFG, ReadOps, WriteOps
<1>1. p.op \in Byte /\ p.op \in Nat
  BY PacketFacts, ConstantFacts DEF Byte
<1>2. \A k \in 0 .. 12 : k \in Byte
  BY ConstantFacts DEF Byte
<1>3. CASE p.op = OP_ECHO
  <2> DEFINE d == p.data
             n == Len(p.data)
             nl == n % Base
             nh == n \div Base
             h == <<0, nl, nh>>
  <2>1. d \in Seq(Byte) /\ n \in 0 .. Wide - 1
    BY <1>3, PacketFacts
  <2>2. nl \in Byte /\ nh \in Byte /\ nh % Base = nh
    BY <2>1, TwoBytes
  <2>3. b = <<0>> \o <<nl, nh>> \o d
    BY <1>3, <2>2 DEF PacketBytes, EchoPacket, DbgPacket, DbgPacketOpCode, Ushort
  <2> HIDE DEF b, d, n, nl, nh
  <2>4. b = h \o d
    BY <1>2, <2>2, <2>3, ThreeBytes
  <2>5. h \in Seq(Byte) /\ Len(h) = 3 /\ h[1] = 0 /\ h[2] = nl /\ h[3] = nh
    BY <1>2, <2>2
  <2> HIDE DEF h
  <2>6. /\ h \o d \in Seq(Byte) /\ Len(h \o d) = Len(h) + Len(d)
        /\ \A i \in 1 .. Len(h) : (h \o d)[i] = h[i]
        /\ \A i \in 1 .. Len(d) : (h \o d)[Len(h) + i] = d[i]
    BY <2>1, <2>5, Behind
  <2>7. /\ b \in Seq(Byte) /\ Len(b) = Len(d) + 3
        /\ b[1] = 0 /\ b[2] = nl /\ b[3] = nh
        /\ \A i \in 1 .. Len(d) : b[3 + i] = d[i]
    BY <2>4, <2>5, <2>6
  <2> QED BY <1>3, <2>1, <2>7 DEF Layout, d, b, n, nl, nh
<1>4. CASE p.op \in ReadOps
  <2> DEFINE a == p.addr
             n == p.n
             al == a % Base
             ah == a \div Base
             nl == n % Base
             nh == n \div Base
             o == p.op
  <2>1. a \in 0 .. Wide - 1 /\ n \in 0 .. Wide - 1
    BY <1>4, PacketFacts
  <2>2. /\ al \in Byte /\ ah \in Byte /\ ah % Base = ah
        /\ nl \in Byte /\ nh \in Byte /\ nh % Base = nh
    BY <2>1, TwoBytes
  <2>3. b = <<o>> \o <<al, ah>> \o <<nl, nh>>
    <3>1. CASE o = OP_CPU_MEM_RD
      BY <2>2, <3>1 DEF PacketBytes, CpuMemRdPacket, DbgPacket, DbgPacketOpCode, Ushort
    <3>2. CASE o = OP_PPU_MEM_RD
      BY <2>2, <3>2 DEF PacketBytes, PpuMemRdPacket, DbgPacket, DbgPacketOpCode, Ushort
    <3> QED BY <1>4, <3>1, <3>2
  <2>4. o \in Byte
    BY <1>1
  <2> HIDE DEF b, a, n, al, ah, nl, nh, o
  <2>5. b = <<o, al, ah, nl, nh>>
    BY <2>2, <2>3, <2>4, FiveBytes
  <2>6. /\ b \in Seq(Byte) /\ Len(b) = 5 /\ b[1] = o
        /\ b[2] = al /\ b[3] = ah /\ b[4] = nl /\ b[5] = nh
    BY <2>2, <2>4, <2>5
  <2>7. HeaderBytes(b, a, n)
    BY <2>6 DEF HeaderBytes, al, ah, nl, nh
  <2>8. p.op \notin WriteOps \cup {OP_ECHO, OP_CPU_REG_RD, OP_CPU_REG_WR, OP_CART_SET_CFG}
    BY <1>4
  <2> HIDE DEF OP_ECHO, OP_CPU_REG_RD, OP_CPU_REG_WR, OP_CART_SET_CFG, ReadOps, WriteOps
  <2> QED BY <1>4, <2>6, <2>7, <2>8 DEF Layout, b, a, n, o
<1>5. CASE p.op \in WriteOps
  <2> DEFINE d == p.data
             a == p.addr
             n == Len(p.data)
             al == a % Base
             ah == a \div Base
             nl == n % Base
             nh == n \div Base
             o == p.op
             h == <<o, al, ah, nl, nh>>
  <2>1. d \in Seq(Byte) /\ a \in 0 .. Wide - 1 /\ n \in 0 .. Wide - 1 /\ Len(d) = n
    BY <1>5, PacketFacts
  <2>2. /\ al \in Byte /\ ah \in Byte /\ ah % Base = ah
        /\ nl \in Byte /\ nh \in Byte /\ nh % Base = nh
    BY <2>1, TwoBytes
  <2>3. b = <<o>> \o <<al, ah>> \o <<nl, nh>> \o d
    <3>1. CASE o = OP_CPU_MEM_WR
      BY <2>2, <3>1 DEF PacketBytes, CpuMemWrPacket, DbgPacket, DbgPacketOpCode, Ushort
    <3>2. CASE o = OP_PPU_MEM_WR
      BY <2>2, <3>2 DEF PacketBytes, PpuMemWrPacket, DbgPacket, DbgPacketOpCode, Ushort
    <3> QED BY <1>5, <3>1, <3>2
  <2>4. o \in Byte
    BY <1>1
  <2> HIDE DEF b, d, a, n, al, ah, nl, nh, o
  <2>5. b = h \o d
    BY <2>2, <2>3, <2>4, FiveBytes
  <2>6. /\ h \in Seq(Byte) /\ Len(h) = 5 /\ h[1] = o
        /\ h[2] = al /\ h[3] = ah /\ h[4] = nl /\ h[5] = nh
    BY <2>2, <2>4
  <2> HIDE DEF h
  <2>7. /\ h \o d \in Seq(Byte) /\ Len(h \o d) = Len(h) + Len(d)
        /\ \A i \in 1 .. Len(h) : (h \o d)[i] = h[i]
        /\ \A i \in 1 .. Len(d) : (h \o d)[Len(h) + i] = d[i]
    BY <2>1, <2>6, Behind
  <2>8. Len(h \o d) = n + 5
    BY <2>1, <2>6, <2>7
  <2>9. /\ b \in Seq(Byte) /\ Len(b) = n + 5 /\ b[1] = o
        /\ b[2] = al /\ b[3] = ah /\ b[4] = nl /\ b[5] = nh
        /\ \A i \in 1 .. n : b[5 + i] = d[i]
    BY <2>1, <2>5, <2>6, <2>7, <2>8
  <2>10. HeaderBytes(b, a, n) /\ Len(b) >= 1
    <3>1. HeaderBytes(b, a, n)
      BY <2>9 DEF HeaderBytes, al, ah, nl, nh
    <3>2. Len(b) >= 1
      BY <2>1, <2>9
    <3> QED BY <3>1, <3>2
  <2>11. p.op \notin ReadOps \cup {OP_ECHO, OP_CPU_REG_RD, OP_CPU_REG_WR, OP_CART_SET_CFG}
    BY <1>5
  <2> HIDE DEF OP_ECHO, OP_CPU_REG_RD, OP_CPU_REG_WR, OP_CART_SET_CFG, ReadOps, WriteOps
  <2> QED BY <1>5, <2>9, <2>10, <2>11 DEF Layout, b, a, n, o, d
<1>6. CASE p.op = OP_CPU_REG_RD \/ p.op = OP_CPU_REG_WR
  <2>1. p.sel \in Byte
    BY <1>6, <1>2, PacketFacts
  <2>2. CASE p.op = OP_CPU_REG_RD
    <3>1. b = <<5, p.sel>>
      BY <2>2 DEF PacketBytes, CpuRegRdPacket, DbgPacket, DbgPacketOpCode
    <3> HIDE DEF b
    <3> QED BY <1>2, <2>1, <2>2, <3>1 DEF Layout, b
  <2>3. CASE p.op = OP_CPU_REG_WR
    <3>1. b = <<6, p.sel, p.val>>
      BY <2>3 DEF PacketBytes, CpuRegWrPacket, DbgPacket, DbgPacketOpCode
    <3>2. p.val \in Byte
      BY <2>3, PacketFacts
    <3> HIDE DEF b
    <3> QED BY <1>2, <2>1, <2>3, <3>1, <3>2 DEF Layout, b
  <2> QED BY <1>6, <2>2, <2>3
<1>7. CASE p.op = OP_CART_SET_CFG
  <2> DEFINE d == p.data
             z == <<0, 0, 0, 0>>
             h == <<12>>
             t == z \o d
             e == SubSeq(t, 5, 9)
  <2>1. d \in Seq(Byte) /\ Len(d) = 5
    BY <1>7, PacketFacts
  <2>2. b = h \o e
    <3>1. PacketBytes(p) = CartSetCfgPacket(t).data
      BY <1>7 DEF PacketBytes
    <3> QED BY <3>1 DEF CartSetCfgPacket, DbgPacket, DbgPacketOpCode
  <2>3. z \in Seq(Byte) /\ Len(z) = 4 /\ h \in Seq(Byte) /\ Len(h) = 1 /\ h[1] = 12
    BY <1>2
  <2> HIDE DEF b, h, d, z
  <2>4. t \in Seq(Byte) /\ Len(t) = Len(z) + Len(d)
    BY <2>1, <2>3, Behind
  <2>5. t \in Seq(Byte) /\ Len(t) = 9
    BY <2>1, <2>3, <2>4
  <2> HIDE DEF t
  <2>6. \A i \in 5 .. 9 : t[i] \in Byte
    <3> TAKE i \in 5 .. 9
    <3>1. i \in 1 .. Len(t)
      BY <2>5
    <3> QED BY <2>5, <3>1, ElementOfSeq
  <2>7. e \in Seq(Byte) /\ Len(e) = 5
    BY <2>6, SubSeqProperties
  <2> HIDE DEF e
  <2>8. /\ h \o e \in Seq(Byte) /\ Len(h \o e) = Len(h) + Len(e)
        /\ \A i \in 1 .. Len(h) : (h \o e)[i] = h[i]
    BY <2>3, <2>7, Behind
  <2>9. b \in Seq(Byte) /\ Len(b) = 6 /\ b[1] = 12
    BY <2>2, <2>3, <2>7, <2>8
  <2> QED BY <1>7, <2>9 DEF Layout, b
<1>8. CASE p.op \notin ReadOps \cup WriteOps
                 \cup {OP_ECHO, OP_CPU_REG_RD, OP_CPU_REG_WR, OP_CART_SET_CFG}
  <2>1. b = <<p.op>>
    BY <1>8 DEF PacketBytes, DbgPacket
  <2> HIDE DEF b
  <2>2. b \in Seq(Byte) /\ Len(b) = 1 /\ b[1] = p.op
    BY <1>1, <2>1
  <2> QED BY <1>8, <2>2 DEF Layout, b
<1> QED BY <1>3, <1>4, <1>5, <1>6, <1>7, <1>8


LEMMA FunctionLength ==
  ASSUME NEW n \in Nat, NEW f, f = [i \in 1 .. n |-> f[i]]
  PROVE  Len(f) = n
OBVIOUS

--------------------------------------------------------------------------------
(***************************************************************************)
(* What a memory lacks of the host's image.  StoredFrom is Stored without  *)
(* the first m bytes of the data, those that have been written already.    *)
(***************************************************************************)
Hits(size, addr, data, m, c) == {i \in DOMAIN data : i > m /\ (addr + i - 1) % size = c}

StoredFrom(mem, size, addr, data, m) ==
  [c \in 0 .. size - 1 |->
     LET hits == Hits(size, addr, data, m, c)
     IN  IF hits = {} THEN mem[c]
         ELSE data[CHOOSE i \in hits : \A j \in hits : j <= i]]

LEMMA NothingWritten ==
  ASSUME NEW mem, NEW size, NEW addr, NEW data \in Seq(Byte)
  PROVE  Stored(mem, size, addr, data) = StoredFrom(mem, size, addr, data, 0)
<1> DEFINE hits(c) == {i \in DOMAIN data : (addr + i - 1) % size = c}
           all(c) == Hits(size, addr, data, 0, c)
           value(s, c) == IF s = {} THEN mem[c] ELSE data[CHOOSE i \in s : \A j \in s : j <= i]
<1>1. \A c : hits(c) = all(c)
  BY DEF Hits
<1>2. /\ Stored(mem, size, addr, data) = [c \in 0 .. size - 1 |-> value(hits(c), c)]
      /\ StoredFrom(mem, size, addr, data, 0) = [c \in 0 .. size - 1 |-> value(all(c), c)]
  BY DEF Stored, StoredFrom
<1> HIDE DEF hits, all, value
<1>3. \A c : value(hits(c), c) = value(all(c), c)
  BY <1>1
<1> QED BY <1>2, <1>3

LEMMA AllWritten ==
  ASSUME NEW size, NEW mem \in [0 .. size - 1 -> Byte], NEW addr, NEW data \in Seq(Byte)
  PROVE  StoredFrom(mem, size, addr, data, Len(data)) = mem
<1>1. \A c : Hits(size, addr, data, Len(data), c) = {}
  BY DEF Hits
<1>2. StoredFrom(mem, size, addr, data, Len(data)) = [c \in 0 .. size - 1 |-> mem[c]]
  BY <1>1 DEF StoredFrom
<1> QED BY <1>2

(* The rest of the data still makes the image, with one byte less. *)
SameImage(next, mem, size, addr, data, m) ==
  StoredFrom(next, size, addr, data, m + 1) = StoredFrom(mem, size, addr, data, m)

(* Writing the next byte moves it from the image to the memory. *)
LEMMA OneWritten ==
  ASSUME NEW size \in Nat \ {0}, NEW mem \in [0 .. size - 1 -> Byte], NEW addr \in Nat,
         NEW data \in Seq(Byte), NEW m \in Nat, m < Len(data),
         NEW next, next = [mem EXCEPT ![(addr + m) % size] = data[m + 1]]
  PROVE  SameImage(next, mem, size, addr, data, m)
<1> DEFINE a == (addr + m) % size
           old(c) == Hits(size, addr, data, m, c)
           new(c) == Hits(size, addr, data, m + 1, c)
           last(s) == CHOOSE i \in s : \A j \in s : j <= i
<1>1. Len(data) \in Nat /\ DOMAIN data = 1 .. Len(data)
  OBVIOUS
<1>2. ASSUME NEW c \in 0 .. size - 1
      PROVE  (IF new(c) = {} THEN next[c] ELSE data[last(new(c))])
               = IF old(c) = {} THEN mem[c] ELSE data[last(old(c))]
  <2> USE <1>1
  <2>1. /\ \A i \in old(c) : i \in Nat /\ (i = m + 1 \/ i \in new(c))
        /\ \A i \in new(c) : i \in Nat /\ i \in old(c) /\ i > m + 1
    BY DEF Hits
  <2>2. m + 1 \in old(c) <=> c = a
    <3>1. (addr + (m + 1)) - 1 = addr + m /\ m + 1 \in DOMAIN data /\ m + 1 > m
      OBVIOUS
    <3>2. m + 1 \in old(c) <=> (addr + (m + 1) - 1) % size = c
      BY <3>1 DEF Hits
    <3> QED BY <3>1, <3>2
  <2>6. next[c] = IF c = a THEN data[m + 1] ELSE mem[c]
    OBVIOUS
  <2> HIDE DEF old, new, a
  <2>3. CASE new(c) # {}
    <3>1. \A i : (i \in new(c) /\ \A j \in new(c) : j <= i)
                   <=> (i \in old(c) /\ \A j \in old(c) : j <= i)
      BY <2>1, <2>3
    <3>2. last(new(c)) = last(old(c))
      BY <3>1
    <3>3. old(c) # {}
      BY <2>1, <2>3
    <3> HIDE DEF last
    <3> QED BY <2>3, <3>2, <3>3
  <2>4. CASE new(c) = {} /\ c = a
    <3>1. old(c) = {m + 1}
      BY <2>1, <2>2, <2>4
    <3>2. last(old(c)) = m + 1
      BY <3>1
    <3>3. next[c] = data[m + 1]
      BY <2>4, <2>6
    <3> HIDE DEF last
    <3> QED BY <2>4, <3>1, <3>2, <3>3
  <2>5. CASE new(c) = {} /\ c # a
    <3>1. old(c) = {}
      BY <2>1, <2>2, <2>5
    <3>2. next[c] = mem[c]
      BY <2>5, <2>6
    <3> HIDE DEF last
    <3> QED BY <2>5, <3>1, <3>2
  <2> QED BY <2>3, <2>4, <2>5
<1>3. /\ StoredFrom(next, size, addr, data, m + 1)
           = [c \in 0 .. size - 1 |-> IF new(c) = {} THEN next[c] ELSE data[last(new(c))]]
      /\ StoredFrom(mem, size, addr, data, m)
           = [c \in 0 .. size - 1 |-> IF old(c) = {} THEN mem[c] ELSE data[last(old(c))]]
  BY DEF StoredFrom
<1> HIDE DEF old, new, last
<1>4. StoredFrom(next, size, addr, data, m + 1) = StoredFrom(mem, size, addr, data, m)
  BY <1>2, <1>3
<1> QED BY <1>4 DEF SameImage


--------------------------------------------------------------------------------
(***************************************************************************)
(* The packet under way.  j of p's bytes have been taken, u are those to   *)
(* come, k answers have been given, h is the host that sent it.            *)
(***************************************************************************)
Rest(p, j, u) ==
  /\ j \in 0 .. Len(PacketBytes(p)) /\ u \in Seq(Byte)
  /\ Len(u) = Len(PacketBytes(p)) - j
  /\ \A i \in 1 .. Len(u) : u[i] = PacketBytes(p)[i + j]

(* The console as the host would remember it. *)
Now(r) == [running |-> r, ram |-> ram, vram |-> vram, regs |-> regs,
           unknown |-> q_err_code.opcode]

(* Data bytes among the first j of a memory packet. *)
Taken(j) == IF j < 5 THEN 0 ELSE j - 5

(* What h expects of the console: answers from what it holds now, and in the
   end the image that h has. *)
Owes(h, p, j) ==
  /\ \E r \in BOOLEAN : h.want = Answer(p, Now(r)) /\ (q_state = "S_DISABLED" => r)
  /\ h.ram = IF p.op = OP_CPU_MEM_WR
               THEN StoredFrom(ram, RamSize, p.addr, p.data, Taken(j)) ELSE ram
  /\ h.vram = IF p.op = OP_PPU_MEM_WR
                THEN StoredFrom(vram, VramSize, p.addr, p.data, Taken(j)) ELSE vram
  /\ h.regs = IF p.op = OP_CPU_REG_WR /\ j < 3
                THEN [regs EXCEPT ![p.sel] = RegWritten(p.sel, @, p.val)] ELSE regs
  /\ h.unknown <=> q_err_code.opcode \/ (j = 0 /\ p.op > OP_CART_SET_CFG)
  /\ p.op = OP_DBG_RUN => h.running
  /\ q_state = "S_DISABLED" =>
       p.op = OP_DBG_BRK \/ (p.op = OP_QUERY_DBG_BRK /\ h.running)

(* Where the state machine is in the packet. *)
StartAt(j, k) == q_state \in {"S_DECODE", "S_DISABLED"} /\ j = 0 /\ k = 0

EchoHeaderAt(p, j, k) ==
  /\ p.op = OP_ECHO /\ q_state = "S_ECHO_STG_0" /\ k = 0
  /\ j \in {1, 2} /\ q_decode_cnt = j - 1
  /\ j = 2 => q_execute_cnt = Len(p.data) % Base

EchoAt(p, j, k) ==
  /\ p.op = OP_ECHO /\ q_state = "S_ECHO_STG_1"
  /\ j = k + 3 /\ k < Len(p.data) /\ q_execute_cnt = Len(p.data) - k

HeaderAt(op, stg0, n, p, j, k) ==
  /\ p.op = op /\ q_state = stg0 /\ k = 0
  /\ j \in 1 .. 4 /\ q_decode_cnt = j - 1
  /\ j = 2 => q_addr = p.addr % Base
  /\ j > 2 => q_addr = p.addr
  /\ j = 4 => q_execute_cnt = n % Base

ReadAt(op, stg1, p, j, k) ==
  /\ p.op = op /\ q_state = stg1 /\ j = 5 /\ k < p.n
  /\ q_execute_cnt = 2 * (p.n - k) \/ q_execute_cnt = 2 * (p.n - k) - 1
  /\ q_addr = p.addr + k

WriteAt(op, stg1, p, j, k) ==
  /\ p.op = op /\ q_state = stg1 /\ k = 0
  /\ j >= 5 /\ j < Len(p.data) + 5
  /\ q_execute_cnt = Len(p.data) + 5 - j
  /\ q_addr = p.addr + j - 5

RegAt(p, j, k) ==
  /\ k = 0
  /\ \/ p.op = OP_CPU_REG_RD /\ q_state = "S_CPU_REG_RD" /\ j = 1
     \/ p.op = OP_CPU_REG_WR /\ q_state = "S_CPU_REG_WR_STG_0" /\ j = 1
     \/ p.op = OP_CPU_REG_WR /\ q_state = "S_CPU_REG_WR_STG_1" /\ j = 2 /\ q_addr = p.sel

OtherAt(p, j, k) ==
  /\ k = 0
  /\ \/ p.op = OP_QUERY_ERR_CODE /\ q_state = "S_QUERY_ERR_CODE" /\ j = 1
     \/ /\ p.op = OP_PPU_DISABLE /\ q_state = "S_PPU_DISABLE" /\ j = 1
        /\ q_decode_cnt \in 0 .. 5
        /\ q_decode_cnt \in {1, 3} => q_addr >= PpuCtrl
     \/ p.op = OP_CART_SET_CFG /\ q_state = "S_CART_SET_CFG_STG_0" /\ j = 1
     \/ /\ p.op = OP_CART_SET_CFG /\ q_state = "S_CART_SET_CFG_STG_1"
        /\ j \in 1 .. 5 /\ q_execute_cnt = 5 - j

AtStep(p, j, k) ==
  \/ StartAt(j, k)
  \/ EchoHeaderAt(p, j, k) \/ EchoAt(p, j, k)
  \/ HeaderAt(OP_CPU_MEM_RD, "S_CPU_MEM_RD_STG_0", p.n, p, j, k)
  \/ ReadAt(OP_CPU_MEM_RD, "S_CPU_MEM_RD_STG_1", p, j, k)
  \/ HeaderAt(OP_CPU_MEM_WR, "S_CPU_MEM_WR_STG_0", Len(p.data), p, j, k)
  \/ WriteAt(OP_CPU_MEM_WR, "S_CPU_MEM_WR_STG_1", p, j, k)
  \/ HeaderAt(OP_PPU_MEM_RD, "S_PPU_MEM_RD_STG_0", p.n, p, j, k)
  \/ ReadAt(OP_PPU_MEM_RD, "S_PPU_MEM_RD_STG_1", p, j, k)
  \/ HeaderAt(OP_PPU_MEM_WR, "S_PPU_MEM_WR_STG_0", Len(p.data), p, j, k)
  \/ WriteAt(OP_PPU_MEM_WR, "S_PPU_MEM_WR_STG_1", p, j, k)
  \/ RegAt(p, j, k)
  \/ OtherAt(p, j, k)

Working(h, u, k) ==
  \E p \in Packets : \E j \in Nat : Rest(p, j, u) /\ Owes(h, p, j) /\ AtStep(p, j, k)

(* Between packets the console is as h remembers it. *)
Idle(h, u, k) ==
  /\ q_state \in {"S_DECODE", "S_DISABLED"}
  /\ u = <<>> /\ k = Len(h.want)
  /\ h.ram = ram /\ h.vram = vram /\ h.regs = regs
  /\ h.unknown <=> q_err_code.opcode
  /\ q_state = "S_DISABLED" => h.running

OnCourse(h, u, k) == Idle(h, u, k) \/ Working(h, u, k)


(* The answers that are owed, packet by packet. *)
Asked(p, want) ==
  /\ p.op = OP_ECHO =>
       Len(want) = Len(p.data) /\ \A i \in 1 .. Len(p.data) : want[i] = {p.data[i]}
  /\ p.op = OP_CPU_MEM_RD =>
       Len(want) = p.n /\ \A i \in 1 .. p.n : want[i] = {ram[(p.addr + i - 1) % RamSize]}
  /\ p.op = OP_PPU_MEM_RD =>
       Len(want) = p.n /\ \A i \in 1 .. p.n : want[i] = {vram[(p.addr + i - 1) % VramSize]}
  /\ p.op = OP_CPU_REG_RD => Len(want) = 1 /\ want[1] = {regs[p.sel]}
  /\ p.op = OP_QUERY_DBG_BRK =>
       Len(want) = 1 /\ 1 \in want[1] /\ (q_state = "S_DISABLED" => 0 \in want[1])
  /\ p.op = OP_QUERY_ERR_CODE =>
       Len(want) = 1 /\ want[1] = {IF q_err_code.opcode THEN 2 ELSE 0}
  /\ p.op \notin ReadOps \cup {OP_ECHO, OP_CPU_REG_RD, OP_QUERY_DBG_BRK, OP_QUERY_ERR_CODE} =>
       Len(want) = 0

LEMMA OwesAsked ==
  ASSUME NEW p \in Packets, NEW h, NEW j, Owes(h, p, j)
  PROVE  Asked(p, h.want)
<1> USE DEF OP_ECHO, OP_CPU_MEM_RD, OP_CPU_REG_RD, OP_QUERY_DBG_BRK, OP_QUERY_ERR_CODE,
            OP_PPU_MEM_RD, ReadOps
<1>1. PICK r \in BOOLEAN : h.want = Answer(p, Now(r)) /\ (q_state = "S_DISABLED" => r)
  BY DEF Owes
<1>2. CASE p.op = OP_ECHO
  <2>1. p.data \in Seq(Byte) /\ DOMAIN p.data = 1 .. Len(p.data) /\ Len(p.data) \in Nat
    BY <1>2, PacketFacts
  <2>2. h.want = [i \in 1 .. Len(p.data) |-> {p.data[i]}]
    BY <1>1, <1>2, <2>1 DEF Answer
  <2>3. Len(h.want) = Len(p.data)
    BY <2>1, <2>2, FunctionLength
  <2> QED BY <1>2, <2>2, <2>3 DEF Asked
<1>3. CASE p.op = OP_CPU_MEM_RD
  <2>1. p.n \in Nat
    BY <1>3, PacketFacts, WideType
  <2>2. h.want = [i \in 1 .. p.n |-> {ram[(p.addr + i - 1) % RamSize]}]
    BY <1>1, <1>3 DEF Answer, Cells, Now
  <2>3. Len(h.want) = p.n
    BY <2>1, <2>2, FunctionLength
  <2>4. \A i \in 1 .. p.n : h.want[i] = {ram[(p.addr + i - 1) % RamSize]}
    BY <2>2
  <2> QED BY <1>3, <2>3, <2>4 DEF Asked
<1>4. CASE p.op = OP_PPU_MEM_RD
  <2>1. p.n \in Nat
    BY <1>4, PacketFacts, WideType
  <2>2. h.want = [i \in 1 .. p.n |-> {vram[(p.addr + i - 1) % VramSize]}]
    BY <1>1, <1>4 DEF Answer, Cells, Now
  <2>3. Len(h.want) = p.n
    BY <2>1, <2>2, FunctionLength
  <2>4. \A i \in 1 .. p.n : h.want[i] = {vram[(p.addr + i - 1) % VramSize]}
    BY <2>2
  <2> QED BY <1>4, <2>3, <2>4 DEF Asked
<1>5. CASE p.op = OP_CPU_REG_RD
  <2>1. h.want = <<{regs[p.sel]}>>
    BY <1>1, <1>5 DEF Answer, Now
  <2> QED BY <1>5, <2>1 DEF Asked
<1>6. CASE p.op = OP_QUERY_DBG_BRK
  <2>1. h.want = <<IF r THEN {0, 1} ELSE {1}>>
    BY <1>1, <1>6 DEF Answer, Now
  <2> QED BY <1>1, <1>6, <2>1 DEF Asked
<1>7. CASE p.op = OP_QUERY_ERR_CODE
  <2>1. h.want = <<{IF q_err_code.opcode THEN 2 ELSE 0}>>
    BY <1>1, <1>7 DEF Answer, Now
  <2> QED BY <1>7, <2>1 DEF Asked
<1>8. CASE p.op \notin ReadOps
                 \cup {OP_ECHO, OP_CPU_REG_RD, OP_QUERY_DBG_BRK, OP_QUERY_ERR_CODE}
  <2>1. h.want = <<>>
    BY <1>1, <1>8 DEF Answer
  <2> QED BY <1>8, <2>1 DEF Asked
<1> QED BY <1>2, <1>3, <1>4, <1>5, <1>6, <1>7, <1>8


--------------------------------------------------------------------------------
(* The bytes of a packet, one after the other. *)

LEMMA RestFacts ==
  ASSUME NEW p \in Packets, NEW j, NEW u, Rest(p, j, u)
  PROVE  /\ j \in Nat /\ Len(u) \in Nat /\ Len(PacketBytes(p)) \in Nat
         /\ j + Len(u) = Len(PacketBytes(p))
         /\ u = <<>> <=> j = Len(PacketBytes(p))
         /\ u # <<>> => j < Len(PacketBytes(p))
<1>1. Len(PacketBytes(p)) \in Nat
  BY PacketLayout DEF Layout
<1>2. u = <<>> <=> Len(u) = 0
  BY EmptySeq DEF Rest
<1> QED BY <1>1, <1>2 DEF Rest

LEMMA RestNext ==
  ASSUME NEW p \in Packets, NEW j, NEW u, Rest(p, j, u), u # <<>>
  PROVE  Head(u) = PacketBytes(p)[j + 1] /\ Head(u) \in Byte /\ Rest(p, j + 1, Tail(u))
<1>1. /\ j \in Nat /\ Len(u) \in Nat /\ j + Len(u) = Len(PacketBytes(p)) /\ Len(u) >= 1
      /\ u \in Seq(Byte)
  BY RestFacts DEF Rest
<1>2. /\ Tail(u) \in Seq(Byte) /\ Len(Tail(u)) = Len(u) - 1 /\ Head(u) = u[1] /\ Head(u) \in Byte
      /\ \A i \in 1 .. Len(Tail(u)) : Tail(u)[i] = u[i + 1]
  BY <1>1, HeadTailProperties
<1>3. \A i \in 1 .. Len(u) : u[i] = PacketBytes(p)[i + j]
  BY DEF Rest
<1>4. Head(u) = PacketBytes(p)[j + 1]
  BY <1>1, <1>2, <1>3
<1>5. ASSUME NEW i \in 1 .. Len(Tail(u))
      PROVE  Tail(u)[i] = PacketBytes(p)[i + (j + 1)]
  <2>1. i + 1 \in 1 .. Len(u) /\ (i + 1) + j = i + (j + 1)
    BY <1>1, <1>2
  <2> QED BY <1>2, <1>3, <2>1
<1>6. j + 1 \in 0 .. Len(PacketBytes(p)) /\ Len(Tail(u)) = Len(PacketBytes(p)) - (j + 1)
  BY <1>1, <1>2
<1> QED BY <1>2, <1>4, <1>5, <1>6 DEF Rest

LEMMA RestOver ==
  ASSUME NEW p \in Packets, NEW j, NEW u, Rest(p, j, u), j = Len(PacketBytes(p))
  PROVE  u = <<>>
BY RestFacts

LEMMA RestOpcode ==
  ASSUME NEW p \in Packets, NEW u, Rest(p, 0, u), u # <<>>
  PROVE  Head(u) = p.op /\ Rest(p, 1, Tail(u))
<1>1. 0 + 1 = 1
  OBVIOUS
<1>2. Head(u) = PacketBytes(p)[0 + 1] /\ Rest(p, 0 + 1, Tail(u))
  BY RestNext
<1> QED BY <1>1, <1>2, PacketLayout DEF Layout

LEMMA RestWhole ==
  ASSUME NEW p \in Packets
  PROVE  Rest(p, 0, PacketBytes(p))
BY PacketLayout DEF Layout, Rest

(* The memories, and what they do not notice. *)
MemoriesOK ==
  /\ ram \in [0 .. RamSize - 1 -> Byte]
  /\ vram \in [0 .. VramSize - 1 -> Byte]
  /\ regs \in [RegSels -> Byte]
  /\ last_a \in 0 .. Wide - 1

(* The states that write. *)
WriteStates ==
  {"S_CPU_MEM_WR_STG_1", "S_PPU_MEM_WR_STG_1", "S_CPU_REG_WR_STG_1", "S_PPU_DISABLE"}

LEMMA MemoriesKept ==
  ASSUME Memories, q_state \notin WriteStates \/ (q_state # "S_PPU_DISABLE" /\ rx_empty)
  PROVE  ram' = ram /\ vram' = vram /\ regs' = regs /\ last_a' = q_addr
BY DEF Memories, WriteStates, cpu_r_nw, MemWrite, PpuRegZero, ppu_vram_wr, cpu_dbgreg_wr

(* Nothing that the host's picture is about moves. *)
LEMMA CourseKept ==
  ASSUME NEW h, NEW u, NEW k, OnCourse(h, u, k),
         UNCHANGED <<q_state, q_decode_cnt, q_execute_cnt, q_addr>>,
         ram' = ram, vram' = vram, regs' = regs,
         q_err_code'.opcode = q_err_code.opcode
  PROVE  OnCourse(h, u, k)'
<1>1. Idle(h, u, k) => Idle(h, u, k)'
  BY DEF Idle
<1>2. ASSUME NEW p \in Packets, NEW j \in Nat, Rest(p, j, u), Owes(h, p, j), AtStep(p, j, k)
      PROVE  Working(h, u, k)'
  <2>1. Owes(h, p, j)'
    BY <1>2 DEF Owes, Now
  <2>2. AtStep(p, j, k)'
    BY <1>2 DEF AtStep, StartAt, EchoHeaderAt, EchoAt, HeaderAt, ReadAt, WriteAt, RegAt, OtherAt
  <2> QED BY <1>2, <2>1, <2>2 DEF Working
<1> QED BY <1>1, <1>2 DEF OnCourse, Working


(* A CPU register stays a byte when its flags are kept. *)
LEMMA RegWrittenType ==
  ASSUME NEW r \in RegSels, NEW old \in Byte, NEW b \in Byte
  PROVE  RegWritten(r, old, b) \in Byte
<1> DEFINE q == Base \div 16
           w == Base \div 4
           x == b \div w
           y == old \div w
           z == old \div q
           kept == NoFlags(old)
<1>1. q \in Nat /\ q >= 1 /\ Base = 16 * q /\ w = 4 * q
  BY ConstantFacts, LinkAssumption DEF LinkAssumption
<1>2. b \in Nat /\ b < 16 * q /\ old \in Nat /\ old < 16 * q
  BY <1>1 DEF Byte
<1>3. /\ x \in Nat /\ b % w \in 0 .. w - 1 /\ b % w = b - w * x
      /\ y \in Nat /\ old % w \in 0 .. w - 1 /\ old % w = old - w * y
      /\ z \in Nat /\ old % q \in 0 .. q - 1 /\ old % q = old - q * z
      /\ b % q \in 0 .. q - 1
  <2>1. w \in Nat /\ w > 0 /\ q > 0
    BY <1>1
  <2> QED BY <1>1, <1>2, <2>1, DivFacts
<1>4. NoFlags(b) = (b % w) - (b % q) /\ kept = (old % w) - (old % q)
  BY DEF NoFlags
<1> HIDE DEF q, w, x, y, z, kept
<1>5. w * x = q * (4 * x) /\ w * y = q * (4 * y)
  BY <1>1, <1>3
<1>6. x <= 3
  <2> SUFFICES ASSUME x >= 4 PROVE FALSE
    BY <1>3
  <2>1. q * (4 * x) >= q * 16
    BY <1>1, <1>3
  <2> QED BY <1>1, <1>2, <1>3, <1>5, <2>1
<1>7. q * (4 * x) \in 0 .. 12 * q
  BY <1>1, <1>3, <1>6
<1>8. kept \in 0 .. 3 * q
  <2> DEFINE g == z - 4 * y
  <2>1. g \in Int /\ kept = q * g
    <3>1. kept = q * z - q * (4 * y)
      BY <1>1, <1>2, <1>3, <1>4, <1>5
    <3>2. q * z - q * (4 * y) = q * (z - 4 * y)
      BY <1>1, <1>3
    <3> QED BY <1>3, <3>1, <3>2
  <2>2. kept < 4 * q /\ kept > -q
    BY <1>1, <1>3, <1>4
  <2> HIDE DEF g
  <2>3. g < 4
    <3> SUFFICES ASSUME g >= 4 PROVE FALSE
      BY <2>1
    <3>1. q * g >= q * 4
      BY <1>1, <2>1
    <3> QED BY <1>1, <2>1, <2>2, <3>1
  <2>4. g > -1
    <3> SUFFICES ASSUME g <= -1 PROVE FALSE
      BY <2>1
    <3>1. q * g <= -q
      BY <1>1, <2>1
    <3> QED BY <1>1, <2>1, <2>2, <3>1
  <2>5. g \in 0 .. 3
    BY <2>1, <2>3, <2>4
  <2> QED BY <1>1, <2>1, <2>5
<1>9. (b - NoFlags(b)) + kept \in 0 .. 16 * q - 1
  BY <1>1, <1>2, <1>3, <1>4, <1>5, <1>7, <1>8
<1> QED BY <1>1, <1>9 DEF RegWritten, Byte, kept


LEMMA MemoriesStep ==
  ASSUME IInv, MemoriesOK, Memories
  PROVE  MemoriesOK'
<1>1. ~rx_empty => rd_data \in Byte
  BY ReadByte DEF IInv
<1>2. ram' \in [0 .. RamSize - 1 -> Byte]
  <2>1. ~cpu_r_nw => cpu_dout \in Byte
    BY <1>1, OwnBytes DEF cpu_r_nw, cpu_dout, MemWrite
  <2> QED BY <2>1 DEF Memories, MemoriesOK
<1>3. vram' \in [0 .. VramSize - 1 -> Byte]
  BY <1>1 DEF Memories, MemoriesOK, ppu_vram_wr
<1>4. regs' \in [RegSels -> Byte]
  <2>1. CASE cpu_dbgreg_wr
    <3> DEFINE r == cpu_dbgreg_sel
    <3>1. rd_data \in Byte
      BY <1>1, <2>1 DEF cpu_dbgreg_wr
    <3>2. regs' = [regs EXCEPT ![r] = RegWritten(r, regs[r], rd_data)]
      BY <2>1 DEF Memories, SetReg
    <3>3. r \in RegSels => RegWritten(r, regs[r], rd_data) \in Byte
      BY <3>1, RegWrittenType DEF MemoriesOK
    <3> HIDE DEF r
    <3> QED BY <3>2, <3>3 DEF MemoriesOK
  <2>2. CASE ~cpu_dbgreg_wr
    BY <2>2 DEF Memories, MemoriesOK
  <2> QED BY <2>1, <2>2
<1>5. last_a' \in 0 .. Wide - 1
  BY DEF Memories, IInv, RegsOK, Wide
<1> QED BY <1>2, <1>3, <1>4, <1>5 DEF MemoriesOK, Wide

--------------------------------------------------------------------------------
(***************************************************************************)
(* One clock of the state machine.  u are the bytes to come before it and  *)
(* v after it; the answer it may give is the next one that h wants.        *)
(***************************************************************************)
Setting(brk, h, u, k, v) ==
  /\ IInv /\ MemoriesOK /\ Memories
  /\ OnCourse(h, u, k) /\ k \in Nat
  /\ u \in Seq(Byte)
  /\ ~rx_empty => u # <<>> /\ Head(u) = rd_data
  /\ v = IF rd_en(brk) THEN Tail(u) ELSE u

Advances(h, k, v) ==
  \E m \in Nat :
    /\ OnCourse(h, v, m)'
    /\ IF q_wr_en' THEN m = k + 1 /\ k < Len(h.want) /\ q_tx_data' \in h.want[k + 1]
                   ELSE m = k

LEMMA Silently ==
  ASSUME NEW h, NEW k \in Nat, NEW v, NoSend, OnCourse(h, v, k)'
  PROVE  Advances(h, k, v)
BY DEF Advances, NoSend

LEMMA Answering ==
  ASSUME NEW h, NEW k \in Nat, NEW v, NEW b, Send(b),
         k < Len(h.want), b \in h.want[k + 1], OnCourse(h, v, k + 1)'
  PROVE  Advances(h, k, v)
BY DEF Advances, Send

(* What h is owed moves on with the packet. *)
LEMMA OwesKept ==
  ASSUME NEW p \in Packets, NEW h, NEW j \in Nat, NEW i \in Nat, Owes(h, p, j),
         ram' = ram, vram' = vram, regs' = regs,
         q_state' # "S_DISABLED",
         p.op \in WriteOps => Taken(i) = Taken(j), p.op = OP_CPU_REG_WR => (j < 3 <=> i < 3),
         j > 0 => i > 0,
         q_err_code'.opcode <=>
           q_err_code.opcode \/ (j = 0 /\ i > 0 /\ p.op > OP_CART_SET_CFG)
  PROVE  Owes(h, p, i)'
<1>1. PICK r \in BOOLEAN : h.want = Answer(p, Now(r))
  BY DEF Owes
<1>2. Answer(p, Now(r))' = Answer(p, Now(r))
  <2>1. CASE p.op > OP_CART_SET_CFG
    <3>1. p.op \notin {OP_ECHO, OP_CPU_MEM_RD, OP_PPU_MEM_RD, OP_CPU_REG_RD,
                       OP_QUERY_DBG_BRK, OP_QUERY_ERR_CODE}
      BY <2>1 DEF OP_CART_SET_CFG, OP_ECHO, OP_CPU_MEM_RD, OP_PPU_MEM_RD, OP_CPU_REG_RD,
                  OP_QUERY_DBG_BRK, OP_QUERY_ERR_CODE
    <3> QED BY <3>1 DEF Answer
  <2>2. CASE ~(p.op > OP_CART_SET_CFG)
    BY <2>2 DEF Answer, Now, Cells
  <2> QED BY <2>1, <2>2
<1>3. h.unknown <=> q_err_code'.opcode \/ (i = 0 /\ p.op > OP_CART_SET_CFG)
  BY DEF Owes
<1>4. p.op = OP_DBG_RUN => h.running
  BY DEF Owes
<1> QED BY <1>1, <1>2, <1>3, <1>4 DEF Owes, WriteOps


(* A packet with more to come. *)
LEMMA Continued ==
  ASSUME NEW p \in Packets, NEW h, NEW j, NEW v, NEW m,
         Rest(p, j, v), Owes(h, p, j)', AtStep(p, j, m)'
  PROVE  OnCourse(h, v, m)'
<1>1. j \in Nat
  BY RestFacts
<1> QED BY <1>1 DEF OnCourse, Working

(* A packet that has come to its end. *)
LEMMA Finished ==
  ASSUME NEW p \in Packets, NEW h, NEW j, NEW v, NEW m,
         Rest(p, j, v), Owes(h, p, j)', j = Len(PacketBytes(p)), m = Len(h.want),
         q_state' = "S_DECODE", MemoriesOK'
  PROVE  OnCourse(h, v, m)'
<1>1. v = <<>> /\ j \in Nat /\ j >= 1
  BY RestFacts, PacketLayout DEF Layout
<1>2. h.ram = ram'
  <2>1. CASE p.op = OP_CPU_MEM_WR
    <3>1. p.data \in Seq(Byte) /\ Len(p.data) \in Nat /\ j = Len(p.data) + 5
      BY <2>1, PacketFacts, PacketLayout, WideType DEF Layout, WriteOps
    <3>2. Taken(j) = Len(p.data)
      BY <3>1 DEF Taken
    <3> QED BY <2>1, <3>1, <3>2, AllWritten DEF Owes, MemoriesOK
  <2>2. CASE p.op # OP_CPU_MEM_WR
    BY <2>2 DEF Owes
  <2> QED BY <2>1, <2>2
<1>3. h.vram = vram'
  <2>1. CASE p.op = OP_PPU_MEM_WR
    <3>1. p.data \in Seq(Byte) /\ Len(p.data) \in Nat /\ j = Len(p.data) + 5
      BY <2>1, PacketFacts, PacketLayout, WideType DEF Layout, WriteOps
    <3>2. Taken(j) = Len(p.data)
      BY <3>1 DEF Taken
    <3> QED BY <2>1, <3>1, <3>2, AllWritten DEF Owes, MemoriesOK
  <2>2. CASE p.op # OP_PPU_MEM_WR
    BY <2>2 DEF Owes
  <2> QED BY <2>1, <2>2
<1>4. h.regs = regs'
  <2>1. p.op = OP_CPU_REG_WR => ~(j < 3)
    BY PacketLayout DEF Layout
  <2> QED BY <2>1 DEF Owes
<1>5. h.unknown <=> q_err_code'.opcode
  BY <1>1 DEF Owes
<1> QED BY <1>1, <1>2, <1>3, <1>4, <1>5 DEF OnCourse, Idle


LEMMA ErrorsKept ==
  ASSUME NEW unknown \in BOOLEAN, IInv, Errors(unknown)
  PROVE  q_err_code'.opcode <=> q_err_code.opcode \/ unknown
BY DEF Errors, IInv, RegsOK

LEMMA ErrorsSame ==
  ASSUME IInv, Errors(FALSE)
  PROVE  q_err_code'.opcode = q_err_code.opcode
<1>1. q_err_code' = [parity |-> q_err_code.parity \/ q_rx_parity_err,
                     opcode |-> q_err_code.opcode \/ FALSE]
  BY DEF Errors
<1> QED BY <1>1 DEF IInv, RegsOK

LEMMA WaitCourse ==
  ASSUME NEW brk, NEW h, NEW u, NEW k, NEW v, Setting(brk, h, u, k, v), Wait
  PROVE  Advances(h, k, v)
<1>1. \/ q_state \in ByteStates /\ rx_empty
      \/ q_state = "S_CPU_REG_RD" /\ (rx_empty \/ tx_full)
      \/ q_state \in {"S_QUERY_ERR_CODE", "S_CPU_MEM_RD_STG_1", "S_PPU_MEM_RD_STG_1"}
  BY DEF Wait
<1>2. ~rd_en(brk) /\ v = u
  BY <1>1 DEF rd_en, Setting, ByteStates
<1>3. q_state \notin WriteStates \/ (q_state # "S_PPU_DISABLE" /\ rx_empty)
  BY <1>1 DEF WriteStates, ByteStates
<1>4. ram' = ram /\ vram' = vram /\ regs' = regs
  BY <1>3, MemoriesKept DEF Setting
<1>5. q_err_code'.opcode = q_err_code.opcode
  BY ErrorsSame DEF Wait, Setting
<1>6. OnCourse(h, u, k)'
  BY <1>4, <1>5, CourseKept DEF Wait, Setting
<1> QED BY <1>2, <1>6, Silently DEF Wait, Setting

(* The running console: a break of the CPU comes first. *)
LEMMA DisabledCourse ==
  ASSUME NEW brk \in BOOLEAN, NEW h, NEW u, NEW k, NEW v, Setting(brk, h, u, k, v),
         Disabled(brk)
  PROVE  Advances(h, k, v)
<1> USE DEF OP_DBG_BRK, OP_QUERY_DBG_BRK, OP_CART_SET_CFG
<1>1. /\ q_state = "S_DISABLED" /\ k \in Nat
      /\ ram' = ram /\ vram' = vram /\ regs' = regs
      /\ UNCHANGED <<q_decode_cnt, q_execute_cnt, q_addr>>
      /\ q_err_code'.opcode = q_err_code.opcode
  BY MemoriesKept, ErrorsSame DEF Setting, Disabled, WriteStates
<1>2. CASE brk \/ rx_empty
  <2>1. v = u /\ NoSend /\ q_state' \in {"S_DECODE", "S_DISABLED"}
    BY <1>2 DEF Setting, Disabled, Goto, rd_en, ByteStates
  <2>2. CASE Idle(h, u, k)
    <3>1. Idle(h, u, k)'
      BY <1>1, <2>1, <2>2 DEF Idle
    <3> QED BY <1>1, <2>1, <3>1, Silently DEF OnCourse
  <2>3. CASE Working(h, u, k)
    <3>1. PICK p \in Packets, j \in Nat : Rest(p, j, u) /\ Owes(h, p, j) /\ AtStep(p, j, k)
      BY <2>3 DEF Working
    <3>2. StartAt(j, k)
      BY <1>1, <3>1 DEF AtStep, EchoHeaderAt, EchoAt, HeaderAt, ReadAt, WriteAt, RegAt, OtherAt
    <3>3. AtStep(p, j, k)'
      BY <2>1, <3>2 DEF AtStep, StartAt
    <3>4. Owes(h, p, j)'
      BY <1>1, <2>1, <3>1 DEF Owes, Now
    <3>5. OnCourse(h, u, k)'
      BY <3>1, <3>3, <3>4, Continued
    <3> QED BY <1>1, <2>1, <3>5, Silently
  <2> QED BY <2>2, <2>3 DEF Setting, OnCourse
<1>3. CASE ~brk /\ ~rx_empty
  <2>1. u # <<>> /\ Head(u) = rd_data /\ v = Tail(u)
    BY <1>1, <1>3 DEF Setting, rd_en
  <2>2. PICK p \in Packets, j \in Nat : Rest(p, j, u) /\ Owes(h, p, j) /\ AtStep(p, j, k)
    BY <2>1 DEF Setting, OnCourse, Idle, Working
  <2>3. StartAt(j, k)
    BY <1>1, <2>2 DEF AtStep, EchoHeaderAt, EchoAt, HeaderAt, ReadAt, WriteAt, RegAt, OtherAt
  <2>4. j = 0 /\ k = 0
    BY <2>3 DEF StartAt
  <2>5. /\ p.op = OP_DBG_BRK \/ (p.op = OP_QUERY_DBG_BRK /\ h.running)
        /\ h.ram = ram /\ h.vram = vram /\ h.regs = regs
        /\ h.unknown <=> q_err_code.opcode
    BY <1>1, <2>2, <2>4
       DEF Owes, OP_CPU_MEM_WR, OP_PPU_MEM_WR, OP_CPU_REG_WR
  <2>6. rd_data = p.op /\ Rest(p, 1, v)
    BY <2>1, <2>2, <2>4, RestOpcode
  <2>7. Len(PacketBytes(p)) = 1
    BY <2>5, PacketLayout
       DEF Layout, ReadOps, WriteOps, OP_ECHO, OP_CPU_MEM_RD, OP_CPU_MEM_WR, OP_PPU_MEM_RD,
           OP_PPU_MEM_WR, OP_CPU_REG_RD, OP_CPU_REG_WR
  <2>8. v = <<>>
    BY <2>6, <2>7, RestOver
  <2>9. Asked(p, h.want)
    BY <2>2, OwesAsked
  <2>10. CASE p.op = OP_DBG_BRK
    <3>1. Len(h.want) = 0
      BY <2>9, <2>10 DEF Asked, ReadOps, OP_ECHO, OP_CPU_MEM_RD, OP_PPU_MEM_RD,
                         OP_CPU_REG_RD, OP_QUERY_ERR_CODE
    <3>2. NoSend /\ q_state' = "S_DECODE"
      BY <1>3, <2>6, <2>10 DEF Disabled, Goto
    <3>3. Idle(h, v, k)'
      BY <1>1, <2>4, <2>5, <2>8, <3>1, <3>2 DEF Idle
    <3> QED BY <1>1, <3>2, <3>3, Silently DEF OnCourse
  <2>11. CASE p.op = OP_QUERY_DBG_BRK /\ h.running
    <3>1. Len(h.want) = 1 /\ 0 \in h.want[1]
      BY <1>1, <2>9, <2>11 DEF Asked
    <3>2. Send(0) /\ q_state' = "S_DISABLED"
      BY <1>3, <2>6, <2>11 DEF Disabled, Goto
    <3>3. Idle(h, v, k + 1)'
      BY <1>1, <2>4, <2>5, <2>8, <2>11, <3>1, <3>2 DEF Idle
    <3>4. k < Len(h.want) /\ 0 \in h.want[k + 1]
      BY <2>4, <3>1
    <3>5. OnCourse(h, v, k + 1)'
      BY <3>3 DEF OnCourse
    <3> QED BY <1>1, <3>2, <3>4, <3>5, Answering
  <2> QED BY <2>5, <2>10, <2>11
<1> QED BY <1>2, <1>3


(* The first byte of a packet. *)
LEMMA DecodeCourse ==
  ASSUME NEW brk, NEW h, NEW u, NEW k, NEW v, Setting(brk, h, u, k, v), Decode
  PROVE  Advances(h, k, v)
<1>1. /\ q_state = "S_DECODE" /\ k \in Nat
      /\ u # <<>> /\ Head(u) = rd_data /\ v = Tail(u)
      /\ ram' = ram /\ vram' = vram /\ regs' = regs
  BY MemoriesKept DEF Setting, Decode, WriteStates, rd_en, ByteStates, States
<1>2. PICK p \in Packets, j \in Nat : Rest(p, j, u) /\ Owes(h, p, j) /\ AtStep(p, j, k)
  BY <1>1 DEF Setting, OnCourse, Idle, Working
<1>3. j = 0 /\ k = 0
  <2>1. StartAt(j, k)
    BY <1>1, <1>2 DEF AtStep, EchoHeaderAt, EchoAt, HeaderAt, ReadAt, WriteAt, RegAt, OtherAt
  <2> QED BY <2>1 DEF StartAt
<1>4. rd_data = p.op /\ Rest(p, 1, v)
  BY <1>1, <1>2, <1>3, RestOpcode
<1>5. p.op \in Nat
  BY PacketFacts, ConstantFacts DEF Byte
<1>6. /\ q_decode_cnt' = 0 /\ q_state' = DecodeTarget(p.op)
      /\ IF p.op = OP_QUERY_DBG_BRK THEN Send(1) ELSE NoSend
      /\ UNCHANGED <<q_execute_cnt, q_addr>>
  BY <1>4 DEF Decode, Goto
<1>7. q_err_code'.opcode <=> q_err_code.opcode \/ p.op > OP_CART_SET_CFG
  <2>1. (p.op > OP_CART_SET_CFG) \in BOOLEAN /\ Errors(p.op > OP_CART_SET_CFG)
    BY <1>4 DEF Decode
  <2> QED BY <2>1, ErrorsKept DEF Setting
<1>8. MemoriesOK'
  BY MemoriesStep DEF Setting
<1>9. Asked(p, h.want)
  BY <1>2, OwesAsked
<1>10. Taken(1) = Taken(0)
  BY DEF Taken
<1>11. q_state' # "S_DISABLED" => Owes(h, p, 1)'
  BY <1>1, <1>2, <1>3, <1>7, <1>10, OwesKept
<1> USE DEF OP_ECHO, OP_CPU_MEM_RD, OP_CPU_MEM_WR, OP_DBG_BRK, OP_DBG_RUN, OP_CPU_REG_RD,
            OP_CPU_REG_WR, OP_QUERY_DBG_BRK, OP_QUERY_ERR_CODE, OP_PPU_MEM_RD,
            OP_PPU_MEM_WR, OP_PPU_DISABLE, OP_CART_SET_CFG
<1>12. CASE p.op \in {OP_ECHO, OP_CPU_MEM_RD, OP_CPU_MEM_WR, OP_CPU_REG_RD, OP_CPU_REG_WR,
                      OP_QUERY_ERR_CODE, OP_PPU_MEM_RD, OP_PPU_MEM_WR, OP_PPU_DISABLE,
                      OP_CART_SET_CFG}
  <2>1. NoSend
    BY <1>6, <1>12
  <2>2. q_state' # "S_DISABLED" /\ AtStep(p, 1, 0)'
    <3>1. CASE p.op = OP_ECHO
      <4>1. q_state' = "S_ECHO_STG_0"
        BY <1>6, <3>1 DEF DecodeTarget
      <4>2. EchoHeaderAt(p, 1, 0)'
        BY <1>6, <3>1, <4>1 DEF EchoHeaderAt
      <4> QED BY <4>1, <4>2 DEF AtStep
    <3>2. CASE p.op = OP_CPU_MEM_RD
      <4>1. q_state' = "S_CPU_MEM_RD_STG_0"
        BY <1>6, <3>2 DEF DecodeTarget
      <4>2. HeaderAt(OP_CPU_MEM_RD, "S_CPU_MEM_RD_STG_0", p.n, p, 1, 0)'
        BY <1>6, <3>2, <4>1 DEF HeaderAt
      <4> QED BY <4>1, <4>2 DEF AtStep
    <3>3. CASE p.op = OP_CPU_MEM_WR
      <4>1. q_state' = "S_CPU_MEM_WR_STG_0"
        BY <1>6, <3>3 DEF DecodeTarget
      <4>2. HeaderAt(OP_CPU_MEM_WR, "S_CPU_MEM_WR_STG_0", Len(p.data), p, 1, 0)'
        BY <1>6, <3>3, <4>1 DEF HeaderAt
      <4> QED BY <4>1, <4>2 DEF AtStep
    <3>4. CASE p.op = OP_PPU_MEM_RD
      <4>1. q_state' = "S_PPU_MEM_RD_STG_0"
        BY <1>6, <3>4 DEF DecodeTarget
      <4>2. HeaderAt(OP_PPU_MEM_RD, "S_PPU_MEM_RD_STG_0", p.n, p, 1, 0)'
        BY <1>6, <3>4, <4>1 DEF HeaderAt
      <4> QED BY <4>1, <4>2 DEF AtStep
    <3>5. CASE p.op = OP_PPU_MEM_WR
      <4>1. q_state' = "S_PPU_MEM_WR_STG_0"
        BY <1>6, <3>5 DEF DecodeTarget
      <4>2. HeaderAt(OP_PPU_MEM_WR, "S_PPU_MEM_WR_STG_0", Len(p.data), p, 1, 0)'
        BY <1>6, <3>5, <4>1 DEF HeaderAt
      <4> QED BY <4>1, <4>2 DEF AtStep
    <3>6. CASE p.op \in {OP_CPU_REG_RD, OP_CPU_REG_WR}
      <4>1. /\ p.op = OP_CPU_REG_RD => q_state' = "S_CPU_REG_RD"
            /\ p.op = OP_CPU_REG_WR => q_state' = "S_CPU_REG_WR_STG_0"
        BY <1>6 DEF DecodeTarget
      <4>2. RegAt(p, 1, 0)'
        BY <3>6, <4>1 DEF RegAt
      <4> QED BY <3>6, <4>1, <4>2 DEF AtStep
    <3>7. CASE p.op = OP_QUERY_ERR_CODE
      <4>1. q_state' = "S_QUERY_ERR_CODE"
        BY <1>6, <3>7 DEF DecodeTarget
      <4>2. OtherAt(p, 1, 0)'
        BY <1>6, <3>7, <4>1 DEF OtherAt
      <4> QED BY <4>1, <4>2 DEF AtStep
    <3>8. CASE p.op = OP_PPU_DISABLE
      <4>1. q_state' = "S_PPU_DISABLE"
        BY <1>6, <3>8 DEF DecodeTarget
      <4>2. OtherAt(p, 1, 0)'
        BY <1>6, <3>8, <4>1 DEF OtherAt
      <4> QED BY <4>1, <4>2 DEF AtStep
    <3>9. CASE p.op = OP_CART_SET_CFG
      <4>1. q_state' = "S_CART_SET_CFG_STG_0"
        BY <1>6, <3>9 DEF DecodeTarget
      <4>2. OtherAt(p, 1, 0)'
        BY <1>6, <3>9, <4>1 DEF OtherAt
      <4> QED BY <4>1, <4>2 DEF AtStep
    <3> QED BY <1>12, <3>1, <3>2, <3>3, <3>4, <3>5, <3>6, <3>7, <3>8, <3>9
  <2>3. OnCourse(h, v, k)'
    BY <1>3, <1>4, <1>11, <2>2, Continued
  <2> QED BY <1>1, <2>1, <2>3, Silently
<1>13. CASE p.op = OP_DBG_RUN
  <2>1. q_state' = "S_DISABLED" /\ NoSend
    BY <1>6, <1>13 DEF DecodeTarget
  <2>2. v = <<>>
    <3>1. Len(PacketBytes(p)) = 1
      BY <1>13, PacketLayout DEF Layout, ReadOps, WriteOps
    <3> QED BY <1>4, <3>1, RestOver
  <2>3. Len(h.want) = 0
    BY <1>9, <1>13 DEF Asked, ReadOps
  <2>4. /\ h.running /\ h.ram = ram /\ h.vram = vram /\ h.regs = regs
        /\ h.unknown <=> q_err_code.opcode
    BY <1>2, <1>13 DEF Owes
  <2>5. h.unknown <=> q_err_code'.opcode
    BY <1>7, <1>13, <2>4
  <2>6. Idle(h, v, k)'
    BY <1>1, <1>3, <2>1, <2>2, <2>3, <2>4, <2>5 DEF Idle
  <2> QED BY <1>1, <2>1, <2>6, Silently DEF OnCourse
<1>14. CASE p.op = OP_DBG_BRK \/ p.op = OP_QUERY_DBG_BRK \/ p.op > OP_CART_SET_CFG
  <2>1. q_state' = "S_DECODE"
    BY <1>5, <1>6, <1>14 DEF DecodeTarget
  <2>2. Len(PacketBytes(p)) = 1
    BY <1>5, <1>14, PacketLayout DEF Layout, ReadOps, WriteOps
  <2>3. CASE p.op = OP_QUERY_DBG_BRK
    <3>1. Send(1) /\ Len(h.want) = 1 /\ 1 \in h.want[1]
      BY <1>6, <1>9, <2>3 DEF Asked
    <3>2. OnCourse(h, v, 1)'
      BY <1>4, <1>8, <1>11, <2>1, <2>2, <3>1, Finished
    <3>3. k < Len(h.want) /\ 1 \in h.want[k + 1] /\ k + 1 = 1
      BY <1>3, <3>1
    <3>4. OnCourse(h, v, k + 1)'
      BY <3>2, <3>3
    <3> QED BY <1>1, <3>1, <3>3, <3>4, Answering
  <2>4. CASE p.op # OP_QUERY_DBG_BRK
    <3>1. NoSend /\ Len(h.want) = 0
      BY <1>5, <1>6, <1>9, <1>14, <2>4 DEF Asked, ReadOps
    <3>2. OnCourse(h, v, k)'
      BY <1>3, <1>4, <1>8, <1>11, <2>1, <2>2, <3>1, Finished
    <3> QED BY <1>1, <3>1, <3>2, Silently
  <2> QED BY <2>3, <2>4
<1> QED BY <1>5, <1>12, <1>13, <1>14


(* A packet of which some bytes have been taken. *)
LEMMA Underway ==
  ASSUME NEW brk, NEW h, NEW u, NEW k, NEW v, Setting(brk, h, u, k, v),
         q_state \notin {"S_DECODE", "S_DISABLED"}
  PROVE  \E p \in Packets : \E j \in Nat :
           Rest(p, j, u) /\ Owes(h, p, j) /\ AtStep(p, j, k) /\ ~StartAt(j, k)
BY DEF Setting, OnCourse, Idle, Working, StartAt

LEMMA EchoHeaderCourse ==
  ASSUME NEW brk, NEW h, NEW u, NEW k, NEW v, Setting(brk, h, u, k, v), EchoHeader
  PROVE  Advances(h, k, v)
<1>1. /\ q_state = "S_ECHO_STG_0" /\ k \in Nat
      /\ u # <<>> /\ Head(u) = rd_data /\ v = Tail(u)
      /\ ram' = ram /\ vram' = vram /\ regs' = regs
  BY MemoriesKept DEF Setting, EchoHeader, WriteStates, rd_en, ByteStates, States
<1>2. PICK p \in Packets, j \in Nat :
        Rest(p, j, u) /\ Owes(h, p, j) /\ AtStep(p, j, k) /\ ~StartAt(j, k)
  BY <1>1, Underway
<1> DEFINE n == Len(p.data)
<1>3. EchoHeaderAt(p, j, k)
  BY <1>1, <1>2 DEF AtStep, EchoAt, HeaderAt, ReadAt, WriteAt, RegAt, OtherAt
<1>4. rd_data = PacketBytes(p)[j + 1] /\ Rest(p, j + 1, v)
  BY <1>1, <1>2, RestNext
<1>5. /\ p.op = OP_ECHO /\ k = 0 /\ n \in 0 .. Wide - 1
      /\ Len(PacketBytes(p)) = n + 3
      /\ PacketBytes(p)[2] = n % Base /\ PacketBytes(p)[3] = n \div Base
  BY <1>3, PacketFacts, PacketLayout DEF EchoHeaderAt, Layout
<1>6. NoSend /\ q_err_code'.opcode = q_err_code.opcode /\ MemoriesOK'
  BY ErrorsSame, MemoriesStep DEF EchoHeader, Setting
<1>7. q_state' # "S_DISABLED" => Owes(h, p, j + 1)'
  <2>1. j > 0 /\ j + 1 > 0 /\ j + 1 \in Nat /\ Taken(j + 1) = Taken(j)
    BY <1>3 DEF EchoHeaderAt, Taken
  <2>2. p.op # OP_CPU_REG_WR
    BY <1>5 DEF OP_ECHO, OP_CPU_REG_WR
  <2> QED BY <1>1, <1>2, <1>6, <2>1, <2>2, OwesKept
<1>8. CASE j = 1
  <2>1. q_state' = "S_ECHO_STG_0" /\ q_decode_cnt' = 1 /\ q_execute_cnt' = n % Base
    BY <1>1, <1>3, <1>4, <1>5, <1>8 DEF EchoHeader, EchoHeaderAt, NextDecodeCnt
  <2>2. EchoHeaderAt(p, j + 1, k)'
    BY <1>5, <1>8, <2>1 DEF EchoHeaderAt
  <2>3. OnCourse(h, v, k)'
    BY <1>4, <1>7, <2>1, <2>2, Continued DEF AtStep
  <2> QED BY <1>1, <1>6, <2>3, Silently
<1>9. CASE j = 2
  <2>1. /\ q_execute_cnt = n % Base /\ q_decode_cnt = 1 /\ rd_data = n \div Base
    BY <1>3, <1>4, <1>5, <1>9 DEF EchoHeaderAt
  <2>2. Joined(rd_data, LowByte(q_execute_cnt)) = n
    BY <1>5, <2>1, TwoBytes
  <2>3. q_execute_cnt' = n /\ q_state' = IF n # 0 THEN "S_ECHO_STG_1" ELSE "S_DECODE"
    BY <2>1, <2>2 DEF EchoHeader, Goto
  <2>4. CASE n # 0
    <3>1. EchoAt(p, j + 1, k)'
      BY <1>5, <1>9, <2>3, <2>4, WideType DEF EchoAt
    <3>2. OnCourse(h, v, k)'
      BY <1>4, <1>7, <2>3, <2>4, <3>1, Continued DEF AtStep
    <3> QED BY <1>1, <1>6, <3>2, Silently
  <2>5. CASE n = 0
    <3>1. j + 1 = Len(PacketBytes(p))
      BY <1>5, <1>9, <2>5
    <3>2. Len(h.want) = 0
      BY <1>2, <1>5, <2>5, OwesAsked DEF Asked
    <3>3. OnCourse(h, v, k)'
      BY <1>4, <1>5, <1>6, <1>7, <2>3, <2>5, <3>1, <3>2, Finished
    <3> QED BY <1>1, <1>6, <3>3, Silently
  <2> QED BY <2>4, <2>5
<1> QED BY <1>3, <1>8, <1>9 DEF EchoHeaderAt

LEMMA EchoCourse ==
  ASSUME NEW brk, NEW h, NEW u, NEW k, NEW v, Setting(brk, h, u, k, v), EchoByte
  PROVE  Advances(h, k, v)
<1>1. /\ q_state = "S_ECHO_STG_1" /\ k \in Nat
      /\ u # <<>> /\ Head(u) = rd_data /\ v = Tail(u)
      /\ ram' = ram /\ vram' = vram /\ regs' = regs
  BY MemoriesKept DEF Setting, EchoByte, WriteStates, rd_en, ByteStates, States
<1>2. PICK p \in Packets, j \in Nat :
        Rest(p, j, u) /\ Owes(h, p, j) /\ AtStep(p, j, k) /\ ~StartAt(j, k)
  BY <1>1, Underway
<1> DEFINE n == Len(p.data)
<1>3. EchoAt(p, j, k)
  BY <1>1, <1>2 DEF AtStep, EchoHeaderAt, HeaderAt, ReadAt, WriteAt, RegAt, OtherAt
<1>4. rd_data = PacketBytes(p)[j + 1] /\ Rest(p, j + 1, v)
  BY <1>1, <1>2, RestNext
<1>5. /\ p.op = OP_ECHO /\ j = k + 3 /\ n \in Nat /\ k < n
      /\ q_execute_cnt = n - k
      /\ Len(PacketBytes(p)) = n + 3
      /\ \A i \in 1 .. n : PacketBytes(p)[3 + i] = p.data[i]
  BY <1>3, PacketFacts, PacketLayout, WideType DEF EchoAt, Layout
<1>6. q_err_code'.opcode = q_err_code.opcode /\ MemoriesOK' /\ Send(rd_data)
  BY ErrorsSame, MemoriesStep DEF EchoByte, Setting
<1>7. q_state' # "S_DISABLED" => Owes(h, p, j + 1)'
  <2>1. j > 0 /\ j + 1 > 0 /\ j + 1 \in Nat
    BY <1>1, <1>5
  <2>2. p.op # OP_CPU_REG_WR /\ p.op \notin WriteOps
    BY <1>5 DEF OP_ECHO, OP_CPU_REG_WR, OP_CPU_MEM_WR, OP_PPU_MEM_WR, WriteOps
  <2> QED BY <1>1, <1>2, <1>6, <2>1, <2>2, OwesKept
<1>8. rd_data = p.data[k + 1] /\ k < Len(h.want) /\ h.want[k + 1] = {p.data[k + 1]}
      /\ Len(h.want) = n
  <2>1. k + 1 \in 1 .. n /\ j + 1 = 3 + (k + 1)
    BY <1>1, <1>5
  <2>2. Len(h.want) = n /\ \A i \in 1 .. n : h.want[i] = {p.data[i]}
    BY <1>2, <1>5, OwesAsked DEF Asked
  <2> QED BY <1>4, <1>5, <2>1, <2>2
<1>9. /\ q_execute_cnt' = n - (k + 1)
      /\ q_state' = IF n - (k + 1) = 0 THEN "S_DECODE" ELSE "S_ECHO_STG_1"
  <2>1. q_execute_cnt # 0 /\ q_execute_cnt - 1 = n - (k + 1)
    BY <1>1, <1>5
  <2> QED BY <2>1 DEF EchoByte, LessOne, Goto
<1>10. OnCourse(h, v, k + 1)'
  <2>1. CASE n - (k + 1) = 0
    <3>1. j + 1 = Len(PacketBytes(p)) /\ k + 1 = Len(h.want)
      BY <1>1, <1>5, <1>8, <2>1
    <3> QED BY <1>4, <1>6, <1>7, <1>9, <2>1, <3>1, Finished
  <2>2. CASE n - (k + 1) # 0
    <3>1. EchoAt(p, j + 1, k + 1)'
      BY <1>1, <1>5, <1>9, <2>2 DEF EchoAt
    <3> QED BY <1>4, <1>7, <1>9, <2>2, <3>1, Continued DEF AtStep
  <2> QED BY <2>1, <2>2
<1> QED BY <1>1, <1>6, <1>8, <1>10, Answering


(***************************************************************************)
(* Address and count of the four memory packets.  What its end leads to is *)
(* a hypothesis, so that one lemma serves them all.                        *)
(***************************************************************************)
LEMMA HeaderCourse ==
  ASSUME NEW brk, NEW h, NEW u, NEW k, NEW v, Setting(brk, h, u, k, v),
         NEW p \in Packets, NEW j \in Nat, Rest(p, j, u), Owes(h, p, j),
         NEW op \in ReadOps \cup WriteOps,
         NEW stg0 \in ByteStates \ WriteStates, NEW stg1 \in States \ {"S_DISABLED"},
         stg0 # "S_DECODE",
         NEW c \in {1, 2},
         NEW n, n = IF op \in ReadOps THEN p.n ELSE Len(p.data),
         HeaderAt(op, stg0, n, p, j, k), MemHeader(stg0, stg1, c),
         \A i : HeaderAt(op, stg0, n, p, i, k)' => AtStep(p, i, k)',
         p.op = op /\ k = 0 /\ n # 0 /\ q_state' = stg1 /\ q_execute_cnt' = c * n
           /\ q_addr' = p.addr => AtStep(p, 5, k)'
  PROVE  Advances(h, k, v)
<1> DEFINE a == p.addr
<1>1. /\ q_state = stg0 /\ k \in Nat /\ p.op = op /\ k = 0 /\ j \in 1 .. 4
      /\ q_decode_cnt = j - 1
      /\ u # <<>> /\ Head(u) = rd_data /\ v = Tail(u)
      /\ ram' = ram /\ vram' = vram /\ regs' = regs
  BY MemoriesKept DEF Setting, MemHeader, HeaderAt, rd_en
<1>2. rd_data = PacketBytes(p)[j + 1] /\ Rest(p, j + 1, v)
  BY <1>1, RestNext
<1>3. /\ n \in 0 .. Wide - 1 /\ a \in 0 .. Wide - 1
      /\ Len(PacketBytes(p)) = IF op \in ReadOps THEN 5 ELSE n + 5
      /\ HeaderBytes(PacketBytes(p), a, n)
  BY <1>1, PacketFacts, PacketLayout
     DEF Layout, ReadOps, WriteOps, OP_ECHO, OP_CPU_MEM_RD, OP_CPU_MEM_WR, OP_PPU_MEM_RD,
         OP_PPU_MEM_WR
<1>4. /\ a % Base \in Byte /\ LowByte(a % Base) = a % Base
      /\ Joined(a \div Base, a % Base) = a
      /\ n % Base \in Byte /\ LowByte(n % Base) = n % Base
      /\ Joined(n \div Base, n % Base) = n
  BY <1>3, TwoBytes
<1>5. NoSend /\ q_err_code'.opcode = q_err_code.opcode /\ MemoriesOK'
  BY ErrorsSame, MemoriesStep DEF MemHeader, Setting
<1>6. q_state' # "S_DISABLED" /\ Owes(h, p, j + 1)'
  <2>1. q_state' # "S_DISABLED"
    BY DEF MemHeader, Goto, ByteStates
  <2>2. j > 0 /\ j + 1 > 0 /\ j + 1 \in Nat /\ Taken(j + 1) = Taken(j)
    BY <1>1 DEF Taken
  <2>3. p.op # OP_CPU_REG_WR
    BY <1>1 DEF ReadOps, WriteOps, OP_CPU_REG_WR, OP_CPU_MEM_RD, OP_CPU_MEM_WR,
                OP_PPU_MEM_RD, OP_PPU_MEM_WR
  <2> QED BY <1>1, <1>5, <2>1, <2>2, <2>3, OwesKept
<1>7. CASE j \in 1 .. 3
  <2>1. q_state' = stg0 /\ q_decode_cnt' = j
    BY <1>1, <1>7 DEF MemHeader, Goto, NextDecodeCnt
  <2>2. CASE j = 1
    <3>1. q_addr' = a % Base
      BY <1>1, <1>2, <1>3, <2>2 DEF MemHeader, HeaderBytes
    <3>2. HeaderAt(op, stg0, n, p, j + 1, k)'
      BY <1>1, <2>1, <2>2, <3>1 DEF HeaderAt
    <3>3. OnCourse(h, v, k)'
      BY <1>2, <1>6, <3>2, Continued
    <3> QED BY <1>1, <1>5, <3>3, Silently
  <2>3. CASE j = 2
    <3>1. rd_data = a \div Base /\ q_addr = a % Base
      BY <1>2, <1>3, <2>3 DEF HeaderBytes, HeaderAt
    <3>2. q_addr' = Joined(rd_data, LowByte(q_addr))
      BY <1>1, <2>3 DEF MemHeader
    <3>3. q_addr' = a
      BY <1>4, <3>1, <3>2
    <3>4. HeaderAt(op, stg0, n, p, j + 1, k)'
      BY <1>1, <2>1, <2>3, <3>3 DEF HeaderAt
    <3>5. OnCourse(h, v, k)'
      BY <1>2, <1>6, <3>4, Continued
    <3> QED BY <1>1, <1>5, <3>5, Silently
  <2>4. CASE j = 3
    <3>1. q_addr' = a /\ q_execute_cnt' = n % Base
      BY <1>1, <1>2, <1>3, <2>4 DEF MemHeader, HeaderBytes, HeaderAt
    <3>2. HeaderAt(op, stg0, n, p, j + 1, k)'
      BY <1>1, <2>1, <2>4, <3>1 DEF HeaderAt
    <3>3. OnCourse(h, v, k)'
      BY <1>2, <1>6, <3>2, Continued
    <3> QED BY <1>1, <1>5, <3>3, Silently
  <2> QED BY <1>7, <2>2, <2>3, <2>4
<1>8. CASE j = 4
  <2>1. q_decode_cnt = 3 /\ rd_data = n \div Base /\ q_execute_cnt = n % Base /\ q_addr = a
    BY <1>1, <1>2, <1>3, <1>8 DEF HeaderBytes, HeaderAt
  <2>2. Joined(rd_data, LowByte(q_execute_cnt)) = n
    BY <1>4, <2>1
  <2>3. /\ q_addr' = a /\ q_execute_cnt' = c * n
        /\ q_state' = IF c * n # 0 THEN stg1 ELSE "S_DECODE"
    BY <2>1, <2>2 DEF MemHeader, Goto
  <2>4. c * n = 0 <=> n = 0
    BY <1>3, WideType
  <2>5. CASE n # 0
    <3>1. AtStep(p, 5, k)'
      BY <1>1, <2>3, <2>4, <2>5
    <3>2. OnCourse(h, v, k)'
      BY <1>2, <1>6, <1>8, <3>1, Continued
    <3> QED BY <1>1, <1>5, <3>2, Silently
  <2>6. CASE n = 0
    <3>1. j + 1 = Len(PacketBytes(p))
      BY <1>3, <1>8, <2>6
    <3>2. Len(h.want) = 0
      <4>1. Asked(p, h.want)
        BY OwesAsked
      <4> QED BY <1>1, <2>6, <4>1
              DEF Asked, ReadOps, WriteOps, OP_ECHO, OP_CPU_MEM_RD, OP_CPU_MEM_WR,
                  OP_PPU_MEM_RD, OP_PPU_MEM_WR, OP_CPU_REG_RD, OP_QUERY_DBG_BRK,
                  OP_QUERY_ERR_CODE
    <3>3. OnCourse(h, v, k)'
      BY <1>1, <1>2, <1>5, <1>6, <2>3, <2>4, <2>6, <3>1, <3>2, Finished
    <3> QED BY <1>1, <1>5, <3>3, Silently
  <2> QED BY <2>5, <2>6
<1> QED BY <1>1, <1>7, <1>8


(***************************************************************************)
(* The two clocks of a byte that is read.  On the second the memory has    *)
(* looked up the address of the first.                                     *)
(***************************************************************************)
LEMMA ReadUnderway ==
  ASSUME NEW brk, NEW h, NEW u, NEW k, NEW v, Setting(brk, h, u, k, v),
         NEW stg1 \in {"S_CPU_MEM_RD_STG_1", "S_PPU_MEM_RD_STG_1"}, q_state = stg1
  PROVE  \E p \in Packets : \E j \in Nat :
           /\ Rest(p, j, u) /\ Owes(h, p, j) /\ ReadAt(p.op, stg1, p, j, k)
           /\ p.op = IF stg1 = "S_CPU_MEM_RD_STG_1" THEN OP_CPU_MEM_RD ELSE OP_PPU_MEM_RD
<1>1. PICK p \in Packets, j \in Nat :
        Rest(p, j, u) /\ Owes(h, p, j) /\ AtStep(p, j, k) /\ ~StartAt(j, k)
  BY Underway
<1>2. CASE stg1 = "S_CPU_MEM_RD_STG_1"
  <2>1. ReadAt(OP_CPU_MEM_RD, stg1, p, j, k)
    BY <1>1, <1>2 DEF AtStep, EchoHeaderAt, EchoAt, HeaderAt, ReadAt, WriteAt, RegAt, OtherAt
  <2>2. p.op = OP_CPU_MEM_RD
    BY <2>1 DEF ReadAt
  <2> QED BY <1>1, <1>2, <2>1, <2>2
<1>3. CASE stg1 = "S_PPU_MEM_RD_STG_1"
  <2>1. ReadAt(OP_PPU_MEM_RD, stg1, p, j, k)
    BY <1>1, <1>3 DEF AtStep, EchoHeaderAt, EchoAt, HeaderAt, ReadAt, WriteAt, RegAt, OtherAt
  <2>2. p.op = OP_PPU_MEM_RD
    BY <2>1 DEF ReadAt
  <2> QED BY <1>1, <1>3, <2>1, <2>2
<1> QED BY <1>2, <1>3

LEMMA ReadAtStep ==
  ASSUME NEW p, NEW j, NEW k,
         NEW stg1 \in {"S_CPU_MEM_RD_STG_1", "S_PPU_MEM_RD_STG_1"}, ReadAt(p.op, stg1, p, j, k)',
         p.op = IF stg1 = "S_CPU_MEM_RD_STG_1" THEN OP_CPU_MEM_RD ELSE OP_PPU_MEM_RD
  PROVE  AtStep(p, j, k)'
<1>1. CASE stg1 = "S_CPU_MEM_RD_STG_1"
  BY <1>1 DEF AtStep, ReadAt
<1>2. CASE stg1 = "S_PPU_MEM_RD_STG_1"
  BY <1>2 DEF AtStep, ReadAt
<1> QED BY <1>1, <1>2

LEMMA ReadDummyCourse ==
  ASSUME NEW brk, NEW h, NEW u, NEW k, NEW v, Setting(brk, h, u, k, v),
         NEW stg1 \in {"S_CPU_MEM_RD_STG_1", "S_PPU_MEM_RD_STG_1"}, MemReadDummy(stg1)
  PROVE  Advances(h, k, v)
<1>1. /\ q_state = stg1 /\ k \in Nat /\ v = u /\ q_execute_cnt % 2 = 0
      /\ ram' = ram /\ vram' = vram /\ regs' = regs
      /\ q_state' = stg1 /\ q_addr' = q_addr /\ q_execute_cnt' = LessOne(q_execute_cnt)
  BY MemoriesKept DEF Setting, MemReadDummy, WriteStates, rd_en, ByteStates, States
<1>2. PICK p \in Packets, j \in Nat :
        /\ Rest(p, j, u) /\ Owes(h, p, j) /\ ReadAt(p.op, stg1, p, j, k)
        /\ p.op = IF stg1 = "S_CPU_MEM_RD_STG_1" THEN OP_CPU_MEM_RD ELSE OP_PPU_MEM_RD
  BY <1>1, ReadUnderway
<1> DEFINE left == p.n - k
<1>3. p.op \in ReadOps /\ p.op # OP_CPU_REG_WR
  BY <1>2 DEF ReadOps, OP_CPU_MEM_RD, OP_PPU_MEM_RD, OP_CPU_REG_WR
<1>4. left \in Nat /\ left >= 1 /\ q_execute_cnt = 2 * left
  <2>1. p.n \in Nat
    BY <1>3, PacketFacts, WideType
  <2>2. left \in Nat /\ left >= 1
    BY <1>1, <1>2, <2>1 DEF ReadAt
  <2>3. q_execute_cnt = 2 * left \/ q_execute_cnt = (2 * left) - 1
    BY <1>2 DEF ReadAt
  <2> HIDE DEF left
  <2>4. ((2 * left) - 1) % 2 = 1
    BY <2>2
  <2> QED BY <1>1, <2>2, <2>3, <2>4
<1>5. NoSend /\ q_err_code'.opcode = q_err_code.opcode
  BY ErrorsSame DEF MemReadDummy, Setting
<1>6. Owes(h, p, j)'
  <2>1. q_state' # "S_DISABLED"
    BY <1>1
  <2> QED BY <1>1, <1>2, <1>3, <1>5, <2>1, OwesKept
<1>7. ReadAt(p.op, stg1, p, j, k)'
  <2>1. q_execute_cnt' = 2 * left - 1
    BY <1>1, <1>4 DEF LessOne
  <2> QED BY <1>1, <1>2, <2>1 DEF ReadAt
<1>8. OnCourse(h, v, k)'
  BY <1>1, <1>2, <1>6, <1>7, ReadAtStep, Continued
<1> QED BY <1>1, <1>5, <1>8, Silently

LEMMA ReadByteCourse ==
  ASSUME NEW brk, NEW h, NEW u, NEW k, NEW v, Setting(brk, h, u, k, v),
         NEW stg1 \in {"S_CPU_MEM_RD_STG_1", "S_PPU_MEM_RD_STG_1"}, NEW din,
         din = IF stg1 = "S_CPU_MEM_RD_STG_1" THEN cpu_din ELSE ppu_vram_din,
         last_a = q_addr, MemReadByte(stg1, din)
  PROVE  Advances(h, k, v)
<1>1. /\ q_state = stg1 /\ k \in Nat /\ v = u /\ q_execute_cnt % 2 = 1
      /\ ram' = ram /\ vram' = vram /\ regs' = regs
      /\ Send(din) /\ q_addr' = NextAddr /\ q_execute_cnt' = LessOne(q_execute_cnt)
      /\ q_state' = IF q_execute_cnt' = 0 THEN "S_DECODE" ELSE stg1
  BY MemoriesKept DEF Setting, MemReadByte, WriteStates, rd_en, ByteStates, States, Goto
<1>2. PICK p \in Packets, j \in Nat :
        /\ Rest(p, j, u) /\ Owes(h, p, j) /\ ReadAt(p.op, stg1, p, j, k)
        /\ p.op = IF stg1 = "S_CPU_MEM_RD_STG_1" THEN OP_CPU_MEM_RD ELSE OP_PPU_MEM_RD
  BY <1>1, ReadUnderway
<1> DEFINE left == p.n - k
<1>3. p.op \in ReadOps /\ p.op # OP_CPU_REG_WR
  BY <1>2 DEF ReadOps, OP_CPU_MEM_RD, OP_PPU_MEM_RD, OP_CPU_REG_WR
<1>4. /\ p.n \in Nat /\ p.n <= Wide - 1 /\ p.addr \in Nat /\ k < p.n /\ q_addr = p.addr + k
      /\ p.addr + p.n <= Wide
      /\ p.op = OP_CPU_MEM_RD => p.addr + p.n <= PpuCtrl
  BY <1>2, <1>3, PacketFacts, WideType, ConstantFacts DEF ReadAt, ReadOps
<1>5. left \in Nat /\ left >= 1 /\ q_execute_cnt = 2 * left - 1
  <2>1. left \in Nat /\ left >= 1
    BY <1>1, <1>4
  <2>2. q_execute_cnt = 2 * left \/ q_execute_cnt = (2 * left) - 1
    BY <1>2 DEF ReadAt
  <2> HIDE DEF left
  <2>3. (2 * left) % 2 = 0
    BY <2>1
  <2> QED BY <1>1, <2>1, <2>2, <2>3
<1>6. k < Len(h.want) /\ Len(h.want) = p.n /\ din \in h.want[k + 1]
  <2>1. Asked(p, h.want)
    BY <1>2, OwesAsked
  <2>2. k + 1 \in 1 .. p.n /\ p.addr + (k + 1) - 1 = q_addr
    BY <1>1, <1>4
  <2>3. CASE stg1 = "S_CPU_MEM_RD_STG_1"
    <3>1. q_addr < PpuCtrl
      BY <1>1, <1>2, <1>4, <2>3, ConstantFacts, WideType
    <3>2. din = ram[q_addr % RamSize]
      BY <2>3, <3>1 DEF cpu_din
    <3>3. Len(h.want) = p.n /\ h.want[k + 1] = {ram[(p.addr + (k + 1) - 1) % RamSize]}
      BY <1>2, <2>1, <2>2, <2>3 DEF Asked
    <3> QED BY <1>4, <2>2, <3>2, <3>3
  <2>4. CASE stg1 = "S_PPU_MEM_RD_STG_1"
    <3>1. din = vram[q_addr % VramSize]
      BY <2>4 DEF ppu_vram_din
    <3>2. Len(h.want) = p.n /\ h.want[k + 1] = {vram[(p.addr + (k + 1) - 1) % VramSize]}
      BY <1>2, <2>1, <2>2, <2>4 DEF Asked
    <3> QED BY <1>4, <2>2, <3>1, <3>2
  <2> QED BY <2>3, <2>4
<1>7. q_err_code'.opcode = q_err_code.opcode /\ MemoriesOK'
  BY ErrorsSame, MemoriesStep DEF MemReadByte, Setting
<1>8. q_state' # "S_DISABLED" /\ Owes(h, p, j)'
  <2>1. q_state' # "S_DISABLED"
    BY <1>1
  <2> QED BY <1>1, <1>2, <1>3, <1>7, <2>1, OwesKept
<1>9. q_execute_cnt' = 2 * (left - 1)
  <2> HIDE DEF left
  <2> QED BY <1>1, <1>5 DEF LessOne
<1>10. OnCourse(h, v, k + 1)'
  <2>1. CASE left = 1
    <3>1. q_state' = "S_DECODE" /\ k + 1 = Len(h.want)
      BY <1>1, <1>4, <1>6, <1>9, <2>1
    <3>2. j = Len(PacketBytes(p))
      <4>1. j = 5
        BY <1>2 DEF ReadAt
      <4> QED BY <1>3, <4>1, PacketLayout DEF Layout
    <3> QED BY <1>1, <1>2, <1>7, <1>8, <3>1, <3>2, Finished
  <2>2. CASE left # 1
    <3>1. q_execute_cnt' = 2 * (p.n - (k + 1)) /\ k + 1 < p.n /\ q_state' = stg1
      BY <1>1, <1>4, <1>5, <1>9, <2>2
    <3>2. q_addr' = p.addr + (k + 1)
      BY <1>1, <1>4, <3>1, WideType DEF NextAddr
    <3>3. ReadAt(p.op, stg1, p, j, k + 1)'
      BY <1>2, <3>1, <3>2 DEF ReadAt
    <3> QED BY <1>1, <1>2, <1>8, <3>3, ReadAtStep, Continued
  <2> QED BY <2>1, <2>2
<1> QED BY <1>1, <1>6, <1>10, Answering


(* A byte that is written leaves the image that h still waits for. *)
LEMMA OwesWritten ==
  ASSUME NEW p \in Packets, NEW h, NEW j \in Nat, Owes(h, p, j), MemoriesOK,
         p.op \in WriteOps, j >= 5, j < Len(p.data) + 5,
         IF p.op = OP_CPU_MEM_WR
           THEN /\ ram' = [ram EXCEPT ![(p.addr + (j - 5)) % RamSize] = p.data[(j - 5) + 1]]
                /\ vram' = vram
           ELSE /\ vram' = [vram EXCEPT ![(p.addr + (j - 5)) % VramSize] = p.data[(j - 5) + 1]]
                /\ ram' = ram,
         regs' = regs, q_state' # "S_DISABLED", q_err_code'.opcode = q_err_code.opcode
  PROVE  Owes(h, p, j + 1)'
<1> DEFINE m == j - 5
<1>1. p.data \in Seq(Byte) /\ p.addr \in Nat /\ m \in Nat /\ m < Len(p.data)
  BY PacketFacts, WideType DEF WriteOps
<1>2. Taken(j) = m /\ Taken(j + 1) = m + 1
  BY DEF Taken
<1> HIDE DEF m
<1>3. /\ p.op = OP_CPU_MEM_WR => h.ram = StoredFrom(ram', RamSize, p.addr, p.data, m + 1)
      /\ p.op # OP_CPU_MEM_WR => h.ram = ram'
  <2>1. CASE p.op = OP_CPU_MEM_WR
    <3>1. ram' = [ram EXCEPT ![(p.addr + m) % RamSize] = p.data[m + 1]]
      BY <2>1 DEF m
    <3>2. RamSize \in Nat \ {0} /\ ram \in [0 .. RamSize - 1 -> Byte]
      BY LinkFacts DEF MemoriesOK
    <3>3. SameImage(ram', ram, RamSize, p.addr, p.data, m)
      BY <1>1, <3>1, <3>2, OneWritten, Zenon
    <3>4. h.ram = StoredFrom(ram, RamSize, p.addr, p.data, m)
      BY <1>2, <2>1 DEF Owes
    <3> QED BY <2>1, <3>3, <3>4 DEF SameImage
  <2>2. CASE p.op # OP_CPU_MEM_WR
    BY <2>2 DEF Owes
  <2> QED BY <2>1, <2>2
<1>4. /\ p.op = OP_PPU_MEM_WR => h.vram = StoredFrom(vram', VramSize, p.addr, p.data, m + 1)
      /\ p.op # OP_PPU_MEM_WR => h.vram = vram'
  <2>1. CASE p.op = OP_PPU_MEM_WR
    <3>1. vram' = [vram EXCEPT ![(p.addr + m) % VramSize] = p.data[m + 1]]
      BY <2>1 DEF m, OP_CPU_MEM_WR, OP_PPU_MEM_WR
    <3>2. VramSize \in Nat \ {0} /\ vram \in [0 .. VramSize - 1 -> Byte]
      BY LinkFacts DEF MemoriesOK
    <3>3. SameImage(vram', vram, VramSize, p.addr, p.data, m)
      BY <1>1, <3>1, <3>2, OneWritten, Zenon
    <3>4. h.vram = StoredFrom(vram, VramSize, p.addr, p.data, m)
      BY <1>2, <2>1 DEF Owes
    <3> QED BY <2>1, <3>3, <3>4 DEF SameImage
  <2>2. CASE p.op # OP_PPU_MEM_WR
    BY <2>2 DEF Owes, WriteOps
  <2> QED BY <2>1, <2>2
<1>5. PICK r \in BOOLEAN : h.want = Answer(p, Now(r))
  BY DEF Owes
<1>6. p.op \notin {OP_ECHO, OP_CPU_MEM_RD, OP_PPU_MEM_RD, OP_CPU_REG_RD, OP_QUERY_DBG_BRK,
                   OP_QUERY_ERR_CODE, OP_CPU_REG_WR, OP_DBG_RUN}
  BY DEF WriteOps, OP_CPU_MEM_WR, OP_PPU_MEM_WR, OP_ECHO, OP_CPU_MEM_RD, OP_PPU_MEM_RD,
         OP_CPU_REG_RD, OP_QUERY_DBG_BRK, OP_QUERY_ERR_CODE, OP_CPU_REG_WR, OP_DBG_RUN
<1>7. Answer(p, Now(r))' = Answer(p, Now(r))
  BY <1>6 DEF Answer
<1>8. j # 0 /\ j + 1 # 0
  OBVIOUS
<1>9. h.unknown <=> q_err_code'.opcode \/ (j + 1 = 0 /\ p.op > OP_CART_SET_CFG)
  BY <1>8 DEF Owes
<1>10. h.regs = regs'
  BY <1>6 DEF Owes
<1> QED BY <1>2, <1>3, <1>4, <1>5, <1>6, <1>7, <1>9, <1>10 DEF Owes

LEMMA WriteByteCourse ==
  ASSUME NEW brk, NEW h, NEW u, NEW k, NEW v, Setting(brk, h, u, k, v),
         NEW op \in WriteOps, NEW stg1,
         stg1 = IF op = OP_CPU_MEM_WR THEN "S_CPU_MEM_WR_STG_1" ELSE "S_PPU_MEM_WR_STG_1",
         MemWriteByte(stg1)
  PROVE  Advances(h, k, v)
<1>1. /\ q_state = stg1 /\ ~rx_empty /\ k \in Nat
      /\ u # <<>> /\ Head(u) = rd_data /\ v = Tail(u)
      /\ q_execute_cnt' = LessOne(q_execute_cnt) /\ q_addr' = NextAddr
      /\ q_state' = IF q_execute_cnt' = 0 THEN "S_DECODE" ELSE stg1
  BY DEF Setting, MemWriteByte, rd_en, ByteStates, States, Goto
<1>2. PICK p \in Packets, j \in Nat :
        Rest(p, j, u) /\ Owes(h, p, j) /\ AtStep(p, j, k) /\ ~StartAt(j, k)
  BY <1>1, Underway
<1> DEFINE n == Len(p.data)
           m == j - 5
<1>3. WriteAt(op, stg1, p, j, k)
  <2>1. CASE op = OP_CPU_MEM_WR
    BY <1>1, <1>2, <2>1
       DEF AtStep, EchoHeaderAt, EchoAt, HeaderAt, ReadAt, WriteAt, RegAt, OtherAt
  <2>2. CASE op = OP_PPU_MEM_WR
    BY <1>1, <1>2, <2>2
       DEF AtStep, EchoHeaderAt, EchoAt, HeaderAt, ReadAt, WriteAt, RegAt, OtherAt,
           OP_CPU_MEM_WR, OP_PPU_MEM_WR
  <2> QED BY <2>1, <2>2 DEF WriteOps
<1>4. rd_data = PacketBytes(p)[j + 1] /\ Rest(p, j + 1, v)
  BY <1>1, <1>2, RestNext
<1>5. /\ p.op = op /\ k = 0 /\ n \in Nat /\ m \in Nat /\ m < n /\ p.addr \in Nat
      /\ q_execute_cnt = n - m /\ q_addr = p.addr + m /\ p.addr + n <= Wide
      /\ Len(PacketBytes(p)) = n + 5
  <2>1. p.op \in WriteOps /\ p.op = op
    BY <1>3 DEF WriteAt
  <2>2. n \in Nat /\ p.addr \in Nat /\ Len(PacketBytes(p)) = n + 5
    BY <2>1, PacketFacts, PacketLayout, WideType DEF Layout, WriteOps
  <2>3. p.addr + n <= Wide
    BY <2>1, <2>2, PacketFacts, WideType, ConstantFacts DEF WriteOps
  <2> QED BY <1>3, <2>1, <2>2, <2>3 DEF WriteAt
<1>6. rd_data = p.data[m + 1]
  <2>1. m + 1 \in 1 .. n /\ j + 1 = 5 + (m + 1)
    BY <1>5
  <2>2. \A i \in 1 .. n : PacketBytes(p)[5 + i] = p.data[i]
    BY <1>5, PacketLayout DEF Layout
  <2> QED BY <1>4, <2>1, <2>2
<1>7. IF p.op = OP_CPU_MEM_WR
        THEN ram' = [ram EXCEPT ![q_addr % RamSize] = rd_data] /\ vram' = vram
        ELSE vram' = [vram EXCEPT ![q_addr % VramSize] = rd_data] /\ ram' = ram
  <2>1. CASE p.op = OP_CPU_MEM_WR
    <3>1. q_addr < PpuCtrl
      BY <1>5, <2>1, PacketFacts, ConstantFacts, WideType
    <3>2. /\ ~cpu_r_nw /\ cpu_dout = rd_data /\ ~ppu_vram_wr
      BY <1>1, <1>5, <2>1 DEF cpu_r_nw, MemWrite, cpu_dout, PpuRegZero, ppu_vram_wr
    <3> QED BY <2>1, <3>1, <3>2 DEF Setting, Memories
  <2>2. CASE p.op # OP_CPU_MEM_WR
    <3>1. cpu_r_nw /\ ppu_vram_wr
      BY <1>1, <1>5, <2>2 DEF cpu_r_nw, MemWrite, cpu_dout, PpuRegZero, ppu_vram_wr
    <3> QED BY <2>2, <3>1 DEF Setting, Memories
  <2> QED BY <2>1, <2>2
<1>8. NoSend /\ q_err_code'.opcode = q_err_code.opcode /\ MemoriesOK' /\ regs' = regs
  <2>1. regs' = regs
    BY <1>1 DEF Setting, Memories, cpu_dbgreg_wr
  <2> QED BY <2>1, ErrorsSame, MemoriesStep DEF MemWriteByte, Setting
<1>9. Owes(h, p, j + 1)'
  <2>1. q_state' # "S_DISABLED" /\ p.op \in WriteOps /\ j >= 5 /\ j < n + 5
    BY <1>1, <1>3, <1>5 DEF WriteAt
  <2>2. MemoriesOK
    BY DEF Setting
  <2> QED BY <1>2, <1>5, <1>6, <1>7, <1>8, <2>1, <2>2, OwesWritten
<1>10. q_execute_cnt' = n - (m + 1)
  BY <1>5, <1>1 DEF LessOne
<1>11. OnCourse(h, v, k)'
  <2>1. CASE n = m + 1
    <3>1. q_state' = "S_DECODE" /\ j + 1 = Len(PacketBytes(p))
      BY <1>1, <1>5, <1>10, <2>1
    <3>2. k = Len(h.want)
      <4>1. Asked(p, h.want)
        BY <1>2, OwesAsked
      <4>2. Len(h.want) = 0
        BY <1>5, <4>1
           DEF Asked, ReadOps, WriteOps, OP_ECHO, OP_CPU_MEM_RD, OP_CPU_MEM_WR,
               OP_PPU_MEM_RD, OP_PPU_MEM_WR, OP_CPU_REG_RD, OP_QUERY_DBG_BRK,
               OP_QUERY_ERR_CODE
      <4> QED BY <1>5, <4>2
    <3> QED BY <1>4, <1>8, <1>9, <3>1, <3>2, Finished
  <2>2. CASE n # m + 1
    <3>1. q_state' = stg1 /\ m + 1 < n
      <4>1. m \in Nat /\ n \in Nat /\ m < n
        BY <1>5
      <4> HIDE DEF m, n
      <4>2. m + 1 < n /\ n - (m + 1) # 0
        BY <2>2, <4>1
      <4>3. q_execute_cnt' # 0
        BY <1>10, <4>2
      <4> QED BY <1>1, <4>2, <4>3
    <3>2. q_addr' = p.addr + (m + 1)
      <4>1. q_addr # Wide - 1 /\ q_addr + 1 = p.addr + (m + 1)
        <5> HIDE DEF m, n
        <5> QED BY <1>5, <3>1, WideType
      <4> QED BY <1>1, <4>1 DEF NextAddr
    <3>3. WriteAt(op, stg1, p, j + 1, k)'
      BY <1>3, <1>5, <1>10, <3>1, <3>2 DEF WriteAt
    <3>4. AtStep(p, j + 1, k)'
      <4>1. CASE op = OP_CPU_MEM_WR
        BY <3>3, <4>1 DEF AtStep
      <4>2. CASE op = OP_PPU_MEM_WR
        BY <3>3, <4>2 DEF AtStep, OP_CPU_MEM_WR, OP_PPU_MEM_WR
      <4> QED BY <4>1, <4>2 DEF WriteOps
    <3> QED BY <1>4, <1>9, <3>4, Continued
  <2> QED BY <2>1, <2>2
<1> QED BY <1>1, <1>8, <1>11, Silently


(* The CPU registers.  A read selects by the byte that has just come. *)
LEMMA RegReadCourse ==
  ASSUME NEW brk, NEW h, NEW u, NEW k, NEW v, Setting(brk, h, u, k, v), CpuRegRd(dbgreg_in)
  PROVE  Advances(h, k, v)
<1>1. /\ q_state = "S_CPU_REG_RD" /\ k \in Nat
      /\ u # <<>> /\ Head(u) = rd_data /\ v = Tail(u)
      /\ ram' = ram /\ vram' = vram /\ regs' = regs
      /\ q_state' = "S_DECODE" /\ Send(dbgreg_in)
  BY MemoriesKept DEF Setting, CpuRegRd, WriteStates, rd_en, ByteStates, States, Goto
<1>2. PICK p \in Packets, j \in Nat :
        Rest(p, j, u) /\ Owes(h, p, j) /\ AtStep(p, j, k) /\ ~StartAt(j, k)
  BY <1>1, Underway
<1>3. p.op = OP_CPU_REG_RD /\ j = 1 /\ k = 0
  BY <1>1, <1>2 DEF AtStep, EchoHeaderAt, EchoAt, HeaderAt, ReadAt, WriteAt, RegAt, OtherAt
<1>4. rd_data = PacketBytes(p)[j + 1] /\ Rest(p, j + 1, v)
  BY <1>1, <1>2, RestNext
<1>5. Len(PacketBytes(p)) = 2 /\ PacketBytes(p)[2] = p.sel /\ p.sel \in 0 .. 6
  BY <1>3, PacketFacts, PacketLayout DEF Layout
<1>6. dbgreg_in = regs[p.sel]
  <2>1. rd_data = p.sel /\ p.sel % 16 = p.sel
    BY <1>3, <1>4, <1>5
  <2>2. ~cpu_dbgreg_wr
    BY <1>1 DEF cpu_dbgreg_wr
  <2> QED BY <2>1, <2>2 DEF dbgreg_in, cpu_dbgreg_sel
<1>7. Len(h.want) = 1 /\ h.want[1] = {regs[p.sel]}
  <2>1. Asked(p, h.want)
    BY <1>2, OwesAsked
  <2> QED BY <1>3, <2>1 DEF Asked
<1>8. q_err_code'.opcode = q_err_code.opcode /\ MemoriesOK'
  BY ErrorsSame, MemoriesStep DEF CpuRegRd, Setting
<1>9. Owes(h, p, j + 1)'
  <2>1. j + 1 \in Nat /\ j + 1 > 0 /\ j > 0 /\ q_state' # "S_DISABLED"
    BY <1>1, <1>3
  <2>2. p.op \notin WriteOps /\ p.op # OP_CPU_REG_WR
    BY <1>3 DEF WriteOps, OP_CPU_REG_RD, OP_CPU_REG_WR, OP_CPU_MEM_WR, OP_PPU_MEM_WR
  <2> QED BY <1>1, <1>2, <1>8, <2>1, <2>2, OwesKept
<1>10. OnCourse(h, v, k + 1)'
  <2>1. j + 1 = Len(PacketBytes(p)) /\ k + 1 = Len(h.want)
    BY <1>3, <1>5, <1>7
  <2> QED BY <1>1, <1>4, <1>8, <1>9, <2>1, Finished
<1>11. k < Len(h.want) /\ dbgreg_in \in h.want[k + 1]
  BY <1>3, <1>6, <1>7
<1> QED BY <1>1, <1>10, <1>11, Answering

LEMMA RegSelectCourse ==
  ASSUME NEW brk, NEW h, NEW u, NEW k, NEW v, Setting(brk, h, u, k, v), CpuRegWrSelect
  PROVE  Advances(h, k, v)
<1>1. /\ q_state = "S_CPU_REG_WR_STG_0" /\ k \in Nat
      /\ u # <<>> /\ Head(u) = rd_data /\ v = Tail(u)
      /\ ram' = ram /\ vram' = vram /\ regs' = regs
      /\ q_state' = "S_CPU_REG_WR_STG_1" /\ NoSend /\ q_addr' = rd_data
  BY MemoriesKept DEF Setting, CpuRegWrSelect, WriteStates, rd_en, ByteStates, States, Goto
<1>2. PICK p \in Packets, j \in Nat :
        Rest(p, j, u) /\ Owes(h, p, j) /\ AtStep(p, j, k) /\ ~StartAt(j, k)
  BY <1>1, Underway
<1>3. p.op = OP_CPU_REG_WR /\ j = 1 /\ k = 0
  BY <1>1, <1>2 DEF AtStep, EchoHeaderAt, EchoAt, HeaderAt, ReadAt, WriteAt, RegAt, OtherAt
<1>4. rd_data = PacketBytes(p)[j + 1] /\ Rest(p, j + 1, v)
  BY <1>1, <1>2, RestNext
<1>5. rd_data = p.sel
  BY <1>3, <1>4, PacketLayout DEF Layout
<1>6. q_err_code'.opcode = q_err_code.opcode
  BY ErrorsSame DEF CpuRegWrSelect, Setting
<1>7. Owes(h, p, j + 1)'
  <2>1. /\ j + 1 \in Nat /\ j + 1 > 0 /\ j > 0 /\ j + 1 < 3 /\ j < 3
        /\ q_state' # "S_DISABLED"
    BY <1>1, <1>3
  <2>2. p.op \notin WriteOps
    BY <1>3 DEF WriteOps, OP_CPU_REG_WR, OP_CPU_MEM_WR, OP_PPU_MEM_WR
  <2> QED BY <1>1, <1>2, <1>6, <2>1, <2>2, OwesKept
<1>8. RegAt(p, j + 1, k)'
  BY <1>1, <1>3, <1>5 DEF RegAt
<1>9. OnCourse(h, v, k)'
  BY <1>4, <1>7, <1>8, Continued DEF AtStep
<1> QED BY <1>1, <1>9, Silently

LEMMA RegWriteCourse ==
  ASSUME NEW brk, NEW h, NEW u, NEW k, NEW v, Setting(brk, h, u, k, v), CpuRegWrByte
  PROVE  Advances(h, k, v)
<1>1. /\ q_state = "S_CPU_REG_WR_STG_1" /\ k \in Nat /\ ~rx_empty
      /\ u # <<>> /\ Head(u) = rd_data /\ v = Tail(u)
      /\ q_state' = "S_DECODE" /\ NoSend
  BY DEF Setting, CpuRegWrByte, rd_en, ByteStates, States, Goto
<1>2. PICK p \in Packets, j \in Nat :
        Rest(p, j, u) /\ Owes(h, p, j) /\ AtStep(p, j, k) /\ ~StartAt(j, k)
  BY <1>1, Underway
<1>3. p.op = OP_CPU_REG_WR /\ j = 2 /\ k = 0 /\ q_addr = p.sel
  BY <1>1, <1>2 DEF AtStep, EchoHeaderAt, EchoAt, HeaderAt, ReadAt, WriteAt, RegAt, OtherAt
<1>4. rd_data = PacketBytes(p)[j + 1] /\ Rest(p, j + 1, v)
  BY <1>1, <1>2, RestNext
<1>5. Len(PacketBytes(p)) = 3 /\ rd_data = p.val /\ p.sel \in 0 .. 6
  BY <1>3, <1>4, PacketFacts, PacketLayout DEF Layout
<1>6. /\ ram' = ram /\ vram' = vram
      /\ regs' = [regs EXCEPT ![p.sel] = RegWritten(p.sel, @, p.val)]
  <2>1. cpu_r_nw /\ ~ppu_vram_wr /\ cpu_dbgreg_wr
    BY <1>1 DEF cpu_r_nw, MemWrite, PpuRegZero, ppu_vram_wr, cpu_dbgreg_wr
  <2>2. p.sel % 16 = p.sel
    BY <1>5
  <2>3. cpu_dbgreg_sel = p.sel
    BY <1>3, <2>1, <2>2 DEF cpu_dbgreg_sel
  <2> QED BY <1>5, <2>1, <2>3 DEF Setting, Memories, SetReg
<1>7. q_err_code'.opcode = q_err_code.opcode /\ MemoriesOK'
  BY ErrorsSame, MemoriesStep DEF CpuRegWrByte, Setting
<1>8. Owes(h, p, j + 1)'
  <2>1. PICK r \in BOOLEAN : h.want = Answer(p, Now(r))
    BY <1>2 DEF Owes
  <2>2. Answer(p, Now(r))' = Answer(p, Now(r))
    BY <1>3 DEF Answer, OP_CPU_REG_WR, OP_ECHO, OP_CPU_MEM_RD, OP_PPU_MEM_RD, OP_CPU_REG_RD,
               OP_QUERY_DBG_BRK, OP_QUERY_ERR_CODE
  <2>3. h.regs = regs' /\ h.ram = ram' /\ h.vram = vram'
    BY <1>2, <1>3, <1>6 DEF Owes, OP_CPU_REG_WR, OP_CPU_MEM_WR, OP_PPU_MEM_WR
  <2>4. h.unknown <=> q_err_code'.opcode
    BY <1>2, <1>3, <1>7 DEF Owes
  <2>5. ~(j + 1 < 3) /\ j + 1 # 0
    BY <1>3
  <2> QED BY <1>1, <1>3, <2>1, <2>2, <2>3, <2>4, <2>5
          DEF Owes, OP_CPU_REG_WR, OP_CPU_MEM_WR, OP_PPU_MEM_WR, OP_DBG_RUN
<1>9. OnCourse(h, v, k)'
  <2>1. j + 1 = Len(PacketBytes(p))
    BY <1>3, <1>5
  <2>2. k = Len(h.want)
    <3>1. Asked(p, h.want)
      BY <1>2, OwesAsked
    <3> QED BY <1>3, <3>1
            DEF Asked, ReadOps, OP_CPU_REG_WR, OP_ECHO, OP_CPU_MEM_RD, OP_PPU_MEM_RD,
                OP_CPU_REG_RD, OP_QUERY_DBG_BRK, OP_QUERY_ERR_CODE
  <2> QED BY <1>1, <1>4, <1>7, <1>8, <2>1, <2>2, Finished
<1> QED BY <1>1, <1>9, Silently


(* The error code: no parity error on this line. *)
LEMMA ErrCodeCourse ==
  ASSUME NEW brk, NEW h, NEW u, NEW k, NEW v, Setting(brk, h, u, k, v), QueryErrCode,
         q_err_code.parity = FALSE
  PROVE  Advances(h, k, v)
<1>1. /\ q_state = "S_QUERY_ERR_CODE" /\ k \in Nat /\ v = u
      /\ ram' = ram /\ vram' = vram /\ regs' = regs
      /\ q_state' = "S_DECODE" /\ Send(ErrByte)
  BY MemoriesKept DEF Setting, QueryErrCode, WriteStates, rd_en, ByteStates, States, Goto
<1>2. PICK p \in Packets, j \in Nat :
        Rest(p, j, u) /\ Owes(h, p, j) /\ AtStep(p, j, k) /\ ~StartAt(j, k)
  BY <1>1, Underway
<1>3. p.op = OP_QUERY_ERR_CODE /\ j = 1 /\ k = 0
  BY <1>1, <1>2 DEF AtStep, EchoHeaderAt, EchoAt, HeaderAt, ReadAt, WriteAt, RegAt, OtherAt
<1>4. j = Len(PacketBytes(p))
  BY <1>3, PacketLayout
     DEF Layout, ReadOps, WriteOps, OP_QUERY_ERR_CODE, OP_ECHO, OP_CPU_MEM_RD, OP_CPU_MEM_WR,
         OP_PPU_MEM_RD, OP_PPU_MEM_WR, OP_CPU_REG_RD, OP_CPU_REG_WR, OP_CART_SET_CFG
<1>5. Len(h.want) = 1 /\ ErrByte \in h.want[1]
  <2>1. Asked(p, h.want)
    BY <1>2, OwesAsked
  <2>2. Len(h.want) = 1 /\ h.want[1] = {IF q_err_code.opcode THEN 2 ELSE 0}
    BY <1>3, <2>1 DEF Asked
  <2> QED BY <2>2 DEF ErrByte
<1>6. q_err_code'.opcode = q_err_code.opcode /\ MemoriesOK'
  BY ErrorsSame, MemoriesStep DEF QueryErrCode, Setting
<1>7. Owes(h, p, j)'
  <2>1. q_state' # "S_DISABLED"
    BY <1>1
  <2> QED BY <1>1, <1>2, <1>3, <1>6, <2>1, OwesKept
<1>8. OnCourse(h, v, k + 1)'
  <2>1. k + 1 = Len(h.want)
    BY <1>3, <1>5
  <2> QED BY <1>1, <1>2, <1>4, <1>6, <1>7, <2>1, Finished
<1>9. k < Len(h.want) /\ ErrByte \in h.want[k + 1]
  BY <1>3, <1>5
<1> QED BY <1>1, <1>8, <1>9, Answering

(* PPU_DISABLE writes beyond the CPU memory. *)
LEMMA DisablePpuCourse ==
  ASSUME NEW brk, NEW h, NEW u, NEW k, NEW v, Setting(brk, h, u, k, v), PpuDisable
  PROVE  Advances(h, k, v)
<1>1. /\ q_state = "S_PPU_DISABLE" /\ k \in Nat /\ v = u
      /\ q_state' = IF q_decode_cnt = 5 THEN "S_DECODE" ELSE "S_PPU_DISABLE"
      /\ NoSend
  BY DEF Setting, PpuDisable, rd_en, ByteStates, States, Goto
<1>2. PICK p \in Packets, j \in Nat :
        Rest(p, j, u) /\ Owes(h, p, j) /\ AtStep(p, j, k) /\ ~StartAt(j, k)
  BY <1>1, Underway
<1>3. /\ p.op = OP_PPU_DISABLE /\ j = 1 /\ k = 0 /\ q_decode_cnt \in 0 .. 5
      /\ q_decode_cnt \in {1, 3} => q_addr >= PpuCtrl
  BY <1>1, <1>2 DEF AtStep, EchoHeaderAt, EchoAt, HeaderAt, ReadAt, WriteAt, RegAt, OtherAt
<1>4. ram' = ram /\ vram' = vram /\ regs' = regs
  <2>1. ~ppu_vram_wr /\ ~cpu_dbgreg_wr
    BY <1>1 DEF ppu_vram_wr, cpu_dbgreg_wr
  <2>2. cpu_r_nw \/ ~(q_addr < PpuCtrl)
    <3>1. q_addr \in Nat /\ PpuCtrl \in Nat
      BY ConstantFacts, WideType DEF Setting, IInv, RegsOK
    <3> QED BY <1>1, <1>3, <3>1 DEF cpu_r_nw, MemWrite, PpuRegZero
  <2> QED BY <2>1, <2>2 DEF Setting, Memories
<1>5. q_err_code'.opcode = q_err_code.opcode /\ MemoriesOK'
  BY ErrorsSame, MemoriesStep DEF PpuDisable, Setting
<1>6. Owes(h, p, j)'
  <2>1. q_state' # "S_DISABLED"
    BY <1>1
  <2> QED BY <1>2, <1>3, <1>4, <1>5, <2>1, OwesKept
<1>7. OnCourse(h, v, k)'
  <2>1. CASE q_decode_cnt = 5
    <3>1. j = Len(PacketBytes(p))
      BY <1>3, PacketLayout
         DEF Layout, ReadOps, WriteOps, OP_PPU_DISABLE, OP_ECHO, OP_CPU_MEM_RD, OP_CPU_MEM_WR,
             OP_PPU_MEM_RD, OP_PPU_MEM_WR, OP_CPU_REG_RD, OP_CPU_REG_WR, OP_CART_SET_CFG
    <3>2. k = Len(h.want)
      <4>1. Asked(p, h.want)
        BY <1>2, OwesAsked
      <4> QED BY <1>3, <4>1
              DEF Asked, ReadOps, OP_PPU_DISABLE, OP_ECHO, OP_CPU_MEM_RD, OP_PPU_MEM_RD,
                  OP_CPU_REG_RD, OP_QUERY_DBG_BRK, OP_QUERY_ERR_CODE
    <3> QED BY <1>1, <1>2, <1>5, <1>6, <2>1, <3>1, <3>2, Finished
  <2>2. CASE q_decode_cnt # 5
    <3>1. q_decode_cnt' = q_decode_cnt + 1
      BY <1>3, <2>2 DEF PpuDisable, NextDecodeCnt
    <3>2. q_decode_cnt' \in {1, 3} => q_addr' >= PpuCtrl
      <4>1. q_decode_cnt = 0 => q_addr' = PpuCtrl
        BY DEF PpuDisable
      <4>2. q_decode_cnt = 2 => q_addr' = PpuCtrl + 1
        BY DEF PpuDisable
      <4>3. q_decode_cnt' \in {1, 3} => q_decode_cnt \in {0, 2}
        BY <1>3, <3>1
      <4> QED BY <4>1, <4>2, <4>3, ConstantFacts, WideType
    <3>3. OtherAt(p, j, k)'
      BY <1>1, <1>3, <2>2, <3>1, <3>2 DEF OtherAt
    <3> QED BY <1>1, <1>2, <1>6, <3>3, Continued DEF AtStep
  <2> QED BY <2>1, <2>2
<1> QED BY <1>1, <1>7, Silently

LEMMA CartStartCourse ==
  ASSUME NEW brk, NEW h, NEW u, NEW k, NEW v, Setting(brk, h, u, k, v), CartSetCfgStart
  PROVE  Advances(h, k, v)
<1>1. /\ q_state = "S_CART_SET_CFG_STG_0" /\ k \in Nat /\ v = u
      /\ ram' = ram /\ vram' = vram /\ regs' = regs
      /\ q_state' = "S_CART_SET_CFG_STG_1" /\ q_execute_cnt' = 4 /\ NoSend
  BY MemoriesKept DEF Setting, CartSetCfgStart, WriteStates, rd_en, ByteStates, States, Goto
<1>2. PICK p \in Packets, j \in Nat :
        Rest(p, j, u) /\ Owes(h, p, j) /\ AtStep(p, j, k) /\ ~StartAt(j, k)
  BY <1>1, Underway
<1>3. p.op = OP_CART_SET_CFG /\ j = 1 /\ k = 0
  BY <1>1, <1>2 DEF AtStep, EchoHeaderAt, EchoAt, HeaderAt, ReadAt, WriteAt, RegAt, OtherAt
<1>4. q_err_code'.opcode = q_err_code.opcode
  BY ErrorsSame DEF CartSetCfgStart, Setting
<1>5. Owes(h, p, j)'
  <2>1. q_state' # "S_DISABLED"
    BY <1>1
  <2> QED BY <1>1, <1>2, <1>3, <1>4, <2>1, OwesKept
<1>6. OtherAt(p, j, k)'
  BY <1>1, <1>3 DEF OtherAt
<1>7. OnCourse(h, v, k)'
  BY <1>1, <1>2, <1>5, <1>6, Continued DEF AtStep
<1> QED BY <1>1, <1>7, Silently

LEMMA CartByteCourse ==
  ASSUME NEW brk, NEW h, NEW u, NEW k, NEW v, Setting(brk, h, u, k, v), CartSetCfgByte
  PROVE  Advances(h, k, v)
<1>1. /\ q_state = "S_CART_SET_CFG_STG_1" /\ k \in Nat
      /\ u # <<>> /\ Head(u) = rd_data /\ v = Tail(u)
      /\ ram' = ram /\ vram' = vram /\ regs' = regs /\ NoSend
      /\ q_execute_cnt' = LessOne(q_execute_cnt)
      /\ q_state' = IF q_execute_cnt = 0 THEN "S_DECODE" ELSE "S_CART_SET_CFG_STG_1"
  BY MemoriesKept DEF Setting, CartSetCfgByte, WriteStates, rd_en, ByteStates, States, Goto
<1>2. PICK p \in Packets, j \in Nat :
        Rest(p, j, u) /\ Owes(h, p, j) /\ AtStep(p, j, k) /\ ~StartAt(j, k)
  BY <1>1, Underway
<1>3. p.op = OP_CART_SET_CFG /\ j \in 1 .. 5 /\ k = 0 /\ q_execute_cnt = 5 - j
  BY <1>1, <1>2 DEF AtStep, EchoHeaderAt, EchoAt, HeaderAt, ReadAt, WriteAt, RegAt, OtherAt
<1>4. Rest(p, j + 1, v)
  BY <1>1, <1>2, RestNext
<1>5. q_err_code'.opcode = q_err_code.opcode /\ MemoriesOK'
  BY ErrorsSame, MemoriesStep DEF CartSetCfgByte, Setting
<1>6. Owes(h, p, j + 1)'
  <2>1. /\ j + 1 \in Nat /\ j + 1 > 0 /\ j > 0 /\ q_state' # "S_DISABLED"
    BY <1>1, <1>3
  <2>2. p.op \notin WriteOps /\ p.op # OP_CPU_REG_WR
    BY <1>3 DEF WriteOps, OP_CART_SET_CFG, OP_CPU_REG_WR, OP_CPU_MEM_WR, OP_PPU_MEM_WR
  <2> QED BY <1>1, <1>2, <1>5, <2>1, <2>2, OwesKept
<1>7. OnCourse(h, v, k)'
  <2>1. CASE j = 5
    <3>1. q_state' = "S_DECODE"
      BY <1>1, <1>3, <2>1
    <3>2. j + 1 = Len(PacketBytes(p))
      BY <1>3, <2>1, PacketLayout DEF Layout
    <3>3. k = Len(h.want)
      <4>1. Asked(p, h.want)
        BY <1>2, OwesAsked
      <4> QED BY <1>3, <4>1
              DEF Asked, ReadOps, OP_CART_SET_CFG, OP_ECHO, OP_CPU_MEM_RD, OP_PPU_MEM_RD,
                  OP_CPU_REG_RD, OP_QUERY_DBG_BRK, OP_QUERY_ERR_CODE
    <3> QED BY <1>4, <1>5, <1>6, <3>1, <3>2, <3>3, Finished
  <2>2. CASE j # 5
    <3>1. q_state' = "S_CART_SET_CFG_STG_1" /\ q_execute_cnt' = 5 - (j + 1)
      BY <1>1, <1>3, <2>2 DEF LessOne
    <3>2. OtherAt(p, j + 1, k)'
      BY <1>3, <2>2, <3>1 DEF OtherAt
    <3> QED BY <1>4, <1>6, <3>2, Continued DEF AtStep
  <2> QED BY <2>1, <2>2
<1> QED BY <1>1, <1>7, Silently


(* The headers of the four memory packets. *)
LEMMA HeadersCourse ==
  ASSUME NEW brk, NEW h, NEW u, NEW k, NEW v, Setting(brk, h, u, k, v),
         \/ MemHeader("S_CPU_MEM_RD_STG_0", "S_CPU_MEM_RD_STG_1", 2)
         \/ MemHeader("S_CPU_MEM_WR_STG_0", "S_CPU_MEM_WR_STG_1", 1)
         \/ MemHeader("S_PPU_MEM_RD_STG_0", "S_PPU_MEM_RD_STG_1", 2)
         \/ MemHeader("S_PPU_MEM_WR_STG_0", "S_PPU_MEM_WR_STG_1", 1)
  PROVE  Advances(h, k, v)
<1>1. q_state \notin {"S_DECODE", "S_DISABLED"}
  BY DEF MemHeader
<1>2. PICK p \in Packets, j \in Nat :
        Rest(p, j, u) /\ Owes(h, p, j) /\ AtStep(p, j, k) /\ ~StartAt(j, k)
  BY <1>1, Underway
<1>3. CASE MemHeader("S_CPU_MEM_RD_STG_0", "S_CPU_MEM_RD_STG_1", 2)
  <2>1. HeaderAt(OP_CPU_MEM_RD, "S_CPU_MEM_RD_STG_0", p.n, p, j, k)
    BY <1>2, <1>3
       DEF MemHeader, AtStep, EchoHeaderAt, EchoAt, HeaderAt, ReadAt, WriteAt, RegAt, OtherAt
  <2>2. \A i : HeaderAt(OP_CPU_MEM_RD, "S_CPU_MEM_RD_STG_0", p.n, p, i, k)' => AtStep(p, i, k)'
    BY DEF AtStep
  <2>3. p.op = OP_CPU_MEM_RD /\ k = 0 /\ p.n # 0 /\ q_state' = "S_CPU_MEM_RD_STG_1" /\ q_execute_cnt' = 2 * p.n
          /\ q_addr' = p.addr => AtStep(p, 5, k)'
    <3> SUFFICES ASSUME p.op = OP_CPU_MEM_RD, k = 0, p.n # 0, q_state' = "S_CPU_MEM_RD_STG_1",
                        q_execute_cnt' = 2 * p.n, q_addr' = p.addr
                 PROVE  AtStep(p, 5, k)'
      OBVIOUS
    <3>1. p.n \in Nat
      BY PacketFacts, WideType DEF ReadOps
    <3>2. k < p.n /\ q_execute_cnt' = 2 * (p.n - k) /\ q_addr' = p.addr + k
      <4>1. p.addr \in Nat
        BY PacketFacts, WideType DEF ReadOps
      <4> QED BY <3>1, <4>1
    <3>3. ReadAt(OP_CPU_MEM_RD, "S_CPU_MEM_RD_STG_1", p, 5, k)'
      BY <3>2 DEF ReadAt
    <3> QED BY <3>3 DEF AtStep
  <2>4. /\ OP_CPU_MEM_RD \in ReadOps \cup WriteOps
        /\ p.n = IF OP_CPU_MEM_RD \in ReadOps THEN p.n ELSE Len(p.data)
        /\ "S_CPU_MEM_RD_STG_0" \in ByteStates \ WriteStates /\ "S_CPU_MEM_RD_STG_0" # "S_DECODE"
        /\ "S_CPU_MEM_RD_STG_1" \in States \ {"S_DISABLED"}
    BY DEF ReadOps, WriteOps, OP_CPU_MEM_RD, OP_CPU_MEM_WR, OP_PPU_MEM_RD, OP_PPU_MEM_WR,
           ByteStates, WriteStates, States
  <2> QED BY <1>2, <1>3, <2>1, <2>2, <2>3, <2>4, HeaderCourse
<1>4. CASE MemHeader("S_CPU_MEM_WR_STG_0", "S_CPU_MEM_WR_STG_1", 1)
  <2>1. HeaderAt(OP_CPU_MEM_WR, "S_CPU_MEM_WR_STG_0", Len(p.data), p, j, k)
    BY <1>2, <1>4
       DEF MemHeader, AtStep, EchoHeaderAt, EchoAt, HeaderAt, ReadAt, WriteAt, RegAt, OtherAt
  <2>2. \A i : HeaderAt(OP_CPU_MEM_WR, "S_CPU_MEM_WR_STG_0", Len(p.data), p, i, k)' => AtStep(p, i, k)'
    BY DEF AtStep
  <2>3. p.op = OP_CPU_MEM_WR /\ k = 0 /\ Len(p.data) # 0 /\ q_state' = "S_CPU_MEM_WR_STG_1"
          /\ q_execute_cnt' = 1 * Len(p.data) /\ q_addr' = p.addr => AtStep(p, 5, k)'
    <3> SUFFICES ASSUME p.op = OP_CPU_MEM_WR, k = 0, Len(p.data) # 0, q_state' = "S_CPU_MEM_WR_STG_1",
                        q_execute_cnt' = 1 * Len(p.data), q_addr' = p.addr
                 PROVE  AtStep(p, 5, k)'
      OBVIOUS
    <3>1. Len(p.data) \in Nat
      BY PacketFacts, WideType DEF WriteOps
    <3>2. /\ 5 < Len(p.data) + 5
          /\ q_execute_cnt' = Len(p.data) + (5 - 5)
          /\ q_addr' = p.addr + (5 - 5)
      <4>1. p.addr \in Nat
        BY PacketFacts, WideType DEF WriteOps
      <4> QED BY <3>1, <4>1
    <3>3. WriteAt(OP_CPU_MEM_WR, "S_CPU_MEM_WR_STG_1", p, 5, k)'
      BY <3>2 DEF WriteAt
    <3> QED BY <3>3 DEF AtStep
  <2>4. /\ OP_CPU_MEM_WR \in ReadOps \cup WriteOps
        /\ Len(p.data) = IF OP_CPU_MEM_WR \in ReadOps THEN p.n ELSE Len(p.data)
        /\ "S_CPU_MEM_WR_STG_0" \in ByteStates \ WriteStates /\ "S_CPU_MEM_WR_STG_0" # "S_DECODE"
        /\ "S_CPU_MEM_WR_STG_1" \in States \ {"S_DISABLED"}
    BY DEF ReadOps, WriteOps, OP_CPU_MEM_RD, OP_CPU_MEM_WR, OP_PPU_MEM_RD, OP_PPU_MEM_WR,
           ByteStates, WriteStates, States
  <2> QED BY <1>2, <1>4, <2>1, <2>2, <2>3, <2>4, HeaderCourse
<1>5. CASE MemHeader("S_PPU_MEM_RD_STG_0", "S_PPU_MEM_RD_STG_1", 2)
  <2>1. HeaderAt(OP_PPU_MEM_RD, "S_PPU_MEM_RD_STG_0", p.n, p, j, k)
    BY <1>2, <1>5
       DEF MemHeader, AtStep, EchoHeaderAt, EchoAt, HeaderAt, ReadAt, WriteAt, RegAt, OtherAt
  <2>2. \A i : HeaderAt(OP_PPU_MEM_RD, "S_PPU_MEM_RD_STG_0", p.n, p, i, k)' => AtStep(p, i, k)'
    BY DEF AtStep
  <2>3. p.op = OP_PPU_MEM_RD /\ k = 0 /\ p.n # 0 /\ q_state' = "S_PPU_MEM_RD_STG_1" /\ q_execute_cnt' = 2 * p.n
          /\ q_addr' = p.addr => AtStep(p, 5, k)'
    <3> SUFFICES ASSUME p.op = OP_PPU_MEM_RD, k = 0, p.n # 0, q_state' = "S_PPU_MEM_RD_STG_1",
                        q_execute_cnt' = 2 * p.n, q_addr' = p.addr
                 PROVE  AtStep(p, 5, k)'
      OBVIOUS
    <3>1. p.n \in Nat
      BY PacketFacts, WideType DEF ReadOps
    <3>2. k < p.n /\ q_execute_cnt' = 2 * (p.n - k) /\ q_addr' = p.addr + k
      <4>1. p.addr \in Nat
        BY PacketFacts, WideType DEF ReadOps
      <4> QED BY <3>1, <4>1
    <3>3. ReadAt(OP_PPU_MEM_RD, "S_PPU_MEM_RD_STG_1", p, 5, k)'
      BY <3>2 DEF ReadAt
    <3> QED BY <3>3 DEF AtStep
  <2>4. /\ OP_PPU_MEM_RD \in ReadOps \cup WriteOps
        /\ p.n = IF OP_PPU_MEM_RD \in ReadOps THEN p.n ELSE Len(p.data)
        /\ "S_PPU_MEM_RD_STG_0" \in ByteStates \ WriteStates /\ "S_PPU_MEM_RD_STG_0" # "S_DECODE"
        /\ "S_PPU_MEM_RD_STG_1" \in States \ {"S_DISABLED"}
    BY DEF ReadOps, WriteOps, OP_CPU_MEM_RD, OP_CPU_MEM_WR, OP_PPU_MEM_RD, OP_PPU_MEM_WR,
           ByteStates, WriteStates, States
  <2> QED BY <1>2, <1>5, <2>1, <2>2, <2>3, <2>4, HeaderCourse
<1>6. CASE MemHeader("S_PPU_MEM_WR_STG_0", "S_PPU_MEM_WR_STG_1", 1)
  <2>1. HeaderAt(OP_PPU_MEM_WR, "S_PPU_MEM_WR_STG_0", Len(p.data), p, j, k)
    BY <1>2, <1>6
       DEF MemHeader, AtStep, EchoHeaderAt, EchoAt, HeaderAt, ReadAt, WriteAt, RegAt, OtherAt
  <2>2. \A i : HeaderAt(OP_PPU_MEM_WR, "S_PPU_MEM_WR_STG_0", Len(p.data), p, i, k)' => AtStep(p, i, k)'
    BY DEF AtStep
  <2>3. p.op = OP_PPU_MEM_WR /\ k = 0 /\ Len(p.data) # 0 /\ q_state' = "S_PPU_MEM_WR_STG_1"
          /\ q_execute_cnt' = 1 * Len(p.data) /\ q_addr' = p.addr => AtStep(p, 5, k)'
    <3> SUFFICES ASSUME p.op = OP_PPU_MEM_WR, k = 0, Len(p.data) # 0, q_state' = "S_PPU_MEM_WR_STG_1",
                        q_execute_cnt' = 1 * Len(p.data), q_addr' = p.addr
                 PROVE  AtStep(p, 5, k)'
      OBVIOUS
    <3>1. Len(p.data) \in Nat
      BY PacketFacts, WideType DEF WriteOps
    <3>2. /\ 5 < Len(p.data) + 5
          /\ q_execute_cnt' = Len(p.data) + (5 - 5)
          /\ q_addr' = p.addr + (5 - 5)
      <4>1. p.addr \in Nat
        BY PacketFacts, WideType DEF WriteOps
      <4> QED BY <3>1, <4>1
    <3>3. WriteAt(OP_PPU_MEM_WR, "S_PPU_MEM_WR_STG_1", p, 5, k)'
      BY <3>2 DEF WriteAt
    <3> QED BY <3>3 DEF AtStep
  <2>4. /\ OP_PPU_MEM_WR \in ReadOps \cup WriteOps
        /\ Len(p.data) = IF OP_PPU_MEM_WR \in ReadOps THEN p.n ELSE Len(p.data)
        /\ "S_PPU_MEM_WR_STG_0" \in ByteStates \ WriteStates /\ "S_PPU_MEM_WR_STG_0" # "S_DECODE"
        /\ "S_PPU_MEM_WR_STG_1" \in States \ {"S_DISABLED"}
    BY DEF ReadOps, WriteOps, OP_CPU_MEM_RD, OP_CPU_MEM_WR, OP_PPU_MEM_RD, OP_PPU_MEM_WR,
           ByteStates, WriteStates, States
  <2> QED BY <1>2, <1>6, <2>1, <2>2, <2>3, <2>4, HeaderCourse
<1> QED BY <1>3, <1>4, <1>5, <1>6


ReadStates == {"S_CPU_MEM_RD_STG_1", "S_PPU_MEM_RD_STG_1"}

LEMMA FsmCourse ==
  ASSUME NEW brk \in BOOLEAN, NEW h, NEW u, NEW k, NEW v, Setting(brk, h, u, k, v),
         Fsm(brk, cpu_din, ppu_vram_din, dbgreg_in), q_err_code.parity = FALSE,
         q_state \in ReadStates /\ q_execute_cnt % 2 = 1 => last_a = q_addr
  PROVE  Advances(h, k, v)
<1>1. Wait => Advances(h, k, v)
  BY WaitCourse
<1>2. Disabled(brk) => Advances(h, k, v)
  BY DisabledCourse
<1>3. Decode => Advances(h, k, v)
  BY DecodeCourse
<1>4. EchoHeader \/ EchoByte => Advances(h, k, v)
  BY EchoHeaderCourse, EchoCourse
<1>5. ASSUME \/ MemHeader("S_CPU_MEM_RD_STG_0", "S_CPU_MEM_RD_STG_1", 2)
             \/ MemHeader("S_CPU_MEM_WR_STG_0", "S_CPU_MEM_WR_STG_1", 1)
             \/ MemHeader("S_PPU_MEM_RD_STG_0", "S_PPU_MEM_RD_STG_1", 2)
             \/ MemHeader("S_PPU_MEM_WR_STG_0", "S_PPU_MEM_WR_STG_1", 1)
      PROVE  Advances(h, k, v)
  BY <1>5, HeadersCourse
<1>6. ASSUME NEW stg1 \in ReadStates, MemReadDummy(stg1)
      PROVE  Advances(h, k, v)
  BY <1>6, ReadDummyCourse DEF ReadStates
<1>7. MemReadByte("S_CPU_MEM_RD_STG_1", cpu_din) => Advances(h, k, v)
  <2> SUFFICES ASSUME MemReadByte("S_CPU_MEM_RD_STG_1", cpu_din) PROVE Advances(h, k, v)
    OBVIOUS
  <2>1. last_a = q_addr
    BY DEF MemReadByte, ReadStates
  <2> QED BY <2>1, ReadByteCourse
<1>8. MemReadByte("S_PPU_MEM_RD_STG_1", ppu_vram_din) => Advances(h, k, v)
  <2> SUFFICES ASSUME MemReadByte("S_PPU_MEM_RD_STG_1", ppu_vram_din) PROVE Advances(h, k, v)
    OBVIOUS
  <2>1. last_a = q_addr
    BY DEF MemReadByte, ReadStates
  <2> QED BY <2>1, ReadByteCourse
<1>9. MemWriteByte("S_CPU_MEM_WR_STG_1") => Advances(h, k, v)
  BY WriteByteCourse DEF WriteOps
<1>10. MemWriteByte("S_PPU_MEM_WR_STG_1") => Advances(h, k, v)
  BY WriteByteCourse DEF WriteOps, OP_CPU_MEM_WR, OP_PPU_MEM_WR
<1>11. CpuRegRd(dbgreg_in) \/ CpuRegWrSelect \/ CpuRegWrByte => Advances(h, k, v)
  BY RegReadCourse, RegSelectCourse, RegWriteCourse
<1>12. QueryErrCode \/ PpuDisable => Advances(h, k, v)
  BY ErrCodeCourse, DisablePpuCourse
<1>13. CartSetCfgStart \/ CartSetCfgByte => Advances(h, k, v)
  BY CartStartCourse, CartByteCourse
<1>14. MemReadDummy("S_CPU_MEM_RD_STG_1") \/ MemReadDummy("S_PPU_MEM_RD_STG_1")
         => Advances(h, k, v)
  BY <1>6 DEF ReadStates
<1> QED BY <1>1, <1>2, <1>3, <1>4, <1>5, <1>7, <1>8, <1>9, <1>10, <1>11, <1>12, <1>13, <1>14
        DEF Fsm

--------------------------------------------------------------------------------
(***************************************************************************)
(* The whole link: the bytes that are still to come and the answers on     *)
(* their way, in the order in which they move.                             *)
(***************************************************************************)
InHand == IF rx_done THEN <<rx_byte>> ELSE rx_fifo.entries
Unread == InHand \o line
Asking == IF q_wr_en THEN <<q_tx_data>> ELSE <<>>
Answered == (host.got \o tx_fifo.entries) \o Asking

IsHost(x) ==
  /\ x = [running |-> x.running, want |-> x.want, got |-> x.got, ram |-> x.ram,
          vram |-> x.vram, regs |-> x.regs, unknown |-> x.unknown]
  /\ x.running \in BOOLEAN /\ x.got \in Seq(Byte) /\ Len(x.want) \in Nat

LinkTypes ==
  /\ phase \in 0 .. TickClks - 1
  /\ tx_ticks \in 0 .. TxTicks /\ tx_done \in BOOLEAN
  /\ rx_ticks \in Nat /\ rx_done \in BOOLEAN /\ rx_byte \in Byte
  /\ line \in Seq(Byte)
  /\ MemoriesOK
  /\ IsHost(host)

(* What happens when, since the last tick: a received byte is taken on the
   clock after it was stored, or one later when the CPU broke, and answers are
   requested well before the next tick. *)
Timing ==
  /\ rx_done => phase = 0 /\ rx_fifo.entries = <<>>
  /\ tx_done => phase = 0 /\ tx_ticks = 0 /\ tx_fifo.entries # <<>>
  /\ tx_ticks > 0 => tx_fifo.entries # <<>>
  /\ q_wr_en => phase # 0 /\ Len(tx_fifo.entries) < FifoDepth
  /\ Len(rx_fifo.entries) <= 1
  /\ rx_fifo.entries # <<>> =>
       \/ phase = 1
       \/ /\ phase = 2 /\ q_state = "S_DECODE"
          /\ Head(rx_fifo.entries) \in {OP_DBG_BRK, OP_QUERY_DBG_BRK}
  /\ line # <<>> => rx_ticks >= 1
  /\ InHand # <<>> => rx_ticks >= TxTicks
  /\ FlagsHonest
  /\ q_rx_parity_err = FALSE /\ q_err_code.parity = FALSE

(* ECHO does not look at tx_full.  The byte before has left, or is done at the
   tick that brings the next one, because a received byte lasts no less than a
   transmitted one. *)
EchoPace ==
  /\ Len(tx_fifo.entries) <= 1
  /\ q_wr_en => tx_fifo.entries = <<>> /\ phase = 2 /\ rx_ticks >= TxTicks
  /\ Len(tx_fifo.entries) = 1 =>
       \/ tx_done
       \/ tx_ticks = 0 /\ phase = 3 /\ rx_ticks >= TxTicks
       \/ 0 < tx_ticks /\ tx_ticks <= rx_ticks
  /\ rx_done => tx_fifo.entries = <<>> \/ tx_done
  /\ rx_fifo.entries # <<>> => tx_fifo.entries = <<>>

(* Room that is left in the transmit FIFO; a memory fills it in two clocks for
   each byte, and before the next tick. *)
Room == FifoDepth - Len(tx_fifo.entries) - (IF q_wr_en THEN 1 ELSE 0)

ReadPace ==
  /\ phase = 0 => Room = 0 /\ ~q_wr_en
  /\ \/ Room = 0
     \/ phase + 2 * Room - (q_execute_cnt % 2) <= TickClks - 1
  /\ q_execute_cnt % 2 = 1 => last_a = q_addr /\ ~q_wr_en

Pacing ==
  /\ q_state \in {"S_QUERY_ERR_CODE", "S_CART_SET_CFG_STG_0"} => phase = 2
  /\ q_state = "S_PPU_DISABLE" => phase = 2 + q_decode_cnt
  /\ q_state = "S_ECHO_STG_1" => EchoPace
  /\ q_state \in ReadStates => ReadPace

(* Every answer so far is the one that was asked for. *)
Matched ==
  /\ Len(Answered) <= Len(host.want)
  /\ \A i \in 1 .. Len(Answered) : Answered[i] \in host.want[i]

(* A running console only ever answers that it runs. *)
PendingZero ==
  q_state = "S_DISABLED" =>
    \A i \in 1 .. Len(Answered) : i > Len(host.got) => Answered[i] = 0

CaughtUp ==
  \E h, u, k : h = host /\ u = Unread /\ k = Len(Answered) /\ OnCourse(h, u, k)

(* The host's record once it has sent p. *)
Sent(p, g) == [Obeyed(p, g) EXCEPT !.want = Answer(p, g), !.got = <<>>]

(* The host sends a packet without an answer and the next one at once: the
   debugger may still be at work for g, the host before the last packet. *)
QueuedBehind(p, g) ==
  /\ IsHost(g)
  /\ g.running => p.op \in {OP_DBG_BRK, OP_QUERY_DBG_BRK}
  /\ host = Sent(p, g)
  /\ line = PacketBytes(p) /\ Answered = <<>>
  /\ \E u : u = InHand /\ OnCourse(g, u, Len(g.want))

Queued == \E p \in Packets : \E g : QueuedBehind(p, g)

LinkInv ==
  /\ IInv /\ LinkTypes
  /\ Timing /\ Pacing
  /\ Matched /\ PendingZero
  /\ CaughtUp \/ Queued

(* One clock, with the break that the CPU may ask for. *)
Tick(brk) ==
  /\ brk \in BOOLEAN
  /\ Fsm(brk, cpu_din, ppu_vram_din, dbgreg_in)
  /\ UartBuffers(brk, rx_done, rx_byte, FALSE, tx_done)
  /\ BaudClock /\ Receiver /\ Transmitter /\ HostReceive /\ Memories

LEMMA ClockTicks == Clock => \E brk : Tick(brk)
BY DEF Clock, Tick

--------------------------------------------------------------------------------
(* A queue that is never read and written at once, nor written when full. *)

LEMMA HonestQueue ==
  ASSUME NEW f \in RX!Queues, Len(f.entries) <= FifoDepth,
         f.empty <=> f.entries = <<>>, f.full <=> Len(f.entries) = FifoDepth,
         NEW rd \in BOOLEAN, NEW wr \in BOOLEAN, NEW d \in Byte,
         ~(rd /\ wr), wr => Len(f.entries) < FifoDepth, rd => f.entries # <<>>
  PROVE  LET g == RX!Clocked(f, rd, wr, d)
         IN  /\ g.entries = IF wr THEN Append(f.entries, d)
                            ELSE IF rd THEN Tail(f.entries) ELSE f.entries
             /\ g.empty <=> g.entries = <<>>
             /\ g.full <=> Len(g.entries) = FifoDepth
<1> DEFINE s == f.entries
           n == Len(s)
           pop == rd /\ ~f.empty
           push == wr /\ ~f.full
           next == IF wr THEN Append(s, d) ELSE IF rd THEN Tail(s) ELSE s
           g == RX!Clocked(f, rd, wr, d)
<1>1. s \in Seq(Byte) /\ n \in Nat /\ f.empty \in BOOLEAN /\ f.full \in BOOLEAN
  BY DEF RX!Queues
<1>2. (s = <<>> <=> n = 0) /\ n <= FifoDepth
  BY <1>1, EmptySeq
<1>3. FifoDepth \in Nat /\ FifoDepth >= 2
  BY ConstantFacts
<1>4. (pop <=> rd) /\ (push <=> wr)
  BY <1>2, <1>3
<1>5. /\ g.entries = IF push THEN Append(IF pop THEN Tail(s) ELSE s, d)
                     ELSE IF pop THEN Tail(s) ELSE s
      /\ g.empty = ((f.empty /\ ~push) \/ (n = 1 /\ pop))
      /\ g.full = ((f.full /\ ~pop) \/ (n = FifoDepth - 1 /\ push))
  BY DEF RX!Clocked, RX!PopsFrom, RX!PushesTo
<1>6. g.entries = next
  BY <1>4, <1>5
<1>7. Len(next) = IF wr THEN n + 1 ELSE IF rd THEN n - 1 ELSE n
  <2>1. Len(Append(s, d)) = n + 1
    BY <1>1
  <2>2. rd => Len(Tail(s)) = n - 1
    BY <1>1, HeadTailProperties
  <2> QED BY <2>1, <2>2
<1>8. next = <<>> <=> Len(next) = 0
  <2>1. Append(s, d) \in Seq(Byte) /\ (rd => Tail(s) \in Seq(Byte))
    BY <1>1, HeadTailProperties
  <2>2. next \in Seq(Byte)
    BY <1>1, <2>1
  <2> HIDE DEF next
  <2> QED BY <2>2, EmptySeq
<1>9. g.empty <=> Len(next) = 0
  BY <1>1, <1>2, <1>4, <1>5, <1>7
<1>10. g.full <=> Len(next) = FifoDepth
  BY <1>1, <1>2, <1>3, <1>4, <1>5, <1>7
<1> HIDE DEF g, next
<1>11. g.empty <=> g.entries = <<>>
  BY <1>6, <1>8, <1>9
<1>12. g.full <=> Len(g.entries) = FifoDepth
  BY <1>6, <1>10
<1> QED BY <1>6, <1>11, <1>12 DEF g, next

(* The state before a clock, and what is known of it. *)
Running(brk) == IInv /\ LinkTypes /\ Timing /\ Pacing /\ Tick(brk)

LEMMA TickFacts ==
  ASSUME NEW brk, Running(brk)
  PROVE  /\ brk \in BOOLEAN /\ TickClks \in Nat /\ TickClks > 8 /\ phase \in 0 .. TickClks - 1
         /\ FifoDepth \in Nat /\ FifoDepth >= 2 /\ TickClks >= 2 * FifoDepth + 4
         /\ TxTicks \in Nat /\ TxTicks >= 1
         /\ phase' = IF phase = TickClks - 1 THEN 0 ELSE phase + 1
         /\ rx_ticks \in Nat /\ tx_ticks \in 0 .. TxTicks
         /\ rx_done \in BOOLEAN /\ tx_done \in BOOLEAN /\ q_wr_en \in BOOLEAN
BY LinkFacts, ConstantFacts
   DEF Running, Tick, BaudClock, baud_clk_tick, LinkTypes, IInv, RegsOK

LEMMA RxNext ==
  ASSUME NEW brk, Running(brk)
  PROVE  /\ rx_fifo.entries \in Seq(Byte) /\ Len(rx_fifo.entries) \in Nat
         /\ rx_empty <=> rx_fifo.entries = <<>>
         /\ rd_en(brk) => ~rx_empty /\ ~rx_done
         /\ rx_fifo'.entries = IF rx_done THEN <<rx_byte>>
                               ELSE IF rd_en(brk) THEN <<>> ELSE rx_fifo.entries
         /\ rx_fifo'.empty <=> rx_fifo'.entries = <<>>
         /\ rx_fifo'.full <=> Len(rx_fifo'.entries) = FifoDepth
<1>1. /\ rx_fifo \in RX!Queues /\ Len(rx_fifo.entries) <= FifoDepth
      /\ rx_fifo.empty <=> rx_fifo.entries = <<>>
      /\ rx_fifo.full <=> Len(rx_fifo.entries) = FifoDepth
  BY DEF Running, IInv, BuffersOK, RX!TypeOK, RX!FlagsBracketEntries, RX!Bracketed, Timing,
         FlagsHonest
<1>2. /\ rx_done \in BOOLEAN /\ rd_en(brk) \in BOOLEAN /\ rx_byte \in Byte
      /\ FifoDepth \in Nat /\ FifoDepth >= 2
  BY TickFacts DEF rd_en, Running, LinkTypes
<1>3. rd_en(brk) => rx_fifo.entries # <<>> /\ ~rx_empty
  BY <1>1 DEF rd_en, rx_empty
<1>4. rx_done => rx_fifo.entries = <<>>
  BY DEF Running, Timing
<1>5. rx_fifo.entries \in Seq(Byte) /\ Len(rx_fifo.entries) \in Nat
  BY <1>1 DEF RX!Queues
<1>6. rx_fifo' = RX!Clocked(rx_fifo, rd_en(brk), rx_done, rx_byte)
  BY DEF Running, Tick, UartBuffers
<1>7. rx_done => Len(rx_fifo.entries) < FifoDepth
  BY <1>2, <1>4, <1>5, EmptySeq
<1>8. /\ rx_fifo'.entries = IF rx_done THEN Append(rx_fifo.entries, rx_byte)
                            ELSE IF rd_en(brk) THEN Tail(rx_fifo.entries) ELSE rx_fifo.entries
      /\ rx_fifo'.empty <=> rx_fifo'.entries = <<>>
      /\ rx_fifo'.full <=> Len(rx_fifo'.entries) = FifoDepth
  <2> HIDE DEF Running
  <2> QED BY <1>1, <1>2, <1>3, <1>4, <1>6, <1>7, HonestQueue
<1>9. rx_done => Append(rx_fifo.entries, rx_byte) = <<rx_byte>>
  <2>1. Append(<<>>, rx_byte) = <<rx_byte>>
    OBVIOUS
  <2> QED BY <1>4, <2>1
<1>10. rd_en(brk) => Tail(rx_fifo.entries) = <<>>
  <2>1. Len(rx_fifo.entries) <= 1
    BY DEF Running, Timing
  <2> QED BY <1>3, <1>5, <2>1, ShortSeq
<1> QED BY <1>1, <1>3, <1>4, <1>5, <1>8, <1>9, <1>10 DEF rx_empty

LEMMA TxNext ==
  ASSUME NEW brk, Running(brk)
  PROVE  /\ tx_fifo.entries \in Seq(Byte) /\ Len(tx_fifo.entries) \in 0 .. FifoDepth
         /\ tx_fifo.empty <=> tx_fifo.entries = <<>>
         /\ tx_full <=> Len(tx_fifo.entries) = FifoDepth
         /\ tx_done => tx_fifo.entries # <<>> /\ ~q_wr_en
         /\ tx_fifo'.entries = IF q_wr_en THEN Append(tx_fifo.entries, q_tx_data)
                               ELSE IF tx_done THEN Tail(tx_fifo.entries) ELSE tx_fifo.entries
         /\ tx_fifo'.entries \in Seq(Byte)
         /\ Len(tx_fifo'.entries) =
              Len(tx_fifo.entries) + (IF q_wr_en THEN 1 ELSE IF tx_done THEN -1 ELSE 0)
         /\ tx_fifo'.empty <=> tx_fifo'.entries = <<>>
         /\ tx_fifo'.full <=> Len(tx_fifo'.entries) = FifoDepth
<1>1. /\ tx_fifo \in RX!Queues /\ Len(tx_fifo.entries) <= FifoDepth
      /\ tx_fifo.empty <=> tx_fifo.entries = <<>>
      /\ tx_fifo.full <=> Len(tx_fifo.entries) = FifoDepth
  BY DEF Running, IInv, BuffersOK, TX!TypeOK, TX!FlagsBracketEntries, TX!Bracketed, Timing,
         FlagsHonest, TX!Queues, RX!Queues
<1>2. /\ tx_done \in BOOLEAN /\ q_wr_en \in BOOLEAN /\ q_tx_data \in Byte
      /\ FifoDepth \in Nat
  BY TickFacts DEF Running, IInv, RegsOK
<1>3. tx_done => tx_fifo.entries # <<>> /\ ~q_wr_en
  BY DEF Running, Timing
<1>4. q_wr_en => Len(tx_fifo.entries) < FifoDepth
  BY DEF Running, Timing
<1>5. tx_fifo.entries \in Seq(Byte) /\ Len(tx_fifo.entries) \in Nat
  BY <1>1 DEF RX!Queues
<1>6. tx_fifo' = RX!Clocked(tx_fifo, tx_done, q_wr_en, q_tx_data)
  BY DEF Running, Tick, UartBuffers, TX!Clocked, RX!Clocked, TX!PopsFrom, RX!PopsFrom,
         TX!PushesTo, RX!PushesTo
<1>7. /\ tx_fifo'.entries = IF q_wr_en THEN Append(tx_fifo.entries, q_tx_data)
                            ELSE IF tx_done THEN Tail(tx_fifo.entries) ELSE tx_fifo.entries
      /\ tx_fifo'.empty <=> tx_fifo'.entries = <<>>
      /\ tx_fifo'.full <=> Len(tx_fifo'.entries) = FifoDepth
  <2> HIDE DEF Running
  <2> QED BY <1>1, <1>2, <1>3, <1>4, <1>6, HonestQueue
<1>8. /\ Append(tx_fifo.entries, q_tx_data) \in Seq(Byte)
      /\ Len(Append(tx_fifo.entries, q_tx_data)) = Len(tx_fifo.entries) + 1
  BY <1>2, <1>5
<1>9. tx_done => /\ Tail(tx_fifo.entries) \in Seq(Byte)
                 /\ Len(Tail(tx_fifo.entries)) = Len(tx_fifo.entries) - 1
  BY <1>3, <1>5, HeadTailProperties
<1>10. /\ tx_fifo'.entries \in Seq(Byte)
       /\ Len(tx_fifo'.entries) =
            Len(tx_fifo.entries) + (IF q_wr_en THEN 1 ELSE IF tx_done THEN -1 ELSE 0)
  <2>1. CASE q_wr_en
    BY <1>7, <1>8, <2>1
  <2>2. CASE ~q_wr_en /\ tx_done
    BY <1>5, <1>7, <1>9, <2>2
  <2>3. CASE ~q_wr_en /\ ~tx_done
    BY <1>5, <1>7, <2>3
  <2> QED BY <2>1, <2>2, <2>3
<1>11. Len(tx_fifo.entries) \in 0 .. FifoDepth
  BY <1>1, <1>2, <1>5
<1>12. tx_full <=> Len(tx_fifo.entries) = FifoDepth
  BY <1>1 DEF tx_full
<1> QED BY <1>1, <1>3, <1>5, <1>7, <1>10, <1>11, <1>12

(* The receiver takes a byte on a tick only, when there is none in hand. *)
Taking == phase = TickClks - 1 /\ line # <<>> /\ rx_ticks <= 1

LEMMA ReceiverNext ==
  ASSUME NEW brk, Running(brk)
  PROVE  /\ Taking => /\ rx_done' = TRUE /\ rx_byte' = Head(line) /\ line' = Tail(line)
                      /\ InHand = <<>> /\ rx_ticks' \in Nat /\ rx_ticks' >= TxTicks
         /\ ~Taking => /\ rx_done' = FALSE /\ rx_byte' = rx_byte /\ line' = line
                       /\ rx_ticks' = IF phase = TickClks - 1 /\ line # <<>>
                                        THEN rx_ticks - 1 ELSE rx_ticks
<1>1. phase = TickClks - 1 => ~rx_done /\ rx_fifo.entries = <<>>
  <2>1. phase = TickClks - 1 => phase # 0 /\ phase # 1 /\ phase # 2
    BY TickFacts
  <2> QED BY <2>1 DEF Running, Timing
<1>2. Receiver
  BY DEF Running, Tick
<1>3. phase = TickClks - 1 => InHand = <<>>
  BY <1>1 DEF InHand
<1> QED BY <1>2, <1>3, LinkFacts DEF Receiver, Taking, baud_clk_tick

(* A byte leaves the receive FIFO when the state machine takes it, and comes
   into hand from the line; the order is kept. *)
LEMMA InHandFacts ==
  ASSUME NEW brk, Running(brk)
  PROVE  /\ InHand \in Seq(Byte) /\ Len(InHand) <= 1 /\ line \in Seq(Byte)
         /\ ~rx_empty => /\ InHand = rx_fifo.entries /\ InHand # <<>>
                         /\ Head(InHand) = rd_data /\ rd_data \in Byte
                         /\ InHand = <<rd_data>> /\ Tail(InHand) = <<>>
<1>1. /\ rx_fifo.entries \in Seq(Byte) /\ Len(rx_fifo.entries) \in Nat
      /\ rx_empty <=> rx_fifo.entries = <<>>
  BY RxNext
<1>2. /\ Len(rx_fifo.entries) <= 1 /\ rx_byte \in Byte /\ line \in Seq(Byte)
      /\ rx_done => rx_fifo.entries = <<>>
  BY DEF Running, Timing, LinkTypes
<1>3. <<rx_byte>> \in Seq(Byte) /\ Len(<<rx_byte>>) = 1
  BY <1>2
<1>4. InHand \in Seq(Byte) /\ Len(InHand) <= 1
  BY <1>1, <1>2, <1>3 DEF InHand
<1>5. ~rx_empty => InHand = rx_fifo.entries /\ InHand # <<>>
  BY <1>1, <1>2 DEF InHand
<1>6. InHand # <<>> => /\ Head(InHand) \in Byte /\ InHand = <<Head(InHand)>>
                       /\ Tail(InHand) = <<>>
  BY <1>4, ShortSeq
<1>7. ~rx_empty => Head(InHand) = rd_data
  BY <1>5 DEF rd_data
<1> QED BY <1>2, <1>4, <1>5, <1>6, <1>7

LEMMA InHandNext ==
  ASSUME NEW brk, Running(brk)
  PROVE  IF Taking THEN /\ InHand = <<>> /\ ~rd_en(brk) /\ rx_fifo'.entries = <<>>
                        /\ InHand' = <<Head(line)>> /\ line' = Tail(line)
                   ELSE /\ InHand' = IF rd_en(brk) THEN Tail(InHand) ELSE InHand
                        /\ line' = line
<1>1. CASE Taking
  <2>1. InHand = <<>> /\ rx_done' /\ rx_byte' = Head(line) /\ line' = Tail(line)
    BY <1>1, ReceiverNext
  <2>2. ~rx_done /\ rx_fifo.entries = <<>>
    BY <2>1 DEF InHand
  <2>3. ~rd_en(brk) /\ rx_fifo'.entries = <<>>
    BY <2>2, RxNext
  <2>4. InHand' = <<Head(line)>>
    BY <2>1 DEF InHand
  <2> QED BY <1>1, <2>1, <2>3, <2>4
<1>2. CASE ~Taking
  <2>1. rx_done' = FALSE /\ line' = line
    BY <1>2, ReceiverNext
  <2>2. InHand' = rx_fifo'.entries
    BY <2>1 DEF InHand
  <2>3. /\ rd_en(brk) => ~rx_empty /\ ~rx_done
        /\ rx_fifo'.entries = IF rx_done THEN <<rx_byte>>
                              ELSE IF rd_en(brk) THEN <<>> ELSE rx_fifo.entries
    BY RxNext
  <2>4. rd_en(brk) => Tail(InHand) = <<>>
    BY <2>3, InHandFacts
  <2>5. InHand' = IF rd_en(brk) THEN Tail(InHand) ELSE InHand
    BY <2>2, <2>3, <2>4 DEF InHand
  <2> QED BY <1>2, <2>1, <2>5
<1> QED BY <1>1, <1>2

LEMMA UnreadNext ==
  ASSUME NEW brk, Running(brk)
  PROVE  /\ Unread \in Seq(Byte)
         /\ ~rx_empty => Unread # <<>> /\ Head(Unread) = rd_data
         /\ InHand # <<>> => Unread # <<>> /\ Head(Unread) = Head(InHand)
         /\ Unread' = IF rd_en(brk) THEN Tail(Unread) ELSE Unread
<1>1. InHand \in Seq(Byte) /\ Len(InHand) <= 1 /\ line \in Seq(Byte)
  BY InHandFacts
<1>2. InHand = <<>> => Unread = line
  BY <1>1, ConcatEmptySeq DEF Unread
<1>3. InHand # <<>> => /\ Unread \in Seq(Byte) /\ Unread # <<>>
                       /\ Head(Unread) = Head(InHand) /\ Tail(Unread) = line
  <2> SUFFICES ASSUME InHand # <<>>
               PROVE  /\ Unread \in Seq(Byte) /\ Unread # <<>>
                      /\ Head(Unread) = Head(InHand) /\ Tail(Unread) = line
    OBVIOUS
  <2>1. InHand = <<Head(InHand)>> /\ Head(InHand) \in Byte
    BY <1>1, ShortSeq
  <2>2. Unread = <<Head(InHand)>> \o line
    BY <2>1 DEF Unread
  <2> QED BY <1>1, <2>1, <2>2, FirstOff
<1>4. CASE Taking
  <2>1. /\ InHand = <<>> /\ ~rd_en(brk) /\ InHand' = <<Head(line)>> /\ line' = Tail(line)
        /\ line # <<>>
    BY <1>4, InHandNext DEF Taking
  <2>2. Unread' = line
    BY <1>1, <2>1, Rejoined DEF Unread
  <2> QED BY <1>1, <1>2, <2>1, <2>2, InHandFacts
<1>5. CASE ~Taking
  <2>1. line' = line /\ InHand' = IF rd_en(brk) THEN Tail(InHand) ELSE InHand
    BY <1>5, InHandNext
  <2>2. ~rd_en(brk) => Unread' = Unread
    BY <2>1 DEF Unread
  <2>3. rd_en(brk) => InHand # <<>> /\ InHand' = <<>>
    BY <2>1, RxNext, InHandFacts
  <2>4. rd_en(brk) => Unread' = line
    BY <1>1, <2>1, <2>3, ConcatEmptySeq DEF Unread
  <2> QED BY <1>1, <1>2, <1>3, <2>2, <2>3, <2>4, InHandFacts
<1> QED BY <1>4, <1>5

(* The host's record, and the answers, one clock later. *)
LEMMA HostNext ==
  ASSUME NEW brk, Running(brk)
  PROVE  /\ IsHost(host')
         /\ host'.want = host.want /\ host'.ram = host.ram /\ host'.vram = host.vram
         /\ host'.regs = host.regs /\ host'.unknown = host.unknown
         /\ host'.got = IF tx_done THEN Append(host.got, Head(tx_fifo.entries)) ELSE host.got
         /\ host'.running = IF tx_done THEN host.running /\ Head(tx_fifo.entries) # 1
                                       ELSE host.running
         /\ ~tx_done => host' = host
<1>1. IsHost(host) /\ HostReceive /\ tx_done \in BOOLEAN
  BY DEF Running, LinkTypes, Tick
<1>2. CASE tx_done
  <2> DEFINE b == Head(tx_fifo.entries)
  <2>1. b \in Byte
    <3>1. tx_fifo.entries \in Seq(Byte) /\ tx_fifo.entries # <<>>
      BY <1>2, TxNext
    <3> QED BY <3>1, HeadTailProperties
  <2>2. host' = [host EXCEPT !.got = Append(host.got, b), !.running = host.running /\ b # 1]
    BY <1>1, <1>2 DEF HostReceive
  <2> HIDE DEF b
  <2>3. Append(host.got, b) \in Seq(Byte) /\ (host.running /\ b # 1) \in BOOLEAN
    BY <1>1, <2>1 DEF IsHost
  <2>4. host' = [running |-> host.running /\ b # 1, want |-> host.want,
                 got |-> Append(host.got, b), ram |-> host.ram, vram |-> host.vram,
                 regs |-> host.regs, unknown |-> host.unknown]
    BY <1>1, <2>2 DEF IsHost
  <2>5. IsHost(host')
    BY <1>1, <2>3, <2>4 DEF IsHost
  <2> QED BY <1>2, <2>4, <2>5 DEF b
<1>3. CASE ~tx_done
  BY <1>1, <1>3 DEF HostReceive
<1> QED BY <1>2, <1>3

LEMMA AnsweredNext ==
  ASSUME NEW brk, Running(brk)
  PROVE  /\ Answered \in Seq(Byte)
         /\ host'.got \in Seq(Byte) /\ host'.got \o tx_fifo'.entries = Answered
         /\ Answered' = Answered \o Asking'
<1> DEFINE got == host.got
           es == tx_fifo.entries
<1>1. got \in Seq(Byte) /\ es \in Seq(Byte) /\ q_tx_data \in Byte
  <2>1. es \in Seq(Byte)
    BY TxNext
  <2> QED BY <2>1 DEF Running, LinkTypes, IsHost, IInv, RegsOK
<1>2. got \o es \in Seq(Byte) /\ Asking \in Seq(Byte)
  BY <1>1, ConcatProperties DEF Asking
<1>3. Answered \in Seq(Byte)
  BY <1>2, ConcatProperties DEF Answered
<1>4. /\ tx_done => es # <<>> /\ ~q_wr_en
      /\ tx_fifo'.entries = IF q_wr_en THEN Append(es, q_tx_data)
                            ELSE IF tx_done THEN Tail(es) ELSE es
  BY TxNext
<1>5. host'.got = IF tx_done THEN Append(got, Head(es)) ELSE got
  BY HostNext
<1>6. host'.got \in Seq(Byte)
  BY HostNext DEF IsHost
<1> DEFINE got2 == host'.got
           es2 == tx_fifo'.entries
<1>7. Answered = (got \o es) \o Asking
  BY DEF Answered
<1>8. Answered' = (got2 \o es2) \o Asking'
  BY DEF Answered
<1>9. /\ tx_done => es # <<>> /\ ~q_wr_en
      /\ es2 = IF q_wr_en THEN Append(es, q_tx_data) ELSE IF tx_done THEN Tail(es) ELSE es
      /\ got2 = IF tx_done THEN Append(got, Head(es)) ELSE got
      /\ Asking = IF q_wr_en THEN <<q_tx_data>> ELSE <<>>
      /\ got2 \in Seq(Byte)
  BY <1>4, <1>5, <1>6 DEF Asking
<1>10. got2 \o es2 = Answered
  <2> HIDE DEF got, es, got2, es2
  <2>1. CASE q_wr_en
    <3>1. got \o Append(es, q_tx_data) = (got \o es) \o <<q_tx_data>>
      BY <1>1, AppendedBehind
    <3> QED BY <1>7, <1>9, <2>1, <3>1
  <2>2. CASE ~q_wr_en
    <3>1. (got \o es) \o <<>> = got \o es
      BY <1>2, ConcatEmptySeq
    <3>2. Answered = got \o es
      BY <1>7, <1>9, <2>2, <3>1
    <3>3. CASE tx_done
      <4>1. Append(got, Head(es)) \o Tail(es) = got \o es
        BY <1>1, <1>9, <3>3, HeadMoved
      <4> QED BY <1>9, <2>2, <3>2, <3>3, <4>1
    <3>4. CASE ~tx_done
      BY <1>9, <2>2, <3>2, <3>4
    <3> QED BY <3>3, <3>4
  <2> QED BY <2>1, <2>2
<1>11. Answered' = Answered \o Asking'
  BY <1>8, <1>10
<1> QED BY <1>3, <1>6, <1>10, <1>11

(* What a course says about the state machine. *)
LEMMA CourseShows ==
  ASSUME NEW h, NEW u, NEW k, OnCourse(h, u, k)
  PROVE  /\ u # <<>> => q_state \notin ReadStates \cup {"S_QUERY_ERR_CODE", "S_PPU_DISABLE"}
         /\ u # <<>> /\ q_state \in {"S_DECODE", "S_DISABLED"} => k = 0
         /\ u # <<>> /\ q_state = "S_DISABLED" => Head(u) \in {OP_DBG_BRK, OP_QUERY_DBG_BRK}
         /\ q_state \notin {"S_DECODE", "S_DISABLED", "S_ECHO_STG_1"} \cup ReadStates => k = 0
         /\ q_state = "S_PPU_DISABLE" => q_decode_cnt \in 0 .. 5
         /\ u # <<>> /\ q_state = "S_CPU_REG_RD" => Head(u) \in RegSels
<1>1. CASE Idle(h, u, k)
  BY <1>1 DEF Idle, ReadStates
<1>2. CASE Working(h, u, k)
  <2>1. PICK p \in Packets, j \in Nat : Rest(p, j, u) /\ Owes(h, p, j) /\ AtStep(p, j, k)
    BY <1>2 DEF Working
  <2>2. CASE StartAt(j, k)
    <3>1. q_state \in {"S_DECODE", "S_DISABLED"} /\ j = 0 /\ k = 0
      BY <2>2 DEF StartAt
    <3>2. u # <<>> => Head(u) = p.op
      BY <2>1, <3>1, RestOpcode
    <3>3. q_state = "S_DISABLED" => p.op \in {OP_DBG_BRK, OP_QUERY_DBG_BRK}
      BY <2>1 DEF Owes
    <3> QED BY <3>1, <3>2, <3>3 DEF ReadStates
  <2>3. CASE ~StartAt(j, k)
    <3>1. q_state \notin {"S_DECODE", "S_DISABLED"}
      BY <2>1, <2>3
         DEF AtStep, EchoHeaderAt, EchoAt, HeaderAt, ReadAt, WriteAt, RegAt, OtherAt
    <3>2. q_state \notin {"S_ECHO_STG_1"} \cup ReadStates => k = 0
      BY <2>1, <2>3
         DEF AtStep, EchoHeaderAt, EchoAt, HeaderAt, ReadAt, WriteAt, RegAt, OtherAt, ReadStates
    <3>3. q_state = "S_PPU_DISABLE" => q_decode_cnt \in 0 .. 5
      BY <2>1, <2>3
         DEF AtStep, EchoHeaderAt, EchoAt, HeaderAt, ReadAt, WriteAt, RegAt, OtherAt
    <3>4. q_state \in ReadStates => u = <<>>
      <4>1. q_state \in ReadStates => p.op \in ReadOps /\ j = 5
        BY <2>1, <2>3
           DEF AtStep, EchoHeaderAt, EchoAt, HeaderAt, ReadAt, WriteAt, RegAt, OtherAt,
               ReadStates, ReadOps
      <4> QED BY <2>1, <4>1, RestOver, PacketLayout DEF Layout
    <3>5. q_state \in {"S_QUERY_ERR_CODE", "S_PPU_DISABLE"} => u = <<>>
      <4>1. q_state \in {"S_QUERY_ERR_CODE", "S_PPU_DISABLE"} =>
              p.op \in {OP_QUERY_ERR_CODE, OP_PPU_DISABLE} /\ j = 1
        BY <2>1, <2>3
           DEF AtStep, EchoHeaderAt, EchoAt, HeaderAt, ReadAt, WriteAt, RegAt, OtherAt
      <4>2. p.op \in {OP_QUERY_ERR_CODE, OP_PPU_DISABLE} => Len(PacketBytes(p)) = 1
        BY PacketLayout
           DEF Layout, ReadOps, WriteOps, OP_QUERY_ERR_CODE, OP_PPU_DISABLE, OP_ECHO,
               OP_CPU_MEM_RD, OP_CPU_MEM_WR, OP_PPU_MEM_RD, OP_PPU_MEM_WR, OP_CPU_REG_RD,
               OP_CPU_REG_WR, OP_CART_SET_CFG
      <4> QED BY <2>1, <4>1, <4>2, RestOver
    <3>6. u # <<>> /\ q_state = "S_CPU_REG_RD" => Head(u) \in RegSels
      <4>1. q_state = "S_CPU_REG_RD" => p.op = OP_CPU_REG_RD /\ j = 1
        BY <2>1, <2>3
           DEF AtStep, EchoHeaderAt, EchoAt, HeaderAt, ReadAt, WriteAt, RegAt, OtherAt
      <4>2. p.op = OP_CPU_REG_RD => PacketBytes(p)[2] = p.sel /\ p.sel \in RegSels
        BY PacketFacts, PacketLayout DEF Layout
      <4>3. u # <<>> => Head(u) = PacketBytes(p)[j + 1]
        BY <2>1, RestNext
      <4> QED BY <4>1, <4>2, <4>3
    <3> QED BY <3>1, <3>2, <3>3, <3>4, <3>5, <3>6
  <2> QED BY <2>2, <2>3
<1> QED BY <1>1, <1>2 DEF OnCourse

(* No byte is in hand, and no answer on its way, where the machine could not
   cope with it. *)
Observed ==
  /\ InHand # <<>> => q_state \notin ReadStates \cup {"S_QUERY_ERR_CODE", "S_PPU_DISABLE"}
  /\ InHand # <<>> /\ q_state \in {"S_DECODE", "S_DISABLED"} => Answered = <<>>
  /\ InHand # <<>> /\ q_state = "S_DISABLED" =>
       Head(InHand) \in {OP_DBG_BRK, OP_QUERY_DBG_BRK}
  /\ q_state \notin {"S_DECODE", "S_DISABLED", "S_ECHO_STG_1"} \cup ReadStates =>
       Answered = <<>>
  /\ q_state = "S_PPU_DISABLE" => q_decode_cnt \in 0 .. 5
  /\ InHand # <<>> /\ q_state = "S_CPU_REG_RD" => Head(InHand) \in RegSels

LEMMA Observation ==
  ASSUME NEW brk, Running(brk), CaughtUp \/ Queued
  PROVE  Observed
<1>1. /\ InHand # <<>> => Unread # <<>> /\ Head(Unread) = Head(InHand)
      /\ Answered \in Seq(Byte)
  BY UnreadNext, AnsweredNext
<1>2. Len(Answered) = 0 => Answered = <<>>
  BY <1>1, EmptySeq
<1>3. CASE CaughtUp
  <2>1. PICK h, u, k : u = Unread /\ k = Len(Answered) /\ OnCourse(h, u, k)
    BY <1>3 DEF CaughtUp
  <2> QED BY <1>1, <1>2, <2>1, CourseShows DEF Observed
<1>4. CASE Queued
  <2>q. PICK p \in Packets : \E g : QueuedBehind(p, g)
    BY <1>4 DEF Queued
  <2>1. PICK g : QueuedBehind(p, g)
    BY <2>q
  <2>2. PICK u : Answered = <<>> /\ u = InHand /\ OnCourse(g, u, Len(g.want))
    BY <2>1 DEF QueuedBehind
  <2> QED BY <2>2, CourseShows DEF Observed
<1> QED BY <1>3, <1>4

--------------------------------------------------------------------------------
(* The pace of one clock. *)

LEMMA NothingAnswered ==
  ASSUME NEW brk, Running(brk), Answered = <<>>
  PROVE  /\ host.got = <<>> /\ tx_fifo.entries = <<>> /\ Len(tx_fifo.entries) = 0
         /\ ~q_wr_en /\ ~tx_done /\ ~tx_full /\ tx_ticks = 0
         /\ tx_fifo'.entries = <<>> /\ Len(tx_fifo'.entries) = 0
<1> DEFINE got == host.got
           es == tx_fifo.entries
<1>1. got \in Seq(Byte) /\ es \in Seq(Byte) /\ q_tx_data \in Byte
  <2>1. es \in Seq(Byte)
    BY TxNext
  <2> QED BY <2>1 DEF Running, LinkTypes, IsHost, IInv, RegsOK
<1>2. got \o es \in Seq(Byte) /\ Asking \in Seq(Byte)
  BY <1>1, ConcatProperties DEF Asking
<1>3. (got \o es) \o Asking = <<>>
  BY DEF Answered
<1>4. Asking = <<>> /\ got = <<>> /\ es = <<>>
  <2> HIDE DEF got, es
  <2>1. Asking = <<>> /\ got \o es = <<>>
    BY <1>2, <1>3, ConcatEqualIffEmpty
  <2> QED BY <1>1, <2>1, ConcatEqualIffEmpty
<1>5. Len(tx_fifo.entries) = 0
  BY <1>4
<1>6. ~q_wr_en
  BY <1>4 DEF Asking
<1>7. /\ tx_done => tx_fifo.entries # <<>>
      /\ tx_full <=> Len(tx_fifo.entries) = FifoDepth
      /\ tx_fifo'.entries = IF q_wr_en THEN Append(tx_fifo.entries, q_tx_data)
                            ELSE IF tx_done THEN Tail(tx_fifo.entries) ELSE tx_fifo.entries
  BY TxNext
<1>8. ~tx_done /\ tx_fifo'.entries = <<>>
  BY <1>4, <1>6, <1>7
<1>9. ~tx_full
  BY <1>5, <1>7, ConstantFacts
<1>10. tx_ticks = 0
  <2>1. ~(tx_ticks > 0)
    BY <1>4 DEF Running, Timing
  <2>2. tx_ticks \in Nat
    BY TickFacts
  <2> QED BY <2>1, <2>2
<1> QED BY <1>4, <1>5, <1>6, <1>8, <1>9, <1>10

(* A received byte is taken at once, but for the clock on which the CPU breaks. *)
LEMMA ByteWaits ==
  ASSUME NEW brk, Running(brk), Observed, ~rx_empty
  PROVE  /\ \/ phase = 1
            \/ /\ phase = 2 /\ q_state = "S_DECODE"
               /\ rd_data \in {OP_DBG_BRK, OP_QUERY_DBG_BRK}
         /\ phase' = phase + 1 /\ ~rx_done /\ ~tx_done /\ ~Taking
         /\ rx_ticks' = rx_ticks /\ rx_ticks >= TxTicks
         /\ \/ rd_en(brk)
            \/ /\ ~rd_en(brk) /\ brk /\ q_state = "S_DISABLED" /\ phase = 1
               /\ rd_data \in {OP_DBG_BRK, OP_QUERY_DBG_BRK}
<1>1. /\ rx_fifo.entries # <<>> /\ InHand = rx_fifo.entries /\ Head(InHand) = rd_data
      /\ InHand # <<>>
  BY RxNext, InHandFacts
<1>2. \/ phase = 1
      \/ phase = 2 /\ q_state = "S_DECODE" /\ rd_data \in {OP_DBG_BRK, OP_QUERY_DBG_BRK}
  BY <1>1 DEF Running, Timing
<1>3. phase' = phase + 1 /\ phase # 0 /\ phase # TickClks - 1
  BY <1>2, TickFacts
<1>4. ~rx_done /\ ~tx_done
  BY <1>3 DEF Running, Timing
<1>5. ~Taking /\ rx_ticks' = rx_ticks
  <2>1. ~Taking
    BY <1>3 DEF Taking
  <2> QED BY <1>3, <2>1, ReceiverNext
<1>6. rx_ticks >= TxTicks
  BY <1>1 DEF Running, Timing
<1>7. q_state \in States /\ brk \in BOOLEAN
  BY DEF Running, IInv, RegsOK, Tick
<1>8. q_state \notin ReadStates \cup {"S_QUERY_ERR_CODE", "S_PPU_DISABLE", "S_CART_SET_CFG_STG_0"}
  <2>1. q_state # "S_CART_SET_CFG_STG_0"
    <3>1. q_state = "S_CART_SET_CFG_STG_0" => phase = 2
      BY DEF Running, Pacing
    <3> QED BY <1>2, <3>1
  <2> QED BY <1>1, <2>1 DEF Observed
<1>9. q_state = "S_CPU_REG_RD" => ~tx_full
  <2>1. q_state = "S_CPU_REG_RD" => Answered = <<>>
    BY DEF Observed, ReadStates
  <2> QED BY <2>1, NothingAnswered
<1>10. CASE q_state # "S_DISABLED"
  <2>1. rd_en(brk)
    BY <1>7, <1>8, <1>9, <1>10 DEF rd_en, ByteStates, ReadStates
  <2> QED BY <1>2, <1>3, <1>4, <1>5, <1>6, <2>1
<1>11. CASE q_state = "S_DISABLED"
  <2>1. rd_data \in {OP_DBG_BRK, OP_QUERY_DBG_BRK} /\ phase = 1
    BY <1>1, <1>2, <1>11 DEF Observed
  <2>2. rd_en(brk) <=> ~brk
    BY <1>11 DEF rd_en, ByteStates
  <2> QED BY <1>2, <1>3, <1>4, <1>5, <1>6, <1>7, <1>11, <2>1, <2>2
<1> QED BY <1>10, <1>11

(* Nothing is sent on a tick, nor into a full FIFO. *)
LEMMA Sending ==
  ASSUME NEW brk, Running(brk), Observed, q_wr_en'
  PROVE  phase' # 0 /\ Len(tx_fifo'.entries) < FifoDepth
<1>1. Fsm(brk, cpu_din, ppu_vram_din, dbgreg_in)
  BY DEF Running, Tick
<1>2. \/ ~rx_empty /\ q_state \in {"S_DISABLED", "S_DECODE", "S_CPU_REG_RD"}
      \/ ~rx_empty /\ q_state = "S_ECHO_STG_1"
      \/ q_state = "S_QUERY_ERR_CODE"
      \/ q_state \in ReadStates /\ q_execute_cnt % 2 = 1 /\ ~tx_full
  BY <1>1
     DEF Fsm, Wait, Disabled, Decode, EchoHeader, EchoByte, MemHeader, MemReadDummy, MemReadByte,
         MemWriteByte, CpuRegRd, CpuRegWrSelect, CpuRegWrByte, QueryErrCode, PpuDisable,
         CartSetCfgStart, CartSetCfgByte, NoSend, ReadStates
<1>3. CASE ~rx_empty /\ q_state \in {"S_DISABLED", "S_DECODE", "S_CPU_REG_RD"}
  <2>1. phase' = phase + 1 /\ InHand # <<>>
    BY <1>3, ByteWaits, InHandFacts
  <2>2. Answered = <<>>
    BY <1>3, <2>1 DEF Observed, ReadStates
  <2> QED BY <2>1, <2>2, NothingAnswered, TickFacts
<1>4. CASE ~rx_empty /\ q_state = "S_ECHO_STG_1"
  <2>1. phase' = phase + 1 /\ phase = 1
    BY <1>4, ByteWaits
  <2>2. rx_fifo.entries # <<>>
    BY <1>4, RxNext
  <2>3. EchoPace
    BY <1>4 DEF Running, Pacing
  <2>4. tx_fifo.entries = <<>> /\ ~q_wr_en
    BY <2>1, <2>2, <2>3 DEF EchoPace
  <2>5. tx_fifo'.entries = <<>>
    BY <2>4, TxNext
  <2>6. Len(tx_fifo'.entries) = 0
    BY <2>5
  <2> QED BY <2>1, <2>6, TickFacts
<1>5. CASE q_state = "S_QUERY_ERR_CODE"
  <2>1. Answered = <<>> /\ phase = 2
    BY <1>5 DEF Observed, Running, Pacing, ReadStates
  <2> QED BY <2>1, NothingAnswered, TickFacts
<1>6. CASE q_state \in ReadStates /\ q_execute_cnt % 2 = 1 /\ ~tx_full
  <2>1. ReadPace
    BY <1>6 DEF Running, Pacing
  <2>2. ~q_wr_en
    BY <1>6, <2>1 DEF ReadPace
  <2> DEFINE n == Len(tx_fifo.entries)
  <2>3. n \in 0 .. FifoDepth /\ n # FifoDepth
    BY <1>6, TxNext
  <2>4. Room = FifoDepth - n
    BY <2>2, <2>3, TickFacts DEF Room
  <2>5. phase # 0 /\ phase + 2 * (FifoDepth - n) - 1 <= TickClks - 1
    <3> HIDE DEF n
    <3>1. FifoDepth - n # 0
      BY <2>3, TickFacts
    <3> QED BY <1>6, <2>1, <2>4, <3>1 DEF ReadPace
  <2>6. phase # TickClks - 1
    BY <2>3, <2>5, TickFacts
  <2>7. ~tx_done
    BY <2>5 DEF Running, Timing
  <2>8. tx_fifo'.entries = tx_fifo.entries
    BY <2>2, <2>7, TxNext
  <2>9. Len(tx_fifo'.entries) < FifoDepth
    BY <2>3, <2>8, TickFacts
  <2> QED BY <2>6, <2>9, TickFacts
<1> QED BY <1>2, <1>3, <1>4, <1>5, <1>6

LEMMA TimingNext ==
  ASSUME NEW brk, Running(brk), Observed
  PROVE  Timing'
<1>1. rx_done' => phase' = 0 /\ rx_fifo'.entries = <<>>
  <2>1. rx_done' => Taking
    BY ReceiverNext
  <2>2. Taking => rx_fifo'.entries = <<>>
    BY InHandNext
  <2>3. Taking => phase' = 0
    BY TickFacts DEF Taking
  <2> QED BY <2>1, <2>2, <2>3
<1>2. /\ tx_done' <=> phase = TickClks - 1 /\ tx_ticks = 1
      /\ tx_ticks' = IF tx_ticks = 0
                       THEN IF ~tx_fifo.empty /\ ~tx_done THEN TxTicks ELSE 0
                       ELSE IF phase = TickClks - 1 THEN tx_ticks - 1 ELSE tx_ticks
  BY DEF Running, Tick, Transmitter, baud_clk_tick
<1>3. tx_ticks > 0 \/ (~tx_fifo.empty /\ ~tx_done) => tx_fifo'.entries # <<>>
  <2> SUFFICES ASSUME tx_ticks > 0 \/ (~tx_fifo.empty /\ ~tx_done)
               PROVE  tx_fifo'.entries # <<>>
    OBVIOUS
  <2>1. tx_fifo.entries # <<>> /\ ~tx_done
    <3>1. tx_done => tx_ticks = 0
      BY DEF Running, Timing
    <3>2. tx_ticks > 0 => tx_fifo.entries # <<>>
      BY DEF Running, Timing
    <3>3. ~tx_fifo.empty => tx_fifo.entries # <<>>
      BY TxNext
    <3> QED BY <3>1, <3>2, <3>3
  <2>2. /\ tx_fifo'.entries = IF q_wr_en THEN Append(tx_fifo.entries, q_tx_data)
                              ELSE tx_fifo.entries
        /\ tx_fifo.entries \in Seq(Byte)
    BY <2>1, TxNext
  <2> QED BY <2>1, <2>2
<1>4. tx_done' => phase' = 0 /\ tx_ticks' = 0 /\ tx_fifo'.entries # <<>>
  <2>1. tx_done' => phase' = 0
    BY <1>2, TickFacts
  <2>2. tx_done' => tx_ticks' = 0 /\ tx_ticks > 0
    BY <1>2
  <2> QED BY <1>3, <2>1, <2>2
<1>5. tx_ticks' > 0 => tx_fifo'.entries # <<>>
  <2>1. tx_ticks' > 0 => tx_ticks > 0 \/ (~tx_fifo.empty /\ ~tx_done)
    BY <1>2, TickFacts
  <2> QED BY <1>3, <2>1
<1>6. q_wr_en' => phase' # 0 /\ Len(tx_fifo'.entries) < FifoDepth
  BY Sending
<1>7. /\ Len(rx_fifo'.entries) <= 1
      /\ rx_fifo'.entries # <<>> =>
           \/ phase' = 1
           \/ /\ phase' = 2 /\ q_state' = "S_DECODE"
              /\ Head(rx_fifo'.entries) \in {OP_DBG_BRK, OP_QUERY_DBG_BRK}
  <2>1. rx_fifo'.entries = IF rx_done THEN <<rx_byte>>
                           ELSE IF rd_en(brk) THEN <<>> ELSE rx_fifo.entries
    BY RxNext
  <2>2. CASE rx_done
    <3>1. phase = 0
      BY <2>2 DEF Running, Timing
    <3>2. phase' = 1
      BY <3>1, TickFacts
    <3> QED BY <2>1, <2>2, <3>2
  <2>3. CASE ~rx_done /\ rd_en(brk)
    BY <2>1, <2>3
  <2>4. CASE ~rx_done /\ ~rd_en(brk)
    <3>1. rx_fifo'.entries = rx_fifo.entries /\ Len(rx_fifo.entries) <= 1
      BY <2>1, <2>4 DEF Running, Timing
    <3>2. CASE rx_empty
      BY <3>1, <3>2, RxNext
    <3>3. CASE ~rx_empty
      <4>1. /\ brk /\ q_state = "S_DISABLED" /\ phase = 1 /\ phase' = phase + 1
            /\ rd_data \in {OP_DBG_BRK, OP_QUERY_DBG_BRK}
        BY <2>4, <3>3, ByteWaits
      <4>2. q_state' = "S_DECODE"
        <5>1. Fsm(brk, cpu_din, ppu_vram_din, dbgreg_in)
          BY DEF Running, Tick
        <5> QED BY <4>1, <5>1
                DEF Fsm, Wait, Disabled, Decode, EchoHeader, EchoByte, MemHeader, MemReadDummy,
                    MemReadByte, MemWriteByte, CpuRegRd, CpuRegWrSelect, CpuRegWrByte,
                    QueryErrCode, PpuDisable, CartSetCfgStart, CartSetCfgByte, Goto, ByteStates
      <4>3. Head(rx_fifo'.entries) = rd_data /\ phase' = 2
        BY <3>1, <4>1 DEF rd_data
      <4> QED BY <3>1, <4>1, <4>2, <4>3
    <3> QED BY <3>2, <3>3
  <2> QED BY <2>2, <2>3, <2>4
<1>8. line' # <<>> => rx_ticks' >= 1
  <2>1. CASE Taking
    <3>1. rx_ticks' \in Nat /\ rx_ticks' >= TxTicks
      BY <2>1, ReceiverNext
    <3>2. TxTicks \in Nat /\ TxTicks >= 1
      BY TickFacts
    <3> QED BY <3>1, <3>2
  <2>2. CASE ~Taking
    <3>1. /\ line' = line
          /\ rx_ticks' = IF phase = TickClks - 1 /\ line # <<>> THEN rx_ticks - 1 ELSE rx_ticks
      BY <2>2, ReceiverNext
    <3>2. line # <<>> => rx_ticks >= 1
      BY DEF Running, Timing
    <3>3. rx_ticks \in Nat
      BY TickFacts
    <3>4. phase = TickClks - 1 /\ line # <<>> => ~(rx_ticks <= 1)
      BY <2>2 DEF Taking
    <3> QED BY <3>1, <3>2, <3>3, <3>4
  <2> QED BY <2>1, <2>2
<1>9. InHand' # <<>> => rx_ticks' >= TxTicks
  <2>1. CASE Taking
    BY <2>1, ReceiverNext
  <2>2. CASE ~Taking
    <3>1. InHand' # <<>> => rx_done \/ (~rx_empty /\ ~rd_en(brk))
      BY <2>2, InHandNext, InHandFacts, RxNext DEF InHand
    <3>2. CASE rx_done
      <4>1. phase = 0 /\ InHand # <<>>
        BY <3>2 DEF Running, Timing, InHand
      <4>2. phase # TickClks - 1
        BY <4>1, TickFacts
      <4>3. rx_ticks' = rx_ticks
        BY <2>2, <4>2, ReceiverNext
      <4> QED BY <4>1, <4>3 DEF Running, Timing
    <3>3. CASE ~rx_empty
      BY <3>3, ByteWaits
    <3> QED BY <3>1, <3>2, <3>3
  <2> QED BY <2>1, <2>2
<1>10. FlagsHonest'
  <2>1. /\ rx_fifo'.empty <=> rx_fifo'.entries = <<>>
        /\ rx_fifo'.full <=> Len(rx_fifo'.entries) = FifoDepth
    BY RxNext
  <2>2. /\ tx_fifo'.empty <=> tx_fifo'.entries = <<>>
        /\ tx_fifo'.full <=> Len(tx_fifo'.entries) = FifoDepth
    BY TxNext
  <2> QED BY <2>1, <2>2 DEF FlagsHonest
<1>11. q_rx_parity_err' = FALSE /\ q_err_code'.parity = FALSE
  <2>1. q_rx_parity_err = FALSE /\ q_err_code.parity = FALSE
    BY DEF Running, Timing
  <2>2. q_rx_parity_err' = FALSE
    BY <2>1 DEF Running, Tick, UartBuffers
  <2>3. \E unknown : Errors(unknown)
    BY DEF Running, Tick, Fsm, Wait, Disabled, Decode, EchoHeader, EchoByte, MemHeader,
           MemReadDummy, MemReadByte, MemWriteByte, CpuRegRd, CpuRegWrSelect, CpuRegWrByte,
           QueryErrCode, PpuDisable, CartSetCfgStart, CartSetCfgByte
  <2>4. q_err_code'.parity = (q_err_code.parity \/ q_rx_parity_err)
    BY <2>3 DEF Errors
  <2> QED BY <2>1, <2>2, <2>4
<1> QED BY <1>1, <1>4, <1>5, <1>6, <1>7, <1>8, <1>9, <1>10, <1>11 DEF Timing

LEMMA ShortPaceNext ==
  ASSUME NEW brk, Running(brk), Observed
  PROVE  /\ q_state' \in {"S_QUERY_ERR_CODE", "S_CART_SET_CFG_STG_0"} => phase' = 2
         /\ q_state' = "S_PPU_DISABLE" => phase' = 2 + q_decode_cnt'
<1> DEFINE short == {"S_QUERY_ERR_CODE", "S_CART_SET_CFG_STG_0", "S_PPU_DISABLE"}
<1>1. q_state' \in short =>
        \/ Decode
        \/ q_state = "S_QUERY_ERR_CODE" /\ tx_full
        \/ PpuDisable
  <2>1. Fsm(brk, cpu_din, ppu_vram_din, dbgreg_in)
    BY DEF Running, Tick
  <2> QED BY <2>1
          DEF Fsm, Wait, Disabled, EchoHeader, EchoByte, MemHeader, MemReadDummy,
              MemReadByte, MemWriteByte, CpuRegRd, CpuRegWrSelect, CpuRegWrByte, QueryErrCode,
              CartSetCfgStart, CartSetCfgByte, Goto, ByteStates
<1>2. CASE Decode /\ q_state' \in short
  <2>1. ~rx_empty /\ q_state' = DecodeTarget(rd_data) /\ q_decode_cnt' = 0
    BY <1>2 DEF Decode, Goto
  <2>2. rd_data \notin {OP_DBG_BRK, OP_QUERY_DBG_BRK}
    BY <1>2, <2>1
       DEF DecodeTarget, OP_DBG_BRK, OP_QUERY_DBG_BRK, OP_ECHO, OP_CPU_MEM_RD, OP_CPU_MEM_WR,
           OP_DBG_RUN, OP_CPU_REG_RD, OP_CPU_REG_WR, OP_QUERY_ERR_CODE, OP_PPU_MEM_RD,
           OP_PPU_MEM_WR, OP_PPU_DISABLE, OP_CART_SET_CFG
  <2>3. phase' = phase + 1 /\ phase = 1
    BY <2>1, <2>2, ByteWaits
  <2> QED BY <2>1, <2>3
<1>3. ~(q_state = "S_QUERY_ERR_CODE" /\ tx_full)
  <2>1. q_state = "S_QUERY_ERR_CODE" => Answered = <<>>
    BY DEF Observed, ReadStates
  <2> QED BY <2>1, NothingAnswered
<1>4. CASE PpuDisable
  <2>1. phase = 2 + q_decode_cnt /\ q_decode_cnt \in 0 .. 5
    BY <1>4 DEF PpuDisable, Running, Pacing, Observed
  <2>2. /\ q_decode_cnt' = NextDecodeCnt
        /\ q_state' = IF q_decode_cnt = 5 THEN "S_DECODE" ELSE "S_PPU_DISABLE"
    BY <1>4 DEF PpuDisable, Goto
  <2>3. q_decode_cnt # 5 => NextDecodeCnt = q_decode_cnt + 1
    BY <2>1 DEF NextDecodeCnt
  <2>4. phase' = phase + 1
    BY <2>1, TickFacts
  <2> QED BY <2>1, <2>2, <2>3, <2>4
<1> QED BY <1>1, <1>2, <1>3, <1>4

LEMMA EchoPaceNext ==
  ASSUME NEW brk, Running(brk), Observed, q_state' = "S_ECHO_STG_1"
  PROVE  EchoPace'
<1>1. \/ EchoHeader
      \/ EchoByte
      \/ Wait /\ q_state = "S_ECHO_STG_1" /\ rx_empty
  <2>1. Fsm(brk, cpu_din, ppu_vram_din, dbgreg_in)
    BY DEF Running, Tick
  <2>2. ~Decode
    <3> SUFFICES ASSUME Decode PROVE FALSE
      OBVIOUS
    <3>1. q_state' = DecodeTarget(rd_data)
      BY DEF Decode, Goto
    <3> QED BY <3>1 DEF DecodeTarget
  <2> QED BY <2>1, <2>2
          DEF Fsm, Wait, Disabled, MemHeader, MemReadDummy,
              MemReadByte, MemWriteByte, CpuRegRd, CpuRegWrSelect, CpuRegWrByte, QueryErrCode,
              PpuDisable, CartSetCfgStart, CartSetCfgByte, Goto, ByteStates
<1>2. ASSUME tx_fifo'.entries = <<>>, ~q_wr_en'
      PROVE  EchoPace'
  <2>1. Len(tx_fifo'.entries) = 0
    BY <1>2
  <2> QED BY <1>2, <2>1 DEF EchoPace
<1>3. CASE EchoHeader
  <2>1. q_state = "S_ECHO_STG_0" /\ ~q_wr_en'
    BY <1>3 DEF EchoHeader, NoSend
  <2>2. Answered = <<>>
    BY <2>1 DEF Observed, ReadStates
  <2> QED BY <1>2, <2>1, <2>2, NothingAnswered
<1>4. CASE EchoByte
  <2>1. q_state = "S_ECHO_STG_1" /\ ~rx_empty /\ rx_fifo.entries # <<>>
    BY <1>4, RxNext DEF EchoByte
  <2>2. /\ phase = 1 /\ phase' = phase + 1 /\ rx_ticks' = rx_ticks /\ rx_ticks >= TxTicks
        /\ ~Taking /\ rd_en(brk) /\ ~rx_done /\ ~tx_done
    BY <2>1, ByteWaits
  <2>3. tx_fifo.entries = <<>> /\ ~q_wr_en
    BY <2>1, <2>2 DEF Running, Pacing, EchoPace
  <2>4. tx_fifo'.entries = <<>>
    BY <2>2, <2>3, TxNext
  <2>5. Len(tx_fifo'.entries) = 0
    BY <2>4
  <2>6. phase' = 2 /\ rx_ticks' >= TxTicks
    BY <2>2
  <2> QED BY <2>4, <2>5, <2>6 DEF EchoPace
<1>5. CASE Wait /\ q_state = "S_ECHO_STG_1" /\ rx_empty
  <2> DEFINE n == Len(tx_fifo.entries)
  <2>1. /\ n <= 1
        /\ q_wr_en => tx_fifo.entries = <<>> /\ phase = 2 /\ rx_ticks >= TxTicks
        /\ n = 1 => \/ tx_done
                    \/ tx_ticks = 0 /\ phase = 3 /\ rx_ticks >= TxTicks
                    \/ 0 < tx_ticks /\ tx_ticks <= rx_ticks
        /\ rx_done => tx_fifo.entries = <<>> \/ tx_done
    BY <1>5 DEF Running, Pacing, EchoPace
  <2>2. ~q_wr_en'
    BY <1>5 DEF Wait, NoSend
  <2>3. rx_fifo'.entries # <<>> => rx_done
    BY <1>5, RxNext
  <2>4. /\ tx_done' <=> phase = TickClks - 1 /\ tx_ticks = 1
        /\ tx_ticks' = IF tx_ticks = 0
                         THEN IF ~tx_fifo.empty /\ ~tx_done THEN TxTicks ELSE 0
                         ELSE IF phase = TickClks - 1 THEN tx_ticks - 1 ELSE tx_ticks
    BY DEF Running, Tick, Transmitter, baud_clk_tick
  <2>5. rx_done => phase = 0
    BY DEF Running, Timing
  <2>6. CASE q_wr_en
    <3>1. /\ tx_fifo.entries = <<>> /\ phase = 2 /\ rx_ticks >= TxTicks
      BY <2>1, <2>6
    <3>2. phase' = 3 /\ phase # TickClks - 1 /\ phase # 0
      BY <3>1, TickFacts
    <3>3. rx_done' = FALSE /\ rx_ticks' = rx_ticks
      BY <3>2, ReceiverNext DEF Taking
    <3>4. tx_fifo.empty /\ tx_fifo'.entries = Append(tx_fifo.entries, q_tx_data)
      BY <2>6, <3>1, TxNext
    <3>5. Len(tx_fifo'.entries) = 1
      BY <3>1, <3>4
    <3>6. tx_ticks = 0
      <4>1. tx_ticks \in Nat
        BY TickFacts
      <4>2. ~(tx_ticks > 0)
        BY <3>1 DEF Running, Timing
      <4> QED BY <4>1, <4>2
    <3>7. tx_ticks' = 0
      BY <2>4, <3>4, <3>6
    <3>8. rx_fifo'.entries = <<>>
      BY <2>3, <2>5, <3>2
    <3> QED BY <2>2, <3>1, <3>2, <3>3, <3>5, <3>7, <3>8 DEF EchoPace
  <2>7. CASE ~q_wr_en /\ (tx_done \/ n = 0)
    <3>1. tx_fifo'.entries = <<>>
      <4>1. /\ tx_fifo.entries \in Seq(Byte)
            /\ tx_done => tx_fifo.entries # <<>>
            /\ tx_fifo'.entries = IF tx_done THEN Tail(tx_fifo.entries) ELSE tx_fifo.entries
        BY <2>7, TxNext
      <4>2. tx_done => Tail(tx_fifo.entries) = <<>>
        BY <2>1, <4>1, ShortSeq
      <4>3. n = 0 => tx_fifo.entries = <<>>
        BY <4>1, EmptySeq
      <4> QED BY <2>7, <4>1, <4>2, <4>3
    <3> QED BY <1>2, <2>2, <3>1
  <2>8. CASE ~q_wr_en /\ ~tx_done /\ n = 1
    <3>1. tx_fifo'.entries = tx_fifo.entries /\ tx_fifo.entries # <<>> /\ ~tx_fifo.empty
      <4>1. tx_fifo.entries # <<>>
        BY <2>8
      <4> QED BY <2>8, <4>1, TxNext
    <3>2. Len(tx_fifo'.entries) = 1
      BY <2>8, <3>1
    <3>3. ~rx_done /\ rx_fifo'.entries = <<>>
      BY <2>1, <2>3, <2>8, <3>1
    <3>4. CASE tx_ticks = 0
      <4>1. phase = 3 /\ rx_ticks >= TxTicks
        BY <2>1, <2>8, <3>4
      <4>2. phase # TickClks - 1
        BY <4>1, TickFacts
      <4>3. rx_done' = FALSE /\ rx_ticks' = rx_ticks
        BY <4>2, ReceiverNext DEF Taking
      <4>4. tx_ticks' = TxTicks
        BY <2>4, <2>8, <3>1, <3>4
      <4>5. 0 < tx_ticks' /\ tx_ticks' <= rx_ticks'
        BY <4>1, <4>3, <4>4, TickFacts
      <4> QED BY <2>2, <3>2, <3>3, <4>3, <4>5 DEF EchoPace
    <3>5. CASE tx_ticks # 0
      <4>1. 0 < tx_ticks /\ tx_ticks <= rx_ticks /\ tx_ticks \in Nat /\ rx_ticks \in Nat
        BY <2>1, <2>8, <3>5, TickFacts
      <4>2. tx_ticks' = IF phase = TickClks - 1 THEN tx_ticks - 1 ELSE tx_ticks
        BY <2>4, <3>5
      <4>3. CASE Taking
        <5>1. tx_ticks = 1 /\ phase = TickClks - 1
          BY <4>1, <4>3 DEF Taking
        <5>2. tx_done'
          BY <2>4, <5>1
        <5> QED BY <2>2, <3>2, <3>3, <5>2 DEF EchoPace
      <4>4. CASE ~Taking
        <5>1. /\ rx_done' = FALSE
              /\ rx_ticks' = rx_ticks \/ (rx_ticks' = rx_ticks - 1 /\ phase = TickClks - 1)
          BY <4>4, ReceiverNext
        <5>2. tx_done' \/ (0 < tx_ticks' /\ tx_ticks' <= rx_ticks')
          BY <2>4, <4>1, <4>2, <5>1
        <5> QED BY <2>2, <3>2, <3>3, <5>1, <5>2 DEF EchoPace
      <4> QED BY <4>3, <4>4
    <3> QED BY <3>4, <3>5
  <2>9. n = 0 \/ n = 1
    <3>1. n \in 0 .. FifoDepth
      BY TxNext
    <3>2. n <= 1
      BY <2>1
    <3> HIDE DEF n
    <3> QED BY <3>1, <3>2
  <2> QED BY <2>6, <2>7, <2>8, <2>9
<1> QED BY <1>1, <1>3, <1>4, <1>5

LEMMA ParityNext ==
  ASSUME NEW n \in 0 .. 2 * Wide - 1
  PROVE  /\ n % 2 \in {0, 1} /\ LessOne(n) % 2 = 1 - (n % 2)
BY WideType DEF LessOne

LEMMA RoomNext ==
  ASSUME NEW brk, Running(brk)
  PROVE  /\ Room \in Nat
         /\ Room' = Room + (IF tx_done THEN 1 ELSE 0) - (IF q_wr_en' THEN 1 ELSE 0)
         /\ tx_done => phase = 0
<1> DEFINE n == Len(tx_fifo.entries)
           m == Len(tx_fifo'.entries)
<1>1. n \in 0 .. FifoDepth /\ m = n + (IF q_wr_en THEN 1 ELSE IF tx_done THEN -1 ELSE 0)
  BY TxNext
<1>2. FifoDepth \in Nat
  BY TickFacts
<1>3. tx_done => ~q_wr_en /\ phase = 0
  BY TxNext DEF Running, Timing
<1>4. /\ Room = FifoDepth - n - (IF q_wr_en THEN 1 ELSE 0)
      /\ Room' = FifoDepth - m - (IF q_wr_en' THEN 1 ELSE 0)
  BY DEF Room
<1> HIDE DEF n, m
<1>5. Room \in Nat
  <2>1. q_wr_en => n < FifoDepth
    BY DEF Running, Timing, n
  <2> QED BY <1>1, <1>2, <1>4, <2>1
<1>6. CASE q_wr_en
  <2>1. m = n + 1 /\ ~tx_done
    BY <1>1, <1>3, <1>6
  <2> QED BY <1>1, <1>2, <1>3, <1>4, <1>5, <1>6, <2>1
<1>7. CASE ~q_wr_en /\ tx_done
  <2>1. m = n - 1
    BY <1>1, <1>7
  <2> QED BY <1>1, <1>2, <1>3, <1>4, <1>5, <1>7, <2>1
<1>8. CASE ~q_wr_en /\ ~tx_done
  <2>1. m = n
    BY <1>1, <1>8
  <2> QED BY <1>1, <1>2, <1>3, <1>4, <1>5, <1>8, <2>1
<1> QED BY <1>6, <1>7, <1>8

LEMMA ReadPaceNext ==
  ASSUME NEW brk, Running(brk), Observed, q_state' \in ReadStates
  PROVE  ReadPace'
<1>1. \/ \E stg0, stg1 : q_state = stg0 /\ stg0 \in {"S_CPU_MEM_RD_STG_0", "S_PPU_MEM_RD_STG_0"}
                         /\ stg1 \in ReadStates /\ MemHeader(stg0, stg1, 2)
      \/ \E stg1 \in ReadStates : MemReadDummy(stg1)
      \/ \E stg1 \in ReadStates : \E din : MemReadByte(stg1, din)
      \/ Wait /\ q_state \in ReadStates /\ q_execute_cnt % 2 = 1 /\ tx_full
  <2>1. Fsm(brk, cpu_din, ppu_vram_din, dbgreg_in)
    BY DEF Running, Tick
  <2>2. ~Decode
    <3> SUFFICES ASSUME Decode PROVE FALSE
      OBVIOUS
    <3>1. q_state' = DecodeTarget(rd_data)
      BY DEF Decode, Goto
    <3> QED BY <3>1 DEF DecodeTarget, ReadStates
  <2>3. ~MemHeader("S_CPU_MEM_WR_STG_0", "S_CPU_MEM_WR_STG_1", 1)
    BY DEF MemHeader, Goto, ReadStates
  <2>4. ~MemHeader("S_PPU_MEM_WR_STG_0", "S_PPU_MEM_WR_STG_1", 1)
    BY DEF MemHeader, Goto, ReadStates
  <2>5. MemHeader("S_CPU_MEM_RD_STG_0", "S_CPU_MEM_RD_STG_1", 2)
          => q_state = "S_CPU_MEM_RD_STG_0" /\ "S_CPU_MEM_RD_STG_1" \in ReadStates
    BY DEF MemHeader, ReadStates
  <2>6. MemHeader("S_PPU_MEM_RD_STG_0", "S_PPU_MEM_RD_STG_1", 2)
          => q_state = "S_PPU_MEM_RD_STG_0" /\ "S_PPU_MEM_RD_STG_1" \in ReadStates
    BY DEF MemHeader, ReadStates
  <2>7. Wait => q_state \in ReadStates /\ q_execute_cnt % 2 = 1 /\ tx_full
    BY DEF Wait, ReadStates, ByteStates
  <2>8. ~(\/ Disabled(brk) \/ EchoHeader \/ EchoByte
          \/ MemWriteByte("S_CPU_MEM_WR_STG_1") \/ MemWriteByte("S_PPU_MEM_WR_STG_1")
          \/ CpuRegRd(dbgreg_in) \/ CpuRegWrSelect \/ CpuRegWrByte \/ QueryErrCode
          \/ PpuDisable \/ CartSetCfgStart \/ CartSetCfgByte)
    BY DEF Disabled, EchoHeader, EchoByte, MemWriteByte, CpuRegRd, CpuRegWrSelect,
           CpuRegWrByte, QueryErrCode, PpuDisable, CartSetCfgStart, CartSetCfgByte, Goto,
           ReadStates
  <2>9. "S_CPU_MEM_RD_STG_1" \in ReadStates /\ "S_PPU_MEM_RD_STG_1" \in ReadStates
    BY DEF ReadStates
  <2> QED BY <2>1, <2>2, <2>3, <2>4, <2>5, <2>6, <2>7, <2>8, <2>9 DEF Fsm
<1>2. /\ Room \in Nat
      /\ Room' = Room + (IF tx_done THEN 1 ELSE 0) - (IF q_wr_en' THEN 1 ELSE 0)
      /\ tx_done => phase = 0
  BY RoomNext
<1>3. /\ phase \in 0 .. TickClks - 1 /\ TickClks \in Nat /\ TickClks > 8
      /\ TickClks >= 2 * FifoDepth + 4 /\ FifoDepth \in Nat /\ FifoDepth >= 2
      /\ phase' = IF phase = TickClks - 1 THEN 0 ELSE phase + 1
  BY TickFacts
<1>4. last_a' = q_addr /\ q_execute_cnt \in 0 .. 2 * Wide - 1 /\ q_execute_cnt % 2 \in {0, 1}
  BY ParityNext DEF Running, Tick, Memories, IInv, RegsOK
<1>5. ASSUME q_state \in ReadStates
      PROVE  /\ phase = 0 => Room = 0 /\ ~q_wr_en
             /\ Room = 0 \/ phase + 2 * Room - (q_execute_cnt % 2) <= TickClks - 1
             /\ q_execute_cnt % 2 = 1 => last_a = q_addr /\ ~q_wr_en
  BY <1>5 DEF Running, Pacing, ReadPace
<1>6. ASSUME NEW stg0 \in {"S_CPU_MEM_RD_STG_0", "S_PPU_MEM_RD_STG_0"},
             NEW stg1 \in ReadStates, MemHeader(stg0, stg1, 2)
      PROVE  ReadPace'
  <2>1. ~rx_empty /\ q_state = stg0 /\ ~q_wr_en'
    BY <1>6 DEF MemHeader, NoSend
  <2>2. Answered = <<>>
    BY <2>1 DEF Observed, ReadStates
  <2>3. tx_fifo'.entries = <<>> /\ Len(tx_fifo'.entries) = 0
    BY <2>2, NothingAnswered
  <2>4. Room' = FifoDepth
    BY <1>3, <2>1, <2>3 DEF Room
  <2>5. phase = 1 /\ phase' = 2
    BY <2>1, ByteWaits
  <2>6. q_execute_cnt' % 2 = 0
    <3>1. q_execute_cnt' = 2 * Joined(rd_data, LowByte(q_execute_cnt))
      <4>1. /\ q_state' = IF q_decode_cnt <= 2 THEN stg0
                          ELSE IF q_execute_cnt' # 0 THEN stg1 ELSE "S_DECODE"
            /\ q_execute_cnt' =
                 CASE q_decode_cnt \in {0, 1} -> q_execute_cnt
                   [] q_decode_cnt = 2 -> rd_data
                   [] OTHER -> 2 * Joined(rd_data, LowByte(q_execute_cnt))
        BY <1>6 DEF MemHeader, Goto
      <4>2. ~(q_decode_cnt <= 2)
        BY <4>1 DEF ReadStates
      <4> QED BY <4>1, <4>2
    <3>2. Joined(rd_data, LowByte(q_execute_cnt)) \in Nat
      <4>1. rd_data \in Byte /\ q_execute_cnt \in Nat
        BY <1>4, <2>1, InHandFacts, WideType
      <4>2. Joined(rd_data, LowByte(q_execute_cnt)) \in 0 .. Wide - 1
        BY <4>1, JoinedType
      <4> QED BY <4>2, WideType
    <3> QED BY <3>1, <3>2
  <2>7. phase' + 2 * Room' - (q_execute_cnt' % 2) <= TickClks - 1
    BY <1>3, <2>4, <2>5, <2>6
  <2> QED BY <2>1, <2>5, <2>6, <2>7 DEF ReadPace
<1>7. ASSUME NEW stg1 \in ReadStates, MemReadDummy(stg1)
      PROVE  ReadPace'
  <2>1. /\ q_state \in ReadStates /\ q_execute_cnt % 2 = 0 /\ ~q_wr_en' /\ q_addr' = q_addr
        /\ q_execute_cnt' = LessOne(q_execute_cnt)
    BY <1>7 DEF MemReadDummy, NoSend
  <2>2. q_execute_cnt' % 2 = 1
    BY <1>4, <2>1, ParityNext
  <2>3. last_a' = q_addr'
    BY <1>4, <2>1
  <2>4. Room' = Room + (IF tx_done THEN 1 ELSE 0)
    BY <1>2, <2>1
  <2>5. phase' = 0 => Room' = 0
    BY <1>2, <1>3, <1>5, <2>1, <2>4
  <2>6. Room' = 0 \/ phase' + 2 * Room' - 1 <= TickClks - 1
    <3>1. CASE tx_done
      BY <1>2, <1>3, <1>5, <2>1, <2>4, <3>1
    <3>2. CASE ~tx_done
      BY <1>2, <1>3, <1>5, <2>1, <2>4, <3>2
    <3> QED BY <3>1, <3>2
  <2> QED BY <2>1, <2>2, <2>3, <2>5, <2>6 DEF ReadPace
<1>8. ASSUME NEW stg1 \in ReadStates, NEW din, MemReadByte(stg1, din)
      PROVE  ReadPace'
  <2>1. /\ q_state \in ReadStates /\ q_execute_cnt % 2 = 1 /\ q_wr_en' = TRUE /\ ~tx_full
        /\ q_execute_cnt' = LessOne(q_execute_cnt)
    BY <1>8 DEF MemReadByte, Send
  <2>2. q_execute_cnt' % 2 = 0
    BY <1>4, <2>1, ParityNext
  <2>3. Room # 0
    <3> DEFINE n == Len(tx_fifo.entries)
    <3>1. n \in 0 .. FifoDepth /\ n # FifoDepth
      BY <2>1, TxNext
    <3>2. Room = FifoDepth - n
      BY <1>3, <1>5, <2>1, <3>1 DEF Room
    <3> HIDE DEF n
    <3> QED BY <1>3, <3>1, <3>2
  <2>4. phase # 0 /\ ~tx_done /\ Room' = Room - 1
    BY <1>2, <1>5, <2>1, <2>3
  <2>5. phase' # 0 /\ phase' + 2 * Room' - 0 <= TickClks - 1
    BY <1>2, <1>3, <1>5, <2>1, <2>3, <2>4
  <2> QED BY <2>2, <2>5 DEF ReadPace
<1>9. CASE Wait /\ q_state \in ReadStates /\ q_execute_cnt % 2 = 1 /\ tx_full
  <2>1. ~q_wr_en' /\ q_execute_cnt' = q_execute_cnt /\ q_addr' = q_addr /\ ~q_wr_en
    BY <1>5, <1>9 DEF Wait, NoSend
  <2>2. Room = 0
    <3> DEFINE n == Len(tx_fifo.entries)
    <3>1. n = FifoDepth
      BY <1>9, TxNext
    <3>2. Room = FifoDepth - n - 0
      BY <2>1 DEF Room
    <3> HIDE DEF n
    <3> QED BY <1>3, <3>1, <3>2
  <2>3. Room' = IF tx_done THEN 1 ELSE 0
    BY <1>2, <2>1, <2>2
  <2>4. last_a' = q_addr' /\ q_execute_cnt' % 2 = 1
    BY <1>4, <1>9, <2>1
  <2>5. phase' = 0 => Room' = 0
    BY <1>2, <1>3, <2>3
  <2>6. Room' = 0 \/ phase' + 2 * Room' - 1 <= TickClks - 1
    BY <1>2, <1>3, <2>3
  <2> QED BY <2>1, <2>4, <2>5, <2>6 DEF ReadPace
<1> QED BY <1>1, <1>6, <1>7, <1>8, <1>9

LEMMA PacingNext ==
  ASSUME NEW brk, Running(brk), Observed
  PROVE  Pacing'
BY ShortPaceNext, EchoPaceNext, ReadPaceNext DEF Pacing, ReadStates

--------------------------------------------------------------------------------
(* The answers and the course over one clock. *)

LEMMA CourseStep ==
  ASSUME NEW brk, Running(brk), NEW h, NEW u \in Seq(Byte), NEW k \in Nat, OnCourse(h, u, k),
         ~rx_empty => u # <<>> /\ Head(u) = rd_data,
         NEW v, v = IF rd_en(brk) THEN Tail(u) ELSE u
  PROVE  Advances(h, k, v)
<1>1. brk \in BOOLEAN /\ Fsm(brk, cpu_din, ppu_vram_din, dbgreg_in)
  BY DEF Running, Tick
<1>2. Setting(brk, h, u, k, v)
  BY DEF Setting, Running, LinkTypes, Tick
<1>3. q_err_code.parity = FALSE
  BY DEF Running, Timing
<1>4. q_state \in ReadStates /\ q_execute_cnt % 2 = 1 => last_a = q_addr
  BY DEF Running, Pacing, ReadPace
<1> QED BY <1>1, <1>2, <1>3, <1>4, FsmCourse

(* The registers and memories after a clock: a register that is read exists. *)
LEMMA RegistersNext ==
  ASSUME NEW brk, Running(brk), Observed
  PROVE  IInv' /\ MemoriesOK' /\ q_tx_data' \in Byte /\ q_wr_en' \in BOOLEAN
<1>1. brk \in BOOLEAN /\ Fsm(brk, cpu_din, ppu_vram_din, dbgreg_in) /\ Memories
  BY DEF Running, Tick
<1>2. IInv /\ MemoriesOK
  BY DEF Running, LinkTypes
<1>3. BuffersOK'
  <2>1. UartBuffers(brk, rx_done, rx_byte, FALSE, tx_done)
    BY DEF Running, Tick
  <2>2. PICK done, byte, sent : done = rx_done /\ byte = rx_byte /\ sent = tx_done
    OBVIOUS
  <2>3. done \in BOOLEAN /\ byte \in Byte /\ sent \in BOOLEAN
    BY <2>2 DEF Running, LinkTypes
  <2>4. UartBuffers(brk, done, byte, FALSE, sent)
    BY <2>1, <2>2
  <2> QED BY <1>1, <1>2, <2>3, <2>4, BuffersStep
<1>4. cpu_din \in Byte /\ ppu_vram_din \in Byte
  <2>1. /\ RamSize \in Nat /\ RamSize >= 1 /\ VramSize \in Nat /\ VramSize >= 1
        /\ last_a \in Nat
    BY <1>2, LinkFacts, WideType DEF MemoriesOK
  <2>2. last_a % RamSize \in 0 .. RamSize - 1 /\ last_a % VramSize \in 0 .. VramSize - 1
    BY <2>1, DivFacts
  <2> QED BY <1>2, <2>2, OwnBytes DEF MemoriesOK, cpu_din, ppu_vram_din
<1>5. q_state = "S_CPU_REG_RD" /\ ~rx_empty => dbgreg_in \in Byte
  <2> SUFFICES ASSUME q_state = "S_CPU_REG_RD", ~rx_empty
               PROVE  dbgreg_in \in Byte
    OBVIOUS
  <2>1. InHand # <<>> /\ Head(InHand) = rd_data
    BY InHandFacts
  <2>2. rd_data \in RegSels
    BY <2>1 DEF Observed
  <2>3. rd_data % 16 = rd_data
    BY <2>2, LinkFacts
  <2>4. dbgreg_in = regs[rd_data]
    BY <2>3 DEF dbgreg_in, cpu_dbgreg_sel, cpu_dbgreg_wr
  <2> QED BY <1>2, <2>2, <2>4 DEF MemoriesOK
<1>6. PICK ram_in, vram_in, reg_in :
        ram_in = cpu_din /\ vram_in = ppu_vram_din /\ reg_in = dbgreg_in
  OBVIOUS
<1>7. /\ ram_in \in Byte /\ vram_in \in Byte
      /\ q_state = "S_CPU_REG_RD" /\ ~rx_empty => reg_in \in Byte
      /\ Fsm(brk, ram_in, vram_in, reg_in)
  BY <1>1, <1>4, <1>5, <1>6
<1>8. RegsOK'
  BY <1>1, <1>2, <1>7, FsmStep
<1>9. MemoriesOK'
  BY <1>1, <1>2, MemoriesStep
<1>10. q_tx_data' \in Byte /\ q_wr_en' \in BOOLEAN
  BY <1>8 DEF RegsOK
<1> QED BY <1>3, <1>8, <1>9, <1>10 DEF IInv

(* The answers of one clock join the others. *)
LEMMA AnsweredGrows ==
  ASSUME NEW brk, Running(brk), Observed
  PROVE  /\ Len(Answered) \in Nat
         /\ Len(Answered') = Len(Answered) + (IF q_wr_en' THEN 1 ELSE 0)
         /\ \A i \in 1 .. Len(Answered) : Answered'[i] = Answered[i]
         /\ q_wr_en' => Answered'[Len(Answered) + 1] = q_tx_data'
         /\ ~q_wr_en' => Answered' = Answered
<1>1. /\ Answered \in Seq(Byte) /\ Len(Answered) \in Nat
      /\ q_tx_data' \in Byte /\ q_wr_en' \in BOOLEAN
      /\ Answered' = Answered \o Asking'
      /\ Asking' = IF q_wr_en' THEN <<q_tx_data'>> ELSE <<>>
  <2>1. Answered \in Seq(Byte) /\ Answered' = Answered \o Asking'
    BY AnsweredNext
  <2> QED BY <2>1, RegistersNext DEF Asking
<1> DEFINE s == Answered
           b == q_tx_data'
<1>2. CASE q_wr_en'
  <2>1. s \in Seq(Byte) /\ b \in Byte /\ Len(s) \in Nat
    BY <1>1
  <2> HIDE DEF s, b
  <2>2. Append(s, b) = s \o <<b>>
    BY <2>1, AppendIsConcat
  <2>3. /\ Len(Append(s, b)) = Len(s) + 1 /\ Append(s, b)[Len(s) + 1] = b
        /\ \A i \in 1 .. Len(s) : Append(s, b)[i] = s[i]
    BY <2>1
  <2>4. Answered' = Append(s, b)
    BY <1>1, <1>2, <2>2 DEF s, b
  <2> QED BY <1>1, <1>2, <2>3, <2>4 DEF s, b
<1>3. CASE ~q_wr_en'
  <2>1. Answered' = Answered \o <<>>
    BY <1>1, <1>3
  <2>2. Answered \o <<>> = Answered
    BY <1>1, ConcatEmptySeq
  <2>3. Answered' = Answered
    BY <2>1, <2>2
  <2> QED BY <1>1, <1>3, <2>3
<1> QED BY <1>1, <1>2, <1>3

(* A clock on which a running console starts or goes on running. *)
LEMMA RunningNext ==
  ASSUME NEW brk, Running(brk), Observed, q_state' = "S_DISABLED"
  PROVE  \/ q_state = "S_DISABLED" /\ (q_wr_en' => q_tx_data' = 0)
         \/ Answered = <<>> /\ ~q_wr_en' /\ ~rx_empty
<1>1. \/ Disabled(brk)
      \/ Decode
  <2>1. Fsm(brk, cpu_din, ppu_vram_din, dbgreg_in)
    BY DEF Running, Tick
  <2> QED BY <2>1
          DEF Fsm, Wait, EchoHeader, EchoByte, MemHeader, MemReadDummy, MemReadByte,
              MemWriteByte, CpuRegRd, CpuRegWrSelect, CpuRegWrByte, QueryErrCode, PpuDisable,
              CartSetCfgStart, CartSetCfgByte, Goto, ByteStates
<1>2. CASE Disabled(brk)
  BY <1>2 DEF Disabled, Send, NoSend
<1>3. CASE Decode
  <2>1. q_state = "S_DECODE" /\ ~rx_empty /\ DecodeTarget(rd_data) = "S_DISABLED"
    BY <1>3 DEF Decode, Goto
  <2>2. rd_data # OP_QUERY_DBG_BRK
    BY <2>1
       DEF DecodeTarget, OP_DBG_BRK, OP_QUERY_DBG_BRK, OP_ECHO, OP_CPU_MEM_RD, OP_CPU_MEM_WR,
           OP_DBG_RUN, OP_CPU_REG_RD, OP_CPU_REG_WR, OP_QUERY_ERR_CODE, OP_PPU_MEM_RD,
           OP_PPU_MEM_WR, OP_PPU_DISABLE, OP_CART_SET_CFG
  <2>3. ~q_wr_en'
    BY <1>3, <2>2 DEF Decode, NoSend
  <2>4. Answered = <<>>
    BY <2>1, InHandFacts DEF Observed
  <2> QED BY <2>1, <2>3, <2>4
<1> QED BY <1>1, <1>2, <1>3

LEMMA PendingZeroNext ==
  ASSUME NEW brk, Running(brk), Observed, PendingZero
  PROVE  PendingZero'
<1> SUFFICES ASSUME q_state' = "S_DISABLED", NEW i \in 1 .. Len(Answered'),
                    i > Len(host'.got)
             PROVE  Answered'[i] = 0
  BY DEF PendingZero
<1> DEFINE n == Len(Answered)
<1>1. /\ n \in Nat /\ Len(Answered') = n + (IF q_wr_en' THEN 1 ELSE 0)
      /\ \A x \in 1 .. n : Answered'[x] = Answered[x]
      /\ q_wr_en' => Answered'[n + 1] = q_tx_data'
      /\ ~q_wr_en' => Answered' = Answered
  BY AnsweredGrows
<1>2. CASE q_state = "S_DISABLED" /\ (q_wr_en' => q_tx_data' = 0)
  <2>1. \A x \in 1 .. n : x > Len(host.got) => Answered[x] = 0
    BY <1>2 DEF PendingZero
  <2>2. Len(host.got) \in Nat /\ Len(host'.got) >= Len(host.got)
    <3>1. host.got \in Seq(Byte)
      BY DEF Running, LinkTypes, IsHost
    <3>2. host'.got = IF tx_done THEN Append(host.got, Head(tx_fifo.entries)) ELSE host.got
      BY HostNext
    <3>3. tx_done => Head(tx_fifo.entries) \in Byte
      <4>1. tx_done => tx_fifo.entries # <<>> /\ tx_fifo.entries \in Seq(Byte)
        BY TxNext
      <4> QED BY <4>1, HeadTailProperties
    <3>4. Len(host.got) \in Nat
      BY <3>1
    <3>5. tx_done => Len(Append(host.got, Head(tx_fifo.entries))) = Len(host.got) + 1
      BY <3>1, <3>3
    <3>6. CASE tx_done
      BY <3>2, <3>4, <3>5, <3>6
    <3>7. CASE ~tx_done
      BY <3>2, <3>4, <3>7
    <3> QED BY <3>4, <3>6, <3>7
  <2> HIDE DEF n
  <2>3. CASE i \in 1 .. n
    <3>1. i > Len(host.got)
      <4> DEFINE g == Len(host.got)
                 g2 == Len(host'.got)
      <4>1. g2 >= g /\ g \in Nat /\ i > g2 /\ i \in Nat
        BY <2>2, <2>3
      <4>2. g2 \in Nat
        <5>1. host'.got \in Seq(Byte)
          BY AnsweredNext
        <5> QED BY <5>1
      <4> HIDE DEF g, g2
      <4>3. i > g
        BY <4>1, <4>2
      <4> QED BY <4>3 DEF g
    <3> QED BY <1>1, <2>1, <2>3, <3>1
  <2>4. CASE i \notin 1 .. n
    <3>1. q_wr_en' /\ i = n + 1
      BY <1>1, <2>4
    <3> QED BY <1>1, <1>2, <3>1
  <2> QED BY <2>3, <2>4
<1>3. CASE Answered = <<>> /\ ~q_wr_en'
  <2>1. Len(Answered') = 0
    BY <1>1, <1>3
  <2> QED BY <2>1
<1> QED BY <1>2, <1>3, RunningNext

(* The course is the host's whatever it has got; it may learn that the console
   has stopped once that is so. *)
LEMMA CourseShared ==
  ASSUME NEW h, NEW x, NEW v, NEW m, OnCourse(h, v, m)',
         x.want = h.want, x.ram = h.ram, x.vram = h.vram, x.regs = h.regs,
         x.unknown = h.unknown,
         x.running # h.running =>
           q_state' # "S_DISABLED" /\ \A p : \A j : AtStep(p, j, m)' => p.op # OP_DBG_RUN
  PROVE  OnCourse(x, v, m)'
<1>1. Idle(h, v, m)' => Idle(x, v, m)'
  BY DEF Idle
<1>2. ASSUME NEW p \in Packets, NEW j \in Nat,
             Rest(p, j, v), Owes(h, p, j)', AtStep(p, j, m)'
      PROVE  OnCourse(x, v, m)'
  <2>1. Owes(x, p, j)'
    <3>1. x.running # h.running => p.op # OP_DBG_RUN /\ q_state' # "S_DISABLED"
      BY <1>2
    <3> QED BY <1>2, <3>1 DEF Owes, Now
  <2> QED BY <1>2, <2>1, Continued
<1> QED BY <1>1, <1>2 DEF OnCourse, Working

(* Only an ECHO or a memory read has been answered in part. *)
LEMMA PartAnswered ==
  ASSUME NEW p, NEW j, NEW m, AtStep(p, j, m)', m # 0
  PROVE  p.op # OP_DBG_RUN
BY DEF AtStep, StartAt, EchoHeaderAt, EchoAt, HeaderAt, ReadAt, WriteAt, RegAt, OtherAt,
       OP_DBG_RUN, OP_ECHO, OP_CPU_MEM_RD, OP_PPU_MEM_RD

(* A byte on its way to the host is among the answers, right behind those that
   the host has. *)
LEMMA OnItsWay ==
  ASSUME NEW brk, Running(brk), tx_done
  PROVE  /\ Len(host.got) + 1 \in 1 .. Len(Answered)
         /\ Answered[Len(host.got) + 1] = Head(tx_fifo.entries)
<1> DEFINE got == host.got
           es == tx_fifo.entries
<1>1. got \in Seq(Byte) /\ es \in Seq(Byte) /\ es # <<>> /\ ~q_wr_en
  <2>1. es \in Seq(Byte) /\ es # <<>> /\ ~q_wr_en
    BY TxNext
  <2> QED BY <2>1 DEF Running, LinkTypes, IsHost
<1>2. Answered = (got \o es) \o <<>>
  BY <1>1 DEF Answered, Asking
<1> HIDE DEF got, es
<1>3. got \o es \in Seq(Byte)
  BY <1>1, ConcatProperties
<1>4. (got \o es) \o <<>> = got \o es
  BY <1>3, ConcatEmptySeq
<1>5. /\ Len(got) \in Nat /\ Len(es) \in Nat /\ Len(es) >= 1 /\ Head(es) = es[1]
  BY <1>1
<1>6. /\ Len(got \o es) = Len(got) + Len(es)
      /\ \A i \in 1 .. Len(got) + Len(es) :
           (got \o es)[i] = IF i <= Len(got) THEN got[i] ELSE es[i - Len(got)]
  BY <1>1, ConcatProperties
<1> DEFINE n == Len(got)
           all == got \o es
<1>7. n + 1 \in 1 .. n + Len(es) /\ ~(n + 1 <= n) /\ (n + 1) - n = 1
  <2>1. n \in Nat /\ Len(es) \in Nat /\ Len(es) >= 1
    BY <1>5
  <2> HIDE DEF n
  <2> QED BY <2>1
<1>8. all[n + 1] = Head(es) /\ Len(all) = n + Len(es)
  BY <1>5, <1>6, <1>7
<1>9. Answered = all
  BY <1>2, <1>4
<1> HIDE DEF n, all
<1>10. n + 1 \in 1 .. Len(Answered) /\ Answered[n + 1] = Head(es)
  BY <1>7, <1>8, <1>9
<1> QED BY <1>10 DEF n, got, es

(* The host learns of a stop only when the console has stopped. *)
LEMMA StopIsTrue ==
  ASSUME NEW brk, Running(brk), Observed, PendingZero, host'.running # host.running
  PROVE  q_state' # "S_DISABLED" /\ Len(Answered) # 0
<1>1. tx_done /\ Head(tx_fifo.entries) = 1
  <2>1. host.running \in BOOLEAN
    BY DEF Running, LinkTypes, IsHost
  <2> QED BY <2>1, HostNext
<1>2. /\ Len(host.got) + 1 \in 1 .. Len(Answered)
      /\ Answered[Len(host.got) + 1] = 1
  BY <1>1, OnItsWay
<1>3. Len(host.got) \in Nat /\ Len(Answered) \in Nat
  <2>1. host.got \in Seq(Byte)
    BY DEF Running, LinkTypes, IsHost
  <2> QED BY <2>1, AnsweredGrows
<1>4. Len(Answered) # 0 /\ Len(host.got) + 1 > Len(host.got)
  <2> DEFINE n == Len(host.got)
             m == Len(Answered)
  <2>1. n \in Nat /\ m \in Nat /\ n + 1 \in 1 .. m
    BY <1>2, <1>3
  <2> HIDE DEF n, m
  <2>2. m # 0 /\ n + 1 > n
    BY <2>1
  <2> QED BY <2>2 DEF n, m
<1>5. q_state # "S_DISABLED"
  BY <1>2, <1>4 DEF PendingZero
<1>6. Answered # <<>>
  BY <1>4
<1>7. q_state' # "S_DISABLED"
  BY <1>5, <1>6, RunningNext
<1> QED BY <1>4, <1>7

LEMMA CaughtUpNext ==
  ASSUME NEW brk, Running(brk), Observed, Matched, PendingZero, CaughtUp
  PROVE  CaughtUp' /\ Matched'
<1>1. PICK h, u, k : h = host /\ u = Unread /\ k = Len(Answered) /\ OnCourse(h, u, k)
  BY DEF CaughtUp
<1>2. PICK v : v = Unread'
  OBVIOUS
<1>3. PICK x : x = host'
  OBVIOUS
<1>4. /\ u \in Seq(Byte) /\ k \in Nat
      /\ ~rx_empty => u # <<>> /\ Head(u) = rd_data
      /\ v = IF rd_en(brk) THEN Tail(u) ELSE u
  BY <1>1, <1>2, UnreadNext, AnsweredGrows
<1>5. Advances(h, k, v)
  BY <1>1, <1>4, CourseStep
<1>6. PICK m \in Nat :
        /\ OnCourse(h, v, m)'
        /\ IF q_wr_en' THEN m = k + 1 /\ k < Len(h.want) /\ q_tx_data' \in h.want[k + 1]
                       ELSE m = k
  BY <1>5 DEF Advances
<1>7. m = Len(Answered')
  BY <1>1, <1>4, <1>6, AnsweredGrows
<1>8. /\ x.want = h.want /\ x.ram = h.ram /\ x.vram = h.vram /\ x.regs = h.regs
      /\ x.unknown = h.unknown
  BY <1>1, <1>3, HostNext
<1>9. x.running # h.running => q_state' # "S_DISABLED" /\ m # 0
  <2>1. x.running # h.running => q_state' # "S_DISABLED" /\ k # 0
    BY <1>1, <1>3, StopIsTrue
  <2> QED BY <1>4, <1>6, <2>1
<1>10. x.running # h.running => \A p : \A j : AtStep(p, j, m)' => p.op # OP_DBG_RUN
  BY <1>9, PartAnswered
<1>11. OnCourse(x, v, m)'
  BY <1>6, <1>8, <1>9, <1>10, CourseShared
<1>12. CaughtUp'
  BY <1>2, <1>3, <1>7, <1>11 DEF CaughtUp
<1>13. Matched'
  <2>1. /\ Len(Answered) <= Len(host.want) /\ k = Len(Answered)
        /\ \A i \in 1 .. Len(Answered) : Answered[i] \in host.want[i]
    BY <1>1 DEF Matched
  <2>2. host'.want = host.want /\ h.want = host.want /\ Len(host.want) \in Nat
    BY <1>1, HostNext DEF Running, LinkTypes, IsHost
  <2>3. /\ \A i \in 1 .. k : Answered'[i] = Answered[i]
        /\ q_wr_en' => Answered'[k + 1] = q_tx_data'
    BY <1>1, AnsweredGrows
  <2>4. m <= Len(host.want)
    BY <1>4, <1>6, <2>1, <2>2
  <2>5. ASSUME NEW i \in 1 .. m
        PROVE  Answered'[i] \in host.want[i]
    <3>1. CASE i \in 1 .. k
      BY <2>1, <2>3, <3>1
    <3>2. CASE i \notin 1 .. k
      <4>1. q_wr_en' /\ i = k + 1
        BY <1>4, <1>6, <3>2
      <4> QED BY <1>6, <2>2, <2>3, <4>1
    <3> QED BY <3>1, <3>2
  <2> QED BY <1>7, <2>2, <2>4, <2>5 DEF Matched
<1> QED BY <1>12, <1>13

(* A packet waits behind another, and no byte of it is taken yet. *)
LEMMA QueuedNext ==
  ASSUME NEW brk, Running(brk), Observed, Matched, PendingZero, Queued, ~Taking
  PROVE  Queued' /\ Matched'
<1>q. PICK p \in Packets : \E g : QueuedBehind(p, g)
  BY DEF Queued
<1>1. PICK g : QueuedBehind(p, g)
  BY <1>q
<1>2. PICK u : u = InHand /\ OnCourse(g, u, Len(g.want))
  BY <1>1 DEF QueuedBehind
<1>3. Answered = <<>> /\ IsHost(g) /\ Len(g.want) \in Nat
  <2>1. Answered = <<>> /\ IsHost(g)
    BY <1>1 DEF QueuedBehind
  <2>2. Len(g.want) \in Nat
    BY <2>1 DEF IsHost
  <2> QED BY <2>1, <2>2
<1>4. PICK v : v = InHand'
  OBVIOUS
<1>5. /\ u \in Seq(Byte)
      /\ ~rx_empty => u # <<>> /\ Head(u) = rd_data
      /\ v = IF rd_en(brk) THEN Tail(u) ELSE u
      /\ line' = line
  BY <1>2, <1>4, InHandFacts, InHandNext
<1>6. Advances(g, Len(g.want), v)
  BY <1>2, <1>3, <1>5, InHandFacts, CourseStep
<1>7. OnCourse(g, v, Len(g.want))' /\ ~q_wr_en'
  <2>1. PICK m \in Nat :
          /\ OnCourse(g, v, m)'
          /\ IF q_wr_en' THEN Len(g.want) < Len(g.want) ELSE m = Len(g.want)
    BY <1>6 DEF Advances
  <2>2. ~(Len(g.want) < Len(g.want))
    BY <1>3
  <2> QED BY <2>1, <2>2
<1>8. Answered' = <<>> /\ host' = host
  <2>1. Answered' = Answered
    BY <1>7, AnsweredGrows
  <2>2. ~tx_done
    BY <1>3, NothingAnswered
  <2> QED BY <1>3, <2>1, <2>2, HostNext
<1>9. QueuedBehind(p, g)'
  BY <1>1, <1>4, <1>5, <1>7, <1>8 DEF QueuedBehind
<1>10. Matched'
  <2>1. Len(Answered') = 0 /\ Len(host'.want) \in Nat
    BY <1>8 DEF Running, LinkTypes, IsHost
  <2> QED BY <2>1 DEF Matched
<1> QED BY <1>9, <1>10 DEF Queued


--------------------------------------------------------------------------------
(* A packet that has been read and answered in full is over. *)
LEMMA OverWhenAnswered ==
  ASSUME NEW h, OnCourse(h, <<>>, Len(h.want)), q_state # "S_PPU_DISABLE"
  PROVE  Idle(h, <<>>, Len(h.want))
<1> SUFFICES ASSUME NEW p \in Packets, NEW j \in Nat,
                    Rest(p, j, <<>>), Owes(h, p, j), AtStep(p, j, Len(h.want))
             PROVE  FALSE
  BY DEF OnCourse, Working
<1> DEFINE n == Len(PacketBytes(p))
           k == Len(h.want)
<1>1. j = n /\ n \in Nat /\ n >= 1
  BY RestFacts, PacketLayout DEF Layout
<1>2. Asked(p, h.want)
  BY OwesAsked
<1> HIDE DEF n, k
<1>3. AtStep(p, j, k)
  BY DEF k
<1>4. ~StartAt(j, k)
  BY <1>1 DEF StartAt
<1>5. ~EchoHeaderAt(p, j, k) /\ ~EchoAt(p, j, k)
  <2>1. p.op = OP_ECHO => n = Len(p.data) + 3 /\ Len(p.data) \in Nat /\ k = Len(p.data)
    BY <1>2, PacketLayout, PacketFacts, WideType DEF Layout, Asked, n, k
  <2> QED BY <1>1, <2>1 DEF EchoHeaderAt, EchoAt
<1>6. p.op \in ReadOps => n = 5 /\ p.n \in Nat /\ k = p.n
  BY <1>2, PacketLayout, PacketFacts, WideType DEF Layout, Asked, ReadOps, n, k
<1>7. p.op \in WriteOps => n = Len(p.data) + 5 /\ Len(p.data) \in Nat
  BY PacketLayout, PacketFacts, WideType DEF Layout, WriteOps, n
<1>8. /\ ~HeaderAt(OP_CPU_MEM_RD, "S_CPU_MEM_RD_STG_0", p.n, p, j, k)
      /\ ~HeaderAt(OP_PPU_MEM_RD, "S_PPU_MEM_RD_STG_0", p.n, p, j, k)
  BY <1>1, <1>6 DEF HeaderAt, ReadOps
<1>9. /\ ~HeaderAt(OP_CPU_MEM_WR, "S_CPU_MEM_WR_STG_0", Len(p.data), p, j, k)
      /\ ~HeaderAt(OP_PPU_MEM_WR, "S_PPU_MEM_WR_STG_0", Len(p.data), p, j, k)
  BY <1>1, <1>7 DEF HeaderAt, WriteOps
<1>10. /\ ~ReadAt(OP_CPU_MEM_RD, "S_CPU_MEM_RD_STG_1", p, j, k)
       /\ ~ReadAt(OP_PPU_MEM_RD, "S_PPU_MEM_RD_STG_1", p, j, k)
  BY <1>6 DEF ReadAt, ReadOps
<1>11. /\ ~WriteAt(OP_CPU_MEM_WR, "S_CPU_MEM_WR_STG_1", p, j, k)
       /\ ~WriteAt(OP_PPU_MEM_WR, "S_PPU_MEM_WR_STG_1", p, j, k)
  BY <1>1, <1>7 DEF WriteAt, WriteOps
<1>12. ~RegAt(p, j, k)
  <2>1. /\ p.op = OP_CPU_REG_RD => n = 2
        /\ p.op = OP_CPU_REG_WR => n = 3
    BY PacketLayout DEF Layout, n
  <2> QED BY <1>1, <2>1 DEF RegAt
<1>13. ~OtherAt(p, j, k)
  <2>1. /\ p.op = OP_QUERY_ERR_CODE => k = 1
        /\ p.op = OP_CART_SET_CFG => n = 6
    BY <1>2, PacketLayout DEF Layout, Asked, n, k
  <2> QED BY <1>1, <2>1 DEF OtherAt
<1> QED BY <1>3, <1>4, <1>5, <1>8, <1>9, <1>10, <1>11, <1>12, <1>13 DEF AtStep


(* The host's record once a packet has been sent. *)
LEMMA SentFacts ==
  ASSUME NEW p, NEW g, IsHost(g),
         NEW h, h = Sent(p, g)
  PROVE  /\ h.want = Answer(p, g) /\ h.got = <<>>
         /\ h.ram = IF p.op = OP_CPU_MEM_WR
                      THEN Stored(g.ram, RamSize, p.addr, p.data) ELSE g.ram
         /\ h.vram = IF p.op = OP_PPU_MEM_WR
                       THEN Stored(g.vram, VramSize, p.addr, p.data) ELSE g.vram
         /\ h.regs = IF p.op = OP_CPU_REG_WR
                       THEN SetReg(g.regs, p.sel, p.val) ELSE g.regs
         /\ h.running \in BOOLEAN
         /\ h.running <=> p.op = OP_DBG_RUN \/ (p.op # OP_DBG_BRK /\ g.running)
         /\ h.unknown <=> g.unknown \/ p.op > OP_CART_SET_CFG
         /\ h = [running |-> h.running, want |-> h.want, got |-> h.got, ram |-> h.ram,
                 vram |-> h.vram, regs |-> h.regs, unknown |-> h.unknown]
<1>1. PICK run, cpu, ppu, file, odd :
        /\ run = IF p.op = OP_DBG_RUN THEN TRUE
                 ELSE IF p.op = OP_DBG_BRK THEN FALSE ELSE g.running
        /\ cpu = IF p.op = OP_CPU_MEM_WR
                   THEN Stored(g.ram, RamSize, p.addr, p.data) ELSE g.ram
        /\ ppu = IF p.op = OP_PPU_MEM_WR
                   THEN Stored(g.vram, VramSize, p.addr, p.data) ELSE g.vram
        /\ file = IF p.op = OP_CPU_REG_WR
                    THEN SetReg(g.regs, p.sel, p.val) ELSE g.regs
        /\ odd = (g.unknown \/ p.op > OP_CART_SET_CFG)
  OBVIOUS
<1>2. PICK x, want : x = Obeyed(p, g) /\ want = Answer(p, g)
  OBVIOUS
<1>3. x = [g EXCEPT !.running = run, !.ram = cpu, !.vram = ppu, !.regs = file, !.unknown = odd]
  BY <1>1, <1>2 DEF Obeyed
<1>4. h = [x EXCEPT !.want = want, !.got = <<>>]
  BY <1>2 DEF Sent
<1>5. g = [running |-> g.running, want |-> g.want, got |-> g.got, ram |-> g.ram,
           vram |-> g.vram, regs |-> g.regs, unknown |-> g.unknown]
  BY DEF IsHost
<1>6. x = [running |-> run, want |-> g.want, got |-> g.got, ram |-> cpu,
           vram |-> ppu, regs |-> file, unknown |-> odd]
  BY <1>3, <1>5
<1>7. h = [running |-> run, want |-> want, got |-> <<>>, ram |-> cpu, vram |-> ppu,
           regs |-> file, unknown |-> odd]
  BY <1>4, <1>6
<1>8. /\ h.want = want /\ h.got = <<>> /\ h.ram = cpu /\ h.vram = ppu /\ h.regs = file
      /\ h.running = run /\ h.unknown = odd
  BY <1>7
<1>9. run \in BOOLEAN
  BY <1>1 DEF IsHost
<1> QED BY <1>1, <1>2, <1>7, <1>8, <1>9 DEF OP_DBG_RUN, OP_DBG_BRK

(* The next packet begins where the last one left the console. *)
LEMMA PacketBegins ==
  ASSUME NEW p \in Packets, NEW g, IsHost(g), Idle(g, <<>>, Len(g.want)),
         g.running => p.op \in {OP_DBG_BRK, OP_QUERY_DBG_BRK},
         NEW h, h = Sent(p, g)
  PROVE  Working(h, PacketBytes(p), 0)
<1>1. g.running \in BOOLEAN
  BY DEF IsHost
<1>2. /\ h.want = Answer(p, g)
      /\ h.ram = IF p.op = OP_CPU_MEM_WR THEN Stored(g.ram, RamSize, p.addr, p.data) ELSE g.ram
      /\ h.vram = IF p.op = OP_PPU_MEM_WR THEN Stored(g.vram, VramSize, p.addr, p.data) ELSE g.vram
      /\ h.regs = IF p.op = OP_CPU_REG_WR
                    THEN SetReg(g.regs, p.sel, p.val) ELSE g.regs
      /\ h.running <=> p.op = OP_DBG_RUN \/ (p.op # OP_DBG_BRK /\ g.running)
      /\ h.unknown <=> g.unknown \/ p.op > OP_CART_SET_CFG
  BY SentFacts
<1>3. /\ q_state \in {"S_DECODE", "S_DISABLED"}
      /\ g.ram = ram /\ g.vram = vram /\ g.regs = regs
      /\ g.unknown <=> q_err_code.opcode
      /\ q_state = "S_DISABLED" => g.running
  BY DEF Idle
<1>4. Answer(p, g) = Answer(p, Now(g.running))
  <2> DEFINE w == Now(g.running)
  <2>1. /\ w.running = g.running /\ w.ram = g.ram /\ w.vram = g.vram /\ w.regs = g.regs
        /\ w.unknown <=> g.unknown
    BY <1>3 DEF Now
  <2> HIDE DEF w
  <2>2. (IF w.unknown THEN 2 ELSE 0) = IF g.unknown THEN 2 ELSE 0
    BY <2>1
  <2>3. Answer(p, g) = Answer(p, w)
    BY <2>1, <2>2 DEF Answer
  <2> QED BY <2>3 DEF w
<1>5. \E r \in BOOLEAN : h.want = Answer(p, Now(r)) /\ (q_state = "S_DISABLED" => r)
  BY <1>1, <1>2, <1>3, <1>4
<1>6. /\ p.op = OP_CPU_MEM_WR =>
           Stored(ram, RamSize, p.addr, p.data)
             = StoredFrom(ram, RamSize, p.addr, p.data, Taken(0))
      /\ p.op = OP_PPU_MEM_WR =>
           Stored(vram, VramSize, p.addr, p.data)
             = StoredFrom(vram, VramSize, p.addr, p.data, Taken(0))
  <2>1. p.op \in {OP_CPU_MEM_WR, OP_PPU_MEM_WR} => p.data \in Seq(Byte)
    BY PacketFacts
  <2>2. Taken(0) = 0
    BY DEF Taken
  <2> QED BY <2>1, <2>2, NothingWritten
<1>7. /\ h.ram = IF p.op = OP_CPU_MEM_WR
                   THEN StoredFrom(ram, RamSize, p.addr, p.data, Taken(0)) ELSE ram
      /\ h.vram = IF p.op = OP_PPU_MEM_WR
                    THEN StoredFrom(vram, VramSize, p.addr, p.data, Taken(0)) ELSE vram
  BY <1>2, <1>3, <1>6
<1>8. h.regs = IF p.op = OP_CPU_REG_WR /\ 0 < 3
                 THEN [regs EXCEPT ![p.sel] = RegWritten(p.sel, @, p.val)] ELSE regs
  BY <1>2, <1>3 DEF SetReg
<1>9. /\ h.unknown <=> q_err_code.opcode \/ (0 = 0 /\ p.op > OP_CART_SET_CFG)
      /\ p.op = OP_DBG_RUN => h.running
      /\ q_state = "S_DISABLED" =>
           p.op = OP_DBG_BRK \/ (p.op = OP_QUERY_DBG_BRK /\ h.running)
  BY <1>2, <1>3 DEF OP_DBG_RUN, OP_DBG_BRK, OP_QUERY_DBG_BRK
<1>10. Owes(h, p, 0)
  BY <1>5, <1>7, <1>8, <1>9 DEF Owes
<1>11. AtStep(p, 0, 0)
  BY <1>3 DEF AtStep, StartAt
<1> QED BY <1>10, <1>11, RestWhole DEF Working

(* The line brings the first byte of a waiting packet only when the packet
   before is over. *)
LEMMA QueueMoves ==
  ASSUME NEW brk, Running(brk), Observed, Queued, Taking
  PROVE  CaughtUp
<1>q. PICK p \in Packets : \E g : QueuedBehind(p, g)
  BY DEF Queued
<1>1. PICK g : QueuedBehind(p, g)
  BY <1>q
<1>2. PICK u : u = InHand /\ OnCourse(g, u, Len(g.want))
  BY <1>1 DEF QueuedBehind
<1>3. InHand = <<>>
  BY ReceiverNext
<1>4. q_state # "S_PPU_DISABLE"
  <2>1. phase = TickClks - 1 /\ TickClks > 8 /\ TickClks \in Nat
    BY TickFacts DEF Taking
  <2>2. q_state = "S_PPU_DISABLE" => phase = 2 + q_decode_cnt /\ q_decode_cnt \in 0 .. 5
    BY DEF Running, Pacing, Observed
  <2> QED BY <2>1, <2>2
<1>5. Idle(g, <<>>, Len(g.want))
  BY <1>2, <1>3, <1>4, OverWhenAnswered
<1>6. PICK h, v : h = host /\ v = PacketBytes(p)
  OBVIOUS
<1>7. Working(h, v, 0)
  BY <1>1, <1>5, <1>6, PacketBegins DEF QueuedBehind
<1>8. Unread = v
  <2>1. line = v /\ line \in Seq(Byte)
    BY <1>1, <1>6 DEF QueuedBehind, Running, LinkTypes
  <2> QED BY <1>3, <2>1, ConcatEmptySeq DEF Unread
<1>9. Len(Answered) = 0
  BY <1>1 DEF QueuedBehind
<1> QED BY <1>6, <1>7, <1>8, <1>9 DEF CaughtUp, OnCourse


--------------------------------------------------------------------------------
(* One clock. *)

LEMMA LinkTypesNext ==
  ASSUME NEW brk, Running(brk), Observed
  PROVE  LinkTypes'
<1>1. /\ TickClks \in Nat /\ TickClks > 8 /\ phase \in 0 .. TickClks - 1
      /\ phase' = IF phase = TickClks - 1 THEN 0 ELSE phase + 1
      /\ TxTicks \in Nat /\ tx_ticks \in 0 .. TxTicks /\ rx_ticks \in Nat
  BY TickFacts
<1>2. phase' \in 0 .. TickClks - 1
  BY <1>1
<1>3. tx_ticks' \in 0 .. TxTicks /\ tx_done' \in BOOLEAN
  <2>1. Transmitter
    BY DEF Running, Tick
  <2> QED BY <1>1, <2>1 DEF Transmitter, baud_clk_tick
<1>4. line \in Seq(Byte) /\ rx_byte \in Byte
  BY DEF Running, LinkTypes
<1>5. Taking => Head(line) \in Byte /\ Tail(line) \in Seq(Byte)
  BY <1>4, HeadTailProperties DEF Taking
<1>6. /\ rx_done' \in BOOLEAN
      /\ rx_byte' \in Byte
      /\ line' \in Seq(Byte)
  BY <1>4, <1>5, ReceiverNext
<1>7. rx_ticks' \in Nat
  <2>1. ~Taking => rx_ticks' = IF phase = TickClks - 1 /\ line # <<>>
                                 THEN rx_ticks - 1 ELSE rx_ticks
    BY ReceiverNext
  <2>2. Taking => rx_ticks' \in Nat
    BY ReceiverNext
  <2>3. ~Taking /\ phase = TickClks - 1 /\ line # <<>> => rx_ticks > 1
    BY <1>1 DEF Taking
  <2> QED BY <1>1, <2>1, <2>2, <2>3
<1>8. MemoriesOK' /\ IsHost(host')
  BY RegistersNext, HostNext
<1> QED BY <1>2, <1>3, <1>6, <1>7, <1>8 DEF LinkTypes

LEMMA ClockStep ==
  ASSUME LinkInv, Clock
  PROVE  LinkInv'
<1>1. PICK brk : Tick(brk)
  BY ClockTicks
<1>2. Running(brk) /\ Matched /\ PendingZero /\ (CaughtUp \/ Queued)
  BY <1>1 DEF LinkInv, Running
<1>3. Observed
  BY <1>2, Observation
<1>4. IInv' /\ LinkTypes' /\ Timing' /\ Pacing' /\ PendingZero'
  BY <1>2, <1>3, RegistersNext, LinkTypesNext, TimingNext, PacingNext, PendingZeroNext
<1>5. Matched' /\ (CaughtUp' \/ Queued')
  <2>1. Queued => CaughtUp \/ ~Taking
    BY <1>2, <1>3, QueueMoves
  <2>2. CaughtUp => Matched' /\ CaughtUp'
    BY <1>2, <1>3, CaughtUpNext
  <2>3. Queued /\ ~Taking => Matched' /\ Queued'
    BY <1>2, <1>3, QueuedNext
  <2> QED BY <1>2, <2>1, <2>2, <2>3
<1> QED BY <1>4, <1>5 DEF LinkInv


--------------------------------------------------------------------------------
(* The host sends. *)

LEMMA AnswerLength ==
  ASSUME NEW p \in Packets, NEW g
  PROVE  Len(Answer(p, g)) \in Nat
<1> USE DEF OP_ECHO, OP_CPU_MEM_RD, OP_CPU_REG_RD, OP_QUERY_DBG_BRK, OP_QUERY_ERR_CODE,
            OP_PPU_MEM_RD
<1>1. CASE p.op = OP_ECHO
  <2>1. DOMAIN p.data = 1 .. Len(p.data) /\ Len(p.data) \in Nat
    BY <1>1, PacketFacts
  <2>2. Answer(p, g) = [i \in 1 .. Len(p.data) |-> {p.data[i]}]
    BY <1>1, <2>1 DEF Answer
  <2> QED BY <2>1, <2>2, FunctionLength
<1>2. CASE p.op = OP_CPU_MEM_RD
  <2>1. p.n \in Nat
    BY <1>2, PacketFacts, WideType DEF ReadOps
  <2>2. Answer(p, g) = [i \in 1 .. p.n |-> {g.ram[(p.addr + i - 1) % RamSize]}]
    BY <1>2 DEF Answer, Cells
  <2> QED BY <2>1, <2>2, FunctionLength
<1>3. CASE p.op = OP_PPU_MEM_RD
  <2>1. p.n \in Nat
    BY <1>3, PacketFacts, WideType DEF ReadOps
  <2>2. Answer(p, g) = [i \in 1 .. p.n |-> {g.vram[(p.addr + i - 1) % VramSize]}]
    BY <1>3 DEF Answer, Cells
  <2> QED BY <2>1, <2>2, FunctionLength
<1>4. CASE p.op = OP_CPU_REG_RD
  <2>1. Answer(p, g) = <<{g.regs[p.sel]}>>
    BY <1>4 DEF Answer
  <2> QED BY <2>1
<1>5. CASE p.op = OP_QUERY_DBG_BRK
  <2>1. Answer(p, g) = <<IF g.running THEN {0, 1} ELSE {1}>>
    BY <1>5 DEF Answer
  <2> QED BY <2>1
<1>6. CASE p.op = OP_QUERY_ERR_CODE
  <2>1. Answer(p, g) = <<{IF g.unknown THEN 2 ELSE 0}>>
    BY <1>6 DEF Answer
  <2> QED BY <2>1
<1>7. CASE p.op \notin {OP_ECHO, OP_CPU_MEM_RD, OP_PPU_MEM_RD, OP_CPU_REG_RD,
                       OP_QUERY_DBG_BRK, OP_QUERY_ERR_CODE}
  <2>1. Answer(p, g) = <<>>
    BY <1>7 DEF Answer
  <2> QED BY <2>1
<1> QED BY <1>1, <1>2, <1>3, <1>4, <1>5, <1>6, <1>7

(* A host that has its whole answer sees nothing else on its way. *)
LEMMA AllAnswered ==
  ASSUME LinkInv, line = <<>>, Len(host.got) = Len(host.want)
  PROVE  /\ tx_fifo.entries = <<>> /\ ~q_wr_en
         /\ InHand \in Seq(Byte)
         /\ \E g, u : g = host /\ u = InHand /\ OnCourse(g, u, Len(g.want))
<1>1. /\ host.got \in Seq(Byte) /\ tx_fifo.entries \in Seq(Byte)
      /\ q_wr_en \in BOOLEAN /\ (q_wr_en => q_tx_data \in Byte)
      /\ InHand \in Seq(Byte)
  <2>1. rx_fifo.entries \in Seq(Byte) /\ tx_fifo.entries \in Seq(Byte)
    BY DEF LinkInv, IInv, BuffersOK, RX!TypeOK, TX!TypeOK, RX!Queues, TX!Queues
  <2>2. q_wr_en \in BOOLEAN /\ (q_wr_en => q_tx_data \in Byte)
    BY DEF LinkInv, IInv, RegsOK
  <2>3. rx_byte \in Byte /\ host.got \in Seq(Byte)
    BY DEF LinkInv, LinkTypes, IsHost
  <2>4. <<rx_byte>> \in Seq(Byte)
    BY <2>3
  <2> QED BY <2>1, <2>2, <2>3, <2>4 DEF InHand
<1> DEFINE got == host.got
           sent == tx_fifo.entries
           asked == Asking
<1>2. asked \in Seq(Byte) /\ Len(asked) = IF q_wr_en THEN 1 ELSE 0
  BY <1>1 DEF Asking
<1>3. Answered = (got \o sent) \o asked
  BY DEF Answered
<1>4. Len(Answered) <= Len(got)
  BY DEF LinkInv, Matched
<1>5. got \in Seq(Byte) /\ sent \in Seq(Byte)
  BY <1>1
<1> HIDE DEF got, sent, asked
<1>6. Len(Answered) = (Len(got) + Len(sent)) + Len(asked)
  <2>1. got \o sent \in Seq(Byte) /\ Len(got \o sent) = Len(got) + Len(sent)
    BY <1>5, ConcatProperties
  <2>2. Len((got \o sent) \o asked) = Len(got \o sent) + Len(asked)
    BY <1>2, <2>1, ConcatProperties
  <2> QED BY <1>3, <2>1, <2>2
<1>7. Len(sent) = 0 /\ Len(asked) = 0 /\ Len(Answered) = Len(got)
  <2>1. Len(got) \in Nat /\ Len(sent) \in Nat /\ Len(asked) \in Nat
    BY <1>2, <1>5, LenProperties
  <2> QED BY <1>4, <1>6, <2>1
<1>8. sent = <<>>
  BY <1>5, <1>7, EmptySeq
<1>9. ~q_wr_en
  BY <1>2, <1>7
<1>10. ~Queued
  <2> SUFFICES ASSUME NEW p \in Packets, NEW g, QueuedBehind(p, g)
               PROVE  FALSE
    BY DEF Queued
  <2>1. PacketBytes(p) = <<>>
    BY DEF QueuedBehind
  <2>2. Len(PacketBytes(p)) = 0
    BY <2>1
  <2> QED BY <2>2, PacketLayout DEF Layout
<1>11. PICK h, v, k : h = host /\ v = Unread /\ k = Len(Answered) /\ OnCourse(h, v, k)
  BY <1>10 DEF LinkInv, CaughtUp
<1>12. v = InHand
  BY <1>1, <1>11, ConcatEmptySeq DEF Unread
<1>13. k = Len(h.want)
  BY <1>7, <1>11 DEF got
<1> QED BY <1>1, <1>8, <1>9, <1>11, <1>12, <1>13 DEF sent


LEMMA SendStep ==
  ASSUME LinkInv, NEW p \in Packets, HostSend(p)
  PROVE  LinkInv'
<1>1. /\ line = <<>> /\ Len(host.got) = Len(host.want)
      /\ host.running => p.op \in {OP_DBG_BRK, OP_QUERY_DBG_BRK}
      /\ line' = PacketBytes(p) /\ rx_ticks' \in RxGaps /\ host' = Sent(p, host)
  BY DEF HostSend, MaySend, Sent
<1>2. /\ q_state' = q_state /\ q_decode_cnt' = q_decode_cnt /\ q_execute_cnt' = q_execute_cnt
      /\ q_addr' = q_addr /\ q_err_code' = q_err_code /\ q_tx_data' = q_tx_data
      /\ q_wr_en' = q_wr_en /\ q_rx_parity_err' = q_rx_parity_err
      /\ rx_fifo' = rx_fifo /\ tx_fifo' = tx_fifo
      /\ phase' = phase /\ tx_ticks' = tx_ticks /\ tx_done' = tx_done
      /\ rx_done' = rx_done /\ rx_byte' = rx_byte
      /\ ram' = ram /\ vram' = vram /\ last_a' = last_a /\ regs' = regs
      /\ UNCHANGED vars
  <2>1. UNCHANGED vars
    BY DEF HostSend
  <2>2. /\ phase' = phase /\ tx_ticks' = tx_ticks /\ tx_done' = tx_done
        /\ rx_done' = rx_done /\ rx_byte' = rx_byte
        /\ ram' = ram /\ vram' = vram /\ last_a' = last_a /\ regs' = regs
    BY DEF HostSend
  <2> QED BY <2>1, <2>2 DEF vars, hciRegs
<1>3. /\ tx_fifo.entries = <<>> /\ ~q_wr_en
      /\ \E g, u : g = host /\ u = InHand /\ OnCourse(g, u, Len(g.want))
  BY <1>1, AllAnswered
<1>4. PICK g, u : g = host /\ u = InHand /\ OnCourse(g, u, Len(g.want))
  BY <1>3
<1>5. PICK h : h = host'
  OBVIOUS
<1>6. IsHost(g) /\ h = Sent(p, g)
  BY <1>1, <1>4, <1>5 DEF LinkInv, LinkTypes
<1>7. h.got = <<>> /\ IsHost(h)
  <2>1. /\ h.want = Answer(p, g) /\ h.got = <<>> /\ h.running \in BOOLEAN
        /\ h = [running |-> h.running, want |-> h.want, got |-> h.got, ram |-> h.ram,
                vram |-> h.vram, regs |-> h.regs, unknown |-> h.unknown]
    BY <1>6, SentFacts
  <2>2. Len(h.want) \in Nat
    BY <2>1, AnswerLength
  <2> QED BY <2>1, <2>2 DEF IsHost
<1>8. Answered' = <<>>
  <2>1. host'.got = <<>> /\ tx_fifo'.entries = <<>> /\ Asking' = <<>>
    BY <1>2, <1>3, <1>5, <1>7 DEF Asking
  <2> QED BY <2>1 DEF Answered
<1>9. InHand' = InHand
  BY <1>2 DEF InHand
<1>10. rx_ticks' \in Nat /\ rx_ticks' >= TxTicks /\ rx_ticks' >= 1
  BY <1>1, LinkFacts
<1>11. IInv'
  BY <1>2, NextIInv DEF LinkInv
<1>12. LinkTypes'
  <2>1. line' \in Seq(Byte)
    BY <1>1, PacketLayout DEF Layout
  <2>2. MemoriesOK'
    BY <1>2 DEF LinkInv, LinkTypes, MemoriesOK
  <2>3. IsHost(host')
    BY <1>5, <1>7
  <2> QED BY <1>2, <1>10, <2>1, <2>2, <2>3 DEF LinkInv, LinkTypes
<1>13. Timing'
  <2>1. FlagsHonest'
    BY <1>2 DEF LinkInv, Timing, FlagsHonest
  <2> QED BY <1>2, <1>9, <1>10, <2>1 DEF LinkInv, Timing
<1>14. Pacing'
  <2>1. Len(<<>>) = 0 /\ 0 <= 1 /\ 0 # 1
    OBVIOUS
  <2>2. EchoPace'
    BY <1>2, <1>3, <2>1 DEF EchoPace
  <2>3. q_state \in ReadStates => ReadPace'
    BY <1>2 DEF LinkInv, Pacing, ReadPace, Room
  <2> QED BY <1>2, <2>2, <2>3 DEF LinkInv, Pacing
<1>15. Matched' /\ PendingZero'
  <2>1. Len(Answered') = 0
    BY <1>8
  <2>2. Len(host'.want) \in Nat
    BY <1>5, <1>7 DEF IsHost
  <2> QED BY <2>1, <2>2 DEF Matched, PendingZero
<1>16. Queued'
  <2>1. OnCourse(g, u, Len(g.want))'
    BY <1>2, <1>4, CourseKept
  <2>2. QueuedBehind(p, g)'
    BY <1>1, <1>4, <1>6, <1>8, <1>9, <2>1 DEF QueuedBehind
  <2> QED BY <2>2 DEF Queued
<1> QED BY <1>11, <1>12, <1>13, <1>14, <1>15, <1>16 DEF LinkInv

(* Nothing happens. *)
LEMMA StillInv ==
  ASSUME LinkInv, UNCHANGED linkVars
  PROVE  LinkInv'
<1>1. /\ q_state' = q_state /\ q_decode_cnt' = q_decode_cnt /\ q_execute_cnt' = q_execute_cnt
      /\ q_addr' = q_addr /\ q_err_code' = q_err_code /\ q_tx_data' = q_tx_data
      /\ q_wr_en' = q_wr_en /\ q_rx_parity_err' = q_rx_parity_err
      /\ rx_fifo' = rx_fifo /\ tx_fifo' = tx_fifo
      /\ phase' = phase /\ tx_ticks' = tx_ticks /\ tx_done' = tx_done
      /\ rx_ticks' = rx_ticks /\ rx_done' = rx_done /\ rx_byte' = rx_byte
      /\ ram' = ram /\ vram' = vram /\ last_a' = last_a /\ regs' = regs
      /\ line' = line /\ host' = host
      /\ UNCHANGED vars
  <2>1. UNCHANGED vars
    BY DEF linkVars
  <2>2. /\ phase' = phase /\ tx_ticks' = tx_ticks /\ tx_done' = tx_done
        /\ rx_ticks' = rx_ticks /\ rx_done' = rx_done /\ rx_byte' = rx_byte
        /\ ram' = ram /\ vram' = vram /\ last_a' = last_a /\ regs' = regs
        /\ line' = line /\ host' = host
    BY DEF linkVars, uartVars
  <2> QED BY <2>1, <2>2 DEF vars, hciRegs
<1>2. InHand' = InHand /\ Asking' = Asking
  BY <1>1 DEF InHand, Asking
<1>3. Unread' = Unread /\ Answered' = Answered
  BY <1>1, <1>2 DEF Unread, Answered
<1>4. IInv'
  BY <1>1, NextIInv DEF LinkInv
<1>5. LinkTypes'
  BY <1>1 DEF LinkInv, LinkTypes, MemoriesOK
<1>6. Timing'
  BY <1>1, <1>2 DEF LinkInv, Timing, FlagsHonest
<1>7. Pacing'
  BY <1>1 DEF LinkInv, Pacing, EchoPace, ReadPace, Room
<1>8. Matched' /\ PendingZero'
  BY <1>1, <1>3 DEF LinkInv, Matched, PendingZero
<1>9. CaughtUp => CaughtUp'
  <2> SUFFICES ASSUME NEW h, NEW u, NEW k,
                      h = host, u = Unread, k = Len(Answered), OnCourse(h, u, k)
               PROVE  CaughtUp'
    BY DEF CaughtUp
  <2>1. OnCourse(h, u, k)'
    BY <1>1, CourseKept
  <2> QED BY <1>1, <1>3, <2>1 DEF CaughtUp
<1>10. Queued => Queued'
  <2> SUFFICES ASSUME NEW p \in Packets, NEW g, QueuedBehind(p, g)
               PROVE  QueuedBehind(p, g)'
    BY DEF Queued
  <2>1. PICK u : u = InHand /\ OnCourse(g, u, Len(g.want))
    BY DEF QueuedBehind
  <2>2. OnCourse(g, u, Len(g.want))'
    BY <1>1, <2>1, CourseKept
  <2> QED BY <1>1, <1>2, <1>3, <2>1, <2>2 DEF QueuedBehind
<1> QED BY <1>4, <1>5, <1>6, <1>7, <1>8, <1>9, <1>10 DEF LinkInv


--------------------------------------------------------------------------------
(* The initial state. *)

LEMMA ResetType ==
  ASSUME NEW r
  PROVE  RegAtReset(r) \in Byte
<1>1. Base \in Nat /\ Base >= 16
  BY ConstantFacts
<1>2. Base \div 2 \in Byte /\ Base \div 8 \in Byte /\ Base - 1 \in Byte /\ 0 \in Byte
  BY <1>1 DEF Byte
<1>3. \/ RegAtReset(r) = Base \div 2 \/ RegAtReset(r) = Base - 1
      \/ RegAtReset(r) = Base \div 8 \/ RegAtReset(r) = 0
  BY DEF RegAtReset
<1> QED BY <1>2, <1>3

LEMMA LinkInitInv == LinkInit => LinkInv
<1> SUFFICES ASSUME LinkInit
             PROVE  LinkInv
  OBVIOUS
<1> USE DEF LinkInit
<1>1. /\ q_state = "S_DECODE" /\ q_err_code = [parity |-> FALSE, opcode |-> FALSE]
      /\ q_wr_en = FALSE /\ q_rx_parity_err = FALSE
      /\ rx_fifo = [entries |-> <<>>, empty |-> TRUE, full |-> FALSE]
      /\ tx_fifo = [entries |-> <<>>, empty |-> TRUE, full |-> FALSE]
  BY DEF Init, RX!NewQueue, TX!NewQueue
<1>2. /\ phase = 0 /\ tx_ticks = 0 /\ tx_done = FALSE /\ rx_ticks = 0 /\ rx_done = FALSE
      /\ rx_byte = 0 /\ line = <<>> /\ last_a = 0
      /\ host = [running |-> FALSE, want |-> <<>>, got |-> <<>>, ram |-> ram, vram |-> vram,
                 regs |-> regs, unknown |-> FALSE]
  OBVIOUS
<1>3. IInv
  BY InitIInv
<1>4. LinkTypes
  <2>1. 0 \in Byte /\ 0 \in 0 .. Wide - 1
    BY OwnBytes, WideType
  <2>2. ram \in [0 .. RamSize - 1 -> Byte] /\ vram \in [0 .. VramSize - 1 -> Byte]
    BY <2>1
  <2>3. regs \in [RegSels -> Byte]
    BY ResetType
  <2>4. IsHost(host)
    BY <1>2 DEF IsHost
  <2>5. 0 \in 0 .. TickClks - 1 /\ 0 \in 0 .. TxTicks /\ 0 \in Nat /\ <<>> \in Seq(Byte)
    BY LinkFacts
  <2> QED BY <1>2, <2>1, <2>2, <2>3, <2>4, <2>5 DEF LinkTypes, MemoriesOK
<1>5. InHand = <<>> /\ Asking = <<>> /\ rx_fifo.entries = <<>> /\ tx_fifo.entries = <<>>
  BY <1>1, <1>2 DEF InHand, Asking
<1>6. Unread = <<>> /\ Answered = <<>>
  BY <1>2, <1>5 DEF Unread, Answered
<1>7. Timing
  <2>1. FlagsHonest
    <3>1. FifoDepth \in Nat /\ FifoDepth >= 2
      BY ConstantFacts
    <3> QED BY <1>1, <3>1 DEF FlagsHonest
  <2>2. Len(<<>>) <= 1 /\ ~(0 > 0)
    OBVIOUS
  <2> QED BY <1>1, <1>2, <1>5, <2>1, <2>2 DEF Timing
<1>8. Pacing
  BY <1>1 DEF Pacing, ReadStates
<1>9. Matched /\ PendingZero
  <2>1. Len(Answered) = 0 /\ Len(host.want) = 0
    BY <1>2, <1>6
  <2> QED BY <1>1, <2>1 DEF Matched, PendingZero
<1>10. CaughtUp
  <2>1. PICK h, u, k : h = host /\ u = Unread /\ k = Len(Answered)
    OBVIOUS
  <2>2. u = <<>> /\ k = 0 /\ Len(h.want) = 0
    BY <1>2, <1>6, <2>1
  <2>3. Idle(h, u, k)
    BY <1>1, <1>2, <2>1, <2>2 DEF Idle
  <2> QED BY <2>1, <2>3 DEF CaughtUp, OnCourse
<1> QED BY <1>3, <1>4, <1>7, <1>8, <1>9, <1>10 DEF LinkInv


--------------------------------------------------------------------------------
(* The whole invariant holds at every moment of the link: with hci.v and the
   UART of hw/src/cmn/uart stepped clock by clock against the packets of
   dbgpacket.cpp, the console and the host always agree how far the packet has
   come. *)
THEOREM LinkInductive == LinkSpec => []LinkInv
<1>1. LinkInv /\ [LinkNext]_linkVars => LinkInv'
  BY ClockStep, SendStep, StillInv DEF LinkNext
<1> QED BY <1>1, LinkInitInv, PTL DEF LinkSpec

(* Every byte the host gets is one that its packet asked for, at its place in
   the answer: the reads of hci.v are those of the address, the register or the
   error that the packet names, whatever came before it. *)
THEOREM LinkAnswersMatch == LinkSpec => []AnswersMatch
<1>1. LinkInv => AnswersMatch
  <2> SUFFICES ASSUME LinkInv
               PROVE  AnswersMatch
    OBVIOUS
  <2>1. /\ host.got \in Seq(Byte) /\ tx_fifo.entries \in Seq(Byte)
        /\ Asking \in Seq(Byte) /\ Len(host.want) \in Nat
    <3>1. tx_fifo.entries \in Seq(Byte)
      BY DEF LinkInv, IInv, BuffersOK, TX!TypeOK, TX!Queues
    <3>2. q_tx_data \in Byte
      BY DEF LinkInv, IInv, RegsOK
    <3>3. Asking \in Seq(Byte)
      BY <3>2 DEF Asking
    <3> QED BY <3>1, <3>3 DEF LinkInv, LinkTypes, IsHost
  <2> DEFINE got == host.got
             sent == tx_fifo.entries
             asked == Asking
             want == host.want
  <2>2. got \in Seq(Byte) /\ sent \in Seq(Byte) /\ asked \in Seq(Byte) /\ Len(want) \in Nat
    BY <2>1
  <2>3. Answered = (got \o sent) \o asked
    BY DEF Answered
  <2>4. Len(Answered) <= Len(want) /\ \A i \in 1 .. Len(Answered) : Answered[i] \in want[i]
    BY DEF LinkInv, Matched
  <2> HIDE DEF got, sent, asked, want
  <2>5. /\ got \o sent \in Seq(Byte) /\ Len(got \o sent) = Len(got) + Len(sent)
        /\ \A i \in 1 .. Len(got) : (got \o sent)[i] = got[i]
    BY <2>2, ConcatProperties
  <2>6. /\ Len(Answered) = Len(got \o sent) + Len(asked)
        /\ \A i \in 1 .. Len(got \o sent) : Answered[i] = (got \o sent)[i]
    BY <2>2, <2>3, <2>5, ConcatProperties
  <2>7. Len(got) \in Nat /\ Len(sent) \in Nat /\ Len(asked) \in Nat
    BY <2>2, LenProperties
  <2>8. Len(got) <= Len(want) /\ \A i \in 1 .. Len(got) : got[i] \in want[i]
    BY <2>2, <2>4, <2>5, <2>6, <2>7
  <2>9. DOMAIN got = 1 .. Len(got)
    BY <2>2
  <2> QED BY <2>8, <2>9 DEF AnswersMatch, got, want
<1> QED BY <1>1, LinkInductive, PTL

(* Neither FIFO of uart.v is ever written when it is full, although hci.v looks
   at tx_full only while it reads memory and nothing looks at rx_full. *)
THEOREM LinkBuffersKeepUp == LinkSpec => []BuffersKeepUp
<1>1. LinkInv => BuffersKeepUp
  <2> SUFFICES ASSUME LinkInv
               PROVE  BuffersKeepUp
    OBVIOUS
  <2>1. /\ rx_done => rx_fifo.entries = <<>>
        /\ q_wr_en => Len(tx_fifo.entries) < FifoDepth
        /\ rx_fifo.full <=> Len(rx_fifo.entries) = FifoDepth
        /\ tx_fifo.full <=> Len(tx_fifo.entries) = FifoDepth
    BY DEF LinkInv, Timing, FlagsHonest
  <2>2. FifoDepth \in Nat /\ FifoDepth >= 2
    BY ConstantFacts
  <2>3. rx_done => Len(rx_fifo.entries) = 0
    BY <2>1
  <2>4. Len(tx_fifo.entries) < FifoDepth => Len(tx_fifo.entries) # FifoDepth
    BY <2>2
  <2> QED BY <2>1, <2>2, <2>3, <2>4 DEF BuffersKeepUp
<1> QED BY <1>1, LinkInductive, PTL

(* The flags of both FIFOs tell the truth at every clock, although fifo.v lets
   a read and a write of one clock confuse them: the two never fall together. *)
THEOREM LinkFlagsHonest == LinkSpec => []FlagsHonest
<1>1. LinkInv => FlagsHonest
  BY DEF LinkInv, Timing
<1> QED BY <1>1, LinkInductive, PTL

(* When nothing is under way the packet before is over. *)
LEMMA QuietIsIdle ==
  ASSUME LinkInv, Quiet
  PROVE  Idle(host, <<>>, Len(Answered))
<1>1. InHand = <<>> /\ line = <<>> /\ q_state \in {"S_DECODE", "S_DISABLED"}
  BY DEF Quiet, InHand
<1>2. ~Queued
  <2> SUFFICES ASSUME NEW p \in Packets, NEW g, QueuedBehind(p, g)
               PROVE  FALSE
    BY DEF Queued
  <2>1. PacketBytes(p) = <<>>
    BY <1>1 DEF QueuedBehind
  <2>2. Len(PacketBytes(p)) = 0
    BY <2>1
  <2> QED BY <2>2, PacketLayout DEF Layout
<1>3. Unread = <<>>
  BY <1>1 DEF Unread
<1>4. OnCourse(host, <<>>, Len(Answered))
  BY <1>2, <1>3 DEF LinkInv, CaughtUp
<1>5. ~Working(host, <<>>, Len(Answered))
  <2> SUFFICES ASSUME NEW p \in Packets, NEW j \in Nat, Rest(p, j, <<>>),
                      AtStep(p, j, Len(Answered))
               PROVE  FALSE
    BY DEF Working
  <2>1. j >= 1
    BY RestFacts, PacketLayout DEF Layout
  <2>2. ~StartAt(j, Len(Answered))
    BY <2>1 DEF StartAt
  <2> QED BY <1>1, <2>2
          DEF AtStep, EchoHeaderAt, EchoAt, HeaderAt, ReadAt, WriteAt, RegAt, OtherAt
<1> QED BY <1>4, <1>5 DEF OnCourse

(* A host that has been told, or has ordered, that the console stopped is right
   as soon as nothing is under way (hci.v S_DISABLED and S_DECODE), even when
   the CPU breaks on the clock that takes the host's break. *)
THEOREM LinkStopBelieved == LinkSpec => []StopBelieved
<1>1. LinkInv => StopBelieved
  BY QuietIsIdle DEF StopBelieved, Idle, active
<1> QED BY <1>1, LinkInductive, PTL

(* What the host's programs build on: between packets the memories, the CPU
   registers and the error flag of the console are those of the host's image. *)
ImageTrue ==
  Quiet => /\ ram = host.ram /\ vram = host.vram /\ regs = host.regs
           /\ q_err_code.opcode <=> host.unknown

(* Every write packet lands whole, at its address, and nothing else changes
   what the host may read or write (hci.v S_CPU_MEM_WR, S_PPU_MEM_WR and
   S_CPU_REG_WR; PPU_DISABLE writes beyond the memories). *)
THEOREM LinkImageTrue == LinkSpec => []ImageTrue
<1>1. LinkInv => ImageTrue
  BY QuietIsIdle DEF ImageTrue, Idle
<1> QED BY <1>1, LinkInductive, PTL

================================================================================
