------------------------------- MODULE DbgPackets ------------------------------
(***************************************************************************)
(* The packets of sw/src/dbgpacket.h and dbgpacket.cpp: for each class,    *)
(* the bytes its constructor lays out and the number of bytes the console  *)
(* is expected to answer with.  Numbers of 16 bits are sent low byte       *)
(* first.                                                                  *)
(***************************************************************************)
EXTENDS Naturals, Sequences

CONSTANT Base    \* number of byte values

DbgPacketOpCode ==
  [Echo |-> 0, CpuMemRd |-> 1, CpuMemWr |-> 2, DbgHlt |-> 3, DbgRun |-> 4,
   CpuRegRd |-> 5, CpuRegWr |-> 6, QueryHlt |-> 7, QueryErrCode |-> 8,
   PpuMemRd |-> 9, PpuMemWr |-> 10, PpuDisable |-> 11, CartSetCfg |-> 12]

CpuReg == [Pcl |-> 0, Pch |-> 1, Ac |-> 2, X |-> 3, Y |-> 4, P |-> 5, S |-> 6]

(* A packet: PacketData, of SizeInBytes bytes, and ReturnBytesExpected. *)
DbgPacket(data, expects) == [data |-> data, expects |-> expects]
SizeInBytes(p) == Len(p.data)

Ushort(n) == <<n % Base, (n \div Base) % Base>>
FromUshort(lo, hi) == lo + (Base * hi)

EchoPacket(data) ==
  DbgPacket(<<DbgPacketOpCode.Echo>> \o Ushort(Len(data)) \o data, Len(data))

CpuMemRdPacket(addr, numBytes) ==
  DbgPacket(<<DbgPacketOpCode.CpuMemRd>> \o Ushort(addr) \o Ushort(numBytes), numBytes)

(* Faulty: the count leaves out the last byte. *)
CpuMemWrPacket_ShortCount(addr, data) ==
  DbgPacket(<<DbgPacketOpCode.CpuMemWr>> \o Ushort(addr) \o Ushort(Len(data) - 1) \o data, 0)

CpuMemWrPacket(addr, data) ==
  DbgPacket(<<DbgPacketOpCode.CpuMemWr>> \o Ushort(addr) \o Ushort(Len(data)) \o data, 0)

DbgHltPacket == DbgPacket(<<DbgPacketOpCode.DbgHlt>>, 0)

DbgRunPacket == DbgPacket(<<DbgPacketOpCode.DbgRun>>, 0)

CpuRegRdPacket(reg) == DbgPacket(<<DbgPacketOpCode.CpuRegRd, reg>>, 1)

CpuRegWrPacket(reg, val) == DbgPacket(<<DbgPacketOpCode.CpuRegWr, reg, val>>, 0)

QueryHltPacket == DbgPacket(<<DbgPacketOpCode.QueryHlt>>, 1)

PpuMemRdPacket(addr, numBytes) ==
  DbgPacket(<<DbgPacketOpCode.PpuMemRd>> \o Ushort(addr) \o Ushort(numBytes), numBytes)

PpuMemWrPacket(addr, data) ==
  DbgPacket(<<DbgPacketOpCode.PpuMemWr>> \o Ushort(addr) \o Ushort(Len(data)) \o data, 0)

PpuDisablePacket == DbgPacket(<<DbgPacketOpCode.PpuDisable>>, 0)

(* Bytes 4 to 8 of an iNES header; sequences start at 1. *)
CartSetCfgPacket(header) ==
  DbgPacket(<<DbgPacketOpCode.CartSetCfg>> \o SubSeq(header, 5, 9), 0)

--------------------------------------------------------------------------------
(* The registers behind the two register packets (hw/src/cpu/cpu.v): what they
   hold out of reset, and after b has been written over old.  S cannot be
   written, and of P only the flags, not its bits 4 and 5. *)
RegAtReset(r) ==
  CASE r = CpuReg.Pch -> Base \div 2
    [] r = CpuReg.S   -> Base - 1
    [] r = CpuReg.P   -> Base \div 8
    [] OTHER          -> 0

(* Bits 4 and 5 of a register byte. *)
NoFlags(b) == (b % (Base \div 4)) - (b % (Base \div 16))

RegWritten(r, old, b) ==
  CASE r = CpuReg.S -> old
    [] r = CpuReg.P -> (b - NoFlags(b)) + NoFlags(old)
    [] OTHER        -> b

--------------------------------------------------------------------------------
(***************************************************************************)
(* What is typed into the raw debugger: a text is a sequence of hex        *)
(* digits, given by their values, of Space, and of Other for a character   *)
(* that is neither.                                                        *)
(***************************************************************************)
Space == 16
Other == 17

NoPacket == [data |-> <<>>, expects |-> 0]    \* NULL

(* The packet a text stands for.  Two digits make a byte; only three opcodes
   are accepted.  Bytes the header asks for and that were not typed come from
   whatever follows in memory, here the byte beyond over and over. *)
CreateObjFromString(text, beyond) ==
  LET digits == SelectSeq(text, LAMBDA c : c # Space)
      typed  == Len(digits) \div 2
      raw(i) == IF i <= typed THEN (16 * digits[(2 * i) - 1]) + digits[2 * i] ELSE beyond
      rest(first, n) == [i \in 1 .. n |-> raw(first + i - 1)]
      word(i) == FromUshort(raw(i), raw(i + 1))
  IN  IF Len(digits) % 2 = 1 \/ \E i \in DOMAIN digits : digits[i] = Other
        THEN NoPacket
      ELSE CASE raw(1) = DbgPacketOpCode.Echo     -> EchoPacket(rest(4, word(2)))
             [] raw(1) = DbgPacketOpCode.CpuMemRd -> CpuMemRdPacket(word(2), word(4))
             [] raw(1) = DbgPacketOpCode.CpuMemWr -> CpuMemWrPacket(word(2), rest(6, word(4)))
             [] OTHER                -> NoPacket
================================================================================
