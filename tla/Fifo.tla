--------------------------------- MODULE Fifo ----------------------------------
(***************************************************************************)
(* hw/src/cmn/fifo/fifo.v: the circular buffer behind both directions of   *)
(* the UART.  One step is one clock edge; rd_en, wr_en and wr_data are the *)
(* inputs of that clock and may be anything, so both sides may act on the  *)
(* same clock.                                                             *)
(*                                                                         *)
(* The pointers have ADDR_BITS bits: additions and differences are modulo  *)
(* Depth = 2**ADDR_BITS.  Nothing below needs Depth to be a power of two.  *)
(***************************************************************************)
EXTENDS Naturals, Sequences

CONSTANTS
  Data,    \* what one entry holds
  Depth    \* 2**ADDR_BITS

ASSUME FifoAssumption ==
  /\ Depth \in Nat /\ Depth >= 2
  /\ Data # {}

VARIABLES
  q_rd_ptr,       \* slot of the oldest entry
  q_wr_ptr,       \* slot the next write goes to
  q_empty,        \* registered flag: reads are ignored
  q_full,         \* registered flag: writes are ignored
  q_data_array    \* the slots

vars == <<q_rd_ptr, q_wr_ptr, q_empty, q_full, q_data_array>>

Slots == 0 .. Depth - 1

(* The slot k places after slot p, and the distance from slot p to slot r. *)
SlotAfter(p, k) == IF p + k < Depth THEN p + k ELSE p + k - Depth
Distance(p, r) == IF p <= r THEN r - p ELSE r + Depth - p

Init ==
  /\ q_rd_ptr = 0
  /\ q_wr_ptr = 0
  /\ q_empty = TRUE
  /\ q_full = FALSE
  /\ q_data_array \in [Slots -> Data]    \* reset leaves the array as it is

--------------------------------------------------------------------------------

rd_en_prot(rd_en) == rd_en /\ ~q_empty
wr_en_prot_Unprotected(wr_en) == wr_en    \* faulty: overwrites the oldest entry
wr_en_prot(wr_en) == wr_en /\ ~q_full

(* Faulty: the second condition compares with the wrong number of entries. *)
d_empty_TooLate(rd_en, wr_en) ==
  \/ q_empty /\ ~wr_en_prot(wr_en)
  \/ Distance(q_rd_ptr, q_wr_ptr) = 0 /\ rd_en_prot(rd_en)

(* "1) We were empty before and there was no write. 2) We had one entry and
   there was a read." *)
d_empty(rd_en, wr_en) ==
  \/ q_empty /\ ~wr_en_prot(wr_en)
  \/ Distance(q_rd_ptr, q_wr_ptr) = 1 /\ rd_en_prot(rd_en)

(* Faulty: a read does not clear the flag. *)
d_full_Sticky(rd_en, wr_en) ==
  q_full \/ (Distance(q_wr_ptr, q_rd_ptr) = 1 /\ wr_en_prot(wr_en))

(* "1) We were full before and there was no read. 2) We had n-1 entries and
   there was a write." *)
d_full(rd_en, wr_en) ==
  \/ q_full /\ ~rd_en_prot(rd_en)
  \/ Distance(q_wr_ptr, q_rd_ptr) = 1 /\ wr_en_prot(wr_en)

Clock(rd_en, wr_en, wr_data) ==
  /\ q_rd_ptr' = IF rd_en_prot(rd_en) THEN SlotAfter(q_rd_ptr, 1) ELSE q_rd_ptr
  /\ q_wr_ptr' = IF wr_en_prot(wr_en) THEN SlotAfter(q_wr_ptr, 1) ELSE q_wr_ptr
  /\ q_empty' = d_empty(rd_en, wr_en)
  /\ q_full' = d_full(rd_en, wr_en)
  /\ q_data_array' = IF wr_en_prot(wr_en)
                       THEN [q_data_array EXCEPT ![q_wr_ptr] = wr_data]
                       ELSE q_data_array

(* The synchronous reset input. *)
Reset ==
  /\ q_rd_ptr' = 0
  /\ q_wr_ptr' = 0
  /\ q_empty' = TRUE
  /\ q_full' = FALSE
  /\ UNCHANGED q_data_array

Next ==
  \/ \E rd_en, wr_en \in BOOLEAN, wr_data \in Data : Clock(rd_en, wr_en, wr_data)
  \/ Reset

Spec == Init /\ [][Next]_vars

--------------------------------------------------------------------------------

TypeOK ==
  /\ q_rd_ptr \in Slots
  /\ q_wr_ptr \in Slots
  /\ q_empty \in BOOLEAN
  /\ q_full \in BOOLEAN
  /\ q_data_array \in [Slots -> Data]

(* Equal pointers mean no entries or Depth entries; only q_full tells. *)
Occupancy ==
  IF q_rd_ptr = q_wr_ptr
    THEN IF q_full THEN Depth ELSE 0
    ELSE Distance(q_rd_ptr, q_wr_ptr)

Contents == [i \in 1 .. Occupancy |-> q_data_array[SlotAfter(q_rd_ptr, i - 1)]]

(* The pointers and the flags agree up to the stale flags that a read and a
   write on one clock leave behind (fifo.v lines 96 and 102). *)
FlagsMatchPointers ==
  /\ q_rd_ptr = q_wr_ptr => (q_empty <=> ~q_full)
  /\ q_empty => Distance(q_rd_ptr, q_wr_ptr) \in {0, 1}
  /\ q_full => Distance(q_wr_ptr, q_rd_ptr) \in {0, 1}

(***************************************************************************)
(* With more than two entries the flags are never both set, so the queue   *)
(* always accepts a read or a write.  With two (ADDR_BITS = 1) one clock   *)
(* of simultaneous access on the single entry sets both for good: the      *)
(* parameter of fifo.v is only safe because both instances use 3.          *)
(***************************************************************************)
NeverWedged == ~(q_empty /\ q_full)

(* The ring implements the queue: same entries in the same order, same
   flags, on every clock. *)
BQ == INSTANCE ByteQueue
        WITH queue <- [entries |-> Contents, empty |-> q_empty, full |-> q_full]

ImplementsByteQueue == BQ!Spec
FlagsBracketEntries == BQ!FlagsBracketEntries

================================================================================
