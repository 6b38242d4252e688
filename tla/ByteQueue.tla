------------------------------- MODULE ByteQueue -------------------------------
(***************************************************************************)
(* What hw/src/cmn/fifo/fifo.v promises its users: a queue of at most      *)
(* Depth entries, with the two registered status flags `empty' and `full'. *)
(*                                                                         *)
(* The flags are part of the promise because every user decides with them, *)
(* and because they are not functions of the number of entries: a clock on *)
(* which one side reads and the other side writes leaves a stale flag      *)
(* behind (see FlagsBracketEntries).                                       *)
(*                                                                         *)
(* Fifo is the ring buffer of the code and implements this specification;  *)
(* modules that use a FIFO hold one as a record and step it with Clocked.  *)
(***************************************************************************)
EXTENDS Naturals, Sequences

CONSTANTS
  Data,    \* what one entry holds (a byte, for the UART)
  Depth    \* 2**ADDR_BITS, the number of entries

VARIABLE queue

(* The queue after reset: no entries. *)
NewQueue == [entries |-> <<>>, empty |-> TRUE, full |-> FALSE]

(* rd_en_prot and wr_en_prot: a request the flags let through. *)
PopsFrom(f, rd_en) == rd_en /\ ~f.empty
PushesTo(f, wr_en) == wr_en /\ ~f.full

(***************************************************************************)
(* One clock of the queue f.  Both flags are computed from the number of   *)
(* entries before the clock; d_empty does not look at a simultaneous       *)
(* write, nor d_full at a simultaneous read.                               *)
(***************************************************************************)
Clocked(f, rd_en, wr_en, wr_data) ==
  LET pop  == PopsFrom(f, rd_en)
      push == PushesTo(f, wr_en)
      kept == IF pop THEN Tail(f.entries) ELSE f.entries
  IN  [entries |-> IF push THEN Append(kept, wr_data) ELSE kept,
       empty   |-> (f.empty /\ ~push) \/ (Len(f.entries) = 1 /\ pop),
       full    |-> (f.full /\ ~pop) \/ (Len(f.entries) = Depth - 1 /\ push)]

--------------------------------------------------------------------------------

Init == queue = NewQueue

Reset == queue' = NewQueue

Clock == \E rd_en, wr_en \in BOOLEAN, wr_data \in Data :
           queue' = Clocked(queue, rd_en, wr_en, wr_data)

Next == Clock \/ Reset

Spec == Init /\ [][Next]_queue

--------------------------------------------------------------------------------

Queues == [entries : Seq(Data), empty : BOOLEAN, full : BOOLEAN]

TypeOK == queue \in Queues

(***************************************************************************)
(* How far the flags can be trusted (fifo.v d_empty and d_full): `empty'   *)
(* is set whenever there is no entry, and when set hides at most one;      *)
(* `full' is set whenever there is no room, and when set hides at most one *)
(* free slot.  Hence no accepted write overflows and no accepted read      *)
(* underflows, whatever the two sides do.                                  *)
(***************************************************************************)
Bracketed(f) ==
  LET n == Len(f.entries)
  IN  /\ n <= Depth
      /\ n = 0 => f.empty
      /\ f.empty => n <= 1
      /\ n = Depth => f.full
      /\ f.full => n >= Depth - 1

FlagsBracketEntries == Bracketed(queue)

================================================================================
