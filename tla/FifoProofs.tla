------------------------------ MODULE FifoProofs -------------------------------
(***************************************************************************)
(* The ring buffer is correct for every Depth >= 2 and every set of data.  *)
(***************************************************************************)
EXTENDS Fifo, TLAPS

(* What the proofs use of the assumption on the constants. *)
LEMMA DepthFacts == Depth \in Nat /\ Depth >= 2
BY FifoAssumption DEF FifoAssumption

(* Pointer arithmetic modulo Depth stays among the slots. *)
LEMMA SlotAfterType ==
  ASSUME NEW p \in Slots, NEW k \in 0 .. Depth
  PROVE  SlotAfter(p, k) \in Slots
BY DepthFacts DEF Slots, SlotAfter

LEMMA FirstSlot == 0 \in Slots
BY DepthFacts DEF Slots

(* Moving the reader on by one shortens the distance to the writer by one;
   moving the writer on by one lengthens it, until it wraps to zero. *)
LEMMA DistanceSteps ==
  ASSUME NEW p \in Slots, NEW r \in Slots
  PROVE  /\ Distance(p, r) \in 0 .. Depth - 1
         /\ Distance(p, r) = 0 <=> p = r
         /\ p # r => Distance(SlotAfter(p, 1), r) = Distance(p, r) - 1
         /\ p = r => Distance(SlotAfter(p, 1), r) = Depth - 1
         /\ Distance(p, SlotAfter(r, 1))
              = IF Distance(p, r) = Depth - 1 THEN 0 ELSE Distance(p, r) + 1
         /\ Distance(SlotAfter(p, 1), SlotAfter(r, 1)) = Distance(p, r)
         /\ p # r => Distance(r, p) = Depth - Distance(p, r)
BY DepthFacts DEF Slots, SlotAfter, Distance

--------------------------------------------------------------------------------

(* The pointers stay among the slots and every slot holds a datum. *)
THEOREM TypeCorrect == Spec => []TypeOK
<1>1. Init => TypeOK
  BY FirstSlot DEF Init, TypeOK
<1>2. TypeOK /\ [Next]_vars => TypeOK'
  <2> SUFFICES ASSUME TypeOK, [Next]_vars PROVE TypeOK'
    OBVIOUS
  <2>1. ASSUME NEW rd_en \in BOOLEAN, NEW wr_en \in BOOLEAN, NEW wr_data \in Data,
               Clock(rd_en, wr_en, wr_data)
        PROVE  TypeOK'
    <3>1. SlotAfter(q_rd_ptr, 1) \in Slots /\ SlotAfter(q_wr_ptr, 1) \in Slots
      BY SlotAfterType, DepthFacts DEF TypeOK
    <3>2. q_empty' \in BOOLEAN /\ q_full' \in BOOLEAN
      BY <2>1 DEF Clock, d_empty, d_full
    <3>3. q_data_array' \in [Slots -> Data]
      BY <2>1 DEF Clock, TypeOK
    <3> QED BY <2>1, <3>1, <3>2, <3>3 DEF Clock, TypeOK
  <2>2. CASE Reset
    BY <2>2, FirstSlot DEF Reset, TypeOK
  <2>3. CASE UNCHANGED vars
    BY <2>3 DEF vars, TypeOK
  <2> QED BY <2>1, <2>2, <2>3 DEF Next
<1> QED BY <1>1, <1>2, PTL DEF Spec

(* The invariant behind the flags: a flag is stale by at most one entry. *)
LEMMA FlagsStep ==
  TypeOK /\ FlagsMatchPointers /\ [Next]_vars => FlagsMatchPointers'
<1> SUFFICES ASSUME TypeOK, FlagsMatchPointers, [Next]_vars
             PROVE  FlagsMatchPointers'
  OBVIOUS
<1>1. ASSUME NEW rd_en \in BOOLEAN, NEW wr_en \in BOOLEAN, NEW wr_data \in Data,
             Clock(rd_en, wr_en, wr_data)
      PROVE  FlagsMatchPointers'
  <2> DEFINE pop == rd_en_prot(rd_en)
             push == wr_en_prot(wr_en)
             n == Distance(q_rd_ptr, q_wr_ptr)
             m == Distance(q_wr_ptr, q_rd_ptr)
  <2>1. q_rd_ptr \in Slots /\ q_wr_ptr \in Slots
    BY DEF TypeOK
  <2>2. CASE pop /\ push
    BY <1>1, <2>1, <2>2, DepthFacts
       DEF Clock, FlagsMatchPointers, TypeOK, d_empty, d_full, rd_en_prot, wr_en_prot,
           Slots, SlotAfter, Distance
  <2>3. CASE pop /\ ~push
    BY <1>1, <2>1, <2>3, DepthFacts
       DEF Clock, FlagsMatchPointers, TypeOK, d_empty, d_full, rd_en_prot, wr_en_prot,
           Slots, SlotAfter, Distance
  <2>4. CASE ~pop /\ push
    BY <1>1, <2>1, <2>4, DepthFacts
       DEF Clock, FlagsMatchPointers, TypeOK, d_empty, d_full, rd_en_prot, wr_en_prot,
           Slots, SlotAfter, Distance
  <2>5. CASE ~pop /\ ~push
    BY <1>1, <2>1, <2>5, DepthFacts
       DEF Clock, FlagsMatchPointers, TypeOK, d_empty, d_full, rd_en_prot, wr_en_prot,
           Slots, SlotAfter, Distance
  <2> QED BY <2>2, <2>3, <2>4, <2>5
<1>2. CASE Reset
  BY <1>2, DepthFacts DEF Reset, FlagsMatchPointers, Distance
<1>3. CASE UNCHANGED vars
  BY <1>3 DEF vars, FlagsMatchPointers, Distance
<1> QED BY <1>1, <1>2, <1>3 DEF Next

(* Flags and pointers agree, up to one stale entry, in every reachable state. *)
THEOREM FlagsCorrect == Spec => []FlagsMatchPointers
<1>1. Init => FlagsMatchPointers
  BY DepthFacts DEF Init, FlagsMatchPointers, Distance
<1> QED BY <1>1, TypeCorrect, FlagsStep, PTL DEF Spec

(* With more than two entries, as both FIFOs of uart.v have, reads and writes
   are never refused together. *)
THEOREM NotWedged ==
  ASSUME Depth > 2
  PROVE  Spec => []NeverWedged
<1>1. TypeOK /\ FlagsMatchPointers => NeverWedged
  BY DepthFacts DEF TypeOK, FlagsMatchPointers, NeverWedged, Slots, Distance
<1> QED BY <1>1, TypeCorrect, FlagsCorrect, PTL

--------------------------------------------------------------------------------
(***************************************************************************)
(* Refinement.  The entries of the abstract queue are the slots from       *)
(* q_rd_ptr on, Occupancy many; each case below says what one clock does   *)
(* to that window.                                                         *)
(***************************************************************************)

(* What the pointers say of the number of entries. *)
LEMMA OccupancyFacts ==
  ASSUME TypeOK, FlagsMatchPointers
  PROVE  /\ Occupancy \in 0 .. Depth
         /\ Occupancy = 1 <=> Distance(q_rd_ptr, q_wr_ptr) = 1
         /\ Occupancy = Depth - 1 <=> Distance(q_wr_ptr, q_rd_ptr) = 1
         /\ ~q_empty => Occupancy # 0
         /\ ~q_full => Occupancy # Depth
BY DepthFacts
   DEF TypeOK, FlagsMatchPointers, Occupancy, Slots, Distance

(* The writer stands just behind the last entry. *)
LEMMA WriterFollowsEntries ==
  ASSUME TypeOK, FlagsMatchPointers, Occupancy < Depth
  PROVE  /\ SlotAfter(q_rd_ptr, Occupancy) = q_wr_ptr
         /\ \A k \in 0 .. Occupancy - 1 : SlotAfter(q_rd_ptr, k) # q_wr_ptr
BY DepthFacts
   DEF TypeOK, FlagsMatchPointers, Occupancy, Slots, Distance, SlotAfter

(* The window is a sequence of data. *)
WindowType ==
  /\ Occupancy \in 0 .. Depth
  /\ Contents \in Seq(Data)
  /\ Len(Contents) = Occupancy
  /\ \A i \in 1 .. Occupancy :
       Contents[i] = q_data_array[SlotAfter(q_rd_ptr, i - 1)]

LEMMA ContentsType == TypeOK /\ FlagsMatchPointers => WindowType
<1> SUFFICES ASSUME TypeOK, FlagsMatchPointers PROVE WindowType
  OBVIOUS
<1>1. Occupancy \in 0 .. Depth
  BY OccupancyFacts
<1>2. ASSUME NEW i \in 1 .. Occupancy
      PROVE  q_data_array[SlotAfter(q_rd_ptr, i - 1)] \in Data
  <2>1. i - 1 \in 0 .. Depth
    BY <1>1, DepthFacts
  <2>2. SlotAfter(q_rd_ptr, i - 1) \in Slots
    BY <2>1, SlotAfterType DEF TypeOK
  <2> QED BY <2>2 DEF TypeOK
<1> QED BY <1>1, <1>2 DEF Contents, WindowType

(* Each accepted read takes one entry away, each accepted write adds one. *)
LEMMA OccupancyStep ==
  ASSUME TypeOK, FlagsMatchPointers,
         NEW rd_en \in BOOLEAN, NEW wr_en \in BOOLEAN, NEW wr_data \in Data,
         Clock(rd_en, wr_en, wr_data)
  PROVE  Occupancy' = Occupancy - (IF rd_en_prot(rd_en) THEN 1 ELSE 0)
                                + (IF wr_en_prot(wr_en) THEN 1 ELSE 0)
<1> USE DepthFacts
     DEF Clock, TypeOK, FlagsMatchPointers, Occupancy, Slots, Distance, SlotAfter,
         d_full, rd_en_prot, wr_en_prot
<1>1. CASE rd_en_prot(rd_en) /\ wr_en_prot(wr_en)
  BY <1>1
<1>2. CASE rd_en_prot(rd_en) /\ ~wr_en_prot(wr_en)
  BY <1>2
<1>3. CASE ~rd_en_prot(rd_en) /\ wr_en_prot(wr_en)
  BY <1>3
<1>4. CASE ~rd_en_prot(rd_en) /\ ~wr_en_prot(wr_en)
  BY <1>4
<1> QED BY <1>1, <1>2, <1>3, <1>4

(* The entries after a clock: the oldest leaves on an accepted read, the new
   datum joins at the end on an accepted write, nothing else moves. *)
LEMMA ContentsStep ==
  ASSUME TypeOK, FlagsMatchPointers, TypeOK', FlagsMatchPointers',
         NEW rd_en \in BOOLEAN, NEW wr_en \in BOOLEAN, NEW wr_data \in Data,
         Clock(rd_en, wr_en, wr_data)
  PROVE  LET kept == IF rd_en_prot(rd_en) THEN Tail(Contents) ELSE Contents
         IN  Contents' = IF wr_en_prot(wr_en) THEN Append(kept, wr_data) ELSE kept
<1> DEFINE pop == rd_en_prot(rd_en)
           push == wr_en_prot(wr_en)
           kept == IF pop THEN Tail(Contents) ELSE Contents
           next == IF push THEN Append(kept, wr_data) ELSE kept
           gone == IF pop THEN 1 ELSE 0
<1>1. /\ Occupancy \in 0 .. Depth /\ Occupancy' \in 0 .. Depth
      /\ pop => Occupancy # 0
      /\ push => Occupancy # Depth
  <2>1. WindowType'
    BY ContentsType, PTL
  <2> QED BY <2>1, OccupancyFacts DEF WindowType, rd_en_prot, wr_en_prot
<1>2. Occupancy' = Occupancy - gone + (IF push THEN 1 ELSE 0)
  BY OccupancyStep
<1>3. /\ Contents \in Seq(Data) /\ Len(Contents) = Occupancy
      /\ \A i \in 1 .. Occupancy :
           Contents[i] = q_data_array[SlotAfter(q_rd_ptr, i - 1)]
  BY ContentsType DEF WindowType
<1>4. /\ kept \in Seq(Data) /\ Len(kept) = Occupancy - gone
      /\ \A i \in 1 .. Occupancy - gone : kept[i] = Contents[i + gone]
  <2>1. CASE pop
    BY <2>1, <1>1, <1>3
  <2>2. CASE ~pop
    BY <2>2, <1>1, <1>3
  <2> QED BY <2>1, <2>2
<1>5. /\ next \in Seq(Data) /\ Len(next) = Occupancy'
      /\ \A i \in 1 .. Occupancy - gone : next[i] = Contents[i + gone]
      /\ push => next[Occupancy'] = wr_data
  <2>1. CASE push
    BY <2>1, <1>1, <1>2, <1>4
  <2>2. CASE ~push
    BY <2>2, <1>1, <1>2, <1>4
  <2> QED BY <2>1, <2>2
<1>6. /\ Contents' \in Seq(Data) /\ Len(Contents') = Occupancy'
      /\ \A i \in 1 .. Occupancy' :
           Contents'[i] = q_data_array'[SlotAfter(q_rd_ptr', i - 1)]
  <2>1. WindowType'
    BY ContentsType, PTL
  <2> QED BY <2>1 DEF WindowType
<1>7. ASSUME NEW i \in 1 .. Occupancy - gone
      PROVE  Contents'[i] = Contents[i + gone]
  <2>1. i + gone \in 1 .. Occupancy /\ i \in 1 .. Occupancy'
    BY <1>1, <1>2
  <2>2. SlotAfter(q_rd_ptr', i - 1) = SlotAfter(q_rd_ptr, i + gone - 1)
    BY <2>1, <1>1, DepthFacts DEF Clock, TypeOK, Slots, SlotAfter, rd_en_prot
  <2>3. SlotAfter(q_rd_ptr, i + gone - 1) \in Slots
    <3>1. i + gone - 1 \in 0 .. Depth
      BY <2>1, <1>1, DepthFacts
    <3> QED BY <3>1, SlotAfterType DEF TypeOK
  <2>4. push => SlotAfter(q_rd_ptr, i + gone - 1) # q_wr_ptr
    <3>1. i + gone - 1 \in 0 .. Occupancy - 1
      BY <2>1, <1>1
    <3>2. push => Occupancy < Depth
      BY <1>1, DepthFacts
    <3> QED BY <3>1, <3>2, WriterFollowsEntries
  <2>5. q_data_array'[SlotAfter(q_rd_ptr, i + gone - 1)]
          = q_data_array[SlotAfter(q_rd_ptr, i + gone - 1)]
    BY <2>3, <2>4 DEF Clock, TypeOK
  <2> QED BY <2>1, <2>2, <2>5, <1>3, <1>6
<1>8. push => Contents'[Occupancy'] = wr_data
  <2> SUFFICES ASSUME push PROVE Contents'[Occupancy'] = wr_data
    OBVIOUS
  <2>1. Occupancy < Depth /\ Occupancy' = Occupancy - gone + 1 /\ Occupancy' >= 1
    BY <1>1, <1>2, DepthFacts
  <2>2. SlotAfter(q_rd_ptr', Occupancy' - 1) = SlotAfter(q_rd_ptr, Occupancy)
    BY <2>1, <1>1, DepthFacts DEF Clock, TypeOK, Slots, SlotAfter, rd_en_prot
  <2>3. SlotAfter(q_rd_ptr, Occupancy) = q_wr_ptr
    BY <2>1, WriterFollowsEntries
  <2>4. q_data_array'[q_wr_ptr] = wr_data
    BY DEF Clock, TypeOK
  <2>5. Occupancy' \in 1 .. Occupancy'
    BY <2>1, <1>1
  <2>6. Contents'[Occupancy'] = q_data_array'[SlotAfter(q_rd_ptr', Occupancy' - 1)]
    BY <2>5, <1>6
  <2> QED BY <2>2, <2>3, <2>4, <2>6
<1>9. \A i \in 1 .. Occupancy' : Contents'[i] = next[i]
  <2> SUFFICES ASSUME NEW i \in 1 .. Occupancy' PROVE Contents'[i] = next[i]
    OBVIOUS
  <2>1. CASE i \in 1 .. Occupancy - gone
    BY <2>1, <1>5, <1>7
  <2>2. CASE i \notin 1 .. Occupancy - gone
    <3>1. push /\ i = Occupancy'
      BY <2>2, <1>1, <1>2
    <3> QED BY <3>1, <1>5, <1>8
  <2> QED BY <2>1, <2>2
<1>10. Contents' = next
  BY <1>5, <1>6, <1>9
<1> QED BY <1>10

(* Every clock of the ring is a clock of the queue, and a reset a reset. *)
LEMMA StepImplements ==
  ASSUME TypeOK, FlagsMatchPointers, TypeOK', FlagsMatchPointers', [Next]_vars
  PROVE  [BQ!Next]_[entries |-> Contents, empty |-> q_empty, full |-> q_full]
<1> DEFINE bar == [entries |-> Contents, empty |-> q_empty, full |-> q_full]
<1>1. ASSUME NEW rd_en \in BOOLEAN, NEW wr_en \in BOOLEAN, NEW wr_data \in Data,
             Clock(rd_en, wr_en, wr_data)
      PROVE  BQ!Clock
  <2>1. Contents' = LET kept == IF rd_en_prot(rd_en) THEN Tail(Contents) ELSE Contents
                    IN  IF wr_en_prot(wr_en) THEN Append(kept, wr_data) ELSE kept
    BY <1>1, ContentsStep
  <2>2. /\ Len(Contents) = 1 <=> Distance(q_rd_ptr, q_wr_ptr) = 1
        /\ Len(Contents) = Depth - 1 <=> Distance(q_wr_ptr, q_rd_ptr) = 1
    BY ContentsType, OccupancyFacts DEF WindowType
  <2>3. /\ q_empty' = (\/ q_empty /\ ~wr_en_prot(wr_en)
                       \/ Len(Contents) = 1 /\ rd_en_prot(rd_en))
        /\ q_full' = (\/ q_full /\ ~rd_en_prot(rd_en)
                      \/ Len(Contents) = Depth - 1 /\ wr_en_prot(wr_en))
    BY <1>1, <2>2 DEF Clock, d_empty, d_full
  <2>4. bar' = BQ!Clocked(bar, rd_en, wr_en, wr_data)
    BY <2>1, <2>3 DEF BQ!Clocked, BQ!PopsFrom, BQ!PushesTo, rd_en_prot, wr_en_prot
  <2> QED BY <2>4 DEF BQ!Clock
<1>2. CASE Reset
  <2>1. Occupancy' = 0
    BY <1>2 DEF Reset, Occupancy
  <2>2. Contents' = <<>>
    BY <2>1 DEF Contents
  <2> QED BY <1>2, <2>2 DEF Reset, BQ!Reset, BQ!NewQueue, BQ!Next
<1>3. CASE UNCHANGED vars
  <2>1. Contents' = Contents
    BY <1>3 DEF vars, Contents, Occupancy, SlotAfter, Distance
  <2> QED BY <1>3, <2>1 DEF vars
<1> QED BY <1>1, <1>2, <1>3 DEF Next, BQ!Next

(* The ring buffer implements the queue, flags included. *)
THEOREM RingImplementsQueue == Spec => ImplementsByteQueue
<1>1. Init => BQ!Init
  <2> SUFFICES ASSUME Init PROVE BQ!Init
    OBVIOUS
  <2>1. Occupancy = 0
    BY DEF Init, Occupancy
  <2>2. Contents = <<>>
    BY <2>1 DEF Contents
  <2> QED BY <2>2 DEF Init, BQ!Init, BQ!NewQueue
<1> QED BY <1>1, TypeCorrect, FlagsCorrect, StepImplements, PTL
        DEF Spec, ImplementsByteQueue, BQ!Spec

(* The flags are off by at most one entry, so that an accepted write never
   overwrites an entry and an accepted read never reads a stale slot. *)
THEOREM FlagsBracket == Spec => []FlagsBracketEntries
<1>1. TypeOK /\ FlagsMatchPointers => FlagsBracketEntries
  <2> SUFFICES ASSUME TypeOK, FlagsMatchPointers PROVE FlagsBracketEntries
    OBVIOUS
  <2>1. Len(Contents) = Occupancy /\ Occupancy \in 0 .. Depth
    BY ContentsType DEF WindowType
  <2>2. /\ Occupancy = 0 => q_empty
        /\ q_empty => Occupancy <= 1
        /\ Occupancy = Depth => q_full
        /\ q_full => Occupancy >= Depth - 1
    BY DepthFacts DEF TypeOK, FlagsMatchPointers, Occupancy, Slots, Distance
  <2> QED BY <2>1, <2>2 DEF FlagsBracketEntries, BQ!FlagsBracketEntries, BQ!Bracketed
<1> QED BY <1>1, TypeCorrect, FlagsCorrect, PTL
================================================================================
