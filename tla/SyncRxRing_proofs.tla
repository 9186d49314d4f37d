-------------------------- MODULE SyncRxRing_proofs --------------------------
(***************************************************************************)
(* Proofs about the receive ring of module SyncRxRing, for every size of   *)
(* the ring, every number of transfers and every bound:                    *)
(*                                                                         *)
(*   - the type invariant,                                                 *)
(*   - ExclusiveOwnership: no slot is given to two USB transfers, and a    *)
(*     slot the transport owns is IN_FLIGHT,                               *)
(*   - OverrunReported: a loss stays pending until a read has told it,     *)
(*   - EverySlotAccounted: the ring leaks no slot,                         *)
(*   - NoSequenceHole: the expected number is carried by a transfer,       *)
(*   - InOrderDelivery: the reader gets the buffers in sequence order.     *)
(***************************************************************************)
EXTENDS SyncRxRing, FiniteSetTheorems, WellFoundedInduction, TLAPS

-----------------------------------------------------------------------------
(* Arithmetic and least elements.                                          *)

\* Remainders of ring indices and sequence numbers stay in range.
LEMMA ModRange ==
  ASSUME NEW a \in Int, NEW n \in Nat \ {0}
  PROVE  a % n \in 0 .. n-1
OBVIOUS

LEMMA Sizes ==
  /\ N \in Nat \ {0} /\ T \in Nat /\ 0 < T /\ T < N
  /\ SeqMod \in Nat \ {0} /\ SeqMod > 1
  /\ Units \in Nat \ {0}
BY RingAssumption DEF RingAssumption

\* The wrapped index and sequence operators are closed.
LEMMA Wrapped ==
  /\ \A i \in Slots : Next1(i) \in Slots
  /\ \A s \in Seqs : Incr(s) \in Seqs
  /\ \A s, t \in Seqs : Dist(s, t) \in Nat
  /\ \A s \in Seqs, k \in Nat : (s + k) % SeqMod \in Seqs
  /\ \A i \in Slots, k \in Nat : (i + k) % N \in Slots
<1>1. \A i \in Slots : Next1(i) \in Slots
  BY Sizes, ModRange DEF Next1, Slots
<1>2. \A s \in Seqs : Incr(s) \in Seqs
  BY Sizes, ModRange DEF Incr, Seqs
<1>3. \A s, t \in Seqs : Dist(s, t) \in Nat
  BY Sizes, ModRange DEF Dist, Seqs
<1>4. \A s \in Seqs, k \in Nat : (s + k) % SeqMod \in Seqs
  BY Sizes, ModRange DEF Seqs
<1>5. \A i \in Slots, k \in Nat : (i + k) % N \in Slots
  BY Sizes, ModRange DEF Slots
<1> QED BY <1>1, <1>2, <1>3, <1>4, <1>5

\* A non-empty set of naturals has a least element.
LEMMA LeastNatural ==
  ASSUME NEW S \in SUBSET Nat, S # {}
  PROVE  \E x \in S : \A y \in S : x <= y
<1>1. \E x \in S : \A y \in S : ~ (<<y, x>> \in OpToRel(<, Nat))
  BY NatLessThanWellFounded, WFMin
<1>2. PICK x \in S : \A y \in S : ~ (<<y, x>> \in OpToRel(<, Nat))
  BY <1>1
<1>3. \A y \in S : ~ (y < x)
  BY <1>2, Zenon DEF OpToRel
<1>4. \A y \in S : x <= y
  BY <1>3
<1> QED BY <1>4

\* What every search of the ring returns: a slot of least key, and of least
\* index among those.
LEMMA LeastSlot ==
  ASSUME NEW S \in SUBSET Slots, S # {}, NEW f \in [S -> Nat]
  PROVE  \E i \in S : \A j \in S : f[i] < f[j] \/ (f[i] = f[j] /\ i <= j)
<1> DEFINE K == {f[i] : i \in S}
<1>1. PICK k \in K : \A y \in K : k <= y
  <2>1. K \in SUBSET Nat /\ K # {} OBVIOUS
  <2> HIDE DEF K
  <2> QED BY <2>1, LeastNatural
<1> DEFINE R == {i \in S : f[i] = k}
<1>2. PICK i \in R : \A y \in R : i <= y
  <2>1. R \in SUBSET Nat
    <3>1. Slots \subseteq Nat BY Sizes DEF Slots
    <3> QED BY <3>1
  <2>2. R # {} BY <1>1
  <2> HIDE DEF R
  <2> QED BY <2>1, <2>2, LeastNatural
<1>3. \A j \in S : f[i] < f[j] \/ (f[i] = f[j] /\ i <= j)
  <2> TAKE j \in S
  <2>1. f[i] = k /\ k <= f[j] /\ f[j] \in Nat /\ k \in Nat BY <1>1, <1>2
  <2>2. CASE f[j] = k BY <2>1, <2>2, <1>2
  <2>3. CASE f[j] # k BY <2>1, <2>3
  <2> QED BY <2>2, <2>3
<1> QED BY <1>2, <1>3

-----------------------------------------------------------------------------
(* Every helper maps a well-formed ring to a well-formed ring.              *)

\* A set of sequence numbers is finite, so its size is a natural number.
LEMMA SeqCount ==
  ASSUME NEW S \in SUBSET Seqs
  PROVE  Cardinality(S) \in Nat
<1>1. IsFiniteSet(Seqs) BY Sizes, FS_Interval DEF Seqs
<1>2. IsFiniteSet(S) BY <1>1, FS_Subset
<1> QED BY <1>2, FS_CardinalityType

LEMMA FlushType ==
  ASSUME NEW bb \in BufferMgmt
  PROVE  Flush(bb) \in BufferMgmt
<1> DEFINE n == Cardinality({e.seq : e \in Run(bb)})
<1>1. Run(bb) \subseteq bb.reorder BY DEF Run
<1>2. n \in Nat
  <2>1. {e.seq : e \in Run(bb)} \in SUBSET Seqs BY <1>1 DEF BufferMgmt, Entries
  <2> QED BY <2>1, SeqCount
<1>3. (bb.expected_seq + n) % SeqMod \in Seqs
  <2>1. bb.expected_seq \in Seqs BY DEF BufferMgmt
  <2> HIDE DEF n
  <2> QED BY <1>2, <2>1, Wrapped
<1> HIDE DEF n
<1>4. [i \in Slots |-> IF \E e \in Run(bb) : ~e.dropped /\ e.idx = i
                       THEN "FULL" ELSE bb.status[i]] \in [Slots -> Status]
  BY DEF BufferMgmt, Status
<1>5. bb.reorder \ Run(bb) \in SUBSET Entries BY DEF BufferMgmt
<1> QED BY <1>3, <1>4, <1>5 DEF Flush, BufferMgmt, n

LEMMA RetireExpectedType ==
  ASSUME NEW bb \in BufferMgmt
  PROVE  RetireExpected(bb) \in BufferMgmt
<1>1. [bb EXCEPT !.expected_seq = Incr(@)] \in BufferMgmt
  BY Wrapped DEF BufferMgmt
<1> QED BY <1>1, FlushType DEF RetireExpected

LEMMA NoteOverrunType ==
  ASSUME NEW bb \in BufferMgmt
  PROVE  NoteOverrun(bb) \in BufferMgmt
BY DEF NoteOverrun, BufferMgmt, Sources

LEMMA RetireDroppedType ==
  ASSUME NEW bb \in BufferMgmt, NEW s \in Seqs
  PROVE  RetireDropped(bb, s) \in BufferMgmt
<1> DEFINE e == [seq |-> s, idx |-> NoSlot, dropped |-> TRUE]
<1>1. e \in Entries BY DEF Entries
<1>2. [bb EXCEPT !.reorder = @ \cup {e}] \in BufferMgmt
  BY <1>1 DEF BufferMgmt
<1> QED BY <1>2, RetireExpectedType, NoteOverrunType DEF RetireDropped

LEMMA SubmitType ==
  ASSUME NEW bb \in BufferMgmt, NEW i \in Slots
  PROVE  /\ MarkInFlight(bb, i) \in BufferMgmt
         /\ SubmitSlot(bb, i) \in BufferMgmt
<1>1. MarkInFlight(bb, i) \in BufferMgmt
  BY Wrapped DEF MarkInFlight, BufferMgmt, Status
<1>2. SubmitSlot(bb, i) \in BufferMgmt
  BY <1>1, Wrapped DEF SubmitSlot, BufferMgmt
<1> QED BY <1>1, <1>2

\* The producer search finds an EMPTY slot whenever there is one.
LEMMA ProducerSlotEmpty ==
  ASSUME NEW bb \in BufferMgmt, EmptySlots(bb) # {}
  PROVE  ProducerSlot(bb) \in EmptySlots(bb) /\ ProducerSlot(bb) \in Slots
<1> DEFINE S == EmptySlots(bb)
           f == [i \in S |-> (i - bb.prod_i) % N]
<1>1. S \in SUBSET Slots BY DEF EmptySlots
<1>2. f \in [S -> Nat]
  <2>1. \A i, p \in Slots : (i - p) % N \in Nat
    BY Sizes, ModRange DEF Slots
  <2>2. bb.prod_i \in Slots BY DEF BufferMgmt
  <2> QED BY <1>1, <2>1, <2>2
<1>3. \E i \in S : \A j \in S : f[i] < f[j] \/ (f[i] = f[j] /\ i <= j)
  <2> HIDE DEF S, f
  <2> QED BY <1>1, <1>2, LeastSlot DEF S
<1>4. \E i \in S : \A j \in S : (i - bb.prod_i) % N <= (j - bb.prod_i) % N
  <2>1. PICK i \in S : \A j \in S : f[i] < f[j] \/ (f[i] = f[j] /\ i <= j)
    BY <1>3
  <2>2. \A j \in S : f[i] \in Nat /\ f[j] \in Nat BY <1>2
  <2>3. \A j \in S : f[i] <= f[j] BY <2>1, <2>2
  <2> QED BY <2>3
<1>5. ProducerSlot(bb) \in S BY <1>4 DEF ProducerSlot
<1> QED BY <1>1, <1>5

LEMMA StoreCompletedType ==
  ASSUME NEW bb \in BufferMgmt, NEW i \in Slots
  PROVE  StoreCompleted(bb, i) \in BufferMgmt
<1>1. \A c \in BufferMgmt : Ready(c, i) \in BufferMgmt
  BY DEF Ready, BufferMgmt, Status
<1>2. Hold(bb, i) \in BufferMgmt
  <2>1. [seq |-> bb.buffer_seq[i], idx |-> i, dropped |-> FALSE] \in Entries
    BY DEF BufferMgmt, Entries
  <2> QED BY <2>1 DEF Hold, BufferMgmt
<1> QED BY <1>1, <1>2, RetireExpectedType, NoteOverrunType DEF StoreCompleted

LEMMA OldestInFlightType ==
  ASSUME NEW bb \in BufferMgmt
  PROVE  OldestInFlight(bb) \in Slots \cup {NoSlot}
<1> DEFINE F == {i \in Slots : /\ bb.status[i] = "IN_FLIGHT"
                               /\ Dist(bb.buffer_seq[i], bb.expected_seq) < SeqMod - 1}
           f == [i \in F |-> Dist(bb.buffer_seq[i], bb.expected_seq)]
<1>1. CASE F = {} BY <1>1 DEF OldestInFlight
<1>2. CASE F # {}
  <2>1. F \in SUBSET Slots OBVIOUS
  <2>2. f \in [F -> Nat] BY Wrapped DEF BufferMgmt
  <2>3. \E i \in F : \A j \in F : f[i] < f[j] \/ (f[i] = f[j] /\ i <= j)
    <3> HIDE DEF F, f
    <3> QED BY <2>1, <2>2, <1>2, LeastSlot
  <2>4. \E i \in F : \A j \in F :
         \/ Dist(bb.buffer_seq[i], bb.expected_seq)
              < Dist(bb.buffer_seq[j], bb.expected_seq)
         \/ /\ Dist(bb.buffer_seq[i], bb.expected_seq)
                 = Dist(bb.buffer_seq[j], bb.expected_seq)
            /\ i <= j
    BY <2>3
  <2>5. OldestInFlight(bb) \in F BY <2>4, <1>2 DEF OldestInFlight
  <2> QED BY <2>1, <2>5
<1> QED BY <1>1, <1>2

LEMMA FreeCompletedType ==
  ASSUME NEW bb \in BufferMgmt
  PROVE  FreeCompleted(bb) \in BufferMgmt
<1> DEFINE held  == {i \in HeldSlots(bb) : bb.status[i] = "IN_FLIGHT"}
           ready == {i \in Slots : bb.status[i] \in {"FULL", "PARTIAL"}}
<1>1. [i \in Slots |-> IF i \in held \cup ready THEN "EMPTY" ELSE bb.status[i]]
        \in [Slots -> Status]
  BY DEF BufferMgmt, Status
<1>2. [i \in Slots |-> IF i \in ready THEN TRUE
                       ELSE IF i \in held THEN FALSE ELSE bb.buffer_dropped[i]]
        \in [Slots -> BOOLEAN]
  BY DEF BufferMgmt
<1>3. (IF bb.cons_i \in ready THEN 0 ELSE bb.partial_off) \in 0 .. Units
  BY Sizes DEF BufferMgmt
<1> HIDE DEF held, ready
<1> QED BY <1>1, <1>2, <1>3 DEF FreeCompleted, BufferMgmt, held, ready

LEMMA DiscardType ==
  ASSUME NEW bb \in BufferMgmt
  PROVE  Discard(bb) \in BufferMgmt
<1> DEFINE c == FreeCompleted(bb)
           o == OldestInFlight(c)
<1>1. c \in BufferMgmt BY FreeCompletedType
<1>2. o \in Slots \cup {NoSlot} BY <1>1, OldestInFlightType
<1>3. CASE o = NoSlot BY <1>1, <1>3 DEF Discard
<1>4. CASE o # NoSlot
  <2> HIDE DEF c, o
  <2>1. [c EXCEPT !.expected_seq = c.buffer_seq[o], !.cons_i = o,
                  !.partial_off = 0, !.reorder = {}] \in BufferMgmt
    <3>1. o \in Slots /\ 0 \in 0 .. Units /\ {} \in SUBSET Entries
      BY <1>2, <1>4, Sizes
    <3>2. c.buffer_seq[o] \in Seqs BY <1>1, <3>1 DEF BufferMgmt
    <3> QED BY <1>1, <3>1, <3>2 DEF BufferMgmt
  <2> QED BY <2>1, <1>4 DEF Discard, c, o
<1> QED BY <1>3, <1>4

LEMMA ResetType ==
  ASSUME NEW bb \in BufferMgmt
  PROVE  ResetForStart(bb) \in BufferMgmt
<1>1. T \in Slots /\ T \in Seqs /\ 0 \in Seqs /\ NoSeq \in Seqs
  BY RingAssumption DEF RingAssumption, Slots, Seqs, NoSeq
<1>2. \A i \in Slots : i < T => i \in Seqs
  BY RingAssumption DEF RingAssumption, Slots, Seqs
<1> QED BY <1>1, <1>2 DEF ResetForStart, BufferMgmt, Status

LEMMA SkipDroppedType ==
  ASSUME NEW bb \in BufferMgmt
  PROVE  SkipDropped(bb) \in BufferMgmt
<1> DEFINE n == SkipLength(bb)
           skipped == {(bb.cons_i + k) % N : k \in 0 .. n-1}
<1>1. n \in Nat
  <2> DEFINE K == {k \in 0 .. N-1 : \A j \in 0 .. k :
                                      bb.buffer_dropped[(bb.cons_i + j) % N]}
  <2>1. IsFiniteSet(0 .. N-1) BY Sizes, FS_Interval
  <2>2. IsFiniteSet(K) BY <2>1, FS_Subset
  <2> QED BY <2>2, FS_CardinalityType DEF SkipLength
<1> HIDE DEF n
<1>2. (bb.cons_i + n) % N \in Slots
  <2>1. bb.cons_i \in Slots BY DEF BufferMgmt
  <2> QED BY <1>1, <2>1, Wrapped
<1> HIDE DEF skipped
<1>3. [i \in Slots |-> bb.buffer_dropped[i] /\ i \notin skipped]
        \in [Slots -> BOOLEAN]
  OBVIOUS
<1> QED BY <1>2, <1>3 DEF SkipDropped, BufferMgmt, n, skipped

\* The consumer search lands on a FULL or an IN_FLIGHT slot, or does nothing.
LEMMA ReanchorType ==
  ASSUME NEW bb \in BufferMgmt
  PROVE  Reanchor(bb) \in BufferMgmt
<1> DEFINE S == Candidates(bb)
           f == [i \in S |-> Key(bb, i)]
           best == CHOOSE i \in Candidates(bb) : \A j \in Candidates(bb) :
                     \/ Key(bb, i) < Key(bb, j)
                     \/ Key(bb, i) = Key(bb, j) /\ i <= j
<1>1. CASE S = {} BY <1>1 DEF Reanchor
<1>2. CASE S # {}
  <2>1. S \in SUBSET Slots BY DEF Candidates
  <2>2. f \in [S -> Nat]
    <3>1. \A i \in Slots : bb.buffer_seq[i] \in Seqs /\ bb.expected_seq \in Seqs
      BY DEF BufferMgmt
    <3>2. \A i \in Slots : Dist(bb.buffer_seq[i], bb.expected_seq) \in Nat
      BY <3>1, Wrapped
    <3>3. \A i \in Slots : Behind(bb, i) =>
                             Dist(bb.buffer_seq[i], bb.expected_seq) > 0
      BY <3>2, Sizes DEF Behind
    <3>4. \A i \in Slots : Key(bb, i) \in Nat BY <3>2, <3>3, Sizes DEF Key
    <3> QED BY <2>1, <3>4
  <2>3. \E i \in S : \A j \in S : f[i] < f[j] \/ (f[i] = f[j] /\ i <= j)
    <3> HIDE DEF S, f
    <3> QED BY <2>1, <2>2, <1>2, LeastSlot
  <2>4. best \in Slots BY <2>1, <2>3
  <2> HIDE DEF best
  <2>5. [bb EXCEPT !.cons_i = best, !.partial_off = 0] \in BufferMgmt
    <3>1. 0 \in 0 .. Units BY Sizes
    <3> QED BY <2>4, <3>1 DEF BufferMgmt
  <2> QED BY <2>5 DEF Reanchor, best
<1> QED BY <1>1, <1>2

LEMMA DropStaleType ==
  ASSUME NEW bb \in BufferMgmt, NEW now \in BOOLEAN
  PROVE  DropStale(bb, now) \in BufferMgmt
<1> DEFINE atPartial == Format = "META" /\ bb.status[bb.cons_i] = "PARTIAL"
<1>1. [i \in Slots |-> IF bb.status[i] = "FULL" \/ (atPartial /\ i = bb.cons_i)
                       THEN "EMPTY" ELSE bb.status[i]] \in [Slots -> Status]
  BY DEF BufferMgmt, Status
<1>2. (IF atPartial THEN Next1(bb.cons_i) ELSE bb.cons_i) \in Slots
  BY Wrapped DEF BufferMgmt
<1> HIDE DEF atPartial
<1> QED BY <1>1, <1>2 DEF DropStale, BufferMgmt, atPartial

LEMMA AdvanceRxType ==
  ASSUME NEW bb \in BufferMgmt
  PROVE  AdvanceRx(bb) \in BufferMgmt
BY Wrapped DEF AdvanceRx, BufferMgmt, Status

LEMMA InitialRingType == InitialRing \in BufferMgmt
<1>1. T \in Slots /\ 0 \in Slots /\ T \in Seqs /\ 0 \in Seqs /\ NoSeq \in Seqs
      /\ 0 \in 0 .. Units
  BY RingAssumption DEF RingAssumption, Slots, Seqs, NoSeq
<1>2. \A i \in Slots : i < T => i \in Seqs
  BY RingAssumption DEF RingAssumption, Slots, Seqs
<1> QED BY <1>1, <1>2 DEF InitialRing, BufferMgmt, Status

-----------------------------------------------------------------------------
(* Type correctness.                                                        *)

\* Waking the reader, moving its call and keeping the ghost stay in the types.
LEMMA CallTypes ==
  /\ \A c \in Calls : Looping(c) \in Calls /\ Failed(c) \in Calls
  /\ \A c \in Calls, sig \in BOOLEAN :
       (IF sig /\ c.pc = "wait" THEN [c EXCEPT !.pc = "woken"] ELSE c) \in Calls
  /\ NoCall \in Calls
  /\ \A c \in Calls, p \in {"case", "wait", "stuck", "timedout", "starting", "out"} :
       [c EXCEPT !.pc = p] \in Calls
BY DEF Calls, Looping, Failed, NoCall

LEMMA NoteType ==
  ASSUME g \in Ghosts, NEW new, NEW kinds \in SUBSET Kinds, NEW lost \in BOOLEAN
  PROVE  Note(new, kinds, lost) \in Ghosts
BY DEF Note, Ghosts

LEMMA CompletesType ==
  ASSUME TypeOK, NEW i \in Slots, NEW lost \in 0 .. 1, Completes(i, lost)
  PROVE  /\ cnt' \in Used
         /\ usb[i] > 0
<1>1. cnt.lost \in Nat /\ cnt.overtakes \in Nat BY DEF TypeOK, Used
<1>2. cnt.lost + lost \in 0 .. MaxLost
  BY <1>1, RingAssumption DEF Completes, RingAssumption
<1>3. (IF Oldest(i) THEN cnt.overtakes ELSE cnt.overtakes + 1) \in 0 .. MaxOvertakes
  BY <1>1, RingAssumption DEF Completes, RingAssumption, TypeOK, Used
<1> QED BY <1>2, <1>3 DEF Completes, TypeOK, Used, Owned

\* What a completion leaves of the ring, the transfers and the bookkeeping.
LEMMA UsbThreadType ==
  ASSUME TypeOK, UsbThread
  PROVE  TypeOK'
<1> USE DEF TypeOK
<1>w. ASSUME NEW sig \in BOOLEAN, Wake(sig) PROVE call' \in Calls
  BY <1>w, CallTypes DEF Wake
<1>u. ASSUME NEW i \in Slots, NEW j \in Slots, usb[i] > 0
      PROVE  [[usb EXCEPT ![i] = @ - 1] EXCEPT ![j] = @ + 1] \in [Slots -> Nat]
  <2>1. usb[i] - 1 \in Nat BY <1>u
  <2>2. [usb EXCEPT ![i] = @ - 1] \in [Slots -> Nat] BY <2>1
  <2> QED BY <2>2
<1>1. ASSUME NEW i \in Slots, RxCallbackStore(i) PROVE TypeOK'
  <2> DEFINE c == [b EXCEPT !.buffer_dropped[i] = FALSE]
             d == StoreCompleted(c, i)
             j == ProducerSlot(c)
  <2>1. c \in BufferMgmt BY DEF BufferMgmt
  <2>2. d \in BufferMgmt BY <2>1, StoreCompletedType
  <2>3. EmptySlots(c) # {}
    BY <1>1 DEF RxCallbackStore, EmptySlots, BufferMgmt
  <2>4. j \in Slots BY <2>1, <2>3, ProducerSlotEmpty
  <2>5. cnt' \in Used /\ usb[i] > 0 BY <1>1, CompletesType DEF RxCallbackStore
  <2> HIDE DEF c, d, j
  <2>6. b' \in BufferMgmt BY <1>1, <2>2, <2>4, SubmitType DEF RxCallbackStore, c, d, j
  <2>7. usb' \in [Slots -> Nat] BY <1>1, <1>u, <2>4, <2>5 DEF RxCallbackStore, c, j
  <2>8. g' \in Ghosts BY <1>1, NoteType DEF RxCallbackStore, Kinds
  <2>9. call' \in Calls BY <1>1, <1>w DEF RxCallbackStore, Signals
  <2> QED BY <1>1, <2>5, <2>6, <2>7, <2>8, <2>9 DEF RxCallbackStore
<1>2. ASSUME NEW i \in Slots, RxCallbackNoData(i) PROVE TypeOK'
  <2>1. cnt' \in Used /\ usb[i] > 0 BY <1>2, CompletesType DEF RxCallbackNoData
  <2>2. b' \in BufferMgmt BY <1>2 DEF RxCallbackNoData, BufferMgmt
  <2>3. usb' \in [Slots -> Nat] BY <1>2, <2>1 DEF RxCallbackNoData
  <2>4. g' \in Ghosts BY <1>2, NoteType DEF RxCallbackNoData, Kinds
  <2> QED BY <1>2, <2>1, <2>2, <2>3, <2>4 DEF RxCallbackNoData
<1>3. ASSUME NEW i \in Slots, RxCallbackRingFull(i) PROVE TypeOK'
  <2>1. cnt' \in Used BY <1>3, CompletesType DEF RxCallbackRingFull
  <2>2. b.buffer_seq[i] \in Seqs BY DEF BufferMgmt
  <2>3. b' \in BufferMgmt
    BY <1>3, <2>2, RetireDroppedType, SubmitType, NoteOverrunType
    DEF RxCallbackRingFull
  <2>4. g' \in Ghosts BY <1>3, NoteType DEF RxCallbackRingFull, Kinds
  <2>5. call' \in Calls BY <1>3, <1>w DEF RxCallbackRingFull, Signals
  <2> QED BY <1>3, <2>1, <2>3, <2>4, <2>5 DEF RxCallbackRingFull
<1>4. ASSUME NEW i \in Slots, NEW quiet \in BOOLEAN, RxBufferRejected(i, quiet)
      PROVE TypeOK'
  <2> DEFINE inFlight == b.status[i] = "IN_FLIGHT"
             q == RetireDropped(b, b.buffer_seq[i])
             r == [q EXCEPT !.buffer_dropped[i] = TRUE, !.status[i] = "EMPTY"]
             j == IF inFlight THEN ProducerSlot(r) ELSE i
  <2>1. cnt' \in Used /\ usb[i] > 0 BY <1>4, CompletesType DEF RxBufferRejected
  <2>2. q \in BufferMgmt
    <3>1. b.buffer_seq[i] \in Seqs BY DEF BufferMgmt
    <3> QED BY <3>1, RetireDroppedType
  <2> HIDE DEF q
  <2>3. r \in BufferMgmt BY <2>2 DEF BufferMgmt, Status
  <2>4. EmptySlots(r) # {} BY <2>2 DEF EmptySlots, BufferMgmt
  <2> HIDE DEF r
  <2>5. j \in Slots BY <2>3, <2>4, ProducerSlotEmpty
  <2>6. b' \in BufferMgmt
    BY <1>4, <2>3, <2>5, SubmitType DEF RxBufferRejected, r, q
  <2>7. usb' \in [Slots -> Nat]
    <3>1. usb' = [[usb EXCEPT ![i] = @ - 1] EXCEPT ![j] = @ + 1]
      BY <1>4 DEF RxBufferRejected, r, q
    <3> HIDE DEF j
    <3> QED BY <1>u, <2>1, <2>5, <3>1
  <2>8. g' \in Ghosts BY <1>4, NoteType DEF RxBufferRejected, Kinds
  <2>9. call' \in Calls BY <1>4, <1>w DEF RxBufferRejected, Signals
  <2>10. notice' \in [due : BOOLEAN, on : BOOLEAN] BY <1>4 DEF RxBufferRejected
  <2> QED BY <1>4, <2>1, <2>6, <2>7, <2>8, <2>9, <2>10 DEF RxBufferRejected
<1>5. ASSUME RxEventCallback PROVE TypeOK'
  <2>1. b' \in BufferMgmt BY <1>5 DEF RxEventCallback, BufferMgmt
  <2>2. call' \in Calls BY <1>5, <1>w DEF RxEventCallback
  <2> QED BY <1>5, <2>1, <2>2 DEF RxEventCallback
<1> QED BY <1>1, <1>2, <1>3, <1>4, <1>5 DEF UsbThread

LEMMA WorkerType ==
  ASSUME TypeOK, Worker
  PROVE  TypeOK'
<1> USE DEF TypeOK
<1>1. ASSUME ExecIdleState PROVE TypeOK'
  <2>1. b' \in BufferMgmt BY <1>1, ResetType DEF ExecIdleState
  <2>2. NoSeq \in Seqs BY Sizes DEF NoSeq, Seqs
  <2>3. g' \in Ghosts BY <1>1, <2>2 DEF ExecIdleState, Ghosts, Kinds
  <2> QED BY <1>1, <2>1, <2>3 DEF ExecIdleState
<1>2. ASSUME ExecRunningState PROVE TypeOK'
  <2>1. call' \in Calls BY <1>2, CallTypes DEF ExecRunningState, Wake
  <2>2. cnt.ends + 1 \in 0 .. MaxEnds
    BY <1>2, RingAssumption DEF ExecRunningState, RingAssumption, Used
  <2>3. cnt' \in Used BY <1>2, <2>2 DEF ExecRunningState, Used
  <2> QED BY <1>2, <2>1, <2>3 DEF ExecRunningState
<1>3. ASSUME WorkerBackToIdle PROVE TypeOK'
  BY <1>3 DEF WorkerBackToIdle
<1> QED BY <1>1, <1>2, <1>3 DEF Worker

\* Copying or skipping n units stays inside the buffer.
LEMMA ConsumeType ==
  ASSUME TypeOK, NEW n \in 0 .. Units - b.partial_off, Consume(n)
  PROVE  b' \in BufferMgmt /\ state' \in SyncState
<1> USE DEF TypeOK
<1>1. b.partial_off \in 0 .. Units BY DEF BufferMgmt
<1>2. CASE b.partial_off + n < Units
  <2>1. b.partial_off + n \in 0 .. Units BY <1>1, <1>2, Sizes
  <2> QED BY <1>2, <2>1 DEF Consume, BufferMgmt
<1>3. CASE ~(b.partial_off + n < Units)
  <2>1. Units \in 0 .. Units BY Sizes
  <2>2. [b EXCEPT !.partial_off = Units] \in BufferMgmt
    BY <2>1 DEF BufferMgmt
  <2> QED BY <1>3, <2>2, AdvanceRxType DEF Consume, SyncState
<1> QED BY <1>2, <1>3

LEMMA ReaderType ==
  ASSUME TypeOK, ReaderStep
  PROVE  TypeOK'
<1> USE DEF TypeOK
<1>1. ASSUME LoopTop PROVE TypeOK'
  BY <1>1, CallTypes DEF LoopTop
<1>2. ASSUME CheckWorker PROVE TypeOK'
  BY <1>2, CallTypes DEF CheckWorker, SyncState
<1>3. ASSUME ResetBufMgmt PROVE TypeOK'
  <2>1. 0 \in Slots BY Sizes DEF Slots
  <2>2. b' \in BufferMgmt BY <1>3, <2>1 DEF ResetBufMgmt, BufferMgmt
  <2> QED BY <1>3, <2>2, CallTypes DEF ResetBufMgmt, SyncState
<1>4. ASSUME StartWorker PROVE TypeOK'
  BY <1>4, CallTypes DEF StartWorker
<1>5. ASSUME WorkerStarted PROVE TypeOK'
  BY <1>5, CallTypes DEF WorkerStarted, SyncState
<1>6. ASSUME StartTimedOut PROVE TypeOK'
  BY <1>6, CallTypes DEF StartTimedOut
<1>7. ASSUME WaitForBuffer PROVE TypeOK'
  <2> DEFINE w == [b EXCEPT !.rx_data_withheld_pending = FALSE]
             r == DropStale(Reanchor(SkipDropped(w)), call.now)
  <2>1. w \in BufferMgmt BY DEF BufferMgmt
  <2>2. call.now \in BOOLEAN BY DEF Calls
  <2>3. r \in BufferMgmt
    BY <2>1, <2>2, SkipDroppedType, ReanchorType, DropStaleType
  <2> HIDE DEF w, r
  <2>4. b' \in BufferMgmt BY <1>7, <2>1, <2>3 DEF WaitForBuffer, w, r
  <2>5. g' \in Ghosts BY <1>7, NoteType DEF WaitForBuffer
  <2>6. call' \in Calls BY <1>7, CallTypes DEF WaitForBuffer
  <2>7. state' \in SyncState BY <1>7 DEF WaitForBuffer, SyncState
  <2> QED BY <1>7, <2>4, <2>5, <2>6, <2>7 DEF WaitForBuffer
<1>8. ASSUME WakeUp PROVE TypeOK'
  <2>1. g' \in Ghosts BY <1>8 DEF WakeUp, Ghosts, Kinds
  <2> QED BY <1>8, <2>1, CallTypes DEF WakeUp, SyncState
<1>9. ASSUME TimedOut PROVE TypeOK'
  BY <1>9, CallTypes DEF TimedOut, SyncState
<1>10. ASSUME BufferReady PROVE TypeOK'
  <2>1. 0 \in 0 .. Units BY Sizes
  <2>2. b' \in BufferMgmt BY <1>10, <2>1 DEF BufferReady, BufferMgmt, Status
  <2>3. g' \in Ghosts BY <1>10 DEF BufferReady, Ghosts, BufferMgmt
  <2> QED BY <1>10, <2>2, <2>3, CallTypes DEF BufferReady, SyncState
<1>11. ASSUME UsingBuffer PROVE TypeOK'
  <2> DEFINE room == Units - b.partial_off
             n == IF call.want < room THEN call.want ELSE room
  <2>1. g' \in Ghosts BY <1>11, NoteType DEF UsingBuffer
  <2>2. CASE b.overrun_pending
    BY <1>11, <2>1, <2>2, CallTypes DEF UsingBuffer
  <2>3. CASE ~b.overrun_pending
    <3>1. b.partial_off \in 0 .. Units /\ call.want \in Nat
      BY DEF BufferMgmt, Calls
    <3>2. n \in 0 .. Units - b.partial_off /\ call.want - n \in Nat
      BY <3>1, Sizes
    <3> HIDE DEF n
    <3>3. Consume(n) /\ call' = Looping([call EXCEPT !.want = @ - n])
      BY <1>11, <2>3 DEF UsingBuffer, n
    <3>4. b' \in BufferMgmt /\ state' \in SyncState BY <3>2, <3>3, ConsumeType
    <3>5. [call EXCEPT !.want = @ - n] \in Calls BY <3>2 DEF Calls
    <3>6. call' \in Calls BY <3>3, <3>5, CallTypes
    <3> QED BY <1>11, <2>1, <3>4, <3>6 DEF UsingBuffer
  <2> QED BY <2>2, <2>3
<1>12. ASSUME UsingBufferMeta PROVE TypeOK'
  <2>1. g' \in Ghosts BY <1>12, NoteType DEF UsingBufferMeta
  <2>2. PICK n \in 0 .. Units - b.partial_off, copied \in BOOLEAN :
          /\ copied => n <= call.want
          /\ Consume(n)
          /\ LET c == [call EXCEPT !.want = IF copied THEN @ - n ELSE @] IN
             \/ call' = Looping(c)
             \/ call' = [c EXCEPT !.pc = "out"]
             \/ call' = Failed(c)
    BY <1>12 DEF UsingBufferMeta
  <2> DEFINE c == [call EXCEPT !.want = IF copied THEN @ - n ELSE @]
  <2>3. b' \in BufferMgmt /\ state' \in SyncState BY <2>2, ConsumeType
  <2>4. c \in Calls
    <3>1. call.want \in Nat BY DEF Calls
    <3>2. (IF copied THEN call.want - n ELSE call.want) \in Nat BY <2>2, <3>1
    <3> QED BY <3>2 DEF Calls
  <2>5. call' = Looping(c) \/ call' = [c EXCEPT !.pc = "out"] \/ call' = Failed(c)
    BY <2>2
  <2> HIDE DEF c
  <2>6. call' \in Calls BY <2>4, <2>5, CallTypes
  <2> QED BY <1>12, <2>1, <2>3, <2>6 DEF UsingBufferMeta
<1>13. ASSUME UsingPacketMeta PROVE TypeOK'
  <2>1. g' \in Ghosts BY <1>13, NoteType DEF UsingPacketMeta
  <2> QED BY <1>13, <2>1, AdvanceRxType, CallTypes DEF UsingPacketMeta, SyncState
<1>14. ASSUME Out PROVE TypeOK'
  <2>1. b' \in BufferMgmt BY <1>14 DEF Out, ClearOverrun, BufferMgmt
  <2>2. g' \in Ghosts BY <1>14 DEF Out, Ghosts
  <2> QED BY <1>14, <2>1, <2>2, CallTypes DEF Out
<1> QED
  BY <1>1, <1>2, <1>3, <1>4, <1>5, <1>6, <1>7, <1>8, <1>9, <1>10, <1>11,
     <1>12, <1>13, <1>14 DEF ReaderStep

LEMMA ControlType ==
  ASSUME TypeOK, Control
  PROVE  TypeOK'
<1> USE DEF TypeOK
<1>1. ASSUME RevokeEpoch PROVE TypeOK'
  <2>1. cnt.fences + 1 \in 0 .. MaxFences
    BY <1>1, RingAssumption DEF RevokeEpoch, RingAssumption, Used
  <2>2. cnt' \in Used BY <1>1, <2>1 DEF RevokeEpoch, Used
  <2>3. call' \in Calls BY <1>1 DEF RevokeEpoch, Calls
  <2> QED BY <1>1, <2>2, <2>3 DEF RevokeEpoch
<1>2. ASSUME InvalidateEpoch PROVE TypeOK'
  <2> DEFINE f == b.overrun_source_flags \ {"FPGA_RX_LOSS"}
             c == [b EXCEPT !.overrun_source_flags = f,
                            !.overrun_pending = @ /\ f # {}]
  <2>1. c \in BufferMgmt BY DEF BufferMgmt
  <2>2. b' \in BufferMgmt BY <1>2, <2>1, DiscardType DEF InvalidateEpoch
  <2>3. g' \in Ghosts BY <1>2, NoteType DEF InvalidateEpoch, Kinds
  <2> QED BY <1>2, <2>2, <2>3 DEF InvalidateEpoch, SyncState
<1>3. ASSUME StageFpgaLoss PROVE TypeOK'
  <2>1. cnt.lost + 1 \in 0 .. MaxLost
    BY <1>3, RingAssumption DEF StageFpgaLoss, RingAssumption, Used
  <2>2. cnt' \in Used BY <1>3, <2>1 DEF StageFpgaLoss, Used
  <2>3. b' \in BufferMgmt BY <1>3 DEF StageFpgaLoss, BufferMgmt, Sources
  <2> QED BY <1>3, <2>2, <2>3 DEF StageFpgaLoss
<1>4. ASSUME PrimeCheck PROVE TypeOK'
  <2>1. cnt.primes + 1 \in 0 .. MaxPrimes
    BY <1>4, RingAssumption DEF PrimeCheck, RingAssumption, Used
  <2>2. cnt' \in Used BY <1>4, <2>1 DEF PrimeCheck, Used
  <2> QED BY <1>4, <2>2 DEF PrimeCheck
<1>5. ASSUME PrimeSubmit PROVE TypeOK'
  BY <1>5 DEF PrimeSubmit
<1> QED BY <1>1, <1>2, <1>3, <1>4, <1>5 DEF Control

LEMMA ApplicationType ==
  ASSUME TypeOK, Application
  PROVE  TypeOK'
<1> USE DEF TypeOK
<1>1. PICK kind \in Timeouts, now \in BOOLEAN, want \in Requests :
        StartRead(kind, now, want)
  BY DEF Application
<1> DEFINE c == [NoCall EXCEPT !.kind = kind, !.now = now, !.want = want]
<1>2. c \in Calls BY RingAssumption DEF RingAssumption, NoCall, Calls
<1> HIDE DEF c
<1>3. call' \in Calls BY <1>1, <1>2, CallTypes DEF StartRead, c
<1>4. b' \in BufferMgmt BY <1>1 DEF StartRead, ClearOverrun, BufferMgmt
<1>5. g' \in Ghosts BY <1>1 DEF StartRead, Ghosts
<1> QED BY <1>1, <1>3, <1>4, <1>5 DEF StartRead

LEMMA TypeStep ==
  ASSUME TypeOK, [Next]_vars
  PROVE  TypeOK'
<1>1. ASSUME WaitExpires \/ SpuriousWakeup PROVE TypeOK'
  BY <1>1, CallTypes DEF TypeOK, WaitExpires, SpuriousWakeup, Wake
<1>2. ASSUME UNCHANGED vars PROVE TypeOK'
  BY <1>2 DEF TypeOK, vars
<1> QED BY <1>1, <1>2, UsbThreadType, WorkerType, ReaderType, ControlType,
           ApplicationType DEF Next

LEMMA TypeInit == Init => TypeOK
<1> SUFFICES ASSUME Init PROVE TypeOK OBVIOUS
<1>1. NoSeq \in Seqs BY Sizes DEF NoSeq, Seqs
<1>2. g \in Ghosts BY <1>1 DEF Init, Ghosts
<1>3. cnt \in Used BY RingAssumption DEF RingAssumption, Init, Used
<1>4. b \in BufferMgmt BY InitialRingType DEF Init
<1> QED BY <1>2, <1>3, <1>4, CallTypes DEF Init, TypeOK, SyncState

\* Whatever the USB thread, the worker, the reader and the control thread do,
\* for every ring size and every number of transfers, the indices, sequence
\* numbers and slot states of struct buffer_mgmt stay in their ranges.
THEOREM TypeCorrect == Spec => []TypeOK
<1>1. Init => TypeOK BY TypeInit
<1>2. TypeOK /\ [Next]_vars => TypeOK' BY TypeStep
<1> QED BY <1>1, <1>2, PTL DEF Spec

-----------------------------------------------------------------------------
(* Exclusive ownership.                                                     *)
(*                                                                          *)
(* ExclusiveOwnership is not inductive: a held payload may be released at   *)
(* any completion, so what reorder[] refers to must not be owned by the     *)
(* transport, and no slot may be referred to twice; and the reader changes  *)
(* the status of the slot at cons_i without looking at it, so the state     *)
(* machine must know what that slot is.                                     *)

\* The slots the transport owns, and the payloads held for reordering.
Sound(bb, u) ==
  /\ \A i \in Slots : u[i] <= 1 /\ (u[i] = 1 => bb.status[i] = "IN_FLIGHT")
  /\ \A e \in bb.reorder : ~e.dropped =>
       e.idx \in Slots /\ bb.status[e.idx] = "IN_FLIGHT" /\ u[e.idx] = 0
  /\ \A e, f \in bb.reorder :
       ~e.dropped /\ ~f.dropped /\ e.idx = f.idx => e = f

\* The slot the reader claimed is the one it may touch.
Reading(st, bb) ==
  /\ st = "BUFFER_READY" => bb.status[bb.cons_i] = "FULL"
  /\ st = "USING_BUFFER" => bb.status[bb.cons_i] = "PARTIAL"

Regular == ~Unusual({"stolen", "unanchored"})

IInv == TypeOK /\ (Regular => Sound(b, usb) /\ Reading(state, b))

\* A step that leaves cons_i, and every slot that is not IN_FLIGHT, alone.
Keeps(bb, cc) ==
  /\ cc.cons_i = bb.cons_i
  /\ \A i \in Slots : bb.status[i] # "IN_FLIGHT" => cc.status[i] = bb.status[i]

\* Soundness only looks at status and reorder[].
LEMMA SoundFrame ==
  ASSUME NEW bb, NEW cc, NEW u,
         cc.status = bb.status, cc.reorder = bb.reorder, Sound(bb, u)
  PROVE  Sound(cc, u)
BY DEF Sound

LEMMA FlushSound ==
  ASSUME NEW bb \in BufferMgmt, NEW u \in [Slots -> Nat], Sound(bb, u)
  PROVE  Sound(Flush(bb), u) /\ Keeps(bb, Flush(bb))
<1> DEFINE c == Flush(bb)
<1>1. Run(bb) \subseteq bb.reorder BY DEF Run
<1>2. /\ c.status = [i \in Slots |-> IF \E e \in Run(bb) : ~e.dropped /\ e.idx = i
                                     THEN "FULL" ELSE bb.status[i]]
      /\ c.reorder = bb.reorder \ Run(bb)
      /\ c.cons_i = bb.cons_i
  BY DEF Flush, BufferMgmt
<1> HIDE DEF c
<1>3. \A i \in Slots : u[i] <= 1 /\ (u[i] = 1 => c.status[i] = "IN_FLIGHT")
  BY <1>1, <1>2 DEF Sound
<1>4. \A e \in c.reorder : ~e.dropped =>
        e.idx \in Slots /\ c.status[e.idx] = "IN_FLIGHT" /\ u[e.idx] = 0
  <2> SUFFICES ASSUME NEW e \in c.reorder, ~e.dropped
               PROVE  e.idx \in Slots /\ c.status[e.idx] = "IN_FLIGHT" /\ u[e.idx] = 0
    OBVIOUS
  <2>1. e \in bb.reorder /\ e \notin Run(bb) BY <1>2
  <2>2. ~ \E f \in Run(bb) : ~f.dropped /\ f.idx = e.idx
    BY <1>1, <2>1 DEF Sound
  <2>3. e.idx \in Slots /\ bb.status[e.idx] = "IN_FLIGHT" /\ u[e.idx] = 0
    BY <2>1 DEF Sound
  <2> QED BY <1>2, <2>2, <2>3
<1>5. \A e, f \in c.reorder :
        ~e.dropped /\ ~f.dropped /\ e.idx = f.idx => e = f
  BY <1>2 DEF Sound
<1>6. \A i \in Slots : bb.status[i] # "IN_FLIGHT" => c.status[i] = bb.status[i]
  BY <1>1, <1>2 DEF Sound
<1>7. Sound(c, u) /\ Keeps(bb, c)
  BY <1>2, <1>3, <1>4, <1>5, <1>6 DEF Sound, Keeps
<1> QED BY <1>7 DEF c

LEMMA RetireExpectedSound ==
  ASSUME NEW bb \in BufferMgmt, NEW u \in [Slots -> Nat], Sound(bb, u)
  PROVE  Sound(RetireExpected(bb), u) /\ Keeps(bb, RetireExpected(bb))
<1> DEFINE c == [bb EXCEPT !.expected_seq = Incr(@)]
<1>1. c \in BufferMgmt BY Wrapped DEF BufferMgmt
<1>2. c.status = bb.status /\ c.reorder = bb.reorder /\ c.cons_i = bb.cons_i
  BY DEF BufferMgmt
<1> HIDE DEF c
<1>3. Sound(c, u) BY <1>2, SoundFrame
<1>4. Sound(Flush(c), u) /\ Keeps(c, Flush(c)) BY <1>1, <1>3, FlushSound
<1>5. Keeps(bb, Flush(c)) BY <1>2, <1>4 DEF Keeps
<1> QED BY <1>4, <1>5 DEF RetireExpected, c

LEMMA RetireDroppedSound ==
  ASSUME NEW bb \in BufferMgmt, NEW u \in [Slots -> Nat], Sound(bb, u),
         NEW s \in Seqs
  PROVE  Sound(RetireDropped(bb, s), u) /\ Keeps(bb, RetireDropped(bb, s))
<1> DEFINE e == [seq |-> s, idx |-> NoSlot, dropped |-> TRUE]
           c == [bb EXCEPT !.reorder = @ \cup {e}]
<1>1. Sound(c, u) /\ Keeps(bb, c)
  <2>1. c.status = bb.status /\ c.cons_i = bb.cons_i /\ c.reorder = bb.reorder \cup {e}
    BY DEF BufferMgmt
  <2>2. e.dropped OBVIOUS
  <2> HIDE DEF c, e
  <2> QED BY <2>1, <2>2 DEF Sound, Keeps
<1>2. Sound(NoteOverrun(bb), u) /\ Keeps(bb, NoteOverrun(bb))
  <2>1. /\ NoteOverrun(bb).status = bb.status /\ NoteOverrun(bb).reorder = bb.reorder
        /\ NoteOverrun(bb).cons_i = bb.cons_i
    BY DEF NoteOverrun, BufferMgmt
  <2> QED BY <2>1, SoundFrame DEF Keeps
<1> QED BY <1>1, <1>2, RetireExpectedSound DEF RetireDropped

\* An EMPTY slot is given to one more transfer.
LEMMA SubmitSound ==
  ASSUME NEW bb \in BufferMgmt, NEW u \in [Slots -> Nat], Sound(bb, u),
         NEW j \in Slots, bb.status[j] = "EMPTY"
  PROVE  /\ Sound(SubmitSlot(bb, j), [u EXCEPT ![j] = @ + 1])
         /\ SubmitSlot(bb, j).cons_i = bb.cons_i
         /\ SubmitSlot(bb, j).status = [bb.status EXCEPT ![j] = "IN_FLIGHT"]
<1> DEFINE c == SubmitSlot(bb, j)
           v == [u EXCEPT ![j] = @ + 1]
<1>1. /\ c.status = [bb.status EXCEPT ![j] = "IN_FLIGHT"]
      /\ c.reorder = bb.reorder /\ c.cons_i = bb.cons_i
  BY DEF SubmitSlot, MarkInFlight, BufferMgmt
<1>2. u[j] = 0 BY DEF Sound
<1>3. v[j] = 1 /\ \A i \in Slots \ {j} : v[i] = u[i] BY <1>2
<1>4. /\ c.status[j] = "IN_FLIGHT"
      /\ \A i \in Slots \ {j} : c.status[i] = bb.status[i]
  BY <1>1 DEF BufferMgmt
<1> HIDE DEF c, v
<1>5. \A i \in Slots : v[i] <= 1 /\ (v[i] = 1 => c.status[i] = "IN_FLIGHT")
  BY <1>3, <1>4 DEF Sound
<1>6. \A e \in c.reorder : ~e.dropped =>
        e.idx \in Slots /\ c.status[e.idx] = "IN_FLIGHT" /\ v[e.idx] = 0
  BY <1>1, <1>3, <1>4 DEF Sound
<1>7. Sound(c, v) BY <1>1, <1>5, <1>6 DEF Sound
<1> QED BY <1>1, <1>7 DEF c, v

\* The transfer of slot i is over and its payload is ready or held.
LEMMA StoreSound ==
  ASSUME NEW bb \in BufferMgmt, NEW u \in [Slots -> Nat], Sound(bb, u),
         NEW i \in Slots, u[i] = 1
  PROVE  /\ Sound(StoreCompleted(bb, i), [u EXCEPT ![i] = @ - 1])
         /\ Keeps(bb, StoreCompleted(bb, i))
<1> DEFINE v == [u EXCEPT ![i] = @ - 1]
           h == [seq |-> bb.buffer_seq[i], idx |-> i, dropped |-> FALSE]
<1>1. v \in [Slots -> Nat] /\ v[i] = 0 /\ \A k \in Slots \ {i} : v[k] = u[k]
  OBVIOUS
<1>2. \A e \in bb.reorder : ~e.dropped => e.idx # i BY DEF Sound
<1>3. bb.status[i] = "IN_FLIGHT" BY DEF Sound
<1> HIDE DEF v
<1>4. ASSUME NEW cc \in BufferMgmt, cc.status = bb.status,
             cc.reorder = bb.reorder, cc.cons_i = bb.cons_i
      PROVE  Sound(Ready(cc, i), v) /\ Keeps(bb, Ready(cc, i))
  <2> DEFINE r == Ready(cc, i)
  <2>1. /\ r.reorder = bb.reorder /\ r.cons_i = bb.cons_i
        /\ \A k \in Slots \ {i} : r.status[k] = bb.status[k]
    BY <1>4 DEF Ready, BufferMgmt
  <2> HIDE DEF r
  <2>2. \A k \in Slots : v[k] <= 1 /\ (v[k] = 1 => r.status[k] = "IN_FLIGHT")
    BY <1>1, <2>1 DEF Sound
  <2>3. \A e \in r.reorder : ~e.dropped =>
          e.idx \in Slots /\ r.status[e.idx] = "IN_FLIGHT" /\ v[e.idx] = 0
    BY <1>1, <1>2, <2>1 DEF Sound
  <2>4. Sound(r, v) /\ Keeps(bb, r)
    BY <1>3, <2>1, <2>2, <2>3 DEF Sound, Keeps
  <2> QED BY <2>4 DEF r
<1>5. Sound(RetireExpected(Ready(bb, i)), v) /\ Keeps(bb, RetireExpected(Ready(bb, i)))
  <2> DEFINE r == Ready(bb, i)
  <2>1. Sound(r, v) /\ Keeps(bb, r) BY <1>4
  <2>2. r \in BufferMgmt BY DEF Ready, BufferMgmt, Status
  <2>3. \A k \in Slots : bb.status[k] # "IN_FLIGHT" => r.status[k] = bb.status[k]
    BY <2>1 DEF Keeps
  <2> HIDE DEF r
  <2>4. Sound(RetireExpected(r), v) /\ Keeps(r, RetireExpected(r))
    BY <1>1, <2>1, <2>2, RetireExpectedSound
  <2>5. Keeps(bb, RetireExpected(r)) BY <2>1, <2>4 DEF Keeps
  <2> QED BY <2>4, <2>5 DEF r
<1>6. Sound(Hold(bb, i), v) /\ Keeps(bb, Hold(bb, i))
  <2> DEFINE c == Hold(bb, i)
  <2>1. /\ c.status = bb.status /\ c.cons_i = bb.cons_i
        /\ c.reorder = bb.reorder \cup {h}
    BY DEF Hold, BufferMgmt
  <2>2. h.idx = i /\ ~h.dropped OBVIOUS
  <2> HIDE DEF c, h
  <2>3. \A k \in Slots : v[k] <= 1 /\ (v[k] = 1 => c.status[k] = "IN_FLIGHT")
    BY <1>1, <2>1 DEF Sound
  <2>4. \A e \in c.reorder : ~e.dropped =>
          e.idx \in Slots /\ c.status[e.idx] = "IN_FLIGHT" /\ v[e.idx] = 0
    BY <1>1, <1>2, <1>3, <2>1, <2>2 DEF Sound
  <2>5. \A e, f \in c.reorder : ~e.dropped /\ ~f.dropped /\ e.idx = f.idx => e = f
    BY <1>2, <2>1, <2>2 DEF Sound
  <2>6. Sound(c, v) /\ Keeps(bb, c) BY <2>1, <2>3, <2>4, <2>5 DEF Sound, Keeps
  <2> QED BY <2>6 DEF c
<1>7. Sound(Ready(NoteOverrun(bb), i), v) /\ Keeps(bb, Ready(NoteOverrun(bb), i))
  <2>1. /\ NoteOverrun(bb).status = bb.status /\ NoteOverrun(bb).reorder = bb.reorder
        /\ NoteOverrun(bb).cons_i = bb.cons_i
    BY DEF NoteOverrun, BufferMgmt
  <2> QED BY <1>4, <2>1, NoteOverrunType
<1> QED BY <1>5, <1>6, <1>7 DEF StoreCompleted, v

\* The transfer of slot i is over and its payload is thrown away.
LEMMA RejectSound ==
  ASSUME NEW q \in BufferMgmt, NEW u \in [Slots -> Nat], Sound(q, u),
         NEW i \in Slots, u[i] = 1
  PROVE  Sound([q EXCEPT !.buffer_dropped[i] = TRUE, !.status[i] = "EMPTY"],
               [u EXCEPT ![i] = @ - 1])
<1> DEFINE v == [u EXCEPT ![i] = @ - 1]
           r == [q EXCEPT !.buffer_dropped[i] = TRUE, !.status[i] = "EMPTY"]
<1>1. v \in [Slots -> Nat] /\ v[i] = 0 /\ \A k \in Slots \ {i} : v[k] = u[k]
  OBVIOUS
<1>2. r.reorder = q.reorder /\ \A k \in Slots \ {i} : r.status[k] = q.status[k]
  BY DEF BufferMgmt
<1> HIDE DEF r, v
<1>3. \A k \in Slots : v[k] <= 1 /\ (v[k] = 1 => r.status[k] = "IN_FLIGHT")
  BY <1>1, <1>2 DEF Sound
<1>4. \A e \in r.reorder : ~e.dropped =>
        e.idx \in Slots /\ r.status[e.idx] = "IN_FLIGHT" /\ v[e.idx] = 0
  BY <1>1, <1>2 DEF Sound
<1>5. Sound(r, v) BY <1>2, <1>3, <1>4 DEF Sound
<1> QED BY <1>5 DEF r, v

\* A fence that leaves nothing held leaves the transport's slots alone.
LEMMA DiscardSound ==
  ASSUME NEW bb \in BufferMgmt, NEW u \in [Slots -> Nat], Sound(bb, u),
         Discard(bb).reorder = {}
  PROVE  Sound(Discard(bb), u)
<1> DEFINE c == FreeCompleted(bb)
<1>1. c \in BufferMgmt BY FreeCompletedType
<1>2. c.status = [i \in Slots |->
                    IF i \in {k \in HeldSlots(bb) : bb.status[k] = "IN_FLIGHT"}
                          \cup {k \in Slots : bb.status[k] \in {"FULL", "PARTIAL"}}
                    THEN "EMPTY" ELSE bb.status[i]]
  BY DEF FreeCompleted, BufferMgmt
<1>3. \A i \in HeldSlots(bb) : u[i] = 0 BY DEF Sound, HeldSlots
<1> HIDE DEF c
<1>4. Discard(bb).status = c.status
  BY <1>1 DEF Discard, c, BufferMgmt
<1>5. \A i \in Slots : u[i] = 1 => c.status[i] = "IN_FLIGHT"
  BY <1>2, <1>3 DEF Sound
<1> QED BY <1>4, <1>5 DEF Sound

\* The purge of the backlog touches ready slots only.
LEMMA DropStaleSound ==
  ASSUME NEW bb \in BufferMgmt, NEW u \in [Slots -> Nat], Sound(bb, u),
         NEW now \in BOOLEAN
  PROVE  Sound(DropStale(bb, now), u)
<1> DEFINE c == DropStale(bb, now)
<1>1. /\ c.reorder = bb.reorder
      /\ \A i \in Slots : bb.status[i] = "IN_FLIGHT" => c.status[i] = "IN_FLIGHT"
  BY DEF DropStale, BufferMgmt
<1> HIDE DEF c
<1>2. Sound(c, u) BY <1>1 DEF Sound
<1> QED BY <1>2 DEF c

\* The searches of the reader move cons_i only.
LEMMA SearchFrame ==
  ASSUME NEW bb \in BufferMgmt
  PROVE  /\ SkipDropped(bb).status = bb.status
         /\ SkipDropped(bb).reorder = bb.reorder
         /\ Reanchor(bb).status = bb.status
         /\ Reanchor(bb).reorder = bb.reorder
<1>1. SkipDropped(bb).status = bb.status /\ SkipDropped(bb).reorder = bb.reorder
  BY DEF SkipDropped, BufferMgmt
<1>2. Reanchor(bb).status = bb.status /\ Reanchor(bb).reorder = bb.reorder
  BY DEF Reanchor, BufferMgmt
<1> QED BY <1>1, <1>2

\* The ghost forgets nothing but at START.
LEMMA PastGrows ==
  ASSUME TypeOK, [Next]_vars, ~ExecIdleState
  PROVE  g.past \subseteq g'.past
<1>1. g \in Ghosts BY DEF TypeOK
<1>2. g.past \subseteq g'.past
  <2>1. \A new, kinds, lost : g.past \subseteq Note(new, kinds, lost).past
    BY <1>1 DEF Note, Ghosts
  <2>2. CASE UsbThread
    <3>1. ASSUME NEW i \in Slots, RxCallbackStore(i) PROVE g.past \subseteq g'.past
      BY <2>1, <3>1 DEF RxCallbackStore
    <3>2. ASSUME NEW i \in Slots, RxCallbackNoData(i) \/ RxCallbackRingFull(i)
          PROVE  g.past \subseteq g'.past
      BY <2>1, <3>2 DEF RxCallbackNoData, RxCallbackRingFull
    <3>3. ASSUME NEW i \in Slots, NEW quiet \in BOOLEAN, RxBufferRejected(i, quiet)
          PROVE  g.past \subseteq g'.past
      BY <2>1, <3>3 DEF RxBufferRejected
    <3>4. ASSUME RxEventCallback PROVE g.past \subseteq g'.past
      BY <3>4 DEF RxEventCallback
    <3> QED BY <2>2, <3>1, <3>2, <3>3, <3>4 DEF UsbThread
  <2>3. CASE Worker BY <2>3 DEF Worker, ExecRunningState, WorkerBackToIdle
  <2>4. CASE ReaderStep
    <3>1. CASE WaitForBuffer \/ UsingBuffer \/ UsingBufferMeta \/ UsingPacketMeta
      BY <2>1, <3>1 DEF WaitForBuffer, UsingBuffer, UsingBufferMeta, UsingPacketMeta
    <3>2. CASE WakeUp \/ BufferReady \/ Out
      BY <1>1, <3>2 DEF WakeUp, BufferReady, Out, Ghosts
    <3>3. CASE LoopTop \/ CheckWorker \/ ResetBufMgmt \/ StartWorker
               \/ WorkerStarted \/ StartTimedOut \/ TimedOut
      BY <3>3 DEF LoopTop, CheckWorker, ResetBufMgmt, StartWorker,
           WorkerStarted, StartTimedOut, TimedOut
    <3> QED BY <2>4, <3>1, <3>2, <3>3 DEF ReaderStep
  <2>5. CASE Control
    BY <2>1, <2>5 DEF Control, RevokeEpoch, InvalidateEpoch, StageFpgaLoss,
         PrimeCheck, PrimeSubmit
  <2>6. CASE Application BY <1>1, <2>6 DEF Application, StartRead, Ghosts
  <2>7. CASE WaitExpires \/ SpuriousWakeup \/ UNCHANGED vars
    BY <2>7 DEF WaitExpires, SpuriousWakeup, vars
  <2> QED BY <2>2, <2>3, <2>4, <2>5, <2>6, <2>7 DEF Next
<1> QED BY <1>2

LEMMA RegularBefore ==
  ASSUME TypeOK, [Next]_vars, ~ExecIdleState, Regular'
  PROVE  Regular
BY PastGrows DEF Regular, Unusual

LEMMA UsbThreadOwnership ==
  ASSUME TypeOK, Sound(b, usb), Reading(state, b), UsbThread
  PROVE  Sound(b', usb') /\ Reading(state', b')
<1> USE DEF TypeOK
<1>0. ASSUME NEW i \in Slots, usb[i] > 0 PROVE usb[i] = 1 /\ b.status[i] = "IN_FLIGHT"
  BY <1>0 DEF Sound
<1>u. ASSUME NEW i \in Slots, usb[i] = 1
      PROVE  [usb EXCEPT ![i] = @ - 1] \in [Slots -> Nat]
  BY <1>u
<1>k. ASSUME NEW c, Keeps(b, c), NEW j \in Slots, NEW d, d.cons_i = c.cons_i,
             c.status \in [Slots -> Status],
             c.status[j] = "EMPTY", d.status = [c.status EXCEPT ![j] = "IN_FLIGHT"]
      PROVE  Reading(state, d)
  <2>1. b.cons_i \in Slots BY DEF BufferMgmt
  <2>2. CASE state = "BUFFER_READY" BY <1>k, <2>1, <2>2 DEF Keeps, Reading
  <2>3. CASE state = "USING_BUFFER" BY <1>k, <2>1, <2>3 DEF Keeps, Reading
  <2> QED BY <2>2, <2>3 DEF Reading
<1>1. ASSUME NEW i \in Slots, RxCallbackStore(i)
      PROVE  Sound(b', usb') /\ Reading(state', b')
  <2> DEFINE c == [b EXCEPT !.buffer_dropped[i] = FALSE]
             d == StoreCompleted(c, i)
             j == ProducerSlot(c)
             v == [usb EXCEPT ![i] = @ - 1]
  <2>1. c \in BufferMgmt BY DEF BufferMgmt
  <2>2. d \in BufferMgmt BY <2>1, StoreCompletedType
  <2>3. c.status = b.status /\ c.reorder = b.reorder /\ c.cons_i = b.cons_i
    BY DEF BufferMgmt
  <2>4. EmptySlots(c) # {} BY <1>1, <2>3 DEF RxCallbackStore, EmptySlots
  <2>5. j \in Slots /\ c.status[j] = "EMPTY"
    BY <2>1, <2>4, ProducerSlotEmpty DEF EmptySlots
  <2>6. usb[i] = 1 BY <1>0, <1>1 DEF RxCallbackStore, Completes, Owned
  <2>7. v \in [Slots -> Nat] BY <1>u, <2>6
  <2>8. b' = SubmitSlot(d, j) /\ usb' = [v EXCEPT ![j] = @ + 1] /\ state' = state
    BY <1>1 DEF RxCallbackStore
  <2> HIDE DEF c
  <2>9. Sound(c, usb) BY <2>3, SoundFrame
  <2>10. Sound(d, v) /\ Keeps(c, d) BY <2>1, <2>6, <2>9, StoreSound
  <2>11. d.status[j] = "EMPTY" /\ Keeps(b, d) BY <2>3, <2>5, <2>10 DEF Keeps
  <2> HIDE DEF d, j, v
  <2>12. /\ Sound(SubmitSlot(d, j), [v EXCEPT ![j] = @ + 1])
         /\ SubmitSlot(d, j).cons_i = d.cons_i
         /\ SubmitSlot(d, j).status = [d.status EXCEPT ![j] = "IN_FLIGHT"]
    BY <2>2, <2>5, <2>7, <2>10, <2>11, SubmitSound
  <2>13. d.status \in [Slots -> Status] BY <2>2 DEF BufferMgmt
  <2>14. Reading(state, SubmitSlot(d, j)) BY <1>k, <2>5, <2>11, <2>12, <2>13
  <2> QED BY <2>8, <2>12, <2>14
<1>2. ASSUME NEW i \in Slots, RxCallbackNoData(i)
      PROVE  Sound(b', usb') /\ Reading(state', b')
  <2>1. usb[i] = 1 BY <1>0, <1>2 DEF RxCallbackNoData, Completes, Owned
  <2>2. b'.status = b.status /\ b'.reorder = b.reorder /\ b'.cons_i = b.cons_i
    BY <1>2 DEF RxCallbackNoData, BufferMgmt
  <2>3. usb'[i] = 0 /\ \A k \in Slots \ {i} : usb'[k] = usb[k]
    BY <1>2, <2>1 DEF RxCallbackNoData
  <2>4. Sound(b', usb') BY <2>2, <2>3 DEF Sound
  <2> QED BY <1>2, <2>2, <2>4 DEF Reading, RxCallbackNoData
<1>3. ASSUME NEW i \in Slots, RxCallbackRingFull(i)
      PROVE  Sound(b', usb') /\ Reading(state', b')
  <2> DEFINE q == RetireDropped(b, b.buffer_seq[i])
  <2>1. usb[i] = 1 /\ b.status[i] = "IN_FLIGHT"
    BY <1>0, <1>3 DEF RxCallbackRingFull, Completes, Owned
  <2>2. b.buffer_seq[i] \in Seqs BY DEF BufferMgmt
  <2>3. q \in BufferMgmt BY <2>2, RetireDroppedType
  <2>4. Sound(q, usb) /\ Keeps(b, q) BY <2>2, RetireDroppedSound
  <2> HIDE DEF q
  <2>5. q.status[i] = "IN_FLIGHT" BY <2>1, <2>4 DEF Sound
  <2>6. b' = NoteOverrun(MarkInFlight(q, i)) /\ usb' = usb /\ state' = state
    BY <1>3 DEF RxCallbackRingFull, q
  <2>7. b'.status = q.status /\ b'.reorder = q.reorder /\ b'.cons_i = q.cons_i
    BY <2>3, <2>5, <2>6 DEF NoteOverrun, MarkInFlight, BufferMgmt
  <2>8. Sound(b', usb') BY <2>4, <2>6, <2>7, SoundFrame
  <2>9. b.cons_i \in Slots BY DEF BufferMgmt
  <2> QED BY <2>4, <2>6, <2>7, <2>8, <2>9 DEF Keeps, Reading
<1>4. ASSUME NEW i \in Slots, NEW quiet \in BOOLEAN, RxBufferRejected(i, quiet)
      PROVE  Sound(b', usb') /\ Reading(state', b')
  <2> DEFINE q == RetireDropped(b, b.buffer_seq[i])
             r == [q EXCEPT !.buffer_dropped[i] = TRUE, !.status[i] = "EMPTY"]
             j == ProducerSlot(r)
             v == [usb EXCEPT ![i] = @ - 1]
  <2>1. usb[i] = 1 /\ b.status[i] = "IN_FLIGHT"
    BY <1>0, <1>4 DEF RxBufferRejected, Completes, Owned
  <2>2. b.buffer_seq[i] \in Seqs BY DEF BufferMgmt
  <2>3. q \in BufferMgmt BY <2>2, RetireDroppedType
  <2>4. Sound(q, usb) /\ Keeps(b, q) BY <2>2, RetireDroppedSound
  <2>5. b' = SubmitSlot(r, j) /\ usb' = [v EXCEPT ![j] = @ + 1] /\ state' = state
    BY <1>4, <2>1 DEF RxBufferRejected
  <2> HIDE DEF q
  <2>6. r \in BufferMgmt BY <2>3 DEF BufferMgmt, Status
  <2>7. /\ r.cons_i = q.cons_i /\ r.status[i] = "EMPTY"
        /\ \A k \in Slots \ {i} : r.status[k] = q.status[k]
    BY <2>3 DEF BufferMgmt
  <2>8. Sound(r, v) BY <2>1, <2>3, <2>4, RejectSound
  <2> HIDE DEF r
  <2>9. EmptySlots(r) # {} BY <2>7 DEF EmptySlots
  <2>10. j \in Slots /\ r.status[j] = "EMPTY"
    BY <2>6, <2>9, ProducerSlotEmpty DEF EmptySlots
  <2>11. v \in [Slots -> Nat] BY <1>u, <2>1
  <2>12. Keeps(b, r) BY <2>1, <2>4, <2>7 DEF Keeps
  <2> HIDE DEF j, v
  <2>13. /\ Sound(SubmitSlot(r, j), [v EXCEPT ![j] = @ + 1])
         /\ SubmitSlot(r, j).cons_i = r.cons_i
         /\ SubmitSlot(r, j).status = [r.status EXCEPT ![j] = "IN_FLIGHT"]
    BY <2>6, <2>8, <2>10, <2>11, SubmitSound
  <2>14. r.status \in [Slots -> Status] BY <2>6 DEF BufferMgmt
  <2>15. Reading(state, SubmitSlot(r, j)) BY <1>k, <2>10, <2>12, <2>13, <2>14
  <2> QED BY <2>5, <2>13, <2>15
<1>5. ASSUME RxEventCallback PROVE Sound(b', usb') /\ Reading(state', b')
  <2>1. /\ b'.status = b.status /\ b'.reorder = b.reorder /\ b'.cons_i = b.cons_i
        /\ usb' = usb /\ state' = state
    BY <1>5 DEF RxEventCallback, BufferMgmt
  <2> QED BY <2>1, SoundFrame DEF Reading
<1> QED BY <1>1, <1>2, <1>3, <1>4, <1>5 DEF UsbThread

\* A START request serves the first T slots on a ring with nothing in flight.
LEMMA StartOwnership ==
  ASSUME TypeOK, ExecIdleState
  PROVE  /\ Sound(b', usb')
         /\ state \notin {"BUFFER_READY", "USING_BUFFER"} => Reading(state', b')
<1>1. /\ b'.reorder = {}
      /\ b'.status = [i \in Slots |->
                        IF i < T THEN "IN_FLIGHT"
                        ELSE IF b.status[i] = "IN_FLIGHT" THEN "EMPTY"
                        ELSE b.status[i]]
  BY DEF TypeOK, ExecIdleState, ResetForStart, BufferMgmt
<1>2. Sound(b', usb') BY <1>1 DEF ExecIdleState, Sound
<1>3. state' = state BY DEF ExecIdleState
<1> QED BY <1>2, <1>3 DEF Reading

LEMMA ReaderOwnership ==
  ASSUME TypeOK, Sound(b, usb), Reading(state, b), ReaderStep
  PROVE  Sound(b', usb') /\ Reading(state', b')
<1> USE DEF TypeOK
\* Steps that keep the ring, and those that set no buffer aside.
<1>1. CASE LoopTop \/ StartWorker \/ StartTimedOut
  BY <1>1 DEF LoopTop, StartWorker, StartTimedOut, Reading
<1>2. CASE CheckWorker \/ WorkerStarted \/ TimedOut \/ WakeUp
  BY <1>2 DEF CheckWorker, WorkerStarted, TimedOut, WakeUp, Reading
<1>3. CASE ResetBufMgmt
  <2>1. b'.status = b.status /\ b'.reorder = b.reorder
    BY <1>3 DEF ResetBufMgmt, BufferMgmt
  <2> QED BY <1>3, <2>1, SoundFrame DEF ResetBufMgmt, Reading
<1>4. CASE WaitForBuffer
  <2> DEFINE w == [b EXCEPT !.rx_data_withheld_pending = FALSE]
             k == SkipDropped(w)
             a == Reanchor(k)
             r == DropStale(a, call.now)
  <2>1. w \in BufferMgmt /\ w.status = b.status /\ w.reorder = b.reorder
    BY DEF BufferMgmt
  <2>2. call.now \in BOOLEAN BY DEF Calls
  <2>3. Sound(w, usb) BY <2>1, SoundFrame
  <2>4. k \in BufferMgmt /\ Sound(k, usb)
    BY <2>1, <2>3, SkipDroppedType, SearchFrame, SoundFrame
  <2>5. a \in BufferMgmt /\ Sound(a, usb)
    BY <2>4, ReanchorType, SearchFrame, SoundFrame
  <2>6. Sound(r, usb) BY <2>2, <2>5, DropStaleSound
  <2>7. /\ usb' = usb /\ (b' = w \/ b' = r)
        /\ state = "WAIT_FOR_BUFFER"
        /\ state' = state \/ (state' = "BUFFER_READY" /\ b'.status[b'.cons_i] = "FULL")
    BY <1>4 DEF WaitForBuffer
  <2> HIDE DEF w, r
  <2> QED BY <2>3, <2>6, <2>7 DEF Reading
<1>5. CASE BufferReady
  <2>1. b.cons_i \in Slots /\ b.status[b.cons_i] = "FULL"
    BY <1>5 DEF BufferReady, Reading, BufferMgmt
  <2>2. /\ b'.reorder = b.reorder /\ b'.cons_i = b.cons_i
        /\ b'.status = [b.status EXCEPT ![b.cons_i] = "PARTIAL"]
        /\ usb' = usb /\ state' = "USING_BUFFER"
    BY <1>5 DEF BufferReady, BufferMgmt
  <2>3. b.status \in [Slots -> Status] BY DEF BufferMgmt
  <2> QED BY <2>1, <2>2, <2>3 DEF Sound, Reading
\* A buffer the reader is done with is given back.
<1>6. ASSUME NEW c \in BufferMgmt, c.status = b.status, c.reorder = b.reorder,
             c.cons_i = b.cons_i, state = "USING_BUFFER"
      PROVE  Sound(AdvanceRx(c), usb)
  <2>1. b.cons_i \in Slots /\ b.status[b.cons_i] = "PARTIAL"
    BY <1>6 DEF Reading, BufferMgmt
  <2>2. /\ AdvanceRx(c).reorder = b.reorder
        /\ AdvanceRx(c).status = [b.status EXCEPT ![b.cons_i] = "EMPTY"]
    BY <1>6 DEF AdvanceRx, BufferMgmt
  <2>3. b.status \in [Slots -> Status] BY DEF BufferMgmt
  <2> QED BY <2>1, <2>2, <2>3 DEF Sound
<1>7. ASSUME NEW n, Consume(n), usb' = usb, state = "USING_BUFFER"
      PROVE  Sound(b', usb') /\ Reading(state', b')
  <2>1. CASE b' = [b EXCEPT !.partial_off = @ + n] /\ state' = state
    <3>1. b'.status = b.status /\ b'.reorder = b.reorder /\ b'.cons_i = b.cons_i
      BY <2>1 DEF BufferMgmt
    <3> QED BY <1>7, <2>1, <3>1, SoundFrame DEF Reading
  <2>2. CASE /\ b' = AdvanceRx([b EXCEPT !.partial_off = Units])
             /\ state' = "WAIT_FOR_BUFFER"
    <3> DEFINE c == [b EXCEPT !.partial_off = Units]
    <3>1. Units \in 0 .. Units BY Sizes
    <3>2. c \in BufferMgmt BY <3>1 DEF BufferMgmt
    <3>3. c.status = b.status /\ c.reorder = b.reorder /\ c.cons_i = b.cons_i
      BY DEF BufferMgmt
    <3> QED BY <1>6, <1>7, <2>2, <3>2, <3>3 DEF Reading
  <2> QED BY <1>7, <2>1, <2>2 DEF Consume
<1>8. CASE UsingBuffer
  <2>1. CASE b.overrun_pending BY <1>8, <2>1 DEF UsingBuffer, Reading
  <2>2. CASE ~b.overrun_pending BY <1>7, <1>8, <2>2 DEF UsingBuffer
  <2> QED BY <2>1, <2>2
<1>9. CASE UsingBufferMeta BY <1>7, <1>9 DEF UsingBufferMeta
<1>10. CASE UsingPacketMeta BY <1>6, <1>10 DEF UsingPacketMeta, Reading
<1>11. CASE Out
  <2>1. b'.status = b.status /\ b'.reorder = b.reorder /\ b'.cons_i = b.cons_i
    BY <1>11 DEF Out, ClearOverrun, BufferMgmt
  <2> QED BY <1>11, <2>1, SoundFrame DEF Out, Reading
<1> QED BY <1>1, <1>2, <1>3, <1>4, <1>5, <1>8, <1>9, <1>10, <1>11 DEF ReaderStep

LEMMA ControlOwnership ==
  ASSUME TypeOK, Sound(b, usb), Reading(state, b), Control, Regular'
  PROVE  Sound(b', usb') /\ Reading(state', b')
<1> USE DEF TypeOK
<1>1. CASE InvalidateEpoch
  <2> DEFINE f == b.overrun_source_flags \ {"FPGA_RX_LOSS"}
             c == [b EXCEPT !.overrun_source_flags = f,
                            !.overrun_pending = @ /\ f # {}]
  <2>1. c \in BufferMgmt /\ c.status = b.status /\ c.reorder = b.reorder
    BY DEF BufferMgmt
  <2>2. Sound(c, usb) BY <2>1, SoundFrame
  <2>3. b' = Discard(c) BY <1>1 DEF InvalidateEpoch
  <2>4. state' \notin {"BUFFER_READY", "USING_BUFFER"} /\ usb' = usb
    BY <1>1 DEF InvalidateEpoch
  <2> HIDE DEF c
  <2>5. b'.reorder = b.reorder \/ b'.reorder = {}
    <3>1. FreeCompleted(c) \in BufferMgmt BY <2>1, FreeCompletedType
    <3>2. FreeCompleted(c).reorder = c.reorder
      BY <2>1 DEF FreeCompleted, BufferMgmt
    <3> QED BY <2>1, <2>3, <3>1, <3>2 DEF Discard, BufferMgmt
  <2>6. b'.reorder = {}
    <3>1. "unanchored" \notin g'.past BY DEF Regular, Unusual
    <3>2. CASE b.reorder # {} /\ b'.reorder # {}
      <4>1. g' = Note(b', {"unanchored"}, FALSE) BY <1>1, <3>2 DEF InvalidateEpoch
      <4>2. "unanchored" \in g'.past BY <4>1 DEF Note, Ghosts
      <4> QED BY <3>1, <4>2
    <3> QED BY <2>5, <3>2
  <2>7. Sound(b', usb) BY <2>1, <2>2, <2>3, <2>6, DiscardSound
  <2> QED BY <2>4, <2>7 DEF Reading
<1>2. CASE StageFpgaLoss
  <2>1. b'.status = b.status /\ b'.reorder = b.reorder /\ b'.cons_i = b.cons_i
    BY <1>2 DEF StageFpgaLoss, BufferMgmt
  <2> QED BY <1>2, <2>1, SoundFrame DEF StageFpgaLoss, Reading
<1>3. CASE RevokeEpoch \/ PrimeCheck \/ PrimeSubmit
  BY <1>3 DEF RevokeEpoch, PrimeCheck, PrimeSubmit, Reading
<1> QED BY <1>1, <1>2, <1>3 DEF Control

LEMMA OwnershipStep ==
  ASSUME IInv, [Next]_vars
  PROVE  IInv'
<1>1. TypeOK' BY TypeStep DEF IInv
<1>2. ASSUME Regular' PROVE Sound(b', usb') /\ Reading(state', b')
  <2>1. CASE ExecIdleState
    <3>1. state \notin {"BUFFER_READY", "USING_BUFFER"}
      BY <1>2, <2>1 DEF ExecIdleState, Regular, Unusual, IInv, TypeOK, Ghosts
    <3> QED BY <2>1, <3>1, StartOwnership DEF IInv
  <2>2. CASE ~ExecIdleState
    <3>1. TypeOK /\ Sound(b, usb) /\ Reading(state, b)
      BY <1>2, <2>2, RegularBefore DEF IInv
    <3>2. CASE Worker
      <4>1. CASE ExecRunningState
        BY <3>1, <4>1 DEF ExecRunningState, Sound, Reading
      <4>2. CASE WorkerBackToIdle
        BY <3>1, <4>2 DEF WorkerBackToIdle
      <4> QED BY <2>2, <3>2, <4>1, <4>2 DEF Worker
    <3>3. CASE Application
      <4>1. /\ b'.status = b.status /\ b'.reorder = b.reorder
            /\ b'.cons_i = b.cons_i /\ usb' = usb /\ state' = state
        BY <3>1, <3>3 DEF Application, StartRead, ClearOverrun, TypeOK, BufferMgmt
      <4> QED BY <3>1, <4>1, SoundFrame DEF Reading
    <3>4. CASE WaitExpires \/ SpuriousWakeup \/ UNCHANGED vars
      BY <3>1, <3>4 DEF WaitExpires, SpuriousWakeup, vars
    <3> QED BY <1>2, <3>1, <3>2, <3>3, <3>4, UsbThreadOwnership,
               ReaderOwnership, ControlOwnership DEF Next
  <2> QED BY <2>1, <2>2
<1> QED BY <1>1, <1>2 DEF IInv

LEMMA OwnershipInit == Init => IInv
<1> SUFFICES ASSUME Init PROVE IInv OBVIOUS
<1>1. b.reorder = {} /\ usb = [i \in Slots |-> 0] /\ state = "CHECK_WORKER"
  BY DEF Init, InitialRing
<1> QED BY <1>1, TypeInit DEF IInv, Sound, Reading

\* No slot's memory is ever given to two USB transfers and the reader never
\* reads memory the device writes: for every ring, every interleaving of the
\* callbacks with the worker, the reader and the fences, and any number of lost,
\* reordered and rejected transfers (rx_callback(), sync_worker_rx_buffer_rejected(),
\* sync_worker_discard_rx_epoch(), sync_rx()).
THEOREM Ownership == Spec => []ExclusiveOwnership
<1>1. Init => IInv BY OwnershipInit
<1>2. IInv /\ [Next]_vars => IInv' BY OwnershipStep
<1>3. IInv => ExclusiveOwnership
  BY DEF IInv, Regular, Sound, ExclusiveOwnership
<1> QED BY <1>1, <1>2, <1>3, PTL DEF Spec

-----------------------------------------------------------------------------
(* Lost samples are reported.                                               *)
(*                                                                          *)
(* OverrunReported is not inductive: a fence withdraws the overrun when no  *)
(* source is left but the FPGA's, so the ring's own source must be known to *)
(* be among them.                                                           *)

\* The ring has an overrun of its own to report.
Alarm(bb) == bb.overrun_pending /\ "SYNC_RX_QUEUE" \in bb.overrun_source_flags

OInv == TypeOK /\ (Reports /\ g.gap => Alarm(b))

\* The fields of the pending report.
SameReport(bb, cc) ==
  /\ cc.overrun_pending = bb.overrun_pending
  /\ cc.overrun_source_flags = bb.overrun_source_flags

LEMMA NoteOverrunAlarm ==
  ASSUME NEW bb \in BufferMgmt
  PROVE  Alarm(NoteOverrun(bb))
BY DEF Alarm, NoteOverrun, BufferMgmt

\* The helpers that leave the report alone.
LEMMA ReportKept ==
  ASSUME NEW bb \in BufferMgmt, NEW i \in Slots, NEW now \in BOOLEAN
  PROVE  /\ SameReport(bb, Flush(bb)) /\ SameReport(bb, RetireExpected(bb))
         /\ SameReport(bb, MarkInFlight(bb, i)) /\ SameReport(bb, SubmitSlot(bb, i))
         /\ SameReport(bb, Hold(bb, i)) /\ SameReport(bb, Ready(bb, i))
         /\ SameReport(bb, Discard(bb)) /\ SameReport(bb, ResetForStart(bb))
         /\ SameReport(bb, SkipDropped(bb)) /\ SameReport(bb, Reanchor(bb))
         /\ SameReport(bb, DropStale(bb, now)) /\ SameReport(bb, AdvanceRx(bb))
<1> USE DEF SameReport
<1>1. \A c \in BufferMgmt : SameReport(c, Flush(c)) BY DEF Flush, BufferMgmt
<1>2. SameReport(bb, RetireExpected(bb))
  <2> DEFINE c == [bb EXCEPT !.expected_seq = Incr(@)]
  <2>1. c \in BufferMgmt BY Wrapped DEF BufferMgmt
  <2>2. SameReport(bb, c) BY DEF BufferMgmt
  <2> HIDE DEF c
  <2> QED BY <1>1, <2>1, <2>2 DEF RetireExpected, c
<1>3. SameReport(bb, MarkInFlight(bb, i)) BY DEF MarkInFlight, BufferMgmt
<1>4. SameReport(bb, SubmitSlot(bb, i)) BY DEF SubmitSlot, MarkInFlight, BufferMgmt
<1>5. SameReport(bb, Hold(bb, i)) /\ SameReport(bb, Ready(bb, i))
  BY DEF Hold, Ready, BufferMgmt
<1>6. SameReport(bb, Discard(bb))
  <2>1. FreeCompleted(bb) \in BufferMgmt BY FreeCompletedType
  <2>2. SameReport(bb, FreeCompleted(bb)) BY DEF FreeCompleted, BufferMgmt
  <2> QED BY <2>1, <2>2 DEF Discard, BufferMgmt
<1>7. SameReport(bb, ResetForStart(bb)) BY DEF ResetForStart, BufferMgmt
<1>8. SameReport(bb, SkipDropped(bb)) BY DEF SkipDropped, BufferMgmt
<1>9. SameReport(bb, Reanchor(bb)) BY DEF Reanchor, BufferMgmt
<1>10. SameReport(bb, DropStale(bb, now)) BY DEF DropStale, BufferMgmt
<1>11. SameReport(bb, AdvanceRx(bb)) BY DEF AdvanceRx, BufferMgmt
<1> QED BY <1>1, <1>2, <1>3, <1>4, <1>5, <1>6, <1>7, <1>8, <1>9, <1>10, <1>11

\* Retiring a sequence withdraws no report.
LEMMA RetireDroppedAlarm ==
  ASSUME NEW bb \in BufferMgmt, NEW s \in Seqs, Alarm(bb)
  PROVE  Alarm(RetireDropped(bb, s))
<1> DEFINE c == [bb EXCEPT !.reorder =
                   @ \cup {[seq |-> s, idx |-> NoSlot, dropped |-> TRUE]}]
<1>1. Alarm(c) BY DEF Alarm, BufferMgmt
<1>2. Alarm(RetireExpected(bb))
  <2>1. PICK i \in Slots : TRUE BY Sizes DEF Slots
  <2>2. SameReport(bb, RetireExpected(bb)) BY ReportKept
  <2> QED BY <2>2 DEF Alarm, SameReport
<1>3. Alarm(NoteOverrun(bb)) BY NoteOverrunAlarm
<1> QED BY <1>1, <1>2, <1>3 DEF RetireDropped

\* A completion is stored without withdrawing a report; one that is forwarded
\* out of order raises it.
LEMMA StoreAlarm ==
  ASSUME NEW bb \in BufferMgmt, NEW i \in Slots
  PROVE  /\ Alarm(bb) => Alarm(StoreCompleted(bb, i))
         /\ bb.buffer_seq[i] # bb.expected_seq /\ ~CanHold(bb, bb.buffer_seq[i])
              => Alarm(StoreCompleted(bb, i))
<1>1. \A c \in BufferMgmt : Ready(c, i) \in BufferMgmt
  BY DEF Ready, BufferMgmt, Status
<1>2. \A c \in BufferMgmt : /\ Alarm(c) => Alarm(Ready(c, i))
                            /\ Alarm(c) => Alarm(RetireExpected(c))
                            /\ Alarm(c) => Alarm(Hold(c, i))
  BY ReportKept DEF Alarm, SameReport
<1>3. Alarm(Ready(NoteOverrun(bb), i)) BY <1>2, NoteOverrunAlarm, NoteOverrunType
<1> QED BY <1>1, <1>2, <1>3 DEF StoreCompleted

LEMMA ReportStep ==
  ASSUME OInv, [Next]_vars
  PROVE  OInv'
<1> USE DEF OInv
<1>t. TypeOK' BY TypeStep
<1>b. b \in BufferMgmt /\ g \in Ghosts BY DEF TypeOK
<1> SUFFICES ASSUME Reports', g'.gap PROVE Alarm(b')
  BY <1>t
<1>r. Reports BY DEF Reports
<1>n. \A new, kinds : Note(new, kinds, FALSE).gap = g.gap
  BY <1>b DEF Note, Ghosts
<1>z. PICK z \in Slots : TRUE BY Sizes DEF Slots
\* A step that keeps both the report and the ghost keeps the invariant.
<1>k. ASSUME SameReport(b, b'), g'.gap = g.gap PROVE Alarm(b')
  BY <1>k, <1>r DEF SameReport, Alarm
<1>1. ASSUME NEW i \in Slots, RxCallbackStore(i) PROVE Alarm(b')
  <2> DEFINE c == [b EXCEPT !.buffer_dropped[i] = FALSE]
             d == StoreCompleted(c, i)
             j == ProducerSlot(c)
             forwarded == /\ c.buffer_seq[i] # c.expected_seq
                          /\ ~CanHold(c, c.buffer_seq[i])
  <2>1. c \in BufferMgmt /\ c.status = b.status BY <1>b DEF BufferMgmt
  <2>2. SameReport(b, c) BY <1>b DEF SameReport, BufferMgmt
  <2>3. d \in BufferMgmt BY <2>1, StoreCompletedType
  <2>4. EmptySlots(c) # {} BY <1>1, <2>1 DEF RxCallbackStore, EmptySlots
  <2>5. j \in Slots BY <2>1, <2>4, ProducerSlotEmpty
  <2>6. b' = SubmitSlot(d, j) BY <1>1 DEF RxCallbackStore
  <2>7. ~forwarded => g'.gap = g.gap BY <1>1, <1>n DEF RxCallbackStore
  <2> HIDE DEF c
  <2>8. ~forwarded => Alarm(c) BY <1>r, <2>2, <2>7 DEF SameReport, Alarm
  <2>9. Alarm(d) BY <2>1, <2>8, StoreAlarm
  <2> HIDE DEF d, j
  <2> QED BY <2>3, <2>5, <2>6, <2>9, ReportKept DEF Alarm, SameReport
<1>2. ASSUME NEW i \in Slots, RxCallbackNoData(i) PROVE Alarm(b')
  BY <1>2, <1>b, <1>k, <1>n DEF RxCallbackNoData, SameReport, BufferMgmt
<1>3. ASSUME NEW i \in Slots, RxCallbackRingFull(i) PROVE Alarm(b')
  <2>1. b.buffer_seq[i] \in Seqs BY <1>b DEF BufferMgmt
  <2>2. MarkInFlight(RetireDropped(b, b.buffer_seq[i]), i) \in BufferMgmt
    BY <1>b, <2>1, RetireDroppedType, SubmitType
  <2> QED BY <1>3, <2>2, NoteOverrunAlarm DEF RxCallbackRingFull
<1>4. ASSUME NEW i \in Slots, NEW quiet \in BOOLEAN, RxBufferRejected(i, quiet)
      PROVE  Alarm(b')
  <2> DEFINE inFlight == b.status[i] = "IN_FLIGHT"
             q == RetireDropped(b, b.buffer_seq[i])
             r == [q EXCEPT !.buffer_dropped[i] = TRUE, !.status[i] = "EMPTY"]
             j == ProducerSlot(r)
  <2>1. b.buffer_seq[i] \in Seqs BY <1>b DEF BufferMgmt
  <2>2. Alarm(b) BY <1>4, <1>n, <1>r DEF RxBufferRejected
  <2>3. q \in BufferMgmt /\ Alarm(q)
    BY <1>b, <2>1, <2>2, RetireDroppedType, RetireDroppedAlarm
  <2>4. b' = IF inFlight THEN SubmitSlot(r, j) ELSE b BY <1>4 DEF RxBufferRejected
  <2> HIDE DEF q
  <2>5. r \in BufferMgmt /\ Alarm(r) /\ EmptySlots(r) # {}
    BY <2>3 DEF BufferMgmt, Status, Alarm, EmptySlots
  <2> HIDE DEF r
  <2>6. j \in Slots BY <2>5, ProducerSlotEmpty
  <2> HIDE DEF j
  <2>7. Alarm(SubmitSlot(r, j)) BY <2>5, <2>6, ReportKept DEF Alarm, SameReport
  <2> QED BY <2>2, <2>4, <2>7
<1>5. ASSUME RxEventCallback PROVE Alarm(b')
  BY <1>5, <1>b, <1>k DEF RxEventCallback, SameReport, BufferMgmt
<1>6. CASE UsbThread BY <1>6, <1>1, <1>2, <1>3, <1>4, <1>5 DEF UsbThread
<1>7. CASE Worker
  <2>1. CASE ExecIdleState
    BY <2>1, <1>b, <1>k, <1>z, ReportKept DEF ExecIdleState, Ghosts
  <2>2. CASE ExecRunningState \/ WorkerBackToIdle
    BY <2>2, <1>k DEF ExecRunningState, WorkerBackToIdle, SameReport
  <2> QED BY <1>7, <2>1, <2>2 DEF Worker
<1>8. CASE ReaderStep
  <2>1. CASE LoopTop \/ CheckWorker \/ StartWorker \/ WorkerStarted
             \/ StartTimedOut \/ TimedOut
    BY <2>1, <1>k DEF LoopTop, CheckWorker, StartWorker, WorkerStarted,
         StartTimedOut, TimedOut, SameReport
  <2>2. CASE ResetBufMgmt
    BY <2>2, <1>b, <1>k DEF ResetBufMgmt, SameReport, BufferMgmt
  <2>3. CASE WaitForBuffer
    <3> DEFINE w == [b EXCEPT !.rx_data_withheld_pending = FALSE]
               s == SkipDropped(w)
               a == Reanchor(s)
               r == DropStale(a, call.now)
    <3>1. w \in BufferMgmt /\ SameReport(b, w)
      BY <1>b DEF BufferMgmt, SameReport
    <3>2. call.now \in BOOLEAN BY DEF TypeOK, Calls
    <3>3. (b' = w \/ b' = r) /\ g'.gap = g.gap BY <2>3, <1>n DEF WaitForBuffer
    <3> HIDE DEF w
    <3>4. s \in BufferMgmt /\ SameReport(w, s)
      BY <1>z, <3>1, <3>2, SkipDroppedType, ReportKept
    <3> HIDE DEF s
    <3>5. a \in BufferMgmt /\ SameReport(s, a)
      BY <1>z, <3>2, <3>4, ReanchorType, ReportKept
    <3> HIDE DEF a
    <3>6. SameReport(a, r) BY <1>z, <3>2, <3>5, ReportKept
    <3> HIDE DEF r
    <3> QED BY <1>k, <3>1, <3>3, <3>4, <3>5, <3>6 DEF SameReport
  <2>4. CASE WakeUp BY <2>4, <1>b, <1>k DEF WakeUp, SameReport, Ghosts
  <2>5. CASE BufferReady
    BY <2>5, <1>b, <1>k DEF BufferReady, SameReport, BufferMgmt, Ghosts
  <2>6. ASSUME NEW n, Consume(n) PROVE SameReport(b, b')
    <3>1. CASE b' = [b EXCEPT !.partial_off = @ + n]
      BY <1>b, <3>1 DEF SameReport, BufferMgmt
    <3>2. CASE b' = AdvanceRx([b EXCEPT !.partial_off = Units])
      BY <1>b, <3>2 DEF SameReport, BufferMgmt, AdvanceRx
    <3> QED BY <2>6, <3>1, <3>2 DEF Consume
  <2>7. CASE UsingBuffer
    BY <2>6, <2>7, <1>k, <1>n DEF UsingBuffer, SameReport
  <2>8. CASE UsingBufferMeta BY <2>6, <2>8, <1>k, <1>n DEF UsingBufferMeta
  <2>9. CASE UsingPacketMeta
    BY <2>9, <1>b, <1>k, <1>n DEF UsingPacketMeta, AdvanceRx, SameReport, BufferMgmt
  \* A read that ends takes the report with it.
  <2>10. CASE Out
    BY <2>10, <1>b, <1>r DEF Out, Alarm, Ghosts
  <2> QED BY <1>8, <2>1, <2>2, <2>3, <2>4, <2>5, <2>7, <2>8, <2>9, <2>10 DEF ReaderStep
<1>9. CASE Control
  \* A fence withdraws the FPGA's share of the report only.
  <2>1. CASE InvalidateEpoch
    <3> DEFINE f == b.overrun_source_flags \ {"FPGA_RX_LOSS"}
               c == [b EXCEPT !.overrun_source_flags = f,
                              !.overrun_pending = @ /\ f # {}]
    <3>1. c \in BufferMgmt BY <1>b DEF BufferMgmt
    <3>2. b' = Discard(c) /\ g'.gap = g.gap
      BY <2>1, <1>n DEF InvalidateEpoch
    <3>3. Alarm(c) BY <3>2, <1>b, <1>r DEF Alarm, BufferMgmt
    <3> HIDE DEF c
    <3>4. SameReport(c, Discard(c)) BY <3>1, <1>z, ReportKept
    <3> QED BY <3>2, <3>3, <3>4 DEF Alarm, SameReport
  <2>2. CASE StageFpgaLoss
    <3>1. Alarm(b) BY <2>2, <1>r DEF StageFpgaLoss
    <3> QED BY <2>2, <3>1, <1>b DEF StageFpgaLoss, Alarm, BufferMgmt
  <2>3. CASE RevokeEpoch \/ PrimeCheck \/ PrimeSubmit
    BY <2>3, <1>k DEF RevokeEpoch, PrimeCheck, PrimeSubmit, SameReport
  <2> QED BY <1>9, <2>1, <2>2, <2>3 DEF Control
\* A metadata read that finds a report pending takes it at once.
<1>10. CASE Application
  <2>1. ~ b.overrun_pending
    BY <1>10, <1>b, <1>r DEF Application, StartRead, Ghosts
  <2>2. g'.gap = g.gap BY <1>10, <2>1 DEF Application, StartRead
  <2> QED BY <1>r, <2>1, <2>2 DEF Alarm
<1>11. CASE WaitExpires \/ SpuriousWakeup \/ UNCHANGED vars
  BY <1>11, <1>k DEF WaitExpires, SpuriousWakeup, vars, SameReport
<1> QED BY <1>6, <1>7, <1>8, <1>9, <1>10, <1>11 DEF Next

\* Samples the ring dropped are reported: from the drop in rx_callback() until a
\* metadata read has told its caller, note_rx_overrun()'s mark stays pending,
\* whatever fence, staged FPGA loss, restart or failing read comes in between.
THEOREM LossReported == Spec => []OverrunReported
<1>1. Init => OInv BY TypeInit DEF Init, OInv
<1>2. OInv /\ [Next]_vars => OInv' BY ReportStep
<1>3. OInv => OverrunReported BY DEF OInv, Alarm, OverrunReported
<1> QED BY <1>1, <1>2, <1>3, PTL DEF Spec

-----------------------------------------------------------------------------
(* No slot is leaked.                                                       *)
(*                                                                          *)
(* Besides the ownership invariant: while a stream runs, an IN_FLIGHT slot  *)
(* that no transfer owns is one of the payloads held in reorder[], and the  *)
(* transport keeps as many slots as it started with.                        *)

Held(bb, i) == \E e \in bb.reorder : ~e.dropped /\ e.idx = i

\* An IN_FLIGHT slot is owned by a transfer or held.
Accounted(bb, u) ==
  \A i \in Slots : bb.status[i] = "IN_FLIGHT" /\ u[i] = 0 => Held(bb, i)

\* The slots transfers own, by the map of owners.
OwnedIn(u) == {i \in Slots : u[i] > 0}

Ordinary == ~Unusual({"stolen", "stranded", "unanchored"})

AInv == IInv /\ (worker = "RUNNING" /\ Ordinary =>
                   Accounted(b, usb) /\ Cardinality(OwnedIn(usb)) = T)

LEMMA AccountedFrame ==
  ASSUME NEW bb, NEW cc, NEW u,
         cc.status = bb.status, cc.reorder = bb.reorder, Accounted(bb, u)
  PROVE  Accounted(cc, u)
BY DEF Accounted, Held

\* A step that puts no slot in flight and forgets nothing held.
LEMMA AccountedShrinks ==
  ASSUME NEW bb, NEW cc, NEW u, Accounted(bb, u), cc.reorder = bb.reorder,
         \A i \in Slots : cc.status[i] = "IN_FLIGHT" => bb.status[i] = "IN_FLIGHT"
  PROVE  Accounted(cc, u)
BY DEF Accounted, Held

\* Released payloads are FULL, the others stay held.
LEMMA FlushAccounted ==
  ASSUME NEW bb \in BufferMgmt, NEW u, Accounted(bb, u)
  PROVE  Accounted(Flush(bb), u)
<1> DEFINE c == Flush(bb)
<1>1. /\ c.status = [i \in Slots |-> IF \E e \in Run(bb) : ~e.dropped /\ e.idx = i
                                     THEN "FULL" ELSE bb.status[i]]
      /\ c.reorder = bb.reorder \ Run(bb)
  BY DEF Flush, BufferMgmt
<1> HIDE DEF c
<1>2. ASSUME NEW i \in Slots, c.status[i] = "IN_FLIGHT", u[i] = 0
      PROVE  Held(c, i)
  <2>1. bb.status[i] = "IN_FLIGHT" /\ ~ \E e \in Run(bb) : ~e.dropped /\ e.idx = i
    BY <1>1, <1>2
  <2>2. PICK e \in bb.reorder : ~e.dropped /\ e.idx = i
    BY <1>2, <2>1 DEF Accounted, Held
  <2> QED BY <1>1, <2>1, <2>2 DEF Held
<1>3. Accounted(c, u) BY <1>2 DEF Accounted
<1> QED BY <1>3 DEF c

LEMMA RetireExpectedAccounted ==
  ASSUME NEW bb \in BufferMgmt, NEW u, Accounted(bb, u)
  PROVE  Accounted(RetireExpected(bb), u)
<1> DEFINE c == [bb EXCEPT !.expected_seq = Incr(@)]
<1>1. c \in BufferMgmt BY Wrapped DEF BufferMgmt
<1>2. c.status = bb.status /\ c.reorder = bb.reorder BY DEF BufferMgmt
<1> HIDE DEF c
<1>3. Accounted(c, u) BY <1>2, AccountedFrame
<1> QED BY <1>1, <1>3, FlushAccounted DEF RetireExpected, c

LEMMA RetireDroppedAccounted ==
  ASSUME NEW bb \in BufferMgmt, NEW u, Accounted(bb, u), NEW s \in Seqs
  PROVE  Accounted(RetireDropped(bb, s), u)
<1> DEFINE c == [bb EXCEPT !.reorder =
                   @ \cup {[seq |-> s, idx |-> NoSlot, dropped |-> TRUE]}]
<1>1. Accounted(c, u)
  <2>1. c.status = bb.status /\ bb.reorder \subseteq c.reorder BY DEF BufferMgmt
  <2> HIDE DEF c
  <2> QED BY <2>1 DEF Accounted, Held
<1>2. Accounted(NoteOverrun(bb), u)
  <2>1. NoteOverrun(bb).status = bb.status /\ NoteOverrun(bb).reorder = bb.reorder
    BY DEF NoteOverrun, BufferMgmt
  <2> QED BY <2>1, AccountedFrame
<1> QED BY <1>1, <1>2, RetireExpectedAccounted DEF RetireDropped

\* The slot given to the transport is owned.
LEMMA SubmitAccounted ==
  ASSUME NEW bb \in BufferMgmt, NEW u \in [Slots -> Nat], Accounted(bb, u),
         NEW j \in Slots
  PROVE  Accounted(SubmitSlot(bb, j), [u EXCEPT ![j] = @ + 1])
<1> DEFINE c == SubmitSlot(bb, j)
           v == [u EXCEPT ![j] = @ + 1]
<1>1. /\ c.reorder = bb.reorder
      /\ \A i \in Slots \ {j} : c.status[i] = bb.status[i]
  BY DEF SubmitSlot, MarkInFlight, BufferMgmt
<1>2. v[j] # 0 /\ \A i \in Slots \ {j} : v[i] = u[i] OBVIOUS
<1> HIDE DEF c, v
<1>3. Accounted(c, v) BY <1>1, <1>2 DEF Accounted, Held
<1> QED BY <1>3 DEF c, v

\* A completed slot is ready or held when its transfer is over.
LEMMA StoreAccounted ==
  ASSUME NEW bb \in BufferMgmt, NEW u \in [Slots -> Nat], Accounted(bb, u),
         NEW i \in Slots, u[i] = 1
  PROVE  Accounted(StoreCompleted(bb, i), [u EXCEPT ![i] = @ - 1])
<1> DEFINE v == [u EXCEPT ![i] = @ - 1]
<1>1. \A k \in Slots \ {i} : v[k] = u[k] OBVIOUS
<1> HIDE DEF v
<1>2. ASSUME NEW cc \in BufferMgmt, cc.status = bb.status, cc.reorder = bb.reorder
      PROVE  Accounted(Ready(cc, i), v) /\ Ready(cc, i) \in BufferMgmt
  <2> DEFINE r == Ready(cc, i)
  <2>1. /\ r.reorder = bb.reorder /\ r.status[i] = "FULL"
        /\ \A k \in Slots \ {i} : r.status[k] = bb.status[k]
        /\ r \in BufferMgmt
    BY <1>2 DEF Ready, BufferMgmt, Status
  <2> HIDE DEF r
  <2>2. Accounted(r, v) BY <1>1, <2>1 DEF Accounted, Held
  <2> QED BY <2>1, <2>2 DEF r
<1>3. Accounted(RetireExpected(Ready(bb, i)), v)
  BY <1>2, RetireExpectedAccounted
<1>4. Accounted(Ready(NoteOverrun(bb), i), v)
  <2>1. NoteOverrun(bb).status = bb.status /\ NoteOverrun(bb).reorder = bb.reorder
    BY DEF NoteOverrun, BufferMgmt
  <2> QED BY <1>2, <2>1, NoteOverrunType
<1>5. Accounted(Hold(bb, i), v)
  <2> DEFINE h == [seq |-> bb.buffer_seq[i], idx |-> i, dropped |-> FALSE]
             c == Hold(bb, i)
  <2>1. c.status = bb.status /\ c.reorder = bb.reorder \cup {h}
    BY DEF Hold, BufferMgmt
  <2>2. h.idx = i /\ ~h.dropped OBVIOUS
  <2> HIDE DEF c, h
  <2>3. Accounted(c, v) BY <1>1, <2>1, <2>2 DEF Accounted, Held
  <2> QED BY <2>3 DEF c
<1> QED BY <1>3, <1>4, <1>5 DEF StoreCompleted, v

\* One slot given back and one taken: the transport keeps its share.
LEMMA Exchange ==
  ASSUME NEW u \in [Slots -> Nat], NEW i \in Slots, u[i] = 1, NEW j \in Slots,
         [u EXCEPT ![i] = @ - 1][j] = 0
  PROVE  Cardinality(OwnedIn([[u EXCEPT ![i] = @ - 1] EXCEPT ![j] = @ + 1]))
           = Cardinality(OwnedIn(u))
<1> DEFINE v == [u EXCEPT ![i] = @ - 1]
           w == [v EXCEPT ![j] = @ + 1]
<1>1. v \in [Slots -> Nat] /\ v[i] = 0 /\ \A k \in Slots \ {i} : v[k] = u[k]
  OBVIOUS
<1>2. OwnedIn(v) = OwnedIn(u) \ {i} BY <1>1 DEF OwnedIn
<1> HIDE DEF v
<1>3. w[j] = 1 /\ \A k \in Slots \ {j} : w[k] = v[k] BY <1>1 DEF v
<1> HIDE DEF w
<1>4. OwnedIn(w) = OwnedIn(v) \cup {j} /\ j \notin OwnedIn(v)
  BY <1>1, <1>3 DEF OwnedIn, v
<1>5. IsFiniteSet(OwnedIn(u)) /\ i \in OwnedIn(u)
  <2>1. IsFiniteSet(Slots) BY Sizes, FS_Interval DEF Slots
  <2> QED BY <2>1, FS_Subset DEF OwnedIn
<1>6. /\ IsFiniteSet(OwnedIn(v))
      /\ Cardinality(OwnedIn(v)) = Cardinality(OwnedIn(u)) - 1
  BY <1>2, <1>5, FS_RemoveElement
<1>7. Cardinality(OwnedIn(w)) = Cardinality(OwnedIn(v)) + 1
  BY <1>4, <1>6, FS_AddElement
<1>8. Cardinality(OwnedIn(u)) \in Nat BY <1>5, FS_CardinalityType
<1>9. Cardinality(OwnedIn(w)) = Cardinality(OwnedIn(u)) BY <1>6, <1>7, <1>8
<1> QED BY <1>9 DEF w, v

LEMMA UsbThreadAccounted ==
  ASSUME TypeOK, Sound(b, usb), UsbThread, Ordinary',
         Accounted(b, usb), Cardinality(OwnedIn(usb)) = T
  PROVE  Accounted(b', usb') /\ Cardinality(OwnedIn(usb')) = T
<1> USE DEF TypeOK
<1>0. ASSUME NEW i \in Slots, usb[i] > 0 PROVE usb[i] = 1 /\ b.status[i] = "IN_FLIGHT"
  BY <1>0 DEF Sound
<1>u. ASSUME NEW i \in Slots, usb[i] = 1
      PROVE  [usb EXCEPT ![i] = @ - 1] \in [Slots -> Nat]
  BY <1>u
<1>1. ASSUME NEW i \in Slots, RxCallbackStore(i)
      PROVE  Accounted(b', usb') /\ Cardinality(OwnedIn(usb')) = T
  <2> DEFINE c == [b EXCEPT !.buffer_dropped[i] = FALSE]
             d == StoreCompleted(c, i)
             j == ProducerSlot(c)
             v == [usb EXCEPT ![i] = @ - 1]
  <2>1. c \in BufferMgmt /\ c.status = b.status /\ c.reorder = b.reorder
    BY DEF BufferMgmt
  <2>2. d \in BufferMgmt BY <2>1, StoreCompletedType
  <2>3. EmptySlots(c) # {} BY <1>1, <2>1 DEF RxCallbackStore, EmptySlots
  <2>4. j \in Slots /\ c.status[j] = "EMPTY"
    BY <2>1, <2>3, ProducerSlotEmpty DEF EmptySlots
  <2>5. usb[i] = 1 BY <1>0, <1>1 DEF RxCallbackStore, Completes, Owned
  <2>6. v \in [Slots -> Nat] BY <1>u, <2>5
  <2>7. b' = SubmitSlot(d, j) /\ usb' = [v EXCEPT ![j] = @ + 1]
    BY <1>1 DEF RxCallbackStore
  <2> HIDE DEF c
  <2>8. Accounted(c, usb) BY <2>1, AccountedFrame
  <2>9. Accounted(d, v) BY <2>1, <2>5, <2>8, StoreAccounted
  <2> HIDE DEF d
  <2>10. v[j] = 0
    <3>1. usb[j] = 0 BY <1>0, <2>1, <2>4
    <3> HIDE DEF j
    <3> QED BY <2>4, <2>5, <3>1
  <2> HIDE DEF j
  <2>11. Cardinality(OwnedIn(usb')) = Cardinality(OwnedIn(usb))
    BY <2>4, <2>5, <2>7, <2>10, Exchange
  <2> HIDE DEF v
  <2>12. Accounted(b', usb') BY <2>2, <2>4, <2>6, <2>7, <2>9, SubmitAccounted
  <2> QED BY <2>11, <2>12
<1>2. ASSUME NEW i \in Slots, RxCallbackNoData(i) PROVE FALSE
  <2>1. g' = Note(b', {"stranded"}, FALSE) BY <1>2 DEF RxCallbackNoData
  <2>2. "stranded" \in g'.past BY <2>1 DEF Note, Ghosts
  <2> QED BY <2>2 DEF Ordinary, Unusual
<1>3. ASSUME NEW i \in Slots, RxCallbackRingFull(i)
      PROVE  Accounted(b', usb') /\ Cardinality(OwnedIn(usb')) = T
  <2> DEFINE q == RetireDropped(b, b.buffer_seq[i])
  <2>1. b.buffer_seq[i] \in Seqs BY DEF BufferMgmt
  <2>2. q \in BufferMgmt BY <2>1, RetireDroppedType
  <2>3. Accounted(q, usb) BY <2>1, RetireDroppedAccounted
  <2>4. usb[i] = 1 BY <1>0, <1>3 DEF RxCallbackRingFull, Completes, Owned
  <2> HIDE DEF q
  <2>5. b' = NoteOverrun(MarkInFlight(q, i)) /\ usb' = usb
    BY <1>3 DEF RxCallbackRingFull, q
  <2>6. /\ b'.reorder = q.reorder
        /\ \A k \in Slots \ {i} : b'.status[k] = q.status[k]
    BY <2>2, <2>5 DEF NoteOverrun, MarkInFlight, BufferMgmt
  <2>7. Accounted(b', usb') BY <2>3, <2>4, <2>5, <2>6 DEF Accounted, Held
  <2> QED BY <2>5, <2>7
<1>4. ASSUME NEW i \in Slots, NEW quiet \in BOOLEAN, RxBufferRejected(i, quiet)
      PROVE  Accounted(b', usb') /\ Cardinality(OwnedIn(usb')) = T
  <2> DEFINE q == RetireDropped(b, b.buffer_seq[i])
             r == [q EXCEPT !.buffer_dropped[i] = TRUE, !.status[i] = "EMPTY"]
             j == ProducerSlot(r)
             v == [usb EXCEPT ![i] = @ - 1]
  <2>1. usb[i] = 1 /\ b.status[i] = "IN_FLIGHT"
    BY <1>0, <1>4 DEF RxBufferRejected, Completes, Owned
  <2>2. b.buffer_seq[i] \in Seqs BY DEF BufferMgmt
  <2>3. q \in BufferMgmt BY <2>2, RetireDroppedType
  <2>4. Accounted(q, usb) /\ Sound(q, usb)
    BY <2>2, RetireDroppedAccounted, RetireDroppedSound
  <2>5. b' = SubmitSlot(r, j) /\ usb' = [v EXCEPT ![j] = @ + 1]
    BY <1>4, <2>1 DEF RxBufferRejected
  <2> HIDE DEF q
  <2>6. r \in BufferMgmt BY <2>3 DEF BufferMgmt, Status
  <2>7. /\ r.reorder = q.reorder /\ r.status[i] = "EMPTY"
        /\ \A k \in Slots \ {i} : r.status[k] = q.status[k]
    BY <2>3 DEF BufferMgmt
  <2> HIDE DEF r
  <2>8. EmptySlots(r) # {} BY <2>7 DEF EmptySlots
  <2>9. j \in Slots /\ r.status[j] = "EMPTY"
    BY <2>6, <2>8, ProducerSlotEmpty DEF EmptySlots
  <2> HIDE DEF j
  <2>10. v \in [Slots -> Nat] /\ v[i] = 0 /\ \A k \in Slots \ {i} : v[k] = usb[k]
    BY <2>1
  <2>11. v[j] = 0
    <3>1. CASE j = i BY <2>10, <3>1
    <3>2. CASE j # i
      <4>1. q.status[j] = "EMPTY" BY <2>7, <2>9, <3>2
      <4>2. usb[j] = 0 BY <2>4, <2>9, <4>1 DEF Sound
      <4> QED BY <2>9, <2>10, <3>2, <4>2
    <3> QED BY <3>1, <3>2
  <2>12. Cardinality(OwnedIn(usb')) = Cardinality(OwnedIn(usb))
    BY <2>1, <2>5, <2>9, <2>11, Exchange
  <2> HIDE DEF v
  <2>13. Accounted(r, v) BY <2>4, <2>7, <2>10 DEF Accounted, Held
  <2>14. Accounted(b', usb') BY <2>5, <2>6, <2>9, <2>10, <2>13, SubmitAccounted
  <2> QED BY <2>12, <2>14
<1>5. ASSUME RxEventCallback
      PROVE  Accounted(b', usb') /\ Cardinality(OwnedIn(usb')) = T
  <2>1. b'.status = b.status /\ b'.reorder = b.reorder /\ usb' = usb
    BY <1>5 DEF RxEventCallback, BufferMgmt
  <2> QED BY <2>1, AccountedFrame
<1> QED BY <1>1, <1>2, <1>3, <1>4, <1>5 DEF UsbThread

\* The first T slots are the transport's, and no other is IN_FLIGHT.
LEMMA StartAccounted ==
  ASSUME TypeOK, ExecIdleState
  PROVE  Accounted(b', usb') /\ Cardinality(OwnedIn(usb')) = T
<1>1. b'.status = [i \in Slots |->
                     IF i < T THEN "IN_FLIGHT"
                     ELSE IF b.status[i] = "IN_FLIGHT" THEN "EMPTY"
                     ELSE b.status[i]]
  BY DEF TypeOK, ExecIdleState, ResetForStart, BufferMgmt
<1>2. usb' = [i \in Slots |-> IF i < T THEN 1 ELSE 0] BY DEF ExecIdleState
<1>3. Accounted(b', usb') BY <1>1, <1>2 DEF Accounted
<1>4. OwnedIn(usb') = 0 .. T-1 BY <1>2, Sizes DEF OwnedIn, Slots
<1>5. Cardinality(0 .. T-1) = T
  <2>1. 0 <= T-1 /\ T-1 \in Int BY Sizes
  <2>2. Cardinality(0 .. T-1) = (T-1) - 0 + 1 BY <2>1, FS_Interval
  <2> QED BY <2>2, Sizes
<1> QED BY <1>3, <1>4, <1>5

LEMMA ReaderAccounted ==
  ASSUME TypeOK, Sound(b, usb), Reading(state, b), ReaderStep, Accounted(b, usb)
  PROVE  Accounted(b', usb') /\ usb' = usb
<1> USE DEF TypeOK
<1>1. CASE LoopTop \/ StartWorker \/ StartTimedOut \/ CheckWorker
           \/ WorkerStarted \/ TimedOut \/ WakeUp
  BY <1>1 DEF LoopTop, StartWorker, StartTimedOut, CheckWorker, WorkerStarted,
       TimedOut, WakeUp
<1>2. CASE ResetBufMgmt \/ Out
  <2>1. b'.status = b.status /\ b'.reorder = b.reorder /\ usb' = usb
    BY <1>2 DEF ResetBufMgmt, Out, ClearOverrun, BufferMgmt
  <2> QED BY <2>1, AccountedFrame
<1>3. CASE WaitForBuffer
  <2> DEFINE w == [b EXCEPT !.rx_data_withheld_pending = FALSE]
             k == SkipDropped(w)
             a == Reanchor(k)
             r == DropStale(a, call.now)
  <2>1. w \in BufferMgmt /\ w.status = b.status /\ w.reorder = b.reorder
    BY DEF BufferMgmt
  <2>2. usb' = usb /\ (b' = w \/ b' = r) BY <1>3 DEF WaitForBuffer
  <2> HIDE DEF w
  <2>3. k \in BufferMgmt /\ k.status = b.status /\ k.reorder = b.reorder
    BY <2>1, SkipDroppedType, SearchFrame
  <2> HIDE DEF k
  <2>4. a \in BufferMgmt /\ a.status = b.status /\ a.reorder = b.reorder
    BY <2>3, ReanchorType, SearchFrame
  <2> HIDE DEF a
  <2>5. /\ r.reorder = a.reorder
        /\ \A i \in Slots : r.status[i] = "IN_FLIGHT" => a.status[i] = "IN_FLIGHT"
    BY <2>4 DEF DropStale, BufferMgmt
  <2> HIDE DEF r
  <2>6. Accounted(w, usb) BY <2>1, AccountedFrame
  <2>7. Accounted(r, usb) BY <2>4, <2>5, AccountedShrinks
  <2> QED BY <2>2, <2>6, <2>7
<1>4. CASE BufferReady
  <2>1. /\ b'.reorder = b.reorder /\ usb' = usb
        /\ b'.status = [b.status EXCEPT ![b.cons_i] = "PARTIAL"]
    BY <1>4 DEF BufferReady, BufferMgmt
  <2>2. b.status \in [Slots -> Status] BY DEF BufferMgmt
  <2> QED BY <2>1, <2>2, AccountedShrinks
<1>5. ASSUME NEW c \in BufferMgmt, c.status = b.status, c.reorder = b.reorder
      PROVE  Accounted(AdvanceRx(c), usb)
  <2>1. /\ AdvanceRx(c).reorder = b.reorder
        /\ \A i \in Slots : AdvanceRx(c).status[i] = "IN_FLIGHT" =>
                              b.status[i] = "IN_FLIGHT"
    BY <1>5 DEF AdvanceRx, BufferMgmt
  <2> QED BY <2>1, AccountedShrinks
<1>6. ASSUME NEW n, Consume(n), usb' = usb
      PROVE  Accounted(b', usb')
  <2>1. CASE b' = [b EXCEPT !.partial_off = @ + n]
    <3>1. b'.status = b.status /\ b'.reorder = b.reorder
      BY <2>1 DEF BufferMgmt
    <3> QED BY <1>6, <3>1, AccountedFrame
  <2>2. CASE b' = AdvanceRx([b EXCEPT !.partial_off = Units])
    <3>1. Units \in 0 .. Units BY Sizes
    <3>2. [b EXCEPT !.partial_off = Units] \in BufferMgmt BY <3>1 DEF BufferMgmt
    <3>3. /\ [b EXCEPT !.partial_off = Units].status = b.status
          /\ [b EXCEPT !.partial_off = Units].reorder = b.reorder
      BY DEF BufferMgmt
    <3> QED BY <1>5, <1>6, <2>2, <3>2, <3>3
  <2> QED BY <1>6, <2>1, <2>2 DEF Consume
<1>7. CASE UsingBuffer \/ UsingBufferMeta
  BY <1>6, <1>7 DEF UsingBuffer, UsingBufferMeta
<1>8. CASE UsingPacketMeta BY <1>5, <1>8 DEF UsingPacketMeta
<1> QED BY <1>1, <1>2, <1>3, <1>4, <1>7, <1>8 DEF ReaderStep

\* A fence frees the payloads it forgets.
LEMMA ControlAccounted ==
  ASSUME TypeOK, Control, Accounted(b, usb), Ordinary'
  PROVE  Accounted(b', usb') /\ usb' = usb
<1> USE DEF TypeOK
<1>1. CASE InvalidateEpoch
  <2> DEFINE f == b.overrun_source_flags \ {"FPGA_RX_LOSS"}
             c == [b EXCEPT !.overrun_source_flags = f,
                            !.overrun_pending = @ /\ f # {}]
             d == FreeCompleted(c)
  <2>1. c \in BufferMgmt /\ c.status = b.status /\ c.reorder = b.reorder
    BY DEF BufferMgmt
  <2>2. b' = Discard(c) /\ usb' = usb BY <1>1 DEF InvalidateEpoch
  <2> HIDE DEF c
  <2>3. d \in BufferMgmt BY <2>1, FreeCompletedType
  <2>4. d.status = [i \in Slots |->
                      IF i \in {k \in HeldSlots(c) : c.status[k] = "IN_FLIGHT"}
                            \cup {k \in Slots : c.status[k] \in {"FULL", "PARTIAL"}}
                      THEN "EMPTY" ELSE c.status[i]]
    BY <2>1 DEF FreeCompleted, BufferMgmt
  <2> HIDE DEF d
  <2>5. b'.status = d.status BY <2>2, <2>3 DEF Discard, d, BufferMgmt
  \* Whatever is still IN_FLIGHT was not held, so a transfer owns it.
  <2>6. ASSUME NEW i \in Slots, b'.status[i] = "IN_FLIGHT" PROVE usb[i] # 0
    <3>1. c.status[i] = "IN_FLIGHT" /\ i \notin HeldSlots(c) BY <2>4, <2>5, <2>6
    <3>2. ~Held(b, i) BY <2>1, <3>1 DEF Held, HeldSlots
    <3> QED BY <2>1, <3>1, <3>2 DEF Accounted
  <2> QED BY <2>2, <2>6 DEF Accounted
<1>2. CASE StageFpgaLoss
  <2>1. b'.status = b.status /\ b'.reorder = b.reorder /\ usb' = usb
    BY <1>2 DEF StageFpgaLoss, BufferMgmt
  <2> QED BY <2>1, AccountedFrame
<1>3. CASE RevokeEpoch \/ PrimeCheck \/ PrimeSubmit
  BY <1>3 DEF RevokeEpoch, PrimeCheck, PrimeSubmit
<1> QED BY <1>1, <1>2, <1>3 DEF Control

LEMMA AccountStep ==
  ASSUME AInv, [Next]_vars
  PROVE  AInv'
<1> USE DEF AInv
<1>1. IInv' BY OwnershipStep
<1>2. ASSUME (worker = "RUNNING")', Ordinary'
      PROVE  Accounted(b', usb') /\ Cardinality(OwnedIn(usb')) = T
  <2>1. TypeOK BY DEF IInv
  <2>2. CASE ExecIdleState BY <2>1, <2>2, StartAccounted
  <2>3. CASE ~ExecIdleState
    <3>1. Ordinary
      BY <1>2, <2>1, <2>3, PastGrows DEF Ordinary, Unusual
    <3>2. CASE ExecRunningState BY <1>2, <3>2 DEF ExecRunningState
    <3>3. CASE WorkerBackToIdle BY <1>2, <3>3 DEF WorkerBackToIdle
    <3>4. CASE UsbThread
      <4>1. worker = "RUNNING"
        BY <3>4 DEF UsbThread, RxCallbackStore, RxCallbackNoData,
             RxCallbackRingFull, RxBufferRejected, RxEventCallback, Completes
      <4> QED BY <1>2, <2>1, <3>1, <3>4, <4>1, UsbThreadAccounted
              DEF IInv, Ordinary, Regular, Unusual
    <3>5. CASE ReaderStep
      <4>1. worker' = worker
        BY <3>5 DEF ReaderStep, LoopTop, CheckWorker, ResetBufMgmt, StartWorker,
             WorkerStarted, StartTimedOut, WaitForBuffer, WakeUp, TimedOut,
             BufferReady, UsingBuffer, UsingBufferMeta, UsingPacketMeta, Out
      <4> QED BY <1>2, <2>1, <3>1, <3>5, <4>1, ReaderAccounted
              DEF IInv, Ordinary, Regular, Unusual
    <3>6. CASE Control
      <4>1. worker' = worker
        BY <3>6 DEF Control, RevokeEpoch, InvalidateEpoch, StageFpgaLoss,
             PrimeCheck, PrimeSubmit
      <4> QED BY <1>2, <2>1, <3>1, <3>6, <4>1, ControlAccounted
    <3>7. CASE Application
      <4>1. /\ b'.status = b.status /\ b'.reorder = b.reorder /\ usb' = usb
            /\ worker' = worker
        BY <2>1, <3>7 DEF Application, StartRead, ClearOverrun, TypeOK, BufferMgmt
      <4> QED BY <1>2, <3>1, <4>1, AccountedFrame
    <3>8. CASE WaitExpires \/ SpuriousWakeup \/ UNCHANGED vars
      BY <1>2, <3>1, <3>8 DEF WaitExpires, SpuriousWakeup, vars
    <3> QED BY <2>3, <3>2, <3>3, <3>4, <3>5, <3>6, <3>7, <3>8 DEF Next, Worker
  <2> QED BY <2>2, <2>3
<1> QED BY <1>1, <1>2

\* The ring leaks no slot: while a stream runs, a slot marked IN_FLIGHT is owned
\* by one of exactly num_xfers USB transfers or waits in reorder[], after any mix
\* of rejections, overruns, overtaking completions and fences (rx_callback(),
\* sync_worker_rx_buffer_rejected(), sync_worker_discard_rx_epoch()).
THEOREM NoSlotLeaks == Spec => []EverySlotAccounted
<1>1. Init => AInv BY OwnershipInit DEF Init, AInv
<1>2. AInv /\ [Next]_vars => AInv' BY AccountStep
<1>3. AInv => EverySlotAccounted
  <2> SUFFICES ASSUME AInv, worker = "RUNNING", Ordinary
               PROVE  /\ {i \in Slots : b.status[i] = "IN_FLIGHT"}
                            = Owned \cup HeldSlots(b)
                      /\ Owned \cap HeldSlots(b) = {}
                      /\ Cardinality(Owned) = T
    BY DEF EverySlotAccounted, Ordinary
  <2>1. TypeOK /\ Sound(b, usb) BY DEF AInv, IInv, Ordinary, Regular, Unusual
  <2>2. Accounted(b, usb) /\ Cardinality(OwnedIn(usb)) = T BY DEF AInv
  <2>3. Owned = OwnedIn(usb) BY DEF Owned, OwnedIn
  <2>4. usb \in [Slots -> Nat] BY <2>1 DEF TypeOK
  <2>5. \A i \in HeldSlots(b) : i \in Slots /\ b.status[i] = "IN_FLIGHT" /\ usb[i] = 0
    BY <2>1 DEF Sound, HeldSlots
  <2>6. \A i \in Owned : i \in Slots /\ b.status[i] = "IN_FLIGHT"
    BY <2>1, <2>4 DEF Sound, Owned
  <2>7. \A i \in Slots : b.status[i] = "IN_FLIGHT" => i \in Owned \/ i \in HeldSlots(b)
    BY <2>2, <2>4 DEF Accounted, Held, HeldSlots, Owned
  <2>8. Owned \cap HeldSlots(b) = {} BY <2>5 DEF Owned
  <2> QED BY <2>2, <2>3, <2>5, <2>6, <2>7, <2>8
<1> QED BY <1>1, <1>2, <1>3, PTL DEF Spec

-----------------------------------------------------------------------------
(* Sequence numbers on the circle.                                          *)

LEMMA SeqSizes ==
  /\ SeqMod \in Nat \ {0} /\ SeqMod > 2 * N /\ SeqMod > N + MaxReorder
  /\ MaxReorder \in Nat \ {0} /\ N \in Nat \ {0} /\ T \in Nat /\ 0 < T /\ T < N
BY RingAssumption DEF RingAssumption

\* Remainders next to their range.
LEMMA ModNear ==
  ASSUME NEW n \in Nat \ {0}, NEW a \in Int
  PROVE  /\ a \in 0 .. n-1 => a % n = a
         /\ a \in n .. 2*n-1 => a % n = a - n
         /\ a \in -n .. -1 => a % n = a + n
<1>1. a \in 0 .. n-1 => a % n = a OBVIOUS
<1>2. a \in n .. 2*n-1 => a % n = a - n OBVIOUS
<1>3. a \in -n .. -1 => a % n = a + n OBVIOUS
<1> QED BY <1>1, <1>2, <1>3

\* How far s is ahead of t.
LEMMA DistValue ==
  ASSUME NEW s \in Seqs, NEW t \in Seqs
  PROVE  /\ Dist(s, t) = IF s >= t THEN s - t ELSE s - t + SeqMod
         /\ Dist(s, t) \in 0 .. SeqMod-1
         /\ Dist(s, t) = 0 <=> s = t
<1>1. s \in Int /\ t \in Int /\ s >= 0 /\ s < SeqMod /\ t >= 0 /\ t < SeqMod
  BY SeqSizes DEF Seqs
<1>2. PICK a \in Int : a = s - t BY <1>1
<1>3. /\ a \in 0 .. SeqMod-1 => a % SeqMod = a
      /\ a \in -SeqMod .. -1 => a % SeqMod = a + SeqMod
  BY SeqSizes, ModNear
<1>4. s >= t => a \in 0 .. SeqMod-1 BY <1>1, <1>2, SeqSizes
<1>5. ~(s >= t) => a \in -SeqMod .. -1 BY <1>1, <1>2, SeqSizes
<1>6. Dist(s, t) = a % SeqMod BY <1>2 DEF Dist
<1>7. Dist(s, t) = IF s >= t THEN s - t ELSE s - t + SeqMod
  BY <1>2, <1>3, <1>4, <1>5, <1>6
<1> QED BY <1>1, <1>7, SeqSizes

\* The number k steps ahead of t.
LEMMA StepsValue ==
  ASSUME NEW t \in Seqs, NEW k \in 0 .. SeqMod-1
  PROVE  /\ (t + k) % SeqMod = IF t + k < SeqMod THEN t + k ELSE t + k - SeqMod
         /\ (t + k) % SeqMod \in Seqs
         /\ Dist((t + k) % SeqMod, t) = k
<1>1. t \in Int /\ t >= 0 /\ t < SeqMod /\ k \in Int /\ k >= 0 /\ k < SeqMod
  BY SeqSizes DEF Seqs
<1>a. PICK a \in Int : a = t + k BY <1>1
<1>b. /\ a \in 0 .. SeqMod-1 => a % SeqMod = a
      /\ a \in SeqMod .. 2*SeqMod-1 => a % SeqMod = a - SeqMod
  BY SeqSizes, ModNear
<1>c. a < SeqMod => a \in 0 .. SeqMod-1 BY <1>1, <1>a, SeqSizes
<1>d. ~(a < SeqMod) => a \in SeqMod .. 2*SeqMod-1 BY <1>1, <1>a, SeqSizes
<1>2. t + k < SeqMod => (t + k) % SeqMod = t + k BY <1>a, <1>b, <1>c
<1>3. ~(t + k < SeqMod) => (t + k) % SeqMod = t + k - SeqMod
  <2>1. ~(a < SeqMod) => a % SeqMod = a - SeqMod BY <1>b, <1>d
  <2>2. a - SeqMod = t + k - SeqMod BY <1>1, <1>a, SeqSizes
  <2>3. a % SeqMod = (t + k) % SeqMod /\ (a < SeqMod <=> t + k < SeqMod) BY <1>a
  <2> QED BY ONLY <2>1, <2>2, <2>3, Zenon
<1>4. (t + k) % SeqMod \in Seqs BY <1>1, <1>2, <1>3, SeqSizes DEF Seqs
<1>5. PICK p \in Seqs : p = (t + k) % SeqMod BY <1>4
<1>6. Dist(p, t) = k BY <1>1, <1>2, <1>3, <1>5, DistValue, SeqSizes
<1> QED BY <1>2, <1>3, <1>4, <1>5, <1>6

\* A number is given by its distance.
LEMMA DistDetermines ==
  ASSUME NEW s \in Seqs, NEW t \in Seqs
  PROVE  /\ (t + Dist(s, t)) % SeqMod = s
         /\ \A r \in Seqs : Dist(r, t) = Dist(s, t) => r = s
<1>1. s \in Int /\ t \in Int /\ s >= 0 /\ s < SeqMod /\ t >= 0 /\ t < SeqMod
  BY SeqSizes DEF Seqs
<1>2. PICK k : k = Dist(s, t) OBVIOUS
<1>3. /\ k = IF s >= t THEN s - t ELSE s - t + SeqMod
      /\ k \in 0 .. SeqMod-1
  BY <1>2, DistValue
<1>4. (t + k) % SeqMod = IF t + k < SeqMod THEN t + k ELSE t + k - SeqMod
  BY <1>3, StepsValue
<1>5. (t + k) % SeqMod = s BY <1>1, <1>3, <1>4, SeqSizes
<1>6. ASSUME NEW r \in Seqs, Dist(r, t) = Dist(s, t) PROVE r = s
  <2>1. r \in Int /\ r >= 0 /\ r < SeqMod BY SeqSizes DEF Seqs
  <2>2. Dist(r, t) = IF r >= t THEN r - t ELSE r - t + SeqMod BY DistValue
  <2> QED BY <1>1, <1>2, <1>3, <1>6, <2>1, <2>2, SeqSizes
<1> QED BY <1>2, <1>5, <1>6

\* Moving the origin k steps ahead shortens every longer distance by k.
LEMMA DistShift ==
  ASSUME NEW s \in Seqs, NEW t \in Seqs, NEW k \in 0 .. SeqMod-1,
         k <= Dist(s, t)
  PROVE  Dist(s, (t + k) % SeqMod) = Dist(s, t) - k
<1>1. /\ s \in Int /\ t \in Int /\ s >= 0 /\ s < SeqMod /\ t >= 0 /\ t < SeqMod
      /\ k \in Int /\ k >= 0 /\ k < SeqMod
  BY SeqSizes DEF Seqs
<1>2. PICK p \in Seqs : p = (t + k) % SeqMod BY StepsValue
<1>3. p = IF t + k < SeqMod THEN t + k ELSE t + k - SeqMod BY <1>2, StepsValue
<1>4. Dist(s, t) = IF s >= t THEN s - t ELSE s - t + SeqMod BY DistValue
<1>5. Dist(s, p) = IF s >= p THEN s - p ELSE s - p + SeqMod BY DistValue
<1>6. p \in Int BY SeqSizes DEF Seqs
<1>7. CASE s >= t BY <1>1, <1>3, <1>4, <1>5, <1>6, <1>7, SeqSizes
<1>8. CASE ~(s >= t) BY <1>1, <1>3, <1>4, <1>5, <1>6, <1>8, SeqSizes
<1> QED BY <1>2, <1>7, <1>8

\* ... and lengthens the shorter ones.
LEMMA DistShiftPast ==
  ASSUME NEW s \in Seqs, NEW t \in Seqs, NEW k \in 0 .. SeqMod-1,
         k > Dist(s, t)
  PROVE  Dist(s, (t + k) % SeqMod) = Dist(s, t) - k + SeqMod
<1>1. /\ s \in Int /\ t \in Int /\ s >= 0 /\ s < SeqMod /\ t >= 0 /\ t < SeqMod
      /\ k \in Int /\ k >= 0 /\ k < SeqMod
  BY SeqSizes DEF Seqs
<1>2. PICK p \in Seqs : p = (t + k) % SeqMod BY StepsValue
<1>3. p = IF t + k < SeqMod THEN t + k ELSE t + k - SeqMod BY <1>2, StepsValue
<1>4. Dist(s, t) = IF s >= t THEN s - t ELSE s - t + SeqMod BY DistValue
<1>5. Dist(s, p) = IF s >= p THEN s - p ELSE s - p + SeqMod BY DistValue
<1>6. p \in Int BY SeqSizes DEF Seqs
<1>7. CASE s >= t BY <1>1, <1>3, <1>4, <1>5, <1>6, <1>7, SeqSizes
<1>8. CASE ~(s >= t) BY <1>1, <1>3, <1>4, <1>5, <1>6, <1>8, SeqSizes
<1> QED BY <1>2, <1>7, <1>8

\* The next number is one step further, unless it comes round.
LEMMA DistIncr ==
  ASSUME NEW s \in Seqs, NEW t \in Seqs, Dist(s, t) < SeqMod - 1
  PROVE  Dist(Incr(s), t) = Dist(s, t) + 1
<1>1. s \in Int /\ t \in Int /\ s >= 0 /\ s < SeqMod /\ t >= 0 /\ t < SeqMod
  BY SeqSizes DEF Seqs
<1>2. PICK p \in Seqs : p = Incr(s) BY Wrapped
<1>3. p = IF s + 1 < SeqMod THEN s + 1 ELSE s + 1 - SeqMod
  <2>1. 1 \in 0 .. SeqMod-1 BY SeqSizes
  <2>2. (s + 1) % SeqMod = IF s + 1 < SeqMod THEN s + 1 ELSE s + 1 - SeqMod
    BY <2>1, StepsValue
  <2> QED BY <1>2, <2>2 DEF Incr
<1>4. Dist(s, t) = IF s >= t THEN s - t ELSE s - t + SeqMod BY DistValue
<1>5. Dist(p, t) = IF p >= t THEN p - t ELSE p - t + SeqMod BY DistValue
<1>6. Dist(p, t) = Dist(s, t) + 1
  <2>1. CASE s >= t BY <1>1, <1>3, <1>4, <1>5, <2>1, SeqSizes
  <2>2. CASE ~(s >= t) BY <1>1, <1>3, <1>4, <1>5, <2>2, SeqSizes
  <2> QED BY <2>1, <2>2
<1> QED BY <1>2, <1>6

-----------------------------------------------------------------------------
(* No sequence hole.                                                        *)
(*                                                                          *)
(* The sequence numbers from expected_seq up to next_seq are exactly the    *)
(* ones a transfer carries or reorder[] has an entry for, each of them      *)
(* once; expected_seq itself is never held.  The transport always has a     *)
(* transfer, so the window is not empty and expected_seq is carried.        *)

SeqsOf(bb, u) == {bb.buffer_seq[i] : i \in OwnedIn(u)}

\* S: the sequence numbers carried by transfers.
Window(bb, S) ==
  /\ S \cap HeldSeqs(bb) = {}
  /\ \A s \in Seqs : s \in S \cup HeldSeqs(bb) <=>
       Dist(s, bb.expected_seq) < Dist(bb.next_seq, bb.expected_seq)

Distinct(bb, u) ==
  \A i, j \in OwnedIn(u) : bb.buffer_seq[i] = bb.buffer_seq[j] => i = j

Drained(bb) == bb.expected_seq \notin HeldSeqs(bb)

\* reorder[] has SYNC_RX_MAX_REORDER entries.
Small(bb) == IsFiniteSet(bb.reorder) /\ Cardinality(bb.reorder) <= MaxReorder

NoHole(bb, u) ==
  Window(bb, SeqsOf(bb, u)) /\ Distinct(bb, u) /\ Drained(bb) /\ Small(bb)

Steady == ~Unusual({"stolen", "stranded", "forwarded", "untracked", "forgotten"})

HInv == AInv /\ (worker = "RUNNING" /\ Steady =>
                   "unanchored" \notin g.past /\ NoHole(b, usb))

LEMMA HeldTypes ==
  ASSUME NEW bb \in BufferMgmt
  PROVE  /\ HeldSeqs(bb) \in SUBSET Seqs
         /\ bb.expected_seq \in Seqs /\ bb.next_seq \in Seqs
         /\ bb.buffer_seq \in [Slots -> Seqs]
         /\ \A u : SeqsOf(bb, u) \in SUBSET Seqs
BY DEF HeldSeqs, BufferMgmt, Entries, SeqsOf, OwnedIn

\* The window only looks at these fields.
LEMMA WindowFrame ==
  ASSUME NEW bb, NEW cc, NEW S, Window(bb, S), cc.reorder = bb.reorder,
         cc.expected_seq = bb.expected_seq, cc.next_seq = bb.next_seq
  PROVE  Window(cc, S) /\ (Drained(bb) => Drained(cc)) /\ (Small(bb) => Small(cc))
BY DEF Window, HeldSeqs, Drained, Small

\* k numbers from t on.
LEMMA Stretch ==
  ASSUME NEW t \in Seqs, NEW k \in 0 .. SeqMod-1
  PROVE  LET R == {s \in Seqs : Dist(s, t) < k}
         IN  IsFiniteSet(R) /\ Cardinality(R) = k
<1> DEFINE R == {s \in Seqs : Dist(s, t) < k}
           f == [i \in 0 .. k-1 |-> (t + i) % SeqMod]
<1>0. k \in Nat /\ k < SeqMod BY SeqSizes
<1>1. \A i \in 0 .. k-1 : i \in 0 .. SeqMod-1 BY <1>0, SeqSizes
<1>2. \A i \in 0 .. k-1 : f[i] \in Seqs /\ Dist(f[i], t) = i
  BY <1>1, StepsValue
<1>3. f \in [0 .. k-1 -> R] BY <1>0, <1>2
<1>4. \A i, j \in 0 .. k-1 : f[i] = f[j] => i = j BY <1>2
<1>5. \A s \in R : \E i \in 0 .. k-1 : f[i] = s
  <2> TAKE s \in R
  <2>1. Dist(s, t) \in 0 .. k-1 BY <1>0, DistValue
  <2>2. f[Dist(s, t)] = s BY <2>1, DistDetermines
  <2> QED BY <2>1, <2>2
<1> HIDE DEF f, R
<1>6. f \in Bijection(0 .. k-1, R)
  <2>1. f \in Injection(0 .. k-1, R) BY <1>3, <1>4 DEF Injection, IsInjective
  <2>2. f \in Surjection(0 .. k-1, R) BY <1>3, <1>5 DEF Surjection
  <2> QED BY <2>1, <2>2 DEF Bijection
<1>7. IsFiniteSet(0 .. k-1) /\ Cardinality(0 .. k-1) = k
  <2>1. k-1 \in Int /\ 0 \in Int BY <1>0
  <2>2. /\ IsFiniteSet(0 .. k-1)
        /\ Cardinality(0 .. k-1) = IF 0 > k-1 THEN 0 ELSE (k-1)-0+1
    BY <2>1, FS_Interval
  <2> QED BY <1>0, <2>2
<1>8. ExistsBijection(0 .. k-1, R) BY <1>6 DEF ExistsBijection
<1>9. IsFiniteSet(R) /\ Cardinality(R) = k BY <1>7, <1>8, FS_Bijection
<1> QED BY <1>9 DEF R

\* The window is shorter than the circle.
LEMMA WindowSize ==
  ASSUME NEW bb \in BufferMgmt, NEW S \in SUBSET Seqs, Window(bb, S), Small(bb),
         IsFiniteSet(S), Cardinality(S) <= T
  PROVE  Dist(bb.next_seq, bb.expected_seq) < SeqMod - 1
<1> DEFINE H == HeldSeqs(bb)
           n == Dist(bb.next_seq, bb.expected_seq)
           R == {s \in Seqs : Dist(s, bb.expected_seq) < n}
<1>1. bb.next_seq \in Seqs /\ bb.expected_seq \in Seqs /\ H \in SUBSET Seqs
  BY HeldTypes
<1>2. n \in 0 .. SeqMod-1 BY <1>1, DistValue
<1>3. R = S \cup H BY <1>1 DEF Window
<1>4. IsFiniteSet(R) /\ Cardinality(R) = n
  <2> HIDE DEF n
  <2> QED BY <1>1, <1>2, Stretch
<1>5. IsFiniteSet(H) /\ Cardinality(H) <= MaxReorder /\ Cardinality(H) \in Nat
  <2> DEFINE f == [e \in bb.reorder |-> e.seq]
  <2>1. f \in Surjection(bb.reorder, H) BY DEF Surjection, HeldSeqs
  <2>2. IsFiniteSet(H) /\ Cardinality(H) <= Cardinality(bb.reorder)
    BY <2>1, FS_Surjection DEF Small
  <2>3. Cardinality(H) \in Nat /\ Cardinality(bb.reorder) \in Nat
    BY <2>2, FS_CardinalityType DEF Small
  <2> QED BY <2>2, <2>3, SeqSizes DEF Small
<1>6. Cardinality(S \cup H) = Cardinality(S) + Cardinality(H) - Cardinality(S \cap H)
  BY <1>5, FS_Union
<1>7. Cardinality(S) \in Nat /\ Cardinality(S \cap H) \in Nat
  <2>1. IsFiniteSet(S \cap H) BY FS_Subset
  <2> QED BY <2>1, FS_CardinalityType
<1> HIDE DEF n, H, R
<1>8. n <= T + MaxReorder BY <1>2, <1>3, <1>4, <1>5, <1>6, <1>7, SeqSizes
<1>9. n < SeqMod - 1 BY <1>2, <1>8, SeqSizes
<1> QED BY <1>9 DEF n

\* flush_reorder_entries() stops at the first number that is not held.
LEMMA FlushRun ==
  ASSUME NEW bb \in BufferMgmt, NEW t \in Seqs, t \notin HeldSeqs(bb)
  PROVE  \E m \in Nat :
           /\ m <= Dist(t, bb.expected_seq) /\ m < SeqMod
           /\ Flush(bb).expected_seq = (bb.expected_seq + m) % SeqMod
           /\ (bb.expected_seq + m) % SeqMod \notin HeldSeqs(bb)
           /\ \A s \in Seqs : Dist(s, bb.expected_seq) < m => s \in HeldSeqs(bb)
           /\ \A e \in bb.reorder : e \in Run(bb) <=> Dist(e.seq, bb.expected_seq) < m
<1> DEFINE H == HeldSeqs(bb)
           x == bb.expected_seq
           n == Dist(t, x)
           K == {k \in 0 .. SeqMod-1 : (x + k) % SeqMod \notin H}
<1>1. x \in Seqs /\ H \in SUBSET Seqs BY HeldTypes
<1>2. n \in 0 .. SeqMod-1 BY <1>1, DistValue
<1>3. n \in K
  <2>1. (x + n) % SeqMod = t BY <1>1, DistDetermines
  <2> QED BY <1>2, <2>1
<1>4. PICK m \in K : \A k \in K : m <= k
  <2>1. K \in SUBSET Nat /\ K # {} BY <1>3, SeqSizes
  <2> HIDE DEF K
  <2> QED BY <2>1, LeastNatural
<1>5. m \in 0 .. SeqMod-1 /\ m \in Nat /\ m <= n /\ (x + m) % SeqMod \notin H
  BY <1>3, <1>4, SeqSizes
<1>6. \A k \in 0 .. m-1 : (x + k) % SeqMod \in H
  <2> TAKE k \in 0 .. m-1
  <2>1. k \in 0 .. SeqMod-1 /\ ~(m <= k) BY <1>5, SeqSizes
  <2> QED BY <1>4, <2>1
<1> DEFINE R == {s \in Seqs : Dist(s, x) < m}
<1>7. R \subseteq H
  <2> SUFFICES ASSUME NEW s \in R PROVE s \in H OBVIOUS
  <2>1. Dist(s, x) \in 0 .. m-1 BY <1>1, <1>5, DistValue
  <2>2. (x + Dist(s, x)) % SeqMod = s BY <1>1, DistDetermines
  <2> QED BY <1>6, <2>1, <2>2
<1>8. \A e \in bb.reorder : e.seq \in H /\ (e \in Run(bb) <=> Dist(e.seq, x) < m)
  <2> TAKE e \in bb.reorder
  <2>1. e.seq \in H BY DEF HeldSeqs
  <2>2. Dist(e.seq, x) \in Nat BY <1>1, <2>1, DistValue
  <2>3. e \in Run(bb) <=> \A k \in 0 .. Dist(e.seq, x) : (x + k) % SeqMod \in H
    BY DEF Run
  <2>4. CASE Dist(e.seq, x) < m
    <3>1. 0 .. Dist(e.seq, x) \subseteq 0 .. m-1 BY <1>5, <2>2, <2>4
    <3> QED BY <1>6, <2>1, <2>3, <2>4, <3>1
  <2>5. CASE ~(Dist(e.seq, x) < m)
    <3>1. m \in 0 .. Dist(e.seq, x) BY <1>5, <2>2, <2>5
    <3> QED BY <1>5, <2>1, <2>3, <2>5, <3>1
  <2> QED BY <2>4, <2>5
<1>9. {e.seq : e \in Run(bb)} = R
  <2>1. Run(bb) \subseteq bb.reorder BY DEF Run
  <2>2. \A e \in Run(bb) : e.seq \in R BY <1>1, <1>8, <2>1
  <2>3. \A s \in R : \E e \in Run(bb) : s = e.seq
    <3> TAKE s \in R
    <3>1. PICK e \in bb.reorder : e.seq = s BY <1>7 DEF HeldSeqs
    <3> QED BY <1>8, <3>1
  <2> HIDE DEF R
  <2> QED BY <2>2, <2>3
<1>10. Cardinality({e.seq : e \in Run(bb)}) = m
  BY <1>1, <1>5, <1>9, Stretch
<1>11. Flush(bb).expected_seq = (x + m) % SeqMod
  BY <1>10 DEF Flush, BufferMgmt
<1>12. m < SeqMod BY <1>5, SeqSizes
<1> QED BY <1>5, <1>7, <1>8, <1>11, <1>12

\* flush_reorder_entries() steps over the run of held numbers that starts at
\* expected_seq, and over nothing else.
LEMMA FlushWindow ==
  ASSUME NEW bb \in BufferMgmt, NEW S \in SUBSET Seqs, Window(bb, S)
  PROVE  /\ Window(Flush(bb), S) /\ Drained(Flush(bb))
         /\ Flush(bb).buffer_seq = bb.buffer_seq
         /\ Flush(bb).next_seq = bb.next_seq
         /\ Flush(bb).reorder \subseteq bb.reorder
<1> DEFINE H == HeldSeqs(bb)
           x == bb.expected_seq
           n == Dist(bb.next_seq, x)
<1>1. x \in Seqs /\ bb.next_seq \in Seqs /\ H \in SUBSET Seqs BY HeldTypes
<1>2. n \in 0 .. SeqMod-1 BY <1>1, DistValue
<1>3. bb.next_seq \notin H BY <1>1, <1>2 DEF Window
<1>4. PICK m \in Nat :
        /\ m <= n /\ m < SeqMod
        /\ Flush(bb).expected_seq = (x + m) % SeqMod /\ (x + m) % SeqMod \notin H
        /\ \A s \in Seqs : Dist(s, x) < m => s \in H
        /\ \A e \in bb.reorder : e \in Run(bb) <=> Dist(e.seq, x) < m
  BY <1>1, <1>3, FlushRun
<1>5. m \in 0 .. SeqMod-1 /\ m \in Nat /\ m <= n /\ (x + m) % SeqMod \notin H
  BY <1>4, SeqSizes
<1> DEFINE R == {s \in Seqs : Dist(s, x) < m}
<1>6. R \subseteq H BY <1>4
<1>7. \A e \in bb.reorder : e.seq \in H /\ (e \in Run(bb) <=> Dist(e.seq, x) < m)
  BY <1>4 DEF HeldSeqs
<1> DEFINE c == Flush(bb)
           y == (x + m) % SeqMod
<1>8. /\ c.expected_seq = y /\ c.next_seq = bb.next_seq
       /\ c.reorder = bb.reorder \ Run(bb) /\ c.buffer_seq = bb.buffer_seq
  BY <1>4 DEF Flush, BufferMgmt
<1>9. y \in Seqs BY <1>1, <1>5, StepsValue
<1> HIDE DEF c
<1>10. HeldSeqs(c) = {s \in H : ~(Dist(s, x) < m)}
  <2>1. \A s \in HeldSeqs(c) : s \in H /\ ~(Dist(s, x) < m)
    BY <1>7, <1>8 DEF HeldSeqs
  <2>2. \A s \in H : ~(Dist(s, x) < m) => s \in HeldSeqs(c)
    <3> SUFFICES ASSUME NEW s \in H, ~(Dist(s, x) < m) PROVE s \in HeldSeqs(c)
      OBVIOUS
    <3>1. PICK e \in bb.reorder : e.seq = s BY DEF HeldSeqs
    <3>2. e \in c.reorder BY <1>7, <1>8, <3>1
    <3> QED BY <3>1, <3>2 DEF HeldSeqs
  <2> QED BY <2>1, <2>2
<1>11. Drained(c) BY <1>5, <1>8, <1>10 DEF Drained
<1>12. Dist(bb.next_seq, y) = n - m BY <1>1, <1>5, DistShift
<1>13. S \cap H = {} BY DEF Window
<1>14. ASSUME NEW s \in Seqs
       PROVE  s \in S \cup HeldSeqs(c) <=> Dist(s, y) < n - m
  <2>1. s \in S \cup H <=> Dist(s, x) < n BY DEF Window
  <2>2. Dist(s, x) \in 0 .. SeqMod-1 BY <1>1, DistValue
  <2>3. CASE Dist(s, x) < m
    <3>1. s \in R BY <2>3
    <3>2. s \notin S \cup HeldSeqs(c) BY <1>6, <1>10, <1>13, <2>3, <3>1
    <3>3. Dist(s, y) = Dist(s, x) - m + SeqMod BY <1>1, <1>5, <2>2, <2>3, DistShiftPast
    <3>4. ~(Dist(s, y) < n - m)
      <4> HIDE DEF n, x, y
      <4> QED BY <1>2, <1>5, <2>2, <3>3, SeqSizes
    <3> QED BY <3>2, <3>4
  <2>4. CASE ~(Dist(s, x) < m)
    <3>1. m <= Dist(s, x) BY <1>5, <2>2, <2>4
    <3>2. Dist(s, y) = Dist(s, x) - m BY <1>1, <1>5, <3>1, DistShift
    <3>3. s \in S \cup HeldSeqs(c) <=> Dist(s, x) < n BY <1>10, <2>1, <2>4
    <3>4. Dist(s, y) < n - m <=> Dist(s, x) < n
      <4> HIDE DEF n, x, y
      <4> QED BY <1>2, <1>5, <2>2, <3>2
    <3> QED BY <3>3, <3>4
  <2> QED BY <2>3, <2>4
<1>15. Window(c, S)
  <2>1. S \cap HeldSeqs(c) = {} BY <1>10, <1>13
  <2> QED BY <1>8, <1>12, <1>14, <2>1 DEF Window
<1> QED BY <1>8, <1>11, <1>15 DEF c

\* The number at expected_seq is done with.
LEMMA RetireExpectedWindow ==
  ASSUME NEW bb \in BufferMgmt, NEW S \in SUBSET Seqs, Window(bb, S),
         bb.expected_seq \in S
  PROVE  LET c == RetireExpected(bb) IN
         /\ Window(c, S \ {bb.expected_seq}) /\ Drained(c)
         /\ c.buffer_seq = bb.buffer_seq /\ c.next_seq = bb.next_seq
         /\ c.reorder \subseteq bb.reorder
<1> DEFINE d == [bb EXCEPT !.expected_seq = Incr(@)]
           x == bb.expected_seq
           n == Dist(bb.next_seq, x)
           V == S \ {x}
<1>1. x \in Seqs /\ bb.next_seq \in Seqs /\ HeldSeqs(bb) \in SUBSET Seqs BY HeldTypes
<1>2. /\ d \in BufferMgmt /\ d.expected_seq = (x + 1) % SeqMod
      /\ d.next_seq = bb.next_seq /\ d.reorder = bb.reorder
      /\ d.buffer_seq = bb.buffer_seq
  BY Wrapped DEF BufferMgmt, Incr
<1>3. 1 \in 0 .. SeqMod-1 /\ 1 > 0 BY SeqSizes
<1>4. Dist(x, x) = 0 BY <1>1, DistValue
<1>5. n \in 0 .. SeqMod-1 /\ 0 < n BY <1>1, <1>4, DistValue DEF Window
<1> HIDE DEF d
<1>6. HeldSeqs(d) = HeldSeqs(bb) BY <1>2 DEF HeldSeqs
<1>7. Dist(d.next_seq, d.expected_seq) = n - 1
  <2>1. 1 <= n BY <1>5
  <2> QED BY <1>1, <1>2, <1>3, <2>1, DistShift
<1>8. ASSUME NEW s \in Seqs
      PROVE  s \in V \cup HeldSeqs(d) <=> Dist(s, d.expected_seq) < n - 1
  <2>1. s \in S \cup HeldSeqs(bb) <=> Dist(s, x) < n BY DEF Window
  <2>2. CASE s = x
    <3>1. s \notin V \cup HeldSeqs(d) BY <1>6, <2>2 DEF Window
    <3>2. Dist(s, d.expected_seq) = 0 - 1 + SeqMod
      BY <1>1, <1>2, <1>3, <1>4, <2>2, DistShiftPast
    <3>3. ~(0 - 1 + SeqMod < n - 1) 
      <4> HIDE DEF n
      <4> QED BY <1>5, SeqSizes
    <3> QED BY <3>1, <3>2, <3>3
  <2>3. CASE s # x
    <3>1. Dist(s, x) \in 0 .. SeqMod-1 /\ Dist(s, x) # 0 BY <1>1, <2>3, DistValue
    <3>2. 1 <= Dist(s, x) BY <3>1
    <3>3. Dist(s, d.expected_seq) = Dist(s, x) - 1 BY <1>1, <1>2, <1>3, <3>2, DistShift
    <3>4. s \in V \cup HeldSeqs(d) <=> Dist(s, x) < n BY <1>6, <2>1, <2>3
    <3>5. Dist(s, d.expected_seq) < n - 1 <=> Dist(s, x) < n
      <4> HIDE DEF n
      <4> QED BY <1>5, <3>1, <3>3
    <3> QED BY <3>4, <3>5
  <2> QED BY <2>2, <2>3
<1>9. Window(d, V)
  <2>1. V \cap HeldSeqs(d) = {} BY <1>6 DEF Window
  <2> HIDE DEF V, n
  <2> QED BY <1>7, <1>8, <2>1 DEF Window
<1>10. V \in SUBSET Seqs OBVIOUS
<1> HIDE DEF V
<1>11. /\ Window(Flush(d), V) /\ Drained(Flush(d))
       /\ Flush(d).buffer_seq = d.buffer_seq /\ Flush(d).next_seq = d.next_seq
       /\ Flush(d).reorder \subseteq d.reorder
  BY <1>2, <1>9, <1>10, FlushWindow
<1> QED BY <1>2, <1>11 DEF RetireExpected, d, V

\* A number that goes from a transfer to reorder[] stays in the window.
LEMMA HoldWindow ==
  ASSUME NEW bb, NEW cc, NEW S, Window(bb, S), Drained(bb), Small(bb),
         NEW s \in S, s # bb.expected_seq, NEW e, e.seq = s,
         Cardinality(bb.reorder) < MaxReorder,
         cc.reorder = bb.reorder \cup {e},
         cc.expected_seq = bb.expected_seq, cc.next_seq = bb.next_seq
  PROVE  Window(cc, S \ {s}) /\ Drained(cc) /\ Small(cc)
<1>1. HeldSeqs(cc) = HeldSeqs(bb) \cup {s} BY DEF HeldSeqs
<1>2. Window(cc, S \ {s}) BY <1>1 DEF Window
<1>3. Drained(cc) BY <1>1 DEF Drained
<1>4. Small(cc)
  <2>1. /\ IsFiniteSet(bb.reorder \cup {e})
        /\ Cardinality(bb.reorder \cup {e}) =
             IF e \in bb.reorder THEN Cardinality(bb.reorder)
             ELSE Cardinality(bb.reorder) + 1
    BY FS_AddElement DEF Small
  <2>2. Cardinality(bb.reorder) \in Nat BY FS_CardinalityType DEF Small
  <2> QED BY <2>1, <2>2, SeqSizes DEF Small
<1> QED BY <1>2, <1>3, <1>4

LEMMA SmallShrinks ==
  ASSUME NEW bb, NEW cc, Small(bb), cc.reorder \subseteq bb.reorder
  PROVE  Small(cc)
<1>1. /\ IsFiniteSet(cc.reorder)
      /\ Cardinality(cc.reorder) <= Cardinality(bb.reorder)
  BY FS_Subset DEF Small
<1>2. Cardinality(cc.reorder) \in Nat /\ Cardinality(bb.reorder) \in Nat
  BY <1>1, FS_CardinalityType DEF Small
<1> QED BY <1>1, <1>2, SeqSizes DEF Small

\* What is left of a ring whose number s no transfer carries any more.
Passed(bb, cc, S, s) ==
  /\ Window(cc, S \ {s}) /\ Drained(cc) /\ Small(cc)
  /\ cc.buffer_seq = bb.buffer_seq /\ cc.next_seq = bb.next_seq

\* A rejected or dropped number is retired, or leaves a tombstone.
LEMMA RetireDroppedWindow ==
  ASSUME NEW bb \in BufferMgmt, NEW S \in SUBSET Seqs, Window(bb, S),
         Drained(bb), Small(bb), NEW s \in S,
         s = bb.expected_seq \/ Cardinality(bb.reorder) < MaxReorder
  PROVE  Passed(bb, RetireDropped(bb, s), S, s)
<1>1. CASE s = bb.expected_seq
  <2> DEFINE c == RetireExpected(bb)
  <2>1. /\ Window(c, S \ {s}) /\ Drained(c) /\ c.reorder \subseteq bb.reorder
        /\ c.buffer_seq = bb.buffer_seq /\ c.next_seq = bb.next_seq
    BY <1>1, RetireExpectedWindow
  <2>2. Small(c) BY <2>1, SmallShrinks
  <2> QED BY <1>1, <2>1, <2>2 DEF RetireDropped, Passed
<1>2. CASE s # bb.expected_seq
  <2> DEFINE e == [seq |-> s, idx |-> NoSlot, dropped |-> TRUE]
             c == [bb EXCEPT !.reorder = @ \cup {e}]
  <2>1. /\ c.reorder = bb.reorder \cup {e} /\ c.expected_seq = bb.expected_seq
        /\ c.next_seq = bb.next_seq /\ c.buffer_seq = bb.buffer_seq
    BY DEF BufferMgmt
  <2>2. e.seq = s OBVIOUS
  <2>3. RetireDropped(bb, s) = c BY <1>2 DEF RetireDropped
  <2> HIDE DEF c, e
  <2>4. Window(c, S \ {s}) /\ Drained(c) /\ Small(c)
    BY <1>2, <2>1, <2>2, HoldWindow
  <2> QED BY <2>1, <2>3, <2>4 DEF Passed
<1> QED BY <1>1, <1>2

\* A completed number is retired or held.
LEMMA StoreWindow ==
  ASSUME NEW bb \in BufferMgmt, NEW S \in SUBSET Seqs, Window(bb, S),
         Drained(bb), Small(bb), NEW i \in Slots, bb.buffer_seq[i] \in S,
         bb.buffer_seq[i] = bb.expected_seq \/ CanHold(bb, bb.buffer_seq[i])
  PROVE  Passed(bb, StoreCompleted(bb, i), S, bb.buffer_seq[i])
<1> DEFINE s == bb.buffer_seq[i]
<1>1. CASE s = bb.expected_seq
  <2> DEFINE r == Ready(bb, i)
             c == RetireExpected(r)
  <2>1. /\ r \in BufferMgmt /\ r.expected_seq = bb.expected_seq
        /\ r.next_seq = bb.next_seq /\ r.reorder = bb.reorder
        /\ r.buffer_seq = bb.buffer_seq
    BY DEF Ready, BufferMgmt, Status
  <2> HIDE DEF r
  <2>2. Window(r, S) /\ Small(r) BY <2>1, WindowFrame
  <2>3. /\ Window(c, S \ {s}) /\ Drained(c) /\ c.reorder \subseteq r.reorder
        /\ c.buffer_seq = r.buffer_seq /\ c.next_seq = r.next_seq
    BY <1>1, <2>1, <2>2, RetireExpectedWindow
  <2>4. Small(c) BY <2>2, <2>3, SmallShrinks
  <2> QED BY <1>1, <2>1, <2>3, <2>4 DEF StoreCompleted, Passed, r
<1>2. CASE s # bb.expected_seq
  <2> DEFINE e == [seq |-> bb.buffer_seq[i], idx |-> i, dropped |-> FALSE]
             c == Hold(bb, i)
  <2>1. /\ c.reorder = bb.reorder \cup {e} /\ c.expected_seq = bb.expected_seq
        /\ c.next_seq = bb.next_seq /\ c.buffer_seq = bb.buffer_seq
    BY DEF Hold, BufferMgmt
  <2>2. e.seq = s OBVIOUS
  <2>3. StoreCompleted(bb, i) = c BY <1>2 DEF StoreCompleted
  <2>4. Cardinality(bb.reorder) < MaxReorder
    <3>1. Cardinality(bb.reorder) \in Nat BY FS_CardinalityType DEF Small
    <3>2. Cardinality(bb.reorder) < ReorderLimit BY <1>2 DEF CanHold
    <3> QED BY <3>1, <3>2, SeqSizes DEF ReorderLimit
  <2> HIDE DEF c, e
  <2>5. Window(c, S \ {s}) /\ Drained(c) /\ Small(c)
    BY <1>2, <2>1, <2>2, <2>4, HoldWindow
  <2> QED BY <2>1, <2>3, <2>5 DEF Passed
<1> QED BY <1>1, <1>2

\* When its transfer is over, only the number of slot i leaves the transport.
LEMMA RemoveSeq ==
  ASSUME NEW bb \in BufferMgmt, NEW u \in [Slots -> Nat], Distinct(bb, u),
         NEW i \in Slots, u[i] = 1
  PROVE  LET v == [u EXCEPT ![i] = @ - 1] IN
         /\ v \in [Slots -> Nat] /\ v[i] = 0
         /\ bb.buffer_seq[i] \in SeqsOf(bb, u)
         /\ SeqsOf(bb, v) = SeqsOf(bb, u) \ {bb.buffer_seq[i]}
         /\ Distinct(bb, v)
         /\ OwnedIn(v) \subseteq OwnedIn(u)
<1> DEFINE v == [u EXCEPT ![i] = @ - 1]
<1>1. v \in [Slots -> Nat] /\ v[i] = 0 /\ \A k \in Slots \ {i} : v[k] = u[k]
  OBVIOUS
<1> HIDE DEF v
<1>2. OwnedIn(v) = OwnedIn(u) \ {i} /\ i \in OwnedIn(u) BY <1>1 DEF OwnedIn
<1>3. SeqsOf(bb, v) = SeqsOf(bb, u) \ {bb.buffer_seq[i]}
  BY <1>2 DEF SeqsOf, Distinct
<1>4. Distinct(bb, v) /\ bb.buffer_seq[i] \in SeqsOf(bb, u)
  BY <1>2 DEF Distinct, SeqsOf
<1> QED BY <1>1, <1>2, <1>3, <1>4 DEF v

\* The window and the transport both grow by next_seq.
LEMMA SubmitNoHole ==
  ASSUME NEW bb \in BufferMgmt, NEW v \in [Slots -> Nat], NEW cc \in BufferMgmt,
         NoHole(bb, v), NEW j \in Slots, v[j] = 0, Cardinality(OwnedIn(v)) <= T,
         cc.buffer_seq = [bb.buffer_seq EXCEPT ![j] = bb.next_seq],
         cc.next_seq = Incr(bb.next_seq),
         cc.expected_seq = bb.expected_seq, cc.reorder = bb.reorder
  PROVE  NoHole(cc, [v EXCEPT ![j] = @ + 1])
<1> DEFINE S == SeqsOf(bb, v)
           w == [v EXCEPT ![j] = @ + 1]
           x == bb.expected_seq
           n == Dist(bb.next_seq, x)
<1>1. /\ bb.buffer_seq \in [Slots -> Seqs] /\ x \in Seqs /\ bb.next_seq \in Seqs
      /\ S \in SUBSET Seqs /\ HeldSeqs(bb) \in SUBSET Seqs
  BY HeldTypes
<1>2. w[j] = 1 /\ \A k \in Slots \ {j} : w[k] = v[k] OBVIOUS
<1> HIDE DEF w
<1>3. OwnedIn(w) = OwnedIn(v) \cup {j} /\ j \notin OwnedIn(v)
      /\ OwnedIn(v) \subseteq Slots
  BY <1>2 DEF OwnedIn
<1>4. /\ cc.buffer_seq[j] = bb.next_seq
      /\ \A k \in OwnedIn(v) : cc.buffer_seq[k] = bb.buffer_seq[k]
  BY <1>1, <1>3
<1>5. SeqsOf(cc, w) = S \cup {bb.next_seq} BY <1>3, <1>4 DEF SeqsOf
<1>6. n \in 0 .. SeqMod-1 BY <1>1, DistValue
<1>7. bb.next_seq \notin S \cup HeldSeqs(bb)
  BY <1>1, <1>6 DEF NoHole, Window
<1>8. Distinct(cc, w) BY <1>3, <1>4, <1>7 DEF NoHole, Distinct, SeqsOf
<1>9. HeldSeqs(cc) = HeldSeqs(bb) BY DEF HeldSeqs
<1>10. n < SeqMod - 1
  <2> DEFINE f == [i \in OwnedIn(v) |-> bb.buffer_seq[i]]
  <2>1. IsFiniteSet(OwnedIn(v))
    <3>1. IsFiniteSet(Slots) BY Sizes, FS_Interval DEF Slots
    <3> QED BY <1>3, <3>1, FS_Subset
  <2>2. f \in Surjection(OwnedIn(v), S) BY DEF Surjection, SeqsOf
  <2>3. IsFiniteSet(S) /\ Cardinality(S) <= Cardinality(OwnedIn(v))
    BY <2>1, <2>2, FS_Surjection
  <2>4. Cardinality(S) \in Nat /\ Cardinality(OwnedIn(v)) \in Nat
    BY <2>1, <2>3, FS_CardinalityType
  <2>5. Cardinality(S) <= T BY <2>3, <2>4, SeqSizes
  <2> HIDE DEF S
  <2> QED BY <1>1, <2>3, <2>5, WindowSize DEF NoHole, S
<1>11. Dist(Incr(bb.next_seq), x) = n + 1 BY <1>1, <1>10, DistIncr
<1>12. ASSUME NEW s \in Seqs
       PROVE  s \in S \cup {bb.next_seq} \cup HeldSeqs(bb) <=> Dist(s, x) < n + 1
  <2>1. s \in S \cup HeldSeqs(bb) <=> Dist(s, x) < n BY DEF NoHole, Window
  <2>2. s = bb.next_seq <=> Dist(s, x) = n BY <1>1, DistDetermines
  <2>3. Dist(s, x) \in Int BY <1>1, DistValue
  <2>4. Dist(s, x) < n + 1 <=> Dist(s, x) < n \/ Dist(s, x) = n
    <3> HIDE DEF n
    <3> QED BY <1>6, <2>3
  <2> QED BY <2>1, <2>2, <2>4
<1>13. Window(cc, SeqsOf(cc, w))
  <2>1. (S \cup {bb.next_seq}) \cap HeldSeqs(bb) = {} BY <1>7 DEF NoHole, Window
  <2> HIDE DEF n, S
  <2> QED BY <1>5, <1>9, <1>11, <1>12, <2>1 DEF Window, n
<1>14. Drained(cc) /\ Small(cc) BY <1>9 DEF NoHole, Drained, Small
<1> QED BY <1>8, <1>13, <1>14 DEF NoHole, w

\* The hole-free window only looks at these fields.
LEMMA NoHoleFrame ==
  ASSUME NEW bb, NEW cc, NEW u, NoHole(bb, u), cc.reorder = bb.reorder,
         cc.expected_seq = bb.expected_seq, cc.next_seq = bb.next_seq,
         cc.buffer_seq = bb.buffer_seq
  PROVE  NoHole(cc, u)
<1>1. SeqsOf(cc, u) = SeqsOf(bb, u) BY DEF SeqsOf
<1>2. Distinct(cc, u) BY DEF NoHole, Distinct
<1> QED BY <1>1, <1>2, WindowFrame DEF NoHole

\* Slot i is done with, its number retired or held.
LEMMA PassedNoHole ==
  ASSUME NEW bb \in BufferMgmt, NEW u \in [Slots -> Nat], NoHole(bb, u),
         NEW i \in Slots, u[i] = 1, Cardinality(OwnedIn(u)) = T,
         NEW cc, Passed(bb, cc, SeqsOf(bb, u), bb.buffer_seq[i])
  PROVE  LET v == [u EXCEPT ![i] = @ - 1] IN
         NoHole(cc, v) /\ Cardinality(OwnedIn(v)) <= T
<1> DEFINE v == [u EXCEPT ![i] = @ - 1]
<1>1. /\ SeqsOf(bb, v) = SeqsOf(bb, u) \ {bb.buffer_seq[i]} /\ Distinct(bb, v)
      /\ OwnedIn(v) \subseteq OwnedIn(u)
  BY RemoveSeq DEF NoHole
<1> HIDE DEF v
<1>2. SeqsOf(cc, v) = SeqsOf(bb, v) /\ Distinct(cc, v)
  BY <1>1 DEF Passed, SeqsOf, Distinct
<1>3. NoHole(cc, v) BY <1>1, <1>2 DEF NoHole, Passed
<1>4. Cardinality(OwnedIn(v)) <= T
  <2>1. IsFiniteSet(OwnedIn(u))
    <3>1. IsFiniteSet(Slots) BY Sizes, FS_Interval DEF Slots
    <3> QED BY <3>1, FS_Subset DEF OwnedIn
  <2> QED BY <1>1, <2>1, FS_Subset
<1> QED BY <1>3, <1>4 DEF v

LEMMA UsbThreadNoHole ==
  ASSUME TypeOK, Sound(b, usb), UsbThread, Steady', NoHole(b, usb),
         Cardinality(OwnedIn(usb)) = T
  PROVE  NoHole(b', usb')
<1> USE DEF TypeOK
<1>0. ASSUME NEW i \in Slots, usb[i] > 0 PROVE usb[i] = 1 /\ b.status[i] = "IN_FLIGHT"
  BY <1>0 DEF Sound
<1>g. ASSUME NEW kinds, NEW lost, g' = Note(b', kinds, lost)
      PROVE  kinds \cap {"stolen", "stranded", "forwarded", "untracked", "forgotten"} = {}
  <2>1. kinds \subseteq g'.past BY <1>g DEF Note, Ghosts
  <2> QED BY <2>1 DEF Steady, Unusual
<1>s. ASSUME NEW d \in BufferMgmt, NEW j \in Slots
      PROVE  /\ SubmitSlot(d, j) \in BufferMgmt /\ MarkInFlight(d, j) \in BufferMgmt
             /\ SubmitSlot(d, j).buffer_seq = [d.buffer_seq EXCEPT ![j] = d.next_seq]
             /\ SubmitSlot(d, j).next_seq = Incr(d.next_seq)
             /\ SubmitSlot(d, j).expected_seq = d.expected_seq
             /\ SubmitSlot(d, j).reorder = d.reorder
             /\ MarkInFlight(d, j).buffer_seq = [d.buffer_seq EXCEPT ![j] = d.next_seq]
             /\ MarkInFlight(d, j).next_seq = Incr(d.next_seq)
             /\ MarkInFlight(d, j).expected_seq = d.expected_seq
             /\ MarkInFlight(d, j).reorder = d.reorder
  <2>1. SubmitSlot(d, j) \in BufferMgmt /\ MarkInFlight(d, j) \in BufferMgmt
    BY SubmitType
  <2> DEFINE m == MarkInFlight(d, j)
  <2>2. /\ m.buffer_seq = [d.buffer_seq EXCEPT ![j] = d.next_seq]
        /\ m.next_seq = Incr(d.next_seq)
        /\ m.expected_seq = d.expected_seq /\ m.reorder = d.reorder
    BY DEF MarkInFlight, BufferMgmt
  <2> HIDE DEF m
  <2>3. /\ SubmitSlot(d, j).buffer_seq = m.buffer_seq
        /\ SubmitSlot(d, j).next_seq = m.next_seq
        /\ SubmitSlot(d, j).expected_seq = m.expected_seq
        /\ SubmitSlot(d, j).reorder = m.reorder
    BY <2>1 DEF SubmitSlot, m, BufferMgmt
  <2> QED BY <2>1, <2>2, <2>3 DEF m
<1>1. ASSUME NEW i \in Slots, RxCallbackStore(i) PROVE NoHole(b', usb')
  <2> DEFINE c == [b EXCEPT !.buffer_dropped[i] = FALSE]
             d == StoreCompleted(c, i)
             j == ProducerSlot(c)
             v == [usb EXCEPT ![i] = @ - 1]
             s == c.buffer_seq[i]
  <2>1. /\ c \in BufferMgmt /\ c.status = b.status /\ c.reorder = b.reorder
        /\ c.expected_seq = b.expected_seq /\ c.next_seq = b.next_seq
        /\ c.buffer_seq = b.buffer_seq
    BY DEF BufferMgmt
  <2>2. d \in BufferMgmt BY <2>1, StoreCompletedType
  <2>3. EmptySlots(c) # {} BY <1>1, <2>1 DEF RxCallbackStore, EmptySlots
  <2>4. j \in Slots /\ c.status[j] = "EMPTY"
    BY <2>1, <2>3, ProducerSlotEmpty DEF EmptySlots
  <2>5. usb[i] = 1 BY <1>0, <1>1 DEF RxCallbackStore, Completes, Owned
  <2>6. b' = SubmitSlot(d, j) /\ usb' = [v EXCEPT ![j] = @ + 1]
    BY <1>1 DEF RxCallbackStore
  <2>7. s = c.expected_seq \/ CanHold(c, s)
    <3>1. CASE s # c.expected_seq /\ ~CanHold(c, s)
      <4>1. g' = Note(b', {"forwarded"}, TRUE) BY <1>1, <3>1 DEF RxCallbackStore
      <4> QED BY <1>g, <4>1
    <3> QED BY <3>1
  <2> HIDE DEF c
  <2>8. NoHole(c, usb) BY <2>1, NoHoleFrame
  <2>9. s \in SeqsOf(c, usb) /\ SeqsOf(c, usb) \in SUBSET Seqs
    BY <2>1, <2>5, <2>8, RemoveSeq, HeldTypes DEF NoHole
  <2>10. Passed(c, d, SeqsOf(c, usb), s)
    BY <2>1, <2>7, <2>8, <2>9, StoreWindow DEF NoHole
  <2> HIDE DEF d
  <2>11. NoHole(d, v) /\ Cardinality(OwnedIn(v)) <= T
    BY <2>1, <2>5, <2>8, <2>10, PassedNoHole
  <2>12. v \in [Slots -> Nat] BY <2>5
  <2>13. v[j] = 0
    <3>1. usb[j] = 0 BY <1>0, <2>1, <2>4
    <3> HIDE DEF j
    <3> QED BY <2>4, <2>5, <3>1
  <2> HIDE DEF j, v
  <2> QED BY <1>s, <2>2, <2>4, <2>6, <2>11, <2>12, <2>13, SubmitNoHole
<1>2. ASSUME NEW i \in Slots, RxCallbackNoData(i) PROVE FALSE
  BY <1>2, <1>g DEF RxCallbackNoData
<1>3. ASSUME NEW i \in Slots, RxCallbackRingFull(i) PROVE NoHole(b', usb')
  <2> DEFINE s == b.buffer_seq[i]
             q == RetireDropped(b, s)
             v == [usb EXCEPT ![i] = @ - 1]
             m == MarkInFlight(q, i)
  <2>1. usb[i] = 1 BY <1>0, <1>3 DEF RxCallbackRingFull, Completes, Owned
  <2>2. s \in SeqsOf(b, usb) /\ SeqsOf(b, usb) \in SUBSET Seqs /\ s \in Seqs
    BY <2>1, RemoveSeq, HeldTypes DEF NoHole
  <2>3. Cardinality(b.reorder) < MaxReorder
    <3>1. b.reorder = {} BY <1>3 DEF RxCallbackRingFull
    <3>2. Cardinality({}) = 0 BY FS_EmptySet
    <3> QED BY <3>1, <3>2, SeqSizes
  <2>4. q \in BufferMgmt BY <2>2, RetireDroppedType
  <2>5. Passed(b, q, SeqsOf(b, usb), s)
    BY <2>2, <2>3, RetireDroppedWindow DEF NoHole
  <2>6. b' = NoteOverrun(m) /\ usb' = usb BY <1>3 DEF RxCallbackRingFull
  <2> HIDE DEF q
  <2>7. NoHole(q, v) /\ Cardinality(OwnedIn(v)) <= T
    BY <2>1, <2>5, PassedNoHole
  <2>8. v \in [Slots -> Nat] /\ v[i] = 0 /\ [v EXCEPT ![i] = @ + 1] = usb
    <3>1. v \in [Slots -> Nat] /\ v[i] = 0 /\ \A k \in Slots \ {i} : v[k] = usb[k]
      BY <2>1
    <3> DEFINE w == [v EXCEPT ![i] = @ + 1]
    <3>2. w \in [Slots -> Nat] /\ w[i] = 1 /\ \A k \in Slots \ {i} : w[k] = v[k]
      BY <3>1
    <3> HIDE DEF v, w
    <3>3. \A k \in Slots : w[k] = usb[k] BY <2>1, <3>1, <3>2
    <3>4. w = usb BY <3>2, <3>3
    <3> QED BY <3>1, <3>4 DEF w
  <2> HIDE DEF v
  <2>9. NoHole(m, usb) BY <1>s, <2>4, <2>7, <2>8, SubmitNoHole
  <2>10. m \in BufferMgmt BY <1>s, <2>4
  <2> HIDE DEF m
  <2>11. /\ b'.reorder = m.reorder /\ b'.expected_seq = m.expected_seq
         /\ b'.next_seq = m.next_seq /\ b'.buffer_seq = m.buffer_seq
    BY <2>6, <2>10 DEF NoteOverrun, BufferMgmt
  <2> QED BY <2>6, <2>9, <2>11, NoHoleFrame
<1>4. ASSUME NEW i \in Slots, NEW quiet \in BOOLEAN, RxBufferRejected(i, quiet)
      PROVE  NoHole(b', usb')
  <2> DEFINE s == b.buffer_seq[i]
             q == RetireDropped(b, s)
             r == [q EXCEPT !.buffer_dropped[i] = TRUE, !.status[i] = "EMPTY"]
             j == ProducerSlot(r)
             v == [usb EXCEPT ![i] = @ - 1]
  <2>1. usb[i] = 1 /\ b.status[i] = "IN_FLIGHT"
    BY <1>0, <1>4 DEF RxBufferRejected, Completes, Owned
  <2>2. s \in SeqsOf(b, usb) /\ SeqsOf(b, usb) \in SUBSET Seqs /\ s \in Seqs
    BY <2>1, RemoveSeq, HeldTypes DEF NoHole
  <2>3. s = b.expected_seq \/ Cardinality(b.reorder) < MaxReorder
    <3>1. CASE s # b.expected_seq /\ Cardinality(b.reorder) >= MaxReorder
      <4>1. g' = Note(b', {"untracked"}, FALSE)
        BY <1>4, <2>1, <3>1 DEF RxBufferRejected
      <4> QED BY <1>g, <4>1
    <3>2. Cardinality(b.reorder) \in Nat BY FS_CardinalityType DEF NoHole, Small
    <3> QED BY <3>1, <3>2, SeqSizes
  <2>4. q \in BufferMgmt BY <2>2, RetireDroppedType
  <2>5. Sound(q, usb) BY <2>2, RetireDroppedSound
  <2>6. Passed(b, q, SeqsOf(b, usb), s)
    BY <2>2, <2>3, RetireDroppedWindow DEF NoHole
  <2>7. b' = SubmitSlot(r, j) /\ usb' = [v EXCEPT ![j] = @ + 1]
    BY <1>4, <2>1 DEF RxBufferRejected
  <2> HIDE DEF q
  <2>8. /\ r \in BufferMgmt /\ r.reorder = q.reorder
        /\ r.expected_seq = q.expected_seq /\ r.next_seq = q.next_seq
        /\ r.buffer_seq = q.buffer_seq /\ r.status[i] = "EMPTY"
        /\ \A k \in Slots \ {i} : r.status[k] = q.status[k]
    BY <2>4 DEF BufferMgmt, Status
  <2> HIDE DEF r
  <2>9. EmptySlots(r) # {} BY <2>8 DEF EmptySlots
  <2>10. j \in Slots /\ r.status[j] = "EMPTY"
    BY <2>8, <2>9, ProducerSlotEmpty DEF EmptySlots
  <2> HIDE DEF j
  <2>11. v \in [Slots -> Nat] /\ v[i] = 0 /\ \A k \in Slots \ {i} : v[k] = usb[k]
    BY <2>1
  <2>12. v[j] = 0
    <3>1. CASE j = i BY <2>11, <3>1
    <3>2. CASE j # i
      <4>1. q.status[j] = "EMPTY" BY <2>8, <2>10, <3>2
      <4>2. usb[j] = 0 BY <2>5, <2>10, <4>1 DEF Sound
      <4> QED BY <2>10, <2>11, <3>2, <4>2
    <3> QED BY <3>1, <3>2
  <2>13. NoHole(q, v) /\ Cardinality(OwnedIn(v)) <= T
    BY <2>1, <2>6, PassedNoHole
  <2> HIDE DEF v
  <2>14. NoHole(r, v) BY <2>8, <2>13, NoHoleFrame
  <2> QED BY <1>s, <2>7, <2>8, <2>10, <2>11, <2>12, <2>13, <2>14, SubmitNoHole
<1>5. ASSUME RxEventCallback PROVE NoHole(b', usb')
  <2>1. /\ b'.reorder = b.reorder /\ b'.expected_seq = b.expected_seq
        /\ b'.next_seq = b.next_seq /\ b'.buffer_seq = b.buffer_seq /\ usb' = usb
    BY <1>5 DEF RxEventCallback, BufferMgmt
  <2> QED BY <2>1, NoHoleFrame
<1> QED BY <1>1, <1>2, <1>3, <1>4, <1>5 DEF UsbThread

\* START numbers the first T slots 0 .. T-1 and expects 0.
LEMMA StartNoHole ==
  ASSUME TypeOK, ExecIdleState
  PROVE  NoHole(b', usb')
<1>1. /\ b'.buffer_seq = [i \in Slots |-> IF i < T THEN i ELSE NoSeq]
      /\ b'.expected_seq = 0 /\ b'.next_seq = T /\ b'.reorder = {}
  BY DEF TypeOK, ExecIdleState, ResetForStart, BufferMgmt
<1>2. usb' = [i \in Slots |-> IF i < T THEN 1 ELSE 0] BY DEF ExecIdleState
<1>3. OwnedIn(usb') = 0 .. T-1 BY <1>2, Sizes DEF OwnedIn, Slots
<1>4. \A i \in 0 .. T-1 : b'.buffer_seq[i] = i
  BY <1>1, SeqSizes DEF Slots
<1>5. SeqsOf(b', usb') = 0 .. T-1 BY <1>3, <1>4 DEF SeqsOf
<1>6. Distinct(b', usb') BY <1>3, <1>4 DEF Distinct
<1>7. HeldSeqs(b') = {} BY <1>1 DEF HeldSeqs
<1>8. \A s \in Seqs : Dist(s, 0) = s
  <2> TAKE s \in Seqs
  <2>1. 0 \in Seqs /\ s \in Int /\ s >= 0 BY SeqSizes DEF Seqs
  <2>2. Dist(s, 0) = IF s >= 0 THEN s - 0 ELSE s - 0 + SeqMod BY <2>1, DistValue
  <2> QED BY <2>1, <2>2
<1>9. T \in Seqs BY SeqSizes DEF Seqs
<1>10. \A s \in Seqs : s \in 0 .. T-1 <=> Dist(s, 0) < Dist(T, 0)
  <2> TAKE s \in Seqs
  <2>1. Dist(s, 0) = s /\ Dist(T, 0) = T BY <1>8, <1>9
  <2>2. s \in 0 .. T-1 <=> s < T BY SeqSizes DEF Seqs
  <2> QED BY <2>1, <2>2
<1>11. Window(b', SeqsOf(b', usb')) BY <1>1, <1>5, <1>7, <1>10 DEF Window
<1>12. Drained(b') BY <1>7 DEF Drained
<1>13. Small(b')
  <2>1. IsFiniteSet({}) /\ Cardinality({}) = 0 BY FS_EmptySet
  <2> QED BY <1>1, <2>1, SeqSizes DEF Small
<1> QED BY <1>6, <1>11, <1>12, <1>13 DEF NoHole

\* What the reader does to the ring leaves the numbers alone.
LEMMA ReaderNumbers ==
  ASSUME TypeOK, ReaderStep \/ Application
  PROVE  /\ b'.reorder = b.reorder /\ b'.expected_seq = b.expected_seq
         /\ b'.next_seq = b.next_seq /\ b'.buffer_seq = b.buffer_seq
         /\ usb' = usb /\ worker' = worker
<1> USE DEF TypeOK
<1> DEFINE Same(c, d) == /\ d.reorder = c.reorder /\ d.expected_seq = c.expected_seq
                         /\ d.next_seq = c.next_seq /\ d.buffer_seq = c.buffer_seq
<1>0. usb' = usb /\ worker' = worker
  BY DEF ReaderStep, LoopTop, CheckWorker, ResetBufMgmt, StartWorker,
         WorkerStarted, StartTimedOut, WaitForBuffer, WakeUp, TimedOut,
         BufferReady, UsingBuffer, UsingBufferMeta, UsingPacketMeta, Out,
         Application, StartRead
<1>1. CASE LoopTop \/ CheckWorker \/ StartWorker \/ WorkerStarted
           \/ StartTimedOut \/ TimedOut \/ WakeUp
  BY <1>0, <1>1 DEF LoopTop, CheckWorker, StartWorker, WorkerStarted,
       StartTimedOut, TimedOut, WakeUp
<1>2. CASE ResetBufMgmt \/ BufferReady \/ Out \/ UsingPacketMeta
  BY <1>0, <1>2 DEF ResetBufMgmt, BufferReady, Out, UsingPacketMeta, AdvanceRx,
       ClearOverrun, BufferMgmt
<1>3. CASE WaitForBuffer
  <2> DEFINE w == [b EXCEPT !.rx_data_withheld_pending = FALSE]
             k == SkipDropped(w)
             a == Reanchor(k)
             r == DropStale(a, call.now)
  <2>1. w \in BufferMgmt /\ Same(b, w) BY DEF BufferMgmt
  <2>2. b' = w \/ b' = r BY <1>3 DEF WaitForBuffer
  <2> HIDE DEF w
  <2>3. k \in BufferMgmt BY <2>1, SkipDroppedType
  <2>4. Same(w, k) BY <2>1 DEF SkipDropped, BufferMgmt
  <2> HIDE DEF k
  <2>5. a \in BufferMgmt BY <2>3, ReanchorType
  <2>6. Same(k, a) BY <2>3 DEF Reanchor, BufferMgmt
  <2> HIDE DEF a
  <2>7. Same(a, r) BY <2>5 DEF DropStale, BufferMgmt
  <2> HIDE DEF r
  <2> QED BY <1>0, <2>1, <2>2, <2>4, <2>6, <2>7
<1>4. ASSUME NEW n, Consume(n) PROVE Same(b, b')
  <2>1. CASE b' = [b EXCEPT !.partial_off = @ + n] BY <2>1 DEF BufferMgmt
  <2>2. CASE b' = AdvanceRx([b EXCEPT !.partial_off = Units])
    BY <2>2 DEF AdvanceRx, BufferMgmt
  <2> QED BY <1>4, <2>1, <2>2 DEF Consume
<1>5. CASE UsingBuffer \/ UsingBufferMeta
  BY <1>0, <1>4, <1>5 DEF UsingBuffer, UsingBufferMeta
<1>6. CASE Application
  BY <1>0, <1>6 DEF Application, StartRead, ClearOverrun, BufferMgmt
<1> QED BY <1>1, <1>2, <1>3, <1>5, <1>6 DEF ReaderStep

\* The expected number is carried by a transfer.
LEMMA ExpectedCarried ==
  ASSUME NEW bb \in BufferMgmt, NEW u \in [Slots -> Nat], NoHole(bb, u),
         Cardinality(OwnedIn(u)) = T
  PROVE  \E i \in OwnedIn(u) : bb.buffer_seq[i] = bb.expected_seq
<1>1. OwnedIn(u) # {}
  <2>1. Cardinality({}) = 0 BY FS_EmptySet
  <2> QED BY <2>1, SeqSizes
<1>2. PICK i \in OwnedIn(u) : TRUE BY <1>1
<1>3. /\ bb.expected_seq \in Seqs /\ bb.next_seq \in Seqs /\ bb.buffer_seq[i] \in Seqs
      /\ bb.buffer_seq[i] \in SeqsOf(bb, u)
  BY <1>2, HeldTypes DEF SeqsOf, OwnedIn
<1>4. Dist(bb.buffer_seq[i], bb.expected_seq) < Dist(bb.next_seq, bb.expected_seq)
  BY <1>3 DEF NoHole, Window
<1>5. /\ Dist(bb.buffer_seq[i], bb.expected_seq) \in Nat
      /\ Dist(bb.next_seq, bb.expected_seq) \in Nat
      /\ Dist(bb.expected_seq, bb.expected_seq) = 0
  BY <1>3, Wrapped, DistValue
<1>6. Dist(bb.expected_seq, bb.expected_seq) < Dist(bb.next_seq, bb.expected_seq)
  BY <1>4, <1>5
<1>7. bb.expected_seq \in SeqsOf(bb, u)
  BY <1>3, <1>6 DEF NoHole, Window, Drained
<1> QED BY <1>7 DEF SeqsOf

\* A fence on a running stream finds the expected transfer in flight: with
\* nothing held it moves nothing, and it never leaves reorder[] as it was.
LEMMA FenceNoHole ==
  ASSUME TypeOK, Sound(b, usb), InvalidateEpoch, NoHole(b, usb),
         Cardinality(OwnedIn(usb)) = T, Steady'
  PROVE  NoHole(b', usb') /\ g'.past = g.past
<1> USE DEF TypeOK
<1> DEFINE f == b.overrun_source_flags \ {"FPGA_RX_LOSS"}
           c == [b EXCEPT !.overrun_source_flags = f,
                          !.overrun_pending = @ /\ f # {}]
           d == FreeCompleted(c)
           F == {i \in Slots : /\ d.status[i] = "IN_FLIGHT"
                               /\ Dist(d.buffer_seq[i], d.expected_seq) < SeqMod - 1}
           o == OldestInFlight(d)
<1>1. /\ c \in BufferMgmt /\ c.status = b.status /\ c.reorder = b.reorder
      /\ c.expected_seq = b.expected_seq /\ c.next_seq = b.next_seq
      /\ c.buffer_seq = b.buffer_seq
  BY DEF BufferMgmt
<1>2. b' = Discard(c) /\ usb' = usb BY DEF InvalidateEpoch
<1> HIDE DEF c
<1>3. d \in BufferMgmt BY <1>1, FreeCompletedType
<1>4. /\ d.reorder = b.reorder /\ d.expected_seq = b.expected_seq
      /\ d.next_seq = b.next_seq /\ d.buffer_seq = b.buffer_seq
      /\ d.status = [i \in Slots |->
                       IF i \in {k \in HeldSlots(c) : c.status[k] = "IN_FLIGHT"}
                             \cup {k \in Slots : c.status[k] \in {"FULL", "PARTIAL"}}
                       THEN "EMPTY" ELSE c.status[i]]
  BY <1>1 DEF FreeCompleted, BufferMgmt
<1>5. PICK x \in OwnedIn(usb) : b.buffer_seq[x] = b.expected_seq
  BY ExpectedCarried
<1>6. x \in Slots /\ usb[x] = 1 /\ b.status[x] = "IN_FLIGHT"
  BY DEF Sound, OwnedIn
<1>7. \A i \in HeldSlots(c) : usb[i] = 0 BY <1>1 DEF Sound, HeldSlots
<1>8. d.status[x] = "IN_FLIGHT" BY <1>1, <1>4, <1>6, <1>7
<1>9. b.expected_seq \in Seqs /\ d.buffer_seq \in [Slots -> Seqs]
  BY <1>3, HeldTypes
<1>10. Dist(d.buffer_seq[x], d.expected_seq) = 0
  BY <1>4, <1>5, <1>9, DistValue
<1>11. x \in F BY <1>6, <1>8, <1>10, SeqSizes
<1> HIDE DEF d
<1>12. o \in F /\ Dist(d.buffer_seq[o], d.expected_seq) = 0
  <2> DEFINE h == [i \in F |-> Dist(d.buffer_seq[i], d.expected_seq)]
  <2>1. F \in SUBSET Slots OBVIOUS
  <2>2. \A i \in F : Dist(d.buffer_seq[i], d.expected_seq) \in Nat
    BY <1>4, <1>9, <2>1, Wrapped
  <2>3. h \in [F -> Nat] BY <2>2
  <2>4. \E i \in F : \A j \in F : h[i] < h[j] \/ (h[i] = h[j] /\ i <= j)
    <3> HIDE DEF F, h
    <3> QED BY <1>11, <2>1, <2>3, LeastSlot
  <2>5. \E i \in F : \A j \in F :
          \/ Dist(d.buffer_seq[i], d.expected_seq)
               < Dist(d.buffer_seq[j], d.expected_seq)
          \/ /\ Dist(d.buffer_seq[i], d.expected_seq)
                  = Dist(d.buffer_seq[j], d.expected_seq)
             /\ i <= j
    BY <2>4
  <2>6. o \in F /\ \A j \in F :
          \/ Dist(d.buffer_seq[o], d.expected_seq)
               < Dist(d.buffer_seq[j], d.expected_seq)
          \/ /\ Dist(d.buffer_seq[o], d.expected_seq)
                  = Dist(d.buffer_seq[j], d.expected_seq)
             /\ o <= j
    BY <1>11, <2>5 DEF OldestInFlight
  <2> HIDE DEF F, o
  <2> QED BY <1>10, <1>11, <2>2, <2>6
<1>13. o \in Slots /\ o # NoSlot
  <2>1. o \in Slots BY <1>12
  <2> QED BY <2>1, SeqSizes DEF Slots, NoSlot
<1>14. d.buffer_seq[o] = b.expected_seq
  <2>1. d.buffer_seq[o] \in Seqs BY <1>9, <1>13
  <2> QED BY <1>4, <1>9, <1>12, <2>1, DistValue
<1> HIDE DEF o
<1>15. b' = [d EXCEPT !.expected_seq = d.buffer_seq[o], !.cons_i = o,
                      !.partial_off = 0, !.reorder = {}]
  BY <1>2, <1>13 DEF Discard, d, o
<1>16. /\ b'.reorder = {} /\ b'.expected_seq = b.expected_seq
       /\ b'.next_seq = b.next_seq /\ b'.buffer_seq = b.buffer_seq
  BY <1>3, <1>4, <1>14, <1>15 DEF BufferMgmt
<1>17. b.reorder = {}
  <2>1. CASE b.reorder # {}
    <3>1. g' = Note(b', {"forgotten"}, FALSE) BY <1>16, <2>1 DEF InvalidateEpoch
    <3>2. "forgotten" \in g'.past BY <3>1 DEF Note, Ghosts
    <3> QED BY <3>2 DEF Steady, Unusual
  <2> QED BY <2>1
<1>18. g'.past = g.past
  <2>1. g' = Note(b', {}, FALSE) BY <1>17 DEF InvalidateEpoch
  <2> QED BY <2>1 DEF Note, Ghosts
<1> QED BY <1>2, <1>16, <1>17, <1>18, NoHoleFrame

\* The USB thread adds nothing to the past but numbers it could not track.
LEMMA UsbThreadPast ==
  ASSUME TypeOK, UsbThread
  PROVE  g'.past \subseteq g.past \cup {"forwarded", "stranded", "untracked"}
<1>1. g \in Ghosts BY DEF TypeOK
<1>3. ASSUME NEW i \in Slots, RxCallbackStore(i)
      PROVE  g'.past \subseteq g.past \cup {"forwarded"}
  <2>1. g' = Note(b', {"forwarded"}, TRUE) \/ g' = Note(b', {}, FALSE)
    BY <1>3 DEF RxCallbackStore
  <2> QED BY <1>1, <2>1 DEF Note, Ghosts
<1>4. ASSUME NEW i \in Slots, RxCallbackNoData(i)
      PROVE  g'.past \subseteq g.past \cup {"stranded"}
  BY <1>1, <1>4 DEF RxCallbackNoData, Note, Ghosts
<1>5. ASSUME NEW i \in Slots, RxCallbackRingFull(i) PROVE g'.past = g.past
  <2>1. g' = Note(b', {}, TRUE) BY <1>5 DEF RxCallbackRingFull
  <2> QED BY <1>1, <2>1 DEF Note, Ghosts
<1>6. ASSUME NEW i \in Slots, NEW quiet \in BOOLEAN, RxBufferRejected(i, quiet)
      PROVE  g'.past \subseteq g.past \cup {"untracked"}
  <2>1. g' = Note(b', {"untracked"}, FALSE) \/ g' = Note(b', {}, FALSE)
    BY <1>6 DEF RxBufferRejected
  <2> QED BY <1>1, <2>1 DEF Note, Ghosts
<1>7. ASSUME RxEventCallback PROVE g' = g BY <1>7 DEF RxEventCallback
<1> QED BY <1>3, <1>4, <1>5, <1>6, <1>7 DEF UsbThread

\* The reader adds nothing to the past but blind claims.
LEMMA ReaderPast ==
  ASSUME TypeOK, ReaderStep \/ Application
  PROVE  g'.past \subseteq g.past \cup {"blind"}
<1>1. g \in Ghosts BY DEF TypeOK
<1>2. \A new : Note(new, {}, FALSE).past = g.past BY <1>1 DEF Note, Ghosts
<1>3. CASE WaitForBuffer \/ UsingBuffer \/ UsingBufferMeta \/ UsingPacketMeta
  BY <1>2, <1>3 DEF WaitForBuffer, UsingBuffer, UsingBufferMeta, UsingPacketMeta
<1>4. CASE WakeUp \/ BufferReady \/ Out
  BY <1>1, <1>4 DEF WakeUp, BufferReady, Out, Ghosts
<1>5. CASE LoopTop \/ CheckWorker \/ ResetBufMgmt \/ StartWorker
           \/ WorkerStarted \/ StartTimedOut \/ TimedOut
  BY <1>5 DEF LoopTop, CheckWorker, ResetBufMgmt, StartWorker,
       WorkerStarted, StartTimedOut, TimedOut
<1>6. CASE Application BY <1>1, <1>6 DEF Application, StartRead, Ghosts
<1> QED BY <1>3, <1>4, <1>5, <1>6 DEF ReaderStep

LEMMA HoleStep ==
  ASSUME HInv, [Next]_vars
  PROVE  HInv'
<1> USE DEF HInv
<1>1. AInv' BY AccountStep
<1>2. ASSUME (worker = "RUNNING")', Steady'
      PROVE  "unanchored" \notin g'.past /\ NoHole(b', usb')
  <2>1. TypeOK BY DEF AInv, IInv
  <2>2. CASE ExecIdleState
    <3>1. "unanchored" \notin g'.past BY <2>1, <2>2 DEF ExecIdleState, TypeOK, Ghosts
    <3> QED BY <2>1, <2>2, <3>1, StartNoHole
  <2>3. CASE ~ExecIdleState
    <3>1. Steady BY <1>2, <2>1, <2>3, PastGrows DEF Steady, Unusual
    <3>2. ASSUME worker = "RUNNING"
          PROVE  /\ "unanchored" \notin g.past /\ NoHole(b, usb) /\ Sound(b, usb)
                 /\ Cardinality(OwnedIn(usb)) = T
      <4>1. "unanchored" \notin g.past /\ NoHole(b, usb) BY <3>1, <3>2
      <4>2. Ordinary /\ Regular
        BY <3>1, <4>1 DEF Steady, Ordinary, Regular, Unusual
      <4> QED BY <3>2, <4>1, <4>2 DEF AInv, IInv
    <3>3. CASE ExecRunningState BY <1>2, <3>3 DEF ExecRunningState
    <3>4. CASE WorkerBackToIdle BY <1>2, <3>4 DEF WorkerBackToIdle
    <3>5. CASE UsbThread
      <4>1. worker = "RUNNING"
        BY <3>5 DEF UsbThread, RxCallbackStore, RxCallbackNoData,
             RxCallbackRingFull, RxBufferRejected, RxEventCallback, Completes
      <4>2. "unanchored" \notin g'.past BY <2>1, <3>2, <3>5, <4>1, UsbThreadPast
      <4> QED BY <1>2, <2>1, <3>2, <3>5, <4>1, <4>2, UsbThreadNoHole
    <3>6. CASE ReaderStep \/ Application
      <4>1. NoHole(b', usb')
        BY <1>2, <2>1, <3>2, <3>6, ReaderNumbers, NoHoleFrame
      <4>2. worker = "RUNNING" BY <1>2, <2>1, <3>6, ReaderNumbers
      <4>3. "unanchored" \notin g'.past
        BY <2>1, <3>2, <3>6, <4>2, ReaderPast
      <4> QED BY <4>1, <4>3
    <3>7. CASE Control
      <4>1. worker' = worker
        BY <3>7 DEF Control, RevokeEpoch, InvalidateEpoch, StageFpgaLoss,
             PrimeCheck, PrimeSubmit
      <4>2. CASE InvalidateEpoch BY <1>2, <2>1, <3>2, <4>1, <4>2, FenceNoHole
      <4>3. CASE StageFpgaLoss
        <5>1. /\ b'.reorder = b.reorder /\ b'.expected_seq = b.expected_seq
              /\ b'.next_seq = b.next_seq /\ b'.buffer_seq = b.buffer_seq
              /\ usb' = usb /\ g' = g
          BY <2>1, <4>3 DEF StageFpgaLoss, TypeOK, BufferMgmt
        <5> QED BY <1>2, <3>2, <4>1, <5>1, NoHoleFrame
      <4>4. CASE RevokeEpoch \/ PrimeCheck \/ PrimeSubmit
        BY <1>2, <3>2, <4>1, <4>4 DEF RevokeEpoch, PrimeCheck, PrimeSubmit
      <4> QED BY <3>7, <4>2, <4>3, <4>4 DEF Control
    <3>8. CASE WaitExpires \/ SpuriousWakeup \/ UNCHANGED vars
      BY <1>2, <3>2, <3>8 DEF WaitExpires, SpuriousWakeup, vars
    <3> QED BY <2>3, <3>3, <3>4, <3>5, <3>6, <3>7, <3>8 DEF Next, Worker
  <2> QED BY <2>2, <2>3
<1> QED BY <1>1, <1>2

\* The number the ring waits for is always carried by a live USB transfer: no
\* order of completions, rejections, tombstones and fences leaves a hole that
\* nothing will retire, and the window of numbers never meets itself where the
\* uint32_t wraps (flush_reorder_entries(), retire_dropped_sequence(),
\* hold_out_of_order_buffer(), sync_worker_discard_rx_epoch()).
THEOREM NoHoleForms == Spec => []NoSequenceHole
<1>1. Init => HInv
  <2>1. Init => AInv BY OwnershipInit DEF Init, AInv
  <2> QED BY <2>1 DEF Init, HInv
<1>2. HInv /\ [Next]_vars => HInv' BY HoleStep
<1>3. HInv => NoSequenceHole
  <2> SUFFICES ASSUME HInv, worker = "RUNNING", Steady
               PROVE  \E i \in Owned : b.buffer_seq[i] = b.expected_seq
    BY DEF NoSequenceHole, Steady
  <2>1. "unanchored" \notin g.past /\ NoHole(b, usb) BY DEF HInv
  <2>2. Ordinary BY <2>1 DEF Steady, Ordinary, Unusual
  <2>3. TypeOK /\ Cardinality(OwnedIn(usb)) = T BY <2>2 DEF HInv, AInv, IInv
  <2>4. Owned = OwnedIn(usb) BY DEF Owned, OwnedIn
  <2> QED BY <2>1, <2>3, <2>4, ExpectedCarried DEF TypeOK
<1> QED BY <1>1, <1>2, <1>3, PTL DEF Spec

-----------------------------------------------------------------------------
(* Buffers are delivered in order.                                          *)
(*                                                                          *)
(* The ring is described by age, counted on the circle from the number      *)
(* delivered last: first what is FULL, then expected_seq, then what is in   *)
(* flight or held, then next_seq (Sorted).  The slot the reader claimed is  *)
(* the oldest (Claimed), and a fence that finds payloads held also finds a  *)
(* transfer to start again from (Anchored).  The search for the oldest slot *)
(* takes a number more than half the circle ahead for one behind, so the    *)
(* numbers passed since the last delivery are counted (Room): each needs a  *)
(* slot, a loss, or the slots that a purge or a fence threw away.           *)

\* Slots that carry a number the reader has still to see, now or later.  X: the
\* slot a callback has in its hands.
Busy(bb, old, X) ==
  {i \in Slots \ X : \/ bb.status[i] = "IN_FLIGHT"
                     \/ bb.status[i] = "FULL" /\ i \notin old}

\* What an ended stream left behind has the number START resets to.
Leftover(bb, l, old) ==
  \A i \in old : /\ i \in Slots /\ bb.status[i] \in {"FULL", "PARTIAL"}
                 /\ bb.buffer_seq[i] = l

\* By age, from the number delivered last, l: first what is FULL, then
\* expected_seq, then what is in flight or held, then next_seq.
Aged(bb, l, old, X) ==
  /\ 1 <= Dist(bb.expected_seq, l)
  /\ Dist(bb.expected_seq, l) <= Dist(bb.next_seq, l)
  /\ \A i \in Busy(bb, old, X) :
       IF bb.status[i] = "FULL"
       THEN /\ 1 <= Dist(bb.buffer_seq[i], l)
            /\ Dist(bb.buffer_seq[i], l) < Dist(bb.expected_seq, l)
       ELSE /\ Dist(bb.expected_seq, l) <= Dist(bb.buffer_seq[i], l)
            /\ Dist(bb.buffer_seq[i], l) < Dist(bb.next_seq, l)
  /\ \A r \in bb.reorder : /\ Dist(bb.expected_seq, l) <= Dist(r.seq, l)
                           /\ Dist(r.seq, l) < Dist(bb.next_seq, l)

OneEach(bb, old, X) ==
  \A i, j \in Busy(bb, old, X) : bb.buffer_seq[i] = bb.buffer_seq[j] => i = j

\* An entry of reorder[] has the number of its slot, a drop marker one of its own.
Labelled(bb, old, X) ==
  \A r \in bb.reorder :
    IF r.dropped
    THEN \A i \in Busy(bb, old, X) : bb.buffer_seq[i] # r.seq
    ELSE r.idx \notin X /\ bb.buffer_seq[r.idx] = r.seq

Sorted(bb, l, old, X) ==
  Leftover(bb, l, old) /\ Aged(bb, l, old, X) /\ OneEach(bb, old, X)
    /\ Labelled(bb, old, X)

\* Slots become FULL, and none that is older than expected_seq.
Ripens(bb, cc, l, X) ==
  /\ cc.buffer_seq = bb.buffer_seq /\ cc.next_seq = bb.next_seq
  /\ cc.cons_i = bb.cons_i
  /\ Dist(bb.expected_seq, l) <= Dist(cc.expected_seq, l)
  /\ \A i \in Slots :
       \/ cc.status[i] = bb.status[i]
       \/ /\ i \notin X /\ bb.status[i] = "IN_FLIGHT" /\ cc.status[i] = "FULL"
          /\ Dist(bb.expected_seq, l) <= Dist(bb.buffer_seq[i], l)

\* No slot and no entry but the one in hand has number s.
Loose(bb, old, X, s) ==
  /\ \A i \in Busy(bb, old, X) : bb.buffer_seq[i] # s
  /\ \A r \in bb.reorder : r.seq # s

\* While something is held, a slot is in flight that is not held: a fence finds it.
Anchored(bb) ==
  bb.reorder # {} =>
    \E i \in Slots : bb.status[i] = "IN_FLIGHT" /\ i \notin HeldSlots(bb)

\* The slot the reader claimed is the oldest one that is ready.
Claimed(st, bb, l, old) ==
  st = "BUFFER_READY" /\ bb.cons_i \notin old =>
    \A j \in Slots : bb.status[j] = "FULL" =>
      /\ j \notin old
      /\ Dist(bb.buffer_seq[bb.cons_i], l) <= Dist(bb.buffer_seq[j], l)

Spare(bb, old) == Slots \ Busy(bb, old, {})

\* How many numbers may have passed since the last delivery: one per slot, one
\* per loss, and the slots a purge or a fence throws away.
Allowance(c) == 3 * N + 1 + (N + 1) * (c.lost + c.fences)

Room(bb, l, old, f, c) ==
  Dist(bb.next_seq, l) + Cardinality(Spare(bb, old))
      + (IF bb.stale_pending THEN N ELSE 0) + (IF f THEN N ELSE 0)
    <= Allowance(c)

Ordered(bb, st, l, old, f, c) ==
  /\ Sorted(bb, l, old, {}) /\ Anchored(bb)
  /\ Claimed(st, bb, l, old) /\ Room(bb, l, old, f, c)

\* Numbers wrap late enough to tell older from newer.
Roomy == 3 * N + 1 + (N + 1) * (MaxLost + MaxFences) <= (SeqMod - 1) \div 2

InOrder == Ordered(b, state, g.last, g.old, fence, cnt)

\* Distances add up along the circle.
LEMMA DistBetween ==
  ASSUME NEW s \in Seqs, NEW t \in Seqs, NEW l \in Seqs
  PROVE  Dist(s, t) = IF Dist(t, l) <= Dist(s, l) THEN Dist(s, l) - Dist(t, l)
                      ELSE Dist(s, l) - Dist(t, l) + SeqMod
<1>1. PICK k \in 0 .. SeqMod-1 : k = Dist(t, l) BY DistValue
<1>2. (l + k) % SeqMod = t BY <1>1, DistDetermines
<1>3. Dist(s, l) \in 0 .. SeqMod-1 BY DistValue
<1>4. CASE k <= Dist(s, l)
  <2>1. Dist(s, (l + k) % SeqMod) = Dist(s, l) - k BY <1>4, DistShift
  <2> QED BY <1>1, <1>2, <1>4, <2>1
<1>5. CASE ~(k <= Dist(s, l))
  <2>1. k > Dist(s, l) BY <1>3, <1>5, SeqSizes
  <2>2. Dist(s, (l + k) % SeqMod) = Dist(s, l) - k + SeqMod BY <2>1, DistShiftPast
  <2> QED BY <1>1, <1>2, <1>5, <2>2
<1> QED BY <1>4, <1>5

\* m steps further, as long as they do not come round.
LEMMA DistSteps ==
  ASSUME NEW s \in Seqs, NEW l \in Seqs, NEW m \in Nat, Dist(s, l) + m <= SeqMod - 1
  PROVE  Dist((s + m) % SeqMod, l) = Dist(s, l) + m
<1>1. PICK k \in 0 .. SeqMod-1 : k = Dist(s, l) BY DistValue
<1>2. m \in 0 .. SeqMod-1 /\ k + m \in 0 .. SeqMod-1 BY <1>1, SeqSizes
<1>3. PICK p \in Seqs : p = (s + m) % SeqMod BY <1>2, StepsValue
<1>4. Dist(p, s) = m BY <1>2, <1>3, StepsValue
<1>5. PICK j \in 0 .. SeqMod-1 : j = k + m BY <1>2
<1>6. PICK q \in Seqs : q = (l + j) % SeqMod /\ Dist(q, l) = j BY StepsValue
<1>7. Dist(q, s) = m
  <2>1. Dist(s, l) <= Dist(q, l) BY <1>1, <1>5, <1>6, SeqSizes
  <2>2. Dist(q, s) = Dist(q, l) - Dist(s, l) BY <2>1, DistBetween
  <2> QED BY <1>1, <1>5, <1>6, <2>2, SeqSizes
<1>8. p = q BY <1>4, <1>7, DistDetermines
<1> QED BY <1>1, <1>3, <1>5, <1>6, <1>8

\* Releasing a run keeps the order: what becomes FULL is younger than all that
\* was FULL, and older than what is still in flight.
LEMMA FlushSorted ==
  ASSUME NEW bb \in BufferMgmt, NEW u \in [Slots -> Nat], Sound(bb, u),
         NEW l \in Seqs, NEW old, NEW X, Sorted(bb, l, old, X)
  PROVE  Sorted(Flush(bb), l, old, X) /\ Ripens(bb, Flush(bb), l, X)
<1> USE DEF Sorted
<1> DEFINE c == Flush(bb)
           x == bb.expected_seq
<1>1. /\ x \in Seqs /\ bb.next_seq \in Seqs /\ HeldSeqs(bb) \in SUBSET Seqs
      /\ \A i \in Slots : bb.buffer_seq[i] \in Seqs
      /\ \A r \in bb.reorder : r.seq \in Seqs /\ r.seq \in HeldSeqs(bb)
  BY HeldTypes DEF BufferMgmt, Entries, HeldSeqs
<1>2. \A s \in Seqs : Dist(s, l) \in Int /\ 0 <= Dist(s, l) /\ Dist(s, l) <= SeqMod-1
  BY DistValue, SeqSizes
<1>3. bb.next_seq \notin HeldSeqs(bb) BY <1>1, <1>2 DEF Aged, HeldSeqs
<1>4. PICK m \in Nat :
        /\ m <= Dist(bb.next_seq, x) /\ m < SeqMod
        /\ c.expected_seq = (x + m) % SeqMod
        /\ \A s \in Seqs : Dist(s, x) < m => s \in HeldSeqs(bb)
        /\ \A e \in bb.reorder : e \in Run(bb) <=> Dist(e.seq, x) < m
  BY <1>1, <1>3, FlushRun
<1>5. Dist(bb.next_seq, x) = Dist(bb.next_seq, l) - Dist(x, l)
  BY <1>1, DistBetween DEF Aged
<1>6. Dist(x, l) + m <= Dist(bb.next_seq, l) BY <1>1, <1>2, <1>4, <1>5
<1>7. Dist(c.expected_seq, l) = Dist(x, l) + m
  <2>1. Dist(x, l) + m <= SeqMod - 1 BY <1>1, <1>2, <1>6, SeqSizes
  <2> QED BY <1>1, <1>4, <2>1, DistSteps
<1>8. /\ c.status = [i \in Slots |-> IF \E e \in Run(bb) : ~e.dropped /\ e.idx = i
                                     THEN "FULL" ELSE bb.status[i]]
      /\ c.reorder = bb.reorder \ Run(bb) /\ c.cons_i = bb.cons_i
      /\ c.next_seq = bb.next_seq /\ c.buffer_seq = bb.buffer_seq
  BY DEF Flush, BufferMgmt
<1>9. Run(bb) \subseteq bb.reorder BY DEF Run
<1>10. \A s \in Seqs : Dist(x, l) <= Dist(s, l) =>
         (Dist(s, x) < m <=> Dist(s, l) < Dist(c.expected_seq, l))
  <2> SUFFICES ASSUME NEW s \in Seqs, Dist(x, l) <= Dist(s, l)
               PROVE  Dist(s, x) < m <=> Dist(s, l) < Dist(c.expected_seq, l)
    OBVIOUS
  <2>1. Dist(s, x) = Dist(s, l) - Dist(x, l) BY <1>1, DistBetween
  <2> QED BY <1>1, <1>2, <1>7, <2>1
<1> HIDE DEF c
<1>11. \A r \in bb.reorder : r \in Run(bb) <=> Dist(r.seq, l) < Dist(c.expected_seq, l)
  BY <1>1, <1>4, <1>10 DEF Aged
<1>12. \A r \in bb.reorder : ~r.dropped =>
         /\ r.idx \in Slots /\ bb.status[r.idx] = "IN_FLIGHT"
         /\ r.idx \in Busy(bb, old, X) /\ bb.buffer_seq[r.idx] = r.seq
  BY DEF Sound, Labelled, Busy
<1>13. ASSUME NEW i \in Slots, bb.status[i] # "IN_FLIGHT" \/ i \in X
       PROVE  c.status[i] = bb.status[i]
  BY <1>8, <1>9, <1>12, <1>13 DEF Busy
<1>14. ASSUME NEW i \in Slots, bb.status[i] = "IN_FLIGHT", i \notin X
       PROVE  /\ i \in Busy(bb, old, X) /\ Dist(x, l) <= Dist(bb.buffer_seq[i], l)
              /\ Dist(bb.buffer_seq[i], l) < Dist(bb.next_seq, l)
              /\ c.status[i] = IF Dist(bb.buffer_seq[i], l) < Dist(c.expected_seq, l)
                               THEN "FULL" ELSE "IN_FLIGHT"
  <2>1. i \in Busy(bb, old, X) BY <1>14 DEF Busy
  <2>2. /\ Dist(x, l) <= Dist(bb.buffer_seq[i], l)
        /\ Dist(bb.buffer_seq[i], l) < Dist(bb.next_seq, l)
    BY <1>14, <2>1 DEF Aged
  <2>3. CASE Dist(bb.buffer_seq[i], l) < Dist(c.expected_seq, l)
    <3>1. bb.buffer_seq[i] \in HeldSeqs(bb) BY <1>1, <1>4, <1>10, <2>2, <2>3
    <3>2. PICK r \in bb.reorder : r.seq = bb.buffer_seq[i] BY <3>1 DEF HeldSeqs
    <3>3. ~r.dropped BY <2>1, <3>2 DEF Labelled
    <3>4. r.idx = i BY <1>12, <2>1, <3>2, <3>3 DEF OneEach
    <3>5. r \in Run(bb) BY <1>11, <2>3, <3>2
    <3> QED BY <1>8, <2>1, <2>2, <2>3, <3>3, <3>4, <3>5
  <2>4. CASE ~(Dist(bb.buffer_seq[i], l) < Dist(c.expected_seq, l))
    <3>1. ASSUME NEW r \in Run(bb), ~r.dropped, r.idx = i PROVE FALSE
      BY <1>9, <1>11, <1>12, <2>4, <3>1
    <3> QED BY <1>8, <1>14, <2>1, <2>2, <2>4, <3>1
  <2> QED BY <2>3, <2>4
<1>15. \A i \in old : bb.status[i] # "IN_FLIGHT" /\ i \in Slots
  BY DEF Leftover
<1>16. Leftover(c, l, old) BY <1>8, <1>13, <1>15 DEF Leftover
<1>17. Busy(c, old, X) = Busy(bb, old, X)
  BY <1>13, <1>14, <1>15 DEF Busy
<1>18. Aged(c, l, old, X)
  <2>1. 1 <= Dist(c.expected_seq, l) /\ Dist(c.expected_seq, l) <= Dist(c.next_seq, l)
    BY <1>1, <1>2, <1>6, <1>7, <1>8 DEF Aged
  <2>2. ASSUME NEW i \in Busy(c, old, X)
        PROVE  IF c.status[i] = "FULL"
               THEN /\ 1 <= Dist(c.buffer_seq[i], l)
                    /\ Dist(c.buffer_seq[i], l) < Dist(c.expected_seq, l)
               ELSE /\ Dist(c.expected_seq, l) <= Dist(c.buffer_seq[i], l)
                    /\ Dist(c.buffer_seq[i], l) < Dist(c.next_seq, l)
    <3>1. i \in Slots /\ i \notin X /\ i \in Busy(bb, old, X) /\ bb.buffer_seq[i] \in Seqs
      BY <1>1, <1>17 DEF Busy
    <3>2. CASE bb.status[i] = "IN_FLIGHT"
      <4>1. 1 <= Dist(x, l) BY DEF Aged
      <4> QED BY <1>1, <1>2, <1>4, <1>7, <1>8, <1>14, <3>1, <3>2, <4>1
    <3>3. CASE bb.status[i] # "IN_FLIGHT"
      <4>1. bb.status[i] = "FULL" /\ c.status[i] = "FULL" BY <1>13, <3>1, <3>3 DEF Busy
      <4>2. 1 <= Dist(bb.buffer_seq[i], l) /\ Dist(bb.buffer_seq[i], l) < Dist(x, l)
        BY <3>1, <4>1 DEF Aged
      <4> QED BY <1>1, <1>2, <1>4, <1>7, <1>8, <3>1, <4>1, <4>2
    <3> QED BY <3>2, <3>3
  <2>3. ASSUME NEW r \in c.reorder
        PROVE  /\ Dist(c.expected_seq, l) <= Dist(r.seq, l)
               /\ Dist(r.seq, l) < Dist(c.next_seq, l)
    <3>1. r \in bb.reorder /\ r \notin Run(bb) BY <1>8
    <3>2. ~(Dist(r.seq, l) < Dist(c.expected_seq, l)) BY <1>11, <3>1
    <3>3. Dist(r.seq, l) < Dist(bb.next_seq, l) BY <3>1 DEF Aged
    <3>4. Dist(c.expected_seq, l) \in Int /\ Dist(r.seq, l) \in Int
      BY <1>1, <1>2, <1>4, <1>7, <3>1
    <3> QED BY <1>8, <3>2, <3>3, <3>4
  <2> QED BY <2>1, <2>2, <2>3 DEF Aged
<1>19. OneEach(c, old, X) BY <1>8, <1>17 DEF OneEach
<1>20. Labelled(c, old, X) BY <1>8, <1>17 DEF Labelled
<1>21. Ripens(bb, c, l, X)
  <2>1. ASSUME NEW i \in Slots
        PROVE  \/ c.status[i] = bb.status[i]
               \/ /\ i \notin X /\ bb.status[i] = "IN_FLIGHT" /\ c.status[i] = "FULL"
                  /\ Dist(bb.expected_seq, l) <= Dist(bb.buffer_seq[i], l)
    <3>1. CASE bb.status[i] # "IN_FLIGHT" \/ i \in X BY <1>13, <3>1
    <3>2. CASE bb.status[i] = "IN_FLIGHT" /\ i \notin X BY <1>14, <3>2
    <3> QED BY <3>1, <3>2
  <2>2. Dist(x, l) <= Dist(c.expected_seq, l) BY <1>1, <1>2, <1>4, <1>7
  <2> QED BY <1>8, <2>1, <2>2 DEF Ripens
<1> QED BY <1>16, <1>18, <1>19, <1>20, <1>21 DEF c

\* The order only looks at these fields.
LEMMA SortedFrame ==
  ASSUME NEW bb, NEW cc, NEW l, NEW old, NEW X, Sorted(bb, l, old, X),
         cc.status = bb.status, cc.buffer_seq = bb.buffer_seq,
         cc.expected_seq = bb.expected_seq, cc.next_seq = bb.next_seq,
         cc.reorder = bb.reorder
  PROVE  Sorted(cc, l, old, X)
<1>1. Busy(cc, old, X) = Busy(bb, old, X) BY DEF Busy
<1> QED BY <1>1 DEF Sorted, Leftover, Aged, OneEach, Labelled

LEMMA Ages ==
  ASSUME NEW bb \in BufferMgmt, NEW l \in Seqs
  PROVE  /\ bb.expected_seq \in Seqs /\ bb.next_seq \in Seqs
         /\ \A i \in Slots : bb.buffer_seq[i] \in Seqs
         /\ \A r \in bb.reorder : r.seq \in Seqs
         /\ \A s \in Seqs : /\ Dist(s, l) \in Int
                            /\ 0 <= Dist(s, l) /\ Dist(s, l) <= SeqMod-1
         /\ \A s, t \in Seqs : Dist(s, l) = Dist(t, l) => s = t
<1>1. \A s, t \in Seqs : Dist(s, l) = Dist(t, l) => s = t BY DistDetermines
<1>2. \A s \in Seqs : Dist(s, l) \in Int /\ 0 <= Dist(s, l) /\ Dist(s, l) <= SeqMod-1
  BY DistValue, SeqSizes
<1> QED BY <1>1, <1>2 DEF BufferMgmt, Entries

\* The slot of a transfer that completed: nothing else has its number.
LEMMA InHand ==
  ASSUME NEW bb \in BufferMgmt, NEW u \in [Slots -> Nat], Sound(bb, u),
         NEW l \in Seqs, NEW old, Sorted(bb, l, old, {}),
         NEW i \in Slots, u[i] = 1
  PROVE  /\ Sorted(bb, l, old, {i}) /\ Loose(bb, old, {i}, bb.buffer_seq[i])
         /\ Dist(bb.expected_seq, l) <= Dist(bb.buffer_seq[i], l)
         /\ Dist(bb.buffer_seq[i], l) < Dist(bb.next_seq, l)
         /\ i \in Busy(bb, old, {}) /\ i \notin old /\ bb.status[i] = "IN_FLIGHT"
<1> USE DEF Sorted
<1>1. bb.status[i] = "IN_FLIGHT" BY DEF Sound
<1>2. i \in Busy(bb, old, {}) BY <1>1 DEF Busy
<1>3. Busy(bb, old, {i}) = Busy(bb, old, {}) \ {i} BY DEF Busy
<1>4. i \notin old BY <1>1 DEF Leftover
<1>5. \A r \in bb.reorder : ~r.dropped =>
        /\ r.idx \in Slots /\ r.idx # i /\ r.idx \in Busy(bb, old, {})
        /\ bb.buffer_seq[r.idx] = r.seq
  BY DEF Sound, Labelled, Busy
<1>6. Loose(bb, old, {i}, bb.buffer_seq[i])
  <2>1. \A j \in Busy(bb, old, {i}) : bb.buffer_seq[j] # bb.buffer_seq[i]
    BY <1>2, <1>3 DEF OneEach
  <2>2. \A r \in bb.reorder : r.seq # bb.buffer_seq[i]
    BY <1>2, <1>5 DEF OneEach, Labelled
  <2> QED BY <2>1, <2>2 DEF Loose
<1>7. Aged(bb, l, old, {i}) BY <1>3 DEF Aged
<1>8. OneEach(bb, old, {i}) BY <1>3 DEF OneEach
<1>9. Labelled(bb, old, {i}) BY <1>3, <1>5 DEF Labelled
<1>10. /\ Dist(bb.expected_seq, l) <= Dist(bb.buffer_seq[i], l)
       /\ Dist(bb.buffer_seq[i], l) < Dist(bb.next_seq, l)
  BY <1>1, <1>2 DEF Aged
<1> QED BY <1>1, <1>2, <1>4, <1>6, <1>7, <1>8, <1>9, <1>10

\* expected_seq steps over a number nothing has any more, and what is held
\* behind it is released.
LEMMA RetireExpectedSorted ==
  ASSUME NEW bb \in BufferMgmt, NEW u \in [Slots -> Nat], Sound(bb, u),
         NEW l \in Seqs, NEW old, NEW X, Sorted(bb, l, old, X),
         Loose(bb, old, X, bb.expected_seq),
         Dist(bb.expected_seq, l) < Dist(bb.next_seq, l)
  PROVE  LET c == RetireExpected(bb) IN
         /\ Sorted(c, l, old, X) /\ Ripens(bb, c, l, X)
         /\ Dist(bb.expected_seq, l) < Dist(c.expected_seq, l)
         /\ c.reorder \subseteq bb.reorder
<1> DEFINE d == [bb EXCEPT !.expected_seq = Incr(@)]
           x == bb.expected_seq
<1>0. x \in Seqs BY DEF BufferMgmt
<1>1. /\ d \in BufferMgmt /\ d.expected_seq = Incr(x)
      /\ d.next_seq = bb.next_seq /\ d.reorder = bb.reorder
      /\ d.buffer_seq = bb.buffer_seq /\ d.status = bb.status /\ d.cons_i = bb.cons_i
  BY Wrapped DEF BufferMgmt
<1>2. /\ bb.next_seq \in Seqs
      /\ \A i \in Slots : bb.buffer_seq[i] \in Seqs
      /\ \A r \in bb.reorder : r.seq \in Seqs
      /\ \A s \in Seqs : Dist(s, l) \in Int /\ 0 <= Dist(s, l) /\ Dist(s, l) <= SeqMod-1
      /\ \A s, t \in Seqs : Dist(s, l) = Dist(t, l) => s = t
  BY Ages
<1>3. Dist(Incr(x), l) = Dist(x, l) + 1
  <2>1. Dist(x, l) < SeqMod - 1 BY <1>0, <1>2, SeqSizes
  <2> QED BY <1>0, <2>1, DistIncr
<1> HIDE DEF d
<1>4. Busy(d, old, X) = Busy(bb, old, X) BY <1>1 DEF Busy
<1>5. Leftover(d, l, old) /\ OneEach(d, old, X) /\ Labelled(d, old, X)
  BY <1>1, <1>4 DEF Sorted, Leftover, OneEach, Labelled
<1>6. Aged(d, l, old, X)
  <2>1. 1 <= Dist(d.expected_seq, l) /\ Dist(d.expected_seq, l) <= Dist(d.next_seq, l)
    BY <1>0, <1>1, <1>2, <1>3 DEF Sorted, Aged
  <2>2. ASSUME NEW i \in Busy(d, old, X)
        PROVE  IF d.status[i] = "FULL"
               THEN /\ 1 <= Dist(d.buffer_seq[i], l)
                    /\ Dist(d.buffer_seq[i], l) < Dist(d.expected_seq, l)
               ELSE /\ Dist(d.expected_seq, l) <= Dist(d.buffer_seq[i], l)
                    /\ Dist(d.buffer_seq[i], l) < Dist(d.next_seq, l)
    <3>1. i \in Slots /\ i \in Busy(bb, old, X) /\ bb.buffer_seq[i] \in Seqs
      BY <1>2, <1>4 DEF Busy
    <3>2. bb.buffer_seq[i] # x BY <3>1 DEF Loose
    <3>3. Dist(bb.buffer_seq[i], l) # Dist(x, l) BY <1>0, <1>2, <3>1, <3>2
    <3>4. IF bb.status[i] = "FULL"
          THEN /\ 1 <= Dist(bb.buffer_seq[i], l)
               /\ Dist(bb.buffer_seq[i], l) < Dist(x, l)
          ELSE /\ Dist(x, l) <= Dist(bb.buffer_seq[i], l)
               /\ Dist(bb.buffer_seq[i], l) < Dist(bb.next_seq, l)
      BY <3>1 DEF Sorted, Aged
    <3> QED BY <1>0, <1>1, <1>2, <1>3, <3>1, <3>3, <3>4
  <2>3. ASSUME NEW r \in d.reorder
        PROVE  /\ Dist(d.expected_seq, l) <= Dist(r.seq, l)
               /\ Dist(r.seq, l) < Dist(d.next_seq, l)
    <3>1. r \in bb.reorder /\ r.seq \in Seqs /\ r.seq # x BY <1>1, <1>2 DEF Loose
    <3>2. Dist(r.seq, l) # Dist(x, l) BY <1>0, <1>2, <3>1
    <3>3. Dist(x, l) <= Dist(r.seq, l) /\ Dist(r.seq, l) < Dist(bb.next_seq, l)
      BY <3>1 DEF Sorted, Aged
    <3> QED BY <1>0, <1>1, <1>2, <1>3, <3>1, <3>2, <3>3
  <2> QED BY <2>1, <2>2, <2>3 DEF Aged
<1>7. Sound(d, u) BY <1>1, SoundFrame
<1>8. Sorted(d, l, old, X) BY <1>5, <1>6 DEF Sorted
<1>9. Sorted(Flush(d), l, old, X) /\ Ripens(d, Flush(d), l, X)
  BY <1>1, <1>7, <1>8, FlushSorted
<1>10. Dist(x, l) < Dist(Flush(d).expected_seq, l)
  <2>1. Flush(d) \in BufferMgmt BY <1>1, FlushType
  <2>2. Flush(d).expected_seq \in Seqs BY <2>1 DEF BufferMgmt
  <2> QED BY <1>0, <1>1, <1>2, <1>3, <1>9, <2>2 DEF Ripens
<1>11. Ripens(bb, Flush(d), l, X)
  <2>1. ASSUME NEW i \in Slots, Dist(d.expected_seq, l) <= Dist(d.buffer_seq[i], l)
        PROVE  Dist(x, l) <= Dist(bb.buffer_seq[i], l)
    BY <1>0, <1>1, <1>2, <1>3, <2>1
  <2>2. Flush(d) \in BufferMgmt BY <1>1, FlushType
  <2>3. Flush(d).expected_seq \in Seqs BY <2>2 DEF BufferMgmt
  <2>4. Dist(x, l) <= Dist(Flush(d).expected_seq, l) BY <1>0, <1>2, <1>10, <2>3
  <2> QED BY <1>1, <1>9, <2>1, <2>4 DEF Ripens
<1>12. Flush(d).reorder \subseteq bb.reorder BY <1>1 DEF Flush, BufferMgmt
<1> QED BY <1>9, <1>10, <1>11, <1>12 DEF RetireExpected, d

\* retire_dropped_sequence(): the slot's number is stepped over, or gets a
\* marker, or (reorder[] full) is not tracked any more.
LEMMA RetireDroppedSorted ==
  ASSUME NEW bb \in BufferMgmt, NEW u \in [Slots -> Nat], Sound(bb, u),
         NEW l \in Seqs, NEW old, Sorted(bb, l, old, {}),
         NEW i \in Slots, u[i] = 1
  PROVE  LET q == RetireDropped(bb, bb.buffer_seq[i]) IN
         Sorted(q, l, old, {i}) /\ Ripens(bb, q, l, {i})
<1> DEFINE s == bb.buffer_seq[i]
           e == [seq |-> s, idx |-> NoSlot, dropped |-> TRUE]
           c == [bb EXCEPT !.reorder = @ \cup {e}]
           n == NoteOverrun(bb)
<1>1. /\ Sorted(bb, l, old, {i}) /\ Loose(bb, old, {i}, s)
      /\ Dist(bb.expected_seq, l) <= Dist(s, l)
      /\ Dist(s, l) < Dist(bb.next_seq, l)
  BY InHand
<1>2. \A t \in Seqs : Dist(t, l) \in Int /\ Dist(t, l) <= Dist(t, l)
  BY Ages
<1>3. bb.expected_seq \in Seqs BY DEF BufferMgmt
<1>4. CASE s = bb.expected_seq
  <2>1. Sorted(RetireExpected(bb), l, old, {i}) /\ Ripens(bb, RetireExpected(bb), l, {i})
    BY <1>1, <1>4, RetireExpectedSorted
  <2> QED BY <1>4, <2>1 DEF RetireDropped
<1>5. CASE s # bb.expected_seq /\ Cardinality(bb.reorder) < MaxReorder
  <2>1. /\ c.status = bb.status /\ c.cons_i = bb.cons_i /\ c.buffer_seq = bb.buffer_seq
        /\ c.expected_seq = bb.expected_seq /\ c.next_seq = bb.next_seq
        /\ c.reorder = bb.reorder \cup {e}
    BY DEF BufferMgmt
  <2>2. e.seq = s /\ e.dropped OBVIOUS
  <2> HIDE DEF c, e
  <2>3. Busy(c, old, {i}) = Busy(bb, old, {i}) BY <2>1 DEF Busy
  <2>4. Leftover(c, l, old) /\ OneEach(c, old, {i})
    BY <1>1, <2>1, <2>3 DEF Sorted, Leftover, OneEach
  <2>5. Aged(c, l, old, {i}) BY <1>1, <2>1, <2>2, <2>3 DEF Sorted, Aged
  <2>6. Labelled(c, old, {i}) BY <1>1, <2>1, <2>2, <2>3 DEF Sorted, Labelled, Loose
  <2>7. Ripens(bb, c, l, {i}) BY <1>2, <1>3, <2>1 DEF Ripens
  <2>8. Sorted(c, l, old, {i}) /\ Ripens(bb, c, l, {i})
    BY <2>4, <2>5, <2>6, <2>7 DEF Sorted
  <2> QED BY <1>5, <2>8 DEF RetireDropped, c, e
<1>6. CASE s # bb.expected_seq /\ ~(Cardinality(bb.reorder) < MaxReorder)
  <2>1. /\ n.status = bb.status /\ n.cons_i = bb.cons_i /\ n.buffer_seq = bb.buffer_seq
        /\ n.expected_seq = bb.expected_seq /\ n.next_seq = bb.next_seq
        /\ n.reorder = bb.reorder
    BY DEF NoteOverrun, BufferMgmt
  <2> HIDE DEF n
  <2>2. Sorted(n, l, old, {i}) BY <1>1, <2>1, SortedFrame
  <2>3. Ripens(bb, n, l, {i}) BY <1>2, <1>3, <2>1 DEF Ripens
  <2> QED BY <1>6, <2>2, <2>3 DEF RetireDropped, n
<1> QED BY <1>4, <1>5, <1>6

\* The slot in hand is given back.
LEMMA GivenBack ==
  ASSUME NEW bb, NEW cc, NEW l, NEW old, NEW i \in Slots, Sorted(bb, l, old, {i}),
         i \notin old, cc.status[i] = "EMPTY",
         \A j \in Slots \ {i} : cc.status[j] = bb.status[j],
         cc.buffer_seq = bb.buffer_seq, cc.expected_seq = bb.expected_seq,
         cc.next_seq = bb.next_seq, cc.reorder = bb.reorder
  PROVE  Sorted(cc, l, old, {})
<1> USE DEF Sorted
<1>1. Busy(cc, old, {}) = Busy(bb, old, {i}) BY DEF Busy
<1>2. \A j \in Busy(cc, old, {}) : cc.status[j] = bb.status[j] BY <1>1 DEF Busy
<1>3. Leftover(cc, l, old) BY DEF Leftover
<1>4. Aged(cc, l, old, {}) BY <1>1, <1>2 DEF Aged
<1>5. OneEach(cc, old, {}) BY <1>1 DEF OneEach
<1>6. Labelled(cc, old, {}) BY <1>1 DEF Labelled
<1> QED BY <1>3, <1>4, <1>5, <1>6

\* The slot in hand is FULL, and expected_seq has passed it.
LEMMA MadeReady ==
  ASSUME NEW bb, NEW l, NEW old, NEW i \in Slots, Sorted(bb, l, old, {i}),
         i \notin old, bb.status[i] = "FULL", Loose(bb, old, {i}, bb.buffer_seq[i]),
         1 <= Dist(bb.buffer_seq[i], l),
         Dist(bb.buffer_seq[i], l) < Dist(bb.expected_seq, l)
  PROVE  Sorted(bb, l, old, {})
<1> USE DEF Sorted
<1>1. Busy(bb, old, {}) = Busy(bb, old, {i}) \cup {i} BY DEF Busy
<1>2. Aged(bb, l, old, {}) BY <1>1 DEF Aged
<1>3. OneEach(bb, old, {}) BY <1>1 DEF OneEach, Loose
<1>4. Labelled(bb, old, {}) BY <1>1 DEF Labelled, Loose
<1> QED BY <1>2, <1>3, <1>4

\* What rx_callback() does with a buffer it need not forward keeps the order.
LEMMA StoreSorted ==
  ASSUME NEW bb \in BufferMgmt, NEW u \in [Slots -> Nat], Sound(bb, u),
         NEW l \in Seqs, NEW old, Sorted(bb, l, old, {}),
         NEW i \in Slots, u[i] = 1,
         bb.buffer_seq[i] = bb.expected_seq \/ CanHold(bb, bb.buffer_seq[i])
  PROVE  /\ Sorted(StoreCompleted(bb, i), l, old, {})
         /\ Ripens(bb, StoreCompleted(bb, i), l, {})
<1> DEFINE s == bb.buffer_seq[i]
           c == Ready(bb, i)
           v == [u EXCEPT ![i] = @ - 1]
           h == [seq |-> s, idx |-> i, dropped |-> FALSE]
           d == RetireExpected(c)
           k == Hold(bb, i)
<1>1. /\ Sorted(bb, l, old, {i}) /\ Loose(bb, old, {i}, s)
      /\ Dist(bb.expected_seq, l) <= Dist(s, l)
      /\ Dist(s, l) < Dist(bb.next_seq, l)
      /\ i \in Busy(bb, old, {}) /\ i \notin old /\ bb.status[i] = "IN_FLIGHT"
  BY InHand
<1>2. /\ bb.expected_seq \in Seqs /\ s \in Seqs
      /\ \A t \in Seqs : Dist(t, l) \in Int /\ Dist(t, l) <= Dist(t, l)
  BY Ages
<1>3. CASE s = bb.expected_seq
  <2>1. /\ c \in BufferMgmt /\ c.status[i] = "FULL"
        /\ \A j \in Slots \ {i} : c.status[j] = bb.status[j]
        /\ c.buffer_seq = bb.buffer_seq /\ c.expected_seq = bb.expected_seq
        /\ c.next_seq = bb.next_seq /\ c.reorder = bb.reorder /\ c.cons_i = bb.cons_i
    BY DEF Ready, BufferMgmt, Status
  <2> HIDE DEF c
  <2>2. v \in [Slots -> Nat] /\ v[i] = 0 /\ \A j \in Slots \ {i} : v[j] = u[j]
    OBVIOUS
  <2> HIDE DEF v
  <2>3. Sound(c, v)
    <3>1. \A r \in bb.reorder : ~r.dropped => r.idx # i BY DEF Sound
    <3>2. \A j \in Slots : v[j] <= 1 /\ (v[j] = 1 => c.status[j] = "IN_FLIGHT")
      BY <2>1, <2>2 DEF Sound
    <3>3. \A r \in c.reorder : ~r.dropped =>
            r.idx \in Slots /\ c.status[r.idx] = "IN_FLIGHT" /\ v[r.idx] = 0
      BY <2>1, <2>2, <3>1 DEF Sound
    <3> QED BY <2>1, <3>2, <3>3 DEF Sound
  <2>4. Busy(c, old, {i}) = Busy(bb, old, {i}) BY <2>1 DEF Busy
  <2>5. Sorted(c, l, old, {i}) /\ Loose(c, old, {i}, s)
    <3>1. \A j \in Busy(c, old, {i}) : c.status[j] = bb.status[j] BY <2>1 DEF Busy
    <3>2. Aged(c, l, old, {i}) BY <1>1, <2>1, <2>4, <3>1 DEF Sorted, Aged
    <3>3. Leftover(c, l, old) BY <1>1, <2>1 DEF Sorted, Leftover
    <3>4. OneEach(c, old, {i}) BY <1>1, <2>1, <2>4 DEF Sorted, OneEach
    <3>5. Labelled(c, old, {i}) BY <1>1, <2>1, <2>4 DEF Sorted, Labelled
    <3>6. Loose(c, old, {i}, s) BY <1>1, <2>1, <2>4 DEF Loose
    <3> QED BY <3>2, <3>3, <3>4, <3>5, <3>6 DEF Sorted
  <2>6. /\ Loose(c, old, {i}, c.expected_seq)
        /\ Dist(c.expected_seq, l) < Dist(c.next_seq, l)
    BY <1>1, <1>3, <2>1, <2>5
  <2>7. /\ Sorted(d, l, old, {i}) /\ Ripens(c, d, l, {i})
        /\ Dist(c.expected_seq, l) < Dist(d.expected_seq, l)
        /\ d.reorder \subseteq c.reorder
    BY <2>1, <2>2, <2>3, <2>5, <2>6, RetireExpectedSorted
  <2> HIDE DEF d
  <2>8. /\ d.status[i] = "FULL" /\ d.buffer_seq = bb.buffer_seq
        /\ d.next_seq = bb.next_seq /\ d.cons_i = bb.cons_i
    BY <2>1, <2>7 DEF Ripens
  <2>9. Busy(d, old, {i}) \subseteq Busy(c, old, {i})
    BY <2>7 DEF Ripens, Busy
  <2>10. Loose(d, old, {i}, s) BY <2>1, <2>5, <2>7, <2>8, <2>9 DEF Loose
  <2>11. 1 <= Dist(s, l) /\ Dist(s, l) < Dist(d.expected_seq, l)
    BY <1>1, <1>3, <2>1, <2>7 DEF Sorted, Aged
  <2>12. Sorted(d, l, old, {}) BY <1>1, <2>7, <2>8, <2>10, <2>11, MadeReady
  <2>13. Ripens(bb, d, l, {})
    <3>1. ASSUME NEW j \in Slots
          PROVE  \/ d.status[j] = bb.status[j]
                 \/ /\ j \notin {} /\ bb.status[j] = "IN_FLIGHT" /\ d.status[j] = "FULL"
                    /\ Dist(bb.expected_seq, l) <= Dist(bb.buffer_seq[j], l)
      <4>1. CASE j = i BY <1>1, <2>8, <4>1
      <4>2. CASE j # i BY <2>1, <2>7, <4>2 DEF Ripens
      <4> QED BY <4>1, <4>2
    <3>2. Dist(bb.expected_seq, l) <= Dist(d.expected_seq, l)
      BY <2>1, <2>7 DEF Ripens
    <3> QED BY <2>8, <3>1, <3>2 DEF Ripens
  <2> QED BY <1>3, <2>12, <2>13 DEF StoreCompleted, d, c
<1>4. CASE s # bb.expected_seq /\ CanHold(bb, s)
  <2>1. /\ k.status = bb.status /\ k.cons_i = bb.cons_i /\ k.buffer_seq = bb.buffer_seq
        /\ k.expected_seq = bb.expected_seq /\ k.next_seq = bb.next_seq
        /\ k.reorder = bb.reorder \cup {h}
    BY DEF Hold, BufferMgmt
  <2>2. h.seq = s /\ ~h.dropped /\ h.idx = i OBVIOUS
  <2> HIDE DEF k, h
  <2>3. Busy(k, old, {}) = Busy(bb, old, {}) BY <2>1 DEF Busy
  <2>4. Leftover(k, l, old) /\ OneEach(k, old, {})
    BY <2>1, <2>3 DEF Sorted, Leftover, OneEach
  <2>5. Aged(k, l, old, {}) BY <1>1, <2>1, <2>2, <2>3 DEF Sorted, Aged
  <2>6. Labelled(k, old, {}) BY <1>1, <2>1, <2>2, <2>3 DEF Sorted, Labelled
  <2>7. Ripens(bb, k, l, {}) BY <1>2, <2>1 DEF Ripens
  <2>8. Sorted(k, l, old, {}) BY <2>4, <2>5, <2>6 DEF Sorted
  <2> QED BY <1>4, <2>7, <2>8 DEF StoreCompleted, k
<1> QED BY <1>3, <1>4

\* A slot goes to the transport with the next number.
LEMMA SubmitSorted ==
  ASSUME NEW bb \in BufferMgmt, NEW cc, NEW l \in Seqs, NEW old,
         NEW j \in Slots, NEW X, X \subseteq {j}, Sorted(bb, l, old, X),
         j \notin Busy(bb, old, X), j \notin old,
         \A r \in bb.reorder : ~r.dropped => r.idx # j,
         Dist(bb.next_seq, l) < SeqMod - 1,
         cc.status = [bb.status EXCEPT ![j] = "IN_FLIGHT"],
         cc.buffer_seq = [bb.buffer_seq EXCEPT ![j] = bb.next_seq],
         cc.next_seq = Incr(bb.next_seq),
         cc.expected_seq = bb.expected_seq, cc.reorder = bb.reorder
  PROVE  /\ Sorted(cc, l, old, {})
         /\ Dist(cc.next_seq, l) = Dist(bb.next_seq, l) + 1
         /\ Busy(cc, old, {}) = Busy(bb, old, X) \cup {j}
         /\ bb.reorder # {} => \E i \in Slots : /\ cc.status[i] = "IN_FLIGHT"
                                                /\ i \notin HeldSlots(cc)
<1> USE DEF Sorted
<1>1. /\ bb.expected_seq \in Seqs /\ bb.next_seq \in Seqs
      /\ \A i \in Slots : bb.buffer_seq[i] \in Seqs
      /\ \A r \in bb.reorder : r.seq \in Seqs
      /\ \A s \in Seqs : Dist(s, l) \in Int /\ 0 <= Dist(s, l) /\ Dist(s, l) <= SeqMod-1
  BY Ages
<1>2. Dist(cc.next_seq, l) = Dist(bb.next_seq, l) + 1 BY <1>1, DistIncr
<1>3. /\ cc.status[j] = "IN_FLIGHT" /\ cc.buffer_seq[j] = bb.next_seq
      /\ \A i \in Slots \ {j} : /\ cc.status[i] = bb.status[i]
                                /\ cc.buffer_seq[i] = bb.buffer_seq[i]
  BY DEF BufferMgmt
<1>4. Busy(cc, old, {}) = Busy(bb, old, X) \cup {j} BY <1>3 DEF Busy
<1>5. \A i \in Busy(bb, old, X) : /\ i \in Slots /\ i # j
                                  /\ cc.status[i] = bb.status[i]
                                  /\ cc.buffer_seq[i] = bb.buffer_seq[i]
  BY <1>3 DEF Busy
<1>6. Leftover(cc, l, old) BY <1>3 DEF Leftover
<1>7. /\ 1 <= Dist(bb.expected_seq, l)
      /\ Dist(bb.expected_seq, l) <= Dist(bb.next_seq, l)
  BY DEF Aged
<1>8. \A i \in Busy(bb, old, X) : Dist(bb.buffer_seq[i], l) < Dist(bb.next_seq, l)
  <2> SUFFICES ASSUME NEW i \in Busy(bb, old, X)
               PROVE  Dist(bb.buffer_seq[i], l) < Dist(bb.next_seq, l)
    OBVIOUS
  <2>1. bb.buffer_seq[i] \in Seqs BY <1>1, <1>5
  <2>2. IF bb.status[i] = "FULL"
        THEN Dist(bb.buffer_seq[i], l) < Dist(bb.expected_seq, l)
        ELSE Dist(bb.buffer_seq[i], l) < Dist(bb.next_seq, l)
    BY DEF Aged
  <2> QED BY <1>1, <1>7, <2>1, <2>2
<1>9. Aged(cc, l, old, {})
  <2>1. 1 <= Dist(cc.expected_seq, l) /\ Dist(cc.expected_seq, l) <= Dist(cc.next_seq, l)
    BY <1>1, <1>2, <1>7
  <2>2. ASSUME NEW i \in Busy(cc, old, {})
        PROVE  IF cc.status[i] = "FULL"
               THEN /\ 1 <= Dist(cc.buffer_seq[i], l)
                    /\ Dist(cc.buffer_seq[i], l) < Dist(cc.expected_seq, l)
               ELSE /\ Dist(cc.expected_seq, l) <= Dist(cc.buffer_seq[i], l)
                    /\ Dist(cc.buffer_seq[i], l) < Dist(cc.next_seq, l)
    <3>1. CASE i = j BY <1>1, <1>2, <1>3, <1>7, <3>1
    <3>2. CASE i # j
      <4>1. i \in Busy(bb, old, X) BY <1>4, <3>2
      <4>2. IF bb.status[i] = "FULL"
            THEN /\ 1 <= Dist(bb.buffer_seq[i], l)
                 /\ Dist(bb.buffer_seq[i], l) < Dist(bb.expected_seq, l)
            ELSE /\ Dist(bb.expected_seq, l) <= Dist(bb.buffer_seq[i], l)
                 /\ Dist(bb.buffer_seq[i], l) < Dist(bb.next_seq, l)
        BY <4>1 DEF Aged
      <4>3. bb.buffer_seq[i] \in Seqs BY <1>1, <1>5, <4>1
      <4> QED BY <1>1, <1>2, <1>5, <4>1, <4>2, <4>3
    <3> QED BY <3>1, <3>2
  <2>3. ASSUME NEW r \in cc.reorder
        PROVE  /\ Dist(cc.expected_seq, l) <= Dist(r.seq, l)
               /\ Dist(r.seq, l) < Dist(cc.next_seq, l)
    <3>1. /\ Dist(bb.expected_seq, l) <= Dist(r.seq, l)
          /\ Dist(r.seq, l) < Dist(bb.next_seq, l) /\ r.seq \in Seqs
      BY <1>1 DEF Aged
    <3> QED BY <1>1, <1>2, <3>1
  <2> QED BY <2>1, <2>2, <2>3 DEF Aged
<1>10. \A i \in Busy(bb, old, X) : bb.buffer_seq[i] # bb.next_seq
  BY <1>1, <1>5, <1>8
<1>11. OneEach(cc, old, {}) BY <1>3, <1>4, <1>5, <1>10 DEF OneEach
<1>12. \A r \in bb.reorder : r.seq # bb.next_seq BY <1>1 DEF Aged
<1>13. Labelled(cc, old, {})
  <2> SUFFICES ASSUME NEW r \in bb.reorder
               PROVE  IF r.dropped
                      THEN \A i \in Busy(cc, old, {}) : cc.buffer_seq[i] # r.seq
                      ELSE r.idx \notin {} /\ cc.buffer_seq[r.idx] = r.seq
    BY DEF Labelled
  <2>1. CASE r.dropped
    <3>1. \A i \in Busy(bb, old, X) : bb.buffer_seq[i] # r.seq BY <2>1 DEF Labelled
    <3> QED BY <1>3, <1>4, <1>5, <1>12, <2>1, <3>1
  <2>2. CASE ~r.dropped
    <3>1. r.idx # j /\ bb.buffer_seq[r.idx] = r.seq BY <2>2 DEF Labelled
    <3>2. bb.buffer_seq \in [Slots -> Seqs] BY DEF BufferMgmt
    <3>3. cc.buffer_seq[r.idx] = bb.buffer_seq[r.idx]
      <4>1. CASE r.idx \in Slots BY <1>3, <3>1, <4>1
      <4>2. CASE r.idx \notin Slots
        <5>1. r.idx \in Slots \cup {NoSlot} BY DEF BufferMgmt, Entries
        <5> QED BY <3>1, <3>2, <4>2, <5>1
      <4> QED BY <4>1, <4>2
    <3> QED BY <2>2, <3>1, <3>3
  <2> QED BY <2>1, <2>2
<1>14. j \notin HeldSlots(cc) BY DEF HeldSlots
<1> QED BY <1>2, <1>3, <1>4, <1>6, <1>9, <1>11, <1>13, <1>14

LEMMA Allowances ==
  ASSUME NEW c \in Used
  PROVE  /\ Allowance(c) \in Nat
         /\ Roomy => Allowance(c) <= (SeqMod - 1) \div 2
         /\ \A d \in Used : d.lost + d.fences = c.lost + c.fences + 1 =>
              Allowance(d) = Allowance(c) + N + 1
         /\ \A d \in Used : d.lost = c.lost /\ d.fences = c.fences =>
              Allowance(d) = Allowance(c)
<1>1. /\ c.lost \in Nat /\ c.fences \in Nat /\ c.lost <= MaxLost
      /\ c.fences <= MaxFences /\ MaxLost \in Nat /\ MaxFences \in Nat
  BY RingAssumption DEF Used, RingAssumption
<1>2. PICK a \in Nat : a = c.lost + c.fences BY <1>1
<1>3. PICK z \in Nat : z = MaxLost + MaxFences BY <1>1
<1>4. a <= z BY <1>1, <1>2, <1>3
<1>5. N \in Nat BY SeqSizes
<1>6. PICK p \in Nat : p = (N + 1) * a BY <1>2, <1>5
<1>7. PICK q \in Nat : q = (N + 1) * z BY <1>3, <1>5
<1>8. p <= q BY <1>4, <1>5, <1>6, <1>7
<1>9. Allowance(c) = 3 * N + 1 + p BY <1>2, <1>6 DEF Allowance
<1>10. Roomy <=> 3 * N + 1 + q <= (SeqMod - 1) \div 2 BY <1>3, <1>7 DEF Roomy
<1>11. (SeqMod - 1) \div 2 \in Int BY SeqSizes
<1>12. Roomy => Allowance(c) <= (SeqMod - 1) \div 2
  BY <1>5, <1>8, <1>9, <1>10, <1>11
<1>13. ASSUME NEW d \in Used, d.lost + d.fences = c.lost + c.fences + 1
       PROVE  Allowance(d) = Allowance(c) + N + 1
  <2>1. Allowance(d) = 3 * N + 1 + (N + 1) * (a + 1) BY <1>2, <1>13 DEF Allowance
  <2>2. (N + 1) * (a + 1) = (N + 1) * a + (N + 1) BY <1>2, <1>5
  <2> QED BY <1>5, <1>6, <1>9, <2>1, <2>2
<1>14. Allowance(c) \in Nat BY <1>5, <1>9
<1>15. \A d \in Used : d.lost = c.lost /\ d.fences = c.fences =>
         Allowance(d) = Allowance(c)
  BY DEF Allowance
<1> QED BY <1>12, <1>13, <1>14, <1>15

\* Numbers of slots.
LEMMA SlotCounts ==
  ASSUME NEW S, S \subseteq Slots
  PROVE  /\ IsFiniteSet(S) /\ Cardinality(S) \in Nat /\ Cardinality(S) <= N
         /\ \A j \in S : Cardinality(S \ {j}) = Cardinality(S) - 1
         /\ \A j \in Slots : Cardinality(S \cup {j}) <= Cardinality(S) + 1
<1>1. IsFiniteSet(Slots) /\ Cardinality(Slots) = N
  <2>1. N \in Nat \ {0} /\ 0 \in Int /\ N - 1 \in Int BY SeqSizes
  <2>2. /\ IsFiniteSet(0 .. N-1)
        /\ Cardinality(0 .. N-1) = IF 0 > N-1 THEN 0 ELSE (N-1)-0+1
    BY <2>1, FS_Interval
  <2> QED BY <2>1, <2>2 DEF Slots
<1>2. IsFiniteSet(S) /\ Cardinality(S) <= N BY <1>1, FS_Subset
<1>3. Cardinality(S) \in Nat BY <1>2, FS_CardinalityType
<1>4. \A j \in S : Cardinality(S \ {j}) = Cardinality(S) - 1
  BY <1>2, FS_RemoveElement
<1>5. ASSUME NEW j \in Slots PROVE Cardinality(S \cup {j}) <= Cardinality(S) + 1
  <2>1. Cardinality(S \cup {j}) = IF j \in S THEN Cardinality(S) ELSE Cardinality(S) + 1
    BY <1>2, FS_AddElement
  <2> QED BY <1>3, <2>1
<1> QED BY <1>2, <1>3, <1>4, <1>5

\* There is room to count on, and less than half the circle is in use.
LEMMA Near ==
  ASSUME Roomy, NEW bb \in BufferMgmt, NEW l \in Seqs, NEW old, NEW f \in BOOLEAN,
         NEW c \in Used, Room(bb, l, old, f, c)
  PROVE  /\ Dist(bb.next_seq, l) <= (SeqMod - 1) \div 2
         /\ Dist(bb.next_seq, l) < SeqMod - 1
<1>1. Dist(bb.next_seq, l) \in Int BY Ages
<1>2. PICK k \in Nat : k = Cardinality(Spare(bb, old))
  BY SlotCounts DEF Spare
<1>3. PICK a \in Nat : a = Allowance(c) /\ a <= (SeqMod - 1) \div 2 BY Allowances
<1>4. N \in Nat \ {0} /\ SeqMod \in Nat /\ SeqMod > 2 * N BY SeqSizes
<1>5. Dist(bb.next_seq, l) <= a BY <1>1, <1>2, <1>3, <1>4 DEF Room
<1>6. (SeqMod - 1) \div 2 \in Int /\ (SeqMod - 1) \div 2 < SeqMod - 1 BY <1>4
<1> QED BY <1>1, <1>3, <1>4, <1>5, <1>6

\* Slots that become FULL stay busy.
LEMMA RipensBusy ==
  ASSUME NEW bb, NEW cc, NEW l, NEW old, NEW X, Leftover(bb, l, old),
         Ripens(bb, cc, l, X)
  PROVE  Busy(cc, old, X) = Busy(bb, old, X)
<1>1. \A i \in Slots \ X : i \in Busy(cc, old, X) <=> i \in Busy(bb, old, X)
  <2> TAKE i \in Slots \ X
  <2>1. CASE cc.status[i] = bb.status[i] BY <2>1 DEF Busy
  <2>2. CASE bb.status[i] = "IN_FLIGHT" /\ cc.status[i] = "FULL"
    BY <2>2 DEF Busy, Leftover
  <2> QED BY <2>1, <2>2 DEF Ripens
<1> QED BY <1>1 DEF Busy

\* What becomes FULL is not older than what the reader claimed.
LEMMA ClaimKept ==
  ASSUME NEW bb \in BufferMgmt, NEW cc, NEW st, NEW l \in Seqs, NEW old,
         Reading(st, bb), Sorted(bb, l, old, {}), Claimed(st, bb, l, old),
         cc.cons_i = bb.cons_i,
         \A j \in Slots : bb.status[j] = "FULL" => cc.buffer_seq[j] = bb.buffer_seq[j],
         \A j \in Slots : cc.status[j] = "FULL" =>
           /\ cc.buffer_seq[j] = bb.buffer_seq[j]
           /\ \/ bb.status[j] = "FULL"
              \/ /\ bb.status[j] = "IN_FLIGHT"
                 /\ Dist(bb.expected_seq, l) <= Dist(bb.buffer_seq[j], l)
  PROVE  Claimed(st, cc, l, old)
<1> SUFFICES ASSUME st = "BUFFER_READY", bb.cons_i \notin old,
                    NEW j \in Slots, cc.status[j] = "FULL"
             PROVE  /\ j \notin old
                    /\ Dist(cc.buffer_seq[bb.cons_i], l) <= Dist(cc.buffer_seq[j], l)
  BY DEF Claimed
<1>1. bb.cons_i \in Slots /\ bb.status[bb.cons_i] = "FULL"
  BY DEF Reading, BufferMgmt
<1>2. cc.buffer_seq[bb.cons_i] = bb.buffer_seq[bb.cons_i] BY <1>1
<1>3. CASE bb.status[j] = "FULL" BY <1>2, <1>3 DEF Claimed
<1>4. CASE /\ bb.status[j] = "IN_FLIGHT"
           /\ Dist(bb.expected_seq, l) <= Dist(bb.buffer_seq[j], l)
  <2>1. j \notin old BY <1>4 DEF Sorted, Leftover
  <2>2. bb.cons_i \in Busy(bb, old, {}) BY <1>1 DEF Busy
  <2>3. Dist(bb.buffer_seq[bb.cons_i], l) < Dist(bb.expected_seq, l)
    BY <1>1, <2>2 DEF Sorted, Aged
  <2>4. /\ bb.expected_seq \in Seqs /\ bb.buffer_seq[j] \in Seqs
        /\ bb.buffer_seq[bb.cons_i] \in Seqs
        /\ \A s \in Seqs : Dist(s, l) \in Int
    BY <1>1, Ages
  <2> QED BY <1>2, <1>4, <2>1, <2>3, <2>4
<1> QED BY <1>3, <1>4

\* The callbacks leave what an ended stream left behind alone.
LEMMA NoteKept ==
  ASSUME TypeOK, Leftover(b, g.last, g.old), NEW new, NEW kinds, NEW lost,
         \A i \in Slots : b.status[i] \in {"FULL", "PARTIAL"} =>
                            new.status[i] = b.status[i]
  PROVE  Note(new, kinds, lost).last = g.last /\ Note(new, kinds, lost).old = g.old
<1>1. g \in Ghosts BY DEF TypeOK
<1>2. {i \in g.old : new.status[i] \in {"FULL", "PARTIAL"}} = g.old
  BY DEF Leftover
<1> QED BY <1>1, <1>2 DEF Note, Ghosts

\* Room after a step that uses no more of it.
LEMMA RoomKept ==
  ASSUME NEW bb \in BufferMgmt, NEW cc \in BufferMgmt, NEW l \in Seqs, NEW m \in Seqs,
         NEW old, NEW new, NEW f \in BOOLEAN, NEW c \in Used, NEW d \in Used,
         Room(bb, l, old, f, c), d.lost = c.lost, d.fences = c.fences,
         cc.stale_pending => bb.stale_pending,
         Dist(cc.next_seq, m) + Cardinality(Spare(cc, new))
           <= Dist(bb.next_seq, l) + Cardinality(Spare(bb, old))
  PROVE  Room(cc, m, new, f, d)
<1>1. Allowance(d) = Allowance(c) /\ Allowance(c) \in Nat BY Allowances
<1>2. Cardinality(Spare(bb, old)) \in Nat /\ Cardinality(Spare(cc, new)) \in Nat
  BY SlotCounts DEF Spare
<1>3. Dist(bb.next_seq, l) \in Int /\ Dist(cc.next_seq, m) \in Int /\ N \in Nat
  BY Ages, SeqSizes
<1>4. PICK q \in Nat : q = (IF f THEN N ELSE 0) BY <1>3
<1>5. CASE bb.stale_pending
  <2>1. Dist(bb.next_seq, l) + Cardinality(Spare(bb, old)) + N + q <= Allowance(c)
    BY <1>4, <1>5 DEF Room
  <2>2. Dist(cc.next_seq, m) + Cardinality(Spare(cc, new)) + N + q <= Allowance(d)
    BY <1>1, <1>2, <1>3, <2>1
  <2>3. Dist(cc.next_seq, m) + Cardinality(Spare(cc, new)) + 0 + q <= Allowance(d)
    BY <1>1, <1>2, <1>3, <2>2
  <2> QED BY <1>4, <2>2, <2>3 DEF Room
<1>6. CASE ~bb.stale_pending
  <2>1. Dist(bb.next_seq, l) + Cardinality(Spare(bb, old)) + 0 + q <= Allowance(c)
    BY <1>4, <1>6 DEF Room
  <2>2. Dist(cc.next_seq, m) + Cardinality(Spare(cc, new)) + 0 + q <= Allowance(d)
    BY <1>1, <1>2, <1>3, <2>1
  <2> QED BY <1>4, <1>6, <2>2 DEF Room
<1> QED BY <1>5, <1>6

\* Room after a loss: one number more, and a backlog that may be purged.
LEMMA RoomLost ==
  ASSUME NEW bb \in BufferMgmt, NEW cc \in BufferMgmt, NEW l \in Seqs,
         NEW old, NEW f \in BOOLEAN, NEW c \in Used, NEW d \in Used,
         Room(bb, l, old, f, c), d.lost + d.fences = c.lost + c.fences + 1,
         Dist(cc.next_seq, l) + Cardinality(Spare(cc, old))
           <= Dist(bb.next_seq, l) + Cardinality(Spare(bb, old)) + 1
  PROVE  Room(cc, l, old, f, d)
<1>1. Allowance(d) = Allowance(c) + N + 1 /\ Allowance(c) \in Nat BY Allowances
<1>2. Cardinality(Spare(bb, old)) \in Nat /\ Cardinality(Spare(cc, old)) \in Nat
  BY SlotCounts DEF Spare
<1>3. Dist(bb.next_seq, l) \in Int /\ Dist(cc.next_seq, l) \in Int /\ N \in Nat
  BY Ages, SeqSizes
<1>4. PICK q \in Nat : q = (IF f THEN N ELSE 0) BY <1>3
<1>5. PICK p \in Nat : p = (IF bb.stale_pending THEN N ELSE 0) BY <1>3
<1>6. PICK o \in Nat : o = (IF cc.stale_pending THEN N ELSE 0) /\ o <= N BY <1>3
<1>7. Dist(bb.next_seq, l) + Cardinality(Spare(bb, old)) + p + q <= Allowance(c)
  BY <1>4, <1>5 DEF Room
<1>8. Dist(cc.next_seq, l) + Cardinality(Spare(cc, old)) + o + q <= Allowance(d)
  BY <1>1, <1>2, <1>3, <1>6, <1>7
<1> QED BY <1>4, <1>6, <1>8 DEF Room

\* Room after the slots of a purge or of a fence are given back.
LEMMA RoomFreed ==
  ASSUME NEW bb \in BufferMgmt, NEW cc \in BufferMgmt, NEW l \in Seqs,
         NEW old, NEW new, NEW f \in BOOLEAN, NEW h \in BOOLEAN, NEW c \in Used,
         Room(bb, l, old, f, c), cc.next_seq = bb.next_seq,
         \/ bb.stale_pending /\ ~cc.stale_pending /\ h = f
         \/ f /\ ~h /\ cc.stale_pending = bb.stale_pending
  PROVE  Room(cc, l, new, h, c)
<1>1. Allowance(c) \in Nat BY Allowances
<1>2. /\ Cardinality(Spare(bb, old)) \in Nat /\ Cardinality(Spare(cc, new)) \in Nat
      /\ Cardinality(Spare(cc, new)) <= N
  BY SlotCounts DEF Spare
<1>3. Dist(bb.next_seq, l) \in Int /\ N \in Nat BY Ages, SeqSizes
<1>4. CASE bb.stale_pending /\ ~cc.stale_pending /\ h = f
  <2>1. PICK q \in Nat : q = (IF f THEN N ELSE 0) BY <1>3
  <2>2. Dist(bb.next_seq, l) + Cardinality(Spare(bb, old)) + N + q <= Allowance(c)
    BY <1>4, <2>1 DEF Room
  <2>3. Dist(bb.next_seq, l) + Cardinality(Spare(cc, new)) + 0 + q <= Allowance(c)
    BY <1>1, <1>2, <1>3, <2>2
  <2> QED BY <1>4, <2>1, <2>3 DEF Room
<1>5. CASE f /\ ~h /\ cc.stale_pending = bb.stale_pending
  <2>1. PICK p \in Nat : p = (IF bb.stale_pending THEN N ELSE 0) BY <1>3
  <2>2. Dist(bb.next_seq, l) + Cardinality(Spare(bb, old)) + p + N <= Allowance(c)
    BY <1>5, <2>1 DEF Room
  <2>3. Dist(bb.next_seq, l) + Cardinality(Spare(cc, new)) + p + 0 <= Allowance(c)
    BY <1>1, <1>2, <1>3, <2>2
  <2> QED BY <1>5, <2>1, <2>3 DEF Room
<1> QED BY <1>4, <1>5

LEMMA Completion ==
  ASSUME TypeOK, NEW i \in Slots, NEW n \in {0, 1}, Completes(i, n), Sound(b, usb)
  PROVE  /\ usb[i] = 1 /\ b.status[i] = "IN_FLIGHT"
         /\ cnt'.lost = cnt.lost + n /\ cnt'.fences = cnt.fences
<1>1. cnt \in Used /\ usb \in [Slots -> Nat] BY DEF TypeOK
<1>2. i \in Owned BY DEF Completes
<1>3. cnt' = [cnt EXCEPT !.overtakes = IF Oldest(i) THEN @ ELSE @ + 1,
                         !.lost = @ + n]
  BY DEF Completes
<1>4. cnt'.lost = cnt.lost + n /\ cnt'.fences = cnt.fences BY <1>1, <1>3 DEF Used
<1>5. usb[i] = 1 /\ b.status[i] = "IN_FLIGHT" BY <1>1, <1>2 DEF Owned, Sound
<1> QED BY <1>4, <1>5

\* A buffer that is stored or held leaves no overrun.
LEMMA StoreStale ==
  ASSUME NEW bb \in BufferMgmt, NEW i \in Slots,
         bb.buffer_seq[i] = bb.expected_seq \/ CanHold(bb, bb.buffer_seq[i])
  PROVE  StoreCompleted(bb, i).stale_pending = bb.stale_pending
<1>1. ASSUME NEW cc \in BufferMgmt
      PROVE  RetireExpected(cc).stale_pending = cc.stale_pending
  <2> DEFINE d == [cc EXCEPT !.expected_seq = Incr(@)]
  <2>1. d \in BufferMgmt /\ d.stale_pending = cc.stale_pending
    BY Wrapped DEF BufferMgmt
  <2> HIDE DEF d
  <2>2. Flush(d).stale_pending = d.stale_pending BY <2>1 DEF Flush, BufferMgmt
  <2> QED BY <2>1, <2>2 DEF RetireExpected, d
<1>2. Ready(bb, i) \in BufferMgmt /\ Ready(bb, i).stale_pending = bb.stale_pending
  BY DEF Ready, BufferMgmt, Status
<1>3. Hold(bb, i).stale_pending = bb.stale_pending BY DEF Hold, BufferMgmt
<1> QED BY <1>1, <1>2, <1>3 DEF StoreCompleted

\* The fields SubmitSlot() changes.
LEMMA SubmitFields ==
  ASSUME NEW bb \in BufferMgmt, NEW j \in Slots
  PROVE  /\ SubmitSlot(bb, j).status = [bb.status EXCEPT ![j] = "IN_FLIGHT"]
         /\ SubmitSlot(bb, j).buffer_seq = [bb.buffer_seq EXCEPT ![j] = bb.next_seq]
         /\ SubmitSlot(bb, j).next_seq = Incr(bb.next_seq)
         /\ SubmitSlot(bb, j).expected_seq = bb.expected_seq
         /\ SubmitSlot(bb, j).reorder = bb.reorder
         /\ SubmitSlot(bb, j).cons_i = bb.cons_i
         /\ SubmitSlot(bb, j).stale_pending = bb.stale_pending
BY DEF SubmitSlot, MarkInFlight, BufferMgmt

LEMMA StoreOrdered ==
  ASSUME Roomy, TypeOK, TypeOK', Sound(b, usb), Reading(state, b), InOrder,
         NEW i \in Slots, RxCallbackStore(i), "forwarded" \notin g'.past
  PROVE  InOrder'
<1> DEFINE c == [b EXCEPT !.buffer_dropped[i] = FALSE]
           d == StoreCompleted(c, i)
           j == ProducerSlot(c)
           v == [usb EXCEPT ![i] = @ - 1]
           l == g.last
           old == g.old
<1>1. /\ b \in BufferMgmt /\ usb \in [Slots -> Nat] /\ g \in Ghosts /\ l \in Seqs
      /\ cnt \in Used /\ cnt' \in Used /\ fence \in BOOLEAN
  BY DEF TypeOK, Ghosts
<1>2. /\ Sorted(b, l, old, {}) /\ Anchored(b) /\ Claimed(state, b, l, old)
      /\ Room(b, l, old, fence, cnt)
  BY DEF InOrder, Ordered
<1>3. /\ EmptySlots(b) # {} /\ b' = SubmitSlot(d, j) /\ state' = state /\ fence' = fence
      /\ Completes(i, 0)
      /\ g' = IF c.buffer_seq[i] # c.expected_seq /\ ~CanHold(c, c.buffer_seq[i])
              THEN Note(b', {"forwarded"}, TRUE) ELSE Note(b', {}, FALSE)
  BY DEF RxCallbackStore
<1>4. c.buffer_seq[i] = c.expected_seq \/ CanHold(c, c.buffer_seq[i])
  <2>1. "forwarded" \in Note(b', {"forwarded"}, TRUE).past BY <1>1 DEF Note, Ghosts
  <2> QED BY <1>3, <2>1
<1>5. usb[i] = 1 /\ cnt'.lost = cnt.lost /\ cnt'.fences = cnt.fences
  <2>1. usb[i] = 1 /\ cnt'.lost = cnt.lost + 0 /\ cnt'.fences = cnt.fences
    BY <1>3, Completion
  <2> QED BY <1>1, <2>1 DEF Used
<1>6. /\ c \in BufferMgmt /\ c.status = b.status /\ c.reorder = b.reorder
      /\ c.cons_i = b.cons_i /\ c.buffer_seq = b.buffer_seq
      /\ c.expected_seq = b.expected_seq /\ c.next_seq = b.next_seq
      /\ c.stale_pending = b.stale_pending
  BY <1>1 DEF BufferMgmt
<1> HIDE DEF c
<1>7. Sorted(c, l, old, {}) BY <1>2, <1>6, SortedFrame
<1>8. Sound(c, usb) BY <1>6, SoundFrame
<1>9. j \in Slots /\ c.status[j] = "EMPTY"
  <2>1. EmptySlots(c) # {} BY <1>3, <1>6 DEF EmptySlots
  <2> QED BY <1>6, <2>1, ProducerSlotEmpty DEF EmptySlots
<1>10. d \in BufferMgmt BY <1>6, StoreCompletedType
<1>11. Sound(d, v) BY <1>1, <1>5, <1>6, <1>8, StoreSound
<1>12. Sorted(d, l, old, {}) /\ Ripens(c, d, l, {})
  BY <1>1, <1>4, <1>5, <1>6, <1>7, <1>8, StoreSorted
<1>13. d.stale_pending = b.stale_pending BY <1>4, <1>6, StoreStale
<1> HIDE DEF d, j, v
<1>14. d.status[j] = "EMPTY" BY <1>9, <1>12 DEF Ripens
<1>15. j \notin old BY <1>12, <1>14 DEF Sorted, Leftover
<1>16. j \notin Busy(d, old, {}) BY <1>14 DEF Busy
<1>17. \A r \in d.reorder : ~r.dropped => r.idx # j BY <1>11, <1>14 DEF Sound
<1>18. d.next_seq = b.next_seq /\ d.cons_i = b.cons_i /\ d.buffer_seq = b.buffer_seq
  BY <1>6, <1>12 DEF Ripens
<1>19. Dist(b.next_seq, l) < SeqMod - 1 BY <1>1, <1>2, Near
<1>20. /\ b'.status = [d.status EXCEPT ![j] = "IN_FLIGHT"]
       /\ b'.buffer_seq = [d.buffer_seq EXCEPT ![j] = d.next_seq]
       /\ b'.next_seq = Incr(d.next_seq) /\ b'.expected_seq = d.expected_seq
       /\ b'.reorder = d.reorder /\ b'.cons_i = d.cons_i
       /\ b'.stale_pending = d.stale_pending
  BY <1>3, <1>9, <1>10, SubmitFields
<1>21. /\ Sorted(b', l, old, {})
       /\ Dist(b'.next_seq, l) = Dist(d.next_seq, l) + 1
       /\ Busy(b', old, {}) = Busy(d, old, {}) \cup {j}
       /\ d.reorder # {} => \E k \in Slots : /\ b'.status[k] = "IN_FLIGHT"
                                             /\ k \notin HeldSlots(b')
  BY <1>1, <1>9, <1>10, <1>12, <1>15, <1>16, <1>17, <1>18, <1>19, <1>20, SubmitSorted
<1>22. Anchored(b') BY <1>20, <1>21 DEF Anchored
<1>23. /\ b'.status[j] = "IN_FLIGHT"
       /\ \A k \in Slots \ {j} : /\ b'.status[k] = d.status[k]
                                 /\ b'.buffer_seq[k] = b.buffer_seq[k]
  BY <1>9, <1>10, <1>18, <1>20 DEF BufferMgmt
<1>24. \A k \in Slots : b.status[k] \in {"FULL", "PARTIAL"} =>
                          k # j /\ b'.status[k] = b.status[k]
  BY <1>6, <1>9, <1>12, <1>23 DEF Ripens
<1>25. Leftover(b, l, old) BY <1>2 DEF Sorted
<1>26. g'.last = l /\ g'.old = old
  <2>1. PICK ks, lo : g' = Note(b', ks, lo) BY <1>3
  <2> QED BY <1>24, <1>25, <2>1, NoteKept
<1>27. Claimed(state, b', l, old)
  <2>1. ASSUME NEW k \in Slots, b'.status[k] = "FULL"
        PROVE  /\ b'.buffer_seq[k] = b.buffer_seq[k]
               /\ \/ b.status[k] = "FULL"
                  \/ /\ b.status[k] = "IN_FLIGHT"
                     /\ Dist(b.expected_seq, l) <= Dist(b.buffer_seq[k], l)
    BY <1>6, <1>12, <1>23, <2>1 DEF Ripens
  <2>2. \A k \in Slots : b.status[k] = "FULL" => b'.buffer_seq[k] = b.buffer_seq[k]
    BY <1>23, <1>24
  <2>3. b'.cons_i = b.cons_i BY <1>18, <1>20
  <2> QED BY <1>1, <1>2, <2>1, <2>2, <2>3, ClaimKept
<1>28. Room(b', l, old, fence', cnt')
  <2>1. Busy(d, old, {}) = Busy(b, old, {})
    <3>1. Busy(d, old, {}) = Busy(c, old, {}) BY <1>7, <1>12, RipensBusy DEF Sorted
    <3> QED BY <1>6, <3>1 DEF Busy
  <2>2. Spare(b', old) = Spare(b, old) \ {j} /\ j \in Spare(b, old)
    BY <1>9, <1>16, <1>21, <2>1 DEF Spare
  <2>3. PICK S : S = Spare(b, old) OBVIOUS
  <2>4. S \subseteq Slots BY <2>3 DEF Spare
  <2>5. Cardinality(S) \in Nat /\ Cardinality(S \ {j}) = Cardinality(S) - 1
    BY <2>2, <2>3, <2>4, SlotCounts
  <2>6. Dist(b.next_seq, l) \in Int BY <1>1, Ages
  <2>7. Dist(b'.next_seq, l) = Dist(b.next_seq, l) + 1 BY <1>18, <1>21
  <2>8. b'.stale_pending = b.stale_pending BY <1>13, <1>20
  <2>9. Dist(b'.next_seq, l) + Cardinality(Spare(b', old))
          <= Dist(b.next_seq, l) + Cardinality(Spare(b, old))
    BY <2>2, <2>3, <2>5, <2>6, <2>7
  <2>10. b' \in BufferMgmt BY DEF TypeOK
  <2> QED BY <1>1, <1>2, <1>3, <1>5, <2>8, <2>9, <2>10, RoomKept
<1> QED BY <1>3, <1>21, <1>22, <1>26, <1>27, <1>28 DEF InOrder, Ordered

\* The invariant only looks at these fields.
LEMMA OrderedFrame ==
  ASSUME NEW bb \in BufferMgmt, NEW cc \in BufferMgmt, NEW st, NEW tt, NEW l \in Seqs,
         NEW old, NEW f \in BOOLEAN, NEW c \in Used, NEW d \in Used,
         Ordered(bb, st, l, old, f, c), d.lost = c.lost, d.fences = c.fences,
         cc.status = bb.status, cc.buffer_seq = bb.buffer_seq,
         cc.expected_seq = bb.expected_seq, cc.next_seq = bb.next_seq,
         cc.reorder = bb.reorder, cc.stale_pending => bb.stale_pending,
         tt = "BUFFER_READY" => st = "BUFFER_READY" /\ cc.cons_i = bb.cons_i
  PROVE  Ordered(cc, tt, l, old, f, d)
<1> USE DEF Ordered
<1>1. Sorted(cc, l, old, {}) BY SortedFrame
<1>2. Anchored(cc) BY DEF Anchored, HeldSlots
<1>3. Claimed(tt, cc, l, old) BY DEF Claimed
<1>4. Spare(cc, old) = Spare(bb, old) BY DEF Spare, Busy
<1>5. /\ Dist(bb.next_seq, l) \in Int /\ Cardinality(Spare(bb, old)) \in Nat
  BY Ages, SlotCounts DEF Spare
<1>6. Dist(cc.next_seq, l) + Cardinality(Spare(cc, old))
        <= Dist(bb.next_seq, l) + Cardinality(Spare(bb, old))
  BY <1>4, <1>5
<1>7. Room(cc, l, old, f, d) BY <1>6, RoomKept
<1> QED BY <1>1, <1>2, <1>3, <1>7

LEMMA NoDataOrdered ==
  ASSUME TypeOK, TypeOK', Sound(b, usb), InOrder,
         NEW i \in Slots, RxCallbackNoData(i)
  PROVE  InOrder'
<1>1. /\ b \in BufferMgmt /\ b' \in BufferMgmt /\ g.last \in Seqs
      /\ cnt \in Used /\ cnt' \in Used /\ fence \in BOOLEAN
  BY DEF TypeOK, Ghosts
<1>2. /\ b'.status = b.status /\ b'.buffer_seq = b.buffer_seq
      /\ b'.expected_seq = b.expected_seq /\ b'.next_seq = b.next_seq
      /\ b'.reorder = b.reorder /\ b'.cons_i = b.cons_i
      /\ b'.stale_pending = b.stale_pending
  BY <1>1 DEF RxCallbackNoData, BufferMgmt
<1>3. state' = state /\ fence' = fence /\ g' = Note(b', {"stranded"}, FALSE)
  BY DEF RxCallbackNoData
<1>4. cnt'.lost = cnt.lost /\ cnt'.fences = cnt.fences
  <2>1. cnt'.lost = cnt.lost + 0 /\ cnt'.fences = cnt.fences
    BY Completion DEF RxCallbackNoData
  <2> QED BY <1>1, <2>1 DEF Used
<1>5. g'.last = g.last /\ g'.old = g.old
  <2>1. Leftover(b, g.last, g.old) BY DEF InOrder, Ordered, Sorted
  <2> QED BY <1>2, <1>3, <2>1, NoteKept
<1>6. Ordered(b', state, g.last, g.old, fence, cnt')
  BY <1>1, <1>2, <1>4, OrderedFrame DEF InOrder
<1> QED BY <1>3, <1>5, <1>6 DEF InOrder

\* A loss: the slot in hand, or another one, goes out with the next number.
Recycles(q, r, i, j, X, cc) ==
  /\ r.buffer_seq = q.buffer_seq /\ r.next_seq = q.next_seq
  /\ r.expected_seq = q.expected_seq /\ r.reorder = q.reorder /\ r.cons_i = q.cons_i
  /\ \A k \in Slots \ {i} : r.status[k] = q.status[k]
  /\ \/ X = {i} /\ j = i
     \/ X = {} /\ r.status[i] = "EMPTY" /\ r.status[j] = "EMPTY"
  /\ cc.status = [r.status EXCEPT ![j] = "IN_FLIGHT"]
  /\ cc.buffer_seq = [r.buffer_seq EXCEPT ![j] = r.next_seq]
  /\ cc.next_seq = Incr(r.next_seq) /\ cc.expected_seq = r.expected_seq
  /\ cc.reorder = r.reorder /\ cc.cons_i = r.cons_i

LEMMA RecycledOrdered ==
  ASSUME Roomy, TypeOK, TypeOK', Sound(b, usb), Reading(state, b), InOrder,
         NEW i \in Slots, Completes(i, 1), NEW q \in BufferMgmt,
         q = RetireDropped(b, b.buffer_seq[i]), NEW r \in BufferMgmt,
         NEW j \in Slots, NEW X, Sorted(r, g.last, g.old, X),
         Recycles(q, r, i, j, X, b'),
         state' = state, fence' = fence, NEW ks, NEW lo, g' = Note(b', ks, lo)
  PROVE  InOrder'
<1> USE DEF Recycles
<1> DEFINE l == g.last
           old == g.old
<1>1. /\ b \in BufferMgmt /\ usb \in [Slots -> Nat] /\ g \in Ghosts /\ l \in Seqs
      /\ cnt \in Used /\ cnt' \in Used /\ fence \in BOOLEAN /\ b' \in BufferMgmt
  BY DEF TypeOK, Ghosts
<1>2. /\ Sorted(b, l, old, {}) /\ Anchored(b) /\ Claimed(state, b, l, old)
      /\ Room(b, l, old, fence, cnt)
  BY DEF InOrder, Ordered
<1>3. /\ usb[i] = 1 /\ b.status[i] = "IN_FLIGHT"
      /\ cnt'.lost = cnt.lost + 1 /\ cnt'.fences = cnt.fences
  BY Completion
<1>4. Sorted(q, l, old, {i}) /\ Ripens(b, q, l, {i})
  BY <1>1, <1>2, <1>3, RetireDroppedSorted
<1>5. Sound(q, usb)
  <2>1. b.buffer_seq[i] \in Seqs BY <1>1 DEF BufferMgmt
  <2> QED BY <1>1, <2>1, RetireDroppedSound
<1>6. q.next_seq = b.next_seq /\ q.cons_i = b.cons_i /\ q.buffer_seq = b.buffer_seq
  BY <1>4 DEF Ripens
<1>7. q.status[i] = "IN_FLIGHT" BY <1>3, <1>4 DEF Ripens
<1>8. i \notin old /\ j \notin old
  <2>1. i \notin old BY <1>3, <1>2 DEF Sorted, Leftover
  <2>2. CASE j = i BY <2>1, <2>2
  <2>3. CASE r.status[j] = "EMPTY" BY <2>1, <2>3 DEF Sorted, Leftover
  <2> QED BY <2>1, <2>2, <2>3
<1>9. j \notin Busy(r, old, X) BY DEF Busy
<1>10. \A e \in r.reorder : ~e.dropped => e.idx # j
  <2> SUFFICES ASSUME NEW e \in q.reorder, ~e.dropped PROVE e.idx # j OBVIOUS
  <2>1. e.idx \in Slots /\ q.status[e.idx] = "IN_FLIGHT" /\ usb[e.idx] = 0
    BY <1>5 DEF Sound
  <2>2. e.idx # i BY <1>3, <2>1
  <2>3. r.status[e.idx] = "IN_FLIGHT" BY <2>1, <2>2
  <2> QED BY <2>2, <2>3
<1>11. Dist(b.next_seq, l) < SeqMod - 1 BY <1>1, <1>2, Near
<1>12. /\ Sorted(b', l, old, {})
       /\ Dist(b'.next_seq, l) = Dist(r.next_seq, l) + 1
       /\ Busy(b', old, {}) = Busy(r, old, X) \cup {j}
       /\ r.reorder # {} => \E k \in Slots : /\ b'.status[k] = "IN_FLIGHT"
                                             /\ k \notin HeldSlots(b')
  BY <1>1, <1>6, <1>8, <1>9, <1>10, <1>11, SubmitSorted
<1>13. Anchored(b') BY <1>12 DEF Anchored
<1>14. /\ b'.status[j] = "IN_FLIGHT"
       /\ \A k \in Slots \ {j} : /\ b'.status[k] = r.status[k]
                                 /\ b'.buffer_seq[k] = b.buffer_seq[k]
  BY <1>6 DEF BufferMgmt
<1>15. \A k \in Slots : b.status[k] \in {"FULL", "PARTIAL"} =>
                          k # j /\ b'.status[k] = b.status[k]
  <2> SUFFICES ASSUME NEW k \in Slots, b.status[k] \in {"FULL", "PARTIAL"}
               PROVE  k # j /\ b'.status[k] = b.status[k]
    OBVIOUS
  <2>1. k # i BY <1>3
  <2>2. q.status[k] = b.status[k] BY <1>4 DEF Ripens
  <2>3. r.status[k] = b.status[k] BY <2>1, <2>2
  <2>4. k # j BY <2>1, <2>3
  <2> QED BY <1>14, <2>3, <2>4
<1>16. Leftover(b, l, old) BY <1>2 DEF Sorted
<1>17. g'.last = l /\ g'.old = old
  <2>1. PICK n : n = b' OBVIOUS
  <2>2. \A k \in Slots : b.status[k] \in {"FULL", "PARTIAL"} => n.status[k] = b.status[k]
    BY <1>15, <2>1
  <2> QED BY <1>16, <2>1, <2>2, NoteKept
<1>18. Claimed(state, b', l, old)
  <2>1. ASSUME NEW k \in Slots, b'.status[k] = "FULL"
        PROVE  /\ b'.buffer_seq[k] = b.buffer_seq[k]
               /\ \/ b.status[k] = "FULL"
                  \/ /\ b.status[k] = "IN_FLIGHT"
                     /\ Dist(b.expected_seq, l) <= Dist(b.buffer_seq[k], l)
    <3>1. k # j /\ r.status[k] = "FULL" BY <1>14, <2>1
    <3>2. k # i BY <3>1
    <3>3. q.status[k] = "FULL" BY <3>1, <3>2
    <3> QED BY <1>4, <1>14, <3>1, <3>3 DEF Ripens
  <2>2. \A k \in Slots : b.status[k] = "FULL" => b'.buffer_seq[k] = b.buffer_seq[k]
    BY <1>14, <1>15
  <2>3. b'.cons_i = b.cons_i BY <1>6
  <2> QED BY <1>1, <1>2, <2>1, <2>2, <2>3, ClaimKept
<1>19. Room(b', l, old, fence, cnt')
  <2>1. Busy(q, old, {i}) = Busy(b, old, {i}) BY <1>4, <1>16, RipensBusy
  <2>2. Busy(r, old, X) = Busy(q, old, {i})
    <3>1. CASE X = {i} BY <3>1 DEF Busy
    <3>2. CASE X = {} /\ r.status[i] = "EMPTY" BY <3>2 DEF Busy
    <3> QED BY <3>1, <3>2
  <2>3. i \in Busy(b, old, {}) /\ Busy(b, old, {i}) = Busy(b, old, {}) \ {i}
    BY <1>3 DEF Busy
  <2>4. PICK S : S = Spare(b, old) OBVIOUS
  <2>5. S \subseteq Slots /\ S \cup {i} \subseteq Slots BY <2>4 DEF Spare
  <2>6. j \in S \cup {i} /\ Spare(b', old) = (S \cup {i}) \ {j}
    <3>1. Spare(b', old) = Slots \ ((Busy(b, old, {}) \ {i}) \cup {j})
      BY <1>12, <2>1, <2>2, <2>3 DEF Spare
    <3>2. Busy(b, old, {}) \subseteq Slots BY DEF Busy
    <3>3. j \notin Busy(b, old, {}) \ {i} BY <1>9, <2>1, <2>2, <2>3
    <3> QED BY <2>3, <2>4, <3>1, <3>2, <3>3 DEF Spare
  <2>7. /\ Cardinality(S) \in Nat /\ Cardinality(S \cup {i}) <= Cardinality(S) + 1
    BY <2>5, SlotCounts
  <2>8. /\ Cardinality(S \cup {i}) \in Nat
        /\ Cardinality((S \cup {i}) \ {j}) = Cardinality(S \cup {i}) - 1
    BY <2>5, <2>6, SlotCounts
  <2>9. Dist(b.next_seq, l) \in Int BY <1>1, Ages
  <2>10. Dist(b'.next_seq, l) + Cardinality(Spare(b', old))
           <= Dist(b.next_seq, l) + Cardinality(Spare(b, old)) + 1
    BY <1>6, <1>12, <2>4, <2>6, <2>7, <2>8, <2>9
  <2>11. cnt'.lost + cnt'.fences = cnt.lost + cnt.fences + 1 BY <1>1, <1>3 DEF Used
  <2> QED BY <1>1, <1>2, <2>10, <2>11, RoomLost
<1> QED BY <1>12, <1>13, <1>17, <1>18, <1>19 DEF InOrder, Ordered

LEMMA RingFullOrdered ==
  ASSUME Roomy, TypeOK, TypeOK', Sound(b, usb), Reading(state, b), InOrder,
         NEW i \in Slots, RxCallbackRingFull(i)
  PROVE  InOrder'
<1> DEFINE q == RetireDropped(b, b.buffer_seq[i])
<1>1. /\ b \in BufferMgmt /\ usb \in [Slots -> Nat] /\ g.last \in Seqs
      /\ b.buffer_seq[i] \in Seqs
  BY DEF TypeOK, Ghosts, BufferMgmt
<1>2. q \in BufferMgmt BY <1>1, RetireDroppedType
<1>3. /\ Completes(i, 1) /\ b' = NoteOverrun(MarkInFlight(q, i)) /\ state' = state
      /\ fence' = fence /\ g' = Note(b', {}, TRUE)
  BY DEF RxCallbackRingFull
<1>4. usb[i] = 1 BY <1>3, Completion
<1>5. Sorted(q, g.last, g.old, {i})
  BY <1>1, <1>4, RetireDroppedSorted DEF InOrder, Ordered
<1> HIDE DEF q
<1>6. /\ b'.status = [q.status EXCEPT ![i] = "IN_FLIGHT"]
      /\ b'.buffer_seq = [q.buffer_seq EXCEPT ![i] = q.next_seq]
      /\ b'.next_seq = Incr(q.next_seq) /\ b'.expected_seq = q.expected_seq
      /\ b'.reorder = q.reorder /\ b'.cons_i = q.cons_i
  BY <1>2, <1>3 DEF NoteOverrun, MarkInFlight, BufferMgmt
<1>7. PICK X : X = {i} OBVIOUS
<1>8. Sorted(q, g.last, g.old, X) BY <1>5, <1>7
<1>9. Recycles(q, q, i, i, X, b') BY <1>6, <1>7 DEF Recycles
<1>10. q = RetireDropped(b, b.buffer_seq[i]) BY DEF q
<1> QED BY <1>2, <1>3, <1>8, <1>9, <1>10, RecycledOrdered

LEMMA RejectedOrdered ==
  ASSUME Roomy, TypeOK, TypeOK', Sound(b, usb), Reading(state, b), InOrder,
         NEW i \in Slots, NEW quiet \in BOOLEAN, RxBufferRejected(i, quiet)
  PROVE  InOrder'
<1> DEFINE q == RetireDropped(b, b.buffer_seq[i])
           r == [q EXCEPT !.buffer_dropped[i] = TRUE, !.status[i] = "EMPTY"]
           j == ProducerSlot(r)
<1>1. /\ b \in BufferMgmt /\ usb \in [Slots -> Nat] /\ g.last \in Seqs
      /\ b.buffer_seq[i] \in Seqs
  BY DEF TypeOK, Ghosts, BufferMgmt
<1>2. q \in BufferMgmt BY <1>1, RetireDroppedType
<1>3. Completes(i, 1) BY DEF RxBufferRejected
<1>4. usb[i] = 1 /\ b.status[i] = "IN_FLIGHT" BY <1>3, Completion
<1>5. b' = SubmitSlot(r, j) /\ state' = state /\ fence' = fence
  BY <1>4 DEF RxBufferRejected
<1>6. g' = Note(b', {"untracked"}, FALSE) \/ g' = Note(b', {}, FALSE)
  BY DEF RxBufferRejected
<1>7. PICK ks : g' = Note(b', ks, FALSE) BY <1>6
<1>8. Sorted(q, g.last, g.old, {i})
  BY <1>1, <1>4, RetireDroppedSorted DEF InOrder, Ordered
<1>9. i \notin g.old BY <1>4 DEF InOrder, Ordered, Sorted, Leftover
<1> HIDE DEF q
<1>10. /\ r \in BufferMgmt /\ r.status[i] = "EMPTY"
       /\ \A k \in Slots \ {i} : r.status[k] = q.status[k]
       /\ r.buffer_seq = q.buffer_seq /\ r.next_seq = q.next_seq
       /\ r.expected_seq = q.expected_seq /\ r.reorder = q.reorder /\ r.cons_i = q.cons_i
  BY <1>2 DEF BufferMgmt, Status
<1> HIDE DEF r
<1>11. j \in Slots /\ r.status[j] = "EMPTY"
  <2>1. EmptySlots(r) # {} BY <1>10 DEF EmptySlots
  <2> QED BY <1>10, <2>1, ProducerSlotEmpty DEF EmptySlots
<1>12. Sorted(r, g.last, g.old, {}) BY <1>8, <1>9, <1>10, GivenBack
<1> HIDE DEF j
<1>13. /\ b'.status = [r.status EXCEPT ![j] = "IN_FLIGHT"]
       /\ b'.buffer_seq = [r.buffer_seq EXCEPT ![j] = r.next_seq]
       /\ b'.next_seq = Incr(r.next_seq) /\ b'.expected_seq = r.expected_seq
       /\ b'.reorder = r.reorder /\ b'.cons_i = r.cons_i
  BY <1>5, <1>10, <1>11, SubmitFields
<1>14. PICK X : X = {} OBVIOUS
<1>15. Sorted(r, g.last, g.old, X) BY <1>12, <1>14
<1>16. Recycles(q, r, i, j, X, b') BY <1>10, <1>11, <1>13, <1>14 DEF Recycles
<1>17. q = RetireDropped(b, b.buffer_seq[i]) BY DEF q
<1> QED BY <1>2, <1>3, <1>5, <1>7, <1>10, <1>11, <1>15, <1>16, <1>17, RecycledOrdered

\* Slots are given back, and with them what an ended stream left behind.
LEMMA Thinned ==
  ASSUME NEW bb, NEW cc, NEW l, NEW old, NEW new, Sorted(bb, l, old, {}),
         \A i \in Slots : \/ cc.status[i] = bb.status[i]
                          \/ /\ cc.status[i] = "EMPTY"
                             /\ bb.status[i] \in {"FULL", "PARTIAL"},
         new = {i \in old : cc.status[i] \in {"FULL", "PARTIAL"}},
         cc.buffer_seq = bb.buffer_seq, cc.expected_seq = bb.expected_seq,
         cc.next_seq = bb.next_seq, cc.reorder = bb.reorder
  PROVE  /\ Sorted(cc, l, new, {})
         /\ Anchored(bb) => Anchored(cc)
<1> USE DEF Sorted
<1>1. ASSUME NEW i \in Busy(cc, new, {})
      PROVE  i \in Slots /\ i \in Busy(bb, old, {}) /\ cc.status[i] = bb.status[i]
  <2>1. /\ i \in Slots
        /\ cc.status[i] = "IN_FLIGHT" \/ (cc.status[i] = "FULL" /\ i \notin new)
    BY DEF Busy
  <2>2. cc.status[i] = bb.status[i] BY <2>1
  <2>3. cc.status[i] = "FULL" => i \notin old BY <2>1
  <2> QED BY <2>1, <2>2, <2>3 DEF Busy
<1>2. Leftover(cc, l, new) BY DEF Leftover
<1>3. Aged(cc, l, new, {})
  <2>1. ASSUME NEW i \in Busy(cc, new, {})
        PROVE  IF cc.status[i] = "FULL"
               THEN /\ 1 <= Dist(cc.buffer_seq[i], l)
                    /\ Dist(cc.buffer_seq[i], l) < Dist(cc.expected_seq, l)
               ELSE /\ Dist(cc.expected_seq, l) <= Dist(cc.buffer_seq[i], l)
                    /\ Dist(cc.buffer_seq[i], l) < Dist(cc.next_seq, l)
    BY <1>1 DEF Aged
  <2> QED BY <2>1 DEF Aged
<1>4. OneEach(cc, new, {}) BY <1>1 DEF OneEach
<1>5. Labelled(cc, new, {}) BY <1>1 DEF Labelled
<1>6. Anchored(bb) => Anchored(cc) BY DEF Anchored, HeldSlots
<1> QED BY <1>2, <1>3, <1>4, <1>5, <1>6

\* sync_worker_reanchor_rx_consumer_to_oldest() finds the oldest buffer.
LEMMA ReanchorOldest ==
  ASSUME NEW bb \in BufferMgmt, NEW l \in Seqs, NEW old, Sorted(bb, l, old, {}),
         Dist(bb.next_seq, l) <= (SeqMod - 1) \div 2,
         \A i \in Slots : bb.status[i] # "PARTIAL",
         NEW a \in BufferMgmt, a = Reanchor(bb), a.status[a.cons_i] = "FULL"
  PROVE  Claimed("BUFFER_READY", a, l, old)
<1> DEFINE S == Candidates(bb)
           x == bb.expected_seq
           f == [i \in S |-> Key(bb, i)]
           best == CHOOSE i \in Candidates(bb) : \A j \in Candidates(bb) :
                     \/ Key(bb, i) < Key(bb, j)
                     \/ Key(bb, i) = Key(bb, j) /\ i <= j
<1>1. /\ x \in Seqs /\ bb.next_seq \in Seqs
      /\ \A i \in Slots : bb.buffer_seq[i] \in Seqs
      /\ \A s \in Seqs : Dist(s, l) \in Int /\ 0 <= Dist(s, l) /\ Dist(s, l) <= SeqMod-1
  BY Ages
<1>2. /\ a.status = bb.status /\ a.buffer_seq = bb.buffer_seq
      /\ a.cons_i \in Slots
  BY DEF Reanchor, BufferMgmt
<1>3. S # {}
  <2>1. CASE S = {}
    <3>1. a = bb BY <2>1 DEF Reanchor
    <3>2. a.cons_i \in S BY <1>2, <3>1 DEF Candidates
    <3> QED BY <2>1, <3>2
  <2> QED BY <2>1
<1>4. S \in SUBSET Slots BY DEF Candidates
<1>5. \A i \in Slots : Key(bb, i) \in Nat
  <2>1. \A i \in Slots : Dist(bb.buffer_seq[i], x) \in Nat BY <1>1, Wrapped
  <2>2. \A i \in Slots : Behind(bb, i) => Dist(bb.buffer_seq[i], x) > 0
    BY <2>1, SeqSizes DEF Behind
  <2> QED BY <2>1, <2>2, SeqSizes DEF Key
<1>6. \E i \in S : \A j \in S : f[i] < f[j] \/ (f[i] = f[j] /\ i <= j)
  <2>1. f \in [S -> Nat] BY <1>4, <1>5
  <2> HIDE DEF S, f
  <2> QED BY <1>3, <1>4, <2>1, LeastSlot
<1>7. best \in S /\ \A j \in S : Key(bb, best) < Key(bb, j)
                                  \/ (Key(bb, best) = Key(bb, j) /\ best <= j)
  BY <1>6
<1>8. a.cons_i = best
  <2>1. a = IF best = bb.cons_i THEN bb
            ELSE [bb EXCEPT !.cons_i = best, !.partial_off = 0]
    BY <1>3 DEF Reanchor
  <2> HIDE DEF best
  <2> QED BY <2>1 DEF BufferMgmt
<1> HIDE DEF best, f
<1>9. ASSUME NEW i \in Slots, bb.status[i] = "FULL"
      PROVE  /\ Key(bb, i) = Dist(bb.buffer_seq[i], l) - Dist(x, l) + SeqMod - 1
             /\ i \in S
             /\ i \in old => Dist(bb.buffer_seq[i], l) = 0
             /\ i \notin old => 1 <= Dist(bb.buffer_seq[i], l)
  <2>1. i \in old => Dist(bb.buffer_seq[i], l) = 0
    BY <1>1, DistValue DEF Sorted, Leftover
  <2>2. i \notin old => /\ 1 <= Dist(bb.buffer_seq[i], l)
                        /\ Dist(bb.buffer_seq[i], l) < Dist(x, l)
    BY <1>9 DEF Sorted, Aged, Busy
  <2>3. 1 <= Dist(x, l) /\ Dist(x, l) <= Dist(bb.next_seq, l) BY DEF Sorted, Aged
  <2>4. PICK y \in Int : y = Dist(bb.buffer_seq[i], l) /\ 0 <= y BY <1>1
  <2>5. PICK z \in Int : z = Dist(x, l) /\ 1 <= z BY <1>1, <2>3
  <2>6. y < z BY <2>1, <2>2, <2>4, <2>5
  <2>7. PICK h \in Int : h = (SeqMod - 1) \div 2 /\ 2 * h <= SeqMod - 1 BY SeqSizes
  <2>8. z <= h BY <1>1, <2>3, <2>5, <2>7
  <2>9. Dist(bb.buffer_seq[i], x) = y - z + SeqMod
    BY <1>1, <2>4, <2>5, <2>6, DistBetween
  <2>10. Dist(bb.buffer_seq[i], x) > h BY <2>4, <2>5, <2>6, <2>7, <2>8, <2>9, SeqSizes
  <2>11. Behind(bb, i) BY <2>7, <2>10 DEF Behind
  <2>12. Key(bb, i) = y - z + SeqMod - 1
    <3>1. PICK k \in Int : k = Dist(bb.buffer_seq[i], x) BY <2>4, <2>5, <2>9, SeqSizes
    <3>2. Key(bb, i) = k - 1 BY <2>11, <3>1 DEF Key
    <3> QED BY <2>4, <2>5, <2>9, <3>1, <3>2, SeqSizes
  <2>13. i \in S BY <1>9 DEF Candidates
  <2> QED BY <2>1, <2>2, <2>4, <2>5, <2>12, <2>13
<1> SUFFICES ASSUME a.cons_i \notin old, NEW j \in Slots, a.status[j] = "FULL"
             PROVE  /\ j \notin old
                    /\ Dist(a.buffer_seq[a.cons_i], l) <= Dist(a.buffer_seq[j], l)
  BY DEF Claimed
<1>10. /\ Key(bb, best) = Dist(bb.buffer_seq[best], l) - Dist(x, l) + SeqMod - 1
       /\ 1 <= Dist(bb.buffer_seq[best], l)
  BY <1>2, <1>8, <1>9
<1>11. /\ Key(bb, j) = Dist(bb.buffer_seq[j], l) - Dist(x, l) + SeqMod - 1
       /\ j \in S /\ (j \in old => Dist(bb.buffer_seq[j], l) = 0)
  BY <1>2, <1>9
<1>12. Key(bb, best) <= Key(bb, j)
  <2>1. Key(bb, best) \in Nat /\ Key(bb, j) \in Nat BY <1>2, <1>5, <1>8
  <2> QED BY <1>7, <1>11, <2>1
<1>13. /\ Dist(bb.buffer_seq[j], l) \in Int /\ Dist(bb.buffer_seq[best], l) \in Int
       /\ Dist(x, l) \in Int
  BY <1>1, <1>2, <1>8
<1>14. Dist(bb.buffer_seq[best], l) <= Dist(bb.buffer_seq[j], l)
  BY <1>10, <1>11, <1>12, <1>13, SeqSizes
<1> QED BY <1>2, <1>8, <1>10, <1>11, <1>13, <1>14

-----------------------------------------------------------------------------
(* The searches of the reader stop at a PARTIAL slot: there is none while   *)
(* it looks for a buffer.                                                   *)

\* Only the buffer being read is PARTIAL, and a reader that waits reads none.
OnlyPartial(st, bb) ==
  \A i \in Slots : bb.status[i] = "PARTIAL" => st = "USING_BUFFER" /\ i = bb.cons_i

Waits == call.pc \in {"wait", "woken", "timedout", "starting"} =>
           state # "USING_BUFFER"

LEMMA WaitsStep ==
  ASSUME TypeOK, [Next]_vars, Waits
  PROVE  Waits'
<1> USE DEF Waits
<1>1. call \in Calls BY DEF TypeOK
<1>3. \A c \in Calls : /\ Failed(c).pc = "out" /\ Looping(c).pc \in {"top", "out"}
                       /\ \A p : [c EXCEPT !.pc = p].pc = p
  BY DEF Looping, Failed, Calls
<1>4. ASSUME NEW sig, Wake(sig), state' = state PROVE Waits'
  BY <1>1, <1>3, <1>4 DEF Wake
<1>5. CASE UsbThread
  <2>1. CASE RxEventCallback BY <1>4, <2>1 DEF RxEventCallback
  <2>2. ASSUME NEW i \in Slots, RxCallbackStore(i) PROVE Waits'
    BY <1>4, <2>2 DEF RxCallbackStore
  <2>3. ASSUME NEW i \in Slots, RxCallbackNoData(i) PROVE Waits'
    BY <2>3 DEF RxCallbackNoData
  <2>4. ASSUME NEW i \in Slots, RxCallbackRingFull(i) PROVE Waits'
    BY <1>4, <2>4 DEF RxCallbackRingFull
  <2>5. ASSUME NEW i \in Slots, NEW quiet \in BOOLEAN, RxBufferRejected(i, quiet)
        PROVE  Waits'
    BY <1>4, <2>5 DEF RxBufferRejected
  <2> QED BY <1>5, <2>1, <2>2, <2>3, <2>4, <2>5 DEF UsbThread
<1>6. CASE Worker
  <2>1. CASE ExecIdleState BY <2>1 DEF ExecIdleState
  <2>2. CASE ExecRunningState BY <1>4, <2>2 DEF ExecRunningState
  <2>3. CASE WorkerBackToIdle BY <2>3 DEF WorkerBackToIdle
  <2> QED BY <1>6, <2>1, <2>2, <2>3 DEF Worker
<1>7. CASE ReaderStep
  <2>1. CASE LoopTop BY <1>1, <1>3, <2>1 DEF LoopTop
  <2>2. CASE CheckWorker BY <1>1, <1>3, <2>2 DEF CheckWorker
  <2>3. CASE ResetBufMgmt BY <1>1, <1>3, <2>3 DEF ResetBufMgmt
  <2>4. CASE StartWorker BY <1>1, <1>3, <2>4 DEF StartWorker
  <2>5. CASE WorkerStarted BY <1>1, <1>3, <2>5 DEF WorkerStarted
  <2>6. CASE StartTimedOut BY <1>1, <1>3, <2>6 DEF StartTimedOut
  <2>7. CASE WaitForBuffer BY <1>1, <1>3, <2>7 DEF WaitForBuffer
  <2>8. CASE WakeUp BY <1>1, <1>3, <2>8 DEF WakeUp
  <2>9. CASE TimedOut BY <1>1, <1>3, <2>9 DEF TimedOut
  <2>10. CASE BufferReady BY <1>1, <1>3, <2>10 DEF BufferReady
  <2>11. CASE UsingBuffer
    <3>1. PICK n : call' = Failed(call) \/ call' = Looping([call EXCEPT !.want = @ - n])
      BY <2>11 DEF UsingBuffer
    <3>2. Looping([call EXCEPT !.want = @ - n]).pc \in {"top", "out"}
      BY <1>1 DEF Looping, Calls
    <3> QED BY <1>1, <1>3, <3>1, <3>2
  <2>12. CASE UsingBufferMeta
    <3>1. PICK n, copied :
            LET c == [call EXCEPT !.want = IF copied THEN @ - n ELSE @] IN
            call' = Looping(c) \/ call' = [c EXCEPT !.pc = "out"] \/ call' = Failed(c)
      BY <2>12 DEF UsingBufferMeta
    <3>2. call'.pc \in {"top", "out"} BY <1>1, <3>1 DEF Looping, Failed, Calls
    <3> QED BY <3>2
  <2>13. CASE UsingPacketMeta BY <1>1, <1>3, <2>13 DEF UsingPacketMeta
  <2>14. CASE Out BY <2>14 DEF Out, NoCall
  <2> QED BY <1>7, <2>1, <2>2, <2>3, <2>4, <2>5, <2>6, <2>7, <2>8, <2>9, <2>10,
             <2>11, <2>12, <2>13, <2>14 DEF ReaderStep
<1>8. CASE Control
  <2>1. CASE RevokeEpoch
    <3>1. call'.pc = call.pc \/ (call.pc = "wait" /\ call'.pc = "woken")
      BY <1>1, <2>1 DEF RevokeEpoch, Calls
    <3> QED BY <2>1, <3>1 DEF RevokeEpoch
  <2>2. CASE InvalidateEpoch BY <2>2 DEF InvalidateEpoch
  <2>3. CASE StageFpgaLoss \/ PrimeCheck \/ PrimeSubmit
    BY <2>3 DEF StageFpgaLoss, PrimeCheck, PrimeSubmit
  <2> QED BY <1>8, <2>1, <2>2, <2>3 DEF Control
<1>9. CASE Application
  <2>1. PICK kind \in Timeouts, now \in BOOLEAN, want \in Requests :
          StartRead(kind, now, want)
    BY <1>9 DEF Application
  <2>2. call'.pc \in {"top", "out"} BY <2>1 DEF StartRead, Looping, Failed, NoCall
  <2> QED BY <2>2
<1>10. CASE WaitExpires BY <1>1, <1>3, <1>10 DEF WaitExpires
<1>11. CASE SpuriousWakeup BY <1>4, <1>11 DEF SpuriousWakeup
<1>12. CASE UNCHANGED vars BY <1>12 DEF vars
<1> QED BY <1>5, <1>6, <1>7, <1>8, <1>9, <1>10, <1>11, <1>12 DEF Next

\* A callback makes no buffer PARTIAL.
LEMMA UsbThreadPartial ==
  ASSUME TypeOK, UsbThread
  PROVE  /\ state' = state /\ b'.cons_i = b.cons_i
         /\ \A i \in Slots : b'.status[i] = "PARTIAL" => b.status[i] = "PARTIAL"
<1> USE DEF TypeOK
<1> DEFINE Calm(c, d) ==
      /\ d.cons_i = c.cons_i
      /\ \A i \in Slots : d.status[i] = "PARTIAL" => c.status[i] = "PARTIAL"
<1>1. ASSUME NEW c \in BufferMgmt PROVE Calm(c, Flush(c))
  BY DEF Flush, BufferMgmt
<1>2. ASSUME NEW c \in BufferMgmt PROVE Calm(c, RetireExpected(c))
  <2> DEFINE d == [c EXCEPT !.expected_seq = Incr(@)]
  <2>1. d \in BufferMgmt BY Wrapped DEF BufferMgmt
  <2>2. Calm(c, d) BY DEF BufferMgmt
  <2> HIDE DEF d
  <2>3. Calm(d, Flush(d)) BY <1>1, <2>1
  <2>4. Calm(c, Flush(d)) BY <2>2, <2>3
  <2> QED BY <2>4 DEF RetireExpected, d
<1>3. ASSUME NEW c \in BufferMgmt, NEW s PROVE Calm(c, RetireDropped(c, s))
  <2>1. CASE s = c.expected_seq BY <1>2, <2>1 DEF RetireDropped
  <2>2. CASE s # c.expected_seq
    BY <2>2 DEF RetireDropped, NoteOverrun, BufferMgmt
  <2> QED BY <2>1, <2>2
<1>4. ASSUME NEW c \in BufferMgmt, NEW i \in Slots PROVE Calm(c, StoreCompleted(c, i))
  <2>1. Ready(c, i) \in BufferMgmt /\ Calm(c, Ready(c, i))
    BY DEF Ready, BufferMgmt, Status
  <2>2. Calm(Ready(c, i), RetireExpected(Ready(c, i))) BY <1>2, <2>1
  <2>3. Calm(c, RetireExpected(Ready(c, i))) BY <2>1, <2>2
  <2>4. Calm(c, Hold(c, i)) BY DEF Hold, BufferMgmt
  <2>5. Calm(c, Ready(NoteOverrun(c), i)) BY DEF Ready, NoteOverrun, BufferMgmt
  <2> QED BY <2>3, <2>4, <2>5 DEF StoreCompleted
<1>5. ASSUME NEW c \in BufferMgmt, NEW i
      PROVE  Calm(c, SubmitSlot(c, i)) /\ Calm(c, MarkInFlight(c, i))
  BY <1>5 DEF SubmitSlot, MarkInFlight, BufferMgmt
<1>6. ASSUME NEW c \in BufferMgmt PROVE Calm(c, NoteOverrun(c))
  BY DEF NoteOverrun, BufferMgmt
<1> HIDE DEF Calm
<1>t. ASSUME NEW c, NEW d, NEW e, Calm(c, d), Calm(d, e) PROVE Calm(c, e)
  BY <1>t DEF Calm
<1>7. ASSUME NEW i \in Slots, RxCallbackStore(i) PROVE state' = state /\ Calm(b, b')
  <2> DEFINE c == [b EXCEPT !.buffer_dropped[i] = FALSE]
             d == StoreCompleted(c, i)
  <2>1. c \in BufferMgmt /\ Calm(b, c) BY DEF BufferMgmt, Calm
  <2>2. d \in BufferMgmt BY <2>1, StoreCompletedType
  <2>3. Calm(c, d) BY <1>4, <2>1
  <2>4. state' = state /\ b' = SubmitSlot(d, ProducerSlot(c))
    BY <1>7 DEF RxCallbackStore
  <2>5. Calm(d, b') BY <1>5, <2>2, <2>4
  <2> HIDE DEF c, d
  <2>6. Calm(b, d) BY <1>t, <2>1, <2>3
  <2> QED BY <1>t, <2>4, <2>5, <2>6
<1>8. ASSUME NEW i \in Slots, RxCallbackNoData(i) PROVE state' = state /\ Calm(b, b')
  BY <1>8 DEF RxCallbackNoData, BufferMgmt, Calm
<1>9. ASSUME NEW i \in Slots, RxCallbackRingFull(i) PROVE state' = state /\ Calm(b, b')
  <2> DEFINE q == RetireDropped(b, b.buffer_seq[i])
             m == MarkInFlight(q, i)
  <2>1. q \in BufferMgmt
    <3>1. b.buffer_seq[i] \in Seqs BY DEF BufferMgmt
    <3> QED BY <3>1, RetireDroppedType
  <2>2. Calm(b, q) BY <1>3
  <2>3. state' = state /\ b' = NoteOverrun(m) BY <1>9 DEF RxCallbackRingFull
  <2> HIDE DEF q
  <2>4. m \in BufferMgmt BY <2>1, Wrapped DEF MarkInFlight, BufferMgmt, Status
  <2>5. Calm(q, m) BY <1>5, <2>1
  <2>6. Calm(m, b') BY <1>6, <2>3, <2>4
  <2> HIDE DEF m
  <2>7. Calm(b, m) BY <1>t, <2>2, <2>5
  <2> QED BY <1>t, <2>3, <2>6, <2>7
<1>10. ASSUME NEW i \in Slots, NEW quiet \in BOOLEAN, RxBufferRejected(i, quiet)
       PROVE  state' = state /\ Calm(b, b')
  <2> DEFINE q == RetireDropped(b, b.buffer_seq[i])
             r == [q EXCEPT !.buffer_dropped[i] = TRUE, !.status[i] = "EMPTY"]
  <2>1. q \in BufferMgmt
    <3>1. b.buffer_seq[i] \in Seqs BY DEF BufferMgmt
    <3> QED BY <3>1, RetireDroppedType
  <2>2. Calm(b, q) BY <1>3
  <2>3. state' = state /\ (b' = b \/ b' = SubmitSlot(r, ProducerSlot(r)))
    BY <1>10 DEF RxBufferRejected
  <2>4. CASE b' = b BY <2>3, <2>4 DEF Calm
  <2>5. CASE b' = SubmitSlot(r, ProducerSlot(r))
    <3> HIDE DEF q
    <3>1. r \in BufferMgmt /\ Calm(q, r) BY <2>1 DEF BufferMgmt, Status, Calm
    <3>2. Calm(r, b') BY <1>5, <2>5, <3>1
    <3> HIDE DEF r
    <3>3. Calm(b, r) BY <1>t, <2>2, <3>1
    <3> QED BY <1>t, <2>3, <3>2, <3>3
  <2> QED BY <2>3, <2>4, <2>5
<1>11. ASSUME RxEventCallback PROVE state' = state /\ Calm(b, b')
  BY <1>11 DEF RxEventCallback, BufferMgmt, Calm
<1>12. state' = state /\ Calm(b, b')
  BY <1>7, <1>8, <1>9, <1>10, <1>11 DEF UsbThread
<1> QED BY <1>12 DEF Calm

LEMMA PartialStep ==
  ASSUME TypeOK, [Next]_vars, Waits, "stolen" \notin g.past => OnlyPartial(state, b),
         "stolen" \notin g'.past
  PROVE  OnlyPartial(state', b')
<1> USE DEF TypeOK
<1>1. CASE ExecIdleState
  <2>1. "stolen" \notin g.past /\ state \notin {"BUFFER_READY", "USING_BUFFER"}
    BY <1>1 DEF ExecIdleState, Ghosts
  <2>2. /\ state' = state
        /\ \A i \in Slots : b'.status[i] = "PARTIAL" => b.status[i] = "PARTIAL"
    BY <1>1 DEF ExecIdleState, ResetForStart, BufferMgmt
  <2> QED BY <2>1, <2>2 DEF OnlyPartial
<1>2. CASE ~ExecIdleState
  <2>0. OnlyPartial(state, b) BY <1>2, PastGrows
  <2>n. ASSUME state # "USING_BUFFER" PROVE \A i \in Slots : b.status[i] # "PARTIAL"
    BY <2>0, <2>n DEF OnlyPartial
  <2>1. CASE UsbThread BY <2>0, <2>1, UsbThreadPartial DEF OnlyPartial
  <2>2. CASE ExecRunningState \/ WorkerBackToIdle
    BY <2>0, <2>2 DEF ExecRunningState, WorkerBackToIdle, OnlyPartial
  <2>3. CASE LoopTop \/ StartWorker \/ StartTimedOut
    BY <2>0, <2>3 DEF LoopTop, StartWorker, StartTimedOut, OnlyPartial
  <2>4. CASE CheckWorker \/ WorkerStarted \/ TimedOut \/ WakeUp
    <3>1. b' = b /\ state # "USING_BUFFER"
      BY <2>4 DEF CheckWorker, WorkerStarted, TimedOut, WakeUp, Waits
    <3> QED BY <2>n, <3>1 DEF OnlyPartial
  <2>5. CASE ResetBufMgmt
    <3>1. b'.status = b.status /\ state # "USING_BUFFER"
      BY <2>5 DEF ResetBufMgmt, BufferMgmt
    <3> QED BY <2>n, <3>1 DEF OnlyPartial
  <2>6. CASE WaitForBuffer
    <3> DEFINE w == [b EXCEPT !.rx_data_withheld_pending = FALSE]
               k == SkipDropped(w)
               a == Reanchor(k)
               r == DropStale(a, call.now)
    <3>1. w \in BufferMgmt /\ w.status = b.status BY DEF BufferMgmt
    <3>2. state = "WAIT_FOR_BUFFER" /\ (b' = w \/ b' = r) BY <2>6 DEF WaitForBuffer
    <3> HIDE DEF w
    <3>3. k \in BufferMgmt /\ k.status = b.status BY <3>1, SkipDroppedType, SearchFrame
    <3> HIDE DEF k
    <3>4. a \in BufferMgmt /\ a.status = b.status BY <3>3, ReanchorType, SearchFrame
    <3> HIDE DEF a
    <3>5. \A i \in Slots : r.status[i] = "PARTIAL" => b.status[i] = "PARTIAL"
      BY <3>4 DEF DropStale, BufferMgmt
    <3> QED BY <2>n, <3>1, <3>2, <3>5 DEF OnlyPartial
  <2>7. CASE BufferReady
    <3>1. \A i \in Slots : b.status[i] # "PARTIAL" BY <2>n, <2>7 DEF BufferReady
    <3>2. /\ b'.cons_i = b.cons_i /\ state' = "USING_BUFFER"
          /\ b'.status = [b.status EXCEPT ![b.cons_i] = "PARTIAL"]
      BY <2>7 DEF BufferReady, BufferMgmt
    <3>3. b.status \in [Slots -> Status] BY DEF BufferMgmt
    <3> QED BY <3>1, <3>2, <3>3 DEF OnlyPartial
  <2>8. ASSUME NEW c \in BufferMgmt, c.status = b.status, c.cons_i = b.cons_i,
               b' = AdvanceRx(c)
        PROVE  OnlyPartial(state', b')
    <3>1. b'.status = [b.status EXCEPT ![b.cons_i] = "EMPTY"]
      BY <2>8 DEF AdvanceRx, BufferMgmt
    <3>2. b.status \in [Slots -> Status] /\ b.cons_i \in Slots BY DEF BufferMgmt
    <3>3. \A i \in Slots : b'.status[i] # "PARTIAL"
      BY <2>0, <3>1, <3>2 DEF OnlyPartial
    <3> QED BY <3>3 DEF OnlyPartial
  <2>9. ASSUME NEW n, Consume(n) PROVE OnlyPartial(state', b')
    <3>1. CASE b' = [b EXCEPT !.partial_off = @ + n] /\ state' = state
      <4>1. b'.status = b.status /\ b'.cons_i = b.cons_i BY <3>1 DEF BufferMgmt
      <4> QED BY <2>0, <3>1, <4>1 DEF OnlyPartial
    <3>2. CASE b' = AdvanceRx([b EXCEPT !.partial_off = Units])
      <4>1. Units \in 0 .. Units BY Sizes
      <4>2. /\ [b EXCEPT !.partial_off = Units] \in BufferMgmt
            /\ [b EXCEPT !.partial_off = Units].status = b.status
            /\ [b EXCEPT !.partial_off = Units].cons_i = b.cons_i
        BY <4>1 DEF BufferMgmt
      <4> QED BY <2>8, <3>2, <4>2
    <3> QED BY <2>9, <3>1, <3>2 DEF Consume
  <2>10. CASE UsingBuffer
    <3>1. CASE b.overrun_pending BY <2>0, <2>10, <3>1 DEF UsingBuffer, OnlyPartial
    <3>2. CASE ~b.overrun_pending BY <2>9, <2>10, <3>2 DEF UsingBuffer
    <3> QED BY <3>1, <3>2
  <2>11. CASE UsingBufferMeta BY <2>9, <2>11 DEF UsingBufferMeta
  <2>12. CASE UsingPacketMeta BY <2>8, <2>12 DEF UsingPacketMeta
  <2>13. CASE Out \/ Application \/ StageFpgaLoss
    <3>1. b'.status = b.status /\ b'.cons_i = b.cons_i /\ state' = state
      BY <2>13 DEF Out, Application, StartRead, ClearOverrun, StageFpgaLoss, BufferMgmt
    <3> QED BY <2>0, <3>1 DEF OnlyPartial
  <2>14. CASE InvalidateEpoch
    <3> DEFINE f == b.overrun_source_flags \ {"FPGA_RX_LOSS"}
               c == [b EXCEPT !.overrun_source_flags = f,
                              !.overrun_pending = @ /\ f # {}]
    <3>1. c \in BufferMgmt BY DEF BufferMgmt
    <3>2. b' = Discard(c) BY <2>14 DEF InvalidateEpoch
    <3> HIDE DEF c
    <3>3. /\ FreeCompleted(c) \in BufferMgmt
          /\ \A i \in Slots : FreeCompleted(c).status[i] # "PARTIAL"
      <4>1. FreeCompleted(c) \in BufferMgmt BY <3>1, FreeCompletedType
      <4>2. \A i \in Slots : FreeCompleted(c).status[i] # "PARTIAL"
        BY <3>1 DEF FreeCompleted, BufferMgmt
      <4> QED BY <4>1, <4>2
    <3>4. b'.status = FreeCompleted(c).status BY <3>2, <3>3 DEF Discard, BufferMgmt
    <3> QED BY <3>3, <3>4 DEF OnlyPartial
  <2>15. CASE RevokeEpoch \/ PrimeCheck \/ PrimeSubmit
    BY <2>0, <2>15 DEF RevokeEpoch, PrimeCheck, PrimeSubmit, OnlyPartial
  <2>16. CASE WaitExpires \/ SpuriousWakeup \/ UNCHANGED vars
    BY <2>0, <2>16 DEF WaitExpires, SpuriousWakeup, vars, OnlyPartial
  <2> QED BY <1>2, <2>1, <2>2, <2>3, <2>4, <2>5, <2>6, <2>7, <2>10, <2>11, <2>12,
             <2>13, <2>14, <2>15, <2>16 DEF Next, Worker, ReaderStep, Control
<1> QED BY <1>1, <1>2

-----------------------------------------------------------------------------
(* The steps of the reader and of the control thread keep the order.        *)

\* A step that leaves the numbers, the statuses and the counters alone.
LEMMA SameOrdered ==
  ASSUME TypeOK, TypeOK', InOrder, g'.last = g.last, g'.old = g.old, fence' = fence,
         cnt'.lost = cnt.lost, cnt'.fences = cnt.fences,
         b'.status = b.status, b'.buffer_seq = b.buffer_seq,
         b'.expected_seq = b.expected_seq, b'.next_seq = b.next_seq,
         b'.reorder = b.reorder, b'.stale_pending => b.stale_pending,
         state' = "BUFFER_READY" => state = "BUFFER_READY" /\ b'.cons_i = b.cons_i
  PROVE  InOrder'
<1>1. /\ b \in BufferMgmt /\ b' \in BufferMgmt /\ g.last \in Seqs
      /\ cnt \in Used /\ cnt' \in Used /\ fence \in BOOLEAN
  BY DEF TypeOK, Ghosts
<1>2. Ordered(b', state', g.last, g.old, fence, cnt')
  BY <1>1, OrderedFrame DEF InOrder
<1> QED BY <1>2 DEF InOrder

LEMMA WaitOrdered ==
  ASSUME Roomy, TypeOK, TypeOK', InOrder, OnlyPartial(state, b), WaitForBuffer
  PROVE  InOrder'
<1> DEFINE w == [b EXCEPT !.rx_data_withheld_pending = FALSE]
           k == SkipDropped(w)
           a == Reanchor(k)
           r == DropStale(a, call.now)
           l == g.last
           old == g.old
           Same(d) == /\ d.status = b.status /\ d.buffer_seq = b.buffer_seq
                      /\ d.expected_seq = b.expected_seq /\ d.next_seq = b.next_seq
                      /\ d.reorder = b.reorder /\ d.stale_pending = b.stale_pending
<1>1. /\ b \in BufferMgmt /\ b' \in BufferMgmt /\ l \in Seqs /\ g \in Ghosts
      /\ cnt \in Used /\ fence \in BOOLEAN
  BY DEF TypeOK, Ghosts
<1>2. /\ state = "WAIT_FOR_BUFFER" /\ cnt' = cnt /\ fence' = fence
      /\ g' = Note(b', {}, FALSE)
      /\ \/ b' = w /\ state' = state
         \/ /\ b' = r
            /\ state' = state \/ (state' = "BUFFER_READY" /\ r.status[r.cons_i] = "FULL")
  BY DEF WaitForBuffer
<1>3. w \in BufferMgmt /\ Same(w) BY <1>1 DEF BufferMgmt
<1> HIDE DEF w
<1>4. k \in BufferMgmt /\ Same(k)
  BY <1>3, SkipDroppedType DEF SkipDropped, BufferMgmt
<1> HIDE DEF k
<1>5. a \in BufferMgmt /\ Same(a)
  <2>1. a \in BufferMgmt BY <1>4, ReanchorType
  <2>2. Same(a) BY <1>4 DEF Reanchor, BufferMgmt
  <2> QED BY <2>1, <2>2
<1>6. /\ Sorted(b, l, old, {}) /\ Anchored(b) /\ Room(b, l, old, fence, cnt)
      /\ Leftover(b, l, old)
  BY DEF InOrder, Ordered, Sorted
<1>7. ASSUME Same(b') PROVE g'.last = l /\ g'.old = old
  <2>1. PICK n : n = b' OBVIOUS
  <2>2. \A i \in Slots : b.status[i] \in {"FULL", "PARTIAL"} => n.status[i] = b.status[i]
    BY <1>7, <2>1
  <2>3. Note(n, {}, FALSE).last = l /\ Note(n, {}, FALSE).old = old
    BY <1>6, <2>2, NoteKept
  <2>4. g' = Note(n, {}, FALSE) BY <1>2, <2>1
  <2> QED BY <2>3, <2>4
<1>8. CASE b' = w /\ state' = state
  <2>1. Same(b') BY <1>3, <1>8
  <2> QED BY <1>2, <1>7, <1>8, <2>1, SameOrdered
<1>9. CASE b' = r /\ r = a
  <2>1. Same(b') BY <1>5, <1>9
  <2>2. Ordered(b', "WAIT_FOR_BUFFER", l, old, fence, cnt)
    BY <1>1, <2>1, OrderedFrame DEF InOrder
  <2>3. ASSUME state' = "BUFFER_READY" PROVE Claimed("BUFFER_READY", b', l, old)
    <3>1. r.status[r.cons_i] = "FULL" BY <1>2, <1>8, <2>3
    <3>2. Dist(k.next_seq, l) <= (SeqMod - 1) \div 2 BY <1>1, <1>4, <1>6, Near
    <3>3. \A i \in Slots : k.status[i] # "PARTIAL" BY <1>2, <1>4 DEF OnlyPartial
    <3>4. Sorted(k, l, old, {}) BY <1>4, <1>6, SortedFrame
    <3>5. PICK n \in BufferMgmt : n = b' /\ n = Reanchor(k) /\ n.status[n.cons_i] = "FULL"
      BY <1>1, <1>9, <3>1
    <3> QED BY <1>1, <1>4, <3>2, <3>3, <3>4, <3>5, ReanchorOldest
  <2>4. Claimed(state', b', l, old) BY <2>3 DEF Claimed
  <2>5. Ordered(b', state', l, old, fence, cnt) BY <2>2, <2>4 DEF Ordered
  <2> QED BY <1>2, <1>7, <2>1, <2>5 DEF InOrder
\* The purge.
<1>10. CASE b' = r /\ r # a
  <2>1. b.stale_pending BY <1>5, <1>10 DEF DropStale
  <2> DEFINE p == Format = "META" /\ a.status[a.cons_i] = "PARTIAL"
  <2>2. /\ b'.status = [i \in Slots |-> IF a.status[i] = "FULL" \/ (p /\ i = a.cons_i)
                                        THEN "EMPTY" ELSE a.status[i]]
        /\ ~b'.stale_pending
        /\ b'.buffer_seq = b.buffer_seq /\ b'.expected_seq = b.expected_seq
        /\ b'.next_seq = b.next_seq /\ b'.reorder = b.reorder
    <3>1. r = [a EXCEPT
                !.status = [i \in Slots |-> IF a.status[i] = "FULL" \/ (p /\ i = a.cons_i)
                                            THEN "EMPTY" ELSE a.status[i]],
                !.cons_i = IF p THEN Next1(@) ELSE @,
                !.stale_pending = FALSE]
      BY <1>10 DEF DropStale
    <3> HIDE DEF a, p
    <3> QED BY <1>5, <1>10, <3>1 DEF BufferMgmt
  <2> HIDE DEF r, a
  <2>3. \A i \in Slots : /\ b'.status[i] # "FULL"
                         /\ \/ b'.status[i] = b.status[i]
                            \/ /\ b'.status[i] = "EMPTY"
                               /\ b.status[i] \in {"FULL", "PARTIAL"}
    BY <1>5, <2>2
  <2>4. state' # "BUFFER_READY"
    <3>1. b'.cons_i \in Slots BY <1>1 DEF BufferMgmt
    <3> QED BY <1>2, <1>10, <2>3, <3>1
  <2>5. PICK n \in BufferMgmt : n = b' BY <1>1
  <2>6. PICK new : new = {i \in old : n.status[i] \in {"FULL", "PARTIAL"}} OBVIOUS
  <2>7. g'.last = l /\ g'.old = new BY <1>1, <1>2, <2>5, <2>6 DEF Note, Ghosts
  <2>8. Sorted(n, l, new, {}) /\ Anchored(n)
    <3>1. \A i \in Slots : \/ n.status[i] = b.status[i]
                           \/ /\ n.status[i] = "EMPTY"
                              /\ b.status[i] \in {"FULL", "PARTIAL"}
      BY <2>3, <2>5
    <3> QED BY <1>6, <2>2, <2>5, <2>6, <3>1, Thinned
  <2>9. Room(n, l, new, fence, cnt) BY <1>1, <1>6, <2>1, <2>2, <2>5, RoomFreed
  <2>10. Claimed(state', n, l, new) BY <2>4 DEF Claimed
  <2> QED BY <1>2, <2>5, <2>7, <2>8, <2>9, <2>10 DEF InOrder, Ordered
<1> QED BY <1>2, <1>8, <1>9, <1>10

LEMMA WakeOrdered ==
  ASSUME Roomy, TypeOK, TypeOK', InOrder, OnlyPartial(state, b), Waits, WakeUp,
         "blind" \notin g'.past
  PROVE  InOrder'
<1>1. /\ b \in BufferMgmt /\ g.last \in Seqs /\ g \in Ghosts /\ cnt \in Used
      /\ fence \in BOOLEAN
  BY DEF TypeOK, Ghosts
<1>2. /\ b' = b /\ fence' = fence /\ cnt' = cnt /\ state # "USING_BUFFER"
      /\ state' = IF b.status[b.cons_i] = "FULL" THEN "BUFFER_READY" ELSE "CHECK_WORKER"
      /\ g' = IF state' = "BUFFER_READY" /\ Reanchor(b) # b
              THEN [g EXCEPT !.past = @ \cup {"blind"}] ELSE g
  BY DEF WakeUp, Waits
<1>3. g' = g /\ (state' = "BUFFER_READY" => Reanchor(b) = b) BY <1>1, <1>2 DEF Ghosts
<1>4. Ordered(b, "CHECK_WORKER", g.last, g.old, fence, cnt)
  BY <1>1, OrderedFrame DEF InOrder
<1>5. ASSUME state' = "BUFFER_READY" PROVE Claimed("BUFFER_READY", b, g.last, g.old)
  <2>1. Sorted(b, g.last, g.old, {}) /\ Room(b, g.last, g.old, fence, cnt)
    BY DEF InOrder, Ordered
  <2>2. Dist(b.next_seq, g.last) <= (SeqMod - 1) \div 2 BY <1>1, <2>1, Near
  <2>3. \A i \in Slots : b.status[i] # "PARTIAL" BY <1>2 DEF OnlyPartial
  <2>4. b = Reanchor(b) /\ b.status[b.cons_i] = "FULL" BY <1>2, <1>3, <1>5
  <2> QED BY <1>1, <2>1, <2>2, <2>3, <2>4, ReanchorOldest
<1>6. Claimed(state', b, g.last, g.old) BY <1>5 DEF Claimed
<1> QED BY <1>2, <1>3, <1>4, <1>6 DEF InOrder, Ordered

\* The oldest buffer is taken: ages are counted from it now.
LEMMA Taken ==
  ASSUME NEW bb \in BufferMgmt, NEW cc \in BufferMgmt, NEW l \in Seqs, NEW m \in Seqs,
         NEW i \in Slots, Sorted(bb, l, {}, {}), bb.status[i] = "FULL",
         m = bb.buffer_seq[i],
         \A j \in Slots : bb.status[j] = "FULL" => Dist(m, l) <= Dist(bb.buffer_seq[j], l),
         cc.status = [bb.status EXCEPT ![i] = "PARTIAL"],
         cc.buffer_seq = bb.buffer_seq, cc.expected_seq = bb.expected_seq,
         cc.next_seq = bb.next_seq, cc.reorder = bb.reorder
  PROVE  /\ Sorted(cc, m, {}, {})
         /\ Dist(cc.next_seq, m) <= Dist(bb.next_seq, l) - 1
         /\ Busy(cc, {}, {}) = Busy(bb, {}, {}) \ {i}
         /\ Anchored(bb) => Anchored(cc)
<1> USE DEF Sorted
<1>1. /\ bb.expected_seq \in Seqs /\ bb.next_seq \in Seqs
      /\ \A j \in Slots : bb.buffer_seq[j] \in Seqs
      /\ \A r \in bb.reorder : r.seq \in Seqs
      /\ \A s \in Seqs : Dist(s, l) \in Int /\ 0 <= Dist(s, l)
      /\ \A s, t \in Seqs : Dist(s, l) = Dist(t, l) => s = t
  BY Ages
<1>2. bb.status \in [Slots -> Status] BY DEF BufferMgmt
<1>3. Busy(cc, {}, {}) = Busy(bb, {}, {}) \ {i} BY <1>2 DEF Busy
<1>4. i \in Busy(bb, {}, {}) BY DEF Busy
<1>5. 1 <= Dist(m, l) /\ Dist(m, l) < Dist(bb.expected_seq, l) BY <1>4 DEF Aged
<1>6. PICK y \in Int : y = Dist(m, l) /\ 1 <= y BY <1>1, <1>5
<1>7. ASSUME NEW s \in Seqs, y <= Dist(s, l) PROVE Dist(s, m) = Dist(s, l) - y
  BY <1>6, <1>7, DistBetween
<1>8. Dist(bb.expected_seq, l) <= Dist(bb.next_seq, l) BY DEF Aged
<1>9. /\ y < Dist(bb.expected_seq, l) /\ y < Dist(bb.next_seq, l)
      /\ Dist(bb.expected_seq, l) \in Int /\ Dist(bb.next_seq, l) \in Int
  BY <1>1, <1>5, <1>6, <1>8
<1>10. /\ Dist(bb.expected_seq, m) = Dist(bb.expected_seq, l) - y
       /\ Dist(bb.next_seq, m) = Dist(bb.next_seq, l) - y
  BY <1>1, <1>7, <1>9
<1>11. /\ 1 <= Dist(cc.expected_seq, m)
       /\ Dist(cc.expected_seq, m) <= Dist(cc.next_seq, m)
       /\ Dist(cc.next_seq, m) <= Dist(bb.next_seq, l) - 1
  BY <1>6, <1>8, <1>9, <1>10
<1>12. ASSUME NEW j \in Busy(cc, {}, {})
       PROVE  IF cc.status[j] = "FULL"
              THEN /\ 1 <= Dist(cc.buffer_seq[j], m)
                   /\ Dist(cc.buffer_seq[j], m) < Dist(cc.expected_seq, m)
              ELSE /\ Dist(cc.expected_seq, m) <= Dist(cc.buffer_seq[j], m)
                   /\ Dist(cc.buffer_seq[j], m) < Dist(cc.next_seq, m)
  <2>1. j \in Busy(bb, {}, {}) /\ j # i /\ j \in Slots BY <1>3 DEF Busy
  <2>2. cc.status[j] = bb.status[j] BY <1>2, <2>1
  <2>3. PICK x \in Int : x = Dist(bb.buffer_seq[j], l) BY <1>1, <2>1
  <2>4. CASE bb.status[j] = "FULL"
    <3>1. y <= x BY <1>6, <2>1, <2>3, <2>4
    <3>2. x # y
      <4>1. bb.buffer_seq[j] # m BY <1>4, <2>1 DEF OneEach
      <4> QED BY <1>1, <1>6, <2>1, <2>3, <4>1
    <3>3. x < Dist(bb.expected_seq, l) BY <2>1, <2>3, <2>4 DEF Aged
    <3>4. Dist(bb.buffer_seq[j], m) = x - y BY <1>1, <1>7, <2>1, <2>3, <3>1
    <3> QED BY <1>9, <1>10, <2>2, <2>3, <2>4, <3>1, <3>2, <3>3, <3>4, <1>6
  <2>5. CASE bb.status[j] # "FULL"
    <3>1. Dist(bb.expected_seq, l) <= x /\ x < Dist(bb.next_seq, l)
      BY <2>1, <2>3, <2>5 DEF Aged
    <3>2. Dist(bb.buffer_seq[j], m) = x - y BY <1>1, <1>6, <1>7, <1>9, <2>1, <2>3, <3>1
    <3> QED BY <1>6, <1>9, <1>10, <2>2, <2>3, <2>5, <3>1, <3>2
  <2> QED BY <2>4, <2>5
<1>13. ASSUME NEW r \in cc.reorder
       PROVE  /\ Dist(cc.expected_seq, m) <= Dist(r.seq, m)
              /\ Dist(r.seq, m) < Dist(cc.next_seq, m)
  <2>1. r.seq \in Seqs BY <1>1
  <2>2. PICK x \in Int : x = Dist(r.seq, l) BY <1>1, <2>1
  <2>3. Dist(bb.expected_seq, l) <= x /\ x < Dist(bb.next_seq, l) BY <2>2 DEF Aged
  <2>4. Dist(r.seq, m) = x - y BY <1>6, <1>7, <1>9, <2>1, <2>2, <2>3
  <2> QED BY <1>6, <1>9, <1>10, <2>3, <2>4
<1>14. Aged(cc, m, {}, {}) BY <1>11, <1>12, <1>13 DEF Aged
<1>15. OneEach(cc, {}, {}) BY <1>3 DEF OneEach
<1>16. Labelled(cc, {}, {}) BY <1>3 DEF Labelled
<1>17. Leftover(cc, m, {}) BY DEF Leftover
<1>18. Anchored(bb) => Anchored(cc)
  <2>1. \A j \in Slots : bb.status[j] = "IN_FLIGHT" => cc.status[j] = "IN_FLIGHT" BY <1>2
  <2> QED BY <2>1 DEF Anchored, HeldSlots
<1> QED BY <1>3, <1>11, <1>14, <1>15, <1>16, <1>17, <1>18

LEMMA ReadyOrdered ==
  ASSUME TypeOK, TypeOK', InOrder, Reading(state, b), OnlyPartial(state, b), BufferReady
  PROVE  InOrder'
<1> DEFINE l == g.last
           old == g.old
<1>1. /\ b \in BufferMgmt /\ b' \in BufferMgmt /\ l \in Seqs /\ g \in Ghosts
      /\ cnt \in Used /\ fence \in BOOLEAN /\ b.status \in [Slots -> Status]
  BY DEF TypeOK, Ghosts, BufferMgmt
<1>2. /\ state = "BUFFER_READY" /\ state' = "USING_BUFFER"
      /\ cnt' = cnt /\ fence' = fence
      /\ g' = [g EXCEPT !.last = b.buffer_seq[b.cons_i]]
      /\ b' = [b EXCEPT !.status[b.cons_i] = "PARTIAL", !.partial_off = 0]
  BY DEF BufferReady
<1>3. PICK i \in Slots : i = b.cons_i /\ b.status[i] = "FULL"
  BY <1>1, <1>2 DEF Reading, BufferMgmt
<1>4. PICK m \in Seqs : m = b.buffer_seq[i] BY <1>1 DEF BufferMgmt
<1>5. g'.last = m /\ g'.old = old BY <1>1, <1>2, <1>3, <1>4 DEF Ghosts
<1>6. PICK n \in BufferMgmt :
        /\ n = b' /\ n.status = [b.status EXCEPT ![i] = "PARTIAL"]
        /\ n.buffer_seq = b.buffer_seq /\ n.expected_seq = b.expected_seq
        /\ n.next_seq = b.next_seq /\ n.reorder = b.reorder
        /\ n.stale_pending = b.stale_pending
  BY <1>1, <1>2, <1>3 DEF BufferMgmt
<1>7. /\ Sorted(b, l, old, {}) /\ Anchored(b) /\ Claimed(state, b, l, old)
      /\ Room(b, l, old, fence, cnt) /\ Leftover(b, l, old)
  BY DEF InOrder, Ordered, Sorted
<1>8. /\ Dist(b.next_seq, l) \in Int
      /\ Cardinality(Spare(b, old)) \in Nat
  BY <1>1, Ages, SlotCounts DEF Spare
<1>9. ASSUME Sorted(n, m, old, {}), Anchored(n), Room(n, m, old, fence, cnt)
      PROVE  InOrder'
  <2>1. Claimed(state', n, m, old) BY <1>2 DEF Claimed
  <2> QED BY <1>2, <1>5, <1>6, <1>9, <2>1 DEF InOrder, Ordered
<1>10. CASE i \in old
  <2>1. m = l BY <1>4, <1>7, <1>10 DEF Leftover
  <2>2. Busy(n, old, {}) = Busy(b, old, {}) BY <1>1, <1>3, <1>6, <1>10 DEF Busy
  <2>3. \A j \in Busy(b, old, {}) : j \in Slots /\ n.status[j] = b.status[j]
    BY <1>1, <1>3, <1>6, <1>10 DEF Busy
  <2>4. Leftover(n, l, old)
    <3>1. \A j \in Slots : n.status[j] = b.status[j] \/ n.status[j] = "PARTIAL"
      BY <1>1, <1>6
    <3> QED BY <1>6, <1>7, <3>1 DEF Leftover
  <2>5. Aged(n, l, old, {}) BY <1>6, <1>7, <2>2, <2>3 DEF Sorted, Aged
  <2>6. OneEach(n, old, {}) /\ Labelled(n, old, {})
    BY <1>6, <1>7, <2>2 DEF Sorted, OneEach, Labelled
  <2>7. Anchored(n)
    <3>1. \A j \in Slots : b.status[j] = "IN_FLIGHT" => n.status[j] = "IN_FLIGHT"
      BY <1>1, <1>3, <1>6
    <3> QED BY <1>6, <1>7, <3>1 DEF Anchored, HeldSlots
  <2>8. Spare(n, old) = Spare(b, old) BY <2>2 DEF Spare
  <2>9. Dist(n.next_seq, l) + Cardinality(Spare(n, old))
          <= Dist(b.next_seq, l) + Cardinality(Spare(b, old))
    BY <1>6, <1>8, <2>8
  <2>10. Room(n, l, old, fence, cnt) BY <1>1, <1>6, <1>7, <2>9, RoomKept
  <2> QED BY <1>9, <2>1, <2>4, <2>5, <2>6, <2>7, <2>10 DEF Sorted
<1>11. CASE i \notin old
  <2>1. \A j \in Slots : b.status[j] = "FULL" =>
          j \notin old /\ Dist(m, l) <= Dist(b.buffer_seq[j], l)
    BY <1>2, <1>3, <1>4, <1>7, <1>11 DEF Claimed
  <2>2. \A j \in Slots : b.status[j] # "PARTIAL" BY <1>2 DEF OnlyPartial
  <2>3. old = {} BY <1>7, <2>1, <2>2 DEF Leftover
  <2>4. Sorted(b, l, {}, {}) BY <1>7, <2>3
  <2>5. /\ Sorted(n, m, {}, {}) /\ Dist(n.next_seq, m) <= Dist(b.next_seq, l) - 1
        /\ Busy(n, {}, {}) = Busy(b, {}, {}) \ {i} /\ Anchored(n)
    BY <1>1, <1>3, <1>4, <1>6, <1>7, <2>1, <2>4, Taken
  <2>6. Room(n, m, old, fence, cnt)
    <3>1. Spare(n, old) \subseteq Spare(b, old) \cup {i} BY <2>3, <2>5 DEF Spare
    <3>2. Spare(b, old) \subseteq Slots /\ Spare(b, old) \cup {i} \subseteq Slots
      BY DEF Spare
    <3>3. /\ Cardinality(Spare(b, old) \cup {i}) <= Cardinality(Spare(b, old)) + 1
          /\ IsFiniteSet(Spare(b, old) \cup {i})
          /\ Cardinality(Spare(b, old) \cup {i}) \in Nat
      BY <3>2, SlotCounts
    <3>4. Cardinality(Spare(n, old)) <= Cardinality(Spare(b, old) \cup {i})
      BY <3>1, <3>3, FS_Subset
    <3>5. Cardinality(Spare(n, old)) \in Nat /\ Dist(n.next_seq, m) \in Int
      BY <1>1, Ages, SlotCounts DEF Spare
    <3>6. Dist(n.next_seq, m) + Cardinality(Spare(n, old))
            <= Dist(b.next_seq, l) + Cardinality(Spare(b, old))
      BY <1>8, <2>5, <3>3, <3>4, <3>5
    <3> QED BY <1>1, <1>6, <1>7, <3>6, RoomKept
  <2> QED BY <1>9, <2>3, <2>5, <2>6
<1> QED BY <1>10, <1>11

\* A buffer that is used up is given back.
LEMMA AdvanceOrdered ==
  ASSUME TypeOK, TypeOK', InOrder, Reading(state, b), state = "USING_BUFFER",
         NEW c \in BufferMgmt, c.status = b.status, c.buffer_seq = b.buffer_seq,
         c.expected_seq = b.expected_seq, c.next_seq = b.next_seq,
         c.reorder = b.reorder, c.stale_pending = b.stale_pending, c.cons_i = b.cons_i,
         b' = AdvanceRx(c), state' = "WAIT_FOR_BUFFER", g' = Note(b', {}, FALSE),
         fence' = fence, cnt' = cnt
  PROVE  InOrder'
<1> DEFINE l == g.last
           old == g.old
<1>1. /\ b \in BufferMgmt /\ b' \in BufferMgmt /\ l \in Seqs /\ g \in Ghosts
      /\ cnt \in Used /\ fence \in BOOLEAN /\ b.status \in [Slots -> Status]
  BY DEF TypeOK, Ghosts, BufferMgmt
<1>2. PICK i \in Slots : i = b.cons_i /\ b.status[i] = "PARTIAL"
  BY <1>1 DEF Reading, BufferMgmt
<1>3. PICK n \in BufferMgmt :
        /\ n = b' /\ n.status = [b.status EXCEPT ![i] = "EMPTY"]
        /\ n.buffer_seq = b.buffer_seq /\ n.expected_seq = b.expected_seq
        /\ n.next_seq = b.next_seq /\ n.reorder = b.reorder
        /\ n.stale_pending = b.stale_pending
  BY <1>1, <1>2 DEF AdvanceRx, BufferMgmt
<1>4. PICK new : new = {j \in old : n.status[j] \in {"FULL", "PARTIAL"}} OBVIOUS
<1>5. g'.last = l /\ g'.old = new BY <1>1, <1>3, <1>4 DEF Note, Ghosts
<1>6. Sorted(b, l, old, {}) /\ Anchored(b) /\ Room(b, l, old, fence, cnt)
  BY DEF InOrder, Ordered
<1>8. Sorted(n, l, new, {}) /\ Anchored(n) /\ Busy(n, new, {}) = Busy(b, old, {})
  <2>1. \A j \in Slots : \/ n.status[j] = b.status[j]
                         \/ /\ n.status[j] = "EMPTY"
                            /\ b.status[j] \in {"FULL", "PARTIAL"}
    BY <1>1, <1>2, <1>3
  <2>2. Sorted(n, l, new, {}) /\ Anchored(n) BY <1>3, <1>4, <1>6, <2>1, Thinned
  <2>3. \A j \in Slots : j \in Busy(n, new, {}) <=> j \in Busy(b, old, {})
    BY <1>1, <1>2, <1>3, <1>4 DEF Busy
  <2>4. Busy(n, new, {}) = Busy(b, old, {}) BY <2>3 DEF Busy
  <2> QED BY <2>2, <2>4
<1>9. Room(n, l, new, fence, cnt)
  <2>1. Spare(n, new) = Spare(b, old) BY <1>8 DEF Spare
  <2>2. Dist(b.next_seq, l) \in Int /\ Cardinality(Spare(b, old)) \in Nat
    BY <1>1, Ages, SlotCounts DEF Spare
  <2>3. Dist(n.next_seq, l) + Cardinality(Spare(n, new))
          <= Dist(b.next_seq, l) + Cardinality(Spare(b, old))
    BY <1>3, <2>1, <2>2
  <2> QED BY <1>1, <1>3, <1>6, <2>3, RoomKept
<1>10. Claimed(state', n, l, new) BY DEF Claimed
<1> QED BY <1>3, <1>5, <1>8, <1>9, <1>10 DEF InOrder, Ordered

LEMMA UsingOrdered ==
  ASSUME TypeOK, TypeOK', InOrder, Reading(state, b),
         UsingBuffer \/ UsingBufferMeta \/ UsingPacketMeta
  PROVE  InOrder'
<1>1. /\ b \in BufferMgmt /\ state = "USING_BUFFER" /\ g' = Note(b', {}, FALSE)
      /\ fence' = fence /\ cnt' = cnt
  BY DEF TypeOK, UsingBuffer, UsingBufferMeta, UsingPacketMeta
<1>2. Leftover(b, g.last, g.old) BY DEF InOrder, Ordered, Sorted
<1>3. ASSUME b'.status = b.status PROVE g'.last = g.last /\ g'.old = g.old
  <2>1. PICK n : n = b' OBVIOUS
  <2>2. \A i \in Slots : b.status[i] \in {"FULL", "PARTIAL"} => n.status[i] = b.status[i]
    BY <1>3, <2>1
  <2>3. /\ Note(n, {}, FALSE).last = g.last /\ Note(n, {}, FALSE).old = g.old
    BY <1>2, <2>2, NoteKept
  <2>4. g' = Note(n, {}, FALSE) BY <1>1, <2>1
  <2> QED BY <2>3, <2>4
<1>4. ASSUME NEW n, Consume(n) PROVE InOrder'
  <2>1. CASE b' = [b EXCEPT !.partial_off = @ + n] /\ state' = state
    <3>1. /\ b'.status = b.status /\ b'.buffer_seq = b.buffer_seq
          /\ b'.expected_seq = b.expected_seq /\ b'.next_seq = b.next_seq
          /\ b'.reorder = b.reorder /\ b'.stale_pending = b.stale_pending
      BY <1>1, <2>1 DEF BufferMgmt
    <3> QED BY <1>1, <1>3, <2>1, <3>1, SameOrdered
  <2>2. CASE /\ b' = AdvanceRx([b EXCEPT !.partial_off = Units])
             /\ state' = "WAIT_FOR_BUFFER"
    <3> DEFINE c == [b EXCEPT !.partial_off = Units]
    <3>1. Units \in 0 .. Units BY Sizes
    <3>2. c \in BufferMgmt BY <1>1, <3>1 DEF BufferMgmt
    <3>3. /\ c.status = b.status /\ c.buffer_seq = b.buffer_seq
          /\ c.expected_seq = b.expected_seq /\ c.next_seq = b.next_seq
          /\ c.reorder = b.reorder /\ c.stale_pending = b.stale_pending
          /\ c.cons_i = b.cons_i
      BY <1>1 DEF BufferMgmt
    <3> HIDE DEF c
    <3>4. b' = AdvanceRx(c) BY <2>2 DEF c
    <3> QED BY <1>1, <2>2, <3>2, <3>3, <3>4, AdvanceOrdered
  <2> QED BY <1>4, <2>1, <2>2 DEF Consume
<1>5. CASE UsingBuffer
  <2>1. CASE b.overrun_pending
    <3>1. b' = b /\ state' = state BY <1>5, <2>1 DEF UsingBuffer
    <3> QED BY <1>1, <1>3, <3>1, SameOrdered
  <2>2. CASE ~b.overrun_pending BY <1>4, <1>5, <2>2 DEF UsingBuffer
  <2> QED BY <2>1, <2>2
<1>6. CASE UsingBufferMeta BY <1>4, <1>6 DEF UsingBufferMeta
<1>7. CASE UsingPacketMeta
  <2>1. b' = AdvanceRx(b) /\ state' = "WAIT_FOR_BUFFER" BY <1>7 DEF UsingPacketMeta
  <2> QED BY <1>1, <2>1, AdvanceOrdered
<1> QED BY <1>5, <1>6, <1>7

\* A fence finds the oldest transfer in flight, if one is there at all.
LEMMA OldestSearch ==
  ASSUME NEW bb \in BufferMgmt, NEW F,
         F = {i \in Slots : /\ bb.status[i] = "IN_FLIGHT"
                            /\ Dist(bb.buffer_seq[i], bb.expected_seq) < SeqMod - 1}
  PROVE  /\ F = {} => OldestInFlight(bb) = NoSlot
         /\ F # {} => /\ OldestInFlight(bb) \in F
                      /\ \A j \in F : Dist(bb.buffer_seq[OldestInFlight(bb)], bb.expected_seq)
                                        <= Dist(bb.buffer_seq[j], bb.expected_seq)
<1> DEFINE h == [i \in F |-> Dist(bb.buffer_seq[i], bb.expected_seq)]
           o == OldestInFlight(bb)
<1>1. CASE F = {} BY <1>1 DEF OldestInFlight
<1>2. CASE F # {}
  <2>1. F \in SUBSET Slots OBVIOUS
  <2>2. \A i \in F : Dist(bb.buffer_seq[i], bb.expected_seq) \in Nat
    BY <2>1, Wrapped DEF BufferMgmt
  <2>3. h \in [F -> Nat] BY <2>2
  <2>4. \E i \in F : \A j \in F : h[i] < h[j] \/ (h[i] = h[j] /\ i <= j)
    <3> HIDE DEF h
    <3> QED BY <1>2, <2>1, <2>3, LeastSlot
  <2>5. \E i \in F : \A j \in F :
          \/ Dist(bb.buffer_seq[i], bb.expected_seq)
               < Dist(bb.buffer_seq[j], bb.expected_seq)
          \/ /\ Dist(bb.buffer_seq[i], bb.expected_seq)
                  = Dist(bb.buffer_seq[j], bb.expected_seq)
             /\ i <= j
    BY <2>4
  <2>6. o \in F /\ \A j \in F :
          \/ Dist(bb.buffer_seq[o], bb.expected_seq)
               < Dist(bb.buffer_seq[j], bb.expected_seq)
          \/ /\ Dist(bb.buffer_seq[o], bb.expected_seq)
                  = Dist(bb.buffer_seq[j], bb.expected_seq)
             /\ o <= j
    BY <1>2, <2>5 DEF OldestInFlight
  <2> HIDE DEF o
  <2>7. \A j \in F : Dist(bb.buffer_seq[o], bb.expected_seq)
                       <= Dist(bb.buffer_seq[j], bb.expected_seq)
    BY <2>2, <2>6
  <2> QED BY <1>2, <2>6, <2>7 DEF o
<1> QED BY <1>1, <1>2

LEMMA FenceOrdered ==
  ASSUME Roomy, TypeOK, TypeOK', Sound(b, usb), InOrder, InvalidateEpoch
  PROVE  InOrder' /\ ("unanchored" \notin g.past => "unanchored" \notin g'.past)
<1> DEFINE f == b.overrun_source_flags \ {"FPGA_RX_LOSS"}
           c == [b EXCEPT !.overrun_source_flags = f,
                          !.overrun_pending = @ /\ f # {}]
           d == FreeCompleted(c)
           o == OldestInFlight(d)
           l == g.last
           old == g.old
<1>1. /\ b \in BufferMgmt /\ b' \in BufferMgmt /\ l \in Seqs /\ g \in Ghosts
      /\ cnt \in Used /\ fence \in BOOLEAN
  BY DEF TypeOK, Ghosts
<1>2. /\ c \in BufferMgmt /\ c.status = b.status /\ c.reorder = b.reorder
      /\ c.expected_seq = b.expected_seq /\ c.next_seq = b.next_seq
      /\ c.buffer_seq = b.buffer_seq /\ c.stale_pending = b.stale_pending
  BY <1>1 DEF BufferMgmt
<1>3. /\ b' = Discard(c) /\ cnt' = cnt /\ fence = TRUE /\ fence' = FALSE
      /\ state' # "BUFFER_READY"
      /\ g' = Note(b', IF b.reorder = {} THEN {}
                       ELSE IF b'.reorder = {} THEN {"forgotten"} ELSE {"unanchored"},
                   FALSE)
  BY <1>1 DEF InvalidateEpoch, TypeOK
<1> HIDE DEF c
<1>4. d \in BufferMgmt BY <1>2, FreeCompletedType
<1>5. /\ d.reorder = b.reorder /\ d.expected_seq = b.expected_seq
      /\ d.next_seq = b.next_seq /\ d.buffer_seq = b.buffer_seq
      /\ d.stale_pending = b.stale_pending
      /\ d.status = [i \in Slots |->
                       IF i \in {k \in HeldSlots(c) : c.status[k] = "IN_FLIGHT"}
                             \cup {k \in Slots : c.status[k] \in {"FULL", "PARTIAL"}}
                       THEN "EMPTY" ELSE c.status[i]]
  BY <1>2 DEF FreeCompleted, BufferMgmt
<1>6. HeldSlots(c) = HeldSlots(b) BY <1>2 DEF HeldSlots
<1>7. /\ \A i \in Slots : d.status[i] \in {"EMPTY", "IN_FLIGHT"}
      /\ \A i \in Slots : d.status[i] = "IN_FLIGHT" <=>
                            b.status[i] = "IN_FLIGHT" /\ i \notin HeldSlots(b)
  <2>1. \A i \in Slots : b.status[i] \in Status BY <1>1 DEF BufferMgmt
  <2> QED BY <1>2, <1>5, <1>6, <2>1 DEF Status
<1> HIDE DEF d
<1>8. /\ Sorted(b, l, old, {}) /\ Anchored(b) /\ Room(b, l, old, fence, cnt)
  BY DEF InOrder, Ordered
<1>9. /\ Dist(b.next_seq, l) < SeqMod - 1 /\ Dist(b.next_seq, l) \in Int
      /\ Dist(b.expected_seq, l) \in Int
      /\ 1 <= Dist(b.expected_seq, l) /\ Dist(b.expected_seq, l) <= Dist(b.next_seq, l)
      /\ b.expected_seq \in Seqs
  BY <1>1, <1>8, Near, Ages DEF Sorted, Aged
<1>10. ASSUME NEW i \in Slots, d.status[i] = "IN_FLIGHT"
       PROVE  /\ i \in Busy(b, old, {}) /\ b.buffer_seq[i] \in Seqs
              /\ Dist(b.buffer_seq[i], l) \in Int
              /\ Dist(b.expected_seq, l) <= Dist(b.buffer_seq[i], l)
              /\ Dist(b.buffer_seq[i], l) < Dist(b.next_seq, l)
              /\ Dist(b.buffer_seq[i], b.expected_seq)
                   = Dist(b.buffer_seq[i], l) - Dist(b.expected_seq, l)
              /\ Dist(b.buffer_seq[i], b.expected_seq) < SeqMod - 1
  <2>1. b.status[i] = "IN_FLIGHT" BY <1>7, <1>10
  <2>2. i \in Busy(b, old, {}) BY <2>1 DEF Busy
  <2>3. /\ Dist(b.expected_seq, l) <= Dist(b.buffer_seq[i], l)
        /\ Dist(b.buffer_seq[i], l) < Dist(b.next_seq, l)
    BY <1>8, <2>1, <2>2 DEF Sorted, Aged
  <2>4. b.buffer_seq[i] \in Seqs /\ Dist(b.buffer_seq[i], l) \in Int BY <1>1, Ages
  <2>5. Dist(b.buffer_seq[i], b.expected_seq)
          = Dist(b.buffer_seq[i], l) - Dist(b.expected_seq, l)
    BY <1>1, <1>9, <2>3, <2>4, DistBetween
  <2>6. Dist(b.buffer_seq[i], b.expected_seq) < SeqMod - 1
    BY <1>9, <2>3, <2>4, <2>5, SeqSizes
  <2> QED BY <2>2, <2>3, <2>4, <2>5, <2>6
<1>11. PICK F : F = {i \in Slots : d.status[i] = "IN_FLIGHT"} OBVIOUS
<1>12. F = {i \in Slots : /\ d.status[i] = "IN_FLIGHT"
                          /\ Dist(d.buffer_seq[i], d.expected_seq) < SeqMod - 1}
  BY <1>5, <1>10, <1>11
<1>13. /\ F = {} => o = NoSlot
       /\ F # {} => /\ o \in F
                    /\ \A j \in F : Dist(d.buffer_seq[o], d.expected_seq)
                                      <= Dist(d.buffer_seq[j], d.expected_seq)
  BY <1>4, <1>12, OldestSearch
<1>14. b' = IF o = NoSlot THEN d
            ELSE [d EXCEPT !.expected_seq = d.buffer_seq[o], !.cons_i = o,
                           !.partial_off = 0, !.reorder = {}]
  BY <1>3 DEF Discard, d
<1> HIDE DEF o
<1>15. /\ b'.status = d.status /\ b'.buffer_seq = b.buffer_seq
       /\ b'.next_seq = b.next_seq /\ b'.stale_pending = b.stale_pending
  BY <1>4, <1>5, <1>14 DEF BufferMgmt
<1>16. b'.reorder = {}
  <2>1. CASE F = {}
    <3>1. b.reorder = {} BY <1>7, <1>8, <1>11, <2>1 DEF Anchored
    <3> QED BY <1>5, <1>13, <1>14, <2>1, <3>1
  <2>2. CASE F # {}
    <3>1. o # NoSlot
      <4>1. o \in Slots BY <1>11, <1>13, <2>2
      <4> QED BY <4>1, SeqSizes DEF Slots, NoSlot
    <3> QED BY <1>4, <1>14, <3>1 DEF BufferMgmt
  <2> QED BY <2>1, <2>2
<1>17. /\ 1 <= Dist(b'.expected_seq, l)
       /\ Dist(b'.expected_seq, l) <= Dist(b'.next_seq, l)
       /\ \A i \in F : Dist(b'.expected_seq, l) <= Dist(b.buffer_seq[i], l)
  <2>1. CASE F = {}
    <3>1. b'.expected_seq = b.expected_seq BY <1>5, <1>13, <1>14, <2>1
    <3> QED BY <1>9, <1>15, <2>1, <3>1
  <2>2. CASE F # {}
    <3>1. o \in Slots /\ d.status[o] = "IN_FLIGHT" BY <1>11, <1>13, <2>2
    <3>2. o # NoSlot BY <3>1, SeqSizes DEF Slots, NoSlot
    <3>3. b'.expected_seq = b.buffer_seq[o] BY <1>4, <1>5, <1>14, <3>2 DEF BufferMgmt
    <3>4. PICK y \in Int :
            /\ y = Dist(b.buffer_seq[o], l) /\ Dist(b.expected_seq, l) <= y
            /\ y < Dist(b.next_seq, l)
            /\ Dist(b.buffer_seq[o], b.expected_seq) = y - Dist(b.expected_seq, l)
      BY <1>10, <3>1
    <3>5. ASSUME NEW i \in F PROVE y <= Dist(b.buffer_seq[i], l)
      <4>1. i \in Slots /\ d.status[i] = "IN_FLIGHT" BY <1>11
      <4>2. PICK x \in Int :
              /\ x = Dist(b.buffer_seq[i], l)
              /\ Dist(b.buffer_seq[i], b.expected_seq) = x - Dist(b.expected_seq, l)
        BY <1>10, <4>1
      <4>3. y - Dist(b.expected_seq, l) <= x - Dist(b.expected_seq, l)
        BY <1>5, <1>13, <2>2, <3>4, <4>2
      <4> QED BY <1>9, <4>2, <4>3
    <3> QED BY <1>9, <1>15, <3>3, <3>4, <3>5
  <2> QED BY <2>1, <2>2
<1>18. PICK n \in BufferMgmt : n = b' BY <1>1
<1>19. {i \in old : n.status[i] \in {"FULL", "PARTIAL"}} = {}
  <2>1. old \subseteq Slots BY <1>1 DEF Ghosts
  <2> QED BY <1>7, <1>15, <1>18, <2>1
<1>20. g'.last = l /\ g'.old = {} BY <1>1, <1>3, <1>18, <1>19 DEF Note, Ghosts
<1>21. Sorted(n, l, {}, {})
  <2>1. ASSUME NEW i \in Busy(n, {}, {})
        PROVE  i \in Slots /\ i \in F /\ i \in Busy(b, old, {}) /\ n.status[i] = "IN_FLIGHT"
    <3>1. i \in Slots /\ n.status[i] \in {"IN_FLIGHT", "FULL"} BY DEF Busy
    <3>2. n.status[i] = "IN_FLIGHT" BY <1>7, <1>15, <1>18, <3>1
    <3>3. d.status[i] = "IN_FLIGHT" BY <1>15, <1>18, <3>2
    <3> QED BY <1>10, <1>11, <3>1, <3>2, <3>3
  <2>2. ASSUME NEW i \in Busy(n, {}, {})
        PROVE  /\ Dist(n.expected_seq, l) <= Dist(n.buffer_seq[i], l)
               /\ Dist(n.buffer_seq[i], l) < Dist(n.next_seq, l)
               /\ n.status[i] # "FULL"
    <3>1. i \in Slots /\ i \in F /\ n.status[i] = "IN_FLIGHT" BY <2>1
    <3>2. Dist(b'.expected_seq, l) <= Dist(b.buffer_seq[i], l) BY <1>17, <3>1
    <3>3. Dist(b.buffer_seq[i], l) < Dist(b.next_seq, l) BY <1>10, <1>11, <3>1
    <3> QED BY <1>15, <1>18, <3>1, <3>2, <3>3
  <2>3. Aged(n, l, {}, {}) BY <1>16, <1>17, <1>18, <2>2 DEF Aged
  <2>4. OneEach(n, {}, {}) BY <1>8, <1>15, <1>18, <2>1 DEF Sorted, OneEach
  <2>5. Labelled(n, {}, {}) BY <1>16, <1>18 DEF Labelled
  <2>6. Leftover(n, l, {}) BY DEF Leftover
  <2> QED BY <2>3, <2>4, <2>5, <2>6 DEF Sorted
<1>22. Anchored(n) BY <1>16, <1>18 DEF Anchored
<1>23. Room(n, l, {}, FALSE, cnt) BY <1>1, <1>3, <1>8, <1>15, <1>18, RoomFreed
<1>24. Claimed(state', n, l, {}) BY <1>3 DEF Claimed
<1>25. InOrder' BY <1>3, <1>18, <1>20, <1>21, <1>22, <1>23, <1>24 DEF InOrder, Ordered
<1>26. ASSUME "unanchored" \notin g.past PROVE "unanchored" \notin g'.past
  <2>1. PICK ks : ks \in {{}, {"forgotten"}} /\ g' = Note(b', ks, FALSE)
    BY <1>3, <1>16
  <2> QED BY <1>1, <1>26, <2>1 DEF Note, Ghosts
<1> QED BY <1>25, <1>26

\* A revocation, and a loss the FPGA reports, make the room they may need.
LEMMA ControlOrdered ==
  ASSUME TypeOK, TypeOK', InOrder, RevokeEpoch \/ StageFpgaLoss
  PROVE  InOrder'
<1> DEFINE l == g.last
           old == g.old
<1>1. /\ b \in BufferMgmt /\ b' \in BufferMgmt /\ l \in Seqs /\ cnt \in Used
      /\ cnt' \in Used /\ fence \in BOOLEAN /\ fence' \in BOOLEAN
  BY DEF TypeOK, Ghosts
<1>2. /\ b'.status = b.status /\ b'.buffer_seq = b.buffer_seq
      /\ b'.expected_seq = b.expected_seq /\ b'.next_seq = b.next_seq
      /\ b'.reorder = b.reorder /\ b'.stale_pending = b.stale_pending
      /\ b'.cons_i = b.cons_i /\ g' = g /\ state' = state
  BY <1>1 DEF RevokeEpoch, StageFpgaLoss, BufferMgmt
<1>3. cnt'.lost + cnt'.fences = cnt.lost + cnt.fences + 1
  <2>1. CASE RevokeEpoch
    <3>1. cnt'.lost = cnt.lost /\ cnt'.fences = cnt.fences + 1
      BY <1>1, <2>1 DEF RevokeEpoch, Used
    <3> QED BY <1>1, <3>1 DEF Used
  <2>2. CASE StageFpgaLoss
    <3>1. cnt'.lost = cnt.lost + 1 /\ cnt'.fences = cnt.fences
      BY <1>1, <2>2 DEF StageFpgaLoss, Used
    <3> QED BY <1>1, <3>1 DEF Used
  <2> QED BY <2>1, <2>2
<1>4. Ordered(b', state, l, old, fence, cnt) BY <1>1, <1>2, OrderedFrame DEF InOrder
<1>5. Room(b', l, old, fence', cnt')
  <2>1. Room(b', l, old, fence, cnt) BY <1>4 DEF Ordered
  <2>2. Allowance(cnt') = Allowance(cnt) + N + 1 /\ Allowance(cnt) \in Nat
    BY <1>1, <1>3, Allowances
  <2>3. Dist(b'.next_seq, l) \in Int /\ Cardinality(Spare(b', old)) \in Nat /\ N \in Nat
    BY <1>1, Ages, SlotCounts, SeqSizes DEF Spare
  <2>4. PICK p \in Nat : p = (IF b'.stale_pending THEN N ELSE 0) BY <2>3
  <2>5. PICK q \in Nat : q = (IF fence THEN N ELSE 0) BY <2>3
  <2>6. PICK o \in Nat : o = (IF fence' THEN N ELSE 0) /\ o <= N BY <2>3
  <2>7. Dist(b'.next_seq, l) + Cardinality(Spare(b', old)) + p + q <= Allowance(cnt)
    BY <2>1, <2>4, <2>5 DEF Room
  <2>8. Dist(b'.next_seq, l) + Cardinality(Spare(b', old)) + p + o <= Allowance(cnt')
    BY <2>2, <2>3, <2>6, <2>7
  <2> QED BY <2>4, <2>6, <2>8 DEF Room
<1> QED BY <1>2, <1>4, <1>5 DEF InOrder, Ordered

\* The ring of a fresh stream.
LEMMA FreshOrdered ==
  ASSUME NEW bb \in BufferMgmt, NEW st, NEW old, NEW f \in BOOLEAN, NEW c \in Used,
         st # "BUFFER_READY", bb.reorder = {}, bb.expected_seq = 0, bb.next_seq = T,
         \A i \in Slots : bb.status[i] = "IN_FLIGHT" <=> i < T,
         \A i \in Slots : bb.buffer_seq[i] = IF i < T THEN i ELSE NoSeq,
         old = {i \in Slots : bb.status[i] \in {"FULL", "PARTIAL"}}
  PROVE  Ordered(bb, st, NoSeq, old, f, c)
<1>1. ASSUME NEW s \in 0 .. T PROVE s \in Seqs /\ Dist(s, NoSeq) = s + 1
  <2>1. s \in Seqs /\ NoSeq \in Seqs BY SeqSizes DEF Seqs, NoSeq
  <2>2. s < NoSeq BY SeqSizes DEF NoSeq
  <2>3. Dist(s, NoSeq) = s - NoSeq + SeqMod BY <2>1, <2>2, DistValue, SeqSizes DEF NoSeq
  <2> QED BY <2>1, <2>3, SeqSizes DEF NoSeq
<1>2. Busy(bb, old, {}) = {i \in Slots : i < T}
  <2>1. \A i \in Slots : bb.status[i] = "FULL" => i \in old OBVIOUS
  <2> QED BY <2>1 DEF Busy
<1>3. Leftover(bb, NoSeq, old)
  <2>1. \A i \in old : i \in Slots /\ bb.status[i] # "IN_FLIGHT" OBVIOUS
  <2> QED BY <2>1 DEF Leftover
<1>4. Aged(bb, NoSeq, old, {})
  <2>1. Dist(0, NoSeq) = 1 /\ Dist(T, NoSeq) = T + 1 BY <1>1, SeqSizes
  <2>2. ASSUME NEW i \in Busy(bb, old, {})
        PROVE  /\ bb.status[i] # "FULL" /\ Dist(0, NoSeq) <= Dist(bb.buffer_seq[i], NoSeq)
               /\ Dist(bb.buffer_seq[i], NoSeq) < Dist(T, NoSeq)
    <3>1. i \in Slots /\ i < T /\ bb.status[i] = "IN_FLIGHT" /\ bb.buffer_seq[i] = i
      BY <1>2
    <3>2. i \in 0 .. T BY <3>1, SeqSizes DEF Slots
    <3>3. Dist(i, NoSeq) = i + 1 BY <1>1, <3>2
    <3> QED BY <2>1, <3>1, <3>2, <3>3, SeqSizes
  <2> QED BY <2>1, <2>2, SeqSizes DEF Aged
<1>5. OneEach(bb, old, {}) BY <1>2 DEF OneEach
<1>6. Labelled(bb, old, {}) /\ Anchored(bb) BY DEF Labelled, Anchored
<1>7. Claimed(st, bb, NoSeq, old) BY DEF Claimed
<1>8. Room(bb, NoSeq, old, f, c)
  <2>1. Spare(bb, old) = T .. N-1 BY <1>2, SeqSizes DEF Spare, Slots
  <2>2. Cardinality(Spare(bb, old)) = N - T
    <3>1. T \in Int /\ N - 1 \in Int BY SeqSizes
    <3>2. Cardinality(T .. N-1) = IF T > N-1 THEN 0 ELSE (N-1) - T + 1
      BY <3>1, FS_Interval
    <3> QED BY <2>1, <3>2, SeqSizes
  <2>3. Dist(bb.next_seq, NoSeq) = T + 1 BY <1>1, SeqSizes
  <2>4. Allowance(c) >= 3 * N + 1 /\ Allowance(c) \in Int
    <3>1. PICK a \in Nat : a = c.lost + c.fences BY RingAssumption DEF Used, RingAssumption
    <3>2. PICK p \in Nat : p = (N + 1) * a BY SeqSizes
    <3>3. Allowance(c) = 3 * N + 1 + p BY <3>1, <3>2 DEF Allowance
    <3> QED BY <3>2, <3>3, SeqSizes
  <2>5. PICK p \in Nat : p = (IF bb.stale_pending THEN N ELSE 0) /\ p <= N BY SeqSizes
  <2>6. PICK q \in Nat : q = (IF f THEN N ELSE 0) /\ q <= N BY SeqSizes
  <2>7. (T + 1) + (N - T) + p + q <= Allowance(c) BY <2>4, <2>5, <2>6, SeqSizes
  <2> QED BY <2>2, <2>3, <2>5, <2>6, <2>7 DEF Room
<1> QED BY <1>3, <1>4, <1>5, <1>6, <1>7, <1>8 DEF Ordered, Sorted

LEMMA StartOrdered ==
  ASSUME TypeOK, TypeOK', ExecIdleState, "stolen" \notin g'.past
  PROVE  InOrder' /\ "unanchored" \notin g'.past
<1>1. /\ b \in BufferMgmt /\ b' \in BufferMgmt /\ g \in Ghosts /\ cnt' \in Used
      /\ fence' \in BOOLEAN /\ b.status \in [Slots -> Status]
  BY DEF TypeOK, BufferMgmt
<1>2. /\ b' = ResetForStart(b) /\ state' = state
      /\ state \notin {"BUFFER_READY", "USING_BUFFER"}
  BY <1>1 DEF ExecIdleState, Ghosts
<1>3. /\ g'.last = NoSeq /\ "unanchored" \notin g'.past
      /\ g'.old = {i \in Slots : b'.status[i] \in {"FULL", "PARTIAL"}}
  BY <1>1 DEF ExecIdleState, Ghosts
<1>4. /\ b'.reorder = {} /\ b'.expected_seq = 0 /\ b'.next_seq = T
      /\ b'.buffer_seq = [i \in Slots |-> IF i < T THEN i ELSE NoSeq]
      /\ b'.status = [i \in Slots |->
                        IF i < T THEN "IN_FLIGHT"
                        ELSE IF b.status[i] = "IN_FLIGHT" THEN "EMPTY" ELSE b.status[i]]
  BY <1>1, <1>2 DEF ResetForStart, BufferMgmt
<1>5. \A i \in Slots : b'.status[i] = "IN_FLIGHT" <=> i < T BY <1>4
<1>6. \A i \in Slots : b'.buffer_seq[i] = IF i < T THEN i ELSE NoSeq BY <1>4
<1>7. Ordered(b', state', NoSeq, g'.old, fence', cnt')
  BY <1>1, <1>2, <1>3, <1>4, <1>5, <1>6, FreshOrdered
<1> QED BY <1>3, <1>7 DEF InOrder

LEMMA InitOrdered ==
  ASSUME Init
  PROVE  InOrder
<1>1. TypeOK BY TypeInit
<1>2. b = InitialRing /\ state = "CHECK_WORKER" /\ g.last = NoSeq /\ g.old = {}
  BY DEF Init
<1>3. /\ b.reorder = {} /\ b.expected_seq = 0 /\ b.next_seq = T
      /\ b.buffer_seq = [i \in Slots |-> IF i < T THEN i ELSE NoSeq]
      /\ b.status = [i \in Slots |-> IF i < T THEN "IN_FLIGHT" ELSE "EMPTY"]
  BY <1>2 DEF InitialRing
<1>4. /\ \A i \in Slots : b.status[i] = "IN_FLIGHT" <=> i < T
      /\ \A i \in Slots : b.buffer_seq[i] = IF i < T THEN i ELSE NoSeq
      /\ g.old = {i \in Slots : b.status[i] \in {"FULL", "PARTIAL"}}
  BY <1>2, <1>3
<1>5. Ordered(b, state, NoSeq, g.old, fence, cnt)
  BY <1>1, <1>2, <1>3, <1>4, FreshOrdered DEF TypeOK
<1> QED BY <1>2, <1>5 DEF InOrder

-----------------------------------------------------------------------------
(* The inductive invariant of delivery.                                     *)

Followed == ~Unusual({"stolen", "forwarded", "blind"})

DInv ==
  /\ IInv /\ Waits
  /\ "stolen" \notin g.past => OnlyPartial(state, b)
  /\ Followed => "unanchored" \notin g.past /\ InOrder

LEMMA DeliveryStep ==
  ASSUME Roomy, DInv, [Next]_vars
  PROVE  DInv'
<1> USE DEF DInv
<1>1. TypeOK /\ TypeOK' /\ IInv' /\ Waits'
  BY OwnershipStep, WaitsStep DEF IInv
<1>2. "stolen" \notin g'.past => OnlyPartial(state', b') BY <1>1, PartialStep
<1>3. ASSUME Followed' PROVE "unanchored" \notin g'.past /\ InOrder'
  <2>0. "stolen" \notin g'.past /\ "forwarded" \notin g'.past /\ "blind" \notin g'.past
    BY <1>3 DEF Followed, Unusual
  <2>1. CASE ExecIdleState BY <1>1, <2>0, <2>1, StartOrdered
  <2>2. CASE ~ExecIdleState
    <3>1. Followed BY <1>1, <1>3, <2>2, PastGrows DEF Followed, Unusual
    <3>2. /\ "stolen" \notin g.past /\ "unanchored" \notin g.past /\ InOrder
          /\ OnlyPartial(state, b)
      BY <3>1 DEF Followed, Unusual
    <3>3. Sound(b, usb) /\ Reading(state, b)
      BY <3>2 DEF IInv, Regular, Unusual
    <3>s. ASSUME g'.last = g.last, g'.old = g.old, g'.past = g.past, fence' = fence,
                 cnt'.lost = cnt.lost, cnt'.fences = cnt.fences,
                 b'.status = b.status, b'.buffer_seq = b.buffer_seq,
                 b'.expected_seq = b.expected_seq, b'.next_seq = b.next_seq,
                 b'.reorder = b.reorder, b'.stale_pending => b.stale_pending,
                 state' = "BUFFER_READY" =>
                   state = "BUFFER_READY" /\ b'.cons_i = b.cons_i
          PROVE  "unanchored" \notin g'.past /\ InOrder'
      BY <1>1, <3>2, <3>s, SameOrdered
    <3>4. CASE UsbThread
      <4>1. "unanchored" \notin g'.past BY <1>1, <3>2, <3>4, UsbThreadPast
      <4>2. ASSUME NEW i \in Slots, RxCallbackStore(i) PROVE InOrder'
        BY <1>1, <2>0, <3>2, <3>3, <4>2, StoreOrdered
      <4>3. ASSUME NEW i \in Slots, RxCallbackNoData(i) PROVE InOrder'
        BY <1>1, <3>2, <3>3, <4>3, NoDataOrdered
      <4>4. ASSUME NEW i \in Slots, RxCallbackRingFull(i) PROVE InOrder'
        BY <1>1, <3>2, <3>3, <4>4, RingFullOrdered
      <4>5. ASSUME NEW i \in Slots, NEW quiet \in BOOLEAN, RxBufferRejected(i, quiet)
            PROVE  InOrder'
        BY <1>1, <3>2, <3>3, <4>5, RejectedOrdered
      <4>6. ASSUME RxEventCallback PROVE InOrder'
        BY <1>1, <3>2, <4>6, SameOrdered DEF RxEventCallback, TypeOK, BufferMgmt
      <4> QED BY <3>4, <4>1, <4>2, <4>3, <4>4, <4>5, <4>6 DEF UsbThread
    <3>5. CASE ExecRunningState
      <4>1. cnt'.lost = cnt.lost /\ cnt'.fences = cnt.fences
        BY <1>1, <3>5 DEF ExecRunningState, TypeOK, Used
      <4> QED BY <3>s, <3>5, <4>1 DEF ExecRunningState
    <3>6. CASE WorkerBackToIdle BY <3>s, <3>6 DEF WorkerBackToIdle
    <3>7. CASE ReaderStep
      <4>1. "unanchored" \notin g'.past BY <1>1, <3>2, <3>7, ReaderPast
      <4>2. CASE LoopTop \/ StartWorker \/ StartTimedOut
        BY <3>s, <4>2 DEF LoopTop, StartWorker, StartTimedOut
      <4>3. CASE CheckWorker \/ WorkerStarted \/ TimedOut
        BY <3>s, <4>3 DEF CheckWorker, WorkerStarted, TimedOut
      <4>4. CASE ResetBufMgmt
        <5>1. /\ b'.status = b.status /\ b'.buffer_seq = b.buffer_seq
              /\ b'.expected_seq = b.expected_seq /\ b'.next_seq = b.next_seq
              /\ b'.reorder = b.reorder /\ b'.stale_pending = b.stale_pending
          BY <1>1, <4>4 DEF ResetBufMgmt, TypeOK, BufferMgmt
        <5> QED BY <3>s, <4>4, <5>1 DEF ResetBufMgmt
      <4>5. CASE WaitForBuffer BY <1>1, <3>2, <4>1, <4>5, WaitOrdered
      <4>6. CASE WakeUp BY <1>1, <2>0, <3>2, <4>1, <4>6, WakeOrdered
      <4>7. CASE BufferReady BY <1>1, <3>2, <3>3, <4>1, <4>7, ReadyOrdered
      <4>8. CASE UsingBuffer \/ UsingBufferMeta \/ UsingPacketMeta
        BY <1>1, <3>2, <3>3, <4>1, <4>8, UsingOrdered
      <4>9. CASE Out
        <5>1. /\ b'.status = b.status /\ b'.buffer_seq = b.buffer_seq
              /\ b'.expected_seq = b.expected_seq /\ b'.next_seq = b.next_seq
              /\ b'.reorder = b.reorder /\ b'.stale_pending = b.stale_pending
              /\ b'.cons_i = b.cons_i
          BY <1>1, <4>9 DEF Out, ClearOverrun, TypeOK, BufferMgmt
        <5>2. g'.last = g.last /\ g'.old = g.old /\ g'.past = g.past
          BY <1>1, <4>9 DEF Out, TypeOK, Ghosts
        <5> QED BY <3>s, <4>9, <5>1, <5>2 DEF Out
      <4> QED BY <3>7, <4>2, <4>3, <4>4, <4>5, <4>6, <4>7, <4>8, <4>9 DEF ReaderStep
    <3>8. CASE InvalidateEpoch BY <1>1, <3>2, <3>3, <3>8, FenceOrdered
    <3>9. CASE RevokeEpoch \/ StageFpgaLoss
      <4>1. g' = g BY <3>9 DEF RevokeEpoch, StageFpgaLoss
      <4> QED BY <1>1, <3>2, <3>9, <4>1, ControlOrdered
    <3>10. CASE PrimeCheck \/ PrimeSubmit
      <4>1. /\ cnt'.lost = cnt.lost /\ cnt'.fences = cnt.fences
            /\ b' = b /\ g' = g /\ fence' = fence /\ state' = state
        BY <1>1, <3>10 DEF PrimeCheck, PrimeSubmit, TypeOK, Used
      <4> QED BY <3>s, <4>1
    <3>11. CASE Application
      <4>1. /\ b'.status = b.status /\ b'.buffer_seq = b.buffer_seq
            /\ b'.expected_seq = b.expected_seq /\ b'.next_seq = b.next_seq
            /\ b'.reorder = b.reorder /\ b'.stale_pending = b.stale_pending
            /\ b'.cons_i = b.cons_i
        BY <1>1, <3>11 DEF Application, StartRead, ClearOverrun, TypeOK, BufferMgmt
      <4>2. g'.last = g.last /\ g'.old = g.old /\ g'.past = g.past
        BY <1>1, <3>11 DEF Application, StartRead, TypeOK, Ghosts
      <4> QED BY <3>s, <3>11, <4>1, <4>2 DEF Application, StartRead
    <3>12. CASE WaitExpires \/ SpuriousWakeup \/ UNCHANGED vars
      BY <3>s, <3>12 DEF WaitExpires, SpuriousWakeup, vars
    <3> QED BY <2>2, <3>4, <3>5, <3>6, <3>7, <3>8, <3>9, <3>10, <3>11, <3>12
            DEF Next, Worker, Control
  <2> QED BY <2>1, <2>2
<1> QED BY <1>1, <1>2, <1>3

\* The buffers sync_rx() hands out carry strictly increasing sequence numbers,
\* also where the uint32_t wraps, whatever order transfers complete in and
\* however they are rejected, recycled, purged as stale or fenced off in between:
\* sync_worker_reanchor_rx_consumer_to_oldest() finds the oldest one, as long as
\* the losses and fences of a run leave the numbers in use within half the
\* circle, which its comparison of ages needs (Roomy).
THEOREM DeliveredInOrder == Roomy => (Spec => InOrderDelivery)
<1> SUFFICES ASSUME Roomy PROVE Spec => InOrderDelivery OBVIOUS
<1>1. Init => DInv
  <2> SUFFICES ASSUME Init PROVE DInv OBVIOUS
  <2>1. IInv /\ InOrder BY OwnershipInit, InitOrdered
  <2>2. Waits /\ g.past = {} BY DEF Init, NoCall, Waits
  <2>3. OnlyPartial(state, b)
    <3>1. \A i \in Slots : b.status[i] # "PARTIAL" BY DEF Init, InitialRing
    <3> QED BY <3>1 DEF OnlyPartial
  <2> QED BY <2>1, <2>2, <2>3 DEF DInv
<1>2. DInv /\ [Next]_vars => DInv' BY DeliveryStep
<1>3. DInv /\ [Next]_vars =>
        [Delivers /\ ~Unusual({"stolen", "forwarded", "blind"}) /\ g.old = {}
           => DeliversNewer]_vars
  <2> SUFFICES ASSUME DInv, Delivers, Followed, g.old = {} PROVE DeliversNewer
    BY DEF Followed
  <2>1. /\ b \in BufferMgmt /\ g.last \in Seqs /\ cnt \in Used /\ fence \in BOOLEAN
    BY DEF DInv, IInv, TypeOK, Ghosts
  <2>2. /\ "unanchored" \notin g.past /\ Sorted(b, g.last, {}, {})
        /\ Room(b, g.last, {}, fence, cnt)
    BY DEF DInv, InOrder, Ordered
  <2>3. Reading(state, b) BY <2>2 DEF DInv, IInv, Regular, Followed, Unusual
  <2>4. PICK i \in Slots : i = b.cons_i /\ b.status[i] = "FULL"
    BY <2>1, <2>3 DEF Reading, Delivers, BufferMgmt
  <2>5. i \in Busy(b, {}, {}) BY <2>4 DEF Busy
  <2>6. /\ 1 <= Dist(b.buffer_seq[i], g.last)
        /\ Dist(b.buffer_seq[i], g.last) < Dist(b.expected_seq, g.last)
        /\ Dist(b.expected_seq, g.last) <= Dist(b.next_seq, g.last)
    BY <2>2, <2>4, <2>5 DEF Sorted, Aged
  <2>7. Dist(b.next_seq, g.last) <= (SeqMod - 1) \div 2 BY <2>1, <2>2, Near
  <2>8. /\ Dist(b.buffer_seq[i], g.last) \in Int /\ Dist(b.expected_seq, g.last) \in Int
        /\ Dist(b.next_seq, g.last) \in Int /\ (SeqMod - 1) \div 2 \in Int
    BY <2>1, Ages, SeqSizes
  <2>9. Dist(b.buffer_seq[i], g.last) \in 1 .. (SeqMod - 1) \div 2
    BY <2>6, <2>7, <2>8
  <2> QED BY <2>4, <2>9 DEF DeliversNewer, Ahead
<1> QED BY <1>1, <1>2, <1>3, PTL DEF Spec, InOrderDelivery
=============================================================================
