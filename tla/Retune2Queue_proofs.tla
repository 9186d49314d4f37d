------------------------- MODULE Retune2Queue_proofs -------------------------
(***************************************************************************)
(* Proofs about the scheduled-retune queues of module Retune2Queue, for    *)
(* every queue length, set of slots, choice of directions and bound:       *)
(*                                                                         *)
(*   TypeCorrect         every queue stays a ring of accepted requests,    *)
(*   CompareOwnedByHead  an armed compare belongs to the head,             *)
(*   ServedWhenDue       a request is served after its own compare fired,  *)
(*   EndsOnce            a request ends with one completion record,        *)
(*   NoneLost            or is in its queue, or the host cleared it,       *)
(*   UploadsSpareSlots   an upload rewrites no slot that is in use.        *)
(*                                                                         *)
(* Every function of the firmware that the model states as an operator on  *)
(* a View has a lemma XEffect that says what it may do, as a named         *)
(* relation between the View before and after; the steps of Next are then  *)
(* shown to keep the invariant IInv from these relations.  The records     *)
(* rest on a second invariant, RInv, proved from IInv in the same way: a   *)
(* lemma XAccounts says what a relation does to the records of a queue.    *)
(* The slots rest on a third, SInv, with lemmas XKeeps.                    *)
(***************************************************************************)
EXTENDS Retune2Queue, WellFoundedInduction, TLAPS

-----------------------------------------------------------------------------
(* The shape of the state.                                                 *)

Entry  == [id : 0 .. MaxRequests, st : EntryStates, slot : Slots \cup {None},
           imm : BOOLEAN, gt : BOOLEAN, res : BOOLEAN, rep : BOOLEAN,
           cseen : BOOLEAN, cpend : BOOLEAN, cack : {0, 1}]
QueueT == [ent : [Indices -> Entry], rem : Indices, cnt : 0 .. QueueMax,
           clr : BOOLEAN, done : BOOLEAN, defer : BOOLEAN,
           cpend : BOOLEAN, cseen : BOOLEAN, cack : {0, 1}]
TamerT == [fsm : {"idle", "arming", "armed", "cancel"}, cmp : 0 .. MaxRequests,
           sack : BOOLEAN, fired : BOOLEAN, sfail : BOOLEAN, swait : BOOLEAN,
           cfail : BOOLEAN, tog : {0, 1}, clk : BOOLEAN, stalled : BOOLEAN,
           held : BOOLEAN]
Some   == Modules \cup {None}
JobT   == [load : Some, recall : Some, gt : BOOLEAN, txq : BOOLEAN]
Record == [ok : Nat, fail : Nat]
OutT   == [Requests -> Record]
ViewT  == [q : QueueT, t : TamerT, job : JobT, out : OutT]
CallT  == [at : {None, "new", "ready"}, m : Some, i : Indices,
           ret : {None, "rx", "tx", "end"}, hook : BOOLEAN]
HostT  == [at : {"free", "now", "clear"}, m : Some]
Turns  == {"idle", "tx", "pre", "headRX", "headTX"}
UsedT  == [req : 0 .. MaxRequests, clears : Nat, faults : Nat, stalls : Nat,
           resets : Nat, dropped : BOOLEAN]

\* The head's cell; it is Blank when the queue is empty.
Head(Q) == Q.ent[Q.rem]

\* The cells between remove_idx and the insertion point hold requests, each
\* another one, and the others are blank.
Ring(Q) ==
  /\ \A i \in Live(Q) : /\ Q.ent[i].st # "INVALID" /\ Q.ent[i].id # 0
                        /\ Q.ent[i].slot \in Slots
  /\ \A i \in Indices \ Live(Q) : Q.ent[i] = Blank
  /\ \A i, j \in Live(Q) : Q.ent[i].id = Q.ent[j].id => i = j

\* Requests of the queue have been accepted.
IdsUsed(Q, n) == \A x \in Ids(Q) : x <= n

Types ==
  /\ q \in [Modules -> QueueT] /\ tamer \in [Modules -> TamerT]
  /\ \A m \in Modules : Ring(q[m])
  /\ job \in JobT /\ sel \in [Modules -> Slots \cup {None}] /\ fault \in BOOLEAN
  /\ turn \in Turns /\ host \in HostT /\ used \in UsedT /\ out \in OutT
  /\ call \in CallT
  /\ call # NoCall => call.at # None /\ call.m \in Modules /\ call.ret # None
  /\ host.at # "free" => host.m \in Modules
  /\ \A m \in Modules : IdsUsed(q[m], used.req)

\* A step leaves these alone.
SameClear(Q, R) == R.clr = Q.clr /\ R.done = Q.done /\ R.defer = Q.defer
SameRing(Q, R)  == R.rem = Q.rem /\ R.cnt = Q.cnt /\ SameClear(Q, R)
SameJobs(j, k)  == k.recall = j.recall /\ k.gt = j.gt /\ k.txq = j.txq
USE DEF SameClear, SameRing, SameJobs

-----------------------------------------------------------------------------
(* Indices of the ring.                                                    *)

LEMMA Sizes ==
  /\ QueueMax \in Nat \ {0} /\ MaxRequests \in Nat
  /\ Directions \subseteq Modules /\ None \notin Slots /\ None \notin Modules
BY SizesAssumption DEF SizesAssumption, Modules, None

LEMMA ModNear ==
  ASSUME NEW n \in Nat \ {0}, NEW a \in Int
  PROVE  /\ a \in 0 .. n-1 => a % n = a
         /\ a \in n .. 2*n-1 => a % n = a - n
<1>1. a \in 0 .. n-1 => a % n = a OBVIOUS
<1>2. a \in n .. 2*n-1 => a % n = a - n OBVIOUS
<1> QED BY <1>1, <1>2

LEMMA IdxValue ==
  ASSUME NEW Q, Q.rem \in Indices, NEW k \in 0 .. QueueMax
  PROVE  /\ Idx(Q, k) = IF Q.rem + k < QueueMax THEN Q.rem + k ELSE (Q.rem + k) - QueueMax
         /\ Idx(Q, k) \in Indices
<1>1. Q.rem \in Int /\ Q.rem >= 0 /\ Q.rem < QueueMax /\ k \in Int /\ k >= 0 /\ k <= QueueMax
  BY Sizes DEF Indices
<1>2. PICK a \in Int : a = Q.rem + k BY <1>1
<1>3. /\ a \in 0 .. QueueMax-1 => a % QueueMax = a
      /\ a \in QueueMax .. 2*QueueMax-1 => a % QueueMax = a - QueueMax
  BY Sizes, ModNear
<1>4. a < QueueMax => a \in 0 .. QueueMax-1 BY <1>1, <1>2, Sizes
<1>5. ~(a < QueueMax) => a \in QueueMax .. 2*QueueMax-1 BY <1>1, <1>2, Sizes
<1>6. Idx(Q, k) = a % QueueMax BY <1>2 DEF Idx
<1> QED BY <1>1, <1>2, <1>3, <1>4, <1>5, <1>6, Sizes DEF Indices

LEMMA IdxInjective ==
  ASSUME NEW Q, Q.rem \in Indices, NEW k \in 0 .. QueueMax-1, NEW l \in 0 .. QueueMax-1,
         Idx(Q, k) = Idx(Q, l)
  PROVE  k = l
<1>1. k \in 0 .. QueueMax /\ l \in 0 .. QueueMax BY Sizes
<1>2. Q.rem \in Int /\ Q.rem >= 0 /\ Q.rem < QueueMax BY Sizes DEF Indices
<1> QED BY <1>1, <1>2, IdxValue, Sizes

LEMMA LiveCells ==
  ASSUME NEW Q \in QueueT
  PROVE  /\ Live(Q) \subseteq Indices
         /\ Q.cnt = 0 => Live(Q) = {}
         /\ Q.cnt > 0 => Q.rem \in Live(Q)
         /\ \A k \in 0 .. Q.cnt-1 : Idx(Q, k) \in Live(Q)
<1>1. Q.rem \in Indices /\ Q.cnt \in 0 .. QueueMax BY DEF QueueT
<1>2. \A k \in 0 .. Q.cnt-1 : k \in 0 .. QueueMax BY <1>1, Sizes
<1>3. \A k \in 0 .. Q.cnt-1 : Idx(Q, k) \in Indices BY <1>1, <1>2, IdxValue
<1>4. Q.cnt > 0 => 0 \in 0 .. Q.cnt-1 BY <1>1, Sizes
<1>5. Idx(Q, 0) = Q.rem
  BY <1>1, IdxValue, Sizes DEF Indices
<1> QED BY <1>1, <1>3, <1>4, <1>5, Sizes DEF Live

LEMMA SameLive ==
  ASSUME NEW Q, NEW R, R.rem = Q.rem, R.cnt = Q.cnt
  PROVE  Live(R) = Live(Q) /\ \A k : Idx(R, k) = Idx(Q, k)
BY DEF Live, Idx

LEMMA Headed ==
  ASSUME NEW Q \in QueueT, Ring(Q)
  PROVE  /\ HeadOf(Q) = Head(Q) /\ Head(Q) \in Entry /\ Q.rem \in Indices
         /\ Q.cnt = 0 => Head(Q) = Blank
         /\ Q.cnt > 0 => Head(Q).st # "INVALID" /\ Head(Q).id \in Requests /\ Head(Q).slot \in Slots
         /\ Head(Q).st # "INVALID" => Q.cnt > 0 /\ Q.rem \in Live(Q)
<1>1. Q.rem \in Indices /\ Q.cnt \in 0 .. QueueMax /\ Head(Q) \in Entry BY DEF QueueT, Head
<1>2. Q.cnt > 0 => Q.rem \in Live(Q) BY LiveCells
<1>3. Q.cnt = 0 => Q.rem \notin Live(Q) BY LiveCells
<1>4. Q.cnt = 0 => Head(Q) = Blank BY <1>1, <1>3 DEF Ring, Head
<1>5. Head(Q).id \in 0 .. MaxRequests BY <1>1 DEF Entry
<1>6. Q.cnt > 0 => Head(Q).st # "INVALID" /\ Head(Q).id # 0 /\ Head(Q).slot \in Slots
  BY <1>2 DEF Ring, Head
<1>7. Head(Q).id # 0 => Head(Q).id \in Requests BY <1>5, Sizes DEF Requests
<1>8. Q.cnt = 0 \/ Q.cnt > 0 BY <1>1, Sizes
<1>9. HeadOf(Q) = Head(Q) BY <1>4, <1>8, <1>1, Sizes DEF HeadOf, Head
<1>10. Blank.st = "INVALID" BY DEF Blank
<1> QED BY <1>1, <1>2, <1>4, <1>6, <1>7, <1>8, <1>9, <1>10

\* dequeue_retune()
LEMMA DequeueRing ==
  ASSUME NEW Q \in QueueT, Ring(Q), Q.cnt > 0
  PROVE  /\ Dequeue(Q) \in QueueT /\ Ring(Dequeue(Q))
         /\ Live(Dequeue(Q)) = Live(Q) \ {Q.rem}
         /\ Dequeue(Q).cnt = Q.cnt - 1
         /\ Dequeue(Q).ent = [Q.ent EXCEPT ![Q.rem] = Blank]
         /\ SameClear(Q, Dequeue(Q))
         /\ \A k \in 0 .. Q.cnt-2 : Idx(Dequeue(Q), k) = Idx(Q, k+1)
<1> DEFINE R == Dequeue(Q)
<1>1. Q.rem \in Indices /\ Q.cnt \in 0 .. QueueMax /\ Q.ent \in [Indices -> Entry] BY DEF QueueT
<1>2. Q.cnt # 0 BY <1>1, Sizes
<1>3. R = [Q EXCEPT !.ent[Q.rem] = Blank, !.rem = Idx(Q, 1), !.cnt = Q.cnt - 1]
  BY <1>2 DEF Dequeue
<1>4. 1 \in 0 .. QueueMax BY Sizes
<1>5. Idx(Q, 1) \in Indices BY <1>1, <1>4, IdxValue
<1>6. Blank \in Entry BY Sizes DEF Blank, Entry, EntryStates
<1>7. PICK b \in Entry : b = Blank BY <1>6
<1>8. [Q.ent EXCEPT ![Q.rem] = b] \in [Indices -> Entry] BY <1>1
<1>9. Q.cnt - 1 \in 0 .. QueueMax BY <1>1, <1>2, Sizes
<1>10. /\ R \in QueueT /\ R.rem = Idx(Q, 1) /\ R.cnt = Q.cnt - 1
       /\ R.ent = [Q.ent EXCEPT ![Q.rem] = Blank]
       /\ SameClear(Q, R)
  BY <1>3, <1>5, <1>7, <1>8, <1>9 DEF QueueT
<1>11. ASSUME NEW k \in 0 .. QueueMax-1
       PROVE  Idx(R, k) = Idx(Q, k+1)
  <2>1. k \in 0 .. QueueMax /\ k+1 \in 0 .. QueueMax /\ k \in Int BY Sizes
  <2>2. Q.rem \in Int /\ Q.rem >= 0 /\ Q.rem < QueueMax BY <1>1, Sizes DEF Indices
  <2>3. Idx(Q, 1) = IF Q.rem + 1 < QueueMax THEN Q.rem + 1 ELSE (Q.rem + 1) - QueueMax
    BY <1>1, <1>4, IdxValue
  <2>4. Idx(Q, k+1) = IF Q.rem + (k+1) < QueueMax THEN Q.rem + (k+1) ELSE (Q.rem + (k+1)) - QueueMax
    BY <1>1, <2>1, IdxValue
  <2>5. Idx(R, k) = IF R.rem + k < QueueMax THEN R.rem + k ELSE (R.rem + k) - QueueMax
    BY <1>10, <1>5, <2>1, IdxValue
  <2>6. QueueMax \in Int /\ k < QueueMax /\ k >= 0 BY Sizes
  <2> HIDE DEF R
  <2> QED BY <1>10, <2>1, <2>2, <2>3, <2>4, <2>5, <2>6
<1>12. Live(R) = Live(Q) \ {Q.rem}
  <2>1. Idx(Q, 0) = Q.rem BY <1>1, IdxValue, Sizes DEF Indices
  <2>2. ASSUME NEW i \in Live(R) PROVE i \in Live(Q) /\ i # Q.rem
    <3>1. PICK k \in 0 .. R.cnt-1 : i = Idx(R, k) BY DEF Live
    <3>2. k \in 0 .. QueueMax-1 /\ k+1 \in 0 .. Q.cnt-1 /\ k+1 \in 0 .. QueueMax-1 /\ k+1 # 0 /\ 0 \in 0 .. QueueMax-1
      BY <1>1, <1>10, Sizes
    <3>3. i = Idx(Q, k+1) BY <3>1, <3>2, <1>11
    <3>4. i # Idx(Q, 0) BY <3>2, <3>3, <1>1, IdxInjective
    <3> QED BY <3>2, <3>3, <3>4, <2>1 DEF Live
  <2>3. ASSUME NEW i \in Live(Q), i # Q.rem PROVE i \in Live(R)
    <3>1. PICK k \in 0 .. Q.cnt-1 : i = Idx(Q, k) BY DEF Live
    <3>2. k # 0 BY <3>1, <2>1, <2>3
    <3>3. k-1 \in 0 .. R.cnt-1 /\ k-1 \in 0 .. QueueMax-1 /\ (k-1)+1 = k BY <3>2, <1>1, <1>10, Sizes
    <3>4. Idx(R, k-1) = i BY <3>1, <3>3, <1>11
    <3> QED BY <3>3, <3>4 DEF Live
  <2> QED BY <2>2, <2>3
<1>13. Ring(R)
  <2>1. \A i \in Live(R) : R.ent[i] = Q.ent[i] BY <1>1, <1>10, <1>12, LiveCells
  <2>2. \A i \in Indices \ Live(R) : R.ent[i] = Blank
    BY <1>1, <1>10, <1>12 DEF Ring
  <2> HIDE DEF R
  <2> QED BY <2>1, <2>2, <1>12 DEF Ring
<1>14. \A k \in 0 .. Q.cnt-2 : k \in 0 .. QueueMax-1 BY <1>1, Sizes
<1> QED BY <1>10, <1>11, <1>12, <1>13, <1>14

\* What enqueue_retune_with_identity() appends is another request.
LEMMA AppendRing ==
  ASSUME NEW Q \in QueueT, Ring(Q), Q.cnt < QueueMax, NEW e \in Entry,
         e.st # "INVALID", e.id # 0, e.slot \in Slots, e.id \notin Ids(Q)
  PROVE  LET R == Append1(Q, e)
             p == Idx(Q, Q.cnt)
         IN  /\ R \in QueueT /\ Ring(R) /\ R.rem = Q.rem /\ R.cnt = Q.cnt + 1
             /\ p \in Indices /\ p \notin Live(Q) /\ Live(R) = Live(Q) \cup {p}
             /\ R.ent = [Q.ent EXCEPT ![p] = e] /\ ~R.done
             /\ R.clr = Q.clr /\ R.defer = Q.defer
             /\ Q.cnt = 0 => p = Q.rem
             /\ Q.cnt > 0 => p # Q.rem
<1> DEFINE R == Append1(Q, e)
           p == Idx(Q, Q.cnt)
<1>1. Q.rem \in Indices /\ Q.cnt \in 0 .. QueueMax /\ Q.ent \in [Indices -> Entry] BY DEF QueueT
<1>2. p \in Indices BY <1>1, IdxValue
<1>3. [Q.ent EXCEPT ![p] = e] \in [Indices -> Entry] BY <1>1
<1>4. Q.cnt + 1 \in 0 .. QueueMax BY <1>1, Sizes
<1>5. R = [Q EXCEPT !.ent = [Q.ent EXCEPT ![p] = e], !.cnt = Q.cnt + 1, !.done = FALSE]
  BY DEF Append1
<1>6. /\ R \in QueueT /\ R.rem = Q.rem /\ R.cnt = Q.cnt + 1
      /\ R.ent = [Q.ent EXCEPT ![p] = e] /\ R.done = FALSE
      /\ R.clr = Q.clr /\ R.defer = Q.defer
  BY <1>3, <1>4, <1>5 DEF QueueT
<1>7. Idx(Q, 0) = Q.rem BY <1>1, IdxValue, Sizes DEF Indices
<1>8. p \notin Live(Q)
  <2>1. SUFFICES ASSUME NEW k \in 0 .. Q.cnt-1, p = Idx(Q, k) PROVE FALSE BY DEF Live
  <2>2. k \in 0 .. QueueMax-1 /\ Q.cnt \in 0 .. QueueMax-1 /\ k # Q.cnt BY <1>1, Sizes
  <2> QED BY <1>1, <2>1, <2>2, IdxInjective
<1>9. Q.cnt > 0 => p # Q.rem BY <1>8, LiveCells
<1>10. Q.cnt = 0 => p = Q.rem BY <1>7
<1>11. Live(R) = Live(Q) \cup {p}
  <2>1. \A k : Idx(R, k) = Idx(Q, k) BY <1>6 DEF Idx
  <2>2. 0 .. R.cnt-1 = (0 .. Q.cnt-1) \cup {Q.cnt} BY <1>1, <1>6, Sizes
  <2>3. Live(R) = {Idx(Q, k) : k \in (0 .. Q.cnt-1) \cup {Q.cnt}} BY <2>1, <2>2 DEF Live
  <2> QED BY <2>3 DEF Live
<1>12. Ring(R)
  <2>1. \A i \in Live(Q) : R.ent[i] = Q.ent[i] BY <1>1, <1>6, <1>8, LiveCells
  <2>2. R.ent[p] = e BY <1>1, <1>2, <1>6
  <2>3. \A i \in Indices \ Live(R) : R.ent[i] = Blank
    BY <1>1, <1>6, <1>11 DEF Ring
  <2>4. \A i \in Live(Q) : Q.ent[i].id # e.id BY DEF Ids
  <2> HIDE DEF R, p
  <2> QED BY <2>1, <2>2, <2>3, <2>4, <1>11 DEF Ring
<1> QED BY <1>2, <1>6, <1>8, <1>9, <1>10, <1>11, <1>12

LEMMA EmptyRing ==
  ASSUME NEW a \in {0, 1}
  PROVE  LET R == EmptyQueue(a)
         IN  /\ R \in QueueT /\ Ring(R) /\ Live(R) = {} /\ R.rem = 0 /\ R.cnt = 0
             /\ ~R.clr /\ ~R.done /\ ~R.defer /\ \A i \in Indices : R.ent[i] = Blank
<1> DEFINE R == EmptyQueue(a)
<1>1. Blank \in Entry BY Sizes DEF Blank, Entry, EntryStates
<1>2. 0 \in Indices /\ 0 \in 0 .. QueueMax BY Sizes DEF Indices
<1>3. [i \in Indices |-> Blank] \in [Indices -> Entry] BY <1>1
<1>4. R \in QueueT BY <1>2, <1>3 DEF EmptyQueue, QueueT
<1>5. /\ R.rem = 0 /\ R.cnt = 0 /\ ~R.clr /\ ~R.done /\ ~R.defer
      /\ \A i \in Indices : R.ent[i] = Blank BY DEF EmptyQueue
<1>6. Live(R) = {} BY <1>4, <1>5, LiveCells
<1> QED BY <1>4, <1>5, <1>6 DEF Ring

\* reset_queue(); q->clear_complete = done;
Emptied(Q, R, done) ==
  /\ R \in QueueT /\ Ring(R) /\ Live(R) = {} /\ R.cnt = 0 /\ R.rem = 0
  /\ ~R.clr /\ ~R.defer /\ R.done = done /\ \A i \in Indices : R.ent[i] = Blank

LEMMA ClearedRing ==
  ASSUME NEW Q \in QueueT
  PROVE  Emptied(Q, Cleared(Q), TRUE) /\ Emptied(Q, ResetQueue(Q), FALSE)
<1>1. Q.cack \in {0, 1} BY DEF QueueT
<1>2. PICK R : R = EmptyQueue(Q.cack) OBVIOUS
<1>3. /\ R \in QueueT /\ Ring(R) /\ Live(R) = {} /\ R.rem = 0 /\ R.cnt = 0
      /\ ~R.clr /\ ~R.done /\ ~R.defer /\ \A i \in Indices : R.ent[i] = Blank
  BY <1>1, <1>2, EmptyRing
<1>4. R.done = FALSE BY <1>3 DEF QueueT
<1>5. Emptied(Q, ResetQueue(Q), FALSE) BY <1>2, <1>3, <1>4 DEF Emptied, ResetQueue
<1>6. PICK C : C = [R EXCEPT !.done = TRUE] OBVIOUS
<1>7. /\ C \in QueueT /\ C.rem = R.rem /\ C.cnt = R.cnt /\ C.ent = R.ent
      /\ C.clr = R.clr /\ C.defer = R.defer /\ C.done = TRUE
  BY <1>3, <1>6 DEF QueueT
<1>8. Live(C) = Live(R) BY <1>7, SameLive
<1>9. Ring(C) BY <1>3, <1>7, <1>8 DEF Ring
<1>10. C = Cleared(Q) BY <1>2, <1>6 DEF Cleared, ResetQueue
<1> QED BY <1>3, <1>5, <1>7, <1>8, <1>9, <1>10 DEF Emptied

\* A step that leaves the ring's cells where they are.
Kept(Q, R) ==
  /\ R \in QueueT /\ R.rem = Q.rem /\ R.cnt = Q.cnt
  /\ \A i \in Indices \ Live(Q) : R.ent[i] = Q.ent[i]
  /\ \A i \in Live(Q) : /\ R.ent[i].st # "INVALID" /\ R.ent[i].id = Q.ent[i].id
                        /\ R.ent[i].slot = Q.ent[i].slot /\ R.ent[i].imm = Q.ent[i].imm

LEMMA KeptRing ==
  ASSUME NEW Q \in QueueT, Ring(Q), NEW R, Kept(Q, R)
  PROVE  Ring(R) /\ Live(R) = Live(Q) /\ Ids(R) = Ids(Q)
<1>1. Live(R) = Live(Q) BY SameLive DEF Kept
<1>2. Ids(R) = Ids(Q) BY <1>1 DEF Kept, Ids
<1>3. Ring(R) BY <1>1 DEF Kept, Ring
<1> QED BY <1>1, <1>2, <1>3

-----------------------------------------------------------------------------
(* What the functions of one direction do.                                 *)

WithCell(Q, i, e) == [Q EXCEPT !.ent = [Q.ent EXCEPT ![i] = e]]
Told(e)        == [e EXCEPT !.rep = TRUE]
Recorded(o, e) == IF e.rep THEN o ELSE [o EXCEPT ![e.id].fail = @ + 1]
Cancelling(e)  == [e EXCEPT !.st = "CANCEL_PENDING", !.cseen = FALSE, !.cpend = FALSE]
Requested(e, t) == [e EXCEPT !.cpend = TRUE, !.cseen = TRUE, !.cack = t.tog]
Dropped(e)     == [e EXCEPT !.rep = TRUE, !.st = "LOAD_FAILED"]

LEMMA WithCellType ==
  ASSUME NEW Q \in QueueT, NEW i \in Indices, NEW e \in Entry
  PROVE  WithCell(Q, i, e) \in QueueT
<1>1. Q.ent \in [Indices -> Entry] BY DEF QueueT
<1>2. PICK f \in [Indices -> Entry] : f = [Q.ent EXCEPT ![i] = e] BY <1>1
<1> QED BY <1>2 DEF WithCell, QueueT

LEMMA CellAt ==
  ASSUME NEW Q \in QueueT, NEW i \in Indices, NEW e \in Entry
  PROVE  WithCell(Q, i, e).ent[i] = e
BY DEF WithCell, QueueT

LEMMA CellElse ==
  ASSUME NEW Q \in QueueT, NEW i, NEW e, NEW j \in Indices, j # i
  PROVE  WithCell(Q, i, e).ent[j] = Q.ent[j]
BY DEF WithCell, QueueT

LEMMA CellRest ==
  ASSUME NEW Q \in QueueT, NEW i, NEW e
  PROVE  SameRing(Q, WithCell(Q, i, e))
BY DEF WithCell, QueueT

LEMMA CellTypes ==
  ASSUME NEW e \in Entry, NEW t \in TamerT
  PROVE  /\ Told(e) \in Entry /\ Cancelling(e) \in Entry /\ Requested(e, t) \in Entry
         /\ Dropped(e) \in Entry /\ t.tog \in {0, 1}
         /\ \A st \in EntryStates : [e EXCEPT !.st = st] \in Entry
BY DEF Told, Cancelling, Requested, Dropped, Entry, EntryStates, TamerT

LEMMA CancelRequestedType ==
  ASSUME NEW t \in TamerT
  PROVE  /\ CancelRequested(t) \in TamerT /\ CancelRequested(t).fsm \in {"idle", "cancel"}
         /\ CancelRequested(t).cmp = t.cmp /\ ~CancelRequested(t).fired
<1>1. t.tog \in {0, 1} /\ 1 - t.tog \in {0, 1} BY DEF TamerT
<1>2. PICK g \in {0, 1} : g = IF t.held THEN 1 - t.tog ELSE t.tog BY <1>1
<1>3. PICK f \in {"idle", "cancel"} : f = IF t.held THEN "idle" ELSE "cancel" OBVIOUS
<1>4. CancelRequested(t) = [t EXCEPT !.fsm = f, !.tog = g, !.sack = FALSE, !.fired = FALSE,
           !.sfail = FALSE, !.swait = FALSE, !.cfail = FALSE, !.stalled = FALSE]
  BY <1>2, <1>3 DEF CancelRequested
<1> QED BY <1>4 DEF TamerT

LEMMA RecordedType ==
  ASSUME NEW o \in OutT, NEW e \in Entry
  PROVE  /\ Recorded(o, e) \in OutT
         /\ \A r \in Requests : r # e.id \/ e.rep => Recorded(o, e)[r] = o[r]
         /\ ~e.rep /\ e.id \in Requests =>
              /\ Recorded(o, e)[e.id].ok = o[e.id].ok
              /\ Recorded(o, e)[e.id].fail = o[e.id].fail + 1
<1>1. CASE e.rep BY <1>1 DEF Recorded
<1>2. CASE ~e.rep
  <2>1. Recorded(o, e) = [o EXCEPT ![e.id] = [o[e.id] EXCEPT !.fail = o[e.id].fail + 1]]
    BY <1>2 DEF Recorded
  <2>2. CASE e.id \in Requests
    <3>1. o[e.id] \in Record /\ o[e.id].fail \in Nat BY <2>2 DEF OutT, Record
    <3>2. PICK x : x = [o[e.id] EXCEPT !.fail = o[e.id].fail + 1] OBVIOUS
    <3>3. x \in Record /\ x.ok = o[e.id].ok /\ x.fail = o[e.id].fail + 1 BY <3>1, <3>2 DEF Record
    <3> QED BY <1>2, <2>1, <2>2, <3>2, <3>3 DEF OutT
  <2>3. CASE e.id \notin Requests
    <3>1. Recorded(o, e) = o BY <2>1, <2>3 DEF OutT
    <3> QED BY <3>1, <2>3
  <2> QED BY <2>2, <2>3
<1> QED BY <1>1, <1>2

LEMMA FailEffect ==
  ASSUME NEW s \in ViewT, NEW i \in Indices
  PROVE  LET r == Fail(s, i)
         IN  /\ r \in ViewT /\ r.t = s.t /\ r.job = s.job
             /\ r.q = WithCell(s.q, i, Told(s.q.ent[i]))
             /\ r.out = Recorded(s.out, s.q.ent[i])
<1>1. /\ s.q \in QueueT /\ s.q.ent \in [Indices -> Entry] /\ s.q.ent[i] \in Entry
      /\ s.out \in OutT /\ s.t \in TamerT
  BY DEF ViewT, QueueT
<1>2. CASE s.q.ent[i].rep
  <2>1. Told(s.q.ent[i]) = s.q.ent[i] BY <1>1, <1>2 DEF Told, Entry
  <2>2. [s.q.ent EXCEPT ![i] = s.q.ent[i]] = s.q.ent BY <1>1
  <2>3. WithCell(s.q, i, Told(s.q.ent[i])) = s.q BY <1>1, <2>1, <2>2 DEF WithCell, QueueT
  <2> QED BY <1>1, <1>2, <2>3 DEF Fail, Recorded
<1>3. CASE ~s.q.ent[i].rep
  <2>1. PICK Q \in QueueT : Q = WithCell(s.q, i, Told(s.q.ent[i])) BY <1>1, WithCellType, CellTypes
  <2>2. PICK o \in OutT : o = Recorded(s.out, s.q.ent[i]) BY <1>1, RecordedType
  <2>3. Fail(s, i) = [s EXCEPT !.q = Q, !.out = o]
    BY <1>3, <2>1, <2>2 DEF Fail, WithCell, Told, Recorded
  <2> QED BY <2>1, <2>2, <2>3 DEF ViewT
<1> QED BY <1>2, <1>3

\* A cell is changed twice.
LEMMA WithCellTwice ==
  ASSUME NEW Q \in QueueT, NEW i \in Indices, NEW d \in Entry, NEW e \in Entry
  PROVE  WithCell(WithCell(Q, i, d), i, e) = WithCell(Q, i, e)
<1>1. Q.ent \in [Indices -> Entry] BY DEF QueueT
<1>2. [[Q.ent EXCEPT ![i] = d] EXCEPT ![i] = e] = [Q.ent EXCEPT ![i] = e] BY <1>1
<1> QED BY <1>2, WithCellType DEF WithCell, QueueT

LEMMA ViewCell ==
  ASSUME NEW s \in ViewT, NEW i \in Indices, NEW e \in Entry
  PROVE  LET r == [s EXCEPT !.q = WithCell(s.q, i, e)]
         IN  /\ r \in ViewT /\ r.q = WithCell(s.q, i, e) /\ r.q.ent[i] = e
             /\ r.t = s.t /\ r.job = s.job /\ r.out = s.out
<1>1. s.q \in QueueT BY DEF ViewT
<1>2. PICK Q : Q = WithCell(s.q, i, e) OBVIOUS
<1>3. Q \in QueueT /\ Q.ent[i] = e BY <1>1, <1>2, WithCellType, CellAt
<1> QED BY <1>2, <1>3 DEF ViewT

LEMMA ToCancelEffect ==
  ASSUME NEW s \in ViewT, NEW i \in Indices
  PROVE  LET r == ToCancel(s, i)
         IN  /\ r \in ViewT /\ r.t = s.t /\ r.job = s.job /\ r.out = s.out
             /\ r.q = WithCell(s.q, i, Cancelling(s.q.ent[i]))
<1>1. s.q \in QueueT /\ s.q.ent[i] \in Entry /\ s.t \in TamerT BY DEF ViewT, QueueT
<1>2. PICK e1 \in Entry : e1 = [s.q.ent[i] EXCEPT !.st = "CANCEL_PENDING"]
  BY <1>1, CellTypes DEF EntryStates
<1>3. PICK s1 : s1 = [s EXCEPT !.q.ent[i].st = "CANCEL_PENDING"] OBVIOUS
<1>4. s1 = [s EXCEPT !.q = WithCell(s.q, i, e1)] BY <1>2, <1>3 DEF WithCell
<1>5. /\ s1 \in ViewT /\ s1.q = WithCell(s.q, i, e1) /\ s1.q.ent[i] = e1
      /\ s1.t = s.t /\ s1.job = s.job /\ s1.out = s.out
  BY <1>4, ViewCell
<1>6. PICK e2 \in Entry : e2 = [e1 EXCEPT !.cseen = FALSE] BY DEF Entry
<1>7. PICK s2 : s2 = [s1 EXCEPT !.q.ent[i].cseen = FALSE] OBVIOUS
<1>8. s2 = [s1 EXCEPT !.q = WithCell(s1.q, i, e2)] BY <1>5, <1>6, <1>7 DEF WithCell
<1>9. /\ s2 \in ViewT /\ s2.q = WithCell(s1.q, i, e2) /\ s2.q.ent[i] = e2
      /\ s2.t = s.t /\ s2.job = s.job /\ s2.out = s.out
  BY <1>5, <1>8, ViewCell
<1>10. PICK e3 \in Entry : e3 = [e2 EXCEPT !.cpend = FALSE] BY DEF Entry
<1>11. PICK s3 : s3 = [s2 EXCEPT !.q.ent[i].cpend = FALSE] OBVIOUS
<1>12. s3 = [s2 EXCEPT !.q = WithCell(s2.q, i, e3)] BY <1>9, <1>10, <1>11 DEF WithCell
<1>13. /\ s3 \in ViewT /\ s3.q = WithCell(s2.q, i, e3)
       /\ s3.t = s.t /\ s3.job = s.job /\ s3.out = s.out
  BY <1>9, <1>12, ViewCell
<1>14. s3.q = WithCell(s.q, i, e3) BY <1>1, <1>5, <1>9, <1>13, WithCellTwice, WithCellType
<1>15. ToCancel(s, i) = s3 BY <1>3, <1>7, <1>11 DEF ToCancel
<1>16. e3 = Cancelling(s.q.ent[i]) BY <1>2, <1>6, <1>10 DEF Cancelling
<1> QED BY <1>13, <1>14, <1>15, <1>16

LEMMA RequestCancelEffect ==
  ASSUME NEW s \in ViewT, NEW i \in Indices
  PROVE  LET r == RequestCancel(s, i)
         IN  /\ r \in ViewT /\ r.t = CancelRequested(s.t) /\ r.job = s.job /\ r.out = s.out
             /\ r.q = WithCell(s.q, i, Requested(s.q.ent[i], s.t))
<1>1. s.q \in QueueT /\ s.q.ent[i] \in Entry /\ s.t \in TamerT BY DEF ViewT, QueueT
<1>2. PICK e1 \in Entry : e1 = [s.q.ent[i] EXCEPT !.cpend = TRUE] BY <1>1 DEF Entry
<1>3. PICK s1 : s1 = [s EXCEPT !.q.ent[i].cpend = TRUE] OBVIOUS
<1>4. s1 = [s EXCEPT !.q = WithCell(s.q, i, e1)] BY <1>2, <1>3 DEF WithCell
<1>5. /\ s1 \in ViewT /\ s1.q = WithCell(s.q, i, e1) /\ s1.q.ent[i] = e1
      /\ s1.t = s.t /\ s1.job = s.job /\ s1.out = s.out
  BY <1>4, ViewCell
<1>6. PICK e2 \in Entry : e2 = [e1 EXCEPT !.cseen = TRUE] BY DEF Entry
<1>7. PICK s2 : s2 = [s1 EXCEPT !.q.ent[i].cseen = TRUE] OBVIOUS
<1>8. s2 = [s1 EXCEPT !.q = WithCell(s1.q, i, e2)] BY <1>5, <1>6, <1>7 DEF WithCell
<1>9. /\ s2 \in ViewT /\ s2.q = WithCell(s1.q, i, e2) /\ s2.q.ent[i] = e2
      /\ s2.t = s.t /\ s2.job = s.job /\ s2.out = s.out
  BY <1>5, <1>8, ViewCell
<1>10. PICK e3 \in Entry : e3 = [e2 EXCEPT !.cack = s.t.tog] BY <1>1, CellTypes DEF Entry
<1>11. PICK s3 : s3 = [s2 EXCEPT !.q.ent[i].cack = s.t.tog] OBVIOUS
<1>12. s3 = [s2 EXCEPT !.q = WithCell(s2.q, i, e3)] BY <1>9, <1>10, <1>11 DEF WithCell
<1>13. /\ s3 \in ViewT /\ s3.q = WithCell(s2.q, i, e3)
       /\ s3.t = s.t /\ s3.job = s.job /\ s3.out = s.out
  BY <1>9, <1>12, ViewCell
<1>14. s3.q = WithCell(s.q, i, e3) BY <1>1, <1>5, <1>9, <1>13, WithCellTwice, WithCellType
<1>15. PICK t \in TamerT : t = CancelRequested(s.t) BY <1>1, CancelRequestedType
<1>16. RequestCancel(s, i) = [s3 EXCEPT !.t = t] BY <1>3, <1>7, <1>11, <1>15 DEF RequestCancel
<1>17. e3 = Requested(s.q.ent[i], s.t) BY <1>2, <1>6, <1>10 DEF Requested
<1> QED BY <1>13, <1>14, <1>15, <1>16, <1>17 DEF ViewT

\* The cancel of an empty queue's CLEAR, and other changes of its flags.
LEMMA RequestClearCancelEffect ==
  ASSUME NEW s \in ViewT
  PROVE  LET r == RequestClearCancel(s)
         IN  /\ r \in ViewT /\ r.t = CancelRequested(s.t) /\ r.job = s.job /\ r.out = s.out
             /\ r.q.ent = s.q.ent /\ SameRing(s.q, r.q)
<1>1. s.q \in QueueT /\ s.t \in TamerT /\ s.t.tog \in {0, 1} BY DEF ViewT, TamerT
<1>2. PICK Q : Q = [s.q EXCEPT !.cpend = TRUE, !.cseen = TRUE, !.cack = s.t.tog] OBVIOUS
<1>3. Q \in QueueT /\ Q.ent = s.q.ent /\ SameRing(s.q, Q)
  BY <1>1, <1>2 DEF QueueT
<1>4. PICK t \in TamerT : t = CancelRequested(s.t) BY <1>1, CancelRequestedType
<1>5. RequestClearCancel(s) = [s EXCEPT !.q = Q, !.t = t] BY <1>2, <1>4 DEF RequestClearCancel
<1> QED BY <1>3, <1>4, <1>5 DEF ViewT

LEMMA LoadCancelEffect ==
  ASSUME NEW s \in ViewT, NEW m \in Modules
  PROVE  LET r == LoadCancel(s, m)
         IN  /\ r \in ViewT /\ r.q = s.q /\ r.t = s.t /\ r.out = s.out
             /\ r.job.load = (IF s.job.load = m THEN None ELSE s.job.load)
             /\ SameJobs(s.job, r.job)
<1>1. s.job \in JobT BY DEF ViewT
<1>2. PICK j : j = [s.job EXCEPT !.load = None] OBVIOUS
<1>3. j \in JobT /\ j.load = None /\ SameJobs(s.job, j)
  BY <1>1, <1>2 DEF JobT, Some
<1> QED BY <1>1, <1>2, <1>3 DEF LoadCancel, ViewT

\* cancel_nonhead_profile_upload(): an upload behind the head is given up.
LoadFreed(j, k, m) ==
  /\ k \in JobT /\ k.load = (IF j.load = m THEN None ELSE j.load)
  /\ SameJobs(j, k)

StagedOff(s, r, m) ==
  \/ r = s /\ Loading(s.q) \subseteq {s.q.rem}
  \/ \E i \in Loading(s.q) \ {s.q.rem} :
       /\ r \in ViewT /\ r.t = s.t /\ LoadFreed(s.job, r.job, m)
       /\ r.q = WithCell(s.q, i, Dropped(s.q.ent[i]))
       /\ r.out = Recorded(s.out, s.q.ent[i])

LEMMA CancelStagedEffect ==
  ASSUME NEW s \in ViewT, NEW m \in Modules
  PROVE  StagedOff(s, CancelStaged(s, m), m) /\ CancelStaged(s, m) \in ViewT
<1> DEFINE staged == Loading(s.q) \ {s.q.rem}
<1>1. CASE staged = {} BY <1>1 DEF CancelStaged, StagedOff
<1>2. CASE staged # {}
  <2>1. PICK i : i = CHOOSE j \in staged : TRUE OBVIOUS
  <2>2. i \in staged BY <1>2, <2>1
  <2>3. s.q \in QueueT /\ s.t \in TamerT /\ s.job \in JobT BY DEF ViewT
  <2>4. i \in Indices /\ s.q.ent[i] \in Entry BY <2>2, <2>3, LiveCells DEF Loading, QueueT
  <2>5. PICK e : e = s.q.ent[i] OBVIOUS
  <2>6. PICK s1 : s1 = LoadCancel(s, m) OBVIOUS
  <2>7. /\ s1 \in ViewT /\ s1.q = s.q /\ s1.t = s.t /\ s1.out = s.out
        /\ s1.job.load = (IF s.job.load = m THEN None ELSE s.job.load)
        /\ SameJobs(s.job, s1.job)
    BY <2>6, LoadCancelEffect
  <2>8. s1.job \in JobT BY <2>7 DEF ViewT
  <2>9. PICK s2 : s2 = Fail(s1, i) OBVIOUS
  <2>10. /\ s2 \in ViewT /\ s2.t = s1.t /\ s2.job = s1.job
         /\ s2.q = WithCell(s1.q, i, Told(s1.q.ent[i])) /\ s2.out = Recorded(s1.out, s1.q.ent[i])
    BY <2>4, <2>7, <2>9, FailEffect
  <2>11. Told(e) \in Entry BY <2>3, <2>4, <2>5, CellTypes
  <2>12. s2.q.ent[i] = Told(e)
    <3>1. s2.q = WithCell(s.q, i, Told(e)) BY <2>5, <2>7, <2>10
    <3> QED BY <3>1, <2>3, <2>4, <2>11, CellAt
  <2>13. PICK d \in Entry : d = [Told(e) EXCEPT !.st = "LOAD_FAILED"]
    BY <2>3, <2>11, CellTypes DEF EntryStates
  <2>14. PICK s3 : s3 = [s2 EXCEPT !.q.ent[i].st = "LOAD_FAILED"] OBVIOUS
  <2>15. s3 = [s2 EXCEPT !.q = WithCell(s2.q, i, d)] BY <2>12, <2>13, <2>14 DEF WithCell
  <2>16. /\ s3 \in ViewT /\ s3.q = WithCell(s2.q, i, d)
         /\ s3.t = s2.t /\ s3.job = s2.job /\ s3.out = s2.out
    BY <2>4, <2>10, <2>15, ViewCell
  <2>17. s3.q = WithCell(s.q, i, d)
    BY <2>3, <2>4, <2>5, <2>7, <2>10, <2>11, <2>16, WithCellTwice
  <2>18. d = Dropped(e) BY <2>13, <2>4, <2>5 DEF Told, Dropped, Entry
  <2>19. CancelStaged(s, m) = s3 BY <1>2, <2>1, <2>6, <2>9, <2>14 DEF CancelStaged
  <2> QED BY <2>2, <2>5, <2>7, <2>8, <2>10, <2>16, <2>17, <2>18, <2>19 DEF StagedOff, LoadFreed
<1> QED BY <1>1, <1>2

\* clear_queue_async() once only the compare is left: the head is marked, and
\* its compare cancelled unless the clock has stopped.
Compared(s, r, again) ==
  /\ r \in ViewT /\ r.job = s.job /\ r.out = s.out
  /\ SameRing(s.q, r.q)
  /\ \A i \in Indices : i # s.q.rem => r.q.ent[i] = s.q.ent[i]
  /\ r.t = s.t \/ r.t = CancelRequested(s.t)
  /\ s.q.cnt = 0 => r.q.ent = s.q.ent
  /\ s.q.cnt > 0 =>
       LET e == Head(s.q)
           c == IF again \/ e.st = "CANCEL_PENDING" THEN e ELSE Cancelling(e)
       IN  \/ r.t = s.t /\ Head(r.q) = c
           \/ r.t = CancelRequested(s.t) /\ Head(r.q) = Requested(c, s.t)

LEMMA ClearCompareEffect ==
  ASSUME NEW s \in ViewT, Ring(s.q), NEW again \in BOOLEAN
  PROVE  Compared(s, ClearCompare(s, again).s, again)
<1>a. PICK i : i = s.q.rem OBVIOUS
<1>b. PICK e : e = Head(s.q) OBVIOUS
<1>c. PICK r : r = ClearCompare(s, again).s OBVIOUS
<1>1. s.q \in QueueT /\ s.t \in TamerT /\ i \in Indices /\ e \in Entry /\ s.q.cnt \in 0 .. QueueMax
  BY <1>a, <1>b DEF ViewT, QueueT, Head
<1>2. HeadOf(s.q) = e BY <1>1, <1>b, Headed
<1>3. CASE s.q.cnt = 0
  <2>1. PICK Q : Q = [s.q EXCEPT !.cpend = FALSE, !.cseen = FALSE] OBVIOUS
  <2>2. Q \in QueueT /\ Q.ent = s.q.ent /\ SameRing(s.q, Q)
    BY <1>1, <2>1 DEF QueueT
  <2>3. PICK s1 : s1 = [s EXCEPT !.q.cpend = FALSE, !.q.cseen = FALSE] OBVIOUS
  <2>4. s1 = [s EXCEPT !.q = Q] BY <2>1, <2>3 DEF ViewT
  <2>5. s1 \in ViewT /\ s1.q = Q /\ s1.t = s.t /\ s1.job = s.job /\ s1.out = s.out
    BY <2>2, <2>4 DEF ViewT
  <2>6. PICK s2 : s2 = RequestClearCancel(s) OBVIOUS
  <2>7. /\ s2 \in ViewT /\ s2.t = CancelRequested(s.t) /\ s2.job = s.job /\ s2.out = s.out
        /\ s2.q.ent = s.q.ent /\ SameRing(s.q, s2.q)
    BY <2>6, RequestClearCancelEffect
  <2>8. r \in {s, s1, s2} BY <1>c, <1>3, <2>3, <2>6 DEF ClearCompare, Answered
  <2>9. ~(s.q.cnt > 0) BY <1>3
  <2> QED BY <1>c, <1>3, <2>2, <2>5, <2>7, <2>8, <2>9 DEF Compared
<1>4. CASE s.q.cnt > 0
  <2>1. PICK c : c = IF again \/ e.st = "CANCEL_PENDING" THEN e ELSE Cancelling(e) OBVIOUS
  <2>2. PICK s1 : s1 = IF again \/ e.st = "CANCEL_PENDING" THEN s ELSE ToCancel(s, i) OBVIOUS
  <2>3. c \in Entry BY <1>1, <2>1, CellTypes
  <2>4. /\ s1 \in ViewT /\ s1.t = s.t /\ s1.job = s.job /\ s1.out = s.out
        /\ s1.q = WithCell(s.q, i, c)
    <3>1. CASE again \/ e.st = "CANCEL_PENDING"
      <4>1. [s.q.ent EXCEPT ![i] = s.q.ent[i]] = s.q.ent BY <1>1 DEF QueueT
      <4>2. WithCell(s.q, i, e) = s.q BY <1>a, <1>b, <1>1, <4>1 DEF WithCell, QueueT, Head
      <4> QED BY <2>1, <2>2, <3>1, <4>2
    <3>2. CASE ~(again \/ e.st = "CANCEL_PENDING")
      BY <1>a, <1>b, <1>1, <2>1, <2>2, <3>2, ToCancelEffect DEF Head
    <3> QED BY <3>1, <3>2
  <2>5. PICK s2 : s2 = RequestCancel(s1, i) OBVIOUS
  <2>6. s1.q.ent[i] = c BY <1>1, <2>3, <2>4, CellAt
  <2>7. PICK d \in Entry : d = Requested(c, s.t) BY <1>1, <2>3, CellTypes
  <2>8. /\ s2 \in ViewT /\ s2.t = CancelRequested(s.t) /\ s2.job = s.job /\ s2.out = s.out
        /\ s2.q = WithCell(s.q, i, d)
    BY <1>1, <2>3, <2>4, <2>5, <2>6, <2>7, RequestCancelEffect, WithCellTwice
  <2>9. s.q.cnt # 0 BY <1>1, <1>4, Sizes
  <2>10. r \in {s1, s2} BY <1>a, <1>c, <1>2, <1>4, <2>2, <2>5, <2>9 DEF ClearCompare, Answered
  <2>11. /\ s1.q.ent[i] = c /\ s2.q.ent[i] = d
         /\ \A j \in Indices : j # i => s1.q.ent[j] = s.q.ent[j] /\ s2.q.ent[j] = s.q.ent[j]
         /\ SameRing(s.q, s1.q) /\ SameRing(s.q, s2.q)
    <3>1. ASSUME NEW x \in Entry, NEW R, R = WithCell(s.q, i, x)
          PROVE  /\ R.ent[i] = x /\ \A j \in Indices : j # i => R.ent[j] = s.q.ent[j]
                 /\ SameRing(s.q, R)
      <4>1. R.ent[i] = x BY <1>1, <3>1, CellAt
      <4>2. \A j \in Indices : j # i => R.ent[j] = s.q.ent[j] BY <1>1, <3>1, CellElse
      <4>3. SameRing(s.q, R) BY <1>1, <3>1, CellRest
      <4> QED BY <4>1, <4>2, <4>3
    <3>2. /\ s1.q.ent[i] = c /\ \A j \in Indices : j # i => s1.q.ent[j] = s.q.ent[j]
          /\ SameRing(s.q, s1.q)
      BY <2>3, <2>4, <3>1
    <3>3. /\ s2.q.ent[i] = d /\ \A j \in Indices : j # i => s2.q.ent[j] = s.q.ent[j]
          /\ SameRing(s.q, s2.q)
      BY <2>7, <2>8, <3>1
    <3> QED BY <3>2, <3>3
  <2>12. Head(s1.q) = c /\ Head(s2.q) = d BY <1>a, <2>11 DEF Head
  <2> QED BY <1>a, <1>b, <1>c, <2>1, <2>4, <2>7, <2>8, <2>9, <2>10, <2>11, <2>12 DEF Compared
<1> QED BY <1>1, <1>3, <1>4, Sizes

-----------------------------------------------------------------------------
(* clear_queue_async(): the CLEAR was done already, it is done at once, or *)
(* the head stays until its job ends or its compare is disarmed.           *)

Staged(Q) == Loading(Q) \ {Q.rem}
OneLoad(Q) == \A i, j \in Loading(Q) : i = j

\* Completion records are added for requests of the queue that had none.
Grown(Q, o, p) ==
  \A x \in Requests :
    \/ p[x] = o[x]
    \/ /\ p[x].ok = o[x].ok /\ p[x].fail = o[x].fail + 1
       /\ \E i \in Live(Q) : Q.ent[i].id = x /\ ~Q.ent[i].rep

WasDone(s, r) ==
  /\ s.q.done /\ ~r.q.done /\ r \in ViewT /\ r.t = s.t /\ r.job = s.job /\ r.out = s.out
  /\ r.q.ent = s.q.ent /\ r.q.rem = s.q.rem /\ r.q.cnt = s.q.cnt
  /\ r.q.clr = s.q.clr /\ r.q.defer = s.q.defer

Gone(s, r, m) ==
  /\ r \in ViewT /\ Emptied(s.q, r.q, TRUE) /\ r.t = s.t
  /\ \/ Head(s.q).st = "LOAD_FAILED" /\ r.job = s.job /\ r.out = s.out
     \/ /\ Head(s.q).st = "LOAD_PENDING" \/ (Head(s.q).imm /\ Head(s.q).st = "READY")
        /\ LoadFreed(s.job, r.job, m) /\ Grown(s.q, s.out, r.out)

HeadCleared(s, r) ==
  LET e == Head(s.q)
      h == Head(r.q)
      c == IF s.q.clr \/ e.st = "CANCEL_PENDING" THEN e ELSE Cancelling(e)
  IN  /\ e.st \notin {"LOAD_FAILED", "LOAD_PENDING"} /\ ~(e.imm /\ e.st = "READY")
      /\ e.st \in JobStates => h = e /\ r.t = s.t
      /\ s.q.cnt = 0 => h = e /\ (r.t = s.t \/ r.t = CancelRequested(s.t))
      /\ s.q.cnt > 0 /\ e.st \notin JobStates =>
           \/ r.t = s.t /\ h = c
           \/ r.t = CancelRequested(s.t) /\ h = Requested(c, s.t)

Stays(s, r, m) ==
  /\ r \in ViewT /\ r.q.rem = s.q.rem /\ r.q.cnt = s.q.cnt
  /\ r.q.done = s.q.done /\ r.q.defer = s.q.defer /\ r.q.clr
  /\ \A i \in Indices : i # s.q.rem =>
        r.q.ent[i] = IF i \in Loading(s.q) THEN Dropped(s.q.ent[i]) ELSE s.q.ent[i]
  /\ \/ Staged(s.q) = {} /\ r.job = s.job /\ r.out = s.out
     \/ \E i \in Staged(s.q) : /\ LoadFreed(s.job, r.job, m)
                               /\ r.out = Recorded(s.out, s.q.ent[i])
  /\ HeadCleared(s, r)

LEMMA GrownRecord ==
  ASSUME NEW Q \in QueueT, NEW i \in Live(Q), NEW o \in OutT
  PROVE  Grown(Q, o, Recorded(o, Q.ent[i])) /\ Recorded(o, Q.ent[i]) \in OutT
<1>1. i \in Indices /\ Q.ent[i] \in Entry BY LiveCells DEF QueueT
<1>2. PICK e \in Entry : e = Q.ent[i] BY <1>1
<1>3. PICK p : p = Recorded(o, e) OBVIOUS
<1>4. /\ p \in OutT /\ \A r \in Requests : r # e.id \/ e.rep => p[r] = o[r]
      /\ ~e.rep /\ e.id \in Requests => p[e.id].ok = o[e.id].ok /\ p[e.id].fail = o[e.id].fail + 1
  BY <1>3, RecordedType
<1> QED BY <1>2, <1>3, <1>4 DEF Grown

\* Two cells of the queue, one after the other.
LEMMA GrownTwice ==
  ASSUME NEW Q \in QueueT, Ring(Q), NEW i \in Live(Q), NEW j \in Live(Q), i # j, NEW o \in OutT
  PROVE  Grown(Q, o, Recorded(Recorded(o, Q.ent[i]), Q.ent[j]))
<1>1. PICK p : p = Recorded(o, Q.ent[i]) OBVIOUS
<1>2. PICK d : d = Recorded(p, Q.ent[j]) OBVIOUS
<1>3. i \in Indices /\ Q.ent[i] \in Entry /\ j \in Indices /\ Q.ent[j] \in Entry BY LiveCells DEF QueueT
<1>4. p \in OutT /\ \A r \in Requests : r # Q.ent[i].id => p[r] = o[r] BY <1>1, <1>3, RecordedType
<1>5. \A r \in Requests : r # Q.ent[j].id => d[r] = p[r] BY <1>2, <1>3, <1>4, RecordedType
<1>6. Q.ent[i].id # Q.ent[j].id BY DEF Ring
<1>7. Grown(Q, o, p) /\ Grown(Q, p, d) BY <1>1, <1>2, <1>4, GrownRecord
<1>8. ASSUME NEW x \in Requests PROVE d[x] = p[x] \/ p[x] = o[x] BY <1>4, <1>5, <1>6
<1>9. Grown(Q, o, d) BY <1>7, <1>8 DEF Grown
<1> QED BY <1>1, <1>2, <1>9

LEMMA ClearQueueEffect ==
  ASSUME NEW s \in ViewT, NEW m \in Modules, Ring(s.q), OneLoad(s.q)
  PROVE  LET r == ClearQueue(s, m).s
         IN  \/ WasDone(s, r)
             \/ ~s.q.done /\ Gone(s, r, m)
             \/ ~s.q.done /\ Stays(s, r, m)
<1>1. s.q \in QueueT /\ s.t \in TamerT /\ s.job \in JobT /\ s.out \in OutT BY DEF ViewT
<1>2. PICK e : e = Head(s.q) OBVIOUS
<1>3. /\ HeadOf(s.q) = e /\ e \in Entry /\ s.q.rem \in Indices
      /\ s.q.cnt = 0 => e = Blank
      /\ s.q.cnt > 0 => e.st # "INVALID"
      /\ e.st # "INVALID" => s.q.cnt > 0 /\ s.q.rem \in Live(s.q)
  BY <1>1, <1>2, Headed
<1>4. PICK Q1 : Q1 = [s.q EXCEPT !.clr = TRUE] OBVIOUS
<1>5. /\ Q1 \in QueueT /\ Q1.ent = s.q.ent /\ Q1.rem = s.q.rem /\ Q1.cnt = s.q.cnt
      /\ Q1.done = s.q.done /\ Q1.defer = s.q.defer /\ Q1.clr
  BY <1>1, <1>4 DEF QueueT
<1>6. Live(Q1) = Live(s.q) BY <1>5, SameLive
<1>7. Ring(Q1) /\ Loading(Q1) = Loading(s.q) BY <1>5, <1>6 DEF Ring, Loading
<1>8. PICK s1 : s1 = [s EXCEPT !.q.clr = TRUE] OBVIOUS
<1>9. s1 = [s EXCEPT !.q = Q1] BY <1>4, <1>8
<1>10. s1 \in ViewT /\ s1.q = Q1 /\ s1.t = s.t /\ s1.job = s.job /\ s1.out = s.out
  BY <1>5, <1>9 DEF ViewT
<1>11. PICK s2 : s2 = CancelStaged(s1, m) OBVIOUS
<1>12. StagedOff(s1, s2, m) /\ s2 \in ViewT BY <1>10, <1>11, CancelStagedEffect
<1>13. s2.q \in QueueT /\ s2.job \in JobT /\ s2.out \in OutT BY <1>12 DEF ViewT
<1>14. /\ SameRing(Q1, s2.q) /\ Head(s2.q) = e /\ s2.t = s.t
       /\ \A i \in Indices : i # s.q.rem =>
            s2.q.ent[i] = IF i \in Loading(s.q) THEN Dropped(s.q.ent[i]) ELSE s.q.ent[i]
       /\ \/ Staged(s.q) = {} /\ s2.job = s.job /\ s2.out = s.out
          \/ \E i \in Staged(s.q) : /\ LoadFreed(s.job, s2.job, m)
                                    /\ s2.out = Recorded(s.out, s.q.ent[i])
  <2>1. CASE s2 = s1 /\ Loading(Q1) \subseteq {Q1.rem}
    BY <1>2, <1>5, <1>7, <1>10, <2>1 DEF Staged, Head
  <2>2. ASSUME NEW i \in Loading(Q1) \ {Q1.rem},
               s2.t = s1.t, LoadFreed(s1.job, s2.job, m),
               s2.q = WithCell(Q1, i, Dropped(Q1.ent[i])), s2.out = Recorded(s1.out, Q1.ent[i])
        PROVE  <1>14!1 /\ <1>14!2 /\ <1>14!3
    <3>1. i \in Staged(s.q) /\ i # s.q.rem /\ i \in Indices /\ s.q.ent[i] \in Entry
      BY <1>1, <1>5, <1>7, LiveCells DEF Staged, Loading, QueueT
    <3>2. PICK d \in Entry : d = Dropped(s.q.ent[i]) BY <1>1, <3>1, CellTypes
    <3>3. s2.q = WithCell(Q1, i, d) BY <1>5, <2>2, <3>2
    <3>a. SameRing(Q1, WithCell(Q1, i, d)) BY <1>5, CellRest
    <3>4. SameRing(Q1, s2.q) BY <3>3, <3>a
    <3>5. \A j \in Indices : j # i => s2.q.ent[j] = s.q.ent[j] BY <1>5, <3>3, CellElse
    <3>6. s2.q.ent[i] = d BY <1>5, <3>1, <3>2, <3>3, CellAt
    <3>7. \A j \in Loading(s.q) : j = i BY <1>7 DEF OneLoad
    <3>8. i \in Loading(s.q) BY <1>7
    <3>9. Head(s2.q) = e BY <1>2, <1>3, <1>5, <3>1, <3>4, <3>5 DEF Head
    <3>10. s2.t = s.t /\ LoadFreed(s.job, s2.job, m) /\ s2.out = Recorded(s.out, s.q.ent[i])
      BY <1>5, <1>10, <2>2
    <3>11. \A j \in Indices : j # s.q.rem =>
             s2.q.ent[j] = IF j \in Loading(s.q) THEN Dropped(s.q.ent[j]) ELSE s.q.ent[j]
      BY <3>2, <3>5, <3>6, <3>7, <3>8
    <3> QED BY <3>1, <3>4, <3>9, <3>10, <3>11
  <2> QED BY <1>10, <1>12, <2>1, <2>2 DEF StagedOff
<1>15. PICK r : r = ClearQueue(s, m).s OBVIOUS
<1>16. CASE s.q.done
  <2>1. r = [s EXCEPT !.q.done = FALSE] BY <1>15, <1>16 DEF ClearQueue, Answered
  <2>2. PICK Q : Q = [s.q EXCEPT !.done = FALSE] OBVIOUS
  <2>3. /\ Q \in QueueT /\ Q.ent = s.q.ent /\ Q.rem = s.q.rem /\ Q.cnt = s.q.cnt
        /\ Q.clr = s.q.clr /\ Q.defer = s.q.defer /\ ~Q.done
    BY <1>1, <2>2 DEF QueueT
  <2>4. r = [s EXCEPT !.q = Q] BY <2>1, <2>2
  <2>5. r \in ViewT /\ r.q = Q /\ r.t = s.t /\ r.job = s.job /\ r.out = s.out
    BY <2>3, <2>4 DEF ViewT
  <2> QED BY <1>15, <1>16, <2>3, <2>5 DEF WasDone
<1>17. ASSUME NEW x \in ViewT, x.t = s.t, r = [x EXCEPT !.q = Cleared(x.q)]
       PROVE  r \in ViewT /\ Emptied(s.q, r.q, TRUE) /\ r.t = s.t /\ r.job = x.job /\ r.out = x.out
  <2>1. x.q \in QueueT BY DEF ViewT
  <2>2. PICK Q : Q = Cleared(x.q) OBVIOUS
  <2>3. Emptied(s.q, Q, TRUE) /\ Q \in QueueT BY <2>1, <2>2, ClearedRing DEF Emptied
  <2> QED BY <1>17, <2>2, <2>3 DEF ViewT
<1>18. CASE ~s.q.done /\ e.st = "LOAD_FAILED"
  <2>1. r = [s1 EXCEPT !.q = Cleared(s1.q)] BY <1>3, <1>8, <1>15, <1>18 DEF ClearQueue, Answered, JobStates
  <2>2. r \in ViewT /\ Emptied(s.q, r.q, TRUE) /\ r.t = s.t /\ r.job = s.job /\ r.out = s.out
    BY <1>10, <1>17, <2>1
  <2> QED BY <1>2, <1>15, <1>18, <2>2 DEF Gone
<1>19. CASE ~s.q.done /\ e.st \in JobStates
  <2>1. r = s2 BY <1>3, <1>8, <1>11, <1>15, <1>19 DEF ClearQueue, Answered, JobStates
  <2>2. e.st # "INVALID" /\ e.st \notin {"LOAD_FAILED", "LOAD_PENDING", "READY"} BY <1>19 DEF JobStates
  <2>3. s.q.cnt # 0 BY <1>3, <2>2
  <2>4. HeadCleared(s, r) BY <1>2, <1>14, <1>19, <2>1, <2>2, <2>3 DEF HeadCleared
  <2>5. Stays(s, r, m) BY <1>5, <1>12, <1>14, <2>1, <2>4 DEF Stays
  <2> QED BY <1>15, <1>19, <2>5
<1>20. CASE ~s.q.done /\ ((e.imm /\ e.st = "READY") \/ e.st = "LOAD_PENDING")
  <2>1. e.st # "LOAD_FAILED" /\ e.st \notin JobStates BY <1>20 DEF JobStates
  <2>2. PICK s3 : s3 = LoadCancel(s2, m) OBVIOUS
  <2>3. PICK s4 : s4 = Fail(s3, s.q.rem) OBVIOUS
  <2>4. r = [s4 EXCEPT !.q = Cleared(s4.q)]
    BY <1>3, <1>8, <1>11, <1>15, <1>20, <2>1, <2>2, <2>3 DEF ClearQueue, Answered
  <2>5. /\ s3 \in ViewT /\ s3.q = s2.q /\ s3.t = s.t /\ s3.out = s2.out
        /\ s3.job.load = (IF s2.job.load = m THEN None ELSE s2.job.load)
        /\ SameJobs(s2.job, s3.job)
    BY <1>12, <1>14, <2>2, LoadCancelEffect
  <2>6. /\ s4 \in ViewT /\ s4.t = s.t /\ s4.job = s3.job
        /\ s4.out = Recorded(s2.out, s2.q.ent[s.q.rem])
    BY <1>3, <2>3, <2>5, FailEffect
  <2>a. s4.out = Recorded(s2.out, s.q.ent[s.q.rem]) BY <1>2, <1>5, <1>14, <2>6 DEF Head
  <2>b. s.q.rem \in Live(s.q) BY <1>3, <1>20
  <2>c. Grown(s.q, s.out, s4.out)
    <3>1. CASE s2.out = s.out BY <1>1, <2>a, <2>b, <3>1, GrownRecord
    <3>2. ASSUME NEW i \in Staged(s.q), s2.out = Recorded(s.out, s.q.ent[i])
          PROVE  Grown(s.q, s.out, s4.out)
      <4>1. i \in Live(s.q) /\ i # s.q.rem BY DEF Staged, Loading
      <4> QED BY <1>1, <2>a, <2>b, <3>2, <4>1, GrownTwice
    <3> QED BY <1>14, <3>1, <3>2
  <2>7. r \in ViewT /\ Emptied(s.q, r.q, TRUE) /\ r.t = s.t /\ r.job = s4.job /\ r.out = s4.out
    BY <1>17, <2>4, <2>6
  <2>8. r.job \in JobT /\ r.out \in OutT BY <2>7 DEF ViewT
  <2>9. LoadFreed(s.job, s2.job, m) \/ s2.job = s.job BY <1>14
  <2>10. LoadFreed(s.job, r.job, m) BY <2>5, <2>6, <2>7, <2>8, <2>9, Sizes DEF LoadFreed
  <2> QED BY <1>2, <1>15, <1>20, <2>7, <2>c, <2>10 DEF Gone
<1>21. CASE ~s.q.done /\ e.st # "LOAD_FAILED" /\ e.st \notin JobStates
            /\ ~((e.imm /\ e.st = "READY") \/ e.st = "LOAD_PENDING")
  <2>1. r = ClearCompare(s2, s.q.clr).s
    BY <1>3, <1>8, <1>11, <1>15, <1>21 DEF ClearQueue
  <2>2. Kept(Q1, s2.q)
    <3>1. \A i \in Indices : i # s.q.rem /\ i \notin Loading(s.q) => s2.q.ent[i] = Q1.ent[i]
      BY <1>5, <1>14
    <3>2. s2.q.ent[s.q.rem] = Q1.ent[s.q.rem] BY <1>2, <1>5, <1>14 DEF Head
    <3>3. \A i \in Loading(s.q) : i # s.q.rem => s2.q.ent[i] = Dropped(Q1.ent[i])
      BY <1>1, <1>5, <1>14, LiveCells DEF Loading
    <3>4. \A i \in Indices : Q1.ent[i] \in Entry BY <1>5 DEF QueueT
    <3>5. \A x \in Entry : Dropped(x).st = "LOAD_FAILED" /\ Dropped(x).id = x.id
                           /\ Dropped(x).slot = x.slot /\ Dropped(x).imm = x.imm
      BY DEF Dropped, Entry
    <3>6. Loading(s.q) \subseteq Live(Q1) /\ Live(Q1) \subseteq Indices
      BY <1>5, <1>6, LiveCells DEF Loading
    <3>7. \A i \in Live(Q1) : Q1.ent[i].st # "INVALID" BY <1>7 DEF Ring
    <3>8. ASSUME NEW i \in Live(Q1)
          PROVE  /\ s2.q.ent[i].st # "INVALID" /\ s2.q.ent[i].id = Q1.ent[i].id
                 /\ s2.q.ent[i].slot = Q1.ent[i].slot /\ s2.q.ent[i].imm = Q1.ent[i].imm
      BY <3>1, <3>2, <3>3, <3>4, <3>5, <3>6, <3>7
    <3>9. \A i \in Indices \ Live(Q1) : s2.q.ent[i] = Q1.ent[i]
      BY <3>1, <3>2, <3>6
    <3> QED BY <1>13, <1>14, <3>8, <3>9 DEF Kept
  <2>3. Ring(s2.q) BY <1>5, <1>7, <2>2, KeptRing
  <2>4. s.q.clr \in BOOLEAN BY <1>1 DEF QueueT
  <2>5. Compared(s2, r, s.q.clr) BY <1>12, <2>1, <2>3, <2>4, ClearCompareEffect
  <2>6. s2.q.rem = s.q.rem /\ s2.q.cnt = s.q.cnt BY <1>5, <1>14
  <2>7. s.q.cnt = 0 => Head(r.q) = e BY <1>14, <2>5, <2>6 DEF Compared, Head
  <2>8. HeadCleared(s, r)
    BY <1>2, <1>14, <1>21, <2>5, <2>6, <2>7 DEF HeadCleared, Compared
  <2>9. \A i \in Indices : i # s.q.rem => r.q.ent[i] = s2.q.ent[i] BY <2>5, <2>6 DEF Compared
  <2>10. r \in ViewT /\ r.job = s2.job /\ r.out = s2.out /\ SameRing(s2.q, r.q) BY <2>5 DEF Compared
  <2>11. Stays(s, r, m) BY <1>5, <1>14, <2>8, <2>9, <2>10 DEF Stays
  <2> QED BY <1>15, <1>21, <2>11
<1> QED BY <1>16, <1>18, <1>19, <1>20, <1>21

-----------------------------------------------------------------------------
(* fail_queue_for_rfic_fault(): every request has its record, the queue    *)
(* is gone or its head waits for its compare to be disarmed.               *)

AllRecorded(Q, o, p) ==
  /\ p \in OutT
  /\ \A x \in Requests :
       IF \E i \in Live(Q) : Q.ent[i].id = x /\ ~Q.ent[i].rep
       THEN p[x].ok = o[x].ok /\ p[x].fail = o[x].fail + 1
       ELSE p[x] = o[x]

Comparing == {"SCHEDULE_PENDING", "SCHEDULED", "CANCEL_PENDING"}

FailedAll(s, r, m) ==
  /\ r \in ViewT /\ AllRecorded(s.q, s.out, r.out)
  /\ \/ /\ Head(s.q).st \notin Comparing
        /\ Emptied(s.q, r.q, FALSE) /\ r.t = s.t /\ LoadFreed(s.job, r.job, m)
     \/ /\ Head(s.q).st \in Comparing
        /\ r.q.rem = s.q.rem /\ r.q.cnt = s.q.cnt
        /\ r.q.done = s.q.done /\ r.q.defer = s.q.defer /\ r.q.clr
        /\ \A i \in Indices \ Live(s.q) : r.q.ent[i] = s.q.ent[i]
        /\ \A i \in Live(s.q) : i # s.q.rem =>
             r.q.ent[i] = IF i \in Loading(s.q) THEN Dropped(s.q.ent[i]) ELSE Told(s.q.ent[i])
        /\ \/ Staged(s.q) = {} /\ r.job = s.job
           \/ Staged(s.q) # {} /\ LoadFreed(s.job, r.job, m)
        /\ LET e == Told(Head(s.q))
               c == IF e.st = "CANCEL_PENDING" THEN e ELSE Cancelling(e)
           IN  \/ r.t = s.t /\ Head(r.q) = c
               \/ r.t = CancelRequested(s.t) /\ Head(r.q) = Requested(c, s.t)

LEMMA FailQueueEffect ==
  ASSUME NEW s \in ViewT, NEW m \in Modules, Ring(s.q), OneLoad(s.q),
         s.q.cnt > 0, ~s.q.done, ~s.q.clr, Head(s.q).st \notin JobStates
  PROVE  FailedAll(s, FailQueue(s, m), m)
<1>1. s.q \in QueueT /\ s.t \in TamerT /\ s.job \in JobT /\ s.out \in OutT BY DEF ViewT
<1>2. PICK e : e = Head(s.q) OBVIOUS
<1>3. /\ HeadOf(s.q) = e /\ e \in Entry /\ s.q.rem \in Indices /\ s.q.rem \in Live(s.q)
  BY <1>1, <1>2, Headed
<1>4. PICK hit : hit = {i \in Live(s.q) : ~s.q.ent[i].rep} OBVIOUS
<1>5. \A i \in Indices : s.q.ent[i] \in Entry BY <1>1 DEF QueueT
<1>6. PICK f : f = [i \in Indices |-> [s.q.ent[i] EXCEPT !.rep = s.q.ent[i].rep \/ i \in hit]] OBVIOUS
<1>7. /\ \A i \in Live(s.q) : f[i] = Told(s.q.ent[i])
      /\ \A i \in Indices \ Live(s.q) : f[i] = s.q.ent[i]
  <2>1. ASSUME NEW i \in Live(s.q) PROVE f[i] = Told(s.q.ent[i])
    <3>1. i \in Indices BY <1>1, LiveCells
    <3>2. (s.q.ent[i].rep \/ i \in hit) = TRUE BY <1>4, <1>5, <3>1 DEF Entry
    <3> QED BY <1>6, <3>1, <3>2 DEF Told
  <2>2. ASSUME NEW i \in Indices \ Live(s.q) PROVE f[i] = s.q.ent[i]
    <3>1. s.q.ent[i] = Blank BY DEF Ring
    <3>2. Blank.rep = TRUE BY DEF Blank
    <3>3. (s.q.ent[i].rep \/ i \in hit) = TRUE BY <3>1, <3>2
    <3>4. f[i] = [s.q.ent[i] EXCEPT !.rep = TRUE] BY <1>6, <3>3
    <3>5. [s.q.ent[i] EXCEPT !.rep = TRUE] = s.q.ent[i] BY <1>5, <3>1, <3>2 DEF Entry
    <3> QED BY <3>4, <3>5
  <2> QED BY <2>1, <2>2
<1>8. f \in [Indices -> Entry]
  <2>1. \A i \in Indices : f[i] \in Entry BY <1>1, <1>5, <1>7, CellTypes
  <2> QED BY <1>6, <2>1
<1>9. PICK o : o = [r \in Requests |-> [s.out[r] EXCEPT !.fail =
                      IF \E i \in hit : s.q.ent[i].id = r THEN @ + 1 ELSE @]] OBVIOUS
<1>10. AllRecorded(s.q, s.out, o)
  <2>1. ASSUME NEW x \in Requests
        PROVE  /\ o[x] \in Record
               /\ IF \E i \in Live(s.q) : s.q.ent[i].id = x /\ ~s.q.ent[i].rep
                  THEN o[x].ok = s.out[x].ok /\ o[x].fail = s.out[x].fail + 1
                  ELSE o[x] = s.out[x]
    <3>1. s.out[x] \in Record /\ s.out[x].fail \in Nat BY <1>1 DEF OutT, Record
    <3>2. PICK n \in Nat : n = IF \E i \in hit : s.q.ent[i].id = x THEN s.out[x].fail + 1 ELSE s.out[x].fail
      BY <3>1
    <3>3. o[x] = [s.out[x] EXCEPT !.fail = n] BY <1>9, <3>2
    <3>4. (\E i \in hit : s.q.ent[i].id = x) <=> (\E i \in Live(s.q) : s.q.ent[i].id = x /\ ~s.q.ent[i].rep)
      BY <1>4
    <3> QED BY <3>1, <3>2, <3>3, <3>4 DEF Record
  <2>2. o \in OutT BY <1>9, <2>1 DEF OutT
  <2> QED BY <2>1, <2>2 DEF AllRecorded
<1>11. PICK Q1 : Q1 = [s.q EXCEPT !.ent = f] OBVIOUS
<1>12. Q1 \in QueueT /\ Q1.ent = f /\ SameRing(s.q, Q1) BY <1>1, <1>8, <1>11 DEF QueueT
<1>13. Live(Q1) = Live(s.q) BY <1>12, SameLive
<1>14. PICK s1 : s1 = [s EXCEPT !.q = Q1, !.out = o] OBVIOUS
<1>15. s1 \in ViewT /\ s1.q = Q1 /\ s1.t = s.t /\ s1.job = s.job /\ s1.out = o
  BY <1>10, <1>12, <1>14 DEF ViewT, AllRecorded
<1>a. \A x \in Entry : /\ Told(x) \in Entry /\ Told(x).rep /\ Told(x).st = x.st /\ Told(x).id = x.id
                       /\ Told(x).slot = x.slot /\ Told(x).imm = x.imm /\ Dropped(Told(x)) = Dropped(x)
  BY DEF Told, Dropped, Entry
<1>16. Loading(Q1) = Loading(s.q)
  BY <1>1, <1>5, <1>7, <1>12, <1>13, <1>a, LiveCells DEF Loading
<1>17. Ring(Q1) /\ OneLoad(Q1)
  <2>1. Kept(s.q, Q1)
    BY <1>1, <1>5, <1>7, <1>12, <1>a, LiveCells DEF Kept, Ring
  <2> QED BY <1>1, <1>16, <2>1, KeptRing DEF OneLoad
<1>18. PICK s2 : s2 = CancelStaged(s1, m) OBVIOUS
<1>19. StagedOff(s1, s2, m) /\ s2 \in ViewT BY <1>15, <1>18, CancelStagedEffect
<1>20. s2.q \in QueueT /\ s2.job \in JobT BY <1>19 DEF ViewT
<1>21. /\ SameRing(s.q, s2.q) /\ Head(s2.q) = Told(e) /\ s2.t = s.t /\ s2.out = o
       /\ \A i \in Indices \ Live(s.q) : s2.q.ent[i] = s.q.ent[i]
       /\ \A i \in Live(s.q) : i # s.q.rem =>
            s2.q.ent[i] = IF i \in Loading(s.q) THEN Dropped(s.q.ent[i]) ELSE Told(s.q.ent[i])
       /\ \/ Staged(s.q) = {} /\ s2.job = s.job
          \/ Staged(s.q) # {} /\ LoadFreed(s.job, s2.job, m)
  <2>1. CASE s2 = s1 /\ Loading(Q1) \subseteq {Q1.rem}
    BY <1>2, <1>3, <1>7, <1>12, <1>15, <1>16, <2>1 DEF Staged, Head
  <2>2. ASSUME NEW i \in Loading(Q1) \ {Q1.rem},
               s2.t = s1.t, LoadFreed(s1.job, s2.job, m),
               s2.q = WithCell(Q1, i, Dropped(Q1.ent[i])), s2.out = Recorded(s1.out, Q1.ent[i])
        PROVE  <1>21!1 /\ <1>21!2 /\ <1>21!3 /\ <1>21!4
    <3>1. i \in Staged(s.q) /\ i \in Live(s.q) /\ i # s.q.rem /\ i \in Indices /\ s.q.ent[i] \in Entry
      BY <1>1, <1>5, <1>12, <1>16, LiveCells DEF Staged, Loading
    <3>2. PICK d \in Entry : d = Dropped(s.q.ent[i]) BY <1>1, <3>1, CellTypes
    <3>3. Q1.ent[i] = Told(s.q.ent[i]) BY <1>7, <1>12, <3>1
    <3>4. s2.q = WithCell(Q1, i, d) BY <1>a, <2>2, <3>1, <3>2, <3>3
    <3>5. SameRing(Q1, WithCell(Q1, i, d)) BY <1>12, CellRest
    <3>6. SameRing(s.q, s2.q) BY <1>12, <3>4, <3>5
    <3>7. \A j \in Indices : j # i => s2.q.ent[j] = Q1.ent[j] BY <1>12, <3>4, CellElse
    <3>8. s2.q.ent[i] = d BY <1>12, <3>1, <3>2, <3>4, CellAt
    <3>9. \A j \in Loading(s.q) : j = i BY <1>16 DEF OneLoad
    <3>10. i \in Loading(s.q) BY <1>16
    <3>11. Head(s2.q) = Told(e) BY <1>2, <1>3, <1>7, <1>12, <3>1, <3>6, <3>7 DEF Head
    <3>12. s2.out = o BY <1>15, <1>a, <2>2, <3>1, <3>3 DEF Recorded
    <3>13. \A j \in Indices \ Live(s.q) : s2.q.ent[j] = s.q.ent[j] BY <1>7, <1>12, <3>1, <3>7
    <3>14. \A j \in Live(s.q) : j # s.q.rem =>
             s2.q.ent[j] = IF j \in Loading(s.q) THEN Dropped(s.q.ent[j]) ELSE Told(s.q.ent[j])
      BY <1>1, <1>7, <1>12, <3>2, <3>7, <3>8, <3>9, <3>10, LiveCells
    <3> QED BY <1>15, <2>2, <3>1, <3>6, <3>11, <3>12, <3>13, <3>14
  <2> QED BY <1>15, <1>19, <2>1, <2>2 DEF StagedOff
<1>22. PICK r : r = FailQueue(s, m) OBVIOUS
<1>23. s1 = [s EXCEPT !.q.ent = f, !.out = o] BY <1>11, <1>14
<1>24. CASE e.st \notin Comparing
  <2>1. PICK s3 : s3 = LoadCancel(s2, m) OBVIOUS
  <2>2. r = [s3 EXCEPT !.q = ResetQueue(s2.q)]
    BY <1>2, <1>3, <1>4, <1>6, <1>9, <1>18, <1>22, <1>23, <1>24, <2>1 DEF FailQueue, Comparing
  <2>3. /\ s3 \in ViewT /\ s3.t = s2.t /\ s3.out = s2.out
        /\ s3.job.load = (IF s2.job.load = m THEN None ELSE s2.job.load)
        /\ SameJobs(s2.job, s3.job)
    BY <1>19, <2>1, LoadCancelEffect
  <2>4. PICK Q : Q = ResetQueue(s2.q) OBVIOUS
  <2>5. Emptied(s.q, Q, FALSE) /\ Q \in QueueT BY <1>20, <2>4, ClearedRing DEF Emptied
  <2>6. r \in ViewT /\ r.q = Q /\ r.t = s3.t /\ r.out = s3.out /\ r.job = s3.job
    BY <2>2, <2>3, <2>4, <2>5 DEF ViewT
  <2>7. r.job \in JobT BY <2>6 DEF ViewT
  <2>8. LoadFreed(s.job, s2.job, m) \/ s2.job = s.job BY <1>21
  <2>9. LoadFreed(s.job, r.job, m) BY <2>3, <2>6, <2>7, <2>8, Sizes DEF LoadFreed
  <2> QED BY <1>2, <1>10, <1>21, <1>22, <1>24, <2>3, <2>5, <2>6, <2>9 DEF FailedAll
<1>25. CASE e.st \in Comparing
  <2>1. r = ClearQueue(s2, m).s
    BY <1>2, <1>3, <1>4, <1>6, <1>9, <1>18, <1>22, <1>23, <1>25 DEF FailQueue, Comparing
  <2>2. e.st \notin {"LOAD_FAILED", "LOAD_PENDING", "READY"} /\ Told(e).st = e.st
    BY <1>3, <1>25, <1>a DEF Comparing
  <2>3. Live(s2.q) = Live(s.q) BY <1>21, SameLive
  <2>4. \A x \in Entry : /\ Dropped(x).st = "LOAD_FAILED" /\ Dropped(x).id = x.id
                         /\ Dropped(x).slot = x.slot /\ Dropped(x).imm = x.imm
    BY DEF Dropped, Entry
  <2>5. Loading(s2.q) = {}
    <3>1. SUFFICES ASSUME NEW i \in Live(s.q), s2.q.ent[i].st = "LOAD_PENDING" PROVE FALSE
      BY <2>3 DEF Loading
    <3>2. i \in Indices BY <1>1, LiveCells
    <3>3. i # s.q.rem BY <1>21, <2>2, <3>1 DEF Head
    <3>4. i \notin Loading(s.q) BY <1>5, <1>21, <2>4, <3>1, <3>2, <3>3
    <3>5. s.q.ent[i].st = "LOAD_PENDING" BY <1>5, <1>21, <1>a, <3>1, <3>2, <3>3, <3>4
    <3> QED BY <3>4, <3>5 DEF Loading
  <2>6. Kept(s.q, s2.q)
    <3>1. ASSUME NEW i \in Live(s.q)
          PROVE  /\ s2.q.ent[i].st # "INVALID" /\ s2.q.ent[i].id = s.q.ent[i].id
                 /\ s2.q.ent[i].slot = s.q.ent[i].slot /\ s2.q.ent[i].imm = s.q.ent[i].imm
      <4>1. i \in Indices /\ s.q.ent[i] \in Entry /\ s.q.ent[i].st # "INVALID"
        BY <1>1, <1>5, LiveCells DEF Ring
      <4>2. CASE i = s.q.rem BY <1>2, <1>21, <1>a, <4>1, <4>2 DEF Head
      <4>3. CASE i # s.q.rem BY <1>21, <1>a, <2>4, <4>1, <4>3
      <4> QED BY <4>2, <4>3
    <3> QED BY <1>20, <1>21, <3>1 DEF Kept
  <2>7. Ring(s2.q) BY <1>1, <2>6, KeptRing
  <2>8. OneLoad(s2.q) BY <2>5 DEF OneLoad
  <2>9. ~s2.q.done BY <1>21
  <2>10. Stays(s2, r, m) \/ Gone(s2, r, m)
    BY <1>19, <2>1, <2>7, <2>8, <2>9, ClearQueueEffect DEF WasDone
  <2>11. Stays(s2, r, m) BY <1>21, <2>2, <2>10 DEF Gone
  <2>12. HeadCleared(s2, r) /\ r.job = s2.job /\ r.out = s2.out BY <2>5, <2>11 DEF Stays, Staged
  <2>13. \A i \in Indices : i # s.q.rem => r.q.ent[i] = s2.q.ent[i]
    BY <1>21, <2>5, <2>11 DEF Stays
  <2>14. /\ r \in ViewT /\ r.q.rem = s.q.rem /\ r.q.cnt = s.q.cnt
         /\ r.q.done = s.q.done /\ r.q.defer = s.q.defer /\ r.q.clr
    BY <1>21, <2>11 DEF Stays
  <2>15. LET c == IF Told(e).st = "CANCEL_PENDING" THEN Told(e) ELSE Cancelling(Told(e))
         IN  \/ r.t = s.t /\ Head(r.q) = c
             \/ r.t = CancelRequested(s.t) /\ Head(r.q) = Requested(c, s.t)
    BY <1>2, <1>21, <2>2, <2>12 DEF HeadCleared
  <2>16. /\ \A i \in Indices \ Live(s.q) : r.q.ent[i] = s.q.ent[i]
         /\ \A i \in Live(s.q) : i # s.q.rem =>
              r.q.ent[i] = IF i \in Loading(s.q) THEN Dropped(s.q.ent[i]) ELSE Told(s.q.ent[i])
    BY <1>1, <1>3, <1>21, <2>13, LiveCells
  <2>17. AllRecorded(s.q, s.out, r.out) BY <1>10, <1>21, <2>12
  <2> QED BY <1>2, <1>21, <1>22, <1>25, <2>12, <2>14, <2>15, <2>16, <2>17 DEF FailedAll
<1> QED BY <1>24, <1>25

-----------------------------------------------------------------------------
(* The head leaves the queue.                                              *)

Left(Q, R) ==
  /\ Q.cnt > 0 /\ R \in QueueT /\ Ring(R) /\ R.cnt = Q.cnt - 1
  /\ Live(R) = Live(Q) \ {Q.rem} /\ SameClear(Q, R)
  /\ \A i \in Indices : i # Q.rem => R.ent[i] = Q.ent[i]
  /\ \A k \in 0 .. Q.cnt-2 : Idx(R, k) = Idx(Q, k+1)

\* x is the queue Q with a new head cell.
LEMMA LeftAfter ==
  ASSUME NEW Q \in QueueT, Ring(Q), Q.cnt > 0, NEW e \in Entry, e.st # "INVALID",
         e.id = Head(Q).id, e.slot = Head(Q).slot, e.imm = Head(Q).imm,
         NEW X, X = WithCell(Q, Q.rem, e)
  PROVE  /\ X \in QueueT /\ Kept(Q, X) /\ Ring(X) /\ Live(X) = Live(Q) /\ Head(X) = e
         /\ Left(Q, Dequeue(X)) /\ SameRing(Q, X)
         /\ Emptied(Q, Cleared(X), TRUE)
<1>1. Q.rem \in Live(Q) /\ Q.rem \in Indices BY Headed, LiveCells
<1>a. /\ X \in QueueT /\ X.ent[Q.rem] = e /\ SameRing(Q, X)
      /\ \A j \in Indices : j # Q.rem => X.ent[j] = Q.ent[j]
  BY <1>1, WithCellType, CellAt, CellElse, CellRest
<1>b. \A i \in Live(Q) : Q.ent[i].st # "INVALID" /\ i \in Indices BY LiveCells DEF Ring
<1>2. Kept(Q, X) /\ X.ent[Q.rem] = e /\ \A j \in Indices \ {Q.rem} : X.ent[j] = Q.ent[j]
  BY <1>1, <1>a, <1>b DEF Kept, Head
<1>3. X \in QueueT /\ Ring(X) /\ Live(X) = Live(Q) BY <1>2, KeptRing DEF Kept
<1>4. SameRing(Q, X) BY CellRest
<1>5. Head(X) = e BY <1>2, <1>4 DEF Head
<1>6. PICK R : R = Dequeue(X) OBVIOUS
<1>7. /\ R \in QueueT /\ Ring(R) /\ Live(R) = Live(X) \ {X.rem} /\ R.cnt = X.cnt - 1
      /\ R.ent = [X.ent EXCEPT ![X.rem] = Blank] /\ SameClear(X, R)
      /\ \A k \in 0 .. X.cnt-2 : Idx(R, k) = Idx(X, k+1)
  BY <1>3, <1>4, <1>6, DequeueRing
<1>8. \A k : Idx(X, k) = Idx(Q, k) BY <1>4, SameLive
<1>9. \A i \in Indices : i # Q.rem => R.ent[i] = Q.ent[i]
  BY <1>2, <1>3, <1>4, <1>7 DEF QueueT
<1>10. Left(Q, R) BY <1>3, <1>4, <1>7, <1>8, <1>9 DEF Left
<1>11. Emptied(Q, Cleared(X), TRUE) BY <1>3, ClearedRing DEF Emptied
<1> QED BY <1>2, <1>3, <1>4, <1>5, <1>6, <1>10, <1>11

LEMMA SameCell ==
  ASSUME NEW Q \in QueueT
  PROVE  WithCell(Q, Q.rem, Head(Q)) = Q
<1>1. Q.ent \in [Indices -> Entry] /\ Q.rem \in Indices BY DEF QueueT
<1>2. [Q.ent EXCEPT ![Q.rem] = Q.ent[Q.rem]] = Q.ent BY <1>1
<1> QED BY <1>2 DEF WithCell, Head, QueueT

\* The head's state, and what else of it a step may change.
LEMMA HeadCells ==
  ASSUME NEW e \in Entry
  PROVE  /\ Told(e) \in Entry /\ Told(e).st = e.st /\ Told(e).id = e.id /\ Told(e).slot = e.slot
         /\ Told(e).imm = e.imm /\ Told(e).rep /\ Told(e).res = e.res /\ Told(e).gt = e.gt
         /\ Told(e).cpend = e.cpend
BY DEF Told, Entry

LEMMA FailHeadEffect ==
  ASSUME NEW s \in ViewT, Ring(s.q), s.q.cnt > 0
  PROVE  LET r == FailHead(s, s.q.rem)
         IN  /\ r \in ViewT /\ r.t = s.t /\ r.job = s.job /\ Left(s.q, r.q)
             /\ r.out = Recorded(s.out, Head(s.q))
<1>1. s.q \in QueueT /\ s.q.rem \in Indices /\ Head(s.q) \in Entry BY DEF ViewT, QueueT, Head
<1>2. PICK f : f = Fail(s, s.q.rem) OBVIOUS
<1>3. /\ f \in ViewT /\ f.t = s.t /\ f.job = s.job
      /\ f.q = WithCell(s.q, s.q.rem, Told(Head(s.q))) /\ f.out = Recorded(s.out, Head(s.q))
  BY <1>1, <1>2, FailEffect DEF Head
<1>4. Head(s.q).st # "INVALID" BY <1>1, Headed
<1>5. PICK e : e = Told(Head(s.q)) OBVIOUS
<1>6. e \in Entry /\ e.st # "INVALID" /\ e.id = Head(s.q).id /\ e.slot = Head(s.q).slot /\ e.imm = Head(s.q).imm
  BY <1>1, <1>4, <1>5, HeadCells
<1>7. Left(s.q, Dequeue(f.q)) BY <1>1, <1>3, <1>5, <1>6, LeftAfter
<1>8. PICK R : R = Dequeue(f.q) OBVIOUS
<1>9. R \in QueueT BY <1>7, <1>8 DEF Left
<1>10. FailHead(s, s.q.rem) = [f EXCEPT !.q = R] BY <1>2, <1>8 DEF FailHead
<1> QED BY <1>3, <1>7, <1>8, <1>9, <1>10 DEF ViewT

LEMMA FailNobody ==
  ASSUME NEW s \in ViewT, Ring(s.q), s.q.cnt = 0, NEW i \in Indices
  PROVE  FailHead(s, i) = s
<1>1. s.q \in QueueT BY DEF ViewT
<1>2. s.q.ent[i] = Blank BY <1>1, LiveCells DEF Ring
<1>3. Fail(s, i) = s BY <1>2 DEF Fail, Blank
<1>4. Dequeue(s.q) = s.q BY DEF Dequeue
<1>5. [s EXCEPT !.q = s.q] = s BY DEF ViewT
<1> QED BY <1>3, <1>4, <1>5 DEF FailHead

\* The head's job is over, or its compare disarmed.
Off(Q, R) == IF Q.clr THEN Emptied(Q, R, TRUE) ELSE Left(Q, R)

LEMMA EndedEffect ==
  ASSUME NEW s \in ViewT, Ring(s.q), s.q.cnt > 0, NEW e \in Entry, e.st # "INVALID",
         e.id = Head(s.q).id, e.slot = Head(s.q).slot, e.imm = Head(s.q).imm,
         NEW x \in ViewT, x.q = WithCell(s.q, s.q.rem, e)
  PROVE  LET r == Ended(x)
         IN  r \in ViewT /\ r.t = x.t /\ r.job = x.job /\ r.out = x.out /\ Off(s.q, r.q)
<1>1. s.q \in QueueT BY DEF ViewT
<1>2. Left(s.q, Dequeue(x.q)) /\ SameRing(s.q, x.q) /\ Emptied(s.q, Cleared(x.q), TRUE)
  BY <1>1, LeftAfter
<1>3. PICK R : R = Retired(x.q) OBVIOUS
<1>4. Off(s.q, R) BY <1>2, <1>3 DEF Retired, Off
<1>5. R \in QueueT BY <1>4 DEF Off, Left, Emptied
<1>6. Ended(x) = [x EXCEPT !.q = R] BY <1>3 DEF Ended
<1> QED BY <1>4, <1>5, <1>6 DEF ViewT

-----------------------------------------------------------------------------
(* The inductive invariant: the head and its compare, the call the worker  *)
(* is in, the jobs each direction has under way, and who may run when.     *)

ArmedT(t) == t.fsm \in {"arming", "armed"}

\* The head e and its tamer t; D are the requests whose compare fired.
HeadInv(e, t, D) ==
  /\ ArmedT(t) => e.id = t.cmp /\ e.st \in Comparing /\ ~t.fired
  /\ e.st = "CANCEL_PENDING" /\ e.cpend => ~ArmedT(t)
  /\ e.st \in {"SCHEDULE_PENDING", "SCHEDULED"} /\ t.fired => e.id \in D
  /\ e.st \in JobStates \cup {"READY"} => e.imm \/ e.id \in D

\* A request behind the head has at most its upload under way.
TailInv(Q) ==
  /\ \A i \in Live(Q) : i # Q.rem =>
        Q.ent[i].st \in {"NEW", "LOAD_PENDING", "LOAD_FAILED"} /\ ~Q.ent[i].imm
  /\ Q.done => Q.cnt = 0

\* The worker is in an SPI call for direction m: what the hook may have done.
CallInv(m, Q, t, D, c) ==
  c.m = m =>
    /\ ~ArmedT(t)
    /\ c.at = "new" => /\ Q.cnt > 0 /\ c.i = Q.rem /\ ~Head(Q).res
                       /\ Head(Q).st \in {"NEW", "CANCEL_PENDING"}
    /\ c.at = "ready" =>
         \/ /\ c.i = Q.rem /\ Head(Q).st \in {"READY", "CANCEL_PENDING"}
            /\ Head(Q).imm \/ Head(Q).id \in D
         \/ Q.cnt = 0 /\ c.hook

\* The uploads of direction m, of which there is one at a time.
LoadInv(m, Q, j) ==
  /\ OneLoad(Q)
  /\ Loading(Q) # {} => j.load = m
  /\ m = "TX" => \A i \in Indices : ~Q.ent[i].gt

\* The head e of direction m has the job its state says, and no other; f is
\* the fault, c whether the queue is being cleared.
HeadJob(m, e, j, f, c) ==
  /\ (m = "RX" /\ j.gt) <=> e.st = "GAIN_TABLE_PENDING"
  /\ (m = "TX" /\ j.txq) <=> e.st = "TXQ_PENDING"
  /\ e.st = "PLL_PENDING" => j.recall = m /\ ~f
  /\ e.st \in JobStates /\ f => c

\* Nothing a fault would have to fail.
Quiet(Q) == Q.cnt = 0 \/ Q.clr

OneJob(j) ==
  /\ j.load # None => j.recall = None /\ ~j.txq
  /\ j.recall # None => ~j.txq

\* The main loop: which jobs there can be where the worker pass is.
PassInv(j, f, tn, c) ==
  /\ OneJob(j)
  /\ tn # "idle" => ~Owned(j)
  /\ c.at = "ready" => ~Owned(j) /\ ~f
  /\ c.at = "new" => j.load = None /\ ~j.txq /\ (c.ret # "end" => j.recall = None)
  /\ j.txq => ~f

\* A CLEAR is deferred only while the host waits for it and a job owns the
\* RFIC.
DeferInv(m, Q, j, tn, c, h) ==
  Q.defer => /\ h.at = "clear" /\ h.m = m
             /\ Owned(j) /\ tn = "idle" /\ c.at # "ready"

DirInv(m) ==
  /\ TailInv(q[m]) /\ HeadInv(Head(q[m]), tamer[m], due)
  /\ CallInv(m, q[m], tamer[m], due, call)
  /\ LoadInv(m, q[m], job) /\ HeadJob(m, Head(q[m]), job, fault, q[m].clr)
  /\ DeferInv(m, q[m], job, turn, call, host)

QuietInv == fault /\ (turn # "idle" \/ call # NoCall) => \A m \in Modules : Quiet(q[m])

IInv ==
  /\ Types
  /\ \A m \in Modules : DirInv(m)
  /\ PassInv(job, fault, turn, call) /\ QuietInv

-----------------------------------------------------------------------------
(* The steps of perform_work() on the head of one direction.               *)

St(e, x)        == [e EXCEPT !.st = x]
Published(o, e) == [o EXCEPT ![e.id].ok = @ + 1]

Edited(s, r, e) ==
  /\ s.q.cnt > 0 /\ r \in ViewT /\ e \in Entry /\ e.st # "INVALID"
  /\ e.id = Head(s.q).id /\ e.slot = Head(s.q).slot /\ e.imm = Head(s.q).imm
  /\ r.q = WithCell(s.q, s.q.rem, e)

\* An empty queue, and the cancel of its CLEAR.
Sweeps(s, r) ==
  /\ s.q.cnt = 0 /\ r \in ViewT /\ r.q.cnt = 0
  /\ r.q.ent = s.q.ent /\ r.q.rem = s.q.rem /\ r.q.defer = s.q.defer
  /\ r.job = s.job /\ r.out = s.out
  /\ r.t = s.t \/ r.t = CancelRequested(s.t)

\* The recall of a request that a CLEAR took from under the call.
Orphans(m, s, r) ==
  /\ s.q.cnt = 0 /\ r \in ViewT /\ r.q = s.q /\ r.t = s.t /\ r.out = s.out
  /\ r.job = [s.job EXCEPT !.recall = m]

Leaves(s, r) ==
  /\ r \in ViewT /\ Left(s.q, r.q) /\ r.t = s.t /\ r.job = s.job /\ ~ArmedT(s.t)
  /\ \/ /\ Head(s.q).st \in {"NEW", "READY", "CANCEL_PENDING"}
        /\ r.out = Recorded(s.out, Head(s.q))
     \/ Head(s.q).st = "LOAD_FAILED" /\ r.out = s.out

Disarms(s, r) ==
  /\ r \in ViewT /\ s.q.cnt > 0 /\ Off(s.q, r.q)
  /\ r.t = s.t /\ r.job = s.job /\ r.out = s.out
  /\ Head(s.q).st = "CANCEL_PENDING" /\ Head(s.q).cpend

JobOver(s, r) ==
  /\ r \in ViewT /\ s.q.cnt > 0 /\ Off(s.q, r.q) /\ r.t = s.t
  /\ r.out = Recorded(s.out, Head(s.q)) \/ r.out = Published(s.out, Head(s.q))
  /\ \/ Head(s.q).st = "GAIN_TABLE_PENDING" /\ r.job = [s.job EXCEPT !.gt = FALSE]
     \/ Head(s.q).st = "PLL_PENDING" /\ r.job = [s.job EXCEPT !.recall = None]
     \/ Head(s.q).st = "TXQ_PENDING" /\ r.job = [s.job EXCEPT !.txq = FALSE]

Arms(s, r) ==
  /\ Head(s.q).st = "NEW" /\ Head(s.q).res /\ ~Owned(s.job)
  /\ Edited(s, r, St(Head(s.q), "SCHEDULE_PENDING"))
  /\ r.t = Armed(s.t, Head(s.q).id) /\ r.job = s.job /\ r.out = s.out

\* The compare is refused, or its clock stops: it has to be cancelled.
GivesUp(s, r) ==
  /\ Head(s.q).st \in {"NEW", "SCHEDULE_PENDING", "SCHEDULED"}
  /\ Head(s.q).st = "NEW" => Head(s.q).res
  /\ Edited(s, r, Cancelling(Told(Head(s.q))))
  /\ r.t = s.t /\ r.job = s.job /\ r.out = Recorded(s.out, Head(s.q))

Uploads(m, s, r) ==
  /\ Head(s.q).st \in {"NEW", "CANCEL_PENDING"} /\ ~Head(s.q).res
  /\ ~Owned(s.job) /\ ~ArmedT(s.t)
  /\ Edited(s, r, St(Head(s.q), "LOAD_PENDING"))
  /\ r.t = s.t /\ r.job = [s.job EXCEPT !.load = m] /\ r.out = s.out

Acknowledges(s, r) ==
  /\ Head(s.q).st = "SCHEDULE_PENDING"
  /\ Edited(s, r, St(Head(s.q), "SCHEDULED"))
  /\ r.t = s.t /\ r.job = s.job /\ r.out = s.out

Releases(s, r) ==
  /\ Head(s.q).st \in {"SCHEDULE_PENDING", "SCHEDULED"} /\ s.t.fired
  /\ Edited(s, r, St(Head(s.q), "READY"))
  /\ r.t = s.t /\ r.job = s.job /\ r.out = s.out

Cancels(s, r) ==
  /\ Head(s.q).st = "CANCEL_PENDING" /\ r.job = s.job /\ r.out = s.out
  /\ \/ \E b \in BOOLEAN :
          /\ Edited(s, r, [Head(s.q) EXCEPT !.cseen = b, !.cpend = FALSE])
          /\ r.t = s.t
     \/ Edited(s, r, Requested(Head(s.q), s.t)) /\ r.t = CancelRequested(s.t)

LoadsGains(s, r) ==
  /\ Head(s.q).st = "READY" /\ Head(s.q).gt
  /\ Edited(s, r, St(Head(s.q), "GAIN_TABLE_PENDING"))
  /\ r.t = s.t /\ r.job = [s.job EXCEPT !.gt = TRUE] /\ r.out = s.out

GainsLoaded(s, r) ==
  /\ Head(s.q).st = "GAIN_TABLE_PENDING" /\ ~s.q.clr
  /\ Edited(s, r, [Head(s.q) EXCEPT !.gt = FALSE, !.st = "READY"])
  /\ r.t = s.t /\ r.job = [s.job EXCEPT !.gt = FALSE] /\ r.out = s.out

Recalls(m, s, r) ==
  /\ Head(s.q).st \in {"READY", "CANCEL_PENDING"} /\ ~ArmedT(s.t)
  /\ Edited(s, r, St(Head(s.q), "PLL_PENDING"))
  /\ r.t = s.t /\ r.job = [s.job EXCEPT !.recall = m] /\ r.out = s.out

Calibrates(m, s, r) ==
  /\ Head(s.q).st = "PLL_PENDING" /\ m = "TX"
  /\ Edited(s, r, St(Head(s.q), "TXQ_PENDING"))
  /\ r.t = s.t /\ r.job = [s.job EXCEPT !.recall = None, !.txq = TRUE] /\ r.out = s.out

\* What perform_work() does outside a call, and when a call returns.
Performs(s, r) ==
  \/ r = s
  \/ Sweeps(s, r) \/ Disarms(s, r) \/ JobOver(s, r)
  \/ Leaves(s, r) /\ Head(s.q).st # "CANCEL_PENDING"
  \/ Arms(s, r) \/ GivesUp(s, r) \/ Acknowledges(s, r) \/ Releases(s, r)
  \/ Cancels(s, r) \/ LoadsGains(s, r) \/ GainsLoaded(s, r)

LEMMA EditedRing ==
  ASSUME NEW s \in ViewT, Ring(s.q), NEW r, NEW e, Edited(s, r, e)
  PROVE  /\ r.q \in QueueT /\ Kept(s.q, r.q) /\ Ring(r.q) /\ Live(r.q) = Live(s.q)
         /\ Head(r.q) = e /\ SameRing(s.q, r.q)
         /\ \A i \in Indices : i # s.q.rem => r.q.ent[i] = s.q.ent[i]
<1>1. s.q \in QueueT BY DEF ViewT
<1>2. /\ s.q.cnt > 0 /\ e \in Entry /\ e.st # "INVALID"
      /\ e.id = Head(s.q).id /\ e.slot = Head(s.q).slot /\ e.imm = Head(s.q).imm
      /\ r.q = WithCell(s.q, s.q.rem, e)
  BY DEF Edited
<1>3. /\ r.q \in QueueT /\ Kept(s.q, r.q) /\ Ring(r.q) /\ Live(r.q) = Live(s.q) /\ Head(r.q) = e
      /\ SameRing(s.q, r.q)
  BY <1>1, <1>2, LeftAfter
<1>4. \A i \in Indices : i # s.q.rem => r.q.ent[i] = s.q.ent[i] BY <1>1, <1>2, CellElse
<1> QED BY <1>3, <1>4

LEMMA ViewTypes ==
  ASSUME NEW m \in Modules, Types
  PROVE  /\ View(m) \in ViewT /\ View(m).q = q[m] /\ View(m).t = tamer[m]
         /\ View(m).job = job /\ View(m).out = out /\ Ring(q[m]) /\ q[m] \in QueueT
         /\ tamer[m] \in TamerT
BY DEF Types, View, ViewT

\* Only the head's state is written.
LEMMA StCells ==
  ASSUME NEW e \in Entry, NEW x \in EntryStates
  PROVE  /\ St(e, x) \in Entry /\ St(e, x).st = x /\ St(e, x).id = e.id /\ St(e, x).slot = e.slot
         /\ St(e, x).imm = e.imm /\ St(e, x).rep = e.rep /\ St(e, x).res = e.res
         /\ St(e, x).gt = e.gt /\ St(e, x).cpend = e.cpend
BY DEF St, Entry

LEMMA StEffect ==
  ASSUME NEW s \in ViewT, Ring(s.q), s.q.cnt > 0, NEW x \in EntryStates \ {"INVALID"},
         NEW r, r = [s EXCEPT !.q.ent[s.q.rem].st = x]
  PROVE  /\ Edited(s, r, St(Head(s.q), x)) /\ r.t = s.t /\ r.job = s.job /\ r.out = s.out
<1>1. s.q \in QueueT /\ s.q.rem \in Indices /\ Head(s.q) \in Entry BY DEF ViewT, QueueT, Head
<1>2. PICK e \in Entry : e = St(Head(s.q), x) BY <1>1, StCells
<1>3. PICK R \in QueueT : R = WithCell(s.q, s.q.rem, e) BY <1>1, WithCellType
<1>a. r = [s EXCEPT !.q = R] BY <1>2, <1>3 DEF St, Head, WithCell
<1>4. r \in ViewT /\ r.q = R /\ r.t = s.t /\ r.job = s.job /\ r.out = s.out
  BY <1>a DEF ViewT
<1>5. e.st # "INVALID" /\ e.id = Head(s.q).id /\ e.slot = Head(s.q).slot /\ e.imm = Head(s.q).imm
  BY <1>1, <1>2, StCells
<1> QED BY <1>2, <1>3, <1>4, <1>5 DEF Edited

\* The view after another job or another tamer.
LEMMA ViewWith ==
  ASSUME NEW s \in ViewT, NEW t \in TamerT, NEW j \in JobT
  PROVE  /\ [s EXCEPT !.t = t] \in ViewT /\ [s EXCEPT !.t = t].q = s.q /\ [s EXCEPT !.t = t].t = t
         /\ [s EXCEPT !.t = t].job = s.job /\ [s EXCEPT !.t = t].out = s.out
         /\ [s EXCEPT !.job = j] \in ViewT /\ [s EXCEPT !.job = j].q = s.q
         /\ [s EXCEPT !.job = j].t = s.t /\ [s EXCEPT !.job = j].job = j
         /\ [s EXCEPT !.job = j].out = s.out
BY DEF ViewT

LEMMA JobFields ==
  ASSUME NEW j \in JobT, NEW x \in Some, NEW b \in BOOLEAN
  PROVE  /\ [j EXCEPT !.load = x] \in JobT /\ [j EXCEPT !.recall = x] \in JobT
         /\ [j EXCEPT !.gt = b] \in JobT /\ [j EXCEPT !.txq = b] \in JobT
         /\ [j EXCEPT !.recall = x, !.txq = b] \in JobT
BY DEF JobT

LEMMA ArmedType ==
  ASSUME NEW t \in TamerT, NEW id \in Requests
  PROVE  /\ Armed(t, id) \in TamerT /\ ~Armed(t, id).fired
         /\ t.fsm = "idle" => Armed(t, id).fsm = "arming" /\ Armed(t, id).cmp = id
         /\ t.fsm # "idle" => Armed(t, id).fsm = t.fsm /\ Armed(t, id).cmp = t.cmp
<1>1. id \in 0 .. MaxRequests BY Sizes DEF Requests
<1>2. PICK f \in {"idle", "arming", "armed", "cancel"} : f = IF t.fsm = "idle" THEN "arming" ELSE t.fsm
  BY DEF TamerT
<1>3. PICK c \in 0 .. MaxRequests : c = IF t.fsm = "idle" THEN id ELSE t.cmp BY <1>1 DEF TamerT
<1>4. Armed(t, id) = [t EXCEPT !.sack = FALSE, !.fired = FALSE, !.sfail = FALSE, !.swait = TRUE,
                               !.stalled = FALSE, !.fsm = f, !.cmp = c]
  BY <1>2, <1>3 DEF Armed
<1>5. PICK a : a = Armed(t, id) OBVIOUS
<1>6. a \in TamerT BY <1>4, <1>5 DEF TamerT
<1>7. a.fsm = f /\ a.cmp = c /\ ~a.fired BY <1>4, <1>5 DEF TamerT
<1> QED BY <1>2, <1>3, <1>5, <1>6, <1>7

LEMMA WorkEmptyEffect ==
  ASSUME NEW m \in Modules, NEW ret, IInv, WorkEmpty(m, ret)
  PROVE  \E r : Step(m, ret, r) /\ Performs(View(m), r) /\ UNCHANGED <<sel, call>>
<1>1. PICK s : s = View(m) OBVIOUS
<1>2. s \in ViewT /\ Ring(s.q) /\ s.q \in QueueT /\ s.q.cnt = 0
  BY <1>1, ViewTypes DEF IInv, WorkEmpty
<1>3. PICK s1 : s1 = [s EXCEPT !.q.cpend = FALSE, !.q.cseen = FALSE] OBVIOUS
<1>4. PICK s2 : s2 = [s EXCEPT !.q.cpend = FALSE, !.q.clr = FALSE, !.q.done = TRUE] OBVIOUS
<1>5. PICK s3 : s3 = [s EXCEPT !.q.cpend = FALSE, !.q.cseen = TRUE] OBVIOUS
<1>6. PICK s4 : s4 = RequestClearCancel(s) OBVIOUS
<1>7. Sweeps(s, s1)
  <2>1. PICK Q : Q = [s.q EXCEPT !.cpend = FALSE, !.cseen = FALSE] OBVIOUS
  <2>2. Q \in QueueT /\ Q.ent = s.q.ent /\ SameRing(s.q, Q) BY <1>2, <2>1 DEF QueueT
  <2>3. s1 = [s EXCEPT !.q = Q] BY <1>3, <2>1
  <2> QED BY <1>2, <2>2, <2>3 DEF Sweeps, ViewT
<1>8. Sweeps(s, s2)
  <2>1. PICK Q : Q = [s.q EXCEPT !.cpend = FALSE, !.clr = FALSE, !.done = TRUE] OBVIOUS
  <2>2. Q \in QueueT /\ Q.ent = s.q.ent /\ Q.cnt = s.q.cnt /\ Q.rem = s.q.rem /\ Q.defer = s.q.defer
    BY <1>2, <2>1 DEF QueueT
  <2>3. s2 = [s EXCEPT !.q = Q] BY <1>4, <2>1
  <2> QED BY <1>2, <2>2, <2>3 DEF Sweeps, ViewT
<1>9. Sweeps(s, s3)
  <2>1. PICK Q : Q = [s.q EXCEPT !.cpend = FALSE, !.cseen = TRUE] OBVIOUS
  <2>2. Q \in QueueT /\ Q.ent = s.q.ent /\ SameRing(s.q, Q) BY <1>2, <2>1 DEF QueueT
  <2>3. s3 = [s EXCEPT !.q = Q] BY <1>5, <2>1
  <2> QED BY <1>2, <2>2, <2>3 DEF Sweeps, ViewT
<1>10. Sweeps(s, s4) BY <1>2, <1>6, RequestClearCancelEffect DEF Sweeps
<1>11. \E r \in {s, s1, s2, s3, s4} : Step(m, ret, r)
  BY <1>1, <1>3, <1>4, <1>5, <1>6 DEF WorkEmpty
<1>12. UNCHANGED <<sel, call>> BY DEF WorkEmpty
<1> QED BY <1>1, <1>7, <1>8, <1>9, <1>10, <1>11, <1>12 DEF Performs

LEMMA FailHeadLeaves ==
  ASSUME NEW s \in ViewT, Ring(s.q), Head(s.q).st \in {"NEW", "READY", "CANCEL_PENDING"}, ~ArmedT(s.t)
  PROVE  Leaves(s, FailHead(s, s.q.rem))
<1>1. s.q.cnt > 0 BY Headed DEF ViewT
<1> QED BY <1>1, FailHeadEffect DEF Leaves

\* The head gives its compare up.
LEMMA GivesUpEffect ==
  ASSUME NEW s \in ViewT, Ring(s.q), Head(s.q).st \in {"NEW", "SCHEDULE_PENDING", "SCHEDULED"},
         Head(s.q).st = "NEW" => Head(s.q).res
  PROVE  GivesUp(s, ToCancel(Fail(s, s.q.rem), s.q.rem))
<1>1. /\ s.q \in QueueT /\ s.t \in TamerT /\ s.q.rem \in Indices /\ Head(s.q) \in Entry /\ s.q.cnt > 0
  BY Headed DEF ViewT
<1>2. PICK i : i = s.q.rem OBVIOUS
<1>3. PICK f : f = Fail(s, i) OBVIOUS
<1>4. /\ f \in ViewT /\ f.t = s.t /\ f.job = s.job
      /\ f.q = WithCell(s.q, i, Told(Head(s.q))) /\ f.out = Recorded(s.out, Head(s.q))
  BY <1>1, <1>2, <1>3, FailEffect DEF Head
<1>5. PICK d \in Entry : d = Told(Head(s.q)) BY <1>1, CellTypes
<1>6. f.q.ent[i] = d BY <1>1, <1>2, <1>4, <1>5, CellAt
<1>7. PICK r : r = ToCancel(f, i) OBVIOUS
<1>8. /\ r \in ViewT /\ r.t = f.t /\ r.job = f.job /\ r.out = f.out
      /\ r.q = WithCell(f.q, i, Cancelling(f.q.ent[i]))
  BY <1>1, <1>2, <1>4, <1>7, ToCancelEffect
<1>9. PICK e \in Entry : e = Cancelling(d) BY <1>1, <1>5, CellTypes
<1>10. r.q = WithCell(s.q, i, e) BY <1>1, <1>2, <1>4, <1>5, <1>6, <1>8, <1>9, WithCellTwice
<1>11. /\ e.st # "INVALID" /\ e.id = Head(s.q).id /\ e.slot = Head(s.q).slot /\ e.imm = Head(s.q).imm
  BY <1>1, <1>5, <1>9 DEF Told, Cancelling, Entry
<1>12. Edited(s, r, e) BY <1>1, <1>2, <1>8, <1>9, <1>10, <1>11 DEF Edited
<1> QED BY <1>2, <1>3, <1>4, <1>5, <1>7, <1>8, <1>9, <1>12 DEF GivesUp

LEMMA LoadOrArmEffect ==
  ASSUME NEW m \in Modules, NEW ret, NEW s \in ViewT, Ring(s.q), ~ArmedT(s.t),
         Head(s.q).st \in {"NEW", "CANCEL_PENDING"},
         Head(s.q).st = "CANCEL_PENDING" => ~Head(s.q).res,
         LoadOrArm(m, ret, s, s.q.rem)
  PROVE  \E r : /\ Step(m, ret, r)
                /\ \/ Leaves(s, r) \/ Uploads(m, s, r)
                   \/ Head(s.q).res /\ (Arms(s, r) \/ GivesUp(s, r))
<1>1. s.q \in QueueT /\ s.t \in TamerT /\ s.job \in JobT BY DEF ViewT
<1>2. PICK i : i = s.q.rem OBVIOUS
<1>3. PICK e : e = Head(s.q) OBVIOUS
<1>4. /\ i \in Indices /\ e \in Entry /\ s.q.cnt > 0 /\ e.id \in Requests /\ s.q.ent[i] = e
  BY <1>1, <1>2, <1>3, Headed DEF Head
<1>5. Leaves(s, FailHead(s, i)) BY <1>2, FailHeadLeaves
<1>6. CASE Step(m, ret, FailHead(s, i)) BY <1>5, <1>6
<1>7. CASE ~Owned(s.job) /\ e.res /\ ~s.t.held /\ s.t.stalled /\ Step(m, ret, ToCancel(Fail(s, i), i))
  <2>1. GivesUp(s, ToCancel(Fail(s, i), i)) BY <1>2, <1>3, <1>7, GivesUpEffect
  <2> QED BY <1>3, <1>7, <2>1
<1>8. ASSUME ~Owned(s.job), e.res, NEW r,
             r = [s EXCEPT !.q.ent[i].st = "SCHEDULE_PENDING", !.t = Armed(s.t, s.q.ent[i].id)]
      PROVE  Arms(s, r)
  <2>1. PICK x : x = [s EXCEPT !.q.ent[s.q.rem].st = "SCHEDULE_PENDING"] OBVIOUS
  <2>2. /\ Edited(s, x, St(e, "SCHEDULE_PENDING")) /\ x.t = s.t /\ x.job = s.job /\ x.out = s.out
    BY <1>3, <1>4, <2>1, StEffect DEF EntryStates
  <2>3. PICK t \in TamerT : t = Armed(s.t, e.id) BY <1>1, <1>4, ArmedType
  <2>4. r = [x EXCEPT !.t = t] BY <1>2, <1>4, <1>8, <2>1, <2>3
  <2>5. x \in ViewT BY <2>2 DEF Edited
  <2>6. r \in ViewT /\ r.q = x.q /\ r.t = t /\ r.job = x.job /\ r.out = x.out
    BY <1>1, <2>4, <2>5, ViewWith
  <2>7. Edited(s, r, St(e, "SCHEDULE_PENDING")) BY <2>2, <2>6 DEF Edited
  <2> QED BY <1>3, <1>8, <2>2, <2>3, <2>6, <2>7 DEF Arms
<1>9. ASSUME ~Owned(s.job), ~e.res, NEW r,
             r = [s EXCEPT !.q.ent[i].st = "LOAD_PENDING", !.job.load = m]
      PROVE  Uploads(m, s, r)
  <2>1. PICK x : x = [s EXCEPT !.q.ent[s.q.rem].st = "LOAD_PENDING"] OBVIOUS
  <2>2. /\ Edited(s, x, St(e, "LOAD_PENDING")) /\ x.t = s.t /\ x.job = s.job /\ x.out = s.out
    BY <1>3, <1>4, <2>1, StEffect DEF EntryStates
  <2>3. PICK j \in JobT : j = [s.job EXCEPT !.load = m] BY <1>1, JobFields DEF Some
  <2>4. r = [x EXCEPT !.job = j] BY <1>2, <1>9, <2>1, <2>2, <2>3
  <2>5. x \in ViewT BY <2>2 DEF Edited
  <2>6. r \in ViewT /\ r.q = x.q /\ r.t = x.t /\ r.job = j /\ r.out = x.out
    BY <1>1, <2>4, <2>5, ViewWith
  <2>7. Edited(s, r, St(e, "LOAD_PENDING")) BY <2>2, <2>6 DEF Edited
  <2> QED BY <1>3, <1>9, <2>2, <2>3, <2>6, <2>7 DEF Uploads
<1>10. \/ Step(m, ret, FailHead(s, i))
       \/ ~Owned(s.job) /\ e.res /\ ~s.t.held /\ s.t.stalled /\ Step(m, ret, ToCancel(Fail(s, i), i))
       \/ /\ ~Owned(s.job) /\ e.res
          /\ Step(m, ret, [s EXCEPT !.q.ent[i].st = "SCHEDULE_PENDING", !.t = Armed(s.t, s.q.ent[i].id)])
       \/ /\ ~Owned(s.job) /\ ~e.res
          /\ Step(m, ret, [s EXCEPT !.q.ent[i].st = "LOAD_PENDING", !.job.load = m])
  BY <1>2, <1>4 DEF LoadOrArm, Arm
<1> QED BY <1>3, <1>6, <1>7, <1>8, <1>9, <1>10

LEMMA WorkNewEffect ==
  ASSUME NEW m \in Modules, NEW ret, IInv, WorkNew(m, ret)
  PROVE  \/ InCall("new", m, ret) /\ UNCHANGED sel /\ Head(q[m]).st = "NEW" /\ MustAsk(m, Head(q[m]))
         \/ \E r : Step(m, ret, r) /\ UNCHANGED <<sel, call>>
                   /\ \/ Performs(View(m), r)
                      \/ /\ Uploads(m, View(m), r) /\ Head(q[m]).st # "CANCEL_PENDING"
                         /\ ~MustAsk(m, Head(q[m]))
<1>1. PICK s : s = View(m) OBVIOUS
<1>2. s \in ViewT /\ Ring(s.q) /\ s.q = q[m] /\ s.t = tamer[m] /\ s.q \in QueueT
  BY <1>1, ViewTypes DEF IInv
<1>3. Head(s.q).st = "NEW" BY <1>2, Headed DEF WorkNew
<1>4. ~ArmedT(s.t) BY <1>2, <1>3 DEF IInv, DirInv, HeadInv, Comparing
<1>5. CASE MustAsk(m, Head(q[m])) BY <1>2, <1>3, <1>5 DEF WorkNew, Head
<1>6. CASE ~MustAsk(m, Head(q[m]))
  <2>1. LoadOrArm(m, ret, s, s.q.rem) /\ UNCHANGED <<sel, call>>
    BY <1>1, <1>2, <1>6 DEF WorkNew, Head
  <2>2. PICK r : /\ Step(m, ret, r)
                 /\ \/ Leaves(s, r) \/ Uploads(m, s, r)
                    \/ Head(s.q).res /\ (Arms(s, r) \/ GivesUp(s, r))
    BY <1>2, <1>3, <1>4, <2>1, LoadOrArmEffect
  <2>3. Head(s.q).st # "CANCEL_PENDING" /\ s.q = q[m] BY <1>2, <1>3
  <2> QED BY <1>1, <1>6, <2>1, <2>2, <2>3 DEF Performs
<1> QED BY <1>5, <1>6

LEMMA NewAnsweredEffect ==
  ASSUME IInv, NewAnswered
  PROVE  /\ call.m \in Modules /\ call # NoCall /\ call' = NoCall
         /\ \E r : /\ Step(call.m, call.ret, r)
                   /\ \/ Leaves(View(call.m), r)
                      \/ Uploads(call.m, View(call.m), r) /\ sel'[call.m] # sel[call.m]
         /\ sel' \in [Modules -> Slots \cup {None}]
         /\ \A n \in Modules : n # call.m => sel'[n] = sel[n]
<1>1. call.at = "new" BY DEF NewAnswered
<1>2. call # NoCall BY <1>1 DEF NoCall, None
<1>3. PICK m \in Modules : m = call.m BY <1>2 DEF IInv, Types
<1>4. PICK s : s = View(m) OBVIOUS
<1>5. s \in ViewT /\ Ring(s.q) /\ s.q = q[m] /\ s.t = tamer[m] /\ s.q \in QueueT
  BY <1>4, ViewTypes DEF IInv
<1>6. /\ ~ArmedT(s.t) /\ call.i = s.q.rem /\ ~Head(s.q).res /\ Head(s.q).st \in {"NEW", "CANCEL_PENDING"}
  BY <1>1, <1>3, <1>5 DEF IInv, DirInv, CallInv
<1>7. Leaves(s, FailHead(s, s.q.rem)) BY <1>5, <1>6, FailHeadLeaves
<1>8. call' = NoCall BY DEF NewAnswered
<1>9. sel \in [Modules -> Slots \cup {None}] BY DEF IInv, Types
<1>10. CASE Step(m, call.ret, FailHead(s, s.q.rem)) /\ UNCHANGED sel
  BY <1>2, <1>3, <1>4, <1>7, <1>8, <1>9, <1>10
<1>11. CASE LoadOrArm(m, call.ret, s, s.q.rem) /\ \E x \in (Slots \cup {None}) \ {sel[m]} : sel' = [sel EXCEPT ![m] = x]
  <2>1. PICK r : /\ Step(m, call.ret, r)
                 /\ \/ Leaves(s, r) \/ Uploads(m, s, r)
                    \/ Head(s.q).res /\ (Arms(s, r) \/ GivesUp(s, r))
    BY <1>5, <1>6, <1>11, LoadOrArmEffect
  <2>2. /\ sel' \in [Modules -> Slots \cup {None}] /\ sel'[m] # sel[m]
        /\ \A n \in Modules : n # m => sel'[n] = sel[n]
    BY <1>9, <1>11
  <2> QED BY <1>2, <1>3, <1>4, <1>6, <1>8, <2>1, <2>2
<1> QED BY <1>3, <1>4, <1>6, <1>10, <1>11 DEF NewAnswered

LEMMA WorkLoadFailedEffect ==
  ASSUME NEW m \in Modules, NEW ret, IInv, WorkLoadFailed(m, ret)
  PROVE  \E r : Step(m, ret, r) /\ UNCHANGED <<sel, call>> /\ Performs(View(m), r)
<1>1. PICK s : s = View(m) OBVIOUS
<1>2. s \in ViewT /\ Ring(s.q) /\ s.q = q[m] /\ s.t = tamer[m] /\ s.q \in QueueT
  BY <1>1, ViewTypes DEF IInv
<1>3. Head(s.q).st = "LOAD_FAILED" /\ s.q.cnt > 0 BY <1>2, Headed DEF WorkLoadFailed
<1>4. ~ArmedT(s.t) BY <1>2, <1>3 DEF IInv, DirInv, HeadInv, Comparing
<1>5. PICK e : e = Head(s.q) OBVIOUS
<1>6. e \in Entry /\ WithCell(s.q, s.q.rem, e) = s.q BY <1>2, <1>5, Headed, SameCell
<1>7. Left(s.q, Dequeue(s.q)) BY <1>2, <1>3, <1>5, <1>6, LeftAfter
<1>8. PICK R : R = Dequeue(s.q) OBVIOUS
<1>9. R \in QueueT BY <1>7, <1>8 DEF Left
<1>10. PICK r : r = [s EXCEPT !.q = R] OBVIOUS
<1>11. r \in ViewT /\ r.q = R /\ r.t = s.t /\ r.job = s.job /\ r.out = s.out BY <1>2, <1>9, <1>10 DEF ViewT
<1>12. Leaves(s, r) BY <1>3, <1>4, <1>7, <1>8, <1>11 DEF Leaves
<1>13. Step(m, ret, r) /\ UNCHANGED <<sel, call>> BY <1>1, <1>2, <1>8, <1>10 DEF WorkLoadFailed
<1>14. Head(s.q).st # "CANCEL_PENDING" BY <1>3
<1> QED BY <1>1, <1>12, <1>13, <1>14 DEF Performs

LEMMA WorkSchedulePendingEffect ==
  ASSUME NEW m \in Modules, NEW ret, IInv, WorkSchedulePending(m, ret)
  PROVE  \E r : Step(m, ret, r) /\ UNCHANGED <<sel, call>> /\ Performs(View(m), r)
<1>1. PICK s : s = View(m) OBVIOUS
<1>2. s \in ViewT /\ Ring(s.q) /\ s.q = q[m] /\ s.t = tamer[m] /\ s.q \in QueueT
  BY <1>1, ViewTypes DEF IInv
<1>3. Head(s.q).st = "SCHEDULE_PENDING" /\ s.q.cnt > 0 BY <1>1, <1>2, Headed DEF WorkSchedulePending
<1>4. PICK i : i = s.q.rem OBVIOUS
<1>5. PICK s1 : s1 = ToCancel(Fail(s, i), i) OBVIOUS
<1>6. PICK s2 : s2 = [s EXCEPT !.q.ent[i].st = "READY"] OBVIOUS
<1>7. PICK s3 : s3 = [s EXCEPT !.q.ent[i].st = "SCHEDULED"] OBVIOUS
<1>8. GivesUp(s, s1) BY <1>2, <1>3, <1>4, <1>5, GivesUpEffect
<1>9. Edited(s, s2, St(Head(s.q), "READY")) /\ s2.t = s.t /\ s2.job = s.job /\ s2.out = s.out
  BY <1>2, <1>3, <1>4, <1>6, StEffect DEF EntryStates
<1>10. Edited(s, s3, St(Head(s.q), "SCHEDULED")) /\ s3.t = s.t /\ s3.job = s.job /\ s3.out = s.out
  BY <1>2, <1>3, <1>4, <1>7, StEffect DEF EntryStates
<1>11. s.t.fired => Releases(s, s2) BY <1>3, <1>9 DEF Releases
<1>12. Acknowledges(s, s3) BY <1>3, <1>10 DEF Acknowledges
<1>13. UNCHANGED <<sel, call>> BY DEF WorkSchedulePending
<1>14. Step(m, ret, s) \/ Step(m, ret, s1) \/ (s.t.fired /\ Step(m, ret, s2)) \/ Step(m, ret, s3)
  BY <1>1, <1>4, <1>5, <1>6, <1>7 DEF WorkSchedulePending
<1> QED BY <1>1, <1>8, <1>11, <1>12, <1>13, <1>14 DEF Performs

LEMMA WorkScheduledEffect ==
  ASSUME NEW m \in Modules, NEW ret, IInv, WorkScheduled(m, ret)
  PROVE  \E r : Step(m, ret, r) /\ UNCHANGED <<sel, call>> /\ Performs(View(m), r)
<1>1. PICK s : s = View(m) OBVIOUS
<1>2. s \in ViewT /\ Ring(s.q) /\ s.q = q[m] /\ s.t = tamer[m] /\ s.q \in QueueT
  BY <1>1, ViewTypes DEF IInv
<1>3. Head(s.q).st = "SCHEDULED" /\ s.q.cnt > 0 BY <1>1, <1>2, Headed DEF WorkScheduled
<1>4. PICK i : i = s.q.rem OBVIOUS
<1>5. PICK s1 : s1 = ToCancel(Fail(s, i), i) OBVIOUS
<1>6. PICK s2 : s2 = [s EXCEPT !.q.ent[i].st = "READY"] OBVIOUS
<1>8. GivesUp(s, s1) BY <1>2, <1>3, <1>4, <1>5, GivesUpEffect
<1>9. Edited(s, s2, St(Head(s.q), "READY")) /\ s2.t = s.t /\ s2.job = s.job /\ s2.out = s.out
  BY <1>2, <1>3, <1>4, <1>6, StEffect DEF EntryStates
<1>11. s.t.fired => Releases(s, s2) BY <1>3, <1>9 DEF Releases
<1>13. UNCHANGED <<sel, call>> BY DEF WorkScheduled
<1>14. Step(m, ret, s) \/ Step(m, ret, s1) \/ (s.t.fired /\ Step(m, ret, s2))
  BY <1>1, <1>4, <1>5, <1>6 DEF WorkScheduled
<1> QED BY <1>1, <1>8, <1>11, <1>13, <1>14 DEF Performs

LEMMA TwoFlags ==
  ASSUME NEW s \in ViewT, Ring(s.q), s.q.cnt > 0, NEW b \in BOOLEAN, NEW r,
         Head(s.q).st = "CANCEL_PENDING",
         r = [s EXCEPT !.q.ent[s.q.rem].cseen = b, !.q.ent[s.q.rem].cpend = FALSE]
           \/ r = [s EXCEPT !.q.ent[s.q.rem].cpend = FALSE, !.q.ent[s.q.rem].cseen = b]
  PROVE  Cancels(s, r)
<1>1. s.q \in QueueT /\ s.q.rem \in Indices /\ Head(s.q) \in Entry /\ s.q.ent \in [Indices -> Entry]
  BY DEF ViewT, QueueT, Head
<1>2. PICK e \in Entry : e = [Head(s.q) EXCEPT !.cseen = b, !.cpend = FALSE] BY <1>1 DEF Entry
<1>3. /\ e.st # "INVALID" /\ e.id = Head(s.q).id /\ e.slot = Head(s.q).slot /\ e.imm = Head(s.q).imm
  BY <1>1, <1>2 DEF Entry
<1>4. r \in ViewT /\ r.q = WithCell(s.q, s.q.rem, e) /\ r.t = s.t /\ r.job = s.job /\ r.out = s.out
  <2>2. CASE r = [s EXCEPT !.q.ent[s.q.rem].cseen = b, !.q.ent[s.q.rem].cpend = FALSE]
    <3>1. PICK d \in Entry : d = [Head(s.q) EXCEPT !.cseen = b] BY <1>1 DEF Entry
    <3>2. PICK x : x = [s EXCEPT !.q.ent[s.q.rem].cseen = b] OBVIOUS
    <3>3. x = [s EXCEPT !.q = WithCell(s.q, s.q.rem, d)] BY <3>1, <3>2 DEF WithCell, Head
    <3>4. /\ x \in ViewT /\ x.q = WithCell(s.q, s.q.rem, d) /\ x.q.ent[s.q.rem] = d
          /\ x.t = s.t /\ x.job = s.job /\ x.out = s.out
      BY <1>1, <3>3, ViewCell
    <3>5. r = [x EXCEPT !.q.ent[s.q.rem].cpend = FALSE] BY <2>2, <3>2
    <3>6. e = [d EXCEPT !.cpend = FALSE] BY <1>1, <1>2, <3>1 DEF Entry
    <3>7. r = [x EXCEPT !.q = WithCell(x.q, s.q.rem, e)] BY <3>4, <3>5, <3>6 DEF WithCell
    <3>8. r \in ViewT /\ r.q = WithCell(x.q, s.q.rem, e) /\ r.t = x.t /\ r.job = x.job /\ r.out = x.out
      BY <1>1, <3>4, <3>7, ViewCell
    <3>9. r.q = WithCell(s.q, s.q.rem, e) BY <1>1, <3>4, <3>8, WithCellTwice
    <3> QED BY <3>4, <3>8, <3>9
  <2>3. CASE r = [s EXCEPT !.q.ent[s.q.rem].cpend = FALSE, !.q.ent[s.q.rem].cseen = b]
    <3>1. PICK d \in Entry : d = [Head(s.q) EXCEPT !.cpend = FALSE] BY <1>1 DEF Entry
    <3>2. PICK x : x = [s EXCEPT !.q.ent[s.q.rem].cpend = FALSE] OBVIOUS
    <3>3. x = [s EXCEPT !.q = WithCell(s.q, s.q.rem, d)] BY <3>1, <3>2 DEF WithCell, Head
    <3>4. /\ x \in ViewT /\ x.q = WithCell(s.q, s.q.rem, d) /\ x.q.ent[s.q.rem] = d
          /\ x.t = s.t /\ x.job = s.job /\ x.out = s.out
      BY <1>1, <3>3, ViewCell
    <3>5. r = [x EXCEPT !.q.ent[s.q.rem].cseen = b] BY <2>3, <3>2
    <3>6. e = [d EXCEPT !.cseen = b] BY <1>1, <1>2, <3>1 DEF Entry
    <3>7. r = [x EXCEPT !.q = WithCell(x.q, s.q.rem, e)] BY <3>4, <3>5, <3>6 DEF WithCell
    <3>8. r \in ViewT /\ r.q = WithCell(x.q, s.q.rem, e) /\ r.t = x.t /\ r.job = x.job /\ r.out = x.out
      BY <1>1, <3>4, <3>7, ViewCell
    <3>9. r.q = WithCell(s.q, s.q.rem, e) BY <1>1, <3>4, <3>8, WithCellTwice
    <3> QED BY <3>4, <3>8, <3>9
  <2> QED BY <2>2, <2>3
<1>5. Edited(s, r, e) BY <1>3, <1>4 DEF Edited
<1> QED BY <1>2, <1>4, <1>5 DEF Cancels

LEMMA RequestedCells ==
  ASSUME NEW e \in Entry, NEW t \in TamerT
  PROVE  /\ Requested(e, t) \in Entry /\ Requested(e, t).st = e.st /\ Requested(e, t).id = e.id
         /\ Requested(e, t).slot = e.slot /\ Requested(e, t).imm = e.imm
         /\ Requested(e, t).rep = e.rep /\ Requested(e, t).res = e.res /\ Requested(e, t).gt = e.gt
         /\ Requested(e, t).cpend
BY DEF Requested, Entry, TamerT

LEMMA WorkCancelPendingEffect ==
  ASSUME NEW m \in Modules, NEW ret, IInv, WorkCancelPending(m, ret)
  PROVE  \E r : Step(m, ret, r) /\ UNCHANGED <<sel, call>> /\ Performs(View(m), r)
<1>1. PICK s : s = View(m) OBVIOUS
<1>2. s \in ViewT /\ Ring(s.q) /\ s.q = q[m] /\ s.t \in TamerT /\ s.q \in QueueT /\ s.q.rem \in Indices
  BY <1>1, ViewTypes, Headed DEF IInv
<1>3. Head(s.q).st = "CANCEL_PENDING" /\ s.q.cnt > 0 BY <1>1, <1>2, Headed DEF WorkCancelPending
<1>4. PICK e : e = Head(s.q) OBVIOUS
<1>a. e \in Entry /\ e = s.q.ent[s.q.rem] BY <1>2, <1>4, Headed DEF Head
<1>5. PICK s1 : s1 = [s EXCEPT !.q.ent[s.q.rem].cseen = FALSE, !.q.ent[s.q.rem].cpend = FALSE] OBVIOUS
<1>6. PICK s2 : s2 = [s EXCEPT !.q = Retired(s.q)] OBVIOUS
<1>7. PICK s3 : s3 = [s EXCEPT !.q.ent[s.q.rem].cpend = FALSE, !.q.ent[s.q.rem].cseen = TRUE] OBVIOUS
<1>8. PICK s4 : s4 = RequestCancel(s, s.q.rem) OBVIOUS
<1>9. Cancels(s, s1) BY <1>2, <1>3, <1>5, TwoFlags
<1>10. Cancels(s, s3) BY <1>2, <1>3, <1>7, TwoFlags
<1>11. Cancels(s, s4)
  <2>1. /\ s4 \in ViewT /\ s4.t = CancelRequested(s.t) /\ s4.job = s.job /\ s4.out = s.out
        /\ s4.q = WithCell(s.q, s.q.rem, Requested(e, s.t))
    BY <1>2, <1>8, <1>a, RequestCancelEffect
  <2>2. PICK d \in Entry : d = Requested(e, s.t) BY <1>2, <1>a, CellTypes
  <2>3. d.st = "CANCEL_PENDING" /\ d.id = e.id /\ d.slot = e.slot /\ d.imm = e.imm
    BY <1>2, <1>3, <1>4, <1>a, <2>2, RequestedCells
  <2>4. Edited(s, s4, d) BY <1>3, <1>4, <2>1, <2>2, <2>3 DEF Edited
  <2> QED BY <1>3, <1>4, <2>1, <2>2, <2>4 DEF Cancels
<1>12. e.cpend => Disarms(s, s2)
  <2>1. s.q = WithCell(s.q, s.q.rem, e) BY <1>2, <1>4, SameCell
  <2>2. Ended(s) = s2 BY <1>6 DEF Ended
  <2>3. e.st # "INVALID" BY <1>3, <1>4
  <2>4. s2 \in ViewT /\ s2.t = s.t /\ s2.job = s.job /\ s2.out = s.out /\ Off(s.q, s2.q)
    BY <1>2, <1>3, <1>4, <1>a, <2>1, <2>2, <2>3, EndedEffect
  <2> QED BY <1>3, <1>4, <2>4 DEF Disarms
<1>13. UNCHANGED <<sel, call>> BY DEF WorkCancelPending
<1>14. \/ Step(m, ret, s) \/ Step(m, ret, s1) \/ (e.cpend /\ Step(m, ret, s2)) \/ Step(m, ret, s3)
       \/ Step(m, ret, s4)
  BY <1>1, <1>5, <1>6, <1>7, <1>8, <1>a DEF WorkCancelPending
<1> QED BY <1>1, <1>9, <1>10, <1>11, <1>12, <1>13, <1>14 DEF Performs

LEMMA WorkReadyEffect ==
  ASSUME NEW m \in Modules, NEW ret, IInv, WorkReady(m, ret)
  PROVE  \/ /\ InCall("ready", m, ret) /\ Head(q[m]).st = "READY" /\ ~fault /\ job.recall = None
            /\ sel' = [sel EXCEPT ![m] = Head(q[m]).slot]
         \/ \E r : Step(m, ret, r) /\ UNCHANGED <<sel, call>> /\ Performs(View(m), r)
<1>1. PICK s : s = View(m) OBVIOUS
<1>2. /\ s \in ViewT /\ Ring(s.q) /\ s.q = q[m] /\ s.t = tamer[m] /\ s.q \in QueueT
      /\ HeadOf(s.q) = Head(s.q) /\ s.job \in JobT
  BY <1>1, ViewTypes, Headed DEF IInv, ViewT
<1>3. Head(s.q).st = "READY" /\ s.q.cnt > 0 BY <1>1, <1>2, Headed DEF WorkReady
<1>4. ~ArmedT(s.t) BY <1>2, <1>3 DEF IInv, DirInv, HeadInv, Comparing
<1>5. PICK s1 : s1 = [s EXCEPT !.job.gt = TRUE, !.q.ent[s.q.rem].st = "GAIN_TABLE_PENDING"] OBVIOUS
<1>6. Head(s.q).gt => LoadsGains(s, s1)
  <2>1. PICK x : x = [s EXCEPT !.q.ent[s.q.rem].st = "GAIN_TABLE_PENDING"] OBVIOUS
  <2>2. /\ Edited(s, x, St(Head(s.q), "GAIN_TABLE_PENDING")) /\ x.t = s.t /\ x.job = s.job /\ x.out = s.out
    BY <1>2, <1>3, <2>1, StEffect DEF EntryStates
  <2>3. PICK j \in JobT : j = [s.job EXCEPT !.gt = TRUE] BY <1>2, JobFields DEF Some
  <2>4. s1 = [x EXCEPT !.job = j] BY <1>2, <1>5, <2>1, <2>3 DEF ViewT
  <2>5. x \in ViewT BY <2>2 DEF Edited
  <2>6. s1 \in ViewT /\ s1.q = x.q /\ s1.t = x.t /\ s1.job = j /\ s1.out = x.out
    BY <1>2, <2>4, <2>5, ViewWith DEF ViewT
  <2>7. Edited(s, s1, St(Head(s.q), "GAIN_TABLE_PENDING")) BY <2>2, <2>6 DEF Edited
  <2> QED BY <1>3, <2>2, <2>3, <2>6, <2>7 DEF LoadsGains
<1>7. Leaves(s, FailHead(s, s.q.rem)) BY <1>2, <1>3, <1>4, FailHeadLeaves
<1>8. \/ Head(s.q).gt /\ Step(m, ret, s1) /\ UNCHANGED <<sel, call>>
      \/ Step(m, ret, FailHead(s, s.q.rem)) /\ UNCHANGED <<sel, call>>
      \/ /\ ~fault /\ job.recall = None /\ InCall("ready", m, ret)
         /\ sel' = [sel EXCEPT ![m] = Head(q[m]).slot]
  BY <1>1, <1>2, <1>5 DEF WorkReady, Head
<1> QED BY <1>1, <1>2, <1>3, <1>6, <1>7, <1>8 DEF Performs

LEMMA ReadyAnsweredEffect ==
  ASSUME IInv, ReadyAnswered
  PROVE  /\ call.m \in Modules /\ call # NoCall /\ call' = NoCall /\ UNCHANGED sel
         /\ ~Owned(job) /\ ~fault
         /\ \E r : /\ Step(call.m, call.ret, r)
                   /\ \/ r = View(call.m) /\ q[call.m].cnt = 0
                      \/ Leaves(View(call.m), r) \/ Orphans(call.m, View(call.m), r)
                      \/ /\ Recalls(call.m, View(call.m), r)
                         /\ Head(q[call.m]).imm \/ Head(q[call.m]).id \in due
<1>1. call.at = "ready" /\ call' = NoCall /\ UNCHANGED sel BY DEF ReadyAnswered
<1>2. call # NoCall BY <1>1 DEF NoCall, None
<1>3. PICK m \in Modules : m = call.m BY <1>2 DEF IInv, Types
<1>4. PICK s : s = View(m) OBVIOUS
<1>5. s \in ViewT /\ Ring(s.q) /\ s.q = q[m] /\ s.t = tamer[m] /\ s.q \in QueueT /\ s.job \in JobT
  BY <1>4, ViewTypes DEF IInv, ViewT
<1>6. ~Owned(job) /\ ~fault BY <1>1 DEF IInv, PassInv
<1>7. ~ArmedT(s.t) BY <1>3, <1>5 DEF IInv, DirInv, CallInv
<1>8. call.i \in Indices BY DEF IInv, Types, CallT
<1>9. PICK r0 : r0 = FailHead(s, call.i) OBVIOUS
<1>10. PICK r1 : r1 = [s EXCEPT !.job.recall = m] OBVIOUS
<1>11. PICK j \in JobT : j = [s.job EXCEPT !.recall = m] BY <1>3, <1>5, JobFields DEF Some
<1>12. r1 = [s EXCEPT !.job = j] BY <1>10, <1>11
<1>13. r1 \in ViewT /\ r1.q = s.q /\ r1.t = s.t /\ r1.job = j /\ r1.out = s.out
  BY <1>5, <1>12 DEF ViewT
<1>14. CASE s.q.cnt = 0
  <2>1. r0 = s BY <1>5, <1>8, <1>9, <1>14, FailNobody
  <2>2. call.i \notin Live(s.q) BY <1>5, <1>14, LiveCells
  <2>3. Step(m, call.ret, r0) \/ Step(m, call.ret, r1)
    BY <1>3, <1>4, <1>9, <1>10, <2>2 DEF ReadyAnswered
  <2>4. Orphans(m, s, r1) BY <1>11, <1>13, <1>14 DEF Orphans
  <2> QED BY <1>1, <1>2, <1>3, <1>4, <1>5, <1>6, <1>14, <2>1, <2>3, <2>4
<1>15. CASE s.q.cnt # 0
  <2>1. /\ call.i = s.q.rem /\ Head(s.q).st \in {"READY", "CANCEL_PENDING"}
        /\ Head(s.q).imm \/ Head(s.q).id \in due
    BY <1>1, <1>3, <1>5, <1>15 DEF IInv, DirInv, CallInv
  <2>2. s.q.cnt > 0 /\ s.q.rem \in Live(s.q) BY <1>5, <2>1, Headed
  <2>3. Leaves(s, r0) BY <1>5, <1>7, <1>9, <2>1, FailHeadLeaves
  <2>4. PICK r2 : r2 = [r1 EXCEPT !.q.ent[s.q.rem].st = "PLL_PENDING"] OBVIOUS
  <2>5. Step(m, call.ret, r0) \/ Step(m, call.ret, r2)
    BY <1>3, <1>4, <1>9, <1>10, <2>1, <2>2, <2>4 DEF ReadyAnswered
  <2>6. r2 = [r1 EXCEPT !.q.ent[r1.q.rem].st = "PLL_PENDING"] BY <1>13, <2>4
  <2>7. /\ Edited(r1, r2, St(Head(s.q), "PLL_PENDING")) /\ r2.t = s.t /\ r2.job = j /\ r2.out = s.out
    BY <1>5, <1>13, <2>2, <2>6, StEffect DEF EntryStates
  <2>8. Edited(s, r2, St(Head(s.q), "PLL_PENDING")) BY <1>13, <2>7 DEF Edited
  <2>9. Recalls(m, s, r2) BY <1>7, <1>11, <2>1, <2>7, <2>8 DEF Recalls
  <2> QED BY <1>1, <1>2, <1>3, <1>4, <1>5, <1>6, <2>1, <2>3, <2>5, <2>9
<1> QED BY <1>14, <1>15

\* The head's job failed: a record, and the head is retired.
LEMMA FailEnded ==
  ASSUME NEW s \in ViewT, Ring(s.q), s.q.cnt > 0, NEW e \in Entry, e.st # "INVALID", e.rep = Head(s.q).rep,
         e.id = Head(s.q).id, e.slot = Head(s.q).slot, e.imm = Head(s.q).imm,
         NEW x \in ViewT, x.q = WithCell(s.q, s.q.rem, e), x.t = s.t, x.out = s.out
  PROVE  LET r == Ended(Fail(x, s.q.rem))
         IN  /\ r \in ViewT /\ r.t = s.t /\ r.job = x.job /\ Off(s.q, r.q)
             /\ r.out = Recorded(s.out, Head(s.q))
<1>1. s.q \in QueueT /\ s.q.rem \in Indices BY DEF ViewT, QueueT
<1>2. x.q.ent[s.q.rem] = e BY <1>1, CellAt
<1>3. PICK y : y = Fail(x, s.q.rem) OBVIOUS
<1>4. /\ y \in ViewT /\ y.t = x.t /\ y.job = x.job /\ y.q = WithCell(x.q, s.q.rem, Told(e))
      /\ y.out = Recorded(x.out, e)
  BY <1>1, <1>2, <1>3, FailEffect
<1>5. PICK d \in Entry : d = Told(e) BY HeadCells
<1>6. d.st # "INVALID" /\ d.id = Head(s.q).id /\ d.slot = Head(s.q).slot /\ d.imm = Head(s.q).imm
  BY <1>5, HeadCells
<1>7. y.q = WithCell(s.q, s.q.rem, d) BY <1>1, <1>4, <1>5, WithCellTwice
<1>8. PICK r : r = Ended(y) OBVIOUS
<1>9. r \in ViewT /\ r.t = y.t /\ r.job = y.job /\ r.out = y.out /\ Off(s.q, r.q)
  BY <1>4, <1>6, <1>7, <1>8, EndedEffect
<1>10. Recorded(x.out, e) = Recorded(s.out, Head(s.q)) BY DEF Recorded
<1> QED BY <1>3, <1>4, <1>8, <1>9, <1>10

LEMMA WorkGainTableEffect ==
  ASSUME NEW m \in Modules, NEW ret, IInv, WorkGainTable(m, ret)
  PROVE  \E r : Step(m, ret, r) /\ UNCHANGED <<sel, call>> /\ Performs(View(m), r)
<1>1. PICK s : s = View(m) OBVIOUS
<1>2. /\ s \in ViewT /\ Ring(s.q) /\ s.q = q[m] /\ s.t \in TamerT /\ s.q \in QueueT /\ s.q.rem \in Indices
      /\ s.job \in JobT
  BY <1>1, ViewTypes, Headed DEF IInv, ViewT
<1>3. Head(s.q).st = "GAIN_TABLE_PENDING" /\ s.q.cnt > 0 BY <1>1, <1>2, Headed DEF WorkGainTable
<1>4. PICK e : e = Head(s.q) OBVIOUS
<1>a. e \in Entry /\ e = s.q.ent[s.q.rem] BY <1>2, <1>4, Headed DEF Head
<1>5. PICK j \in JobT : j = [s.job EXCEPT !.gt = FALSE] BY <1>2, JobFields DEF Some
<1>6. PICK d \in Entry : d = [e EXCEPT !.gt = FALSE] BY <1>a DEF Entry
<1>7. d.st = e.st /\ d.id = e.id /\ d.slot = e.slot /\ d.imm = e.imm /\ d.rep = e.rep BY <1>a, <1>6 DEF Entry
<1>8. PICK x : x = [s EXCEPT !.job.gt = FALSE, !.q.ent[s.q.rem].gt = FALSE] OBVIOUS
<1>9. PICK R \in QueueT : R = WithCell(s.q, s.q.rem, d) BY <1>2, WithCellType
<1>10. x = [s EXCEPT !.job = j, !.q = R] BY <1>5, <1>6, <1>8, <1>9, <1>a DEF WithCell
<1>11. x \in ViewT /\ x.q = R /\ x.t = s.t /\ x.job = j /\ x.out = s.out
  BY <1>2, <1>10 DEF ViewT
<1>12. PICK s1 : s1 = Ended(Fail(x, s.q.rem)) OBVIOUS
<1>13. JobOver(s, s1)
  <2>1. d.st # "INVALID" BY <1>3, <1>4, <1>7
  <2>2. /\ s1 \in ViewT /\ s1.t = s.t /\ s1.job = x.job /\ Off(s.q, s1.q)
        /\ s1.out = Recorded(s.out, Head(s.q))
    BY <1>2, <1>3, <1>4, <1>7, <1>9, <1>11, <1>12, <2>1, FailEnded
  <2> QED BY <1>3, <1>5, <1>11, <2>2 DEF JobOver
<1>14. PICK s2 : s2 = [x EXCEPT !.q.ent[s.q.rem].st = "READY"] OBVIOUS
<1>15. ~s.q.clr => GainsLoaded(s, s2)
  <2>1. PICK c \in Entry : c = [e EXCEPT !.gt = FALSE, !.st = "READY"] BY <1>a DEF Entry, EntryStates
  <2>2. c.st = "READY" /\ c.id = e.id /\ c.slot = e.slot /\ c.imm = e.imm BY <1>a, <2>1 DEF Entry
  <2>3. c = [d EXCEPT !.st = "READY"] BY <1>6, <2>1
  <2>4. x.q.ent[s.q.rem] = d BY <1>2, <1>9, <1>11, CellAt
  <2>5. s2 = [x EXCEPT !.q = WithCell(x.q, s.q.rem, c)] BY <1>14, <2>3, <2>4 DEF WithCell
  <2>6. s2 \in ViewT /\ s2.q = WithCell(x.q, s.q.rem, c) /\ s2.t = x.t /\ s2.job = x.job /\ s2.out = x.out
    BY <1>2, <1>11, <2>5, ViewCell
  <2>7. s2.q = WithCell(s.q, s.q.rem, c) BY <1>2, <1>9, <1>11, <2>6, WithCellTwice
  <2>8. Edited(s, s2, c) BY <1>3, <1>4, <2>2, <2>6, <2>7 DEF Edited
  <2> QED BY <1>3, <1>4, <1>5, <1>11, <2>1, <2>6, <2>8 DEF GainsLoaded
<1>16. UNCHANGED <<sel, call>> BY DEF WorkGainTable
<1>17. Step(m, ret, s) \/ Step(m, ret, s1) \/ (~s.q.clr /\ Step(m, ret, s2))
  BY <1>1, <1>8, <1>12, <1>14 DEF WorkGainTable
<1> QED BY <1>1, <1>13, <1>15, <1>16, <1>17 DEF Performs

LEMMA PublishedType ==
  ASSUME NEW o \in OutT, NEW e, e.id \in Requests
  PROVE  /\ Published(o, e) \in OutT
         /\ \A x \in Requests : x # e.id => Published(o, e)[x] = o[x]
         /\ Published(o, e)[e.id].ok = o[e.id].ok + 1 /\ Published(o, e)[e.id].fail = o[e.id].fail
<1>1. o[e.id] \in Record /\ o[e.id].ok \in Nat BY DEF OutT, Record
<1>a. PICK n \in Nat : n = o[e.id].ok + 1 BY <1>1
<1>b. [o[e.id] EXCEPT !.ok = n] \in Record BY <1>1 DEF Record
<1>2. PICK c \in Record : c = [o[e.id] EXCEPT !.ok = o[e.id].ok + 1] BY <1>a, <1>b
<1>3. c.ok = o[e.id].ok + 1 /\ c.fail = o[e.id].fail BY <1>1, <1>2 DEF Record
<1>4. Published(o, e) = [o EXCEPT ![e.id] = c] BY <1>2 DEF Published
<1> QED BY <1>3, <1>4 DEF OutT

LEMMA PublishEnded ==
  ASSUME NEW s \in ViewT, Ring(s.q), s.q.cnt > 0, NEW x \in ViewT, x.q = s.q, x.t = s.t, x.out = s.out
  PROVE  LET r == Ended(Publish(x, s.q.rem))
         IN  /\ r \in ViewT /\ r.t = s.t /\ r.job = x.job /\ Off(s.q, r.q)
             /\ r.out = Published(s.out, Head(s.q))
<1>1. s.q \in QueueT /\ s.out \in OutT BY DEF ViewT
<1>2. PICK e \in Entry : e = Head(s.q) BY <1>1, Headed
<1>3. e.id \in Requests /\ e.st # "INVALID" BY <1>1, <1>2, Headed
<1>4. PICK o \in OutT : o = Published(s.out, e) BY <1>1, <1>3, PublishedType
<1>5. PICK y : y = Publish(x, s.q.rem) OBVIOUS
<1>6. y = [x EXCEPT !.out = o] BY <1>2, <1>4, <1>5 DEF Publish, Published, Head
<1>7. y \in ViewT /\ y.q = s.q /\ y.t = s.t /\ y.job = x.job /\ y.out = o BY <1>4, <1>6 DEF ViewT
<1>8. y.q = WithCell(s.q, s.q.rem, e) BY <1>1, <1>2, <1>7, SameCell
<1>9. PICK r : r = Ended(y) OBVIOUS
<1>10. r \in ViewT /\ r.t = y.t /\ r.job = y.job /\ r.out = y.out /\ Off(s.q, r.q)
  BY <1>2, <1>3, <1>7, <1>8, <1>9, EndedEffect
<1> QED BY <1>2, <1>4, <1>5, <1>7, <1>9, <1>10

LEMMA WorkPllEffect ==
  ASSUME NEW m \in Modules, NEW ret, IInv, WorkPll(m, ret)
  PROVE  \E r : /\ Step(m, ret, r) /\ UNCHANGED <<sel, call>>
                /\ Performs(View(m), r) \/ (~fault /\ Calibrates(m, View(m), r))
<1>1. PICK s : s = View(m) OBVIOUS
<1>2. /\ s \in ViewT /\ Ring(s.q) /\ s.q = q[m] /\ s.t \in TamerT /\ s.q \in QueueT /\ s.q.rem \in Indices
      /\ s.job \in JobT /\ s.job = job
  BY <1>1, ViewTypes, Headed DEF IInv, ViewT
<1>3. Head(s.q).st = "PLL_PENDING" /\ s.q.cnt > 0 BY <1>1, <1>2, Headed DEF WorkPll
<1>4. PICK e \in Entry : e = Head(s.q) BY <1>2, Headed
<1>5. job.recall = m BY <1>2, <1>3 DEF IInv, DirInv, HeadJob
<1>6. PICK j \in JobT : j = [s.job EXCEPT !.recall = None] BY <1>2, JobFields DEF Some
<1>7. PICK x : x = [s EXCEPT !.job.recall = None] OBVIOUS
<1>8. x = [s EXCEPT !.job = j] BY <1>6, <1>7
<1>9. x \in ViewT /\ x.q = s.q /\ x.t = s.t /\ x.job = j /\ x.out = s.out BY <1>2, <1>8 DEF ViewT
<1>10. x.q = WithCell(s.q, s.q.rem, e) BY <1>2, <1>4, <1>9, SameCell
<1>11. PICK s1 : s1 = Ended(Fail(x, s.q.rem)) OBVIOUS
<1>12. JobOver(s, s1)
  <2>1. e.st # "INVALID" BY <1>3, <1>4
  <2>2. /\ s1 \in ViewT /\ s1.t = s.t /\ s1.job = x.job /\ Off(s.q, s1.q)
        /\ s1.out = Recorded(s.out, Head(s.q))
    BY <1>2, <1>3, <1>4, <1>9, <1>10, <1>11, <2>1, FailEnded
  <2> QED BY <1>3, <1>6, <1>9, <2>2 DEF JobOver
<1>13. PICK s2 : s2 = Ended(Publish(x, s.q.rem)) OBVIOUS
<1>14. JobOver(s, s2)
  <2>1. /\ s2 \in ViewT /\ s2.t = s.t /\ s2.job = x.job /\ Off(s.q, s2.q)
        /\ s2.out = Published(s.out, Head(s.q))
    BY <1>2, <1>3, <1>9, <1>13, PublishEnded
  <2> QED BY <1>3, <1>6, <1>9, <2>1 DEF JobOver
<1>15. PICK s3 : s3 = [x EXCEPT !.job.txq = TRUE, !.q.ent[s.q.rem].st = "TXQ_PENDING"] OBVIOUS
<1>16. m = "TX" => Calibrates(m, s, s3)
  <2>1. PICK y : y = [x EXCEPT !.q.ent[x.q.rem].st = "TXQ_PENDING"] OBVIOUS
  <2>2. /\ Edited(x, y, St(Head(s.q), "TXQ_PENDING")) /\ y.t = s.t /\ y.job = j /\ y.out = s.out
    BY <1>2, <1>3, <1>9, <2>1, StEffect DEF EntryStates
  <2>3. PICK k \in JobT : k = [s.job EXCEPT !.recall = None, !.txq = TRUE] BY <1>2, JobFields DEF Some
  <2>4. k = [j EXCEPT !.txq = TRUE] BY <1>6, <2>3
  <2>5. s3 = [y EXCEPT !.job = k] BY <1>9, <1>15, <2>1, <2>4 DEF ViewT
  <2>6. y \in ViewT BY <2>2 DEF Edited
  <2>7. s3 \in ViewT /\ s3.q = y.q /\ s3.t = y.t /\ s3.job = k /\ s3.out = y.out
    BY <2>5, <2>6 DEF ViewT
  <2>8. Edited(s, s3, St(Head(s.q), "TXQ_PENDING")) BY <1>9, <2>2, <2>7 DEF Edited
  <2> QED BY <1>3, <2>2, <2>3, <2>7, <2>8 DEF Calibrates
<1>17. UNCHANGED <<sel, call>> BY DEF WorkPll
<1>18. \/ Step(m, ret, s) \/ Step(m, ret, s1) \/ Step(m, ret, s2)
       \/ ~fault /\ m = "TX" /\ Step(m, ret, s3)
  BY <1>1, <1>5, <1>7, <1>11, <1>13, <1>15 DEF WorkPll
<1> QED BY <1>1, <1>12, <1>14, <1>16, <1>17, <1>18 DEF Performs

LEMMA WorkTxqEffect ==
  ASSUME NEW m \in Modules, NEW ret, IInv, WorkTxq(m, ret)
  PROVE  \E r : Step(m, ret, r) /\ UNCHANGED <<sel, call>> /\ Performs(View(m), r)
<1>1. PICK s : s = View(m) OBVIOUS
<1>2. /\ s \in ViewT /\ Ring(s.q) /\ s.q = q[m] /\ s.t \in TamerT /\ s.q \in QueueT /\ s.q.rem \in Indices
      /\ s.job \in JobT /\ s.job = job
  BY <1>1, ViewTypes, Headed DEF IInv, ViewT
<1>3. Head(s.q).st = "TXQ_PENDING" /\ s.q.cnt > 0 BY <1>1, <1>2, Headed DEF WorkTxq
<1>4. PICK e \in Entry : e = Head(s.q) BY <1>2, Headed
<1>6. PICK j \in JobT : j = [s.job EXCEPT !.txq = FALSE] BY <1>2, JobFields DEF Some
<1>7. PICK x : x = [s EXCEPT !.job.txq = FALSE] OBVIOUS
<1>8. x = [s EXCEPT !.job = j] BY <1>6, <1>7
<1>9. x \in ViewT /\ x.q = s.q /\ x.t = s.t /\ x.job = j /\ x.out = s.out BY <1>2, <1>8 DEF ViewT
<1>10. x.q = WithCell(s.q, s.q.rem, e) BY <1>2, <1>4, <1>9, SameCell
<1>11. PICK s1 : s1 = Ended(Fail(x, s.q.rem)) OBVIOUS
<1>12. JobOver(s, s1)
  <2>1. e.st # "INVALID" BY <1>3, <1>4
  <2>2. /\ s1 \in ViewT /\ s1.t = s.t /\ s1.job = x.job /\ Off(s.q, s1.q)
        /\ s1.out = Recorded(s.out, Head(s.q))
    BY <1>2, <1>3, <1>4, <1>9, <1>10, <1>11, <2>1, FailEnded
  <2> QED BY <1>3, <1>6, <1>9, <2>2 DEF JobOver
<1>13. PICK s2 : s2 = Ended(Publish(x, s.q.rem)) OBVIOUS
<1>14. JobOver(s, s2)
  <2>1. /\ s2 \in ViewT /\ s2.t = s.t /\ s2.job = x.job /\ Off(s.q, s2.q)
        /\ s2.out = Published(s.out, Head(s.q))
    BY <1>2, <1>3, <1>9, <1>13, PublishEnded
  <2> QED BY <1>3, <1>6, <1>9, <2>1 DEF JobOver
<1>17. UNCHANGED <<sel, call>> BY DEF WorkTxq
<1>18. Step(m, ret, s) \/ Step(m, ret, s1) \/ Step(m, ret, s2)
  BY <1>1, <1>7, <1>11, <1>13 DEF WorkTxq
<1> QED BY <1>1, <1>12, <1>14, <1>17, <1>18 DEF Performs

\* perform_work() enters an SPI call, or makes one of the steps above.
LEMMA PerformWorkEffect ==
  ASSUME NEW m \in Modules, NEW ret, IInv, PerformWork(m, ret)
  PROVE  \/ InCall("new", m, ret) /\ UNCHANGED sel /\ Head(q[m]).st = "NEW" /\ MustAsk(m, Head(q[m]))
         \/ /\ InCall("ready", m, ret) /\ Head(q[m]).st = "READY" /\ ~fault /\ job.recall = None
            /\ sel' = [sel EXCEPT ![m] = Head(q[m]).slot]
         \/ \E r : /\ Step(m, ret, r) /\ UNCHANGED <<sel, call>>
                   /\ \/ Performs(View(m), r)
                      \/ /\ Uploads(m, View(m), r) /\ Head(q[m]).st # "CANCEL_PENDING"
                         /\ ~MustAsk(m, Head(q[m]))
                      \/ ~fault /\ Calibrates(m, View(m), r)
BY WorkEmptyEffect, WorkNewEffect, WorkLoadFailedEffect, WorkSchedulePendingEffect,
   WorkScheduledEffect, WorkCancelPendingEffect, WorkReadyEffect, WorkGainTableEffect,
   WorkPllEffect, WorkTxqEffect DEF PerformWork

-----------------------------------------------------------------------------
(* Each of these steps keeps the invariant of its direction, and disturbs  *)
(* no job of the other one.                                                *)

DirOk(m, s, D, f) ==
  /\ s \in ViewT /\ Ring(s.q) /\ TailInv(s.q) /\ HeadInv(Head(s.q), s.t, D)
  /\ LoadInv(m, s.q, s.job) /\ HeadJob(m, Head(s.q), s.job, f, s.q.clr)

Frame(m, j, k) ==
  /\ k.load = j.load \/ j.load \in {None, m}
  /\ k.recall = j.recall \/ j.recall \in {None, m}
  /\ m = "TX" => k.gt = j.gt
  /\ m = "RX" => k.txq = j.txq

LEMMA OtherDir ==
  ASSUME NEW m \in Modules, NEW n \in Modules, n # m, NEW Q, NEW e, NEW j, NEW k, NEW f, NEW c,
         Frame(m, j, k), LoadInv(n, Q, j), HeadJob(n, e, j, f, c)
  PROVE  LoadInv(n, Q, k) /\ HeadJob(n, e, k, f, c)
<1>1. n # None /\ (n = "RX" => m = "TX") /\ (n = "TX" => m = "RX") BY Sizes DEF Modules
<1>2. LoadInv(n, Q, k) BY <1>1 DEF LoadInv, Frame
<1>3. j.recall = n => k.recall = n BY <1>1 DEF Frame
<1>4. HeadJob(n, e, k, f, c) BY <1>1, <1>3 DEF HeadJob, Frame
<1> QED BY <1>2, <1>4

\* A head that no compare and no job is bound to.
Plain(e) == e.st \in {"INVALID", "NEW", "LOAD_PENDING", "LOAD_FAILED"}

LEMMA PlainHead ==
  ASSUME NEW m, NEW e, NEW t, NEW D, NEW j, NEW f, NEW c, Plain(e), ~ArmedT(t),
         m = "RX" => ~j.gt, m = "TX" => ~j.txq
  PROVE  HeadInv(e, t, D) /\ HeadJob(m, e, j, f, c)
BY DEF Plain, HeadInv, HeadJob, JobStates, Comparing

LEMMA LeftDir ==
  ASSUME NEW m \in Modules, NEW D, NEW f, NEW s, DirOk(m, s, D, f), NEW r \in ViewT, Left(s.q, r.q),
         ~ArmedT(r.t), m = "RX" => ~r.job.gt, m = "TX" => ~r.job.txq, r.job.load = s.job.load
  PROVE  DirOk(m, r, D, f) /\ (Quiet(s.q) => Quiet(r.q)) /\ r.q.defer = s.q.defer /\ Ids(r.q) \subseteq Ids(s.q)
<1>1. s.q \in QueueT /\ r.q \in QueueT /\ s \in ViewT /\ Ring(s.q) BY DEF DirOk, ViewT
<1>2. /\ s.q.cnt > 0 /\ Ring(r.q) /\ r.q.cnt = s.q.cnt - 1
      /\ Live(r.q) = Live(s.q) \ {s.q.rem} /\ SameClear(s.q, r.q)
      /\ \A i \in Indices : i # s.q.rem => r.q.ent[i] = s.q.ent[i]
  BY DEF Left
<1>3. \A i \in Live(r.q) : i \in Live(s.q) /\ i # s.q.rem /\ i \in Indices /\ r.q.ent[i] = s.q.ent[i]
  BY <1>1, <1>2, LiveCells
<1>4. ~s.q.done BY <1>2 DEF DirOk, TailInv
<1>5. \A i \in Live(r.q) : r.q.ent[i].st \in {"NEW", "LOAD_PENDING", "LOAD_FAILED"} /\ ~r.q.ent[i].imm
  BY <1>3 DEF DirOk, TailInv
<1>6. TailInv(r.q) BY <1>2, <1>4, <1>5 DEF TailInv
<1>7. Plain(Head(r.q))
  <2>1. r.q.cnt \in 0 .. QueueMax BY <1>1 DEF QueueT
  <2>2. CASE r.q.cnt = 0 BY <1>1, <1>2, <2>2, Headed DEF Plain, Blank
  <2>3. CASE r.q.cnt # 0
    <3>1. r.q.rem \in Live(r.q) BY <1>1, <2>1, <2>3, LiveCells, Sizes
    <3> QED BY <1>5, <3>1 DEF Plain, Head
  <2> QED BY <2>2, <2>3
<1>8. HeadInv(Head(r.q), r.t, D) /\ HeadJob(m, Head(r.q), r.job, f, r.q.clr) BY <1>7, PlainHead
<1>9. Loading(r.q) \subseteq Loading(s.q) BY <1>3 DEF Loading
<1>10. Blank.gt = FALSE BY DEF Blank
<1>11. m = "TX" => \A i \in Indices : ~r.q.ent[i].gt
  <2>1. ASSUME m = "TX", NEW i \in Indices PROVE ~r.q.ent[i].gt
    <3>1. CASE i \in Live(r.q) BY <1>3, <2>1, <3>1 DEF DirOk, LoadInv
    <3>2. CASE i \notin Live(r.q) BY <1>2, <1>10, <3>2 DEF Ring
    <3> QED BY <3>1, <3>2
  <2> QED BY <2>1
<1>12. LoadInv(m, r.q, r.job) BY <1>9, <1>11 DEF DirOk, LoadInv, OneLoad
<1>13. Quiet(s.q) => Quiet(r.q) BY <1>1, <1>2 DEF Quiet
<1>14. Ids(r.q) \subseteq Ids(s.q) BY <1>3 DEF Ids
<1> QED BY <1>2, <1>6, <1>8, <1>12, <1>13, <1>14 DEF DirOk

LEMMA EmptiedDir ==
  ASSUME NEW m \in Modules, NEW D, NEW f, NEW s, DirOk(m, s, D, f), NEW r \in ViewT, NEW b,
         Emptied(s.q, r.q, b),
         ~ArmedT(r.t), m = "RX" => ~r.job.gt, m = "TX" => ~r.job.txq
  PROVE  DirOk(m, r, D, f) /\ Quiet(r.q) /\ ~r.q.defer /\ Ids(r.q) = {}
<1>1. /\ Ring(r.q) /\ Live(r.q) = {} /\ r.q.cnt = 0 /\ \A i \in Indices : r.q.ent[i] = Blank
      /\ r.q \in QueueT /\ ~r.q.defer
  BY DEF Emptied
<1>2. Head(r.q) = Blank BY <1>1, Headed
<1>3. Plain(Head(r.q)) BY <1>2 DEF Plain, Blank
<1>4. HeadInv(Head(r.q), r.t, D) /\ HeadJob(m, Head(r.q), r.job, f, r.q.clr) BY <1>3, PlainHead
<1>5. Loading(r.q) = {} BY <1>1 DEF Loading
<1>6. LoadInv(m, r.q, r.job) BY <1>1, <1>5 DEF LoadInv, OneLoad, Blank
<1>7. TailInv(r.q) BY <1>1 DEF TailInv
<1>8. Ids(r.q) = {} BY <1>1 DEF Ids
<1> QED BY <1>1, <1>4, <1>6, <1>7, <1>8 DEF DirOk, Quiet

LEMMA EditDir ==
  ASSUME NEW m \in Modules, NEW D, NEW f, NEW s, DirOk(m, s, D, f), NEW r, NEW e, Edited(s, r, e),
         HeadInv(e, r.t, D), HeadJob(m, e, r.job, f, s.q.clr), m = "TX" => ~e.gt,
         IF e.st = "LOAD_PENDING" THEN Loading(s.q) \subseteq {s.q.rem} /\ r.job.load = m
         ELSE r.job.load = s.job.load
  PROVE  DirOk(m, r, D, f) /\ (Quiet(s.q) => Quiet(r.q)) /\ r.q.defer = s.q.defer /\ Ids(r.q) = Ids(s.q)
<1>1. s.q \in QueueT /\ s \in ViewT /\ Ring(s.q) /\ r \in ViewT BY DEF DirOk, ViewT, Edited
<1>2. /\ r.q \in QueueT /\ Kept(s.q, r.q) /\ Ring(r.q) /\ Live(r.q) = Live(s.q)
      /\ Head(r.q) = e /\ SameRing(s.q, r.q)
      /\ \A i \in Indices : i # s.q.rem => r.q.ent[i] = s.q.ent[i]
  BY <1>1, EditedRing
<1>3. \A i \in Live(s.q) : i \in Indices BY <1>1, LiveCells
<1>4. TailInv(r.q) BY <1>2, <1>3 DEF DirOk, TailInv
<1>5. Loading(r.q) \ {s.q.rem} \subseteq Loading(s.q) BY <1>2, <1>3 DEF Loading
<1>6. s.q.rem \in Loading(r.q) => e.st = "LOAD_PENDING" BY <1>2 DEF Loading, Head
<1>7. OneLoad(r.q) /\ (Loading(r.q) # {} => r.job.load = m)
  <2>1. CASE e.st = "LOAD_PENDING" BY <1>5, <2>1 DEF OneLoad
  <2>2. CASE e.st # "LOAD_PENDING" BY <1>5, <1>6, <2>2 DEF OneLoad, DirOk, LoadInv
  <2> QED BY <2>1, <2>2
<1>8. m = "TX" => \A i \in Indices : ~r.q.ent[i].gt BY <1>2 DEF DirOk, LoadInv, Head
<1>9. LoadInv(m, r.q, r.job) BY <1>7, <1>8 DEF LoadInv
<1>10. Quiet(s.q) => Quiet(r.q) BY <1>2 DEF Quiet
<1>11. Ids(r.q) = Ids(s.q) BY <1>1, <1>2, KeptRing
<1> QED BY <1>1, <1>2, <1>4, <1>9, <1>10, <1>11 DEF DirOk

\* Jobs only end.
Fewer(j, k) ==
  /\ k.load = j.load /\ (k.recall = j.recall \/ k.recall = None) /\ (k.txq => j.txq)

Preserves(m, s, r, D, f) ==
  /\ DirOk(m, r, D, f) /\ Frame(m, s.job, r.job)
  /\ Quiet(s.q) => Quiet(r.q)
  /\ r.q.defer => s.q.defer
  /\ Ids(r.q) \subseteq Ids(s.q)

LEMMA SameFrame ==
  ASSUME NEW m, NEW j
  PROVE  Frame(m, j, j) /\ Fewer(j, j)
BY DEF Frame, Fewer

LEMMA DirTypes ==
  ASSUME NEW m, NEW D, NEW f, NEW s, DirOk(m, s, D, f)
  PROVE  /\ s \in ViewT /\ s.q \in QueueT /\ s.t \in TamerT /\ s.job \in JobT /\ s.out \in OutT /\ Ring(s.q)
         /\ Head(s.q) \in Entry /\ s.q.rem \in Indices
         /\ HeadInv(Head(s.q), s.t, D) /\ HeadJob(m, Head(s.q), s.job, f, s.q.clr)
         /\ (m = "TX" => ~Head(s.q).gt) /\ OneLoad(s.q) /\ (Loading(s.q) # {} => s.job.load = m)
         /\ TailInv(s.q)
BY Headed DEF DirOk, ViewT, LoadInv, Head, QueueT

LEMMA SweepsDir ==
  ASSUME NEW m \in Modules, NEW D, NEW f, NEW s, DirOk(m, s, D, f), NEW r, Sweeps(s, r)
  PROVE  Preserves(m, s, r, D, f)
<1>1. s \in ViewT /\ s.q \in QueueT /\ s.t \in TamerT /\ Ring(s.q) /\ HeadInv(Head(s.q), s.t, D)
      /\ HeadJob(m, Head(s.q), s.job, f, s.q.clr)
  BY DirTypes
<1>2. /\ s.q.cnt = 0 /\ r \in ViewT /\ r.q.cnt = 0 /\ r.q.ent = s.q.ent /\ r.q.rem = s.q.rem
      /\ r.job = s.job /\ (r.t = s.t \/ r.t = CancelRequested(s.t)) /\ r.q.defer = s.q.defer /\ r.q \in QueueT
  BY DEF Sweeps, ViewT
<1>3. Live(r.q) = {} /\ Live(s.q) = {} BY <1>1, <1>2, LiveCells
<1>4. Ring(r.q) BY <1>1, <1>2, <1>3 DEF Ring
<1>5. Head(s.q) = Blank /\ Head(r.q) = Blank BY <1>1, <1>2, <1>4, Headed
<1>6. Blank.st = "INVALID" BY DEF Blank
<1>7. ~ArmedT(s.t) BY <1>1, <1>5, <1>6 DEF HeadInv, Comparing
<1>8. ~ArmedT(r.t) BY <1>1, <1>2, <1>7, CancelRequestedType DEF ArmedT
<1>9. (m = "RX" => ~s.job.gt) /\ (m = "TX" => ~s.job.txq) BY <1>1, <1>5, <1>6 DEF HeadJob
<1>10. Plain(Blank) BY <1>6 DEF Plain
<1>11. HeadInv(Head(r.q), r.t, D) /\ HeadJob(m, Head(r.q), r.job, f, r.q.clr)
  BY <1>2, <1>5, <1>8, <1>9, <1>10, PlainHead
<1>12. TailInv(r.q) BY <1>2, <1>3 DEF TailInv
<1>13. LoadInv(m, r.q, r.job) BY <1>2, <1>3 DEF DirOk, LoadInv, Loading, OneLoad
<1>14. DirOk(m, r, D, f) BY <1>2, <1>4, <1>11, <1>12, <1>13 DEF DirOk
<1> QED BY <1>2, <1>3, <1>14, SameFrame DEF Preserves, Quiet, Ids

LEMMA LeavesDir ==
  ASSUME NEW m \in Modules, NEW D, NEW f, NEW s, DirOk(m, s, D, f), NEW r, Leaves(s, r)
  PROVE  Preserves(m, s, r, D, f)
<1>1. HeadJob(m, Head(s.q), s.job, f, s.q.clr) BY DirTypes
<1>2. r \in ViewT /\ Left(s.q, r.q) /\ r.t = s.t /\ r.job = s.job /\ ~ArmedT(s.t)
      /\ Head(s.q).st \in {"NEW", "READY", "CANCEL_PENDING", "LOAD_FAILED"}
  BY DEF Leaves
<1>3. (m = "RX" => ~r.job.gt) /\ (m = "TX" => ~r.job.txq) BY <1>1, <1>2 DEF HeadJob
<1>4. /\ DirOk(m, r, D, f) /\ (Quiet(s.q) => Quiet(r.q)) /\ r.q.defer = s.q.defer
      /\ Ids(r.q) \subseteq Ids(s.q)
  BY <1>2, <1>3, LeftDir
<1> QED BY <1>2, <1>4, SameFrame DEF Preserves

\* The head is retired.
LEMMA OffDir ==
  ASSUME NEW m \in Modules, NEW D, NEW f, NEW s, DirOk(m, s, D, f), NEW r \in ViewT, Off(s.q, r.q),
         ~ArmedT(r.t), m = "RX" => ~r.job.gt, m = "TX" => ~r.job.txq, r.job.load = s.job.load
  PROVE  DirOk(m, r, D, f) /\ (Quiet(s.q) => Quiet(r.q)) /\ (r.q.defer => s.q.defer) /\ Ids(r.q) \subseteq Ids(s.q)
<1>1. CASE s.q.clr BY <1>1, EmptiedDir DEF Off
<1>2. CASE ~s.q.clr BY <1>2, LeftDir DEF Off
<1> QED BY <1>1, <1>2

LEMMA DisarmsDir ==
  ASSUME NEW m \in Modules, NEW D, NEW f, NEW s, DirOk(m, s, D, f), NEW r, Disarms(s, r)
  PROVE  Preserves(m, s, r, D, f)
<1>1. HeadJob(m, Head(s.q), s.job, f, s.q.clr) /\ HeadInv(Head(s.q), s.t, D) BY DirTypes
<1>2. /\ r \in ViewT /\ Off(s.q, r.q) /\ r.t = s.t /\ r.job = s.job
      /\ Head(s.q).st = "CANCEL_PENDING" /\ Head(s.q).cpend
  BY DEF Disarms
<1>3. (m = "RX" => ~r.job.gt) /\ (m = "TX" => ~r.job.txq) BY <1>1, <1>2 DEF HeadJob
<1>4. ~ArmedT(r.t) BY <1>1, <1>2 DEF HeadInv
<1>5. /\ DirOk(m, r, D, f) /\ (Quiet(s.q) => Quiet(r.q)) /\ (r.q.defer => s.q.defer)
      /\ Ids(r.q) \subseteq Ids(s.q)
  BY <1>2, <1>3, <1>4, OffDir
<1> QED BY <1>2, <1>5, SameFrame DEF Preserves

LEMMA JobParts ==
  ASSUME NEW j \in JobT, NEW x, NEW b, NEW c
  PROVE  /\ [j EXCEPT !.load = x].load = x /\ SameJobs(j, [j EXCEPT !.load = x])
         /\ [j EXCEPT !.recall = x].recall = x /\ [j EXCEPT !.recall = x].load = j.load
         /\ [j EXCEPT !.recall = x].gt = j.gt /\ [j EXCEPT !.recall = x].txq = j.txq
         /\ [j EXCEPT !.gt = b].gt = b /\ [j EXCEPT !.gt = b].load = j.load
         /\ [j EXCEPT !.gt = b].recall = j.recall /\ [j EXCEPT !.gt = b].txq = j.txq
         /\ [j EXCEPT !.txq = b].txq = b /\ [j EXCEPT !.txq = b].load = j.load
         /\ [j EXCEPT !.txq = b].recall = j.recall /\ [j EXCEPT !.txq = b].gt = j.gt
         /\ [j EXCEPT !.recall = x, !.txq = b].recall = x /\ [j EXCEPT !.recall = x, !.txq = b].txq = b
         /\ [j EXCEPT !.recall = x, !.txq = b].load = j.load /\ [j EXCEPT !.recall = x, !.txq = b].gt = j.gt
BY DEF JobT

LEMMA JobOverDir ==
  ASSUME NEW m \in Modules, NEW D, NEW f, NEW s, DirOk(m, s, D, f), NEW r, JobOver(s, r)
  PROVE  Preserves(m, s, r, D, f) /\ Fewer(s.job, r.job)
<1>1. HeadJob(m, Head(s.q), s.job, f, s.q.clr) /\ HeadInv(Head(s.q), s.t, D) /\ s.job \in JobT BY DirTypes
<1>2. /\ r \in ViewT /\ Off(s.q, r.q) /\ r.t = s.t /\ Head(s.q).st \in JobStates
  BY DEF JobOver, JobStates
<1>3. ~ArmedT(r.t) BY <1>1, <1>2 DEF HeadInv, JobStates, Comparing
<1>4. /\ (m = "RX" => ~r.job.gt) /\ (m = "TX" => ~r.job.txq) /\ r.job.load = s.job.load
      /\ Frame(m, s.job, r.job) /\ Fewer(s.job, r.job)
  <2>1. CASE Head(s.q).st = "GAIN_TABLE_PENDING"
    <3>1. r.job = [s.job EXCEPT !.gt = FALSE] BY <2>1 DEF JobOver
    <3>2. /\ r.job.gt = FALSE /\ r.job.load = s.job.load /\ r.job.recall = s.job.recall /\ r.job.txq = s.job.txq
      BY <1>1, <3>1, JobParts
    <3> QED BY <1>1, <2>1, <3>2 DEF HeadJob, Frame, Fewer
  <2>2. CASE Head(s.q).st = "PLL_PENDING"
    <3>1. r.job = [s.job EXCEPT !.recall = None] BY <2>2 DEF JobOver
    <3>2. /\ r.job.recall = None /\ r.job.load = s.job.load /\ r.job.gt = s.job.gt /\ r.job.txq = s.job.txq
      BY <1>1, <3>1, JobParts
    <3> QED BY <1>1, <2>2, <3>2 DEF HeadJob, Frame, Fewer
  <2>3. CASE Head(s.q).st = "TXQ_PENDING"
    <3>1. r.job = [s.job EXCEPT !.txq = FALSE] BY <2>3 DEF JobOver
    <3>2. /\ r.job.txq = FALSE /\ r.job.load = s.job.load /\ r.job.gt = s.job.gt /\ r.job.recall = s.job.recall
      BY <1>1, <3>1, JobParts
    <3> QED BY <1>1, <2>3, <3>2 DEF HeadJob, Frame, Fewer
  <2> QED BY <1>2, <2>1, <2>2, <2>3 DEF JobStates
<1>5. /\ DirOk(m, r, D, f) /\ (Quiet(s.q) => Quiet(r.q)) /\ (r.q.defer => s.q.defer)
      /\ Ids(r.q) \subseteq Ids(s.q)
  BY <1>2, <1>3, <1>4, OffDir
<1> QED BY <1>4, <1>5 DEF Preserves

\* The head is edited and the jobs stay as they are.
LEMMA EditPreserves ==
  ASSUME NEW m \in Modules, NEW D, NEW f, NEW s, DirOk(m, s, D, f), NEW r, NEW e, Edited(s, r, e),
         HeadInv(e, r.t, D), HeadJob(m, e, r.job, f, s.q.clr), m = "TX" => ~e.gt,
         IF e.st = "LOAD_PENDING" THEN Loading(s.q) \subseteq {s.q.rem} /\ r.job.load = m
         ELSE r.job.load = s.job.load,
         Frame(m, s.job, r.job)
  PROVE  Preserves(m, s, r, D, f)
<1>1. /\ DirOk(m, r, D, f) /\ (Quiet(s.q) => Quiet(r.q)) /\ r.q.defer = s.q.defer
      /\ Ids(r.q) \subseteq Ids(s.q)
  BY EditDir
<1> QED BY <1>1 DEF Preserves

LEMMA ArmsDir ==
  ASSUME NEW m \in Modules, NEW D, NEW f, NEW s, DirOk(m, s, D, f), NEW r, Arms(s, r)
  PROVE  Preserves(m, s, r, D, f)
<1>1. PICK h \in Entry : h = Head(s.q) BY DirTypes
<1>2. /\ HeadInv(h, s.t, D) /\ HeadJob(m, h, s.job, f, s.q.clr) /\ s.q \in QueueT /\ s.t \in TamerT
      /\ Ring(s.q) /\ (m = "TX" => ~h.gt)
  BY <1>1, DirTypes
<1>3. PICK e : e = St(h, "SCHEDULE_PENDING") OBVIOUS
<1>4. h.st = "NEW" /\ Edited(s, r, e) /\ r.t = Armed(s.t, h.id) /\ r.job = s.job BY <1>1, <1>3 DEF Arms
<1>5. /\ e.st = "SCHEDULE_PENDING" /\ e.id = h.id /\ e.gt = h.gt
  BY <1>1, <1>3, StCells DEF EntryStates
<1>6. h.id \in Requests BY <1>1, <1>2, <1>4, Headed
<1>7. ~ArmedT(s.t) BY <1>2, <1>4 DEF HeadInv, Comparing
<1>8. /\ ~r.t.fired /\ (ArmedT(r.t) => r.t.cmp = h.id)
  <2>1. /\ ~r.t.fired /\ (s.t.fsm = "idle" => r.t.cmp = h.id)
        /\ (s.t.fsm # "idle" => r.t.fsm = s.t.fsm)
    BY <1>2, <1>4, <1>6, ArmedType
  <2> QED BY <1>7, <2>1 DEF ArmedT
<1>9. HeadInv(e, r.t, D) BY <1>5, <1>8 DEF HeadInv, Comparing, JobStates
<1>10. HeadJob(m, e, r.job, f, s.q.clr) BY <1>2, <1>4, <1>5 DEF HeadJob, JobStates
<1> QED BY <1>2, <1>4, <1>5, <1>9, <1>10, SameFrame, EditPreserves

LEMMA GivesUpDir ==
  ASSUME NEW m \in Modules, NEW D, NEW f, NEW s, DirOk(m, s, D, f), NEW r, GivesUp(s, r)
  PROVE  Preserves(m, s, r, D, f)
<1>1. PICK h \in Entry : h = Head(s.q) BY DirTypes
<1>2. HeadInv(h, s.t, D) /\ HeadJob(m, h, s.job, f, s.q.clr) /\ (m = "TX" => ~h.gt)
  BY <1>1, DirTypes
<1>3. PICK e : e = Cancelling(Told(h)) OBVIOUS
<1>4. /\ h.st \in {"NEW", "SCHEDULE_PENDING", "SCHEDULED"} /\ Edited(s, r, e) /\ r.t = s.t /\ r.job = s.job
  BY <1>1, <1>3 DEF GivesUp
<1>5. e.st = "CANCEL_PENDING" /\ e.id = h.id /\ e.gt = h.gt /\ e.cpend = FALSE
  BY <1>1, <1>3 DEF Cancelling, Told, Entry
<1>6. HeadInv(e, r.t, D) BY <1>2, <1>4, <1>5 DEF HeadInv, Comparing, JobStates
<1>7. HeadJob(m, e, r.job, f, s.q.clr) BY <1>2, <1>4, <1>5 DEF HeadJob, JobStates
<1> QED BY <1>2, <1>4, <1>5, <1>6, <1>7, SameFrame, EditPreserves

LEMMA UploadsDir ==
  ASSUME NEW m \in Modules, NEW D, NEW f, NEW s, DirOk(m, s, D, f), NEW r, Uploads(m, s, r)
  PROVE  Preserves(m, s, r, D, f)
<1>1. PICK h \in Entry : h = Head(s.q) BY DirTypes
<1>2. /\ HeadInv(h, s.t, D) /\ HeadJob(m, h, s.job, f, s.q.clr) /\ (m = "TX" => ~h.gt) /\ s.job \in JobT
      /\ (Loading(s.q) # {} => s.job.load = m)
  BY <1>1, DirTypes
<1>3. PICK e : e = St(h, "LOAD_PENDING") OBVIOUS
<1>4. /\ h.st \in {"NEW", "CANCEL_PENDING"} /\ Edited(s, r, e) /\ r.t = s.t /\ ~ArmedT(s.t)
      /\ r.job = [s.job EXCEPT !.load = m] /\ s.job.load = None
  BY <1>1, <1>3 DEF Uploads, Owned
<1>5. e.st = "LOAD_PENDING" /\ e.gt = h.gt BY <1>1, <1>3, StCells DEF EntryStates
<1>6. r.job.load = m /\ SameJobs(s.job, r.job) BY <1>2, <1>4, JobParts
<1>7. Plain(e) BY <1>5 DEF Plain
<1>8. (m = "RX" => ~r.job.gt) /\ (m = "TX" => ~r.job.txq) BY <1>2, <1>4, <1>6 DEF HeadJob
<1>9. HeadInv(e, r.t, D) /\ HeadJob(m, e, r.job, f, s.q.clr) BY <1>4, <1>7, <1>8, PlainHead
<1>10. Frame(m, s.job, r.job) BY <1>4, <1>6 DEF Frame
<1>11. Loading(s.q) = {} BY <1>2, <1>4, Sizes
<1> QED BY <1>2, <1>4, <1>5, <1>6, <1>9, <1>10, <1>11, EditPreserves

LEMMA AcknowledgesDir ==
  ASSUME NEW m \in Modules, NEW D, NEW f, NEW s, DirOk(m, s, D, f), NEW r, Acknowledges(s, r)
  PROVE  Preserves(m, s, r, D, f)
<1>1. PICK h \in Entry : h = Head(s.q) BY DirTypes
<1>2. HeadInv(h, s.t, D) /\ HeadJob(m, h, s.job, f, s.q.clr) /\ (m = "TX" => ~h.gt) BY <1>1, DirTypes
<1>3. PICK e : e = St(h, "SCHEDULED") OBVIOUS
<1>4. h.st = "SCHEDULE_PENDING" /\ Edited(s, r, e) /\ r.t = s.t /\ r.job = s.job
  BY <1>1, <1>3 DEF Acknowledges
<1>5. e.st = "SCHEDULED" /\ e.gt = h.gt /\ e.id = h.id BY <1>1, <1>3, StCells DEF EntryStates
<1>6. HeadInv(e, r.t, D) BY <1>2, <1>4, <1>5 DEF HeadInv, Comparing, JobStates
<1>7. HeadJob(m, e, r.job, f, s.q.clr) BY <1>2, <1>4, <1>5 DEF HeadJob, JobStates
<1> QED BY <1>2, <1>4, <1>5, <1>6, <1>7, SameFrame, EditPreserves

LEMMA ReleasesDir ==
  ASSUME NEW m \in Modules, NEW D, NEW f, NEW s, DirOk(m, s, D, f), NEW r, Releases(s, r)
  PROVE  Preserves(m, s, r, D, f)
<1>1. PICK h \in Entry : h = Head(s.q) BY DirTypes
<1>2. HeadInv(h, s.t, D) /\ HeadJob(m, h, s.job, f, s.q.clr) /\ (m = "TX" => ~h.gt) BY <1>1, DirTypes
<1>3. PICK e : e = St(h, "READY") OBVIOUS
<1>4. /\ h.st \in {"SCHEDULE_PENDING", "SCHEDULED"} /\ s.t.fired /\ Edited(s, r, e) /\ r.t = s.t /\ r.job = s.job
  BY <1>1, <1>3 DEF Releases
<1>5. e.st = "READY" /\ e.gt = h.gt /\ e.id = h.id BY <1>1, <1>3, StCells DEF EntryStates
<1>6. HeadInv(e, r.t, D) BY <1>2, <1>4, <1>5 DEF HeadInv
<1>7. HeadJob(m, e, r.job, f, s.q.clr) BY <1>2, <1>4, <1>5 DEF HeadJob, JobStates
<1> QED BY <1>2, <1>4, <1>5, <1>6, <1>7, SameFrame, EditPreserves

LEMMA CancelsDir ==
  ASSUME NEW m \in Modules, NEW D, NEW f, NEW s, DirOk(m, s, D, f), NEW r, Cancels(s, r)
  PROVE  Preserves(m, s, r, D, f)
<1>1. PICK h \in Entry : h = Head(s.q) BY DirTypes
<1>2. /\ HeadInv(h, s.t, D) /\ HeadJob(m, h, s.job, f, s.q.clr) /\ (m = "TX" => ~h.gt) /\ s.t \in TamerT
  BY <1>1, DirTypes
<1>3. h.st = "CANCEL_PENDING" /\ r.job = s.job BY <1>1 DEF Cancels
<1>4. ASSUME NEW b \in BOOLEAN, NEW e, e = [h EXCEPT !.cseen = b, !.cpend = FALSE], Edited(s, r, e), r.t = s.t
      PROVE  Preserves(m, s, r, D, f)
  <2>1. e.st = h.st /\ e.gt = h.gt /\ e.id = h.id /\ e.cpend = FALSE BY <1>1, <1>4 DEF Entry
  <2>2. HeadInv(e, r.t, D) BY <1>2, <1>3, <1>4, <2>1 DEF HeadInv, JobStates
  <2>3. HeadJob(m, e, r.job, f, s.q.clr) BY <1>2, <1>3, <2>1 DEF HeadJob, JobStates
  <2> QED BY <1>2, <1>3, <1>4, <2>1, <2>2, <2>3, SameFrame, EditPreserves
<1>5. ASSUME NEW e, e = Requested(h, s.t), Edited(s, r, e), r.t = CancelRequested(s.t)
      PROVE  Preserves(m, s, r, D, f)
  <2>1. e.st = h.st /\ e.gt = h.gt /\ e.id = h.id BY <1>1, <1>2, <1>5, RequestedCells
  <2>2. ~ArmedT(r.t) /\ ~r.t.fired BY <1>2, <1>5, CancelRequestedType DEF ArmedT
  <2>3. HeadInv(e, r.t, D) BY <1>3, <2>1, <2>2 DEF HeadInv, JobStates
  <2>4. HeadJob(m, e, r.job, f, s.q.clr) BY <1>2, <1>3, <2>1 DEF HeadJob, JobStates
  <2> QED BY <1>2, <1>3, <1>5, <2>1, <2>3, <2>4, SameFrame, EditPreserves
<1> QED BY <1>1, <1>4, <1>5 DEF Cancels

LEMMA LoadsGainsDir ==
  ASSUME NEW m \in Modules, NEW D, NEW f, NEW s, DirOk(m, s, D, f), NEW r, LoadsGains(s, r), f => s.q.clr
  PROVE  Preserves(m, s, r, D, f) /\ Fewer(s.job, r.job)
<1>1. PICK h \in Entry : h = Head(s.q) BY DirTypes
<1>2. /\ HeadInv(h, s.t, D) /\ HeadJob(m, h, s.job, f, s.q.clr) /\ (m = "TX" => ~h.gt) /\ s.job \in JobT
  BY <1>1, DirTypes
<1>3. PICK e : e = St(h, "GAIN_TABLE_PENDING") OBVIOUS
<1>4. h.st = "READY" /\ h.gt /\ Edited(s, r, e) /\ r.t = s.t /\ r.job = [s.job EXCEPT !.gt = TRUE]
  BY <1>1, <1>3 DEF LoadsGains
<1>5. e.st = "GAIN_TABLE_PENDING" /\ e.gt = h.gt /\ e.id = h.id /\ e.imm = h.imm
  BY <1>1, <1>3, StCells DEF EntryStates
<1>6. /\ r.job.gt = TRUE /\ r.job.load = s.job.load /\ r.job.recall = s.job.recall /\ r.job.txq = s.job.txq
  BY <1>2, <1>4, JobParts
<1>7. HeadInv(e, r.t, D) BY <1>2, <1>4, <1>5 DEF HeadInv, Comparing, JobStates
<1>8. m = "RX" BY <1>2, <1>4 DEF Modules
<1>9. HeadJob(m, e, r.job, f, s.q.clr) BY <1>2, <1>4, <1>5, <1>6, <1>8 DEF HeadJob
<1>10. Frame(m, s.job, r.job) /\ Fewer(s.job, r.job) BY <1>6, <1>8 DEF Frame, Fewer
<1> QED BY <1>2, <1>4, <1>5, <1>6, <1>7, <1>9, <1>10, EditPreserves

LEMMA GainsLoadedDir ==
  ASSUME NEW m \in Modules, NEW D, NEW f, NEW s, DirOk(m, s, D, f), NEW r, GainsLoaded(s, r)
  PROVE  Preserves(m, s, r, D, f) /\ Fewer(s.job, r.job)
<1>1. PICK h \in Entry : h = Head(s.q) BY DirTypes
<1>2. /\ HeadInv(h, s.t, D) /\ HeadJob(m, h, s.job, f, s.q.clr) /\ (m = "TX" => ~h.gt) /\ s.job \in JobT
  BY <1>1, DirTypes
<1>3. PICK e : e = [h EXCEPT !.gt = FALSE, !.st = "READY"] OBVIOUS
<1>4. h.st = "GAIN_TABLE_PENDING" /\ Edited(s, r, e) /\ r.t = s.t /\ r.job = [s.job EXCEPT !.gt = FALSE]
  BY <1>1, <1>3 DEF GainsLoaded
<1>5. e.st = "READY" /\ e.gt = FALSE /\ e.id = h.id /\ e.imm = h.imm BY <1>1, <1>3 DEF Entry
<1>6. /\ r.job.gt = FALSE /\ r.job.load = s.job.load /\ r.job.recall = s.job.recall /\ r.job.txq = s.job.txq
  BY <1>2, <1>4, JobParts
<1>7. HeadInv(e, r.t, D) BY <1>2, <1>4, <1>5 DEF HeadInv, Comparing, JobStates
<1>8. m = "RX" BY <1>2, <1>4 DEF HeadJob
<1>9. HeadJob(m, e, r.job, f, s.q.clr) BY <1>2, <1>4, <1>5, <1>6, <1>8 DEF HeadJob, JobStates
<1>10. Frame(m, s.job, r.job) /\ Fewer(s.job, r.job) BY <1>6, <1>8 DEF Frame, Fewer
<1> QED BY <1>2, <1>4, <1>5, <1>6, <1>7, <1>9, <1>10, EditPreserves

LEMMA RecallsDir ==
  ASSUME NEW m \in Modules, NEW D, NEW f, NEW s, DirOk(m, s, D, f), NEW r, Recalls(m, s, r), ~f,
         ~Owned(s.job), Head(s.q).imm \/ Head(s.q).id \in D
  PROVE  Preserves(m, s, r, D, f)
<1>1. PICK h \in Entry : h = Head(s.q) BY DirTypes
<1>2. /\ HeadInv(h, s.t, D) /\ HeadJob(m, h, s.job, f, s.q.clr) /\ (m = "TX" => ~h.gt) /\ s.job \in JobT
  BY <1>1, DirTypes
<1>3. PICK e : e = St(h, "PLL_PENDING") OBVIOUS
<1>4. /\ h.st \in {"READY", "CANCEL_PENDING"} /\ Edited(s, r, e) /\ r.t = s.t /\ ~ArmedT(s.t)
      /\ r.job = [s.job EXCEPT !.recall = m] /\ s.job.recall = None
  BY <1>1, <1>3 DEF Recalls, Owned
<1>5. e.st = "PLL_PENDING" /\ e.gt = h.gt /\ e.id = h.id /\ e.imm = h.imm
  BY <1>1, <1>3, StCells DEF EntryStates
<1>6. /\ r.job.recall = m /\ r.job.load = s.job.load /\ r.job.gt = s.job.gt /\ r.job.txq = s.job.txq
  BY <1>2, <1>4, JobParts
<1>7. HeadInv(e, r.t, D) BY <1>1, <1>4, <1>5 DEF HeadInv, Comparing, JobStates
<1>8. HeadJob(m, e, r.job, f, s.q.clr) BY <1>2, <1>4, <1>5, <1>6 DEF HeadJob
<1>9. Frame(m, s.job, r.job) BY <1>4, <1>6 DEF Frame
<1> QED BY <1>2, <1>4, <1>5, <1>6, <1>7, <1>8, <1>9, EditPreserves

LEMMA CalibratesDir ==
  ASSUME NEW m \in Modules, NEW D, NEW f, NEW s, DirOk(m, s, D, f), NEW r, Calibrates(m, s, r), ~f
  PROVE  Preserves(m, s, r, D, f)
<1>1. PICK h \in Entry : h = Head(s.q) BY DirTypes
<1>2. /\ HeadInv(h, s.t, D) /\ HeadJob(m, h, s.job, f, s.q.clr) /\ (m = "TX" => ~h.gt) /\ s.job \in JobT
  BY <1>1, DirTypes
<1>3. PICK e : e = St(h, "TXQ_PENDING") OBVIOUS
<1>4. /\ h.st = "PLL_PENDING" /\ m = "TX" /\ Edited(s, r, e) /\ r.t = s.t
      /\ r.job = [s.job EXCEPT !.recall = None, !.txq = TRUE]
  BY <1>1, <1>3 DEF Calibrates
<1>5. e.st = "TXQ_PENDING" /\ e.gt = h.gt /\ e.id = h.id /\ e.imm = h.imm
  BY <1>1, <1>3, StCells DEF EntryStates
<1>6. /\ r.job.recall = None /\ r.job.txq = TRUE /\ r.job.load = s.job.load /\ r.job.gt = s.job.gt
  BY <1>2, <1>4, JobParts
<1>7. HeadInv(e, r.t, D) BY <1>2, <1>4, <1>5 DEF HeadInv, Comparing, JobStates
<1>8. HeadJob(m, e, r.job, f, s.q.clr) BY <1>4, <1>5, <1>6 DEF HeadJob
<1>9. Frame(m, s.job, r.job) BY <1>2, <1>4, <1>6 DEF Frame, HeadJob
<1> QED BY <1>2, <1>4, <1>5, <1>6, <1>7, <1>8, <1>9, EditPreserves

LEMMA OrphansDir ==
  ASSUME NEW m \in Modules, NEW D, NEW f, NEW s, DirOk(m, s, D, f), NEW r, Orphans(m, s, r), ~Owned(s.job)
  PROVE  Preserves(m, s, r, D, f)
<1>1. /\ s.q.cnt = 0 /\ r \in ViewT /\ r.q = s.q /\ r.t = s.t
      /\ r.job = [s.job EXCEPT !.recall = m] /\ s.job.recall = None /\ s.job \in JobT
  BY DirTypes DEF Orphans, Owned
<1>2. /\ r.job.recall = m /\ r.job.load = s.job.load /\ r.job.gt = s.job.gt /\ r.job.txq = s.job.txq
  BY <1>1, JobParts
<1>3. DirOk(m, r, D, f) BY <1>1, <1>2 DEF DirOk, HeadJob, LoadInv
<1>4. Frame(m, s.job, r.job) BY <1>1, <1>2 DEF Frame
<1> QED BY <1>1, <1>3, <1>4 DEF Preserves

\* perform_work() outside the steps that start a job of the RFIC.
LEMMA PerformsDir ==
  ASSUME NEW m \in Modules, NEW D, NEW f, NEW s, DirOk(m, s, D, f), NEW r, Performs(s, r), f => Quiet(s.q)
  PROVE  Preserves(m, s, r, D, f) /\ Fewer(s.job, r.job)
<1>1. CASE r = s BY <1>1, SameFrame DEF Preserves
<1>2. CASE LoadsGains(s, r)
  <2>1. s.q.cnt > 0 BY <1>2 DEF LoadsGains, Edited
  <2>2. f => s.q.clr BY <2>1 DEF Quiet
  <2> QED BY <1>2, <2>2, LoadsGainsDir
<1>3. CASE JobOver(s, r) \/ GainsLoaded(s, r) BY <1>3, JobOverDir, GainsLoadedDir
<1>4. CASE Sweeps(s, r) \/ Leaves(s, r) \/ Disarms(s, r)
  BY <1>4, SweepsDir, LeavesDir, DisarmsDir, SameFrame DEF Sweeps, Leaves, Disarms
<1>5. CASE Arms(s, r) \/ GivesUp(s, r) \/ Acknowledges(s, r) \/ Releases(s, r) \/ Cancels(s, r)
  BY <1>5, ArmsDir, GivesUpDir, AcknowledgesDir, ReleasesDir, CancelsDir, SameFrame
     DEF Arms, GivesUp, Acknowledges, Releases, Cancels
<1> QED BY <1>1, <1>2, <1>3, <1>4, <1>5 DEF Performs

-----------------------------------------------------------------------------
(* The worker pass.                                                        *)

\* The invariant of both directions but for the call and the host.
Dirs(Q, T, D, j, f) ==
  \A n \in Modules :
    /\ TailInv(Q[n]) /\ HeadInv(Head(Q[n]), T[n], D)
    /\ LoadInv(n, Q[n], j) /\ HeadJob(n, Head(Q[n]), j, f, Q[n].clr)

LEMMA IInvDir ==
  ASSUME IInv, NEW m \in Modules
  PROVE  DirOk(m, View(m), due, fault)
<1>1. /\ View(m) \in ViewT /\ View(m).q = q[m] /\ View(m).t = tamer[m] /\ View(m).job = job /\ Ring(q[m])
  BY ViewTypes DEF IInv
<1>2. DirInv(m) BY DEF IInv
<1> QED BY <1>1, <1>2 DEF DirOk, DirInv

LEMMA PutDirs ==
  ASSUME IInv, NEW m \in Modules, NEW r, Put(m, r), Preserves(m, View(m), r, due, fault)
  PROVE  /\ q' \in [Modules -> QueueT] /\ tamer' \in [Modules -> TamerT] /\ job' \in JobT /\ out' \in OutT
         /\ \A n \in Modules : Ring(q'[n])
         /\ Dirs(q', tamer', due, job', fault)
         /\ \A n \in Modules : (Quiet(q[n]) => Quiet(q'[n])) /\ (q'[n].defer => q[n].defer)
         /\ \A n \in Modules : IdsUsed(q'[n], used.req)
         /\ q'[m] = r.q /\ tamer'[m] = r.t /\ job' = r.job
         /\ \A n \in Modules : n # m => q'[n] = q[n] /\ tamer'[n] = tamer[n]
<1>1. /\ q \in [Modules -> QueueT] /\ tamer \in [Modules -> TamerT] /\ \A n \in Modules : Ring(q[n])
  BY DEF IInv, Types
<1>2. /\ DirOk(m, r, due, fault) /\ Frame(m, job, r.job)
      /\ (Quiet(q[m]) => Quiet(r.q)) /\ (r.q.defer => q[m].defer) /\ Ids(r.q) \subseteq Ids(q[m])
  BY ViewTypes DEF Preserves, IInv
<1>3. /\ r \in ViewT /\ Ring(r.q) /\ TailInv(r.q) /\ HeadInv(Head(r.q), r.t, due)
      /\ LoadInv(m, r.q, r.job) /\ HeadJob(m, Head(r.q), r.job, fault, r.q.clr)
  BY <1>2 DEF DirOk
<1>4. r.q \in QueueT /\ r.t \in TamerT /\ r.job \in JobT /\ r.out \in OutT BY <1>3 DEF ViewT
<1>5. /\ q' = [q EXCEPT ![m] = r.q] /\ tamer' = [tamer EXCEPT ![m] = r.t] /\ job' = r.job /\ out' = r.out
  BY DEF Put
<1>6. /\ q'[m] = r.q /\ tamer'[m] = r.t
      /\ \A n \in Modules : n # m => q'[n] = q[n] /\ tamer'[n] = tamer[n]
  BY <1>1, <1>5
<1>7. q' \in [Modules -> QueueT] /\ tamer' \in [Modules -> TamerT] BY <1>1, <1>4, <1>5
<1>8. \A n \in Modules : Ring(q'[n]) BY <1>1, <1>3, <1>6
<1>9. ASSUME NEW n \in Modules
      PROVE  /\ TailInv(q'[n]) /\ HeadInv(Head(q'[n]), tamer'[n], due)
             /\ LoadInv(n, q'[n], job') /\ HeadJob(n, Head(q'[n]), job', fault, q'[n].clr)
  <2>1. CASE n = m BY <1>3, <1>5, <1>6, <2>1
  <2>2. CASE n # m
    <3>1. DirInv(n) BY DEF IInv
    <3>2. /\ TailInv(q[n]) /\ HeadInv(Head(q[n]), tamer[n], due)
          /\ LoadInv(n, q[n], job) /\ HeadJob(n, Head(q[n]), job, fault, q[n].clr)
      BY <3>1 DEF DirInv
    <3>3. LoadInv(n, q[n], r.job) /\ HeadJob(n, Head(q[n]), r.job, fault, q[n].clr)
      BY <1>2, <2>2, <3>2, OtherDir
    <3> QED BY <1>5, <1>6, <2>2, <3>2, <3>3
  <2> QED BY <2>1, <2>2
<1>10. Dirs(q', tamer', due, job', fault) BY <1>9 DEF Dirs
<1>11. \A n \in Modules : (Quiet(q[n]) => Quiet(q'[n])) /\ (q'[n].defer => q[n].defer)
  BY <1>2, <1>6
<1>12. \A n \in Modules : IdsUsed(q'[n], used.req) BY <1>2, <1>6 DEF IInv, Types, IdsUsed
<1> QED BY <1>4, <1>5, <1>6, <1>7, <1>8, <1>10, <1>11, <1>12

\* No call: what DirInv asks of one holds.
LEMMA NoCallInv ==
  ASSUME NEW Q, NEW t, NEW D
  PROVE  /\ \A m \in Modules : CallInv(m, Q, t, D, NoCall)
         /\ NoCall.at = None /\ NoCall \in CallT
<1>1. NoCall.m = None /\ NoCall.at = None BY DEF NoCall
<1>2. 0 \in Indices BY Sizes DEF Indices
<1>3. NoCall \in CallT BY <1>2 DEF NoCall, CallT, Some
<1> QED BY <1>1, <1>3, Sizes DEF CallInv

LEMMA StepIInv ==
  ASSUME IInv, NEW m \in Modules, NEW ret, NEW r, Step(m, ret, r), Preserves(m, View(m), r, due, fault),
         call' = NoCall, sel' \in [Modules -> Slots \cup {None}],
         OneJob(r.job), r.job.txq => ~fault, ret = "rx" => ~r.job.txq,
         fault => \A n \in Modules : Quiet(q[n]),
         \A n \in Modules : q[n].defer => Owned(r.job) /\ ret = "end"
  PROVE  IInv'
<1>1. Put(m, r) /\ turn' = After(ret, r.job) /\ UNCHANGED <<fault, host, used, due, covered>>
  BY DEF Step, WorkUnchanged
<1>2. /\ q' \in [Modules -> QueueT] /\ tamer' \in [Modules -> TamerT] /\ job' \in JobT /\ out' \in OutT
      /\ \A n \in Modules : Ring(q'[n])
      /\ Dirs(q', tamer', due, job', fault)
      /\ \A n \in Modules : (Quiet(q[n]) => Quiet(q'[n])) /\ (q'[n].defer => q[n].defer)
      /\ \A n \in Modules : IdsUsed(q'[n], used.req)
      /\ job' = r.job
  BY <1>1, PutDirs
<1>3. turn' \in Turns BY <1>1 DEF After, Turns
<1>4. Types'
  BY <1>1, <1>2, <1>3, NoCallInv DEF IInv, Types
<1>5. turn' # "idle" => ~Owned(r.job) BY <1>1 DEF After, Owned
<1>6. NoCall.at # "ready" /\ NoCall.at # "new" BY DEF NoCall, None
<1>7. PassInv(job, fault, turn, call)' BY <1>1, <1>2, <1>5, <1>6 DEF PassInv
<1>8. QuietInv' BY <1>1, <1>2 DEF QuietInv
<1>9. ASSUME NEW n \in Modules PROVE DirInv(n)'
  <2>1. /\ TailInv(q'[n]) /\ HeadInv(Head(q'[n]), tamer'[n], due')
        /\ LoadInv(n, q'[n], job') /\ HeadJob(n, Head(q'[n]), job', fault', q'[n].clr)
    BY <1>1, <1>2 DEF Dirs
  <2>2. CallInv(n, q'[n], tamer'[n], due', call') BY NoCallInv
  <2>3. DeferInv(n, q'[n], job', turn', call', host')
    <3>1. SUFFICES ASSUME q'[n].defer
                   PROVE /\ host'.at = "clear" /\ host'.m = n
                         /\ Owned(job') /\ turn' = "idle" /\ call'.at # "ready"
      BY DEF DeferInv
    <3>2. q[n].defer BY <1>2, <3>1
    <3>3. host.at = "clear" /\ host.m = n BY <3>2 DEF IInv, DirInv, DeferInv
    <3>4. turn' = "idle" BY <1>1, <3>2 DEF After
    <3> QED BY <1>1, <1>2, <1>6, <3>2, <3>3, <3>4
  <2> QED BY <2>1, <2>2, <2>3 DEF DirInv
<1> QED BY <1>4, <1>7, <1>8, <1>9 DEF IInv

LEMMA SettledFacts ==
  ASSUME IInv, Settled
  PROVE  /\ fault => \A n \in Modules : Quiet(q[n])
         /\ \A n \in Modules : ~q[n].defer
<1>1. ASSUME fault, NEW n \in Modules, ~Quiet(q[n]) PROVE FALSE
  <2>1. q[n] \in QueueT /\ Ring(q[n]) BY ViewTypes DEF IInv
  <2>2. q[n].cnt \in 0 .. QueueMax /\ q[n].cnt # 0 /\ ~q[n].clr BY <1>1, <2>1 DEF Quiet, QueueT
  <2>3. q[n].cnt > 0 BY <2>2, Sizes
  <2>4. ~FaultPending(n) BY DEF Settled
  <2>5. HeadOf(q[n]).st \in JobStates BY <1>1, <2>2, <2>3, <2>4 DEF FaultPending
  <2>6. Head(q[n]).st \in JobStates BY <2>1, <2>5, Headed
  <2> QED BY <1>1, <2>2, <2>6 DEF IInv, DirInv, HeadJob
<1> QED BY <1>1 DEF Settled

LEMMA WorkingFacts ==
  ASSUME IInv, NEW m \in Modules, NEW ret, Working(m, ret)
  PROVE  /\ call = NoCall
         /\ fault => \A n \in Modules : Quiet(q[n])
         /\ \A n \in Modules : ~q[n].defer
         /\ ret = "rx" => ~Owned(job) /\ m = "RX"
         /\ ret # "end" => ~Owned(job)
         /\ Head(q[m]).st \in {"NEW", "READY"} => job.load = None /\ ~job.txq
         /\ ret \in {"rx", "tx", "end"}
<1>1. call = NoCall /\ ret \in {"rx", "tx", "end"} BY DEF Working
<1>2. turn # "idle" \/ Settled BY DEF Working, HeadTurn
<1>3. /\ fault => \A n \in Modules : Quiet(q[n])
      /\ \A n \in Modules : ~q[n].defer
  BY <1>2, SettledFacts DEF IInv, QuietInv, DirInv, DeferInv
<1>4. turn # "idle" => ~Owned(job) BY DEF IInv, PassInv
<1>5. (ret = "rx" => ~Owned(job) /\ m = "RX") /\ (ret # "end" => ~Owned(job))
  BY <1>4 DEF Working, HeadTurn
<1>6. HeadJob(m, Head(q[m]), job, fault, q[m].clr) /\ OneJob(job) BY DEF IInv, DirInv, PassInv
<1>7. Head(q[m]).st \in {"NEW", "READY"} => job.load = None /\ ~job.txq
  <2>1. SUFFICES ASSUME Head(q[m]).st \in {"NEW", "READY"} PROVE job.load = None /\ ~job.txq OBVIOUS
  <2>2. ~(m = "RX" /\ job.gt) /\ ~(m = "TX" /\ job.txq) BY <1>6, <2>1 DEF HeadJob
  <2>3. CASE ~Owned(job) BY <2>3 DEF Owned
  <2>4. CASE Owned(job)
    <3>1. job.load = None /\ job.recall = m BY <1>4, <2>2, <2>4 DEF Working, HeadTurn
    <3> QED BY <1>6, <3>1, Sizes DEF OneJob
  <2> QED BY <2>3, <2>4
<1> QED BY <1>1, <1>3, <1>5, <1>7

\* The worker enters an SPI call.
LEMMA InCallIInv ==
  ASSUME IInv, NEW m \in Modules, NEW ret, Working(m, ret), NEW at \in {"new", "ready"}, InCall(at, m, ret),
         sel' \in [Modules -> Slots \cup {None}],
         at = "new" => Head(q[m]).st = "NEW" /\ ~Head(q[m]).res,
         at = "ready" => Head(q[m]).st = "READY" /\ ~fault /\ job.recall = None
  PROVE  IInv'
<1>1. /\ UNCHANGED <<q, tamer, job, out, turn>> /\ UNCHANGED <<fault, host, used, due, covered>>
      /\ call' = [at |-> at, m |-> m, i |-> q[m].rem, ret |-> ret, hook |-> FALSE]
  BY DEF InCall, WorkUnchanged
<1>2. q[m] \in QueueT /\ Ring(q[m]) BY ViewTypes DEF IInv
<1>3. q[m].rem \in Indices /\ q[m].cnt > 0 BY <1>2, Headed
<1>4. ret \in {"rx", "tx", "end"} /\ fault => \A n \in Modules : Quiet(q[n]) BY WorkingFacts
<1>5. call'.at = at /\ call'.m = m /\ call'.i = q[m].rem /\ call'.ret = ret BY <1>1
<1>6. call' \in CallT /\ call'.at # None /\ call'.ret # None
  BY <1>1, <1>3, WorkingFacts DEF CallT, Some, None
<1>7. Types' BY <1>1, <1>5, <1>6 DEF IInv, Types
<1>8. QuietInv' BY <1>1, WorkingFacts DEF QuietInv
<1>9. PassInv(job, fault, turn, call)'
  BY <1>1, <1>5, WorkingFacts DEF IInv, PassInv, Owned
<1>10. ASSUME NEW n \in Modules PROVE DirInv(n)'
  <2>1. DirInv(n) BY DEF IInv
  <2>2. CallInv(n, q[n], tamer[n], due, call')
    <3>1. CASE n # m BY <1>5, <3>1 DEF CallInv
    <3>2. CASE n = m
      <4>1. HeadInv(Head(q[m]), tamer[m], due) BY <2>1, <3>2 DEF DirInv
      <4>2. Head(q[m]).st \in {"NEW", "READY"} OBVIOUS
      <4>3. ~ArmedT(tamer[m]) BY <4>1, <4>2 DEF HeadInv, Comparing
      <4>4. Head(q[m]).st = "READY" => Head(q[m]).imm \/ Head(q[m]).id \in due BY <4>1 DEF HeadInv
      <4> QED BY <1>3, <1>5, <3>2, <4>3, <4>4 DEF CallInv
    <3> QED BY <3>1, <3>2
  <2>3. ~q[n].defer BY WorkingFacts
  <2> QED BY <1>1, <2>1, <2>2, <2>3 DEF DirInv, DeferInv
<1> QED BY <1>7, <1>8, <1>9, <1>10 DEF IInv

LEMMA FewerJobs ==
  ASSUME NEW j, NEW k, NEW f, Fewer(j, k), OneJob(j), j.txq => ~f
  PROVE  OneJob(k) /\ (k.txq => ~f) /\ (~j.txq => ~k.txq)
BY DEF Fewer, OneJob

LEMMA UploadsJobs ==
  ASSUME NEW m \in Modules, NEW s \in ViewT, NEW r, Uploads(m, s, r)
  PROVE  OneJob(r.job) /\ ~r.job.txq /\ ~Owned(s.job)
<1>1. s.job \in JobT /\ ~Owned(s.job) /\ r.job = [s.job EXCEPT !.load = m] BY DEF Uploads, ViewT
<1>2. r.job.load = m /\ SameJobs(s.job, r.job) BY <1>1, JobParts
<1> QED BY <1>1, <1>2 DEF Owned, OneJob

LEMMA PerformWorkIInv ==
  ASSUME IInv, NEW m \in Modules, NEW ret, Working(m, ret), PerformWork(m, ret)
  PROVE  IInv'
<1>1. PICK s : s = View(m) OBVIOUS
<1>2. s \in ViewT /\ s.q = q[m] /\ s.job = job /\ DirOk(m, s, due, fault) /\ q[m] \in QueueT /\ Ring(q[m])
  BY <1>1, ViewTypes, IInvDir DEF IInv
<1>3. sel \in [Modules -> Slots \cup {None}] /\ OneJob(job) /\ (job.txq => ~fault) BY DEF IInv, Types, PassInv
<1>4. CASE InCall("new", m, ret) /\ UNCHANGED sel /\ Head(q[m]).st = "NEW" /\ MustAsk(m, Head(q[m]))
  BY <1>3, <1>4, InCallIInv DEF MustAsk
<1>5. CASE /\ InCall("ready", m, ret) /\ Head(q[m]).st = "READY" /\ ~fault /\ job.recall = None
           /\ sel' = [sel EXCEPT ![m] = Head(q[m]).slot]
  <2>1. Head(q[m]).slot \in Slots BY <1>2, <1>5, Headed
  <2>2. sel' \in [Modules -> Slots \cup {None}] BY <1>3, <1>5, <2>1
  <2> QED BY <1>5, <2>2, InCallIInv
<1>6. ASSUME NEW r, Step(m, ret, r), UNCHANGED <<sel, call>>,
             \/ Performs(s, r) \/ Uploads(m, s, r) \/ (~fault /\ Calibrates(m, s, r))
      PROVE  IInv'
  <2>1. /\ call' = NoCall /\ (fault => \A n \in Modules : Quiet(q[n])) /\ \A n \in Modules : ~q[n].defer
        /\ ret = "rx" => ~Owned(job) /\ m = "RX"
    BY <1>6, WorkingFacts
  <2>2. /\ Preserves(m, s, r, due, fault) /\ OneJob(r.job) /\ (r.job.txq => ~fault)
        /\ (ret = "rx" => ~r.job.txq)
    <3>1. CASE Performs(s, r)
      <4>1. Preserves(m, s, r, due, fault) /\ Fewer(job, r.job) BY <1>2, <2>1, <3>1, PerformsDir
      <4> QED BY <1>3, <2>1, <4>1, FewerJobs DEF Owned
    <3>2. CASE Uploads(m, s, r) BY <1>2, <3>2, UploadsDir, UploadsJobs
    <3>3. CASE ~fault /\ Calibrates(m, s, r)
      <4>1. Preserves(m, s, r, due, fault) BY <1>2, <3>3, CalibratesDir
      <4>2. /\ m = "TX" /\ r.job = [job EXCEPT !.recall = None, !.txq = TRUE] /\ Head(q[m]).st = "PLL_PENDING"
        BY <1>2, <3>3 DEF Calibrates
      <4>3. job.recall = m BY <4>2 DEF IInv, DirInv, HeadJob
      <4>4. job \in JobT BY DEF IInv, Types
      <4>5. r.job.recall = None /\ r.job.load = job.load BY <4>2, <4>4, JobParts
      <4>6. OneJob(r.job) BY <1>3, <4>3, <4>5, Sizes DEF OneJob
      <4> QED BY <2>1, <3>3, <4>1, <4>2, <4>6
    <3> QED BY <1>6, <3>1, <3>2, <3>3
  <2> QED BY <1>1, <1>3, <1>6, <2>1, <2>2, StepIInv
<1> QED BY <1>1, <1>4, <1>5, <1>6, PerformWorkEffect

LEMMA NewAnsweredIInv ==
  ASSUME IInv, NewAnswered
  PROVE  IInv'
<1>1. /\ call.m \in Modules /\ call # NoCall /\ call' = NoCall /\ sel' \in [Modules -> Slots \cup {None}]
      /\ \E r : /\ Step(call.m, call.ret, r)
                /\ Leaves(View(call.m), r) \/ Uploads(call.m, View(call.m), r)
  BY NewAnsweredEffect
<1>2. PICK m \in Modules : m = call.m BY <1>1
<1>3. PICK s : s = View(m) OBVIOUS
<1>4. PICK r : Step(m, call.ret, r) /\ (Leaves(s, r) \/ Uploads(m, s, r)) BY <1>1, <1>2, <1>3
<1>5. s \in ViewT /\ s.q = q[m] /\ s.job = job /\ DirOk(m, s, due, fault)
  BY <1>3, ViewTypes, IInvDir DEF IInv
<1>6. call.at = "new" BY DEF NewAnswered
<1>7. /\ job.load = None /\ ~job.txq /\ (call.ret # "end" => job.recall = None) /\ OneJob(job)
  BY <1>6 DEF IInv, PassInv
<1>8. fault => \A n \in Modules : Quiet(q[n]) BY <1>1 DEF IInv, QuietInv
<1>9. /\ Preserves(m, s, r, due, fault) /\ OneJob(r.job) /\ ~r.job.txq
      /\ Owned(job) => r.job = job
  <2>1. CASE Leaves(s, r) BY <1>5, <1>7, <2>1, LeavesDir DEF Leaves
  <2>2. CASE Uploads(m, s, r) BY <1>5, <2>2, UploadsDir, UploadsJobs
  <2> QED BY <1>4, <2>1, <2>2
<1>10. ASSUME NEW n \in Modules, q[n].defer PROVE Owned(r.job) /\ call.ret = "end"
  <2>1. Owned(job) BY <1>10 DEF IInv, DirInv, DeferInv
  <2> QED BY <1>7, <1>9, <2>1 DEF Owned
<1> QED BY <1>1, <1>3, <1>4, <1>8, <1>9, <1>10, StepIInv

LEMMA ReadyAnsweredIInv ==
  ASSUME IInv, ReadyAnswered
  PROVE  IInv'
<1>1. /\ call.m \in Modules /\ call # NoCall /\ call' = NoCall /\ UNCHANGED sel
      /\ ~Owned(job) /\ ~fault
      /\ \E r : /\ Step(call.m, call.ret, r)
                /\ \/ r = View(call.m) /\ q[call.m].cnt = 0
                   \/ Leaves(View(call.m), r) \/ Orphans(call.m, View(call.m), r)
                   \/ /\ Recalls(call.m, View(call.m), r)
                      /\ Head(q[call.m]).imm \/ Head(q[call.m]).id \in due
  BY ReadyAnsweredEffect
<1>2. PICK m \in Modules : m = call.m BY <1>1
<1>3. PICK s : s = View(m) OBVIOUS
<1>4. PICK r : /\ Step(m, call.ret, r)
               /\ \/ r = s \/ Leaves(s, r) \/ Orphans(m, s, r)
                  \/ Recalls(m, s, r) /\ (Head(q[m]).imm \/ Head(q[m]).id \in due)
  BY <1>1, <1>2, <1>3
<1>5. s \in ViewT /\ s.q = q[m] /\ s.job = job /\ DirOk(m, s, due, fault) /\ job \in JobT
  BY <1>3, ViewTypes, IInvDir DEF IInv, Types
<1>6. sel' \in [Modules -> Slots \cup {None}] BY <1>1 DEF IInv, Types
<1>7. \A n \in Modules : ~q[n].defer BY <1>1 DEF IInv, DirInv, DeferInv
<1>8. Preserves(m, s, r, due, fault) /\ OneJob(r.job) /\ ~r.job.txq
  <2>1. CASE r = s BY <1>1, <1>5, <2>1, SameFrame DEF Preserves, OneJob, Owned
  <2>2. CASE Leaves(s, r) BY <1>1, <1>5, <2>2, LeavesDir DEF Leaves, OneJob, Owned
  <2>3. ASSUME r.job = [job EXCEPT !.recall = m] PROVE OneJob(r.job) /\ ~r.job.txq
    <3>1. r.job.load = job.load /\ r.job.txq = job.txq BY <1>5, <2>3, JobParts
    <3> QED BY <1>1, <3>1 DEF OneJob, Owned
  <2>4. CASE Orphans(m, s, r) BY <1>1, <1>5, <2>3, <2>4, OrphansDir DEF Orphans
  <2>5. CASE Recalls(m, s, r) /\ (Head(q[m]).imm \/ Head(q[m]).id \in due)
    <3>1. Preserves(m, s, r, due, fault) BY <1>1, <1>5, <2>5, RecallsDir
    <3> QED BY <1>5, <2>3, <2>5, <3>1 DEF Recalls
  <2> QED BY <1>4, <2>1, <2>2, <2>4, <2>5
<1> QED BY <1>1, <1>3, <1>4, <1>6, <1>7, <1>8, StepIInv

-----------------------------------------------------------------------------
(* CLEAR and the RFIC's fault.                                             *)

\* What a cell other than the head becomes.
LEMMA DroppedCells ==
  ASSUME NEW x \in Entry
  PROVE  /\ Dropped(x).st = "LOAD_FAILED" /\ Dropped(x).id = x.id /\ Dropped(x).slot = x.slot
         /\ Dropped(x).imm = x.imm /\ Dropped(x).gt = x.gt /\ Dropped(x).res = x.res
         /\ Dropped(x).rep
BY DEF Dropped, Entry

LEMMA TailCells ==
  ASSUME NEW x \in Entry
  PROVE  /\ Dropped(x).st = "LOAD_FAILED" /\ Dropped(x).imm = x.imm /\ Dropped(x).gt = x.gt
         /\ Told(x).st = x.st /\ Told(x).imm = x.imm /\ Told(x).gt = x.gt
         /\ Dropped(x).id = x.id /\ Dropped(x).slot = x.slot /\ Told(x).id = x.id /\ Told(x).slot = x.slot
BY DroppedCells, HeadCells

\* Only the uploads behind the head end; h is the new head.
LEMMA StagedDir ==
  ASSUME NEW m \in Modules, NEW D, NEW f, NEW s, DirOk(m, s, D, f), NEW r \in ViewT,
         r.q.rem = s.q.rem, r.q.cnt = s.q.cnt, r.q.done = s.q.done,
         \A i \in Indices \ Live(s.q) : r.q.ent[i] = s.q.ent[i],
         \A i \in Live(s.q) : i # s.q.rem =>
           IF i \in Loading(s.q) THEN r.q.ent[i] = Dropped(s.q.ent[i])
           ELSE r.q.ent[i] \in {s.q.ent[i], Told(s.q.ent[i])},
         s.q.cnt > 0 => /\ Head(r.q).st \notin {"INVALID", "LOAD_PENDING"} /\ Head(r.q).id = Head(s.q).id
                        /\ Head(r.q).slot = Head(s.q).slot /\ Head(r.q).imm = Head(s.q).imm
                        /\ Head(r.q).gt = Head(s.q).gt,
         HeadInv(Head(r.q), r.t, D), HeadJob(m, Head(r.q), r.job, f, r.q.clr)
  PROVE  DirOk(m, r, D, f) /\ Kept(s.q, r.q) /\ Live(r.q) = Live(s.q) /\ Loading(r.q) = {}
<1>1. s \in ViewT /\ s.q \in QueueT /\ r.q \in QueueT /\ Ring(s.q) /\ TailInv(s.q) /\ s.q.rem \in Indices
  BY DirTypes DEF ViewT
<1>2. \A i \in Indices : s.q.ent[i] \in Entry /\ r.q.ent[i] \in Entry BY <1>1 DEF QueueT
<1>3. Live(s.q) \subseteq Indices /\ Live(r.q) = Live(s.q) BY <1>1, LiveCells, SameLive
<1>4. s.q.cnt \in 0 .. QueueMax /\ (s.q.rem \in Live(s.q) => s.q.cnt > 0)
  BY <1>1, LiveCells, Sizes DEF QueueT
<1>5. ASSUME NEW i \in Live(s.q)
      PROVE  /\ r.q.ent[i].st \notin {"INVALID", "LOAD_PENDING"} /\ r.q.ent[i].id = s.q.ent[i].id
             /\ r.q.ent[i].slot = s.q.ent[i].slot /\ r.q.ent[i].imm = s.q.ent[i].imm
             /\ r.q.ent[i].gt = s.q.ent[i].gt
             /\ i # s.q.rem => r.q.ent[i].st \in {"NEW", "LOAD_FAILED"} /\ ~r.q.ent[i].imm
  <2>1. i \in Indices /\ s.q.ent[i] \in Entry BY <1>2, <1>3
  <2>2. CASE i = s.q.rem BY <1>4, <2>2 DEF Head
  <2>3. CASE i # s.q.rem
    <3>1. s.q.ent[i].st \in {"NEW", "LOAD_PENDING", "LOAD_FAILED"} /\ ~s.q.ent[i].imm BY <1>1, <2>3 DEF TailInv
    <3>2. CASE i \in Loading(s.q) BY <2>1, <2>3, <3>1, <3>2, TailCells
    <3>3. CASE i \notin Loading(s.q)
      <4>1. s.q.ent[i].st # "LOAD_PENDING" BY <3>3 DEF Loading
      <4> QED BY <2>1, <2>3, <3>1, <3>3, <4>1, TailCells
    <3> QED BY <3>2, <3>3
  <2> QED BY <2>2, <2>3
<1>6. Kept(s.q, r.q) BY <1>1, <1>5 DEF Kept
<1>7. Ring(r.q) BY <1>1, <1>6, KeptRing
<1>8. TailInv(r.q) BY <1>1, <1>3, <1>5 DEF TailInv
<1>9. Loading(r.q) = {} BY <1>3, <1>5 DEF Loading
<1>10. m = "TX" => \A i \in Indices : ~r.q.ent[i].gt BY <1>5 DEF DirOk, LoadInv
<1>11. LoadInv(m, r.q, r.job) BY <1>9, <1>10 DEF LoadInv, OneLoad
<1> QED BY <1>3, <1>6, <1>7, <1>8, <1>9, <1>11 DEF DirOk

LEMMA CancellingCells ==
  ASSUME NEW e \in Entry
  PROVE  /\ Cancelling(e) \in Entry /\ Cancelling(e).st = "CANCEL_PENDING" /\ Cancelling(e).id = e.id
         /\ Cancelling(e).slot = e.slot /\ Cancelling(e).imm = e.imm /\ Cancelling(e).gt = e.gt
         /\ Cancelling(e).cpend = FALSE /\ Cancelling(e).rep = e.rep /\ Cancelling(e).res = e.res
<1>1. "CANCEL_PENDING" \in EntryStates BY DEF EntryStates
<1>2. Cancelling(e) \in Entry BY <1>1 DEF Cancelling, Entry
<1>3. /\ Cancelling(e).st = "CANCEL_PENDING" /\ Cancelling(e).id = e.id
      /\ Cancelling(e).slot = e.slot /\ Cancelling(e).imm = e.imm /\ Cancelling(e).gt = e.gt
  BY DEF Cancelling, Entry
<1>4. /\ Cancelling(e).cpend = FALSE /\ Cancelling(e).rep = e.rep /\ Cancelling(e).res = e.res
  BY DEF Cancelling, Entry
<1> QED BY <1>2, <1>3, <1>4

\* The head's compare is to be cancelled: e becomes h, t becomes u.
Cancelled(e, t, h, u, keep) ==
  LET c == IF keep \/ e.st = "CANCEL_PENDING" THEN e ELSE Cancelling(e)
  IN  \/ u = t /\ h = c
      \/ u = CancelRequested(t) /\ h = Requested(c, t)

LEMMA CancelledCells ==
  ASSUME NEW e \in Entry, NEW t \in TamerT, NEW h, NEW u, NEW keep, Cancelled(e, t, h, u, keep)
  PROVE  /\ h \in Entry /\ h.id = e.id /\ h.slot = e.slot /\ h.imm = e.imm /\ h.gt = e.gt /\ h.res = e.res
         /\ h.rep = e.rep /\ (h.st = e.st \/ h.st = "CANCEL_PENDING")
         /\ (~keep => h.st = "CANCEL_PENDING")
<1>1. PICK c \in Entry : c = IF keep \/ e.st = "CANCEL_PENDING" THEN e ELSE Cancelling(e)
  BY CancellingCells
<1>2. /\ c.id = e.id /\ c.slot = e.slot /\ c.imm = e.imm /\ c.gt = e.gt /\ c.rep = e.rep /\ c.res = e.res
      /\ (c.st = e.st \/ c.st = "CANCEL_PENDING") /\ (~keep => c.st = "CANCEL_PENDING")
  BY <1>1, CancellingCells
<1>3. h = c \/ h = Requested(c, t) BY <1>1 DEF Cancelled
<1> QED BY <1>2, <1>3, RequestedCells

LEMMA CancelledHead ==
  ASSUME NEW e \in Entry, NEW t \in TamerT, NEW h, NEW u, NEW keep, Cancelled(e, t, h, u, keep),
         NEW D, NEW m, NEW j, NEW k, NEW f, HeadInv(e, t, D), HeadJob(m, e, j, f, keep), SameJobs(j, k),
         e.st \notin JobStates
  PROVE  /\ h \in Entry /\ h.id = e.id /\ h.slot = e.slot /\ h.imm = e.imm /\ h.gt = e.gt /\ h.res = e.res
         /\ h.rep = e.rep /\ (h.st = e.st \/ h.st = "CANCEL_PENDING")
         /\ HeadInv(h, u, D) /\ HeadJob(m, h, k, f, TRUE)
         /\ (~ArmedT(t) => ~ArmedT(u))
<1>1. PICK c \in Entry : c = IF keep \/ e.st = "CANCEL_PENDING" THEN e ELSE Cancelling(e)
  BY CancellingCells
<1>2. /\ c.id = e.id /\ c.slot = e.slot /\ c.imm = e.imm /\ c.gt = e.gt /\ c.rep = e.rep /\ c.res = e.res
      /\ (c = e \/ (c.st = "CANCEL_PENDING" /\ c.cpend = FALSE))
  BY <1>1, CancellingCells
<1>3. HeadInv(c, t, D) BY <1>2 DEF HeadInv, Comparing, JobStates
<1>4. (c.st = e.st \/ c.st = "CANCEL_PENDING") /\ c.st \notin JobStates BY <1>2 DEF JobStates
<1>5. HeadJob(m, c, k, f, TRUE) BY <1>2, <1>4 DEF HeadJob, JobStates
<1>6. CASE u = t /\ h = c BY <1>2, <1>3, <1>4, <1>5, <1>6
<1>7. CASE u = CancelRequested(t) /\ h = Requested(c, t)
  <2>1. /\ h \in Entry /\ h.st = c.st /\ h.id = c.id /\ h.slot = c.slot /\ h.imm = c.imm
        /\ h.rep = c.rep /\ h.gt = c.gt /\ h.res = c.res
    BY <1>7, RequestedCells
  <2>2. ~ArmedT(u) /\ ~u.fired BY <1>7, CancelRequestedType DEF ArmedT
  <2>3. HeadInv(h, u, D) BY <1>3, <2>1, <2>2 DEF HeadInv
  <2>4. HeadJob(m, h, k, f, TRUE) BY <1>5, <2>1 DEF HeadJob
  <2> QED BY <1>2, <1>4, <2>1, <2>2, <2>3, <2>4
<1> QED BY <1>1, <1>6, <1>7 DEF Cancelled

LEMMA FreedFrame ==
  ASSUME NEW m, NEW j, NEW k, k = j \/ LoadFreed(j, k, m)
  PROVE  Frame(m, j, k) /\ SameJobs(j, k) /\ (k.load = j.load \/ k.load = None)
BY DEF Frame, LoadFreed

LEMMA StaysDir ==
  ASSUME NEW m \in Modules, NEW D, NEW f, NEW s, DirOk(m, s, D, f), NEW r, Stays(s, r, m)
  PROVE  Preserves(m, s, r, D, f) /\ r.q.clr /\ Kept(s.q, r.q) /\ Live(r.q) = Live(s.q) /\ Loading(r.q) = {}
         /\ (s.q.cnt > 0 /\ Head(s.q).st \notin JobStates =>
               Cancelled(Head(s.q), s.t, Head(r.q), r.t, s.q.clr))
         /\ (~ArmedT(s.t) => ~ArmedT(r.t))
<1>1. PICK e \in Entry : e = Head(s.q) BY DirTypes
<1>2. /\ s \in ViewT /\ s.q \in QueueT /\ s.t \in TamerT /\ Ring(s.q) /\ s.q.rem \in Indices
      /\ HeadInv(e, s.t, D) /\ HeadJob(m, e, s.job, f, s.q.clr) /\ s.q.cnt \in 0 .. QueueMax
  BY <1>1, DirTypes DEF QueueT
<1>3. /\ r \in ViewT /\ r.q.rem = s.q.rem /\ r.q.cnt = s.q.cnt /\ r.q.done = s.q.done
      /\ r.q.defer = s.q.defer /\ r.q.clr
      /\ \A i \in Indices : i # s.q.rem =>
           r.q.ent[i] = IF i \in Loading(s.q) THEN Dropped(s.q.ent[i]) ELSE s.q.ent[i]
      /\ r.job = s.job \/ LoadFreed(s.job, r.job, m)
      /\ HeadCleared(s, r)
  BY DEF Stays
<1>4. Frame(m, s.job, r.job) /\ SameJobs(s.job, r.job) BY <1>3, FreedFrame
<1>5. PICK h : h = Head(r.q) OBVIOUS
<1>6. s.q.cnt > 0 /\ e.st \notin JobStates => Cancelled(e, s.t, h, r.t, s.q.clr)
  BY <1>1, <1>3, <1>5 DEF HeadCleared, Cancelled
<1>7. r.q.clr = TRUE BY <1>3 DEF ViewT, QueueT
<1>8. e.st \notin {"LOAD_FAILED", "LOAD_PENDING"} BY <1>1, <1>3 DEF HeadCleared
<1>9. /\ HeadInv(h, r.t, D) /\ HeadJob(m, h, r.job, f, r.q.clr)
      /\ s.q.cnt > 0 => /\ h.st \notin {"INVALID", "LOAD_PENDING"} /\ h.id = e.id /\ h.slot = e.slot
                        /\ h.imm = e.imm /\ h.gt = e.gt
      /\ (~ArmedT(s.t) => ~ArmedT(r.t))
  <2>1. CASE e.st \in JobStates
    <3>1. h = e /\ r.t = s.t BY <1>1, <1>3, <1>5, <2>1 DEF HeadCleared
    <3>2. HeadJob(m, h, r.job, f, r.q.clr) BY <1>2, <1>4, <1>7, <3>1 DEF HeadJob
    <3> QED BY <1>2, <2>1, <3>1, <3>2 DEF JobStates
  <2>2. CASE s.q.cnt = 0
    <3>1. h = e /\ (r.t = s.t \/ r.t = CancelRequested(s.t)) BY <1>1, <1>3, <1>5, <2>2 DEF HeadCleared
    <3>2. e = Blank /\ Blank.st = "INVALID" BY <1>1, <1>2, <2>2, Headed DEF Blank
    <3>3. ~ArmedT(s.t) BY <1>2, <3>2 DEF HeadInv, Comparing
    <3>4. ~ArmedT(r.t) BY <1>2, <3>1, <3>3, CancelRequestedType DEF ArmedT
    <3>5. (m = "RX" => ~r.job.gt) /\ (m = "TX" => ~r.job.txq) BY <1>2, <1>4, <3>2 DEF HeadJob
    <3>6. Plain(h) BY <3>1, <3>2 DEF Plain
    <3> QED BY <2>2, <3>4, <3>5, <3>6, PlainHead
  <2>3. CASE s.q.cnt > 0 /\ e.st \notin JobStates
    <3>1. e.st # "INVALID" BY <1>1, <1>2, <2>3, Headed
    <3>t. PICK t \in TamerT : t = s.t BY <1>2
    <3>a. PICK u, j, k, keep : u = r.t /\ j = s.job /\ k = r.job /\ keep = s.q.clr OBVIOUS
    <3>b. Cancelled(e, t, h, u, keep) BY <1>6, <2>3, <3>t, <3>a
    <3>c. HeadInv(e, t, D) /\ HeadJob(m, e, j, f, keep) /\ SameJobs(j, k) BY <1>2, <1>4, <3>t, <3>a
    <3>d. /\ h.id = e.id /\ h.slot = e.slot /\ h.imm = e.imm /\ h.gt = e.gt
          /\ (h.st = e.st \/ h.st = "CANCEL_PENDING") /\ HeadInv(h, u, D) /\ HeadJob(m, h, k, f, TRUE)
          /\ (~ArmedT(t) => ~ArmedT(u))
      BY <2>3, <3>b, <3>c, CancelledHead
    <3>2. /\ h.id = e.id /\ h.slot = e.slot /\ h.imm = e.imm /\ h.gt = e.gt
          /\ (h.st = e.st \/ h.st = "CANCEL_PENDING") /\ HeadInv(h, r.t, D) /\ HeadJob(m, h, r.job, f, TRUE)
          /\ (~ArmedT(s.t) => ~ArmedT(r.t))
      BY <3>t, <3>a, <3>d
    <3> QED BY <1>7, <1>8, <3>1, <3>2
  <2> QED BY <1>2, <2>1, <2>2, <2>3, Sizes
<1>10. \A i \in Live(s.q) : i \in Indices BY <1>2, LiveCells
<1>11. \A i \in Indices \ Live(s.q) : r.q.ent[i] = s.q.ent[i]
  <2>1. ASSUME NEW i \in Indices \ Live(s.q) PROVE r.q.ent[i] = s.q.ent[i]
    <3>1. i \notin Loading(s.q) BY DEF Loading
    <3>2. CASE i # s.q.rem BY <1>3, <3>1, <3>2
    <3>3. CASE i = s.q.rem
      <4>1. s.q.cnt = 0 BY <1>2, <3>3, LiveCells, Sizes
      <4> QED BY <1>3, <3>3, <4>1 DEF HeadCleared, Head
    <3> QED BY <3>2, <3>3
  <2> QED BY <2>1
<1>12. DirOk(m, r, D, f) /\ Kept(s.q, r.q) /\ Live(r.q) = Live(s.q) /\ Loading(r.q) = {}
  BY <1>1, <1>3, <1>5, <1>9, <1>10, <1>11, StagedDir
<1>13. Ids(r.q) = Ids(s.q) BY <1>2, <1>12, KeptRing
<1> QED BY <1>1, <1>3, <1>4, <1>5, <1>6, <1>9, <1>12, <1>13 DEF Preserves, Quiet

LEMMA WasDoneDir ==
  ASSUME NEW m \in Modules, NEW D, NEW f, NEW s, DirOk(m, s, D, f), NEW r, WasDone(s, r)
  PROVE  Preserves(m, s, r, D, f) /\ r.job = s.job /\ r.t = s.t /\ s.q.cnt = 0 /\ r.q.cnt = 0
<1>1. /\ s \in ViewT /\ s.q \in QueueT /\ TailInv(s.q) BY DirTypes
<1>2. /\ s.q.done /\ r \in ViewT /\ r.t = s.t /\ r.job = s.job /\ r.out = s.out
      /\ r.q.ent = s.q.ent /\ r.q.rem = s.q.rem /\ r.q.cnt = s.q.cnt /\ r.q.defer = s.q.defer
  BY DEF WasDone
<1>3. s.q.cnt = 0 BY <1>1, <1>2 DEF TailInv
<1>4. Sweeps(s, r) BY <1>2, <1>3 DEF Sweeps
<1> QED BY <1>2, <1>3, <1>4, SweepsDir

LEMMA GoneDir ==
  ASSUME NEW m \in Modules, NEW D, NEW f, NEW s, DirOk(m, s, D, f), NEW r, Gone(s, r, m)
  PROVE  /\ Preserves(m, s, r, D, f) /\ (r.job = s.job \/ LoadFreed(s.job, r.job, m))
         /\ r.t = s.t /\ r.q.cnt = 0 /\ Head(s.q).st \in {"LOAD_FAILED", "LOAD_PENDING", "READY"}
<1>1. HeadInv(Head(s.q), s.t, D) /\ HeadJob(m, Head(s.q), s.job, f, s.q.clr) BY DirTypes
<1>2. /\ r \in ViewT /\ Emptied(s.q, r.q, TRUE) /\ r.t = s.t
      /\ r.job = s.job \/ LoadFreed(s.job, r.job, m)
      /\ Head(s.q).st \in {"LOAD_FAILED", "LOAD_PENDING", "READY"}
  BY DEF Gone
<1>3. Frame(m, s.job, r.job) /\ SameJobs(s.job, r.job) BY <1>2, FreedFrame
<1>4. (m = "RX" => ~r.job.gt) /\ (m = "TX" => ~r.job.txq) BY <1>1, <1>2, <1>3 DEF HeadJob
<1>5. ~ArmedT(r.t) BY <1>1, <1>2 DEF HeadInv, Comparing
<1>6. DirOk(m, r, D, f) /\ Quiet(r.q) /\ ~r.q.defer /\ Ids(r.q) = {} BY <1>2, <1>4, <1>5, EmptiedDir
<1> QED BY <1>2, <1>3, <1>6 DEF Preserves, Emptied

\* clear_queue_async()
LEMMA ClearDir ==
  ASSUME NEW m \in Modules, NEW D, NEW f, NEW s, DirOk(m, s, D, f), NEW r, r = ClearQueue(s, m).s
  PROVE  /\ Preserves(m, s, r, D, f) /\ (r.job = s.job \/ LoadFreed(s.job, r.job, m))
         /\ ~ArmedT(s.t) => ~ArmedT(r.t)
<1>1. s \in ViewT /\ Ring(s.q) /\ OneLoad(s.q) BY DirTypes
<1>2. WasDone(s, r) \/ Gone(s, r, m) \/ Stays(s, r, m) BY <1>1, ClearQueueEffect
<1>3. CASE WasDone(s, r) BY <1>3, WasDoneDir
<1>4. CASE Gone(s, r, m) BY <1>4, GoneDir
<1>5. CASE Stays(s, r, m)
  <2>1. r.job = s.job \/ LoadFreed(s.job, r.job, m) BY <1>5 DEF Stays
  <2> QED BY <1>5, <2>1, StaysDir
<1> QED BY <1>2, <1>3, <1>4, <1>5

\* A CLEAR in the hook of a call: what the call comes back to.
LEMMA ClearCall ==
  ASSUME NEW m \in Modules, NEW D, NEW f, NEW s, DirOk(m, s, D, f), NEW r, r = ClearQueue(s, m).s,
         NEW c \in CallT, CallInv(m, s.q, s.t, D, c), NEW d, d = [c EXCEPT !.hook = TRUE]
  PROVE  CallInv(m, r.q, r.t, D, d)
<1>1. /\ s \in ViewT /\ s.q \in QueueT /\ s.t \in TamerT /\ Ring(s.q) /\ OneLoad(s.q) /\ Head(s.q) \in Entry
      /\ HeadInv(Head(s.q), s.t, D) /\ HeadJob(m, Head(s.q), s.job, f, s.q.clr)
  BY DirTypes
<1>2. d.m = c.m /\ d.at = c.at /\ d.i = c.i /\ d.hook = TRUE BY DEF CallT
<1>3. SUFFICES ASSUME c.m = m PROVE CallInv(m, r.q, r.t, D, d) BY <1>2 DEF CallInv
<1>4. /\ ~ArmedT(s.t)
      /\ c.at = "new" => /\ s.q.cnt > 0 /\ c.i = s.q.rem /\ ~Head(s.q).res
                         /\ Head(s.q).st \in {"NEW", "CANCEL_PENDING"}
      /\ c.at = "ready" =>
           \/ /\ c.i = s.q.rem /\ Head(s.q).st \in {"READY", "CANCEL_PENDING"}
              /\ Head(s.q).imm \/ Head(s.q).id \in D
           \/ s.q.cnt = 0 /\ c.hook
  BY <1>3 DEF CallInv
<1>5. ~ArmedT(r.t) BY <1>4, ClearDir
<1>6. WasDone(s, r) \/ Gone(s, r, m) \/ Stays(s, r, m) BY <1>1, ClearQueueEffect
<1>7. CASE r.q.cnt = 0 /\ c.at # "new" BY <1>2, <1>5, <1>7 DEF CallInv
<1>8. CASE WasDone(s, r)
  <2>1. s.q.cnt = 0 /\ r.q.cnt = 0 BY <1>8, WasDoneDir
  <2> QED BY <1>4, <1>7, <2>1
<1>9. CASE Gone(s, r, m)
  <2>1. r.q.cnt = 0 /\ Head(s.q).st \in {"LOAD_FAILED", "LOAD_PENDING", "READY"} BY <1>9, GoneDir
  <2> QED BY <1>4, <1>7, <2>1
<1>10. CASE Stays(s, r, m)
  <2>1. r.q.rem = s.q.rem /\ r.q.cnt = s.q.cnt BY <1>10 DEF Stays
  <2>2. CASE s.q.cnt = 0 BY <1>4, <1>7, <2>1, <2>2
  <2>3. CASE s.q.cnt # 0 /\ c.at \in {"new", "ready"}
    <3>1. s.q.cnt > 0 /\ Head(s.q).st \notin JobStates
      BY <1>1, <1>4, <2>3, Sizes DEF QueueT, JobStates
    <3>2. PICK e \in Entry, t \in TamerT : e = Head(s.q) /\ t = s.t BY <1>1
    <3>4. PICK h, u, keep : h = Head(r.q) /\ u = r.t /\ keep = s.q.clr OBVIOUS
    <3>3. Cancelled(e, t, h, u, keep) BY <1>10, <3>1, <3>2, <3>4, StaysDir
    <3>5. h.id = e.id /\ h.imm = e.imm /\ h.res = e.res /\ (h.st = e.st \/ h.st = "CANCEL_PENDING")
      BY <3>3, CancelledCells
    <3> QED BY <1>2, <1>4, <1>5, <2>1, <2>3, <3>2, <3>4, <3>5 DEF CallInv
  <2>4. CASE c.at \notin {"new", "ready"} BY <1>2, <1>5, <2>4 DEF CallInv
  <2> QED BY <2>2, <2>3, <2>4
<1> QED BY <1>6, <1>8, <1>9, <1>10

\* fail_queue_for_rfic_fault() on a queue whose head no job holds.
LEMMA FailDir ==
  ASSUME NEW m \in Modules, NEW D, NEW f, NEW s, DirOk(m, s, D, f), NEW r, r = FailQueue(s, m),
         s.q.cnt > 0, ~s.q.clr, Head(s.q).st \notin JobStates
  PROVE  /\ Preserves(m, s, r, D, f) /\ (r.job = s.job \/ LoadFreed(s.job, r.job, m))
         /\ Quiet(r.q)
<1>1. PICK e \in Entry : e = Head(s.q) BY DirTypes
<1>2. /\ s \in ViewT /\ s.q \in QueueT /\ s.t \in TamerT /\ Ring(s.q) /\ s.q.rem \in Indices
      /\ HeadInv(e, s.t, D) /\ HeadJob(m, e, s.job, f, s.q.clr) /\ OneLoad(s.q) /\ TailInv(s.q)
  BY <1>1, DirTypes
<1>3. ~s.q.done BY <1>2, Sizes DEF TailInv
<1>4. FailedAll(s, r, m) BY <1>2, <1>3, FailQueueEffect
<1>5. r \in ViewT /\ (r.job = s.job \/ LoadFreed(s.job, r.job, m)) BY <1>4 DEF FailedAll
<1>6. Frame(m, s.job, r.job) /\ SameJobs(s.job, r.job) BY <1>5, FreedFrame
<1>7. e.st \notin JobStates /\ e.st # "INVALID" BY <1>1, <1>2, Headed
<1>8. (m = "RX" => ~r.job.gt) /\ (m = "TX" => ~r.job.txq) BY <1>2, <1>6, <1>7 DEF HeadJob, JobStates
<1>9. CASE e.st \notin Comparing
  <2>1. Emptied(s.q, r.q, FALSE) /\ r.t = s.t BY <1>1, <1>4, <1>9 DEF FailedAll
  <2>2. ~ArmedT(r.t) BY <1>2, <1>9, <2>1 DEF HeadInv
  <2>3. DirOk(m, r, D, f) /\ Quiet(r.q) /\ ~r.q.defer /\ Ids(r.q) = {} BY <1>5, <1>8, <2>1, <2>2, EmptiedDir
  <2> QED BY <1>5, <1>6, <2>3 DEF Preserves
<1>10. CASE e.st \in Comparing
  <2>1. PICK d \in Entry, t \in TamerT : d = Told(e) /\ t = s.t BY <1>2, CellTypes
  <2>a. PICK h, u, keep : h = Head(r.q) /\ u = r.t /\ keep = FALSE OBVIOUS
  <2>2. /\ d.st = e.st /\ d.id = e.id /\ d.slot = e.slot /\ d.imm = e.imm /\ d.gt = e.gt /\ d.cpend = e.cpend
    BY <2>1, HeadCells
  <2>3. /\ r.q.rem = s.q.rem /\ r.q.cnt = s.q.cnt /\ r.q.done = s.q.done /\ r.q.defer = s.q.defer /\ r.q.clr
        /\ \A i \in Indices \ Live(s.q) : r.q.ent[i] = s.q.ent[i]
        /\ \A i \in Live(s.q) : i # s.q.rem =>
             r.q.ent[i] = IF i \in Loading(s.q) THEN Dropped(s.q.ent[i]) ELSE Told(s.q.ent[i])
    BY <1>1, <1>4, <1>10 DEF FailedAll
  <2>4. Cancelled(d, t, h, u, keep) BY <1>1, <1>4, <1>10, <2>1, <2>a DEF FailedAll, Cancelled
  <2>5. HeadInv(d, t, D) /\ HeadJob(m, d, s.job, f, keep)
    BY <1>2, <1>7, <2>1, <2>a, <2>2 DEF HeadInv, HeadJob
  <2>6. PICK j, k : j = s.job /\ k = r.job OBVIOUS
  <2>7. /\ h.id = d.id /\ h.slot = d.slot /\ h.imm = d.imm /\ h.gt = d.gt
        /\ (h.st = d.st \/ h.st = "CANCEL_PENDING")
    BY <2>4, CancelledCells
  <2>8. HeadInv(h, u, D) /\ HeadJob(m, h, k, f, TRUE)
    <3>1. HeadJob(m, d, j, f, keep) /\ SameJobs(j, k) BY <1>6, <2>5, <2>6
    <3>2. d.st \notin JobStates BY <1>7, <2>2
    <3> QED BY <2>4, <2>5, <3>1, <3>2, CancelledHead
  <2>9. r.q.clr = TRUE BY <1>5, <2>3 DEF ViewT, QueueT
  <2>10. HeadInv(Head(r.q), r.t, D) /\ HeadJob(m, Head(r.q), r.job, f, r.q.clr)
    BY <2>1, <2>a, <2>6, <2>8, <2>9
  <2>11. /\ Head(r.q).st \notin {"INVALID", "LOAD_PENDING"} /\ Head(r.q).id = Head(s.q).id
         /\ Head(r.q).slot = Head(s.q).slot /\ Head(r.q).imm = Head(s.q).imm
         /\ Head(r.q).gt = Head(s.q).gt
    BY <1>1, <1>10, <2>1, <2>a, <2>2, <2>7 DEF Comparing
  <2>12. \A i \in Live(s.q) : i # s.q.rem =>
           IF i \in Loading(s.q) THEN r.q.ent[i] = Dropped(s.q.ent[i])
           ELSE r.q.ent[i] \in {s.q.ent[i], Told(s.q.ent[i])}
    BY <2>3
  <2>13. DirOk(m, r, D, f) /\ Kept(s.q, r.q)
    BY <1>5, <2>3, <2>10, <2>11, <2>12, StagedDir
  <2>14. Ids(r.q) = Ids(s.q) BY <1>2, <2>13, KeptRing
  <2> QED BY <1>5, <1>6, <2>3, <2>13, <2>14 DEF Preserves, Quiet
<1> QED BY <1>9, <1>10

-----------------------------------------------------------------------------
(* The rest of the worker pass.                                            *)

\* One cell of the ring changes, and with it who uploads.
LEMMA CellDir ==
  ASSUME NEW m \in Modules, NEW D, NEW f, NEW s, DirOk(m, s, D, f), NEW i \in Live(s.q),
         NEW e \in Entry, e.st # "INVALID", e.id = s.q.ent[i].id, e.slot = s.q.ent[i].slot,
         e.imm = s.q.ent[i].imm, e.gt = s.q.ent[i].gt,
         NEW r \in ViewT, r.q = WithCell(s.q, i, e), r.t = s.t, SameJobs(s.job, r.job),
         r.job.load = s.job.load \/ s.job.load \in {None, m},
         i # s.q.rem => e.st \in {"NEW", "LOAD_PENDING", "LOAD_FAILED"},
         i = s.q.rem => HeadInv(e, s.t, D) /\ HeadJob(m, e, s.job, f, s.q.clr),
         Loading(s.q) \subseteq {i}, e.st = "LOAD_PENDING" => r.job.load = m
  PROVE  Preserves(m, s, r, D, f)
<1>1. /\ s \in ViewT /\ s.q \in QueueT /\ Ring(s.q) /\ TailInv(s.q) /\ s.q.rem \in Indices
      /\ HeadInv(Head(s.q), s.t, D) /\ HeadJob(m, Head(s.q), s.job, f, s.q.clr)
  BY DirTypes
<1>2. i \in Indices /\ Live(s.q) \subseteq Indices BY <1>1, LiveCells
<1>3. r.q.ent[i] = e BY <1>1, <1>2, CellAt
<1>4. \A x \in Indices : x # i => r.q.ent[x] = s.q.ent[x] BY <1>1, CellElse
<1>5. SameRing(s.q, r.q) /\ r.q \in QueueT BY <1>1, CellRest DEF ViewT
<1>6. Kept(s.q, r.q)
  <2>1. \A x \in Live(s.q) : s.q.ent[x].st # "INVALID" BY <1>1 DEF Ring
  <2> QED BY <1>2, <1>3, <1>4, <1>5, <2>1 DEF Kept
<1>7. Ring(r.q) /\ Live(r.q) = Live(s.q) /\ Ids(r.q) = Ids(s.q) BY <1>1, <1>6, KeptRing
<1>8. TailInv(r.q) BY <1>1, <1>2, <1>3, <1>4, <1>5, <1>7 DEF TailInv
<1>9. Loading(r.q) \subseteq {i} /\ (i \in Loading(r.q) => e.st = "LOAD_PENDING")
  BY <1>2, <1>3, <1>4, <1>7 DEF Loading
<1>10. m = "TX" => \A x \in Indices : ~r.q.ent[x].gt BY <1>2, <1>3, <1>4 DEF DirOk, LoadInv
<1>11. LoadInv(m, r.q, r.job) BY <1>9, <1>10 DEF LoadInv, OneLoad
<1>12. HeadInv(Head(r.q), s.t, D) /\ HeadJob(m, Head(r.q), s.job, f, s.q.clr)
  <2>1. CASE i = s.q.rem BY <1>3, <1>5, <2>1 DEF Head
  <2>2. CASE i # s.q.rem
    <3>1. Head(r.q) = Head(s.q) BY <1>1, <1>4, <1>5, <2>2 DEF Head
    <3> QED BY <1>1, <3>1
  <2> QED BY <2>1, <2>2
<1>13. HeadJob(m, Head(r.q), r.job, f, r.q.clr) BY <1>5, <1>12 DEF HeadJob
<1>14. DirOk(m, r, D, f) BY <1>7, <1>8, <1>11, <1>12, <1>13 DEF DirOk
<1>15. Frame(m, s.job, r.job) BY DEF Frame
<1> QED BY <1>5, <1>7, <1>14, <1>15 DEF Preserves, Quiet

\* A step of the main loop that is not perform_work(): what is left to show.
LEMMA PutIInv ==
  ASSUME IInv, NEW m \in Modules, NEW r, Put(m, r), Preserves(m, View(m), r, due, fault),
         UNCHANGED <<sel, fault, due>>, used' \in UsedT, used'.req = used.req,
         turn' \in Turns, host' \in HostT, host'.at # "free" => host'.m \in Modules,
         call' \in CallT,
         call' # NoCall => call'.at # None /\ call'.m \in Modules /\ call'.ret # None,
         PassInv(r.job, fault, turn', call'),
         fault /\ (turn' # "idle" \/ call' # NoCall) => \A n \in Modules : Quiet(q[n]),
         \A n \in Modules : CallInv(n, q'[n], tamer'[n], due, call'),
         \A n \in Modules : DeferInv(n, q'[n], r.job, turn', call', host')
  PROVE  IInv'
<1>1. /\ q' \in [Modules -> QueueT] /\ tamer' \in [Modules -> TamerT] /\ job' \in JobT /\ out' \in OutT
      /\ \A n \in Modules : Ring(q'[n])
      /\ Dirs(q', tamer', due, job', fault)
      /\ \A n \in Modules : (Quiet(q[n]) => Quiet(q'[n])) /\ (q'[n].defer => q[n].defer)
      /\ \A n \in Modules : IdsUsed(q'[n], used.req)
      /\ job' = r.job
  BY PutDirs
<1>2. sel' \in [Modules -> Slots \cup {None}] /\ fault' \in BOOLEAN BY DEF IInv, Types
<1>3. Types' BY <1>1, <1>2 DEF Types
<1>4. PassInv(job, fault, turn, call)' BY <1>1
<1>5. QuietInv' BY <1>1 DEF QuietInv
<1>6. ASSUME NEW n \in Modules PROVE DirInv(n)'
  <2>1. /\ TailInv(q'[n]) /\ HeadInv(Head(q'[n]), tamer'[n], due')
        /\ LoadInv(n, q'[n], job') /\ HeadJob(n, Head(q'[n]), job', fault', q'[n].clr)
    BY <1>1 DEF Dirs
  <2>2. CallInv(n, q'[n], tamer'[n], due', call') BY <1>1
  <2>3. DeferInv(n, q'[n], job', turn', call', host') BY <1>1
  <2> QED BY <2>1, <2>2, <2>3 DEF DirInv
<1> QED BY <1>3, <1>4, <1>5, <1>6 DEF IInv

\* Such a step between passes, or one that goes on to the head.
LEMMA IdleIInv ==
  ASSUME IInv, NEW m \in Modules, NEW r, Put(m, r), Preserves(m, View(m), r, due, fault),
         UNCHANGED <<sel, call>>, WorkUnchanged, call = NoCall, turn' \in Turns,
         OneJob(r.job), r.job.txq => ~fault, turn' # "idle" => ~Owned(r.job),
         fault /\ turn' # "idle" => \A n \in Modules : Quiet(q[n]),
         \A n \in Modules : ~q'[n].defer
  PROVE  IInv'
<1>1. /\ fault' = fault /\ host' = host /\ used' = used /\ due' = due /\ call' = NoCall /\ sel' = sel
  BY DEF WorkUnchanged
<1>2. NoCall.at = None /\ NoCall \in CallT BY NoCallInv
<1>3. PassInv(r.job, fault, turn', call') BY <1>1, <1>2 DEF PassInv, None
<1>4. \A n \in Modules : CallInv(n, q'[n], tamer'[n], due, call') BY <1>1, NoCallInv
<1>5. \A n \in Modules : DeferInv(n, q'[n], r.job, turn', call', host') BY DEF DeferInv
<1>6. used \in UsedT /\ host \in HostT /\ (host.at # "free" => host.m \in Modules) BY DEF IInv, Types
<1> QED BY <1>1, <1>2, <1>3, <1>4, <1>5, <1>6, PutIInv

LEMMA FreedJobs ==
  ASSUME NEW m, NEW j, NEW k, NEW f, k = j \/ LoadFreed(j, k, m), OneJob(j), j.txq => ~f
  PROVE  OneJob(k) /\ (k.txq => ~f) /\ (Owned(k) => Owned(j))
BY DEF LoadFreed, OneJob, Owned

LEMMA DeferredClearIInv ==
  ASSUME IInv, NEW m \in Modules, DeferredClear(m)
  PROVE  IInv'
<1>1. PICK v : v = View(m) OBVIOUS
<1>2. v \in ViewT /\ v.q = q[m] /\ v.q \in QueueT /\ v.job = job /\ DirOk(m, v, due, fault)
  BY <1>1, ViewTypes, IInvDir DEF IInv
<1>3. PICK Q : Q = [q[m] EXCEPT !.defer = FALSE] OBVIOUS
<1>4. /\ Q \in QueueT /\ Q.ent = v.q.ent /\ Q.rem = v.q.rem /\ Q.cnt = v.q.cnt /\ Q.clr = v.q.clr
      /\ Q.done = v.q.done /\ Q.defer = FALSE
  BY <1>2, <1>3 DEF QueueT
<1>5. PICK s : s = [v EXCEPT !.q.defer = FALSE] OBVIOUS
<1>6. s = [v EXCEPT !.q = Q] BY <1>2, <1>3, <1>5
<1>7. s \in ViewT /\ s.q = Q /\ s.t = v.t /\ s.job = v.job /\ s.out = v.out BY <1>2, <1>4, <1>6 DEF ViewT
<1>8. Live(Q) = Live(v.q) BY <1>4, SameLive
<1>9. Ids(Q) = Ids(v.q) /\ Head(Q) = Head(v.q) /\ Loading(Q) = Loading(v.q)
  BY <1>4, <1>8 DEF Ids, Head, Loading
<1>10. Ring(Q) /\ TailInv(Q) BY <1>2, <1>4, <1>8 DEF DirOk, Ring, TailInv
<1>11. LoadInv(m, Q, job) BY <1>2, <1>4, <1>9 DEF DirOk, LoadInv, OneLoad
<1>12. DirOk(m, s, due, fault) BY <1>2, <1>4, <1>7, <1>9, <1>10, <1>11 DEF DirOk
<1>13. PICK r : r = ClearQueue(s, m).s OBVIOUS
<1>14. Preserves(m, s, r, due, fault) /\ (r.job = job \/ LoadFreed(job, r.job, m))
  BY <1>2, <1>7, <1>12, <1>13, ClearDir
<1>15. Preserves(m, v, r, due, fault) /\ ~r.q.defer
  BY <1>2, <1>4, <1>7, <1>9, <1>14 DEF Preserves, Quiet
<1>16. OneJob(job) /\ (job.txq => ~fault) BY DEF IInv, PassInv
<1>17. OneJob(r.job) /\ (r.job.txq => ~fault) BY <1>14, <1>16, FreedJobs
<1>18. /\ Put(m, r) /\ UNCHANGED <<sel, turn, call>> /\ WorkUnchanged /\ turn = "idle" /\ call = NoCall
       /\ q[m].defer
  BY <1>1, <1>5, <1>13 DEF DeferredClear
<1>19. ASSUME NEW n \in Modules PROVE ~q'[n].defer
  <2>1. host.m = m BY <1>18 DEF IInv, DirInv, DeferInv
  <2>2. n # m => ~q[n].defer BY <2>1 DEF IInv, DirInv, DeferInv
  <2>3. q'[m] = r.q /\ (n # m => q'[n] = q[n]) BY <1>1, <1>15, <1>18, PutDirs
  <2> QED BY <1>15, <2>2, <2>3
<1> QED BY <1>1, <1>15, <1>17, <1>18, <1>19, IdleIInv DEF Turns

LEMMA FaultedQueueIInv ==
  ASSUME IInv, NEW m \in Modules, FaultedQueue(m)
  PROVE  IInv'
<1>1. PICK s : s = View(m) OBVIOUS
<1>2. s \in ViewT /\ s.q = q[m] /\ s.job = job /\ DirOk(m, s, due, fault)
  BY <1>1, ViewTypes, IInvDir DEF IInv
<1>3. PICK r : r = FailQueue(s, m) OBVIOUS
<1>4. /\ Put(m, r) /\ UNCHANGED <<sel, turn, call>> /\ WorkUnchanged /\ turn = "idle" /\ call = NoCall
      /\ \A n \in Modules : ~q[n].defer
      /\ fault /\ q[m].cnt > 0 /\ ~q[m].clr
  BY <1>1, <1>3 DEF FaultedQueue, FaultPending
<1>a. HeadJob(m, Head(s.q), s.job, fault, s.q.clr) BY <1>2, DirTypes
<1>5. Head(s.q).st \notin JobStates BY <1>2, <1>4, <1>a DEF HeadJob
<1>6. Preserves(m, s, r, due, fault) /\ (r.job = job \/ LoadFreed(job, r.job, m))
  BY <1>2, <1>3, <1>4, <1>5, FailDir
<1>7. OneJob(job) /\ (job.txq => ~fault) BY DEF IInv, PassInv
<1>8. OneJob(r.job) /\ (r.job.txq => ~fault) BY <1>6, <1>7, FreedJobs
<1>9. \A n \in Modules : ~q'[n].defer BY <1>1, <1>4, <1>6, PutDirs
<1> QED BY <1>1, <1>4, <1>6, <1>8, <1>9, IdleIInv DEF Turns

\* Between passes and with no CLEAR deferred, a job of the owner ends.
LEMMA SettledIInv ==
  ASSUME IInv, Settled, NEW m \in Modules, NEW r, Put(m, r), Preserves(m, View(m), r, due, fault),
         UNCHANGED <<sel, call>>, WorkUnchanged, turn' \in {turn, HeadTurn(m)},
         OneJob(r.job), r.job.txq => ~fault, turn' # turn => ~Owned(r.job)
  PROVE  IInv'
<1>1. turn = "idle" /\ call = NoCall BY DEF Settled
<1>2. /\ fault => \A n \in Modules : Quiet(q[n])
      /\ \A n \in Modules : ~q[n].defer
  BY SettledFacts
<1>3. \A n \in Modules : ~q'[n].defer BY <1>2, PutDirs
<1>4. turn' \in Turns BY <1>1 DEF HeadTurn, Turns
<1> QED BY <1>1, <1>2, <1>3, <1>4, IdleIInv

LEMMA LoadOver ==
  ASSUME NEW j \in JobT, NEW m \in Modules, j.load = m, OneJob(j), NEW k, k = [j EXCEPT !.load = None]
  PROVE  k \in JobT /\ k.load = None /\ SameJobs(j, k) /\ OneJob(k) /\ ~Owned(k) /\ ~k.txq
<1>1. k \in JobT /\ k.load = None /\ SameJobs(j, k) BY DEF JobT, Some
<1>2. j.recall = None /\ ~j.txq BY Sizes DEF OneJob
<1> QED BY <1>1, <1>2 DEF OneJob, Owned

\* The view a finished upload leaves: its cell becomes e.
LEMMA UploadOver ==
  ASSUME NEW m \in Modules, NEW D, NEW f, NEW s, DirOk(m, s, D, f), NEW i \in Loading(s.q), s.job.load = m,
         NEW e \in Entry, e.id = s.q.ent[i].id, e.slot = s.q.ent[i].slot,
         e.imm = s.q.ent[i].imm, e.gt = s.q.ent[i].gt,
         e.st \in {"NEW", "LOAD_FAILED"} \/ (e.st = "READY" /\ e.imm),
         NEW r \in ViewT, r.q = WithCell(s.q, i, e), r.t = s.t,
         r.job.load = None, SameJobs(s.job, r.job)
  PROVE  Preserves(m, s, r, D, f)
<1>1. /\ s \in ViewT /\ s.q \in QueueT /\ Ring(s.q) /\ TailInv(s.q) /\ OneLoad(s.q)
      /\ HeadInv(Head(s.q), s.t, D) /\ HeadJob(m, Head(s.q), s.job, f, s.q.clr)
  BY DirTypes
<1>2. i \in Live(s.q) /\ s.q.ent[i].st = "LOAD_PENDING" BY DEF Loading
<1>3. e.st # "INVALID" /\ e.st # "LOAD_PENDING" OBVIOUS
<1>4. i # s.q.rem => e.st \in {"NEW", "LOAD_PENDING", "LOAD_FAILED"}
  BY <1>1, <1>2 DEF TailInv
<1>5. i = s.q.rem => HeadInv(e, s.t, D) /\ HeadJob(m, e, s.job, f, s.q.clr)
  <2>1. SUFFICES ASSUME i = s.q.rem PROVE HeadInv(e, s.t, D) /\ HeadJob(m, e, s.job, f, s.q.clr) OBVIOUS
  <2>2. Head(s.q).st = "LOAD_PENDING" BY <1>2, <2>1 DEF Head
  <2>3. ~ArmedT(s.t) BY <1>1, <2>2 DEF HeadInv, Comparing
  <2>4. HeadInv(e, s.t, D) BY <2>3 DEF HeadInv, JobStates
  <2>5. HeadJob(m, e, s.job, f, s.q.clr) BY <1>1, <2>2 DEF HeadJob, JobStates
  <2> QED BY <2>4, <2>5
<1>6. Loading(s.q) \subseteq {i} BY <1>1 DEF OneLoad
<1> QED BY <1>2, <1>3, <1>4, <1>5, <1>6, CellDir

\* perform_profile_load_owner(): the view it leaves.
LEMMA LoadOwnerEffect ==
  ASSUME IInv, NEW m \in Modules, LoadOwner(m)
  PROVE  /\ Settled /\ job.load = m /\ UNCHANGED <<sel, call>> /\ WorkUnchanged
         /\ \E r : /\ Put(m, r)
                   /\ \/ r = View(m) /\ UNCHANGED turn
                      \/ /\ Loading(q[m]) = {} /\ UNCHANGED turn
                         /\ r = [View(m) EXCEPT !.job.load = None]
                      \/ r = ClearQueue(View(m), m).s /\ q[m].clr /\ UNCHANGED turn
                      \/ /\ turn' \in {turn, HeadTurn(m)} /\ ~q[m].clr
                         /\ \E i \in Loading(q[m]), e \in Entry :
                              /\ r \in ViewT /\ r.q = WithCell(q[m], i, e) /\ r.t = tamer[m]
                              /\ r.job = [job EXCEPT !.load = None]
                              /\ e.id = q[m].ent[i].id /\ e.slot = q[m].ent[i].slot
                              /\ e.imm = q[m].ent[i].imm /\ e.gt = q[m].ent[i].gt
                              /\ \/ /\ e = Dropped(q[m].ent[i])
                                    /\ r.out = Recorded(out, q[m].ent[i])
                                 \/ /\ e.rep = q[m].ent[i].rep /\ r.out = out
                                    /\ \/ e.st = "NEW" /\ e.res = q[m].ent[i].res
                                       \/ e.st = (IF e.imm THEN "READY" ELSE "NEW") /\ e.res
<1>1. PICK s : s = View(m) OBVIOUS
<1>2. /\ s \in ViewT /\ s.q = q[m] /\ s.t = tamer[m] /\ s.job = job /\ s.out = out /\ s.q \in QueueT
      /\ s.job \in JobT /\ s.t \in TamerT
  BY <1>1, ViewTypes DEF IInv, ViewT
<1>3. PICK over : over = [s EXCEPT !.job.load = None] OBVIOUS
<1>4. PICK k : k = [job EXCEPT !.load = None] OBVIOUS
<1>5. k \in JobT BY <1>2, <1>4, JobFields DEF Some
<1>6. over = [s EXCEPT !.job = k] BY <1>2, <1>3, <1>4
<1>7. over \in ViewT /\ over.q = s.q /\ over.t = s.t /\ over.job = k /\ over.out = s.out
  BY <1>2, <1>5, <1>6, ViewWith
<1>8. PICK i : i = CHOOSE j \in Loading(s.q) : TRUE OBVIOUS
<1>9. Settled /\ job.load = m /\ UNCHANGED <<sel, call>> /\ WorkUnchanged BY <1>1 DEF LoadOwner
<1>10. CASE Loading(s.q) = {}
  <2>1. Put(m, over) /\ UNCHANGED turn BY <1>1, <1>3, <1>10 DEF LoadOwner
  <2> QED BY <1>1, <1>2, <1>3, <1>9, <1>10, <2>1
<1>11. CASE Loading(s.q) # {} /\ s.q.clr
  <2>1. Put(m, ClearQueue(s, m).s) /\ UNCHANGED turn BY <1>1, <1>11 DEF LoadOwner
  <2> QED BY <1>1, <1>2, <1>9, <1>11, <2>1
<1>12. CASE Loading(s.q) # {} /\ ~s.q.clr
  <2>1. i \in Loading(s.q) BY <1>8, <1>12
  <2>2. i \in Indices /\ s.q.ent[i] \in Entry BY <1>2, <2>1, LiveCells DEF Loading, QueueT
  <2>3. PICK c \in Entry : c = s.q.ent[i] BY <2>2
  <2>4. PICK failed : failed = [Fail(over, i) EXCEPT !.q.ent[i].st = "LOAD_FAILED"] OBVIOUS
  <2>5. PICK ready : ready = [over EXCEPT !.q.ent[i].res = TRUE,
                                !.q.ent[i].st = IF s.q.ent[i].imm THEN "READY" ELSE "NEW"]
    OBVIOUS
  <2>6. PICK back : back = [over EXCEPT !.q.ent[i].st = "NEW"] OBVIOUS
  <2>7. \/ Put(m, back) /\ turn' = HeadTurn(m)
        \/ (Put(m, s) \/ Put(m, failed) \/ Put(m, ready)) /\ UNCHANGED turn
    BY <1>1, <1>3, <1>8, <1>12, <2>4, <2>5, <2>6 DEF LoadOwner
  <2>8. \E e \in Entry : /\ back \in ViewT /\ back.q = WithCell(s.q, i, e) /\ back.t = s.t /\ back.job = k
                         /\ e.id = c.id /\ e.slot = c.slot /\ e.imm = c.imm /\ e.gt = c.gt
                         /\ e.rep = c.rep /\ back.out = s.out /\ e.st = "NEW" /\ e.res = c.res
    <3>1. PICK e \in Entry : e = St(c, "NEW") BY <1>2, StCells DEF EntryStates
    <3>2. /\ e.id = c.id /\ e.slot = c.slot /\ e.imm = c.imm /\ e.gt = c.gt /\ e.rep = c.rep
          /\ e.st = "NEW" /\ e.res = c.res
      BY <3>1, StCells DEF EntryStates
    <3>3. back = [over EXCEPT !.q = WithCell(over.q, i, e)]
      BY <1>7, <2>3, <2>6, <3>1 DEF WithCell, St
    <3> QED BY <1>7, <2>2, <3>2, <3>3, ViewCell
  <2>9. \E e \in Entry : /\ ready \in ViewT /\ ready.q = WithCell(s.q, i, e) /\ ready.t = s.t /\ ready.job = k
                         /\ e.id = c.id /\ e.slot = c.slot /\ e.imm = c.imm /\ e.gt = c.gt
                         /\ e.rep = c.rep /\ ready.out = s.out
                         /\ e.st = (IF e.imm THEN "READY" ELSE "NEW") /\ e.res
    <3>1. PICK x \in EntryStates : x = IF c.imm THEN "READY" ELSE "NEW" BY DEF EntryStates
    <3>2. PICK e : e = [c EXCEPT !.res = TRUE, !.st = x] OBVIOUS
    <3>3. e \in Entry BY <3>2 DEF Entry
    <3>4. /\ e.id = c.id /\ e.slot = c.slot /\ e.imm = c.imm /\ e.gt = c.gt /\ e.rep = c.rep
          /\ e.st = x /\ e.res
      BY <3>2 DEF Entry
    <3>5. ready = [over EXCEPT !.q = WithCell(over.q, i, e)]
      <4>1. PICK d \in Entry : d = [c EXCEPT !.res = TRUE] BY DEF Entry
      <4>2. PICK o1 : o1 = [over EXCEPT !.q.ent[i].res = TRUE] OBVIOUS
      <4>3. o1 = [over EXCEPT !.q = WithCell(over.q, i, d)] BY <1>7, <2>3, <4>1, <4>2 DEF WithCell
      <4>4. o1 \in ViewT /\ o1.q = WithCell(over.q, i, d) /\ o1.q.ent[i] = d BY <1>7, <2>2, <4>3, ViewCell
      <4>5. e = [d EXCEPT !.st = x] BY <3>2, <4>1
      <4>6. ready = [o1 EXCEPT !.q.ent[i].st = x] BY <2>3, <2>5, <3>1, <4>2
      <4>7. ready = [o1 EXCEPT !.q = WithCell(o1.q, i, e)] BY <4>4, <4>5, <4>6 DEF WithCell
      <4>8. WithCell(o1.q, i, e) = WithCell(over.q, i, e)
        BY <1>2, <1>7, <2>2, <3>3, <4>1, <4>4, WithCellTwice
      <4>9. [o1 EXCEPT !.q = WithCell(over.q, i, e)] = [over EXCEPT !.q = WithCell(over.q, i, e)]
        <5>1. PICK R : R = WithCell(over.q, i, e) OBVIOUS
        <5>2. PICK P : P = WithCell(over.q, i, d) OBVIOUS
        <5> QED BY <1>7, <4>3, <5>1, <5>2 DEF ViewT
      <4> QED BY <4>7, <4>8, <4>9
    <3>6. ready \in ViewT /\ ready.q = WithCell(s.q, i, e) /\ ready.t = s.t /\ ready.job = k /\ ready.out = s.out
      BY <1>7, <2>2, <3>3, <3>5, ViewCell
    <3> QED BY <3>1, <3>3, <3>4, <3>6
  <2>10. \E e \in Entry : /\ failed \in ViewT /\ failed.q = WithCell(s.q, i, e) /\ failed.t = s.t
                          /\ failed.job = k
                          /\ e.id = c.id /\ e.slot = c.slot /\ e.imm = c.imm /\ e.gt = c.gt
                          /\ e = Dropped(c) /\ failed.out = Recorded(s.out, c)
    <3>1. PICK g : g = Fail(over, i) OBVIOUS
    <3>2. /\ g \in ViewT /\ g.t = s.t /\ g.job = k
          /\ g.q = WithCell(s.q, i, Told(c)) /\ g.out = Recorded(s.out, c)
      BY <1>7, <2>2, <2>3, <3>1, FailEffect
    <3>3. PICK d \in Entry : d = Told(c) BY <1>2, CellTypes
    <3>4. g.q.ent[i] = d BY <1>2, <2>2, <3>2, <3>3, CellAt
    <3>5. PICK e \in Entry : e = Dropped(c) BY <1>2, CellTypes
    <3>6. e = [d EXCEPT !.st = "LOAD_FAILED"] BY <3>3, <3>5 DEF Told, Dropped, Entry
    <3>7. failed = [g EXCEPT !.q = WithCell(g.q, i, e)] BY <2>4, <3>1, <3>4, <3>6 DEF WithCell
    <3>8. /\ failed \in ViewT /\ failed.q = WithCell(g.q, i, e) /\ failed.t = g.t /\ failed.job = g.job
          /\ failed.out = g.out
      BY <2>2, <3>2, <3>7, ViewCell
    <3>9. failed.q = WithCell(s.q, i, e) BY <1>2, <2>2, <3>2, <3>3, <3>8, WithCellTwice
    <3> QED BY <3>2, <3>5, <3>8, <3>9, DroppedCells
  <2>11. CASE Put(m, s) /\ UNCHANGED turn BY <1>1, <1>9, <2>11
  <2>12. CASE Put(m, back) /\ turn' = HeadTurn(m) BY <1>2, <1>4, <1>9, <1>12, <2>1, <2>3, <2>8, <2>12
  <2>13. CASE Put(m, failed) /\ UNCHANGED turn BY <1>2, <1>4, <1>9, <1>12, <2>1, <2>3, <2>10, <2>13
  <2>14. CASE Put(m, ready) /\ UNCHANGED turn BY <1>2, <1>4, <1>9, <1>12, <2>1, <2>3, <2>9, <2>14
  <2> QED BY <2>7, <2>11, <2>12, <2>13, <2>14
<1> QED BY <1>10, <1>11, <1>12

LEMMA LoadOwnerIInv ==
  ASSUME IInv, NEW m \in Modules, LoadOwner(m)
  PROVE  IInv'
<1>1. PICK s : s = View(m) OBVIOUS
<1>2. /\ s \in ViewT /\ s.q = q[m] /\ s.t = tamer[m] /\ s.job = job /\ s.job \in JobT
      /\ DirOk(m, s, due, fault) /\ s.t \in TamerT
  BY <1>1, ViewTypes, IInvDir DEF IInv, ViewT
<1>3. OneJob(job) /\ (job.txq => ~fault) BY DEF IInv, PassInv
<1>4. Settled /\ job.load = m /\ UNCHANGED <<sel, call>> /\ WorkUnchanged BY LoadOwnerEffect
<1>5. PICK k : k = [job EXCEPT !.load = None] OBVIOUS
<1>6. k \in JobT /\ k.load = None /\ SameJobs(job, k) /\ OneJob(k) /\ ~Owned(k) /\ ~k.txq
  BY <1>2, <1>3, <1>4, <1>5, LoadOver
<1>7. ASSUME NEW r, Put(m, r), UNCHANGED turn, r = s PROVE IInv'
  <2>1. Preserves(m, s, r, due, fault) BY <1>2, <1>7, SameFrame DEF Preserves
  <2> QED BY <1>1, <1>2, <1>3, <1>4, <1>7, <2>1, SettledIInv
<1>8. ASSUME NEW r, Put(m, r), UNCHANGED turn, Loading(q[m]) = {}, r = [s EXCEPT !.job.load = None] PROVE IInv'
  <2>1. r = [s EXCEPT !.job = k] BY <1>2, <1>5, <1>8
  <2>2. r \in ViewT /\ r.q = s.q /\ r.t = s.t /\ r.job = k BY <1>2, <1>6, <2>1, ViewWith
  <2>3. LoadInv(m, r.q, k) BY <1>2, <1>8, <2>2 DEF DirOk, LoadInv
  <2>4. HeadJob(m, Head(r.q), k, fault, r.q.clr) BY <1>2, <1>6, <2>2 DEF DirOk, HeadJob
  <2>5. DirOk(m, r, due, fault) BY <1>2, <2>2, <2>3, <2>4 DEF DirOk
  <2>6. Frame(m, job, k) BY <1>4, <1>6 DEF Frame
  <2>7. Preserves(m, s, r, due, fault) BY <1>2, <2>2, <2>5, <2>6 DEF Preserves
  <2> QED BY <1>1, <1>4, <1>6, <1>8, <2>2, <2>7, SettledIInv
<1>9. ASSUME NEW r, Put(m, r), UNCHANGED turn, r = ClearQueue(s, m).s PROVE IInv'
  <2>1. Preserves(m, s, r, due, fault) /\ (r.job = job \/ LoadFreed(job, r.job, m)) BY <1>2, <1>9, ClearDir
  <2>2. OneJob(r.job) /\ (r.job.txq => ~fault) BY <1>3, <2>1, FreedJobs
  <2> QED BY <1>1, <1>4, <1>9, <2>1, <2>2, SettledIInv
<1>10. ASSUME NEW r, Put(m, r), turn' \in {turn, HeadTurn(m)}, NEW i \in Loading(q[m]), NEW e \in Entry,
              r \in ViewT, r.q = WithCell(q[m], i, e), r.t = tamer[m], r.job = k,
              e.id = q[m].ent[i].id, e.slot = q[m].ent[i].slot,
              e.imm = q[m].ent[i].imm, e.gt = q[m].ent[i].gt,
              e.st \in {"NEW", "LOAD_FAILED"} \/ (e.st = "READY" /\ e.imm)
       PROVE  IInv'
  <2>1. Preserves(m, s, r, due, fault) BY <1>2, <1>4, <1>6, <1>10, UploadOver
  <2> QED BY <1>1, <1>4, <1>6, <1>10, <2>1, SettledIInv
<1>11. PICK r : /\ Put(m, r)
                /\ \/ r = s /\ UNCHANGED turn
                   \/ /\ Loading(q[m]) = {} /\ UNCHANGED turn
                      /\ r = [s EXCEPT !.job.load = None]
                   \/ r = ClearQueue(s, m).s /\ UNCHANGED turn
                   \/ /\ turn' \in {turn, HeadTurn(m)}
                      /\ \E i \in Loading(q[m]), e \in Entry :
                           /\ r \in ViewT /\ r.q = WithCell(q[m], i, e) /\ r.t = tamer[m] /\ r.job = k
                           /\ e.id = q[m].ent[i].id /\ e.slot = q[m].ent[i].slot
                           /\ e.imm = q[m].ent[i].imm /\ e.gt = q[m].ent[i].gt
                           /\ \/ e = Dropped(q[m].ent[i])
                              \/ e.st = "NEW"
                              \/ e.st = (IF e.imm THEN "READY" ELSE "NEW")
  BY <1>1, <1>5, LoadOwnerEffect
<1>12. ASSUME NEW i \in Loading(q[m]) PROVE Dropped(q[m].ent[i]).st = "LOAD_FAILED"
  <2>1. q[m] \in QueueT BY <1>2, DirTypes
  <2>2. q[m].ent[i] \in Entry BY <2>1, LiveCells DEF Loading, QueueT
  <2> QED BY <2>2, DroppedCells
<1> QED BY <1>7, <1>8, <1>9, <1>10, <1>11, <1>12

LEMMA OrphanRecallIInv ==
  ASSUME IInv, NEW m \in Modules, OrphanRecall(m)
  PROVE  IInv'
<1>1. PICK s : s = View(m) OBVIOUS
<1>2. /\ s \in ViewT /\ s.q = q[m] /\ s.t = tamer[m] /\ s.job = job /\ s.out = out /\ s.job \in JobT
      /\ DirOk(m, s, due, fault) /\ s.q \in QueueT /\ Ring(s.q) /\ s.t \in TamerT
  BY <1>1, ViewTypes, IInvDir DEF IInv, ViewT
<1>3. /\ Settled /\ job.load = None /\ job.recall = m /\ q[m].cnt = 0
      /\ UNCHANGED <<q, tamer, out, sel, call>> /\ WorkUnchanged
  BY DEF OrphanRecall
<1>4. OneJob(job) /\ (job.txq => ~fault) BY DEF IInv, PassInv
<1>5. [q EXCEPT ![m] = q[m]] = q /\ [tamer EXCEPT ![m] = tamer[m]] = tamer BY DEF IInv, Types
<1>6. CASE UNCHANGED <<job, turn>>
  <2>1. Put(m, s) BY <1>2, <1>3, <1>5, <1>6 DEF Put
  <2>2. Preserves(m, s, s, due, fault) BY <1>2, SameFrame DEF Preserves
  <2> QED BY <1>1, <1>2, <1>3, <1>4, <1>6, <2>1, <2>2, SettledIInv
<1>7. CASE job' = [job EXCEPT !.recall = None] /\ turn' = HeadTurn(m)
  <2>1. PICK k : k = [job EXCEPT !.recall = None] OBVIOUS
  <2>2. k \in JobT /\ k.recall = None /\ k.load = job.load /\ k.gt = job.gt /\ k.txq = job.txq
    BY <1>2, <2>1 DEF JobT, Some
  <2>3. PICK r : r = [s EXCEPT !.job = k] OBVIOUS
  <2>4. r \in ViewT /\ r.q = s.q /\ r.t = s.t /\ r.job = k /\ r.out = s.out BY <1>2, <2>2, <2>3, ViewWith
  <2>5. Put(m, r) BY <1>2, <1>3, <1>5, <1>7, <2>1, <2>4 DEF Put
  <2>6. Head(r.q).st = "INVALID" BY <1>2, <1>3, <2>4, Headed DEF Blank
  <2>7. HeadJob(m, Head(r.q), k, fault, r.q.clr) BY <1>2, <2>2, <2>4, <2>6 DEF DirOk, HeadJob, JobStates
  <2>8. LoadInv(m, r.q, k) BY <1>2, <2>2, <2>4 DEF DirOk, LoadInv
  <2>9. DirOk(m, r, due, fault) BY <1>2, <2>4, <2>7, <2>8 DEF DirOk
  <2>10. Frame(m, job, k) BY <1>3, <2>2 DEF Frame
  <2>11. Preserves(m, s, r, due, fault) BY <1>2, <2>4, <2>9, <2>10 DEF Preserves
  <2>12. OneJob(k) /\ ~Owned(k) /\ ~k.txq BY <1>3, <1>4, <2>2, Sizes DEF OneJob, Owned
  <2> QED BY <1>1, <1>3, <1>7, <2>4, <2>5, <2>11, <2>12, SettledIInv
<1> QED BY <1>6, <1>7 DEF OrphanRecall

\* A non-empty set of naturals has a least element.
LEMMA LeastNatural ==
  ASSUME NEW S \in SUBSET Nat, S # {}
  PROVE  \E x \in S : \A y \in S : x <= y
<1>1. PICK x \in S : \A y \in S : ~ (<<y, x>> \in OpToRel(<, Nat))
  BY NatLessThanWellFounded, WFMin
<1>2. \A y \in S : ~ (y < x)
  BY <1>1, Zenon DEF OpToRel
<1> QED BY <1>2

\* profile_preload_next() finds a request behind the head whose slot nobody needs.
LEMMA PreloadEffect ==
  ASSUME IInv, NEW m \in Modules, Preloadable(m) # {}, PreloadNext(m), UNCHANGED <<tamer, out>>
  PROVE  \E i \in Live(q[m]) :
           /\ i # q[m].rem /\ q[m].ent[i].st = "NEW" /\ q[m].ent[i].slot \notin SlotsInUse(m)
           /\ Head(q[m]).st \in {"SCHEDULE_PENDING", "SCHEDULED"}
           /\ \E k \in 1 .. q[m].cnt-1 : i = Idx(q[m], k) /\ \A l \in Preloadable(m) : k <= l
           /\ \E r \in ViewT : /\ r.q = WithCell(q[m], i, St(q[m].ent[i], "LOAD_PENDING"))
                               /\ r.t = tamer[m] /\ r.job = [job EXCEPT !.load = m] /\ r.out = out
                               /\ Put(m, r)
<1>1. PICK s : s = View(m) OBVIOUS
<1>2. /\ s \in ViewT /\ s.q = q[m] /\ s.t = tamer[m] /\ s.job = job /\ s.out = out /\ s.job \in JobT
      /\ q[m] \in QueueT /\ Ring(q[m])
  BY <1>1, ViewTypes DEF IInv, ViewT
<1>3. PICK k : k = CHOOSE x \in Preloadable(m) : \A l \in Preloadable(m) : x <= l OBVIOUS
<1>4. k \in Preloadable(m) /\ \A l \in Preloadable(m) : k <= l
  <2>1. q[m].cnt \in 0 .. QueueMax BY <1>2 DEF QueueT
  <2>2. Preloadable(m) \in SUBSET Nat BY <2>1, Sizes DEF Preloadable
  <2>3. \E x \in Preloadable(m) : \A l \in Preloadable(m) : x <= l BY <2>2, LeastNatural
  <2> QED BY <1>3, <2>3
<1>5. /\ k \in 1 .. q[m].cnt - 1 /\ HeadOf(q[m]).st \in {"SCHEDULE_PENDING", "SCHEDULED"}
      /\ q[m].ent[Idx(q[m], k)].st = "NEW" /\ q[m].ent[Idx(q[m], k)].slot \notin SlotsInUse(m)
  BY <1>4 DEF Preloadable
<1>6. PICK i : i = Idx(q[m], k) OBVIOUS
<1>7. q[m].rem \in Indices /\ q[m].cnt \in 0 .. QueueMax BY <1>2 DEF QueueT
<1>8. k \in 0 .. q[m].cnt-1 /\ k \in 0 .. QueueMax-1 /\ 0 \in 0 .. QueueMax-1 /\ k # 0
  BY <1>5, <1>7, Sizes
<1>9. i \in Live(q[m]) /\ i \in Indices BY <1>2, <1>6, <1>8, LiveCells
<1>10. Idx(q[m], 0) = q[m].rem BY <1>7, IdxValue, Sizes DEF Indices
<1>11. i # q[m].rem BY <1>6, <1>7, <1>8, <1>10, IdxInjective
<1>12. PICK e \in Entry : e = St(q[m].ent[i], "LOAD_PENDING")
  <2>1. q[m].ent[i] \in Entry BY <1>2, <1>9 DEF QueueT
  <2> QED BY <2>1, StCells DEF EntryStates
<1>13. PICK R \in QueueT : R = WithCell(q[m], i, e) BY <1>2, <1>9, <1>12, WithCellType
<1>14. PICK j \in JobT : j = [job EXCEPT !.load = m] BY <1>2, JobFields DEF Some
<1>15. PICK r : r = [q |-> R, t |-> tamer[m], job |-> j, out |-> out] OBVIOUS
<1>16. r \in ViewT /\ r.q = R /\ r.t = tamer[m] /\ r.job = j /\ r.out = out BY <1>2, <1>15 DEF ViewT
<1>17. q' = [q EXCEPT ![m] = R]
  <2>1. q' = [q EXCEPT ![m].ent[i].st = "LOAD_PENDING"] BY <1>3, <1>6 DEF PreloadNext
  <2> QED BY <1>12, <1>13, <2>1 DEF WithCell, St
<1>18. job' = j BY <1>14 DEF PreloadNext
<1>19. [tamer EXCEPT ![m] = tamer[m]] = tamer BY DEF IInv, Types
<1>20. Put(m, r) BY <1>16, <1>17, <1>18, <1>19 DEF Put
<1>21. HeadOf(q[m]) = Head(q[m]) BY <1>2, Headed
<1> QED BY <1>4, <1>5, <1>6, <1>9, <1>11, <1>12, <1>13, <1>14, <1>16, <1>20, <1>21

LEMMA PreloadIInv ==
  ASSUME IInv, Preload
  PROVE  IInv'
<1>1. /\ turn = "pre" /\ call = NoCall /\ turn' = "idle"
      /\ UNCHANGED <<tamer, out, sel, call>> /\ WorkUnchanged
  BY DEF Preload
<1>2. ~Owned(job) /\ OneJob(job) /\ \A n \in Modules : ~q[n].defer
  BY <1>1 DEF IInv, PassInv, DirInv, DeferInv
<1>3. ASSUME NEW m \in Modules, Preloadable(m) # {}, PreloadNext(m) PROVE IInv'
  <2>1. PICK s : s = View(m) OBVIOUS
  <2>2. /\ s \in ViewT /\ s.q = q[m] /\ s.t = tamer[m] /\ s.job = job /\ s.job \in JobT
        /\ DirOk(m, s, due, fault) /\ s.q \in QueueT
    BY <2>1, ViewTypes, IInvDir DEF IInv, ViewT
  <2>3. PICK i \in Live(q[m]), r \in ViewT :
          /\ i # q[m].rem /\ r.q = WithCell(q[m], i, St(q[m].ent[i], "LOAD_PENDING"))
          /\ r.t = tamer[m] /\ r.job = [job EXCEPT !.load = m] /\ r.out = out /\ Put(m, r)
    BY <1>1, <1>3, PreloadEffect
  <2>4. PICK c \in Entry : c = q[m].ent[i] BY <2>2, LiveCells DEF QueueT
  <2>5. PICK e \in Entry : e = St(c, "LOAD_PENDING") BY StCells DEF EntryStates
  <2>6. /\ e.st = "LOAD_PENDING" /\ e.id = c.id /\ e.slot = c.slot /\ e.imm = c.imm /\ e.gt = c.gt
    BY <2>5, StCells DEF EntryStates
  <2>7. r.job.load = m /\ SameJobs(job, r.job) BY <2>2, <2>3, JobParts
  <2>8. job.load = None BY <1>2 DEF Owned
  <2>9. Loading(s.q) = {} BY <2>2, <2>8, Sizes, DirTypes
  <2>10. Preserves(m, s, r, due, fault)
    <3>1. /\ i \in Live(s.q) /\ i # s.q.rem /\ c = s.q.ent[i] /\ r.q = WithCell(s.q, i, e) /\ r.t = s.t
          /\ SameJobs(s.job, r.job) /\ s.job.load = None /\ r.job.load = m /\ Loading(s.q) \subseteq {i}
      BY <2>2, <2>3, <2>4, <2>5, <2>7, <2>8, <2>9
    <3> QED BY <2>2, <2>6, <3>1, CellDir
  <2>11. OneJob(r.job) /\ ~r.job.txq BY <1>2, <2>7 DEF OneJob, Owned
  <2>12. \A n \in Modules : ~q'[n].defer BY <1>2, <2>1, <2>3, <2>10, PutDirs
  <2> QED BY <1>1, <2>1, <2>3, <2>10, <2>11, <2>12, IdleIInv DEF Turns
<1>4. CASE UNCHANGED <<q, job>>
  <2>1. PICK m \in Modules : m = "RX" BY DEF Modules
  <2>2. PICK s : s = View(m) OBVIOUS
  <2>3. /\ s \in ViewT /\ s.q = q[m] /\ s.t = tamer[m] /\ s.job = job /\ s.out = out
        /\ DirOk(m, s, due, fault)
    BY <2>2, ViewTypes, IInvDir DEF IInv, ViewT
  <2>4. [q EXCEPT ![m] = q[m]] = q /\ [tamer EXCEPT ![m] = tamer[m]] = tamer BY DEF IInv, Types
  <2>5. Put(m, s) BY <1>1, <1>4, <2>3, <2>4 DEF Put
  <2>6. Preserves(m, s, s, due, fault) BY <2>3, SameFrame DEF Preserves
  <2>7. \A n \in Modules : ~q'[n].defer BY <1>2, <1>4
  <2> QED BY <1>1, <1>2, <2>2, <2>3, <2>5, <2>6, <2>7, IdleIInv DEF Turns, Owned
<1> QED BY <1>3, <1>4 DEF Preload

LEMMA WorkerIInv ==
  ASSUME IInv, Worker
  PROVE  IInv'
BY DeferredClearIInv, FaultedQueueIInv, LoadOwnerIInv, OrphanRecallIInv, PerformWorkIInv,
   NewAnsweredIInv, ReadyAnsweredIInv, PreloadIInv DEF Worker

-----------------------------------------------------------------------------
(* Packets of the host.                                                    *)

\* A packet is handled between passes or in the hook of a call.
LEMMA HandlingFacts ==
  ASSUME IInv, Handling
  PROVE  /\ call' \in CallT /\ call'.at = call.at /\ call'.m = call.m /\ call'.i = call.i
         /\ call'.ret = call.ret /\ (call' # NoCall => call # NoCall)
         /\ \/ call = NoCall /\ call' = NoCall /\ turn = "idle"
            \/ call # NoCall /\ call.hook = FALSE /\ call' = [call EXCEPT !.hook = TRUE]
<1>1. call \in CallT BY DEF IInv, Types
<1>2. CASE turn = "idle" /\ call = NoCall /\ UNCHANGED call BY <1>1, <1>2
<1>3. CASE call # NoCall /\ ~call.hook /\ call' = [call EXCEPT !.hook = TRUE]
  <2>1. call.hook = FALSE BY <1>1, <1>3 DEF CallT
  <2> QED BY <1>1, <1>3, <2>1 DEF CallT
<1> QED BY <1>2, <1>3 DEF Handling

\* The hook only adds that a packet was handled.
LEMMA HookedCall ==
  ASSUME NEW c \in CallT, NEW m, NEW Q, NEW t, NEW D, CallInv(m, Q, t, D, c),
         NEW d, d = c \/ d = [c EXCEPT !.hook = TRUE]
  PROVE  CallInv(m, Q, t, D, d)
<1>1. d.m = c.m /\ d.at = c.at /\ d.i = c.i /\ (c.hook => d.hook) BY DEF CallT
<1> QED BY <1>1 DEF CallInv

LEMMA CallPass ==
  ASSUME NEW j, NEW k, NEW f, NEW tn, NEW c, NEW d, PassInv(j, f, tn, c),
         k.load = j.load, SameJobs(j, k), d.at = c.at, d.ret = c.ret
  PROVE  PassInv(k, f, tn, d)
BY DEF PassInv, OneJob, Owned

LEMMA ClearPacketIInv ==
  ASSUME IInv, NEW m \in Modules, ClearPacket(m), used' \in UsedT, used'.req = used.req,
         host.at = "free" \/ (host.at = "clear" /\ host.m = m)
  PROVE  IInv'
<1>1. PICK s : s = View(m) OBVIOUS
<1>2. /\ s \in ViewT /\ s.q = q[m] /\ s.t = tamer[m] /\ s.job = job /\ DirOk(m, s, due, fault)
      /\ q[m] \in QueueT /\ call \in CallT
  BY <1>1, ViewTypes, IInvDir DEF IInv, Types
<1>3. Handling /\ UNCHANGED <<sel, fault, turn, due>> BY DEF ClearPacket
<1>4. /\ call' \in CallT /\ call'.at = call.at /\ call'.m = call.m /\ call'.i = call.i
      /\ call'.ret = call.ret /\ (call' # NoCall => call # NoCall)
      /\ \/ call = NoCall /\ call' = NoCall /\ turn = "idle"
         \/ call # NoCall /\ call.hook = FALSE /\ call' = [call EXCEPT !.hook = TRUE]
  BY <1>3, HandlingFacts
<1>5. call' # NoCall => call'.at # None /\ call'.m \in Modules /\ call'.ret # None
  BY <1>4 DEF IInv, Types
<1>6. turn \in Turns /\ PassInv(job, fault, turn, call) BY DEF IInv, Types
<1>7. fault /\ (turn' # "idle" \/ call' # NoCall) => \A n \in Modules : Quiet(q[n])
  BY <1>3, <1>4 DEF IInv, QuietInv
<1>8. \A n \in Modules : n # m => ~q[n].defer BY DEF IInv, DirInv, DeferInv
<1>9. CASE Owned(job)
  <2>1. q' = [q EXCEPT ![m].defer = TRUE] /\ host' = [at |-> "clear", m |-> m] /\ UNCHANGED <<tamer, job, out>>
    BY <1>9 DEF ClearPacket
  <2>2. PICK Q : Q = [q[m] EXCEPT !.defer = TRUE] OBVIOUS
  <2>3. /\ Q \in QueueT /\ Q.ent = q[m].ent /\ Q.rem = q[m].rem /\ Q.cnt = q[m].cnt
        /\ Q.clr = q[m].clr /\ Q.done = q[m].done
    BY <1>2, <2>2 DEF QueueT
  <2>4. q \in [Modules -> QueueT] BY DEF IInv, Types
  <2>5. q' = [q EXCEPT ![m] = Q] BY <2>1, <2>2
  <2>6. q' \in [Modules -> QueueT] /\ q'[m] = Q /\ \A n \in Modules : n # m => q'[n] = q[n]
    BY <2>3, <2>4, <2>5
  <2>7. Live(Q) = Live(q[m]) BY <2>3, SameLive
  <2>8. Ids(Q) = Ids(q[m]) /\ Head(Q) = Head(q[m]) /\ Loading(Q) = Loading(q[m]) BY <2>3, <2>7 DEF Ids, Head, Loading
  <2>9. Ring(Q) BY <2>3, <2>7 DEF IInv, Types, Ring
  <2>10. host' \in HostT /\ host'.at = "clear" /\ host'.m = m BY <2>1 DEF HostT, Some
  <2>11. Types'
    <3>1. \A n \in Modules : Ring(q'[n]) /\ IdsUsed(q'[n], used'.req) BY <2>6, <2>8, <2>9 DEF IInv, Types, IdsUsed
    <3>2. tamer' \in [Modules -> TamerT] /\ job' \in JobT /\ out' \in OutT /\ turn' \in Turns
          /\ sel' \in [Modules -> Slots \cup {None}] /\ fault' \in BOOLEAN
      BY <1>3, <2>1 DEF IInv, Types
    <3> QED BY <1>4, <1>5, <2>6, <2>10, <3>1, <3>2 DEF Types
  <2>12. PassInv(job, fault, turn, call)' BY <1>3, <1>4, <1>6, <2>1, CallPass
  <2>13. QuietInv'
    <3>1. \A n \in Modules : Quiet(q[n]) => Quiet(q'[n]) BY <2>3, <2>6 DEF Quiet
    <3> QED BY <1>3, <1>7, <3>1 DEF QuietInv
  <2>14. turn = "idle" /\ call.at # "ready" BY <1>6, <1>9 DEF PassInv
  <2>15. ASSUME NEW n \in Modules PROVE DirInv(n)'
    <3>1. DirInv(n) BY DEF IInv
    <3>2. CallInv(n, q[n], tamer[n], due, call') BY <1>2, <1>4, <3>1, HookedCall DEF DirInv
    <3>3. CASE n # m BY <1>3, <1>8, <2>1, <2>6, <3>1, <3>2, <3>3 DEF DirInv, DeferInv
    <3>4. CASE n = m
      <4>1. TailInv(Q) BY <2>3, <2>7, <3>1, <3>4 DEF DirInv, TailInv
      <4>2. LoadInv(m, Q, job) BY <2>3, <2>8, <3>1, <3>4 DEF DirInv, LoadInv, OneLoad
      <4>3. CallInv(m, Q, tamer[m], due, call') BY <2>3, <2>8, <3>2, <3>4 DEF CallInv
      <4>4. HeadInv(Head(Q), tamer[m], due) /\ HeadJob(m, Head(Q), job, fault, Q.clr)
        BY <2>3, <2>8, <3>1, <3>4 DEF DirInv
      <4>5. DeferInv(m, Q, job, turn, call', host') BY <1>4, <1>9, <2>10, <2>14 DEF DeferInv
      <4> QED BY <1>3, <2>1, <2>6, <3>4, <4>1, <4>2, <4>3, <4>4, <4>5 DEF DirInv
    <3> QED BY <3>3, <3>4
  <2> QED BY <2>11, <2>12, <2>13, <2>15 DEF IInv
<1>10. CASE ~Owned(job)
  <2>1. PICK r : r = ClearQueue(s, m).s OBVIOUS
  <2>2. Put(m, r) /\ (host' = [at |-> "clear", m |-> m] \/ host' = Free) BY <1>1, <1>10, <2>1 DEF ClearPacket
  <2>3. host' \in HostT /\ (host'.at # "free" => host'.m \in Modules) BY <2>2 DEF HostT, Some, Free
  <2>4. Preserves(m, s, r, due, fault) /\ (r.job = job \/ LoadFreed(job, r.job, m)) BY <1>2, <2>1, ClearDir
  <2>5. r.job.load = job.load /\ SameJobs(job, r.job) BY <1>10, <2>4 DEF LoadFreed, Owned
  <2>6. PassInv(r.job, fault, turn', call') BY <1>3, <1>4, <1>6, <2>5, CallPass
  <2>7. \A n \in Modules : ~q[n].defer BY <1>10 DEF IInv, DirInv, DeferInv
  <2>8. /\ \A n \in Modules : ~q'[n].defer
        /\ q'[m] = r.q /\ tamer'[m] = r.t
        /\ \A n \in Modules : n # m => q'[n] = q[n] /\ tamer'[n] = tamer[n]
    BY <1>1, <2>2, <2>4, <2>7, PutDirs
  <2>9. ASSUME NEW n \in Modules PROVE CallInv(n, q'[n], tamer'[n], due, call')
    <3>1. CallInv(n, q[n], tamer[n], due, call) BY DEF IInv, DirInv
    <3>2. CASE n # m BY <1>2, <1>4, <2>8, <3>1, <3>2, HookedCall
    <3>3. CASE n = m /\ call' = NoCall BY <3>3, NoCallInv
    <3>4. CASE n = m /\ call' = [call EXCEPT !.hook = TRUE]
      <4>1. CallInv(m, r.q, r.t, due, call') BY <1>2, <2>1, <3>1, <3>4, ClearCall
      <4> QED BY <2>8, <3>4, <4>1
    <3> QED BY <1>4, <3>2, <3>3, <3>4
  <2>10. \A n \in Modules : DeferInv(n, q'[n], r.job, turn', call', host') BY <2>8 DEF DeferInv
  <2> QED BY <1>1, <1>3, <1>4, <1>5, <1>6, <1>7, <2>2, <2>3, <2>4, <2>6, <2>9, <2>10, PutIInv
<1> QED BY <1>9, <1>10

LEMMA ClearIInv ==
  ASSUME IInv, NEW m \in Modules, Clear(m)
  PROVE  IInv'
<1>1. host.at = "free" /\ used' = [used EXCEPT !.clears = @ + 1] /\ ClearPacket(m) BY DEF Clear
<1>2. used \in UsedT BY DEF IInv, Types
<1>3. PICK n \in Nat : n = used.clears + 1 BY <1>2 DEF UsedT
<1>4. used' = [used EXCEPT !.clears = n] BY <1>1, <1>3
<1>5. used' \in UsedT /\ used'.req = used.req BY <1>2, <1>4 DEF UsedT
<1> QED BY <1>1, <1>5, ClearPacketIInv

LEMMA ClearAgainIInv ==
  ASSUME IInv, ClearAgain
  PROVE  IInv'
<1>1. host.at = "clear" /\ ClearPacket(host.m) /\ used' = used BY DEF ClearAgain
<1>2. used \in UsedT /\ host.m \in Modules BY <1>1 DEF IInv, Types
<1>3. PICK m \in Modules : m = host.m BY <1>2
<1> QED BY <1>1, <1>2, <1>3, ClearPacketIInv

\* enqueue_retune_with_identity(): a request more, at the tail.
\* One direction on its own: its ring Q, its tamer t, the jobs j.
DirOf(m, Q, t, D, j, f) ==
  /\ Q \in QueueT /\ Ring(Q) /\ TailInv(Q) /\ HeadInv(Head(Q), t, D)
  /\ LoadInv(m, Q, j) /\ HeadJob(m, Head(Q), j, f, Q.clr)

\* The request e may join it, after which the jobs are k.
Joins(m, Q, e, j, k) ==
  /\ Q.cnt < QueueMax /\ e \in Entry /\ e.id # 0 /\ e.slot \in Slots /\ e.id \notin Ids(Q)
  /\ m = "TX" => ~e.gt
  /\ k.recall = j.recall /\ k.gt = j.gt /\ k.txq = j.txq /\ (k.load = j.load \/ j.load = None)
  /\ Q.cnt > 0 => e.st = "NEW" /\ ~e.imm
  /\ e.st \in {"NEW", "LOAD_PENDING"} \/ (e.st = "READY" /\ e.imm)
  /\ e.st = "LOAD_PENDING" => k.load = m /\ Loading(Q) = {}

Appended(Q, e, R) ==
  /\ R.defer = Q.defer /\ R.clr = Q.clr /\ R.rem = Q.rem /\ R.cnt = Q.cnt + 1
  /\ Ids(R) = Ids(Q) \cup {e.id} /\ (Q.cnt > 0 => Head(R) = Head(Q))

LEMMA AppendDir ==
  ASSUME NEW m \in Modules, NEW D, NEW f, NEW Q, NEW t, NEW j, NEW k, DirOf(m, Q, t, D, j, f),
         NEW e, Joins(m, Q, e, j, k), NEW R, R = Append1(Q, e)
  PROVE  DirOf(m, R, t, D, k, f) /\ Appended(Q, e, R)
<1>a. /\ Q \in QueueT /\ Ring(Q) /\ TailInv(Q) /\ HeadInv(Head(Q), t, D)
      /\ LoadInv(m, Q, j) /\ HeadJob(m, Head(Q), j, f, Q.clr)
  BY DEF DirOf
<1>b. /\ Q.cnt < QueueMax /\ e \in Entry /\ e.id # 0 /\ e.slot \in Slots /\ e.id \notin Ids(Q)
      /\ (m = "TX" => ~e.gt)
      /\ k.recall = j.recall /\ k.gt = j.gt /\ k.txq = j.txq /\ (k.load = j.load \/ j.load = None)
      /\ (Q.cnt > 0 => e.st = "NEW" /\ ~e.imm)
      /\ (e.st \in {"NEW", "LOAD_PENDING"} \/ (e.st = "READY" /\ e.imm))
      /\ (e.st = "LOAD_PENDING" => k.load = m /\ Loading(Q) = {})
      /\ e.st # "INVALID"
  BY DEF Joins
<1>1. PICK p : p = Idx(Q, Q.cnt) OBVIOUS
<1>2. /\ R \in QueueT /\ Ring(R) /\ R.rem = Q.rem /\ R.cnt = Q.cnt + 1
      /\ p \in Indices /\ p \notin Live(Q) /\ Live(R) = Live(Q) \cup {p}
      /\ R.ent = [Q.ent EXCEPT ![p] = e] /\ ~R.done
      /\ R.clr = Q.clr /\ R.defer = Q.defer
      /\ Q.cnt = 0 => p = Q.rem
      /\ Q.cnt > 0 => p # Q.rem
  BY <1>a, <1>b, <1>1, AppendRing
<1>3. Q.ent \in [Indices -> Entry] /\ Q.rem \in Indices /\ Q.cnt \in 0 .. QueueMax /\ Live(Q) \subseteq Indices
  BY <1>a, LiveCells DEF QueueT
<1>4. R.ent[p] = e /\ \A i \in Indices : i # p => R.ent[i] = Q.ent[i] BY <1>2, <1>3
<1>5. \A i \in Live(Q) : i # p /\ R.ent[i] = Q.ent[i] BY <1>2, <1>3, <1>4
<1>6. Q.cnt = 0 \/ Q.cnt > 0 BY <1>3, Sizes
<1>7. TailInv(R)
  <2>1. Q.cnt = 0 => Live(Q) = {} BY <1>a, LiveCells
  <2> QED BY <1>a, <1>b, <1>2, <1>4, <1>5, <1>6, <2>1 DEF TailInv
<1>8. Ids(R) = Ids(Q) \cup {e.id} BY <1>2, <1>4, <1>5 DEF Ids
<1>9. Loading(R) = Loading(Q) \cup (IF e.st = "LOAD_PENDING" THEN {p} ELSE {})
  BY <1>2, <1>4, <1>5 DEF Loading
<1>10. m = "TX" => \A i \in Indices : ~R.ent[i].gt BY <1>a, <1>b, <1>4 DEF LoadInv
<1>11. LoadInv(m, R, k)
  <2>1. CASE e.st = "LOAD_PENDING" BY <1>a, <1>b, <1>9, <1>10, <2>1 DEF LoadInv, OneLoad
  <2>2. CASE e.st # "LOAD_PENDING"
    <3>1. Loading(R) = Loading(Q) BY <1>9, <2>2
    <3> QED BY <1>a, <1>b, <1>10, <3>1, Sizes DEF LoadInv, OneLoad
  <2> QED BY <2>1, <2>2
<1>12. Q.cnt > 0 => Head(R) = Head(Q) BY <1>2, <1>3, <1>4 DEF Head
<1>13. HeadInv(Head(R), t, D) /\ HeadJob(m, Head(R), k, f, R.clr)
  <2>1. CASE Q.cnt > 0
    <3>1. HeadJob(m, Head(Q), k, f, Q.clr) BY <1>a, <1>b DEF HeadJob
    <3> QED BY <1>a, <1>2, <1>12, <2>1, <3>1
  <2>2. CASE Q.cnt = 0
    <3>1. Head(R) = e BY <1>2, <1>4, <2>2 DEF Head
    <3>2. Head(Q).st = "INVALID" BY <1>a, <2>2, Headed DEF Blank
    <3>3. ~ArmedT(t) BY <1>a, <3>2 DEF HeadInv, Comparing
    <3>4. HeadInv(e, t, D) BY <1>b, <3>3 DEF HeadInv, JobStates
    <3>5. HeadJob(m, e, k, f, R.clr) BY <1>a, <1>b, <3>2 DEF HeadJob, JobStates
    <3> QED BY <3>1, <3>4, <3>5
  <2> QED BY <1>6, <2>1, <2>2
<1> QED BY <1>2, <1>7, <1>8, <1>11, <1>12, <1>13 DEF DirOf, Appended

\* What enqueue_retune_with_identity() writes into a cell; g is TRUE or FALSE.
IsFresh(e, n, slot) ==
  /\ e \in Entry /\ e.id = n /\ e.st = "NEW" /\ e.slot = slot
  /\ e.imm = FALSE /\ e.rep = FALSE /\ e.res = FALSE

LEMMA FreshCells ==
  ASSUME NEW n \in Requests, NEW slot \in Slots
  PROVE  /\ IsFresh(Fresh(n, slot, TRUE), n, slot)
         /\ IsFresh(Fresh(n, slot, FALSE), n, slot) /\ Fresh(n, slot, FALSE).gt = FALSE
<1>1. Blank \in Entry BY Sizes DEF Blank, Entry, EntryStates
<1>2. PICK b \in Entry : b = Blank BY <1>1
<1>3. b.imm = FALSE /\ b.res = FALSE BY <1>2 DEF Blank
<1>4. n \in 0 .. MaxRequests BY Sizes DEF Requests
<1>5. "NEW" \in EntryStates BY DEF EntryStates
<1>6. PICK e : e = Fresh(n, slot, TRUE) OBVIOUS
<1>7. PICK d : d = Fresh(n, slot, FALSE) OBVIOUS
<1>8. e = [b EXCEPT !.id = n, !.st = "NEW", !.slot = slot, !.gt = TRUE, !.rep = FALSE] BY <1>2, <1>6 DEF Fresh
<1>9. d = [b EXCEPT !.id = n, !.st = "NEW", !.slot = slot, !.gt = FALSE, !.rep = FALSE] BY <1>2, <1>7 DEF Fresh
<1>10. IsFresh(e, n, slot) BY <1>3, <1>4, <1>5, <1>8 DEF Entry, IsFresh
<1>11. IsFresh(d, n, slot) /\ d.gt = FALSE BY <1>3, <1>4, <1>5, <1>9 DEF Entry, IsFresh
<1> QED BY <1>6, <1>7, <1>10, <1>11

LEMMA FreshCell ==
  ASSUME NEW m, NEW n \in Requests, NEW slot \in Slots, NEW gt \in BOOLEAN,
         NEW e, e = Fresh(n, slot, gt /\ m = "RX")
  PROVE  IsFresh(e, n, slot) /\ (m = "TX" => ~e.gt)
<1>1. CASE gt /\ m = "RX"
  <2>1. (gt /\ m = "RX") = TRUE BY <1>1
  <2>2. e = Fresh(n, slot, TRUE) BY <2>1
  <2> QED BY <1>1, <2>2, FreshCells
<1>2. CASE ~(gt /\ m = "RX")
  <2>1. (gt /\ m = "RX") = FALSE BY <1>2
  <2>2. e = Fresh(n, slot, FALSE) BY <2>1
  <2> QED BY <2>2, FreshCells
<1> QED BY <1>1, <1>2

\* A request is accepted: its number is new, and it is in no queue.
LEMMA NewRequest ==
  ASSUME IInv, used.req < MaxRequests, NEW w, w = [used EXCEPT !.req = @ + 1]
  PROVE  /\ used.req + 1 \in Requests /\ w \in UsedT /\ w.req = used.req + 1
         /\ \A m \in Modules : used.req + 1 \notin Ids(q[m])
         /\ \A m \in Modules : \A Q : Ids(Q) \subseteq Ids(q[m]) \cup {used.req + 1} => IdsUsed(Q, used.req + 1)
<1>1. used \in UsedT /\ used.req \in 0 .. MaxRequests BY DEF IInv, Types, UsedT
<1>2. PICK n : n = used.req + 1 OBVIOUS
<1>3. n \in Requests /\ n \in 0 .. MaxRequests BY <1>1, <1>2, Sizes DEF Requests
<1>4. w = [used EXCEPT !.req = n] BY <1>2
<1>5. w \in UsedT /\ w.req = n BY <1>1, <1>3, <1>4 DEF UsedT
<1>6. ASSUME NEW m \in Modules, NEW x \in Ids(q[m]) PROVE x <= used.req /\ x \in Int
  <2>1. q[m] \in QueueT BY DEF IInv, Types
  <2>2. PICK i \in Live(q[m]) : x = q[m].ent[i].id BY DEF Ids
  <2>3. x \in 0 .. MaxRequests BY <2>1, <2>2, LiveCells DEF QueueT, Entry
  <2> QED BY <2>3, Sizes DEF IInv, Types, IdsUsed
<1>7. \A m \in Modules : n \notin Ids(q[m])
  <2>1. SUFFICES ASSUME NEW m \in Modules, n \in Ids(q[m]) PROVE FALSE OBVIOUS
  <2>2. n <= used.req BY <1>6, <2>1
  <2> QED BY <1>1, <1>2, <2>2, Sizes
<1>8. \A m \in Modules : \A Q : Ids(Q) \subseteq Ids(q[m]) \cup {n} => IdsUsed(Q, n) BY <1>1, <1>2, <1>6 DEF IdsUsed
<1> QED BY <1>2, <1>3, <1>5, <1>7, <1>8

\* A packet that a free host sent changes one ring behind its head.
LEMMA HandledIInv ==
  ASSUME IInv, NEW m \in Modules, Handling, host.at = "free", ~fault,
         NEW R, q' = [q EXCEPT ![m] = R], DirOf(m, R, tamer[m], due, job, fault),
         R.defer = q[m].defer, R.rem = q[m].rem, R.cnt >= q[m].cnt,
         q[m].cnt > 0 => Head(R) = Head(q[m]), used' \in UsedT,
         \A x \in Modules : IdsUsed(q'[x], used'.req),
         UNCHANGED <<tamer, job, sel, fault, turn, host, out, due>>
  PROVE  IInv'
<1>4. UNCHANGED <<tamer, job, sel, fault, turn, host, out, due>> /\ host.at = "free" /\ ~fault OBVIOUS
<1>10. /\ q \in [Modules -> QueueT] /\ q[m] \in QueueT /\ Ring(q[m]) /\ DirInv(m) BY DEF IInv, Types
<1>11. /\ DirOf(m, R, tamer[m], due, job, fault) /\ R \in QueueT /\ Ring(R) BY DEF DirOf
<1>12. q' \in [Modules -> QueueT] /\ q'[m] = R /\ \A x \in Modules : x # m => q'[x] = q[x]
  BY <1>10, <1>11
<1>13. /\ call' \in CallT /\ call'.at = call.at /\ call'.m = call.m /\ call'.i = call.i
       /\ call'.ret = call.ret /\ (call' # NoCall => call # NoCall)
       /\ \/ call = NoCall /\ call' = NoCall /\ turn = "idle"
          \/ call # NoCall /\ call.hook = FALSE /\ call' = [call EXCEPT !.hook = TRUE]
  BY <1>4, HandlingFacts
<1>14. Types'
  <2>1. \A x \in Modules : Ring(q'[x]) BY <1>11, <1>12 DEF IInv, Types
  <2>2. used' \in UsedT /\ \A x \in Modules : IdsUsed(q'[x], used'.req) OBVIOUS
  <2>3. /\ tamer' \in [Modules -> TamerT] /\ job' \in JobT /\ out' \in OutT /\ turn' \in Turns
        /\ sel' \in [Modules -> Slots \cup {None}] /\ fault' \in BOOLEAN /\ host' \in HostT
        /\ host'.at = "free"
    BY <1>4 DEF IInv, Types
  <2>4. call' # NoCall => call'.at # None /\ call'.m \in Modules /\ call'.ret # None
    BY <1>13 DEF IInv, Types
  <2> QED BY <1>12, <1>13, <2>1, <2>2, <2>3, <2>4 DEF Types
<1>15. PassInv(job, fault, turn, call)'
  <2>1. PassInv(job, fault, turn, call) BY DEF IInv
  <2> QED BY <1>4, <1>13, <2>1, CallPass
<1>16. QuietInv' BY <1>4 DEF QuietInv
<1>17. ASSUME NEW x \in Modules PROVE DirInv(x)'
  <2>1. DirInv(x) BY DEF IInv
  <2>2. ~q[x].defer BY <1>4, <2>1 DEF DirInv, DeferInv
  <2>3. CASE x # m
    <3>1. call \in CallT BY DEF IInv, Types
    <3>2. CallInv(x, q[x], tamer[x], due, call') BY <1>13, <2>1, <3>1, HookedCall DEF DirInv
    <3> QED BY <1>4, <1>12, <2>1, <2>2, <2>3, <3>2 DEF DirInv, DeferInv
  <2>4. CASE x = m
    <3>1. CallInv(m, R, tamer[m], due, call')
      <4>1. CASE call' = NoCall BY <4>1, NoCallInv
      <4>2. CASE call.hook = FALSE
        <5>1. q[m].cnt \in 0 .. QueueMax /\ R.cnt \in 0 .. QueueMax BY <1>10, <1>11 DEF QueueT
        <5>2. Head(q[m]).st # "INVALID" => q[m].cnt > 0 BY <1>10, Headed
        <5>3. CallInv(m, q[m], tamer[m], due, call) BY <2>1, <2>4 DEF DirInv
        <5> QED BY <1>11, <1>13, <4>2, <5>1, <5>2, <5>3, Sizes DEF CallInv
      <4> QED BY <1>13, <4>1, <4>2
    <3> QED BY <1>4, <1>11, <1>12, <2>2, <2>4, <3>1 DEF DirInv, DeferInv, DirOf
  <2> QED BY <2>3, <2>4
<1> QED BY <1>14, <1>15, <1>16, <1>17 DEF IInv

LEMMA ScheduleIInv ==
  ASSUME IInv, NEW m \in Modules, NEW slot \in Slots, NEW gt \in BOOLEAN, Schedule(m, slot, gt)
  PROVE  IInv'
<1>1. PICK n : n = used.req + 1 OBVIOUS
<1>2. PICK e : e = Fresh(n, slot, gt /\ m = "RX") OBVIOUS
<1>3. PICK R : R = Append1(q[m], e) OBVIOUS
<1>4. /\ host.at = "free" /\ used.req < MaxRequests /\ Handling /\ ~fault /\ q[m].cnt < QueueMax
      /\ used' = [used EXCEPT !.req = @ + 1] /\ q' = [q EXCEPT ![m] = R]
      /\ UNCHANGED <<tamer, job, sel, fault, turn, host, out, due, covered>>
  BY <1>1, <1>2, <1>3 DEF Schedule
<1>5. /\ n \in Requests /\ used' \in UsedT /\ used'.req = n
      /\ \A x \in Modules : n \notin Ids(q[x])
      /\ \A x \in Modules : \A Q : Ids(Q) \subseteq Ids(q[x]) \cup {n} => IdsUsed(Q, n)
  BY <1>1, <1>4, NewRequest
<1>6. n \in Requests BY <1>5
<1>7. IsFresh(e, n, slot) /\ (m = "TX" => ~e.gt) BY <1>2, <1>6, FreshCell
<1>8. n # 0 BY <1>5, Sizes DEF Requests
<1>9. e \in Entry /\ e.id = n /\ e.st = "NEW" /\ e.slot = slot /\ ~e.imm BY <1>7 DEF IsFresh
<1>10. /\ q \in [Modules -> QueueT] /\ q[m] \in QueueT /\ Ring(q[m]) /\ DirInv(m) BY DEF IInv, Types
<1>11. /\ DirOf(m, R, tamer[m], due, job, fault) /\ R \in QueueT /\ Ring(R)
       /\ R.defer = q[m].defer /\ R.rem = q[m].rem /\ R.cnt = q[m].cnt + 1
       /\ Ids(R) = Ids(q[m]) \cup {n} /\ (q[m].cnt > 0 => Head(R) = Head(q[m]))
  <2>1. DirOf(m, q[m], tamer[m], due, job, fault) BY <1>10 DEF DirInv, DirOf
  <2>2. Joins(m, q[m], e, job, job) BY <1>4, <1>5, <1>7, <1>8, <1>9 DEF Joins
  <2>3. DirOf(m, R, tamer[m], due, job, fault) /\ Appended(q[m], e, R) BY <1>3, <2>1, <2>2, AppendDir
  <2> QED BY <1>9, <2>3 DEF DirOf, Appended
<1>12. \A x \in Modules : IdsUsed(q'[x], used'.req)
  <2>1. \A x \in Modules : Ids(q'[x]) \subseteq Ids(q[x]) \cup {n} BY <1>4, <1>10, <1>11
  <2> QED BY <1>5, <2>1
<1>13. R.cnt >= q[m].cnt
  <2>1. q[m].cnt \in 0 .. QueueMax BY <1>10 DEF QueueT
  <2> QED BY <1>11, <2>1, Sizes
<1> QED BY <1>4, <1>5, <1>11, <1>12, <1>13, HandledIInv

LEMMA ScheduleRefusedIInv ==
  ASSUME IInv, NEW m \in Modules, ScheduleRefused(m)
  PROVE  IInv'
<1>1. /\ host.at = "free" /\ Handling /\ ~fault /\ q' = [q EXCEPT ![m].done = FALSE]
      /\ UNCHANGED <<tamer, job, sel, fault, turn, host, used, out, due, covered>>
  BY DEF ScheduleRefused
<1>2. /\ q \in [Modules -> QueueT] /\ q[m] \in QueueT /\ Ring(q[m]) /\ DirInv(m) BY DEF IInv, Types
<1>3. PICK Q \in QueueT : Q = q[m] BY <1>2
<1>4. PICK R : R = [Q EXCEPT !.done = FALSE] OBVIOUS
<1>5. q' = [q EXCEPT ![m] = R] BY <1>1, <1>2, <1>3, <1>4
<1>6. /\ R \in QueueT /\ R.ent = Q.ent /\ R.rem = Q.rem /\ R.cnt = Q.cnt /\ R.clr = Q.clr
      /\ R.defer = Q.defer /\ R.done = FALSE
  BY <1>4 DEF QueueT
<1>7. Live(R) = Live(Q) BY <1>6, SameLive
<1>8. Head(R) = Head(Q) /\ Ids(R) = Ids(Q) /\ Loading(R) = Loading(Q) BY <1>6, <1>7 DEF Head, Ids, Loading
<1>9. Ring(R) /\ TailInv(R) /\ (LoadInv(m, Q, job) => LoadInv(m, R, job))
  BY <1>2, <1>3, <1>6, <1>7, <1>8 DEF DirInv, Ring, TailInv, LoadInv, OneLoad
<1>10. DirOf(m, R, tamer[m], due, job, fault) BY <1>2, <1>3, <1>6, <1>8, <1>9 DEF DirInv, DirOf
<1>11. \A x \in Modules : IdsUsed(q'[x], used'.req)
  <2>1. \A x \in Modules : Ids(q'[x]) = Ids(q[x]) BY <1>2, <1>3, <1>5, <1>8
  <2> QED BY <1>1, <2>1 DEF IInv, Types, IdsUsed
<1>12. used' \in UsedT BY <1>1 DEF IInv, Types
<1>13. Q.cnt >= Q.cnt
  <2>1. Q.cnt \in 0 .. QueueMax BY DEF QueueT
  <2> QED BY <2>1, Sizes
<1> QED BY <1>1, <1>3, <1>5, <1>6, <1>8, <1>10, <1>11, <1>12, <1>13, HandledIInv

LEMMA HostReturnsIInv ==
  ASSUME IInv, HostReturns
  PROVE  IInv'
<1>1. /\ host.at # "free" /\ (host.at = "clear" => ~q[host.m].defer) /\ host' = Free
      /\ UNCHANGED <<q, tamer, job, sel, fault, turn, call, used, out, due, covered>>
  BY DEF HostReturns
<1>2. \A m \in Modules : ~q[m].defer BY <1>1 DEF IInv, DirInv, DeferInv
<1>3. host' \in HostT /\ host'.at = "free" BY <1>1 DEF Free, HostT, Some
<1>4. Types' BY <1>1, <1>3 DEF IInv, Types, NoCall
<1>5. \A m \in Modules : DirInv(m)' BY <1>1, <1>2 DEF IInv, DirInv, DeferInv
<1>6. PassInv(job, fault, turn, call)' /\ QuietInv' BY <1>1 DEF IInv, QuietInv, NoCall
<1> QED BY <1>4, <1>5, <1>6 DEF IInv

LEMMA NowIInv ==
  ASSUME IInv, NEW m \in Modules, NEW slot \in Slots, NEW gt \in BOOLEAN, NEW res \in BOOLEAN,
         Now(m, slot, gt, res)
  PROVE  IInv'
<1>1. PICK n : n = used.req + 1 OBVIOUS
<1>2. PICK e : e = [Fresh(n, slot, gt /\ m = "RX") EXCEPT !.imm = TRUE, !.res = res,
                        !.st = IF res THEN "READY" ELSE "LOAD_PENDING"]
  OBVIOUS
<1>3. PICK R : R = Append1(q[m], e) OBVIOUS
<1>4. /\ host.at = "free" /\ used.req < MaxRequests /\ turn = "idle" /\ call = NoCall
      /\ ~fault /\ ~Owned(job) /\ (\A x \in Modules : q[x].cnt = 0)
      /\ used' = [used EXCEPT !.req = @ + 1] /\ q' = [q EXCEPT ![m] = R]
      /\ job' = (IF res THEN job ELSE [job EXCEPT !.load = m])
      /\ host' = [at |-> "now", m |-> m]
      /\ UNCHANGED <<tamer, sel, fault, turn, call, out, due, covered>>
  BY <1>1, <1>2, <1>3 DEF Now
<1>5. /\ n \in Requests /\ used' \in UsedT /\ used'.req = n
      /\ \A x \in Modules : n \notin Ids(q[x])
      /\ \A x \in Modules : \A Q : Ids(Q) \subseteq Ids(q[x]) \cup {n} => IdsUsed(Q, n)
  BY <1>1, <1>4, NewRequest
<1>6. n \in Requests /\ n # 0 BY <1>5, Sizes DEF Requests
<1>7. /\ e \in Entry /\ e.id = n /\ e.slot = slot /\ e.imm /\ (m = "TX" => ~e.gt)
      /\ e.st = (IF res THEN "READY" ELSE "LOAD_PENDING")
  <2>1. PICK d : d = Fresh(n, slot, gt /\ m = "RX") OBVIOUS
  <2>2. IsFresh(d, n, slot) /\ (m = "TX" => ~d.gt) BY <1>6, <2>1, FreshCell
  <2>3. d \in Entry /\ d.id = n /\ d.slot = slot BY <2>2 DEF IsFresh
  <2>4. "READY" \in EntryStates /\ "LOAD_PENDING" \in EntryStates BY DEF EntryStates
  <2>5. CASE res = TRUE
    <3>1. e = [d EXCEPT !.imm = TRUE, !.res = TRUE, !.st = "READY"] BY <1>2, <2>1, <2>5
    <3> QED BY <2>2, <2>3, <2>4, <2>5, <3>1 DEF Entry
  <2>6. CASE res = FALSE
    <3>1. e = [d EXCEPT !.imm = TRUE, !.res = FALSE, !.st = "LOAD_PENDING"] BY <1>2, <2>1, <2>6
    <3> QED BY <2>2, <2>3, <2>4, <2>6, <3>1 DEF Entry
  <2> QED BY <2>5, <2>6
<1>8. /\ q \in [Modules -> QueueT] /\ q[m] \in QueueT /\ Ring(q[m]) /\ DirInv(m) /\ job \in JobT
  BY DEF IInv, Types
<1>9. job.load = None /\ job.recall = None /\ ~job.txq BY <1>4 DEF Owned
<1>10. PICK k : k = job' OBVIOUS
<1>11. /\ k \in JobT /\ k.recall = None /\ ~k.txq /\ k.gt = job.gt /\ k.txq = job.txq
       /\ (~res => k.load = m) /\ (res => k.load = None)
  <2>1. CASE res BY <1>4, <1>8, <1>9, <1>10, <2>1
  <2>2. CASE ~res
    <3>1. k = [job EXCEPT !.load = m] BY <1>4, <1>10, <2>2
    <3> QED BY <1>8, <1>9, <2>2, <3>1 DEF JobT, Some
  <2> QED BY <2>1, <2>2
<1>12. \A x \in Modules : Loading(q[x]) = {}
  <2>1. \A x \in Modules : q[x] \in QueueT BY <1>8
  <2>2. \A x \in Modules : Live(q[x]) = {} BY <1>4, <2>1, LiveCells
  <2> QED BY <2>2 DEF Loading
<1>13. DirOf(m, R, tamer[m], due, k, fault) /\ Appended(q[m], e, R)
  <2>1. DirOf(m, q[m], tamer[m], due, job, fault) BY <1>8 DEF DirInv, DirOf
  <2>2. q[m].cnt < QueueMax /\ ~(q[m].cnt > 0) BY <1>4, Sizes
  <2>3. e.id \notin Ids(q[m]) BY <1>5, <1>7
  <2>4. e.st = "LOAD_PENDING" => k.load = m /\ Loading(q[m]) = {} BY <1>7, <1>11, <1>12
  <2>5. e.st \in {"NEW", "LOAD_PENDING"} \/ (e.st = "READY" /\ e.imm) BY <1>7
  <2>6. Joins(m, q[m], e, job, k) BY <1>6, <1>7, <1>9, <1>11, <2>2, <2>3, <2>4, <2>5 DEF Joins
  <2> QED BY <1>3, <2>1, <2>6, AppendDir
<1>14. R \in QueueT /\ Ring(R) /\ R.defer = q[m].defer /\ Ids(R) = Ids(q[m]) \cup {n}
  BY <1>7, <1>13 DEF DirOf, Appended
<1>15. q' \in [Modules -> QueueT] /\ q'[m] = R /\ \A x \in Modules : x # m => q'[x] = q[x]
  BY <1>4, <1>8, <1>14
<1>16. \A x \in Modules : IdsUsed(q'[x], used'.req)
  <2>1. \A x \in Modules : Ids(q'[x]) \subseteq Ids(q[x]) \cup {n} BY <1>14, <1>15
  <2> QED BY <1>5, <2>1
<1>17. Types'
  <2>1. \A x \in Modules : Ring(q'[x]) BY <1>14, <1>15 DEF IInv, Types
  <2>2. /\ tamer' \in [Modules -> TamerT] /\ out' \in OutT /\ turn' \in Turns
        /\ sel' \in [Modules -> Slots \cup {None}] /\ fault' \in BOOLEAN
        /\ call' \in CallT /\ call' = NoCall
    BY <1>4 DEF IInv, Types
  <2>3. host' \in HostT /\ host'.m = m BY <1>4 DEF HostT, Some
  <2> QED BY <1>5, <1>10, <1>11, <1>15, <1>16, <2>1, <2>2, <2>3 DEF Types, NoCall
<1>18. PassInv(job, fault, turn, call)'
  <2>1. call.at = None BY <1>4, NoCallInv
  <2>2. PassInv(k, fault, turn, call) BY <1>4, <1>11, <2>1 DEF PassInv, OneJob, None
  <2> QED BY <1>4, <1>10, <2>2
<1>19. QuietInv' BY <1>4 DEF QuietInv
<1>20. ASSUME NEW x \in Modules PROVE DirInv(x)'
  <2>1. DirInv(x) BY DEF IInv
  <2>2. ~q[x].defer BY <1>4, <2>1 DEF DirInv, DeferInv
  <2>3. ~q'[x].defer BY <1>14, <1>15, <2>2
  <2>4. CallInv(x, q'[x], tamer'[x], due', call') BY <1>4, NoCallInv
  <2>5. CASE x # m
    <3>1. LoadInv(x, q[x], k) BY <1>12, <2>1 DEF DirInv, LoadInv
    <3>2. HeadJob(x, Head(q[x]), k, fault, q[x].clr) BY <1>9, <1>11, <2>1 DEF DirInv, HeadJob
    <3>3. TailInv(q[x]) /\ HeadInv(Head(q[x]), tamer[x], due) BY <2>1 DEF DirInv
    <3> QED BY <1>4, <1>10, <1>15, <2>3, <2>4, <2>5, <3>1, <3>2, <3>3 DEF DirInv, DeferInv
  <2>6. CASE x = m BY <1>4, <1>10, <1>13, <1>15, <2>3, <2>4, <2>6 DEF DirInv, DeferInv, DirOf
  <2> QED BY <2>5, <2>6
<1> QED BY <1>17, <1>18, <1>19, <1>20 DEF IInv

LEMMA HostIInv ==
  ASSUME IInv, Host
  PROVE  IInv'
<1>1. Directions \subseteq Modules BY Sizes
<1> QED BY <1>1, ScheduleIInv, ScheduleRefusedIInv, NowIInv, ClearIInv, ClearAgainIInv, HostReturnsIInv DEF Host

-----------------------------------------------------------------------------
(* The tamer, its clock, and the fault latch.                              *)

\* A step of the tamers that arms nothing and takes no interrupt.
Tames(t, u) ==
  /\ u \in TamerT /\ u.fired = t.fired
  /\ ArmedT(u) => ArmedT(t) /\ u.cmp = t.cmp

LEMMA TamesIInv ==
  ASSUME IInv, UNCHANGED <<q, job, sel, fault, turn, call, host, out, due>>,
         tamer' \in [Modules -> TamerT], \A m \in Modules : Tames(tamer[m], tamer'[m]),
         used' \in UsedT, used'.req = used.req
  PROVE  IInv'
<1>1. Types' BY DEF IInv, Types, NoCall
<1>2. ASSUME NEW m \in Modules PROVE DirInv(m)'
  <2>1. DirInv(m) /\ Tames(tamer[m], tamer'[m]) BY DEF IInv
  <2>2. HeadInv(Head(q[m]), tamer'[m], due) BY <2>1 DEF DirInv, HeadInv, Tames
  <2>3. CallInv(m, q[m], tamer'[m], due, call) BY <2>1 DEF DirInv, CallInv, Tames
  <2> QED BY <2>1, <2>2, <2>3 DEF DirInv
<1>3. PassInv(job, fault, turn, call)' /\ QuietInv' BY DEF IInv, QuietInv, NoCall
<1> QED BY <1>1, <1>2, <1>3 DEF IInv

LEMMA TamerStepIInv ==
  ASSUME IInv, NEW m \in Modules, NEW u, TamerStep(m, u), Tames(tamer[m], u), UNCHANGED <<q, due>>,
         used' \in UsedT, used'.req = used.req
  PROVE  IInv'
<1>1. tamer \in [Modules -> TamerT] /\ u \in TamerT BY DEF IInv, Types, Tames
<1>2. tamer' = [tamer EXCEPT ![m] = u] BY DEF TamerStep
<1>3. tamer' \in [Modules -> TamerT] BY <1>1, <1>2
<1>4. \A n \in Modules : Tames(tamer[n], tamer'[n]) BY <1>1, <1>2 DEF Tames
<1>5. UNCHANGED <<job, sel, fault, turn, call, host, out>> BY DEF TamerStep
<1> QED BY <1>3, <1>4, <1>5, TamesIInv

LEMMA QuietHardware ==
  ASSUME IInv, NEW m \in Modules,
         CompareLoaded(m) \/ ScheduleTimeout(m) \/ CancelDone(m) \/ CancelTimeout(m)
         \/ StallSeen(m) \/ ClockRuns(m) \/ ClockStops(m)
  PROVE  IInv'
<1>1. tamer[m] \in TamerT /\ used \in UsedT BY DEF IInv, Types
<1>2. PICK t \in TamerT : t = tamer[m] BY <1>1
<1>3. t.tog \in {0, 1} /\ 1 - t.tog \in {0, 1} BY DEF TamerT
<1>4. PICK g \in {0, 1} : g = 1 - t.tog BY <1>3
<1>5. CASE CompareLoaded(m)
  <2>1. PICK u : u = [t EXCEPT !.fsm = "armed", !.sack = TRUE, !.swait = FALSE] OBVIOUS
  <2>2. TamerStep(m, u) /\ UNCHANGED <<q, used, due>> /\ t.fsm = "arming" BY <1>2, <1>5, <2>1 DEF CompareLoaded
  <2>3. Tames(t, u) BY <2>1, <2>2 DEF Tames, TamerT, ArmedT
  <2> QED BY <1>1, <1>2, <2>2, <2>3, TamerStepIInv
<1>6. CASE ScheduleTimeout(m)
  <2>1. PICK u : u = [t EXCEPT !.sfail = TRUE, !.swait = FALSE] OBVIOUS
  <2>2. TamerStep(m, u) /\ UNCHANGED <<q, used, due>> BY <1>2, <1>6, <2>1 DEF ScheduleTimeout
  <2>3. Tames(t, u) BY <2>1 DEF Tames, TamerT, ArmedT
  <2> QED BY <1>1, <1>2, <2>2, <2>3, TamerStepIInv
<1>7. CASE CancelDone(m)
  <2>1. PICK u : u = [t EXCEPT !.fsm = "idle", !.tog = g] OBVIOUS
  <2>2. TamerStep(m, u) /\ UNCHANGED <<q, used, due>> BY <1>2, <1>4, <1>7, <2>1 DEF CancelDone
  <2>3. Tames(t, u) BY <2>1 DEF Tames, TamerT, ArmedT
  <2> QED BY <1>1, <1>2, <2>2, <2>3, TamerStepIInv
<1>8. CASE CancelTimeout(m)
  <2>1. PICK u : u = [t EXCEPT !.cfail = TRUE] OBVIOUS
  <2>2. TamerStep(m, u) /\ UNCHANGED <<q, used, due>> BY <1>2, <1>8, <2>1 DEF CancelTimeout
  <2>3. Tames(t, u) BY <2>1 DEF Tames, TamerT, ArmedT
  <2> QED BY <1>1, <1>2, <2>2, <2>3, TamerStepIInv
<1>9. CASE StallSeen(m)
  <2>1. PICK u : u = [t EXCEPT !.stalled = TRUE] OBVIOUS
  <2>2. TamerStep(m, u) /\ UNCHANGED <<q, used, due>> BY <1>2, <1>9, <2>1 DEF StallSeen
  <2>3. Tames(t, u) BY <2>1 DEF Tames, TamerT, ArmedT
  <2> QED BY <1>1, <1>2, <2>2, <2>3, TamerStepIInv
<1>10. CASE ClockRuns(m)
  <2>1. PICK u : u = [t EXCEPT !.clk = TRUE, !.stalled = FALSE] OBVIOUS
  <2>2. TamerStep(m, u) /\ UNCHANGED <<q, used, due>> BY <1>2, <1>10, <2>1 DEF ClockRuns
  <2>3. Tames(t, u) BY <2>1 DEF Tames, TamerT, ArmedT
  <2> QED BY <1>1, <1>2, <2>2, <2>3, TamerStepIInv
<1>11. CASE ClockStops(m)
  <2>1. PICK u : u = [t EXCEPT !.clk = FALSE] OBVIOUS
  <2>2. TamerStep(m, u) /\ UNCHANGED <<q, due>> BY <1>2, <1>11, <2>1 DEF ClockStops
  <2>3. Tames(t, u) BY <2>1 DEF Tames, TamerT, ArmedT
  <2>4. used' = [used EXCEPT !.stalls = @ + 1] BY <1>11 DEF ClockStops
  <2>5. used' \in UsedT /\ used'.req = used.req BY <1>1, <2>4 DEF UsedT
  <2> QED BY <1>2, <2>2, <2>3, <2>5, TamerStepIInv
<1> QED BY <1>5, <1>6, <1>7, <1>8, <1>9, <1>10, <1>11

LEMMA MetaIInv ==
  ASSUME IInv, MetaOff \/ MetaOn
  PROVE  IInv'
<1>1. tamer \in [Modules -> TamerT] /\ used \in UsedT BY DEF IInv, Types
<1>2. CASE MetaOff
  <2>1. UNCHANGED <<q, job, sel, fault, turn, call, host, out, due>> BY <1>2 DEF MetaOff
  <2>a. used.resets \in Nat /\ used.resets + 1 \in Nat BY <1>1 DEF UsedT
  <2>b. PICK n \in Nat : n = used.resets + 1 BY <2>a
  <2>c. [used EXCEPT !.resets = n] \in UsedT BY <1>1 DEF UsedT
  <2>2. PICK w \in UsedT : w = [used EXCEPT !.resets = n] BY <2>c
  <2>3. w.req = used.req BY <1>1, <2>2 DEF UsedT
  <2>4. used' \in UsedT /\ used'.req = used.req
    <3>1. CASE (used.dropped \/ \E m \in Directions : tamer[m].fsm = "cancel") = TRUE
      <4>1. used' = [w EXCEPT !.dropped = TRUE] BY <1>2, <2>b, <2>2, <3>1 DEF MetaOff
      <4> QED BY <2>3, <4>1 DEF UsedT
    <3>2. CASE (used.dropped \/ \E m \in Directions : tamer[m].fsm = "cancel") = FALSE
      <4>1. used' = [w EXCEPT !.dropped = FALSE] BY <1>2, <2>b, <2>2, <3>2 DEF MetaOff
      <4> QED BY <2>3, <4>1 DEF UsedT
    <3> QED BY <3>1, <3>2
  <2>5. ASSUME NEW m \in Modules PROVE tamer'[m] \in TamerT /\ Tames(tamer[m], tamer'[m])
    <3>1. PICK t \in TamerT : t = tamer[m] BY <1>1
    <3>2. \/ tamer'[m] = t
          \/ tamer'[m] = [t EXCEPT !.held = TRUE, !.fsm = "idle", !.sfail = FALSE, !.swait = FALSE,
                             !.cfail = FALSE, !.stalled = FALSE]
      BY <1>2, <3>1 DEF MetaOff
    <3> QED BY <3>1, <3>2 DEF Tames, TamerT, ArmedT
  <2>6. tamer' = [m \in Modules |-> tamer'[m]] BY <1>2 DEF MetaOff
  <2>7. tamer' \in [Modules -> TamerT] BY <2>5, <2>6
  <2> QED BY <2>1, <2>4, <2>5, <2>7, TamesIInv
<1>3. CASE MetaOn
  <2>1. UNCHANGED <<q, job, sel, fault, turn, call, host, out, due, used>> BY <1>3 DEF MetaOn
  <2>2. ASSUME NEW m \in Modules PROVE tamer'[m] \in TamerT /\ Tames(tamer[m], tamer'[m])
    <3>1. PICK t \in TamerT : t = tamer[m] BY <1>1
    <3>2. tamer'[m] = [t EXCEPT !.held = FALSE] BY <1>3, <3>1 DEF MetaOn
    <3> QED BY <3>1, <3>2 DEF Tames, TamerT, ArmedT
  <2>3. tamer' = [m \in Modules |-> tamer'[m]] BY <1>3 DEF MetaOn
  <2>4. tamer' \in [Modules -> TamerT] BY <2>2, <2>3
  <2> QED BY <1>1, <2>1, <2>2, <2>4, TamesIInv
<1> QED BY <1>2, <1>3

\* retune_isr(): the compare that fired is the head's.
LEMMA FireDir ==
  ASSUME NEW m \in Modules, NEW D, NEW f, NEW Q, NEW t \in TamerT, NEW j, DirOf(m, Q, t, D, j, f),
         ArmedT(t), NEW u, u.fsm = "idle", NEW E, E = D \cup {t.cmp}, NEW R, R = Isr(Q)
  PROVE  /\ DirOf(m, R, u, E, j, f) /\ R.defer = Q.defer /\ R.cnt = Q.cnt /\ R.clr = Q.clr
         /\ Ids(R) = Ids(Q) /\ R \in QueueT /\ Ring(R)
<1>1. /\ Q \in QueueT /\ Ring(Q) /\ TailInv(Q) /\ HeadInv(Head(Q), t, D)
      /\ LoadInv(m, Q, j) /\ HeadJob(m, Head(Q), j, f, Q.clr)
  BY DEF DirOf
<1>2. HeadOf(Q) = Head(Q) /\ Head(Q) \in Entry /\ Q.rem \in Indices BY <1>1, Headed
<1>3. ~ArmedT(u) BY DEF ArmedT
<1>4. Head(Q).id = t.cmp /\ Head(Q).st \in Comparing BY <1>1 DEF HeadInv
<1>5. Head(Q).id \in E /\ D \subseteq E BY <1>4
<1>6. CASE R = Q
  <2>1. HeadInv(Head(Q), u, E) BY <1>1, <1>3, <1>5 DEF HeadInv
  <2> QED BY <1>1, <1>6, <2>1 DEF DirOf
<1>7. CASE ~Q.clr /\ Head(Q).st \in {"SCHEDULE_PENDING", "SCHEDULED"} /\ R # Q
  <2>1. PICK e : e = St(Head(Q), "READY") OBVIOUS
  <2>2. R = [Q EXCEPT !.ent[Q.rem].st = "READY"] BY <1>2, <1>7 DEF Isr
  <2>3. /\ e \in Entry /\ e.st = "READY" /\ e.id = Head(Q).id /\ e.slot = Head(Q).slot
        /\ e.imm = Head(Q).imm /\ e.gt = Head(Q).gt
    BY <1>2, <2>1 DEF St, Entry, EntryStates
  <2>4. Q.ent \in [Indices -> Entry] BY <1>1 DEF QueueT
  <2>5. R = [Q EXCEPT !.ent = [Q.ent EXCEPT ![Q.rem] = e]] BY <2>1, <2>2 DEF St, Head
  <2>6. /\ R \in QueueT /\ R.ent = [Q.ent EXCEPT ![Q.rem] = e] /\ R.rem = Q.rem /\ R.cnt = Q.cnt
        /\ R.clr = Q.clr /\ R.done = Q.done /\ R.defer = Q.defer
    <3>1. PICK en \in [Indices -> Entry] : en = [Q.ent EXCEPT ![Q.rem] = e] BY <2>3, <2>4
    <3> QED BY <1>1, <2>5, <3>1 DEF QueueT
  <2>7. Live(R) = Live(Q) BY <2>6, SameLive
  <2>8. Head(R) = e /\ \A i \in Indices : i # Q.rem => R.ent[i] = Q.ent[i]
    BY <1>2, <2>4, <2>6 DEF Head
  <2>9. Live(Q) \subseteq Indices BY <1>1, LiveCells
  <2>10. \A i \in Indices : R.ent[i].id = Q.ent[i].id /\ R.ent[i].gt = Q.ent[i].gt /\ R.ent[i].slot = Q.ent[i].slot
    BY <2>3, <2>6, <2>8 DEF Head
  <2>11. Q.rem \in Live(Q) BY <1>1, <1>7, Headed
  <2>12. Ring(R) BY <1>1, <2>3, <2>6, <2>7, <2>8, <2>9, <2>10, <2>11 DEF Ring, Head
  <2>13. Ids(R) = Ids(Q) BY <2>7, <2>9, <2>10 DEF Ids
  <2>14. TailInv(R) BY <1>1, <2>6, <2>7, <2>8, <2>9 DEF TailInv
  <2>15. Loading(R) = Loading(Q) BY <1>7, <2>3, <2>6, <2>7, <2>8, <2>9 DEF Loading, Head
  <2>16. LoadInv(m, R, j) BY <1>1, <2>10, <2>15 DEF LoadInv, OneLoad
  <2>17. HeadInv(e, u, E) BY <1>3, <1>5, <2>3 DEF HeadInv, JobStates
  <2>18. HeadJob(m, e, j, f, R.clr) BY <1>1, <1>7, <2>3 DEF HeadJob, JobStates
  <2> QED BY <2>6, <2>8, <2>12, <2>13, <2>14, <2>16, <2>17, <2>18 DEF DirOf
<1> QED BY <1>2, <1>6, <1>7 DEF Isr

LEMMA FireIInv ==
  ASSUME IInv, NEW m \in Modules, Fire(m)
  PROVE  IInv'
<1>1. /\ q \in [Modules -> QueueT] /\ tamer \in [Modules -> TamerT] /\ tamer[m] \in TamerT /\ DirInv(m)
      /\ q[m] \in QueueT /\ Ring(q[m])
  BY DEF IInv, Types
<1>2. PICK t \in TamerT : t = tamer[m] BY <1>1
<1>3. PICK u : u = [t EXCEPT !.fsm = "idle", !.sack = TRUE, !.fired = TRUE, !.swait = FALSE] OBVIOUS
<1>4. u \in TamerT /\ u.fsm = "idle" BY <1>3 DEF TamerT
<1>5. PICK R : R = Isr(q[m]) OBVIOUS
<1>6. /\ ArmedT(t) /\ tamer' = [tamer EXCEPT ![m] = u] /\ q' = [q EXCEPT ![m] = R]
      /\ due' = due \cup {t.cmp}
      /\ UNCHANGED <<job, sel, fault, turn, call, host, used, out>>
  BY <1>2, <1>3, <1>5 DEF Fire, TamerStep, ArmedT
<1>7. DirOf(m, q[m], t, due, job, fault) BY <1>1, <1>2 DEF DirInv, DirOf
<1>8. /\ DirOf(m, R, u, due', job, fault) /\ R.defer = q[m].defer /\ R.cnt = q[m].cnt /\ R.clr = q[m].clr
      /\ Ids(R) = Ids(q[m]) /\ R \in QueueT /\ Ring(R)
  BY <1>4, <1>5, <1>6, <1>7, FireDir
<1>9. /\ q' \in [Modules -> QueueT] /\ q'[m] = R /\ (\A x \in Modules : x # m => q'[x] = q[x])
      /\ tamer' \in [Modules -> TamerT] /\ tamer'[m] = u /\ (\A x \in Modules : x # m => tamer'[x] = tamer[x])
  BY <1>1, <1>4, <1>6, <1>8
<1>10. call.m # m BY <1>1, <1>2, <1>6 DEF DirInv, CallInv
<1>11. Types'
  <2>1. \A x \in Modules : Ring(q'[x]) /\ Ids(q'[x]) = Ids(q[x]) BY <1>8, <1>9 DEF IInv, Types
  <2>2. \A x \in Modules : IdsUsed(q'[x], used') <=> IdsUsed(q[x], used') BY <2>1 DEF IdsUsed
  <2>3. \A x \in Modules : IdsUsed(q'[x], used.req) BY <2>1 DEF IInv, Types, IdsUsed
  <2> QED BY <1>6, <1>9, <2>1, <2>3 DEF IInv, Types, NoCall
<1>12. PassInv(job, fault, turn, call)' BY <1>6 DEF IInv
<1>13. QuietInv'
  <2>1. \A x \in Modules : Quiet(q[x]) => Quiet(q'[x]) BY <1>8, <1>9 DEF Quiet
  <2> QED BY <1>6, <2>1 DEF IInv, QuietInv, NoCall
<1>14. ASSUME NEW x \in Modules PROVE DirInv(x)'
  <2>1. DirInv(x) BY DEF IInv
  <2>2. CASE x = m
    <3>1. CallInv(m, R, u, due', call) BY <1>10 DEF CallInv
    <3>2. DeferInv(m, R, job, turn, call, host) BY <1>1, <1>8 DEF DirInv, DeferInv
    <3> QED BY <1>6, <1>8, <1>9, <2>2, <3>1, <3>2 DEF DirInv, DirOf
  <2>3. CASE x # m
    <3>1. due \subseteq due' BY <1>6
    <3>2. HeadInv(Head(q[x]), tamer[x], due') BY <2>1, <3>1 DEF DirInv, HeadInv
    <3>3. CallInv(x, q[x], tamer[x], due', call) BY <2>1, <3>1 DEF DirInv, CallInv
    <3> QED BY <1>6, <1>9, <2>1, <2>3, <3>2, <3>3 DEF DirInv
  <2> QED BY <2>2, <2>3
<1> QED BY <1>11, <1>12, <1>13, <1>14 DEF IInv

LEMMA RficIInv ==
  ASSUME IInv, RficFault \/ RficInit
  PROVE  IInv'
<1>1. /\ RficIdle /\ fault' \in BOOLEAN
      /\ UNCHANGED <<q, tamer, job, sel, turn, call, host, out, due, covered>>
  BY DEF RficFault, RficInit
<1>2. turn = "idle" /\ call = NoCall /\ ~Owned(job) /\ ~job.gt BY <1>1 DEF RficIdle
<1>3. used' \in UsedT /\ used'.req = used.req
  <2>1. used \in UsedT BY DEF IInv, Types
  <2>2. used' = used \/ used' = [used EXCEPT !.faults = @ + 1] BY DEF RficFault, RficInit
  <2> QED BY <2>1, <2>2 DEF UsedT
<1>4. Types' BY <1>1, <1>3 DEF IInv, Types, NoCall
<1>5. PassInv(job, fault, turn, call)'
  <2>1. call.at = None BY <1>2, NoCallInv
  <2>2. PassInv(job, fault', turn, call) BY <1>2, <2>1 DEF IInv, PassInv, Owned, None
  <2> QED BY <1>1, <2>2
<1>6. QuietInv' BY <1>1, <1>2 DEF QuietInv, NoCall
<1>7. ASSUME NEW m \in Modules PROVE DirInv(m)'
  <2>1. DirInv(m) /\ m # None BY Sizes DEF IInv
  <2>2. HeadJob(m, Head(q[m]), job, fault, q[m].clr) BY <2>1 DEF DirInv
  <2>3. HeadJob(m, Head(q[m]), job, fault', q[m].clr) BY <1>2, <2>1, <2>2 DEF HeadJob, Owned, JobStates, Modules
  <2> QED BY <1>1, <2>1, <2>3 DEF DirInv
<1> QED BY <1>4, <1>5, <1>6, <1>7 DEF IInv

-----------------------------------------------------------------------------
(* The inductive invariant.                                                *)

LEMMA InitIInv ==
  ASSUME Init
  PROVE  IInv
<1>1. \A m \in Modules : q[m] = EmptyQueue(0) /\ tamer[m] = TamerIdle BY DEF Init
<1>2. EmptyQueue(0) \in QueueT /\ Ring(EmptyQueue(0)) /\ Live(EmptyQueue(0)) = {} BY EmptyRing
<1>3. PICK Q \in QueueT : Q = EmptyQueue(0) BY <1>2
<1>4. Q.cnt = 0 /\ ~Q.clr /\ ~Q.defer /\ ~Q.done /\ \A i \in Indices : Q.ent[i] = Blank BY <1>3 DEF EmptyQueue
<1>5. Head(Q) = Blank BY <1>2, <1>3, <1>4, Headed
<1>6. Loading(Q) = {} /\ Ids(Q) = {} BY <1>2, <1>3 DEF Loading, Ids
<1>7. TamerIdle \in TamerT /\ TamerIdle.fsm = "idle" BY Sizes DEF TamerIdle, TamerT
<1>8. NoCall \in CallT /\ NoCall.at = None BY NoCallInv
<1>9. Types
  <2>1. q \in [Modules -> QueueT] /\ tamer \in [Modules -> TamerT] BY <1>2, <1>7 DEF Init
  <2>2. job \in JobT /\ sel \in [Modules -> Slots \cup {None}] /\ fault \in BOOLEAN /\ turn \in Turns
    BY DEF Init, JobT, Some, Turns
  <2>3. host \in HostT /\ host.at = "free" BY DEF Init, Free, HostT, Some
  <2>4. used \in UsedT BY Sizes DEF Init, UsedT
  <2>5. out \in OutT BY DEF Init, OutT, Record
  <2>6. call = NoCall BY DEF Init
  <2>7. \A m \in Modules : Ring(q[m]) /\ IdsUsed(q[m], used.req) BY <1>1, <1>2, <1>3, <1>6 DEF IdsUsed
  <2> QED BY <1>8, <2>1, <2>2, <2>3, <2>4, <2>5, <2>6, <2>7 DEF Types
<1>10. job.load = None /\ job.recall = None /\ ~job.gt /\ ~job.txq /\ turn = "idle" /\ call = NoCall /\ ~fault BY DEF Init
<1>11. ASSUME NEW m \in Modules PROVE DirInv(m)
  <2>1. TailInv(Q) BY <1>2, <1>3, <1>4 DEF TailInv
  <2>2. HeadInv(Blank, TamerIdle, due) BY <1>7 DEF HeadInv, Blank, ArmedT, JobStates
  <2>3. LoadInv(m, Q, job) BY <1>4, <1>6 DEF LoadInv, OneLoad, Blank
  <2>4. HeadJob(m, Blank, job, fault, Q.clr) BY <1>10 DEF HeadJob, Blank, JobStates
  <2>5. CallInv(m, Q, TamerIdle, due, call) BY <1>10, NoCallInv
  <2> QED BY <1>1, <1>3, <1>4, <1>5, <2>1, <2>2, <2>3, <2>4, <2>5 DEF DirInv, DeferInv
<1>12. PassInv(job, fault, turn, call) BY <1>8, <1>10 DEF PassInv, OneJob, Owned, None
<1>13. QuietInv BY <1>10 DEF QuietInv
<1> QED BY <1>9, <1>11, <1>12, <1>13 DEF IInv

LEMMA StutterIInv ==
  ASSUME IInv, UNCHANGED vars
  PROVE  IInv'
<1>1. UNCHANGED <<q, tamer, job, sel, fault, turn, call, host, used, out, due>> BY DEF vars
<1>2. Types' BY <1>1 DEF IInv, Types, NoCall
<1>3. (\A m \in Modules : DirInv(m)') /\ PassInv(job, fault, turn, call)' /\ QuietInv'
  BY <1>1 DEF IInv, DirInv, QuietInv, NoCall
<1> QED BY <1>2, <1>3 DEF IInv

LEMMA NextIInv ==
  ASSUME IInv, [Next]_vars
  PROVE  IInv'
<1>1. Directions \subseteq Modules BY Sizes
<1> QED BY <1>1, HostIInv, WorkerIInv, QuietHardware, FireIInv, MetaIInv, RficIInv, StutterIInv DEF Next, Hardware

-----------------------------------------------------------------------------
(* What the invariant says.                                                *)

LEMMA TypesOK ==
  ASSUME IInv
  PROVE  TypeOK
<1>1. ASSUME NEW m \in Modules
      PROVE  /\ q[m].rem \in Indices /\ q[m].cnt \in 0 .. QueueMax
             /\ tamer[m].fsm \in {"idle", "arming", "armed", "cancel"}
             /\ sel[m] \in Slots \cup {None}
             /\ \A i \in Indices : /\ q[m].ent[i].st \in EntryStates
                                   /\ q[m].ent[i].id \in 0 .. MaxRequests
                                   /\ (i \in Live(q[m])) = (q[m].ent[i].st # "INVALID")
  <2>1. q[m] \in QueueT /\ Ring(q[m]) /\ tamer[m] \in TamerT /\ sel[m] \in Slots \cup {None}
    BY DEF IInv, Types
  <2>2. q[m].rem \in Indices /\ q[m].cnt \in 0 .. QueueMax /\ q[m].ent \in [Indices -> Entry]
    BY <2>1 DEF QueueT
  <2>3. ASSUME NEW i \in Indices
        PROVE  /\ q[m].ent[i].st \in EntryStates
               /\ q[m].ent[i].id \in 0 .. MaxRequests
               /\ (i \in Live(q[m])) = (q[m].ent[i].st # "INVALID")
    <3>1. q[m].ent[i] \in Entry BY <2>2
    <3>2. q[m].ent[i].st \in EntryStates /\ q[m].ent[i].id \in 0 .. MaxRequests BY <3>1 DEF Entry
    <3>3. i \in Live(q[m]) => q[m].ent[i].st # "INVALID" BY <2>1 DEF Ring
    <3>4. i \notin Live(q[m]) => q[m].ent[i].st = "INVALID" BY <2>1 DEF Ring, Blank
    <3> QED BY <3>2, <3>3, <3>4
  <2>4. tamer[m].fsm \in {"idle", "arming", "armed", "cancel"} BY <2>1 DEF TamerT
  <2> QED BY <2>1, <2>2, <2>3, <2>4
<1>2. job.load \in Modules \cup {None} /\ job.recall \in Modules \cup {None}
      /\ turn \in {"idle", "tx", "pre", "headRX", "headTX"}
  BY DEF IInv, Types, JobT, Some, Turns
<1> QED BY <1>1, <1>2 DEF TypeOK

LEMMA HeadsOwn ==
  ASSUME IInv
  PROVE  ArmedOwned
<1>1. SUFFICES ASSUME NEW m \in Modules, tamer[m].fsm \in {"arming", "armed"}
               PROVE  /\ HeadOf(q[m]).id = tamer[m].cmp
                      /\ HeadOf(q[m]).st \in {"SCHEDULE_PENDING", "SCHEDULED", "CANCEL_PENDING"}
  BY DEF ArmedOwned
<1>2. q[m] \in QueueT /\ Ring(q[m]) /\ HeadInv(Head(q[m]), tamer[m], due) BY DEF IInv, Types, DirInv
<1>3. HeadOf(q[m]) = Head(q[m]) BY <1>2, Headed
<1>4. Head(q[m]).id = tamer[m].cmp /\ Head(q[m]).st \in Comparing BY <1>1, <1>2 DEF HeadInv, ArmedT
<1> QED BY <1>3, <1>4 DEF Comparing

LEMMA OnlyDueServed ==
  ASSUME IInv
  PROVE  Punctual
<1>1. SUFFICES ASSUME NEW m \in Modules, NEW i \in Live(q[m]), q[m].ent[i].st \in JobStates \cup {"READY"}
               PROVE  q[m].ent[i].imm \/ q[m].ent[i].id \in due
  BY DEF Punctual
<1>2. TailInv(q[m]) /\ HeadInv(Head(q[m]), tamer[m], due) BY DEF IInv, DirInv
<1>3. i = q[m].rem BY <1>1, <1>2 DEF TailInv, JobStates
<1> QED BY <1>1, <1>2, <1>3 DEF HeadInv, Head

\* Every queue is a ring of distinct accepted requests, every other cell is
\* blank, and the worker, the jobs and the tamers hold what their code allows.
THEOREM TypeCorrect == Spec => []TypeOK
<1>1. Init => IInv BY InitIInv
<1>2. IInv /\ [Next]_vars => IInv' BY NextIInv
<1>3. IInv => TypeOK BY TypesOK
<1> QED BY <1>1, <1>2, <1>3, PTL DEF Spec

\* An armed compare belongs to the head of its queue, in a state that waits
\* for it or cancels it: no CLEAR, fault, stalled clock or metadata reset, in
\* any order, leaves one that would fire for nobody.
THEOREM CompareOwnedByHead == Spec => []ArmedOwned
<1>1. Init => IInv BY InitIInv
<1>2. IInv /\ [Next]_vars => IInv' BY NextIInv
<1>3. IInv => ArmedOwned BY HeadsOwn
<1> QED BY <1>1, <1>2, <1>3, PTL DEF Spec

\* A scheduled request reaches the RFIC only after its own compare fired,
\* through every hook, CLEAR and sticky bit.
THEOREM ServedWhenDue == Spec => []Punctual
<1>1. Init => IInv BY InitIInv
<1>2. IInv /\ [Next]_vars => IInv' BY NextIInv
<1>3. IInv => Punctual BY OnlyDueServed
<1> QED BY <1>1, <1>2, <1>3, PTL DEF Spec

-----------------------------------------------------------------------------
(* Completion records: what the cells of one queue say about them.         *)

\* A request of the queue has a record exactly when its cell says so.
Match(Q, o) ==
  \A i \in Live(Q) : /\ o[Q.ent[i].id].ok = 0
                     /\ o[Q.ent[i].id].fail = IF Q.ent[i].rep THEN 1 ELSE 0

\* Requests behind the head that have their record and yet would be served.
Doomed(Q) == {i \in Live(Q) \ {Q.rem} : Q.ent[i].rep /\ Q.ent[i].st # "LOAD_FAILED"}

\* Which cells may have their record: a failed upload, and a head that only
\* waits for its compare to be disarmed; all of them after an RFIC fault, and
\* then the queue goes with its head.
Marks(Q) ==
  /\ \A i \in Live(Q) : Q.ent[i].st = "LOAD_FAILED" => Q.ent[i].rep
  /\ Q.cnt > 0 /\ Head(Q).rep => Head(Q).st \in {"LOAD_FAILED", "CANCEL_PENDING"}
  /\ Q.cnt > 0 /\ Head(Q).st = "CANCEL_PENDING" /\ ~Q.clr => Head(Q).rep
  /\ Doomed(Q) # {} => Q.clr /\ Head(Q).st = "CANCEL_PENDING"

\* Nothing of the queue is lost with it: C are the requests the host cleared.
Covers(Q, C) == \A i \in Live(Q) : Q.ent[i].rep \/ Q.ent[i].id \in C

RecDir(Q, o, C) ==
  /\ Match(Q, o) /\ Marks(Q)
  /\ Q.clr \/ Q.defer => Covers(Q, C)

\* The worker is in a call for this direction: only failed uploads behind the
\* head have their record.
Bare(Q) == \A i \in Live(Q) : Q.ent[i].rep => i # Q.rem /\ Q.ent[i].st = "LOAD_FAILED"
CallRec(m, Q, c) == c.m = m => Bare(Q)

RInv ==
  /\ \A m \in Modules : RecDir(q[m], out, covered) /\ CallRec(m, q[m], call)
  /\ Ids(q["RX"]) \cap Ids(q["TX"]) = {}
  /\ \A x \in Requests : x > used.req => out[x].ok = 0 /\ out[x].fail = 0
  /\ OneOutcome /\ NothingLost

\* The requests of the queue are numbers of accepted requests.
LEMMA LiveIds ==
  ASSUME NEW Q \in QueueT, Ring(Q), NEW i \in Live(Q)
  PROVE  i \in Indices /\ Q.ent[i] \in Entry /\ Q.ent[i].id \in Requests /\ Q.ent[i].id \in Ids(Q)
<1>1. i \in Indices /\ Q.ent[i] \in Entry BY LiveCells DEF QueueT
<1>2. Q.ent[i].id \in 0 .. MaxRequests /\ Q.ent[i].id # 0 BY <1>1 DEF Ring, Entry
<1> QED BY <1>1, <1>2, Sizes DEF Requests, Ids

\* What a step of direction m does to the records: it changes none of another
\* queue, ends no request twice, and drops none without a record or a CLEAR.
Accounts(s, r, C) ==
  /\ RecDir(r.q, r.out, C) /\ Ids(r.q) \subseteq Ids(s.q)
  /\ \A x \in Requests \ Ids(s.q) : r.out[x] = s.out[x]
  /\ \A x \in Ids(s.q) : r.out[x].ok + r.out[x].fail <= 1
  /\ \A x \in Ids(s.q) \ Ids(r.q) : r.out[x].ok + r.out[x].fail > 0 \/ x \in C

\* A queue whose requests all stay.
LEMMA KeptAccounts ==
  ASSUME NEW s \in ViewT, Ring(s.q), NEW r \in ViewT, Kept(s.q, r.q), NEW C, RecDir(r.q, r.out, C),
         \A x \in Requests \ Ids(s.q) : r.out[x] = s.out[x]
  PROVE  Accounts(s, r, C)
<1>1. s.q \in QueueT BY DEF ViewT
<1>2. Ids(r.q) = Ids(s.q) BY <1>1, KeptRing
<1>3. \A x \in Ids(r.q) : r.out[x].ok + r.out[x].fail <= 1 BY DEF RecDir, Match, Ids
<1> QED BY <1>2, <1>3 DEF Accounts

\* A queue of which nothing stays.
LEMMA EmptiedAccounts ==
  ASSUME NEW s \in ViewT, Ring(s.q), NEW r \in ViewT, NEW b, Emptied(s.q, r.q, b), NEW C,
         \A x \in Requests \ Ids(s.q) : r.out[x] = s.out[x],
         \A i \in Live(s.q) : LET x == s.q.ent[i].id
                              IN  /\ r.out[x].ok + r.out[x].fail <= 1
                                  /\ r.out[x].ok + r.out[x].fail > 0 \/ x \in C
  PROVE  Accounts(s, r, C)
<1>1. Live(r.q) = {} /\ r.q.cnt = 0 /\ Ids(r.q) = {} /\ ~r.q.clr /\ ~r.q.defer BY DEF Emptied, Ids
<1>2. Match(r.q, r.out) BY <1>1 DEF Match
<1>3. Marks(r.q) BY <1>1 DEF Marks, Doomed
<1>4. RecDir(r.q, r.out, C) BY <1>1, <1>2, <1>3 DEF RecDir
<1>5. \A x \in Ids(s.q) : \E i \in Live(s.q) : x = s.q.ent[i].id BY DEF Ids
<1> QED BY <1>1, <1>4, <1>5 DEF Accounts

\* The head leaves; p are the records after it did.
LEMMA LeftAccounts ==
  ASSUME NEW s \in ViewT, Ring(s.q), TailInv(s.q), NEW r \in ViewT, Left(s.q, r.q), NEW C,
         RecDir(s.q, s.out, C), Doomed(s.q) = {},
         \A x \in Requests : x # Head(s.q).id => r.out[x] = s.out[x],
         LET x == Head(s.q).id
         IN  /\ r.out[x].ok + r.out[x].fail <= 1
             /\ r.out[x].ok + r.out[x].fail > 0 \/ x \in C
  PROVE  Accounts(s, r, C)
<1>1. s.q \in QueueT /\ r.q \in QueueT /\ Ring(r.q) /\ s.q.cnt > 0 BY DEF ViewT, Left
<1>2. /\ Live(r.q) = Live(s.q) \ {s.q.rem} /\ s.q.rem \in Live(s.q)
      /\ \A i \in Live(r.q) : i \in Indices /\ r.q.ent[i] = s.q.ent[i]
  BY <1>1, LiveCells DEF Left
<1>3. \A i \in Live(r.q) : s.q.ent[i].id # Head(s.q).id BY <1>2 DEF Ring, Head
<1>4. \A i \in Live(s.q) : s.q.ent[i].id \in Requests BY <1>1, LiveIds
<1>5. Match(r.q, r.out) BY <1>2, <1>3, <1>4 DEF Match, RecDir
<1>6. \A i \in Live(r.q) : r.q.ent[i].rep => r.q.ent[i].st = "LOAD_FAILED" BY <1>2 DEF Doomed
<1>7. \A i \in Live(r.q) : r.q.ent[i].st \in {"NEW", "LOAD_PENDING", "LOAD_FAILED"} BY <1>2 DEF TailInv
<1>8. r.q.cnt > 0 => r.q.rem \in Live(r.q) BY <1>1, LiveCells
<1>9. Marks(r.q)
  <2>1. \A i \in Live(r.q) : r.q.ent[i].st = "LOAD_FAILED" => r.q.ent[i].rep BY <1>2 DEF Marks, RecDir
  <2>2. r.q.cnt > 0 => Head(r.q).st # "CANCEL_PENDING" BY <1>7, <1>8 DEF Head
  <2>3. r.q.cnt > 0 /\ Head(r.q).rep => Head(r.q).st = "LOAD_FAILED" BY <1>6, <1>8 DEF Head
  <2>4. Doomed(r.q) = {} BY <1>6 DEF Doomed
  <2> QED BY <2>1, <2>2, <2>3, <2>4 DEF Marks
<1>10. Covers(s.q, C) => Covers(r.q, C) BY <1>2 DEF Covers
<1>11. RecDir(r.q, r.out, C) BY <1>5, <1>9, <1>10 DEF RecDir, Left
<1>12. Ids(r.q) \subseteq Ids(s.q) BY <1>2 DEF Ids
<1>13. Head(s.q).id \in Ids(s.q) BY <1>2 DEF Ids, Head
<1>14. \A x \in Ids(s.q) : x \in Ids(r.q) \/ x = Head(s.q).id BY <1>2 DEF Ids, Head
<1>15. \A x \in Ids(r.q) : r.out[x].ok + r.out[x].fail <= 1 BY <1>5 DEF Match, Ids
<1> QED BY <1>11, <1>12, <1>13, <1>14, <1>15 DEF Accounts

\* A cell i of the queue becomes e, which says whether it has its record now.
Writes(Q, i, e, o, p) ==
  \/ p = o /\ e.rep = Q.ent[i].rep
  \/ p = Recorded(o, Q.ent[i]) /\ e.rep = TRUE

Outside(Q, o, p) == \A x \in Requests \ Ids(Q) : p[x] = o[x]

Rewritten(Q, i, e, R) ==
  /\ Live(R) = Live(Q) /\ R.ent[i] = e /\ e.id = Q.ent[i].id
  /\ \A j \in Live(Q) : j # i => R.ent[j] = Q.ent[j]

LEMMA WriteMatch ==
  ASSUME NEW Q \in QueueT, Ring(Q), NEW i \in Live(Q), NEW e, NEW o \in OutT, NEW p, Writes(Q, i, e, o, p),
         Match(Q, o), NEW R, Rewritten(Q, i, e, R)
  PROVE  Match(R, p) /\ Outside(Q, o, p)
<1>0. /\ Live(R) = Live(Q) /\ R.ent[i] = e /\ e.id = Q.ent[i].id
      /\ \A j \in Live(Q) : j # i => R.ent[j] = Q.ent[j]
  BY DEF Rewritten
<1>1. Q.ent[i] \in Entry /\ Q.ent[i].id \in Requests /\ Q.ent[i].id \in Ids(Q) BY LiveIds
<1>2. \A j \in Live(Q) : Q.ent[j].id \in Requests BY LiveIds
<1>3. CASE p = o /\ e.rep = Q.ent[i].rep BY <1>0, <1>3 DEF Match, Outside
<1>4. CASE p = Recorded(o, Q.ent[i]) /\ e.rep = TRUE
  <2>1. /\ \A x \in Requests : x # Q.ent[i].id \/ Q.ent[i].rep => p[x] = o[x]
        /\ ~Q.ent[i].rep => p[Q.ent[i].id].ok = o[Q.ent[i].id].ok /\ p[Q.ent[i].id].fail = o[Q.ent[i].id].fail + 1
    BY <1>1, <1>4, RecordedType
  <2>2. o[Q.ent[i].id].ok = 0 /\ o[Q.ent[i].id].fail = (IF Q.ent[i].rep THEN 1 ELSE 0) BY DEF Match
  <2>3. p[e.id].ok = 0 /\ p[e.id].fail = 1
    <3>1. CASE Q.ent[i].rep BY <1>0, <1>1, <2>1, <2>2, <3>1
    <3>2. CASE ~Q.ent[i].rep BY <1>0, <1>1, <2>1, <2>2, <3>2
    <3> QED BY <3>1, <3>2
  <2>4. ASSUME NEW j \in Live(Q), j # i
        PROVE  p[R.ent[j].id] = o[Q.ent[j].id] /\ R.ent[j] = Q.ent[j]
    BY <1>0, <1>2, <2>1, <2>4 DEF Ring
  <2>5. ASSUME NEW j \in Live(R)
        PROVE  p[R.ent[j].id].ok = 0 /\ p[R.ent[j].id].fail = (IF R.ent[j].rep THEN 1 ELSE 0)
    <3>1. CASE j = i BY <1>0, <1>4, <2>3, <3>1
    <3>2. CASE j # i BY <1>0, <2>4, <2>5, <3>2 DEF Match
    <3> QED BY <3>1, <3>2
  <2> QED BY <1>0, <1>1, <2>1, <2>5 DEF Match, Outside
<1> QED BY <1>3, <1>4 DEF Writes

\* The head is edited.
LEMMA EditAccounts ==
  ASSUME NEW s \in ViewT, Ring(s.q), NEW r, NEW e, Edited(s, r, e), NEW C, RecDir(s.q, s.out, C),
         Writes(s.q, s.q.rem, e, s.out, r.out),
         e.rep => e.st \in {"LOAD_FAILED", "CANCEL_PENDING"},
         e.st = "LOAD_FAILED" => e.rep,
         e.st = "CANCEL_PENDING" /\ ~s.q.clr => e.rep,
         e.st = "CANCEL_PENDING" \/ Doomed(s.q) = {}
  PROVE  Accounts(s, r, C)
<1>1. s.q \in QueueT /\ s.out \in OutT /\ s.q.cnt > 0 /\ e.id = Head(s.q).id /\ r \in ViewT BY DEF ViewT, Edited
<1>2. /\ r.q \in QueueT /\ Kept(s.q, r.q) /\ Live(r.q) = Live(s.q) /\ Head(r.q) = e /\ SameRing(s.q, r.q)
      /\ \A i \in Indices : i # s.q.rem => r.q.ent[i] = s.q.ent[i]
  BY EditedRing
<1>3. s.q.rem \in Live(s.q) /\ Live(s.q) \subseteq Indices BY <1>1, LiveCells
<1>4. /\ r.q.ent[s.q.rem] = e /\ \A j \in Live(s.q) : j # s.q.rem => r.q.ent[j] = s.q.ent[j]
      /\ s.q.ent[s.q.rem] = Head(s.q)
  BY <1>2, <1>3 DEF Head
<1>5. Match(r.q, r.out) /\ \A x \in Requests \ Ids(s.q) : r.out[x] = s.out[x]
  <2>1. Match(s.q, s.out) /\ e.id = s.q.ent[s.q.rem].id BY <1>1, <1>4 DEF RecDir
  <2>2. Rewritten(s.q, s.q.rem, e, r.q) BY <1>2, <1>4, <2>1 DEF Rewritten
  <2>3. Match(r.q, r.out) /\ Outside(s.q, s.out, r.out) BY <1>1, <1>3, <2>1, <2>2, WriteMatch
  <2> QED BY <2>3 DEF Outside
<1>6. Doomed(r.q) = Doomed(s.q) BY <1>2, <1>4 DEF Doomed
<1>7. Marks(r.q)
  <2>1. \A i \in Live(r.q) : r.q.ent[i].st = "LOAD_FAILED" => r.q.ent[i].rep
    BY <1>2, <1>4 DEF Marks, RecDir
  <2>2. Doomed(s.q) # {} => s.q.clr BY DEF Marks, RecDir
  <2> QED BY <1>2, <1>6, <2>1, <2>2 DEF Marks
<1>8. Covers(s.q, C) => Covers(r.q, C)
  <2>1. s.q.ent[s.q.rem].rep => e.rep BY DEF Writes
  <2> QED BY <1>1, <1>2, <1>3, <1>4, <2>1 DEF Covers
<1>9. RecDir(r.q, r.out, C) BY <1>2, <1>5, <1>7, <1>8 DEF RecDir
<1> QED BY <1>1, <1>2, <1>5, <1>9, KeptAccounts

\* A head that has no record, and with which none behind it is doomed.
LEMMA Unreported ==
  ASSUME NEW Q \in QueueT, Ring(Q), Q.cnt > 0, Marks(Q), Head(Q).st \notin {"LOAD_FAILED", "CANCEL_PENDING"}
  PROVE  ~Head(Q).rep /\ Doomed(Q) = {}
BY DEF Marks

\* Only the head's state changes.
LEMMA StAccounts ==
  ASSUME NEW s \in ViewT, Ring(s.q), NEW r, NEW e, Edited(s, r, e), NEW C, RecDir(s.q, s.out, C),
         r.out = s.out, e.rep = Head(s.q).rep, e.st \notin {"LOAD_FAILED", "CANCEL_PENDING"},
         ~Head(s.q).rep, Doomed(s.q) = {}
  PROVE  Accounts(s, r, C)
<1>1. Writes(s.q, s.q.rem, e, s.out, r.out) BY DEF Writes, Head
<1> QED BY <1>1, EditAccounts

-----------------------------------------------------------------------------
(* perform_work() and the records.                                         *)

LEMMA SweepsAccounts ==
  ASSUME NEW s \in ViewT, Ring(s.q), NEW C, NEW r, Sweeps(s, r)
  PROVE  Accounts(s, r, C)
<1>1. s.q \in QueueT /\ r.q \in QueueT BY DEF ViewT, Sweeps
<1>2. Live(r.q) = {} /\ Live(s.q) = {} BY <1>1, LiveCells DEF Sweeps
<1>3. Ids(r.q) = {} /\ Ids(s.q) = {} BY <1>2 DEF Ids
<1>4. Match(r.q, r.out) /\ Marks(r.q) /\ Covers(r.q, C) BY <1>2 DEF Match, Marks, Doomed, Covers, Sweeps
<1> QED BY <1>3, <1>4 DEF Accounts, RecDir, Sweeps

LEMMA SameAccounts ==
  ASSUME NEW s \in ViewT, Ring(s.q), NEW C, RecDir(s.q, s.out, C), NEW r, r.q = s.q, r.out = s.out
  PROVE  Accounts(s, r, C)
<1>1. \A x \in Ids(r.q) : r.out[x].ok + r.out[x].fail <= 1 BY DEF RecDir, Match, Ids
<1> QED BY <1>1 DEF Accounts

\* The head leaves with its record.
LEMMA HeadRecord ==
  ASSUME NEW s \in ViewT, Ring(s.q), s.q.cnt > 0, NEW C, RecDir(s.q, s.out, C), NEW p,
         p = Recorded(s.out, Head(s.q)) \/ (p = Published(s.out, Head(s.q)) /\ ~Head(s.q).rep)
         \/ (p = s.out /\ Head(s.q).rep)
  PROVE  /\ \A x \in Requests : x # Head(s.q).id => p[x] = s.out[x]
         /\ p[Head(s.q).id].ok + p[Head(s.q).id].fail = 1
<1>1. s.q \in QueueT /\ s.out \in OutT /\ s.q.rem \in Live(s.q) BY LiveCells DEF ViewT
<1>2. PICK e : e = Head(s.q) OBVIOUS
<1>3. e \in Entry /\ e.id \in Requests /\ e = s.q.ent[s.q.rem] BY <1>1, <1>2, LiveIds DEF Head
<1>4. s.out[e.id].ok = 0 /\ s.out[e.id].fail = (IF e.rep THEN 1 ELSE 0) BY <1>1, <1>3 DEF RecDir, Match
<1>5. CASE p = Recorded(s.out, e) /\ ~e.rep
  <2>1. /\ \A x \in Requests : x # e.id => p[x] = s.out[x]
        /\ p[e.id].ok = s.out[e.id].ok /\ p[e.id].fail = s.out[e.id].fail + 1
    BY <1>1, <1>3, <1>5, RecordedType
  <2> QED BY <1>2, <1>4, <1>5, <2>1
<1>6. CASE p = s.out /\ e.rep BY <1>2, <1>4, <1>6
<1>7. CASE p = Published(s.out, e) /\ ~e.rep
  <2>1. /\ \A x \in Requests : x # e.id => p[x] = s.out[x]
        /\ p[e.id].ok = s.out[e.id].ok + 1 /\ p[e.id].fail = s.out[e.id].fail
    BY <1>1, <1>3, <1>7, PublishedType
  <2> QED BY <1>2, <1>4, <1>7, <2>1
<1>8. p = Recorded(s.out, e) /\ e.rep => p = s.out BY DEF Recorded
<1> QED BY <1>2, <1>5, <1>6, <1>7, <1>8

LEMMA LeavesAccounts ==
  ASSUME NEW s \in ViewT, Ring(s.q), TailInv(s.q), NEW C, RecDir(s.q, s.out, C), NEW r, Leaves(s, r),
         Head(s.q).st = "CANCEL_PENDING" => Doomed(s.q) = {}
  PROVE  Accounts(s, r, C)
<1>1. r \in ViewT /\ Left(s.q, r.q) /\ s.q.cnt > 0 /\ s.q \in QueueT BY DEF Leaves, Left, ViewT
<1>2. s.q.rem \in Live(s.q) /\ Marks(s.q) BY <1>1, LiveCells DEF RecDir
<1>3. Doomed(s.q) = {} BY <1>2 DEF Marks
<1>4. Head(s.q).st = "LOAD_FAILED" => Head(s.q).rep BY <1>2 DEF Marks, Head
<1>5. PICK p : p = r.out OBVIOUS
<1>6. p = Recorded(s.out, Head(s.q)) \/ (p = s.out /\ Head(s.q).rep) BY <1>4, <1>5 DEF Leaves
<1>7. /\ \A x \in Requests : x # Head(s.q).id => p[x] = s.out[x]
      /\ p[Head(s.q).id].ok + p[Head(s.q).id].fail = 1
  BY <1>1, <1>6, HeadRecord
<1> QED BY <1>1, <1>3, <1>5, <1>7, LeftAccounts

\* The head is retired, a CLEAR takes the rest along.
LEMMA OffAccounts ==
  ASSUME NEW s \in ViewT, Ring(s.q), TailInv(s.q), NEW C, RecDir(s.q, s.out, C), NEW r \in ViewT,
         s.q.cnt > 0, Off(s.q, r.q), s.q.clr \/ Doomed(s.q) = {},
         \A x \in Requests : x # Head(s.q).id => r.out[x] = s.out[x],
         LET x == Head(s.q).id
         IN  /\ r.out[x].ok + r.out[x].fail <= 1
             /\ r.out[x].ok + r.out[x].fail > 0 \/ x \in C
  PROVE  Accounts(s, r, C)
<1>1. s.q \in QueueT /\ s.q.rem \in Live(s.q) BY LiveCells DEF ViewT
<1>2. CASE ~s.q.clr
  <2>1. Left(s.q, r.q) /\ Doomed(s.q) = {} BY <1>2 DEF Off
  <2> QED BY <2>1, LeftAccounts
<1>3. CASE s.q.clr
  <2>1. Emptied(s.q, r.q, TRUE) /\ Covers(s.q, C) BY <1>3 DEF Off, RecDir
  <2>2. Head(s.q).id \in Ids(s.q) BY <1>1 DEF Ids, Head
  <2>3. \A x \in Requests \ Ids(s.q) : r.out[x] = s.out[x] BY <2>2
  <2>4. ASSUME NEW i \in Live(s.q)
        PROVE  LET x == s.q.ent[i].id
               IN  /\ r.out[x].ok + r.out[x].fail <= 1
                   /\ r.out[x].ok + r.out[x].fail > 0 \/ x \in C
    <3>1. CASE s.q.ent[i].id = Head(s.q).id BY <3>1
    <3>2. CASE s.q.ent[i].id # Head(s.q).id
      <4>1. r.out[s.q.ent[i].id] = s.out[s.q.ent[i].id] BY <1>1, <3>2, LiveIds
      <4>2. /\ s.out[s.q.ent[i].id].ok = 0
            /\ s.out[s.q.ent[i].id].fail = (IF s.q.ent[i].rep THEN 1 ELSE 0)
        BY DEF RecDir, Match
      <4>3. s.q.ent[i].rep \/ s.q.ent[i].id \in C BY <2>1 DEF Covers
      <4> QED BY <4>1, <4>2, <4>3
    <3> QED BY <3>1, <3>2
  <2> QED BY <2>1, <2>3, <2>4, EmptiedAccounts
<1> QED BY <1>2, <1>3

LEMMA DisarmsAccounts ==
  ASSUME NEW s \in ViewT, Ring(s.q), TailInv(s.q), NEW C, RecDir(s.q, s.out, C), NEW r, Disarms(s, r)
  PROVE  Accounts(s, r, C)
<1>1. /\ r \in ViewT /\ s.q.cnt > 0 /\ Off(s.q, r.q) /\ r.out = s.out /\ s.q \in QueueT
      /\ Head(s.q).st = "CANCEL_PENDING"
  BY DEF Disarms, ViewT
<1>2. s.q.rem \in Live(s.q) BY <1>1, LiveCells
<1>3. s.q.clr \/ Doomed(s.q) = {} BY DEF RecDir, Marks
<1>4. /\ s.out[Head(s.q).id].ok = 0
      /\ s.out[Head(s.q).id].fail = (IF Head(s.q).rep THEN 1 ELSE 0)
  BY <1>2 DEF RecDir, Match, Head
<1>5. Head(s.q).rep \/ Head(s.q).id \in C
  BY <1>1, <1>2 DEF RecDir, Marks, Covers, Head
<1> QED BY <1>1, <1>3, <1>4, <1>5, OffAccounts

LEMMA JobOverAccounts ==
  ASSUME NEW s \in ViewT, Ring(s.q), TailInv(s.q), NEW C, RecDir(s.q, s.out, C), NEW r, JobOver(s, r)
  PROVE  Accounts(s, r, C)
<1>1. r \in ViewT /\ s.q.cnt > 0 /\ Off(s.q, r.q) /\ s.q \in QueueT BY DEF JobOver, ViewT
<1>2. Head(s.q).st \notin {"LOAD_FAILED", "CANCEL_PENDING"} BY DEF JobOver
<1>3. ~Head(s.q).rep /\ Doomed(s.q) = {} BY <1>1, <1>2, Unreported DEF RecDir
<1>4. PICK p : p = r.out OBVIOUS
<1>5. p = Recorded(s.out, Head(s.q)) \/ (p = Published(s.out, Head(s.q)) /\ ~Head(s.q).rep)
  BY <1>3, <1>4 DEF JobOver
<1>6. /\ \A x \in Requests : x # Head(s.q).id => p[x] = s.out[x]
      /\ p[Head(s.q).id].ok + p[Head(s.q).id].fail = 1
  BY <1>1, <1>5, HeadRecord
<1> QED BY <1>1, <1>3, <1>4, <1>6, OffAccounts

\* A step that edits a head without record and starts nothing the record
\* depends on.
LEMMA EditsAccounts ==
  ASSUME NEW m, NEW s \in ViewT, Ring(s.q), NEW C, RecDir(s.q, s.out, C), NEW r,
         \/ Arms(s, r) \/ Acknowledges(s, r) \/ Releases(s, r) \/ LoadsGains(s, r)
         \/ GainsLoaded(s, r) \/ Calibrates(m, s, r) \/ Uploads(m, s, r) \/ Recalls(m, s, r),
         Head(s.q).st = "CANCEL_PENDING" => ~Head(s.q).rep /\ Doomed(s.q) = {}
  PROVE  Accounts(s, r, C)
<1>1. s.q \in QueueT /\ Marks(s.q) BY DEF ViewT, RecDir
<1>2. Head(s.q) \in Entry BY <1>1, Headed
<1>3. PICK x \in EntryStates : x \in {"SCHEDULE_PENDING", "SCHEDULED", "READY", "GAIN_TABLE_PENDING",
                                      "TXQ_PENDING", "LOAD_PENDING", "PLL_PENDING"}
                               /\ \/ Edited(s, r, St(Head(s.q), x))
                                  \/ Edited(s, r, [Head(s.q) EXCEPT !.gt = FALSE, !.st = x])
  BY DEF Arms, Acknowledges, Releases, LoadsGains, GainsLoaded, Calibrates, Uploads, Recalls, EntryStates
<1>4. r.out = s.out /\ Head(s.q).st # "LOAD_FAILED"
  BY DEF Arms, Acknowledges, Releases, LoadsGains, GainsLoaded, Calibrates, Uploads, Recalls
<1>5. PICK e : Edited(s, r, e) /\ e.rep = Head(s.q).rep /\ e.st = x
  <2>1. CASE Edited(s, r, St(Head(s.q), x)) BY <1>2, <2>1, StCells
  <2>2. CASE Edited(s, r, [Head(s.q) EXCEPT !.gt = FALSE, !.st = x])
    <3>1. PICK e : e = [Head(s.q) EXCEPT !.gt = FALSE, !.st = x] OBVIOUS
    <3>2. e.rep = Head(s.q).rep /\ e.st = x BY <1>2, <3>1 DEF Entry
    <3> QED BY <2>2, <3>1, <3>2
  <2> QED BY <1>3, <2>1, <2>2
<1>6. s.q.cnt > 0 BY <1>5 DEF Edited
<1>7. ~Head(s.q).rep /\ Doomed(s.q) = {} BY <1>1, <1>4, <1>6, Unreported
<1>8. e.st \notin {"LOAD_FAILED", "CANCEL_PENDING"} BY <1>3, <1>5
<1> QED BY <1>4, <1>5, <1>7, <1>8, StAccounts

LEMMA GivesUpAccounts ==
  ASSUME NEW s \in ViewT, Ring(s.q), NEW C, RecDir(s.q, s.out, C), NEW r, GivesUp(s, r)
  PROVE  Accounts(s, r, C)
<1>1. s.q \in QueueT BY DEF ViewT
<1>2. Head(s.q) \in Entry BY <1>1, Headed
<1>3. PICK e : e = Cancelling(Told(Head(s.q))) OBVIOUS
<1>4. Edited(s, r, e) /\ r.out = Recorded(s.out, Head(s.q)) BY <1>3 DEF GivesUp
<1>5. e.rep = TRUE /\ e.st = "CANCEL_PENDING" BY <1>2, <1>3 DEF Cancelling, Told, Entry
<1>6. Writes(s.q, s.q.rem, e, s.out, r.out) BY <1>4, <1>5 DEF Writes, Head
<1> QED BY <1>4, <1>5, <1>6, EditAccounts

LEMMA CancelsAccounts ==
  ASSUME NEW s \in ViewT, Ring(s.q), NEW C, RecDir(s.q, s.out, C), NEW r, Cancels(s, r)
  PROVE  Accounts(s, r, C)
<1>1. s.q \in QueueT /\ s.t \in TamerT /\ Marks(s.q) BY DEF ViewT, RecDir
<1>2. Head(s.q) \in Entry /\ Head(s.q).st = "CANCEL_PENDING" /\ r.out = s.out BY <1>1, Headed DEF Cancels
<1>3. PICK e : Edited(s, r, e) /\ e.rep = Head(s.q).rep /\ e.st = "CANCEL_PENDING"
  <2>1. CASE Edited(s, r, Requested(Head(s.q), s.t)) BY <1>1, <1>2, <2>1, RequestedCells
  <2>2. CASE \E b \in BOOLEAN : Edited(s, r, [Head(s.q) EXCEPT !.cseen = b, !.cpend = FALSE])
    <3>1. PICK b \in BOOLEAN : Edited(s, r, [Head(s.q) EXCEPT !.cseen = b, !.cpend = FALSE]) BY <2>2
    <3>2. PICK e : e = [Head(s.q) EXCEPT !.cseen = b, !.cpend = FALSE] OBVIOUS
    <3>3. e.rep = Head(s.q).rep /\ e.st = "CANCEL_PENDING" BY <1>2, <3>2 DEF Entry
    <3> QED BY <3>1, <3>2, <3>3
  <2> QED BY <2>1, <2>2 DEF Cancels
<1>4. s.q.cnt > 0 BY <1>3 DEF Edited
<1>5. ~s.q.clr => Head(s.q).rep BY <1>1, <1>2, <1>4 DEF Marks
<1>6. Writes(s.q, s.q.rem, e, s.out, r.out) BY <1>2, <1>3 DEF Writes, Head
<1> QED BY <1>3, <1>5, <1>6, EditAccounts

\* What perform_work() does outside a call.
LEMMA PerformsAccounts ==
  ASSUME NEW m, NEW s \in ViewT, Ring(s.q), TailInv(s.q), NEW C, RecDir(s.q, s.out, C), NEW r,
         \/ Performs(s, r) \/ Calibrates(m, s, r)
         \/ Uploads(m, s, r) /\ Head(s.q).st # "CANCEL_PENDING"
  PROVE  Accounts(s, r, C)
<1>1. CASE r = s BY <1>1, SameAccounts
<1>2. CASE Sweeps(s, r) BY <1>2, SweepsAccounts
<1>3. CASE Leaves(s, r) /\ Head(s.q).st # "CANCEL_PENDING" BY <1>3, LeavesAccounts
<1>4. CASE Disarms(s, r) BY <1>4, DisarmsAccounts
<1>5. CASE JobOver(s, r) BY <1>5, JobOverAccounts
<1>6. CASE GivesUp(s, r) BY <1>6, GivesUpAccounts
<1>7. CASE Cancels(s, r) BY <1>7, CancelsAccounts
<1>8. CASE \/ Arms(s, r) \/ Acknowledges(s, r) \/ Releases(s, r) \/ LoadsGains(s, r)
           \/ GainsLoaded(s, r) \/ Calibrates(m, s, r)
           \/ Uploads(m, s, r) /\ Head(s.q).st # "CANCEL_PENDING"
  <2>1. Head(s.q).st # "CANCEL_PENDING"
    BY <1>8 DEF Arms, Acknowledges, Releases, LoadsGains, GainsLoaded, Calibrates
  <2> QED BY <1>8, <2>1, EditsAccounts
<1> QED BY <1>1, <1>2, <1>3, <1>4, <1>5, <1>6, <1>7, <1>8 DEF Performs

\* The call of a direction returns.
LEMMA CallAccounts ==
  ASSUME NEW m, NEW s \in ViewT, Ring(s.q), TailInv(s.q), NEW C, RecDir(s.q, s.out, C), NEW r,
         Bare(s.q),
         r = s \/ Leaves(s, r) \/ Uploads(m, s, r) \/ Recalls(m, s, r) \/ Orphans(m, s, r)
  PROVE  Accounts(s, r, C)
<1>1. s.q \in QueueT BY DEF ViewT
<1>2. Doomed(s.q) = {} BY DEF Doomed, Bare
<1>3. s.q.cnt > 0 => ~Head(s.q).rep BY <1>1, LiveCells DEF Head, Bare
<1>4. CASE r = s \/ Orphans(m, s, r) BY <1>4, SameAccounts DEF Orphans
<1>5. CASE Leaves(s, r) BY <1>2, <1>5, LeavesAccounts
<1>6. CASE Uploads(m, s, r) \/ Recalls(m, s, r)
  <2>1. s.q.cnt > 0 BY <1>6 DEF Uploads, Recalls, Edited
  <2> QED BY <1>2, <1>3, <1>6, <2>1, EditsAccounts
<1> QED BY <1>4, <1>5, <1>6

-----------------------------------------------------------------------------
(* CLEAR, the RFIC's fault, and the records.                               *)

LEMMA MatchSame ==
  ASSUME NEW Q, NEW R, NEW o, Match(Q, o), Live(R) = Live(Q),
         \A i \in Live(Q) : R.ent[i].id = Q.ent[i].id /\ R.ent[i].rep = Q.ent[i].rep
  PROVE  Match(R, o)
BY DEF Match

\* The CLEAR is done at once.
LEMMA GoneAccounts ==
  ASSUME NEW m, NEW s \in ViewT, Ring(s.q), NEW C, RecDir(s.q, s.out, C), Covers(s.q, C), NEW r, Gone(s, r, m)
  PROVE  Accounts(s, r, C)
<1>1. r \in ViewT /\ Emptied(s.q, r.q, TRUE) /\ s.q \in QueueT BY DEF Gone, ViewT
<1>2. r.out = s.out \/ Grown(s.q, s.out, r.out) BY DEF Gone
<1>3. \A i \in Live(s.q) : s.q.ent[i].id \in Requests BY <1>1, LiveIds
<1>4. \A x \in Requests \ Ids(s.q) : r.out[x] = s.out[x]
  BY <1>2 DEF Grown, Ids
<1>5. ASSUME NEW i \in Live(s.q)
      PROVE  LET x == s.q.ent[i].id
             IN  /\ r.out[x].ok + r.out[x].fail <= 1
                 /\ r.out[x].ok + r.out[x].fail > 0 \/ x \in C
  <2>1. /\ s.out[s.q.ent[i].id].ok = 0
        /\ s.out[s.q.ent[i].id].fail = (IF s.q.ent[i].rep THEN 1 ELSE 0)
    BY DEF RecDir, Match
  <2>2. s.q.ent[i].rep \/ s.q.ent[i].id \in C BY DEF Covers
  <2>3. \/ r.out[s.q.ent[i].id] = s.out[s.q.ent[i].id]
        \/ /\ r.out[s.q.ent[i].id].ok = s.out[s.q.ent[i].id].ok
           /\ r.out[s.q.ent[i].id].fail = s.out[s.q.ent[i].id].fail + 1
           /\ ~s.q.ent[i].rep
    <3>1. CASE r.out = s.out BY <3>1
    <3>2. CASE Grown(s.q, s.out, r.out)
      <4>1. PICK x \in Requests : x = s.q.ent[i].id BY <1>3
      <4>2. \/ r.out[x] = s.out[x]
            \/ /\ r.out[x].ok = s.out[x].ok /\ r.out[x].fail = s.out[x].fail + 1
               /\ \E j \in Live(s.q) : s.q.ent[j].id = x /\ ~s.q.ent[j].rep
        BY <3>2 DEF Grown
      <4>3. \A j \in Live(s.q) : s.q.ent[j].id = x => j = i BY <4>1 DEF Ring
      <4> QED BY <4>1, <4>2, <4>3
    <3> QED BY <1>2, <3>1, <3>2
  <2> QED BY <2>1, <2>2, <2>3
<1> QED BY <1>1, <1>4, <1>5, EmptiedAccounts

\* The head stays, an upload behind it is given up with its record.
LEMMA StaysAccounts ==
  ASSUME NEW m \in Modules, NEW D, NEW f, NEW s, DirOk(m, s, D, f), NEW C, RecDir(s.q, s.out, C),
         Covers(s.q, C), NEW r, Stays(s, r, m)
  PROVE  Accounts(s, r, C) /\ (Bare(s.q) => Bare(r.q))
<1>1. /\ s \in ViewT /\ s.q \in QueueT /\ s.out \in OutT /\ s.t \in TamerT /\ Ring(s.q) /\ OneLoad(s.q)
      /\ Head(s.q) \in Entry /\ TailInv(s.q)
  BY DirTypes
<1>2. /\ Kept(s.q, r.q) /\ Live(r.q) = Live(s.q) /\ r.q.clr
      /\ s.q.cnt > 0 /\ Head(s.q).st \notin JobStates => Cancelled(Head(s.q), s.t, Head(r.q), r.t, s.q.clr)
  BY StaysDir
<1>3. r \in ViewT /\ r.q.rem = s.q.rem /\ r.q.cnt = s.q.cnt /\ r.q \in QueueT BY DEF Stays, ViewT
<1>4. \A i \in Live(s.q) : i \in Indices /\ s.q.ent[i] \in Entry BY <1>1, LiveCells DEF QueueT
<1>5. \A i \in Live(s.q) : i # s.q.rem =>
        r.q.ent[i] = IF i \in Loading(s.q) THEN Dropped(s.q.ent[i]) ELSE s.q.ent[i]
  BY <1>4 DEF Stays
<1>6. s.q.cnt > 0 => /\ Head(r.q).rep = Head(s.q).rep /\ Head(s.q).st \notin {"LOAD_FAILED", "LOAD_PENDING"}
                     /\ Head(r.q).st = Head(s.q).st \/ Head(r.q).st = "CANCEL_PENDING"
  <2>1. HeadCleared(s, r) BY DEF Stays
  <2>2. Head(s.q).st \notin {"LOAD_FAILED", "LOAD_PENDING"} BY <2>1 DEF HeadCleared
  <2>3. Head(s.q).st \in JobStates => Head(r.q) = Head(s.q) BY <2>1 DEF HeadCleared
  <2> QED BY <1>1, <1>2, <2>2, <2>3, CancelledCells
<1>7. \A i \in Live(s.q) : r.q.ent[i].id = s.q.ent[i].id BY <1>2 DEF Kept
<1>8. s.q.cnt = 0 => Live(s.q) = {} BY <1>1, LiveCells
<1>9. /\ s.q.cnt > 0 => s.q.rem \in Live(s.q)
      /\ Head(s.q) = s.q.ent[s.q.rem] /\ Head(r.q) = r.q.ent[s.q.rem]
  BY <1>1, <1>3, LiveCells DEF Head
<1>10. Match(r.q, r.out) /\ \A x \in Requests \ Ids(s.q) : r.out[x] = s.out[x]
  <2>1. CASE Staged(s.q) = {} /\ r.out = s.out
    <3>1. \A i \in Live(s.q) : i # s.q.rem => r.q.ent[i] = s.q.ent[i] BY <1>5, <2>1 DEF Staged
    <3>2. \A i \in Live(s.q) : r.q.ent[i].rep = s.q.ent[i].rep BY <1>6, <1>8, <1>9, <1>3, <1>1, <3>1 DEF QueueT
    <3> QED BY <1>2, <1>7, <2>1, <3>2, MatchSame DEF RecDir
  <2>2. CASE \E i \in Staged(s.q) : r.out = Recorded(s.out, s.q.ent[i])
    <3>1. PICK i \in Staged(s.q) : r.out = Recorded(s.out, s.q.ent[i]) BY <2>2
    <3>2. i \in Live(s.q) /\ i # s.q.rem /\ i \in Loading(s.q) /\ Loading(s.q) = {i}
      BY <1>1 DEF Staged, Loading, OneLoad
    <3>3. PICK e : e = Dropped(s.q.ent[i]) OBVIOUS
    <3>4. e \in Entry /\ e.id = s.q.ent[i].id /\ e.rep = TRUE
      BY <1>1, <1>4, <3>2, <3>3, DroppedCells, CellTypes DEF Dropped, Entry
    <3>5. PICK X : X = WithCell(s.q, i, e) OBVIOUS
    <3>6. X.ent[i] = e /\ X.rem = s.q.rem /\ X.cnt = s.q.cnt BY <1>1, <1>4, <3>2, <3>4, <3>5, CellAt, CellRest
    <3>7. \A j \in Live(s.q) : j # i => X.ent[j] = s.q.ent[j] BY <1>1, <1>4, <3>5, CellElse
    <3>8. Live(X) = Live(s.q) BY <3>6, SameLive
    <3>9. Writes(s.q, i, e, s.out, r.out) BY <3>1, <3>4 DEF Writes
    <3>10. Match(s.q, s.out) BY DEF RecDir
    <3>11. Match(X, r.out) /\ \A x \in Requests \ Ids(s.q) : r.out[x] = s.out[x]
      <4>1. Rewritten(s.q, i, e, X) BY <3>4, <3>6, <3>7, <3>8 DEF Rewritten
      <4>2. Match(X, r.out) /\ Outside(s.q, s.out, r.out) BY <1>1, <3>2, <3>9, <3>10, <4>1, WriteMatch
      <4> QED BY <4>2 DEF Outside
    <3>12. ASSUME NEW j \in Live(X) PROVE r.q.ent[j].id = X.ent[j].id /\ r.q.ent[j].rep = X.ent[j].rep
      <4>1. CASE j = i BY <1>5, <3>2, <3>3, <3>6, <4>1
      <4>2. CASE j = s.q.rem
        <5>1. s.q.cnt > 0 BY <1>8, <3>2, <1>1 DEF QueueT
        <5>2. X.ent[j] = Head(s.q) /\ r.q.ent[j] = Head(r.q) BY <1>9, <3>2, <3>7, <3>8, <4>2
        <5> QED BY <1>6, <1>7, <1>9, <3>8, <4>2, <5>1, <5>2
      <4>3. CASE j # i /\ j # s.q.rem BY <1>5, <3>2, <3>7, <3>8, <4>3
      <4> QED BY <4>1, <4>2, <4>3
    <3>13. Live(r.q) = Live(X) BY <1>2, <3>8
    <3> QED BY <3>11, <3>12, <3>13, MatchSame
  <2> QED BY <2>1, <2>2 DEF Stays
<1>11. ASSUME NEW i \in Live(s.q), i # s.q.rem
       PROVE  /\ s.q.ent[i].rep => r.q.ent[i].rep
              /\ r.q.ent[i].st = "LOAD_FAILED" => r.q.ent[i].rep
              /\ r.q.ent[i].st # "LOAD_FAILED" => r.q.ent[i] = s.q.ent[i]
  <2>1. CASE i \in Loading(s.q) BY <1>4, <1>5, <1>11, <2>1, DroppedCells
  <2>2. CASE i \notin Loading(s.q) BY <1>5, <1>11, <2>2 DEF RecDir, Marks
  <2> QED BY <2>1, <2>2
<1>12. Marks(r.q)
  <2>1. CASE s.q.cnt = 0 BY <1>2, <1>3, <1>8, <2>1 DEF Marks, Doomed
  <2>2. CASE s.q.cnt > 0
    <3>1. \A i \in Live(r.q) : r.q.ent[i].st = "LOAD_FAILED" => r.q.ent[i].rep
      BY <1>2, <1>6, <1>9, <1>11, <2>2
    <3>2. Head(r.q).rep => Head(r.q).st \in {"LOAD_FAILED", "CANCEL_PENDING"}
      BY <1>6, <2>2 DEF RecDir, Marks
    <3>3. Doomed(r.q) \subseteq Doomed(s.q) BY <1>2, <1>3, <1>11 DEF Doomed
    <3>4. Doomed(s.q) # {} => Head(s.q).st = "CANCEL_PENDING" BY DEF RecDir, Marks
    <3>5. Doomed(r.q) # {} => Head(r.q).st = "CANCEL_PENDING" BY <1>6, <2>2, <3>3, <3>4
    <3> QED BY <1>2, <3>1, <3>2, <3>5 DEF Marks
  <2> QED BY <1>1, <2>1, <2>2 DEF QueueT
<1>13. Covers(r.q, C)
  <2>1. ASSUME NEW i \in Live(r.q) PROVE r.q.ent[i].rep \/ r.q.ent[i].id \in C
    <3>1. s.q.ent[i].rep \/ s.q.ent[i].id \in C BY <1>2 DEF Covers
    <3>2. i = s.q.rem => r.q.ent[i].rep = s.q.ent[i].rep BY <1>1, <1>2, <1>6, <1>8, <1>9 DEF QueueT
    <3> QED BY <1>2, <1>7, <1>11, <3>1, <3>2
  <2> QED BY <2>1 DEF Covers
<1>14. RecDir(r.q, r.out, C) BY <1>10, <1>12, <1>13 DEF RecDir
<1>15. Bare(s.q) => Bare(r.q)
  <2>1. ASSUME Bare(s.q), NEW i \in Live(r.q), r.q.ent[i].rep
        PROVE  i # r.q.rem /\ r.q.ent[i].st = "LOAD_FAILED"
    <3>1. CASE i = s.q.rem
      <4>1. s.q.cnt > 0 BY <1>1, <1>2, <1>8, <2>1 DEF QueueT
      <4>2. s.q.ent[i].rep BY <1>6, <1>9, <2>1, <3>1, <4>1
      <4> QED BY <1>2, <2>1, <3>1, <4>2 DEF Bare
    <3>2. CASE i # s.q.rem BY <1>2, <1>3, <1>11, <2>1, <3>2 DEF Bare
    <3> QED BY <3>1, <3>2
  <2> QED BY <2>1 DEF Bare
<1> QED BY <1>1, <1>2, <1>3, <1>10, <1>14, <1>15, KeptAccounts

\* Flags of the queue change, and what the host has cleared.
LEMMA FlagsRec ==
  ASSUME NEW Q \in QueueT, NEW R, R.ent = Q.ent, R.rem = Q.rem, R.cnt = Q.cnt, R.clr = Q.clr,
         NEW o, NEW C, NEW E, RecDir(Q, o, C), C \subseteq E, R.defer => Q.defer \/ Ids(Q) \subseteq E
  PROVE  /\ RecDir(R, o, E) /\ Ids(R) = Ids(Q) /\ Live(R) = Live(Q) /\ (Bare(Q) => Bare(R))
         /\ (Covers(Q, C) => Covers(R, E)) /\ (Ids(Q) \subseteq E => Covers(R, E))
<1>1. Live(R) = Live(Q) BY SameLive
<1>2. Ids(R) = Ids(Q) BY <1>1 DEF Ids
<1>3. Match(R, o) BY <1>1 DEF RecDir, Match
<1>4. Doomed(R) = Doomed(Q) /\ Head(R) = Head(Q) BY <1>1 DEF Doomed, Head
<1>5. Marks(R) BY <1>1, <1>4 DEF RecDir, Marks
<1>6. (Covers(Q, C) => Covers(R, E)) /\ (Ids(Q) \subseteq E => Covers(R, E)) BY <1>1 DEF Covers, Ids
<1>7. Bare(Q) => Bare(R) BY <1>1 DEF Bare
<1> QED BY <1>1, <1>2, <1>3, <1>5, <1>6, <1>7 DEF RecDir

LEMMA NothingLive ==
  ASSUME NEW Q, Live(Q) = {}
  PROVE  Bare(Q) /\ \A C : Covers(Q, C)
BY DEF Bare, Covers

\* clear_queue_async(): C covers what is in the queue.
LEMMA ClearAccounts ==
  ASSUME NEW m \in Modules, NEW D, NEW f, NEW s, DirOk(m, s, D, f), NEW C, RecDir(s.q, s.out, C),
         Covers(s.q, C), NEW r, r = ClearQueue(s, m).s
  PROVE  Accounts(s, r, C) /\ (Bare(s.q) => Bare(r.q))
<1>1. s \in ViewT /\ s.q \in QueueT /\ Ring(s.q) /\ OneLoad(s.q) /\ TailInv(s.q) BY DirTypes
<1>2. WasDone(s, r) \/ Gone(s, r, m) \/ Stays(s, r, m) BY <1>1, ClearQueueEffect
<1>3. CASE WasDone(s, r)
  <2>1. /\ r \in ViewT /\ r.out = s.out /\ r.q.ent = s.q.ent /\ r.q.rem = s.q.rem /\ r.q.cnt = s.q.cnt
        /\ r.q.clr = s.q.clr /\ r.q.defer = s.q.defer
    BY <1>3 DEF WasDone
  <2>2. s.q.cnt = 0 BY <1>1, <1>3 DEF WasDone, TailInv
  <2>3. Live(s.q) = {} /\ Ids(s.q) = {} BY <1>1, <2>2, LiveCells DEF Ids
  <2>4. RecDir(r.q, s.out, C) /\ Ids(r.q) = {} /\ Live(r.q) = {} BY <1>1, <2>1, <2>3, FlagsRec
  <2>5. Bare(r.q) BY <2>4, NothingLive
  <2> QED BY <2>1, <2>3, <2>4, <2>5 DEF Accounts
<1>4. CASE Gone(s, r, m)
  <2>1. Live(r.q) = {} BY <1>4 DEF Gone, Emptied
  <2> QED BY <1>1, <1>4, <2>1, GoneAccounts, NothingLive
<1>5. CASE Stays(s, r, m) BY <1>5, StaysAccounts
<1> QED BY <1>2, <1>3, <1>4, <1>5

LEMMA AllMatch ==
  ASSUME NEW Q \in QueueT, Ring(Q), NEW o, Match(Q, o), NEW p, AllRecorded(Q, o, p)
  PROVE  /\ \A i \in Live(Q) : p[Q.ent[i].id].ok = 0 /\ p[Q.ent[i].id].fail = 1
         /\ \A x \in Requests \ Ids(Q) : p[x] = o[x]
<1>1. ASSUME NEW i \in Live(Q) PROVE p[Q.ent[i].id].ok = 0 /\ p[Q.ent[i].id].fail = 1
  <2>1. PICK x \in Requests : x = Q.ent[i].id BY LiveIds
  <2>2. (\E j \in Live(Q) : Q.ent[j].id = x /\ ~Q.ent[j].rep) <=> ~Q.ent[i].rep BY <2>1 DEF Ring
  <2>3. IF ~Q.ent[i].rep THEN p[x].ok = o[x].ok /\ p[x].fail = o[x].fail + 1 ELSE p[x] = o[x]
    BY <2>2 DEF AllRecorded
  <2>4. o[x].ok = 0 /\ o[x].fail = (IF Q.ent[i].rep THEN 1 ELSE 0) BY <2>1 DEF Match
  <2> QED BY <2>1, <2>3, <2>4
<1>2. ASSUME NEW x \in Requests \ Ids(Q) PROVE p[x] = o[x]
  BY <1>2 DEF AllRecorded, Ids
<1> QED BY <1>1, <1>2

\* fail_queue_for_rfic_fault(): a record for every request.
LEMMA FailAccounts ==
  ASSUME NEW m \in Modules, NEW D, NEW f, NEW s, DirOk(m, s, D, f), NEW C, RecDir(s.q, s.out, C),
         NEW r, r = FailQueue(s, m), s.q.cnt > 0, ~s.q.clr, Head(s.q).st \notin JobStates
  PROVE  Accounts(s, r, C)
<1>1. /\ s \in ViewT /\ s.q \in QueueT /\ s.t \in TamerT /\ Ring(s.q) /\ OneLoad(s.q) /\ TailInv(s.q)
      /\ Head(s.q) \in Entry
  BY DirTypes
<1>2. FailedAll(s, r, m) BY <1>1, FailQueueEffect DEF TailInv
<1>3. r \in ViewT /\ AllRecorded(s.q, s.out, r.out) BY <1>2 DEF FailedAll
<1>4. /\ \A i \in Live(s.q) : r.out[s.q.ent[i].id].ok = 0 /\ r.out[s.q.ent[i].id].fail = 1
      /\ \A x \in Requests \ Ids(s.q) : r.out[x] = s.out[x]
  BY <1>1, <1>3, AllMatch DEF RecDir
<1>5. CASE Emptied(s.q, r.q, FALSE)
  <2>1. ASSUME NEW i \in Live(s.q)
        PROVE  LET x == s.q.ent[i].id
               IN  /\ r.out[x].ok + r.out[x].fail <= 1
                   /\ r.out[x].ok + r.out[x].fail > 0 \/ x \in C
    BY <1>4
  <2> QED BY <1>1, <1>3, <1>4, <1>5, <2>1, EmptiedAccounts
<1>6. CASE ~Emptied(s.q, r.q, FALSE)
  <2>1. /\ r.q.rem = s.q.rem /\ r.q.cnt = s.q.cnt /\ r.q.clr
        /\ \A i \in Live(s.q) : i # s.q.rem =>
             r.q.ent[i] = IF i \in Loading(s.q) THEN Dropped(s.q.ent[i]) ELSE Told(s.q.ent[i])
        /\ \A i \in Indices \ Live(s.q) : r.q.ent[i] = s.q.ent[i]
    BY <1>2, <1>6 DEF FailedAll
  <2>2. Cancelled(Told(Head(s.q)), s.t, Head(r.q), r.t, FALSE)
    BY <1>2, <1>6 DEF FailedAll, Cancelled
  <2>3. PICK e \in Entry : e = Told(Head(s.q)) BY <1>1, HeadCells
  <2>4. e.id = Head(s.q).id /\ e.slot = Head(s.q).slot /\ e.imm = Head(s.q).imm /\ e.rep
    BY <1>1, <2>3, HeadCells
  <2>5. /\ Head(r.q).id = e.id /\ Head(r.q).slot = e.slot /\ Head(r.q).imm = e.imm
        /\ Head(r.q).rep = e.rep /\ Head(r.q).st = "CANCEL_PENDING"
    BY <1>1, <2>2, <2>3, CancelledCells
  <2>6. r.q \in QueueT /\ Live(r.q) = Live(s.q) BY <1>3, <2>1, SameLive DEF ViewT
  <2>7. /\ s.q.rem \in Live(s.q) /\ Head(r.q) = r.q.ent[s.q.rem] /\ Head(s.q) = s.q.ent[s.q.rem]
        /\ \A i \in Live(s.q) : i \in Indices /\ s.q.ent[i] \in Entry /\ s.q.ent[i].st # "INVALID"
    BY <1>1, <2>1, LiveCells DEF Head, QueueT, Ring
  <2>8. ASSUME NEW i \in Live(s.q)
        PROVE  /\ r.q.ent[i].rep /\ r.q.ent[i].id = s.q.ent[i].id /\ r.q.ent[i].slot = s.q.ent[i].slot
               /\ r.q.ent[i].imm = s.q.ent[i].imm /\ r.q.ent[i].st # "INVALID"
    <3>1. CASE i = s.q.rem BY <2>4, <2>5, <2>7, <3>1
    <3>2. CASE i # s.q.rem /\ i \in Loading(s.q) BY <2>1, <2>7, <3>2, DroppedCells
    <3>3. CASE i # s.q.rem /\ i \notin Loading(s.q) BY <2>1, <2>7, <3>3, HeadCells
    <3> QED BY <3>1, <3>2, <3>3
  <2>9. Kept(s.q, r.q) BY <2>1, <2>6, <2>8 DEF Kept
  <2>10. Match(r.q, r.out) BY <1>4, <2>6, <2>8 DEF Match
  <2>11. Marks(r.q) BY <2>1, <2>5, <2>6, <2>8 DEF Marks
  <2>12. Covers(r.q, C) BY <2>6, <2>8 DEF Covers
  <2>13. RecDir(r.q, r.out, C) BY <2>10, <2>11, <2>12 DEF RecDir
  <2> QED BY <1>1, <1>3, <1>4, <2>9, <2>13, KeptAccounts
<1> QED BY <1>5, <1>6

\* An upload of one request begins, ends or fails.
LEMMA CellAccounts ==
  ASSUME NEW s \in ViewT, Ring(s.q), NEW C, RecDir(s.q, s.out, C), Doomed(s.q) = {}, NEW i \in Live(s.q),
         s.q.ent[i].st # "CANCEL_PENDING", NEW e \in Entry, e.id = s.q.ent[i].id,
         e.slot = s.q.ent[i].slot, e.imm = s.q.ent[i].imm,
         e.st \notin {"INVALID", "CANCEL_PENDING"}, e.rep <=> e.st = "LOAD_FAILED",
         NEW r \in ViewT, r.q = WithCell(s.q, i, e), Writes(s.q, i, e, s.out, r.out)
  PROVE  Accounts(s, r, C)
<1>1. s.q \in QueueT /\ s.out \in OutT /\ r.q \in QueueT /\ i \in Indices /\ s.q.cnt \in 0 .. QueueMax
  BY LiveIds DEF ViewT, QueueT
<1>2. s.q.cnt > 0 /\ s.q.rem \in Live(s.q) BY <1>1, LiveCells
<1>3. /\ r.q.ent[i] = e /\ SameRing(s.q, r.q)
      /\ \A j \in Indices : j # i => r.q.ent[j] = s.q.ent[j]
  BY <1>1, CellAt, CellElse, CellRest
<1>4. Live(r.q) = Live(s.q) BY <1>3, SameLive
<1>5. \A j \in Live(s.q) : j \in Indices /\ s.q.ent[j].st # "INVALID" BY <1>1, LiveCells DEF Ring
<1>6. Kept(s.q, r.q) BY <1>1, <1>3, <1>5 DEF Kept
<1>7. Match(r.q, r.out) /\ \A x \in Requests \ Ids(s.q) : r.out[x] = s.out[x]
  <2>1. Rewritten(s.q, i, e, r.q) BY <1>3, <1>4, <1>5 DEF Rewritten
  <2>2. Match(s.q, s.out) BY DEF RecDir
  <2>3. Match(r.q, r.out) /\ Outside(s.q, s.out, r.out) BY <1>1, <2>1, <2>2, WriteMatch
  <2> QED BY <2>3 DEF Outside
<1>8. Marks(r.q)
  <2>1. \A j \in Live(r.q) : r.q.ent[j].st = "LOAD_FAILED" => r.q.ent[j].rep
    BY <1>3, <1>4, <1>5 DEF Marks, RecDir
  <2>2. Doomed(r.q) = {} BY <1>3, <1>4, <1>5 DEF Doomed
  <2>3. CASE i = s.q.rem
    <3>1. Head(r.q) = e BY <1>3, <2>3 DEF Head
    <3> QED BY <2>1, <2>2, <3>1 DEF Marks
  <2>4. CASE i # s.q.rem
    <3>1. Head(r.q) = Head(s.q) BY <1>2, <1>3, <1>5, <2>4 DEF Head
    <3> QED BY <1>3, <2>1, <2>2, <3>1 DEF Marks, RecDir
  <2> QED BY <2>3, <2>4
<1>9. Covers(s.q, C) => Covers(r.q, C)
  <2>1. s.q.ent[i].rep => e.rep BY DEF Writes
  <2> QED BY <1>3, <1>4, <1>5, <2>1 DEF Covers
<1>10. RecDir(r.q, r.out, C) BY <1>3, <1>7, <1>8, <1>9 DEF RecDir
<1> QED BY <1>6, <1>7, <1>10, KeptAccounts

\* retune_isr(): the head whose compare fired is READY.
LEMMA FireAccounts ==
  ASSUME NEW s \in ViewT, Ring(s.q), NEW C, RecDir(s.q, s.out, C)
  PROVE  \E r : r.q = Isr(s.q) /\ r.out = s.out /\ Accounts(s, r, C)
<1>1. s.q \in QueueT /\ HeadOf(s.q) = Head(s.q) BY Headed DEF ViewT
<1>2. CASE ~s.q.clr /\ Head(s.q).st \in {"SCHEDULE_PENDING", "SCHEDULED"}
  <2>1. s.q.cnt > 0 /\ Head(s.q) \in Entry BY <1>1, <1>2, Headed
  <2>2. PICK r : r = [s EXCEPT !.q.ent[s.q.rem].st = "READY"] OBVIOUS
  <2>3. "READY" \in EntryStates \ {"INVALID"} BY DEF EntryStates
  <2>4. Edited(s, r, St(Head(s.q), "READY")) /\ r.out = s.out BY <2>1, <2>2, <2>3, StEffect
  <2>5. r.q = Isr(s.q) BY <1>1, <1>2, <2>2 DEF Isr, ViewT
  <2>6. ~Head(s.q).rep /\ Doomed(s.q) = {} BY <1>1, <1>2, <2>1, Unreported DEF RecDir
  <2>7. PICK e : e = St(Head(s.q), "READY") OBVIOUS
  <2>8. e.rep = Head(s.q).rep /\ e.st = "READY" BY <2>1, <2>3, <2>7, StCells
  <2>9. Accounts(s, r, C) BY <2>4, <2>6, <2>7, <2>8, StAccounts
  <2> QED BY <2>4, <2>5, <2>9
<1>3. CASE ~(~s.q.clr /\ Head(s.q).st \in {"SCHEDULE_PENDING", "SCHEDULED"})
  <2>1. Isr(s.q) = s.q BY <1>1, <1>3 DEF Isr
  <2> QED BY <2>1, SameAccounts
<1> QED BY <1>2, <1>3

-----------------------------------------------------------------------------
(* The steps of Next and the records.                                      *)

LEMMA RecView ==
  ASSUME IInv, RInv, NEW m \in Modules
  PROVE  /\ View(m) \in ViewT /\ View(m).q = q[m] /\ View(m).out = out /\ Ring(q[m]) /\ q[m] \in QueueT
         /\ RecDir(q[m], out, covered) /\ TailInv(q[m]) /\ DirOk(m, View(m), due, fault)
         /\ View(m).t = tamer[m] /\ View(m).job = job
<1>1. DirOk(m, View(m), due, fault) BY IInvDir
<1> QED BY <1>1, ViewTypes DEF RInv, IInv, DirInv

\* One queue changes, and no request joins it.
LEMMA QueueRInv ==
  ASSUME IInv, RInv, NEW m \in Modules, NEW r, q' = [q EXCEPT ![m] = r.q], out' = r.out,
         Accounts(View(m), r, covered'), covered \subseteq covered', used'.req = used.req,
         \A n \in Modules : CallRec(n, q'[n], call')
  PROVE  RInv'
<1>1. /\ View(m) \in ViewT /\ View(m).q = q[m] /\ View(m).out = out /\ q \in [Modules -> QueueT]
      /\ used.req \in 0 .. MaxRequests
  BY RecView DEF IInv, Types, UsedT
<1>2. q'[m] = r.q /\ \A n \in Modules : n # m => q'[n] = q[n] BY <1>1
<1>3. /\ RecDir(r.q, r.out, covered') /\ Ids(r.q) \subseteq Ids(q[m])
      /\ \A x \in Requests \ Ids(q[m]) : r.out[x] = out[x]
      /\ \A x \in Ids(q[m]) : r.out[x].ok + r.out[x].fail <= 1
      /\ \A x \in Ids(q[m]) \ Ids(r.q) : r.out[x].ok + r.out[x].fail > 0 \/ x \in covered'
  BY <1>1 DEF Accounts
<1>4. \A n \in Modules : n # m => Ids(q[n]) \cap Ids(q[m]) = {} BY DEF RInv, Modules
<1>5. ASSUME NEW n \in Modules PROVE RecDir(q'[n], out', covered')
  <2>1. CASE n = m BY <1>2, <1>3, <2>1
  <2>2. CASE n # m
    <3>1. q[n] \in QueueT /\ Ring(q[n]) /\ RecDir(q[n], out, covered) BY RecView
    <3>2. \A i \in Live(q[n]) : out'[q[n].ent[i].id] = out[q[n].ent[i].id]
      BY <1>3, <1>4, <2>2, <3>1, LiveIds
    <3>3. Match(q[n], out') BY <3>1, <3>2 DEF RecDir, Match
    <3>4. Covers(q[n], covered) => Covers(q[n], covered') BY DEF Covers
    <3> QED BY <1>2, <2>2, <3>1, <3>3, <3>4 DEF RecDir
  <2> QED BY <2>1, <2>2
<1>6. Ids(q'["RX"]) \cap Ids(q'["TX"]) = {} BY <1>2, <1>3, <1>4 DEF Modules
<1>7. ASSUME NEW x \in Requests, x > used'.req PROVE out'[x].ok = 0 /\ out'[x].fail = 0
  <2>1. x \notin Ids(q[m])
    <3>1. IdsUsed(q[m], used.req) /\ used'.req = used.req BY DEF IInv, Types
    <3>2. ~(x <= used.req) BY <1>1, <1>7 DEF Requests
    <3> QED BY <3>1, <3>2 DEF IdsUsed
  <2> QED BY <1>3, <1>7, <2>1 DEF RInv
<1>8. OneOutcome' BY <1>3 DEF OneOutcome, RInv
<1>9. NothingLost'
  <2>1. ASSUME NEW x \in 1 .. used'.req
        PROVE  (\E n \in Modules : x \in Ids(q'[n])) \/ out'[x].ok + out'[x].fail > 0 \/ x \in covered'
    <3>0. x \in Requests /\ x \in 1 .. used.req BY <1>1, <2>1, Sizes DEF Requests
    <3>1. CASE x \in Ids(q[m]) BY <1>2, <1>3, <3>1
    <3>2. CASE x \notin Ids(q[m])
      <4>1. out'[x] = out[x] BY <1>3, <3>0, <3>2
      <4>2. (\E n \in Modules : x \in Ids(q[n])) \/ out[x].ok + out[x].fail > 0 \/ x \in covered
        BY <3>0 DEF RInv, NothingLost
      <4> QED BY <1>2, <3>2, <4>1, <4>2
    <3> QED BY <3>1, <3>2
  <2> QED BY <2>1 DEF NothingLost
<1>10. \A n \in Modules : RecDir(q'[n], out', covered') /\ CallRec(n, q'[n], call') BY <1>5
<1>11. \A x \in Requests : x > used'.req => out'[x].ok = 0 /\ out'[x].fail = 0 BY <1>7
<1> QED BY <1>6, <1>8, <1>9, <1>10, <1>11 DEF RInv

LEMMA NoCallRec ==
  ASSUME NEW m \in Modules, NEW Q
  PROVE  CallRec(m, Q, NoCall)
BY Sizes DEF CallRec, NoCall

\* The main loop leaves direction m as r, outside a call.
LEMMA PutRInv ==
  ASSUME IInv, RInv, NEW m \in Modules, NEW r, Put(m, r), Accounts(View(m), r, covered),
         UNCHANGED <<covered, used>>, call' = NoCall
  PROVE  RInv'
<1>1. q' = [q EXCEPT ![m] = r.q] /\ out' = r.out BY DEF Put
<1>2. \A n \in Modules : CallRec(n, q'[n], call') BY NoCallRec
<1> QED BY <1>1, <1>2, QueueRInv

\* No queue and no record changes.
LEMMA StillRInv ==
  ASSUME IInv, RInv, UNCHANGED <<q, out, covered>>, used'.req = used.req,
         \A n \in Modules : CallRec(n, q[n], call')
  PROVE  RInv'
<1>1. \A n \in Modules : RecDir(q[n], out, covered) BY DEF RInv
<1>2. OneOutcome' /\ NothingLost' BY DEF RInv, OneOutcome, NothingLost
<1>3. /\ Ids(q["RX"]) \cap Ids(q["TX"]) = {}
      /\ \A x \in Requests : x > used.req => out[x].ok = 0 /\ out[x].fail = 0
  BY DEF RInv
<1> QED BY <1>1, <1>2, <1>3 DEF RInv

LEMMA PerformWorkRInv ==
  ASSUME IInv, RInv, NEW m \in Modules, NEW ret, Working(m, ret), PerformWork(m, ret)
  PROVE  RInv'
<1>1. /\ View(m) \in ViewT /\ View(m).q = q[m] /\ View(m).out = out /\ Ring(q[m]) /\ q[m] \in QueueT
      /\ RecDir(q[m], out, covered) /\ TailInv(q[m])
  BY RecView
<1>2. call = NoCall BY DEF Working
<1>3. ASSUME NEW at, InCall(at, m, ret), Head(q[m]).st \in {"NEW", "READY"} PROVE RInv'
  <2>1. UNCHANGED <<q, out, covered, used>> /\ call'.m = m BY <1>3 DEF InCall, WorkUnchanged
  <2>2. q[m].cnt > 0 BY <1>1, <1>3, Headed
  <2>3. ~Head(q[m]).rep /\ Doomed(q[m]) = {} BY <1>1, <1>3, <2>2, Unreported DEF RecDir
  <2>4. Bare(q[m]) BY <2>3 DEF Bare, Doomed, Head
  <2>5. \A n \in Modules : CallRec(n, q[n], call') BY <2>1, <2>4 DEF CallRec
  <2> QED BY <2>1, <2>5, StillRInv
<1>4. ASSUME NEW r, Step(m, ret, r), UNCHANGED call,
             \/ Performs(View(m), r) \/ Calibrates(m, View(m), r)
             \/ Uploads(m, View(m), r) /\ Head(q[m]).st # "CANCEL_PENDING"
      PROVE  RInv'
  <2>1. Put(m, r) /\ UNCHANGED <<covered, used>> BY <1>4 DEF Step, WorkUnchanged
  <2>2. Accounts(View(m), r, covered) BY <1>1, <1>4, PerformsAccounts
  <2> QED BY <1>2, <1>4, <2>1, <2>2, PutRInv
<1>5. \/ \E at : InCall(at, m, ret) /\ Head(q[m]).st \in {"NEW", "READY"}
      \/ \E r : /\ Step(m, ret, r) /\ UNCHANGED call
                /\ \/ Performs(View(m), r) \/ Calibrates(m, View(m), r)
                   \/ Uploads(m, View(m), r) /\ Head(q[m]).st # "CANCEL_PENDING"
  BY PerformWorkEffect
<1> QED BY <1>3, <1>4, <1>5

LEMMA AnsweredRInv ==
  ASSUME IInv, RInv, NewAnswered \/ ReadyAnswered
  PROVE  RInv'
<1>1. /\ call.m \in Modules /\ call' = NoCall
      /\ \E r : /\ Step(call.m, call.ret, r)
                /\ \/ r = View(call.m) \/ Leaves(View(call.m), r) \/ Uploads(call.m, View(call.m), r)
                   \/ Recalls(call.m, View(call.m), r) \/ Orphans(call.m, View(call.m), r)
  BY NewAnsweredEffect, ReadyAnsweredEffect
<1>2. PICK m \in Modules : m = call.m BY <1>1
<1>3. PICK r : /\ Step(m, call.ret, r)
               /\ \/ r = View(m) \/ Leaves(View(m), r) \/ Uploads(m, View(m), r)
                  \/ Recalls(m, View(m), r) \/ Orphans(m, View(m), r)
  BY <1>1, <1>2
<1>4. /\ View(m) \in ViewT /\ View(m).q = q[m] /\ View(m).out = out /\ Ring(q[m])
      /\ RecDir(q[m], out, covered) /\ TailInv(q[m])
  BY RecView
<1>5. Bare(q[m]) BY <1>2 DEF RInv, CallRec
<1>6. Accounts(View(m), r, covered) BY <1>3, <1>4, <1>5, CallAccounts
<1>7. Put(m, r) /\ UNCHANGED <<covered, used>> BY <1>3 DEF Step, WorkUnchanged
<1> QED BY <1>1, <1>6, <1>7, PutRInv

\* The CLEAR that was noted is no longer: clear_queue_async() starts from s.
LEMMA Undeferred ==
  ASSUME IInv, NEW m \in Modules, NEW s, s = [View(m) EXCEPT !.q.defer = FALSE]
  PROVE  /\ s \in ViewT /\ s.out = out /\ DirOk(m, s, due, fault)
         /\ s.q.ent = q[m].ent /\ s.q.rem = q[m].rem /\ s.q.cnt = q[m].cnt /\ s.q.clr = q[m].clr
         /\ ~s.q.defer
<1>1. /\ View(m) \in ViewT /\ View(m).q = q[m] /\ View(m).out = out /\ Ring(q[m]) /\ q[m] \in QueueT
      /\ DirOk(m, View(m), due, fault)
  BY ViewTypes, IInvDir DEF IInv
<1>3. PICK R : R = [q[m] EXCEPT !.defer = FALSE] OBVIOUS
<1>5. /\ R \in QueueT /\ R.ent = q[m].ent /\ R.rem = q[m].rem /\ R.cnt = q[m].cnt /\ R.clr = q[m].clr
      /\ R.done = q[m].done /\ ~R.defer
  BY <1>1, <1>3 DEF QueueT
<1>6. s \in ViewT /\ s.q = R /\ s.t = View(m).t /\ s.job = View(m).job /\ s.out = out
  BY <1>1, <1>3, <1>5 DEF ViewT
<1>7. DirOk(m, s, due, fault)
  <2>1. Live(R) = Live(q[m]) /\ Head(R) = Head(q[m]) /\ Loading(R) = Loading(q[m])
    BY <1>5, SameLive DEF Head, Loading
  <2>2. Ring(R) BY <1>1, <1>5, <2>1 DEF Ring
  <2>3. TailInv(R) BY <1>1, <1>5, <2>1 DEF TailInv, DirOk
  <2>4. LoadInv(m, R, View(m).job) BY <1>1, <1>5, <2>1 DEF LoadInv, DirOk, OneLoad
  <2>5. HeadInv(Head(R), View(m).t, due) /\ HeadJob(m, Head(R), View(m).job, fault, R.clr)
    BY <1>1, <1>5, <2>1 DEF DirOk
  <2> QED BY <1>6, <2>2, <2>3, <2>4, <2>5 DEF DirOk
<1> QED BY <1>5, <1>6, <1>7

LEMMA DeferredClearRInv ==
  ASSUME IInv, RInv, NEW m \in Modules, DeferredClear(m)
  PROVE  RInv'
<1>1. View(m).q = q[m] /\ View(m).out = out /\ q[m] \in QueueT /\ RecDir(q[m], out, covered) BY RecView
<1>2. q[m].defer /\ call = NoCall /\ UNCHANGED <<call, covered, used>> BY DEF DeferredClear, WorkUnchanged
<1>4. PICK s : s = [View(m) EXCEPT !.q.defer = FALSE] OBVIOUS
<1>5. PICK R : R = s.q OBVIOUS
<1>6. /\ s \in ViewT /\ s.q = R /\ s.out = out /\ DirOk(m, s, due, fault)
      /\ R.ent = q[m].ent /\ R.rem = q[m].rem /\ R.cnt = q[m].cnt /\ R.clr = q[m].clr /\ ~R.defer
  BY <1>4, <1>5, Undeferred
<1>8. Covers(q[m], covered) BY <1>1, <1>2 DEF RecDir
<1>9. RecDir(R, out, covered) /\ Ids(R) = Ids(q[m]) /\ Covers(R, covered) BY <1>1, <1>6, <1>8, FlagsRec
<1>10. PICK r : r = ClearQueue(s, m).s OBVIOUS
<1>11. Accounts(s, r, covered) BY <1>6, <1>9, <1>10, ClearAccounts
<1>12. Accounts(View(m), r, covered) BY <1>1, <1>6, <1>9, <1>11 DEF Accounts
<1>13. Put(m, r) BY <1>4, <1>10 DEF DeferredClear
<1> QED BY <1>2, <1>12, <1>13, PutRInv

LEMMA FaultedQueueRInv ==
  ASSUME IInv, RInv, NEW m \in Modules, FaultedQueue(m)
  PROVE  RInv'
<1>1. /\ View(m) \in ViewT /\ View(m).q = q[m] /\ View(m).out = out /\ Ring(q[m]) /\ q[m] \in QueueT
      /\ RecDir(q[m], out, covered) /\ DirOk(m, View(m), due, fault)
  BY RecView
<1>2. call = NoCall /\ UNCHANGED <<call, covered, used>> BY DEF FaultedQueue, WorkUnchanged
<1>3. fault /\ q[m].cnt > 0 /\ ~q[m].clr BY DEF FaultedQueue, FaultPending
<1>4. Head(q[m]).st \notin JobStates BY <1>1, <1>3 DEF DirOk, HeadJob
<1>5. PICK r : r = FailQueue(View(m), m) OBVIOUS
<1>6. Accounts(View(m), r, covered) BY <1>1, <1>3, <1>4, <1>5, FailAccounts
<1>7. Put(m, r) BY <1>5 DEF FaultedQueue
<1> QED BY <1>2, <1>6, <1>7, PutRInv

LEMMA LoadOwnerRInv ==
  ASSUME IInv, RInv, NEW m \in Modules, LoadOwner(m)
  PROVE  RInv'
<1>1. /\ View(m) \in ViewT /\ View(m).q = q[m] /\ View(m).out = out /\ Ring(q[m]) /\ q[m] \in QueueT
      /\ RecDir(q[m], out, covered) /\ DirOk(m, View(m), due, fault)
  BY RecView
<1>2. Settled /\ UNCHANGED call /\ WorkUnchanged BY LoadOwnerEffect
<1>3. call' = NoCall /\ UNCHANGED <<covered, used>> BY <1>2 DEF Settled, WorkUnchanged
<1>4. PICK r : /\ Put(m, r)
               /\ \/ r = View(m)
                  \/ r = [View(m) EXCEPT !.job.load = None]
                  \/ r = ClearQueue(View(m), m).s /\ q[m].clr
                  \/ /\ ~q[m].clr
                     /\ \E i \in Loading(q[m]), e \in Entry :
                          /\ r \in ViewT /\ r.q = WithCell(q[m], i, e)
                          /\ e.id = q[m].ent[i].id /\ e.slot = q[m].ent[i].slot /\ e.imm = q[m].ent[i].imm
                          /\ \/ e = Dropped(q[m].ent[i]) /\ r.out = Recorded(out, q[m].ent[i])
                             \/ /\ e.rep = q[m].ent[i].rep /\ r.out = out
                                /\ e.st = "NEW" \/ e.st = "READY"
  BY LoadOwnerEffect
<1>5. CASE r = View(m) \/ r = [View(m) EXCEPT !.job.load = None]
  <2>1. r.q = q[m] /\ r.out = out BY <1>1, <1>5 DEF ViewT
  <2>2. Accounts(View(m), r, covered) BY <1>1, <2>1, SameAccounts
  <2> QED BY <1>3, <1>4, <2>2, PutRInv
<1>6. CASE r = ClearQueue(View(m), m).s /\ q[m].clr
  <2>1. Covers(q[m], covered) BY <1>1, <1>6 DEF RecDir
  <2>2. Accounts(View(m), r, covered) BY <1>1, <1>6, <2>1, ClearAccounts
  <2> QED BY <1>3, <1>4, <2>2, PutRInv
<1>7. ASSUME ~q[m].clr, NEW i \in Loading(q[m]), NEW e \in Entry, r \in ViewT, r.q = WithCell(q[m], i, e),
             e.id = q[m].ent[i].id, e.slot = q[m].ent[i].slot, e.imm = q[m].ent[i].imm,
             \/ e = Dropped(q[m].ent[i]) /\ r.out = Recorded(out, q[m].ent[i])
             \/ /\ e.rep = q[m].ent[i].rep /\ r.out = out
                /\ e.st = "NEW" \/ e.st = "READY"
      PROVE  RInv'
  <2>1. i \in Live(q[m]) /\ q[m].ent[i].st = "LOAD_PENDING" BY DEF Loading
  <2>2. Marks(q[m]) /\ Doomed(q[m]) = {} BY <1>1, <1>7 DEF RecDir, Marks
  <2>3. q[m].ent[i].rep = FALSE
    <3>1. q[m].ent[i] \in Entry /\ q[m].ent[i].rep \in BOOLEAN BY <1>1, <2>1, LiveIds DEF Entry
    <3>2. CASE i = q[m].rem
      <4>1. q[m].cnt > 0 BY <1>1, <2>1, LiveCells DEF QueueT
      <4> QED BY <2>1, <2>2, <3>1, <3>2, <4>1 DEF Marks, Head
    <3>3. CASE i # q[m].rem BY <2>1, <2>2, <3>1, <3>3 DEF Doomed
    <3> QED BY <3>2, <3>3
  <2>4. q[m].ent[i] \in Entry BY <1>1, <2>1, LiveIds
  <2>5. e.st \in {"NEW", "READY", "LOAD_FAILED"} /\ (e.rep <=> e.st = "LOAD_FAILED")
    <3>1. CASE e = Dropped(q[m].ent[i]) BY <2>4, <3>1, DroppedCells
    <3>2. CASE e.rep = q[m].ent[i].rep /\ (e.st = "NEW" \/ e.st = "READY") BY <2>3, <3>2
    <3> QED BY <1>7, <3>1, <3>2
  <2>6. Writes(q[m], i, e, out, r.out)
    <3>1. CASE e = Dropped(q[m].ent[i]) /\ r.out = Recorded(out, q[m].ent[i])
      <4>1. e.rep = TRUE BY <2>4, <3>1 DEF Dropped, Entry
      <4> QED BY <3>1, <4>1 DEF Writes
    <3>2. CASE e.rep = q[m].ent[i].rep /\ r.out = out BY <3>2 DEF Writes
    <3> QED BY <1>7, <3>1, <3>2
  <2>7. q[m].ent[i].st # "CANCEL_PENDING" /\ e.st \notin {"INVALID", "CANCEL_PENDING"} BY <2>1, <2>5
  <2>8. Accounts(View(m), r, covered) BY <1>1, <1>7, <2>1, <2>2, <2>5, <2>6, <2>7, CellAccounts
  <2> QED BY <1>3, <1>4, <2>8, PutRInv
<1> QED BY <1>4, <1>5, <1>6, <1>7

LEMMA OrphanRecallRInv ==
  ASSUME IInv, RInv, NEW m \in Modules, OrphanRecall(m)
  PROVE  RInv'
<1>1. UNCHANGED <<q, out, covered, used, call>> BY DEF OrphanRecall, WorkUnchanged
<1>2. \A n \in Modules : CallRec(n, q[n], call') BY <1>1 DEF RInv
<1> QED BY <1>1, <1>2, StillRInv

LEMMA PreloadRInv ==
  ASSUME IInv, RInv, Preload
  PROVE  RInv'
<1>1. call = NoCall /\ UNCHANGED <<tamer, out, call, covered, used>> BY DEF Preload, WorkUnchanged
<1>2. CASE UNCHANGED q
  <2>1. \A n \in Modules : CallRec(n, q[n], call') BY <1>1 DEF RInv
  <2> QED BY <1>1, <1>2, <2>1, StillRInv
<1>3. CASE \E m \in Modules : Preloadable(m) # {} /\ PreloadNext(m)
  <2>1. PICK m \in Modules : Preloadable(m) # {} /\ PreloadNext(m) BY <1>3
  <2>2. PICK i \in Live(q[m]) :
           /\ i # q[m].rem /\ q[m].ent[i].st = "NEW"
           /\ Head(q[m]).st \in {"SCHEDULE_PENDING", "SCHEDULED"}
           /\ \E r \in ViewT : /\ r.q = WithCell(q[m], i, St(q[m].ent[i], "LOAD_PENDING"))
                               /\ r.out = out /\ Put(m, r)
    BY <1>1, <2>1, PreloadEffect
  <2>3. PICK r \in ViewT : /\ r.q = WithCell(q[m], i, St(q[m].ent[i], "LOAD_PENDING"))
                           /\ r.out = out /\ Put(m, r)
    BY <2>2
  <2>4. /\ View(m) \in ViewT /\ View(m).q = q[m] /\ View(m).out = out /\ Ring(q[m]) /\ q[m] \in QueueT
        /\ RecDir(q[m], out, covered)
    BY RecView
  <2>5. Doomed(q[m]) = {} BY <2>2, <2>4 DEF RecDir, Marks
  <2>6. q[m].ent[i] \in Entry /\ ~q[m].ent[i].rep BY <2>2, <2>4, <2>5, LiveIds DEF Doomed
  <2>7. PICK e : e = St(q[m].ent[i], "LOAD_PENDING") OBVIOUS
  <2>8. /\ e \in Entry /\ e.st = "LOAD_PENDING" /\ e.id = q[m].ent[i].id /\ e.slot = q[m].ent[i].slot
        /\ e.imm = q[m].ent[i].imm /\ e.rep = q[m].ent[i].rep
    <3>1. "LOAD_PENDING" \in EntryStates BY DEF EntryStates
    <3> QED BY <2>6, <2>7, <3>1, StCells
  <2>9. Writes(q[m], i, e, out, r.out) BY <2>3, <2>8 DEF Writes
  <2>10. /\ q[m].ent[i].st # "CANCEL_PENDING" /\ e.st \notin {"INVALID", "CANCEL_PENDING"}
         /\ e.rep <=> e.st = "LOAD_FAILED"
    BY <2>2, <2>6, <2>8
  <2>11. Accounts(View(m), r, covered) BY <2>3, <2>4, <2>5, <2>7, <2>8, <2>9, <2>10, CellAccounts
  <2> QED BY <1>1, <2>3, <2>11, PutRInv
<1> QED BY <1>2, <1>3 DEF Preload

LEMMA WorkerRInv ==
  ASSUME IInv, RInv, Worker
  PROVE  RInv'
BY DeferredClearRInv, FaultedQueueRInv, LoadOwnerRInv, OrphanRecallRInv, PerformWorkRInv, AnsweredRInv,
   PreloadRInv DEF Worker

LEMMA HandledRec ==
  ASSUME IInv, RInv, Handling, NEW m \in Modules, NEW Q, CallRec(m, Q, call)
  PROVE  CallRec(m, Q, call')
<1>1. call'.m = call.m BY HandlingFacts
<1> QED BY <1>1 DEF CallRec

\* A CLEAR packet finds the requests of the queue and covers them.
LEMMA ClearPacketRInv ==
  ASSUME IInv, RInv, NEW m \in Modules, ClearPacket(m), used'.req = used.req
  PROVE  RInv'
<1>1. /\ View(m) \in ViewT /\ View(m).q = q[m] /\ View(m).out = out /\ Ring(q[m]) /\ q[m] \in QueueT
      /\ RecDir(q[m], out, covered) /\ DirOk(m, View(m), due, fault)
  BY RecView
<1>2. Handling /\ covered' = covered \cup Ids(q[m]) BY DEF ClearPacket
<1>3. covered \subseteq covered' /\ Ids(q[m]) \subseteq covered' BY <1>2
<1>4. q \in [Modules -> QueueT] BY DEF IInv, Types
<1>5. \A n \in Modules : CallRec(n, q[n], call) BY DEF RInv
<1>6. CASE Owned(job)
  <2>1. PICK R : R = [q[m] EXCEPT !.defer = TRUE] OBVIOUS
  <2>2. /\ R.ent = q[m].ent /\ R.rem = q[m].rem /\ R.cnt = q[m].cnt /\ R.clr = q[m].clr
    BY <1>1, <2>1 DEF QueueT
  <2>3. q' = [q EXCEPT ![m] = R] /\ out' = out BY <1>6, <2>1 DEF ClearPacket
  <2>4. RecDir(R, out, covered') /\ Ids(R) = Ids(q[m]) /\ (Bare(q[m]) => Bare(R)) BY <1>1, <1>3, <2>2, FlagsRec
  <2>5. PICK r : r = [View(m) EXCEPT !.q = R] OBVIOUS
  <2>6. r.q = R /\ r.out = out BY <1>1, <2>5 DEF ViewT
  <2>7. Accounts(View(m), r, covered')
    <3>1. \A x \in Ids(R) : out[x].ok + out[x].fail <= 1 BY <2>4 DEF RecDir, Match, Ids
    <3> QED BY <1>1, <2>4, <2>6, <3>1 DEF Accounts
  <2>8. ASSUME NEW n \in Modules PROVE CallRec(n, q'[n], call)
    <3>1. CASE n = m BY <1>4, <1>5, <2>3, <2>4, <3>1 DEF CallRec
    <3>2. CASE n # m BY <1>4, <1>5, <2>3, <3>2
    <3> QED BY <3>1, <3>2
  <2>9. \A n \in Modules : CallRec(n, q'[n], call') BY <1>2, <2>8, HandledRec
  <2> QED BY <1>3, <2>3, <2>6, <2>7, <2>9, QueueRInv
<1>7. CASE ~Owned(job)
  <2>1. PICK r : r = ClearQueue(View(m), m).s OBVIOUS
  <2>2. q' = [q EXCEPT ![m] = r.q] /\ out' = r.out BY <1>7, <2>1 DEF ClearPacket, Put
  <2>3. RecDir(q[m], out, covered') /\ Covers(q[m], covered') BY <1>1, <1>3, FlagsRec
  <2>4. Accounts(View(m), r, covered') /\ (Bare(q[m]) => Bare(r.q)) BY <1>1, <2>1, <2>3, ClearAccounts
  <2>5. ASSUME NEW n \in Modules PROVE CallRec(n, q'[n], call)
    <3>1. CASE n = m BY <1>4, <1>5, <2>2, <2>4, <3>1 DEF CallRec
    <3>2. CASE n # m BY <1>4, <1>5, <2>2, <3>2
    <3> QED BY <3>1, <3>2
  <2>6. \A n \in Modules : CallRec(n, q'[n], call') BY <1>2, <2>5, HandledRec
  <2> QED BY <1>3, <2>2, <2>4, <2>6, QueueRInv
<1> QED BY <1>6, <1>7

\* A request joins queue m: it has no record and nothing of it is lost.
LEMMA JoinRInv ==
  ASSUME IInv, RInv, NEW m \in Modules, NEW e \in Entry, e.id = used.req + 1, used.req < MaxRequests,
         e.slot \in Slots, e.rep = FALSE, e.st \in {"NEW", "READY", "LOAD_PENDING"},
         q[m].cnt < QueueMax, ~q[m].clr, ~q[m].defer,
         q' = [q EXCEPT ![m] = Append1(q[m], e)], used'.req = used.req + 1, UNCHANGED <<out, covered>>,
         \A n \in Modules : \A Q : CallRec(n, Q, call) => CallRec(n, Q, call')
  PROVE  RInv'
<1>1. /\ View(m) \in ViewT /\ Ring(q[m]) /\ q[m] \in QueueT /\ RecDir(q[m], out, covered)
      /\ q \in [Modules -> QueueT] /\ used.req \in 0 .. MaxRequests /\ q[m].cnt \in 0 .. QueueMax
  BY RecView DEF IInv, Types, UsedT, QueueT
<1>2. e.id \in Requests /\ \A n \in Modules : e.id \notin Ids(q[n])
  <2>1. e.id \in Requests BY <1>1, Sizes DEF Requests
  <2>2. \A n \in Modules : IdsUsed(q[n], used.req) BY DEF IInv, Types
  <2>3. ~(e.id <= used.req) BY <1>1
  <2> QED BY <2>1, <2>2, <2>3 DEF IdsUsed
<1>3. e.st # "INVALID" /\ e.id # 0 BY <1>1
<1>4. PICK R : R = Append1(q[m], e) OBVIOUS
<1>5. PICK p : p = Idx(q[m], q[m].cnt) OBVIOUS
<1>6. /\ R \in QueueT /\ Ring(R) /\ R.rem = q[m].rem /\ R.cnt = q[m].cnt + 1
      /\ p \in Indices /\ p \notin Live(q[m]) /\ Live(R) = Live(q[m]) \cup {p}
      /\ R.ent = [q[m].ent EXCEPT ![p] = e]
      /\ R.clr = q[m].clr /\ R.defer = q[m].defer
      /\ q[m].cnt = 0 => p = q[m].rem
      /\ q[m].cnt > 0 => p # q[m].rem
  BY <1>1, <1>2, <1>3, <1>4, <1>5, AppendRing
<1>7. R.ent[p] = e /\ \A i \in Live(q[m]) : i # p /\ R.ent[i] = q[m].ent[i]
  BY <1>1, <1>6, LiveCells DEF QueueT
<1>8. out[e.id].ok = 0 /\ out[e.id].fail = 0
  <2>1. e.id > used.req BY <1>1
  <2> QED BY <1>2, <2>1 DEF RInv
<1>9. Ids(R) = Ids(q[m]) \cup {e.id} BY <1>6, <1>7 DEF Ids
<1>10. Match(R, out) BY <1>1, <1>6, <1>7, <1>8 DEF RecDir, Match
<1>11. Doomed(q[m]) = {} /\ Marks(q[m]) BY <1>1 DEF RecDir, Marks
<1>12. Marks(R)
  <2>1. \A i \in Live(R) : R.ent[i].st = "LOAD_FAILED" => R.ent[i].rep BY <1>6, <1>7, <1>11 DEF Marks
  <2>2. Doomed(R) = {} BY <1>6, <1>7, <1>11 DEF Doomed
  <2>3. CASE q[m].cnt = 0
    <3>1. Head(R) = e BY <1>6, <1>7, <2>3 DEF Head
    <3> QED BY <2>1, <2>2, <3>1 DEF Marks
  <2>4. CASE q[m].cnt > 0
    <3>1. Head(R) = Head(q[m]) BY <1>1, <1>6, <1>7, <2>4, LiveCells DEF Head
    <3> QED BY <1>6, <1>11, <2>1, <2>2, <2>4, <3>1 DEF Marks
  <2> QED BY <1>1, <2>3, <2>4
<1>13. RecDir(R, out, covered) BY <1>6, <1>10, <1>12 DEF RecDir
<1>14. q'[m] = R /\ \A n \in Modules : n # m => q'[n] = q[n] BY <1>1, <1>4
<1>15. Bare(q[m]) => Bare(R) BY <1>6, <1>7 DEF Bare
<1>16. ASSUME NEW n \in Modules PROVE RecDir(q'[n], out', covered') /\ CallRec(n, q'[n], call')
  <2>1. RecDir(q[n], out, covered) /\ CallRec(n, q[n], call) BY DEF RInv
  <2>2. CallRec(n, q'[n], call) BY <1>14, <1>15, <2>1 DEF CallRec
  <2>3. RecDir(q'[n], out', covered') BY <1>13, <1>14, <2>1
  <2> QED BY <2>2, <2>3
<1>17. Ids(q'["RX"]) \cap Ids(q'["TX"]) = {}
  <2>1. Ids(q["RX"]) \cap Ids(q["TX"]) = {} BY DEF RInv
  <2> QED BY <1>2, <1>9, <1>14, <2>1 DEF Modules
<1>18. \A x \in Requests : x > used'.req => out'[x].ok = 0 /\ out'[x].fail = 0
  <2>1. \A x \in Requests : x > used'.req => x > used.req BY <1>1 DEF Requests
  <2> QED BY <2>1 DEF RInv
<1>19. OneOutcome' BY DEF OneOutcome, RInv
<1>20. NothingLost'
  <2>1. ASSUME NEW x \in 1 .. used'.req
        PROVE  (\E n \in Modules : x \in Ids(q'[n])) \/ out'[x].ok + out'[x].fail > 0 \/ x \in covered'
    <3>1. CASE x = e.id BY <1>9, <1>14, <3>1
    <3>2. CASE x # e.id
      <4>1. x \in 1 .. used.req BY <1>1, <2>1, <3>2
      <4>2. (\E n \in Modules : x \in Ids(q[n])) \/ out[x].ok + out[x].fail > 0 \/ x \in covered
        BY <4>1 DEF RInv, NothingLost
      <4> QED BY <1>9, <1>14, <4>2
    <3> QED BY <3>1, <3>2
  <2> QED BY <2>1 DEF NothingLost
<1> QED BY <1>16, <1>17, <1>18, <1>19, <1>20 DEF RInv

\* Nobody defers a CLEAR while the host is free.
LEMMA NotDeferred ==
  ASSUME IInv, host.at = "free", NEW m \in Modules
  PROVE  ~q[m].defer
BY DEF IInv, DirInv, DeferInv

LEMMA ScheduleRInv ==
  ASSUME IInv, RInv, NEW m \in Modules, NEW slot \in Slots, NEW gt \in BOOLEAN, Schedule(m, slot, gt)
  PROVE  RInv'
<1>1. /\ host.at = "free" /\ used.req < MaxRequests /\ Handling /\ ~q[m].clr /\ q[m].cnt < QueueMax
      /\ used' = [used EXCEPT !.req = @ + 1] /\ UNCHANGED <<out, covered>>
  BY DEF Schedule
<1>2. used.req + 1 \in Requests /\ used'.req = used.req + 1 BY <1>1, NewRequest
<1>3. PICK e : e = Fresh(used.req + 1, slot, gt /\ m = "RX") OBVIOUS
<1>4. IsFresh(e, used.req + 1, slot) BY <1>2, <1>3, FreshCell
<1>5. q \in [Modules -> QueueT] BY DEF IInv, Types
<1>6. q' = [q EXCEPT ![m] = Append1(q[m], e)] BY <1>3, <1>5 DEF Schedule
<1>7. ~q[m].defer BY <1>1, NotDeferred
<1>8. \A n \in Modules : \A Q : CallRec(n, Q, call) => CallRec(n, Q, call') BY <1>1, HandledRec
<1>9. /\ e \in Entry /\ e.id = used.req + 1 /\ e.slot \in Slots /\ e.rep = FALSE
      /\ e.st \in {"NEW", "READY", "LOAD_PENDING"}
  BY <1>4 DEF IsFresh
<1> QED BY <1>1, <1>2, <1>6, <1>7, <1>8, <1>9, JoinRInv

LEMMA ScheduleRefusedRInv ==
  ASSUME IInv, RInv, NEW m \in Modules, ScheduleRefused(m)
  PROVE  RInv'
<1>1. /\ View(m) \in ViewT /\ View(m).q = q[m] /\ View(m).out = out /\ q[m] \in QueueT
      /\ RecDir(q[m], out, covered) /\ q \in [Modules -> QueueT]
  BY RecView DEF IInv, Types
<1>2. Handling /\ UNCHANGED <<used, out, covered>> BY DEF ScheduleRefused
<1>3. PICK R : R = [q[m] EXCEPT !.done = FALSE] OBVIOUS
<1>4. /\ R.ent = q[m].ent /\ R.rem = q[m].rem /\ R.cnt = q[m].cnt /\ R.clr = q[m].clr /\ R.defer = q[m].defer
  BY <1>1, <1>3 DEF QueueT
<1>5. q' = [q EXCEPT ![m] = R] BY <1>3 DEF ScheduleRefused
<1>6. RecDir(R, out, covered) /\ Ids(R) = Ids(q[m]) /\ (Bare(q[m]) => Bare(R)) BY <1>1, <1>4, FlagsRec
<1>7. PICK r : r = [View(m) EXCEPT !.q = R] OBVIOUS
<1>8. r.q = R /\ r.out = out BY <1>1, <1>7 DEF ViewT
<1>9. Accounts(View(m), r, covered)
  <2>1. \A x \in Ids(R) : out[x].ok + out[x].fail <= 1 BY <1>6 DEF RecDir, Match, Ids
  <2> QED BY <1>1, <1>6, <1>8, <2>1 DEF Accounts
<1>10. ASSUME NEW n \in Modules PROVE CallRec(n, q'[n], call)
  <2>1. CallRec(n, q[n], call) BY DEF RInv
  <2>2. CASE n = m BY <1>1, <1>5, <1>6, <2>1, <2>2 DEF CallRec
  <2>3. CASE n # m BY <1>1, <1>5, <2>1, <2>3
  <2> QED BY <2>2, <2>3
<1>11. \A n \in Modules : CallRec(n, q'[n], call') BY <1>2, <1>10, HandledRec
<1> QED BY <1>2, <1>5, <1>8, <1>9, <1>11, QueueRInv

LEMMA NowRInv ==
  ASSUME IInv, RInv, NEW m \in Modules, NEW slot \in Slots, NEW gt \in BOOLEAN, NEW res \in BOOLEAN,
         Now(m, slot, gt, res)
  PROVE  RInv'
<1>1. PICK e : e = [Fresh(used.req + 1, slot, gt /\ m = "RX") EXCEPT !.imm = TRUE, !.res = res,
                        !.st = IF res THEN "READY" ELSE "LOAD_PENDING"]
  OBVIOUS
<1>2. /\ host.at = "free" /\ used.req < MaxRequests /\ ~q[m].clr /\ q[m].cnt = 0
      /\ used' = [used EXCEPT !.req = @ + 1] /\ q' = [q EXCEPT ![m] = Append1(q[m], e)]
      /\ UNCHANGED <<call, out, covered>>
  BY <1>1 DEF Now
<1>3. used.req + 1 \in Requests /\ used'.req = used.req + 1 BY <1>2, NewRequest
<1>4. /\ e \in Entry /\ e.id = used.req + 1 /\ e.slot \in Slots /\ e.rep = FALSE
      /\ e.st \in {"NEW", "READY", "LOAD_PENDING"}
  <2>1. PICK d : d = Fresh(used.req + 1, slot, gt /\ m = "RX") OBVIOUS
  <2>2. IsFresh(d, used.req + 1, slot) BY <1>3, <2>1, FreshCell
  <2>3. d \in Entry /\ d.id = used.req + 1 /\ d.slot = slot /\ d.rep = FALSE BY <2>2 DEF IsFresh
  <2>4. "READY" \in EntryStates /\ "LOAD_PENDING" \in EntryStates BY DEF EntryStates
  <2>5. CASE res = TRUE
    <3>1. e = [d EXCEPT !.imm = TRUE, !.res = TRUE, !.st = "READY"] BY <1>1, <2>1, <2>5
    <3> QED BY <2>3, <2>4, <3>1 DEF Entry
  <2>6. CASE res = FALSE
    <3>1. e = [d EXCEPT !.imm = TRUE, !.res = FALSE, !.st = "LOAD_PENDING"] BY <1>1, <2>1, <2>6
    <3> QED BY <2>3, <2>4, <3>1 DEF Entry
  <2> QED BY <2>5, <2>6
<1>5. ~q[m].defer /\ q[m].cnt < QueueMax BY <1>2, NotDeferred, Sizes
<1>6. \A n \in Modules : \A Q : CallRec(n, Q, call) => CallRec(n, Q, call') BY <1>2
<1> QED BY <1>2, <1>3, <1>4, <1>5, <1>6, JoinRInv

LEMMA HostRInv ==
  ASSUME IInv, RInv, Host
  PROVE  RInv'
<1>1. Directions \subseteq Modules BY Sizes
<1>2. ASSUME NEW m \in Modules, Clear(m) PROVE RInv'
  <2>1. used \in UsedT BY DEF IInv, Types
  <2>2. used' = [used EXCEPT !.clears = @ + 1] /\ ClearPacket(m) BY <1>2 DEF Clear
  <2>3. used'.req = used.req BY <2>1, <2>2 DEF UsedT
  <2> QED BY <2>2, <2>3, ClearPacketRInv
<1>3. ASSUME ClearAgain PROVE RInv'
  <2>1. host.m \in Modules BY <1>3 DEF IInv, Types, ClearAgain
  <2>2. ClearPacket(host.m) /\ UNCHANGED used BY <1>3 DEF ClearAgain
  <2> QED BY <2>1, <2>2, ClearPacketRInv
<1>4. ASSUME HostReturns PROVE RInv'
  <2>1. UNCHANGED <<q, out, covered, used, call>> BY <1>4 DEF HostReturns
  <2>2. \A n \in Modules : CallRec(n, q[n], call') BY <2>1 DEF RInv
  <2> QED BY <2>1, <2>2, StillRInv
<1> QED BY <1>1, <1>2, <1>3, <1>4, ScheduleRInv, ScheduleRefusedRInv, NowRInv DEF Host

\* Neither the tamers' clocks and watchdogs nor the RFIC's faults touch a queue.
LEMMA QuietRInv ==
  ASSUME IInv, RInv, NEW m \in Modules,
         \/ CompareLoaded(m) \/ ScheduleTimeout(m) \/ CancelDone(m) \/ CancelTimeout(m)
         \/ StallSeen(m) \/ ClockRuns(m) \/ ClockStops(m)
         \/ MetaOff \/ MetaOn \/ RficFault \/ RficInit
  PROVE  RInv'
<1>1. UNCHANGED <<q, out, covered, call>>
  BY DEF CompareLoaded, ScheduleTimeout, CancelDone, CancelTimeout, StallSeen, ClockRuns, ClockStops,
         TamerStep, MetaOff, MetaOn, RficFault, RficInit
<1>2. used \in UsedT BY DEF IInv, Types
<1>3. used'.req = used.req
  <2>1. CASE UNCHANGED used BY <2>1
  <2>2. CASE ClockStops(m) \/ MetaOff \/ RficFault BY <1>2, <2>2 DEF ClockStops, MetaOff, RficFault, UsedT
  <2> QED BY <2>1, <2>2 DEF CompareLoaded, ScheduleTimeout, CancelDone, CancelTimeout, StallSeen, ClockRuns,
                            MetaOn, RficInit
<1>4. \A n \in Modules : CallRec(n, q[n], call') BY <1>1 DEF RInv
<1> QED BY <1>1, <1>3, <1>4, StillRInv

LEMMA FireRInv ==
  ASSUME IInv, RInv, NEW m \in Modules, Fire(m)
  PROVE  RInv'
<1>1. /\ View(m) \in ViewT /\ View(m).q = q[m] /\ View(m).out = out /\ Ring(q[m]) /\ q[m] \in QueueT
      /\ RecDir(q[m], out, covered) /\ q \in [Modules -> QueueT] /\ DirInv(m)
  BY RecView DEF IInv, Types
<1>2. PICK r : r.q = Isr(q[m]) /\ r.out = out /\ Accounts(View(m), r, covered) BY <1>1, FireAccounts
<1>3. q' = [q EXCEPT ![m] = r.q] /\ UNCHANGED <<out, covered, used, call>> BY <1>2 DEF Fire, TamerStep
<1>4. ArmedT(tamer[m]) BY DEF Fire, ArmedT
<1>5. call.m # m BY <1>1, <1>4 DEF DirInv, CallInv
<1>6. \A n \in Modules : CallRec(n, q'[n], call')
  <2>1. \A n \in Modules : CallRec(n, q[n], call) BY DEF RInv
  <2> QED BY <1>1, <1>3, <1>5, <2>1 DEF CallRec
<1> QED BY <1>2, <1>3, <1>6, QueueRInv

LEMMA InitRInv ==
  ASSUME Init
  PROVE  RInv
<1>1. PICK Q : Q = EmptyQueue(0) OBVIOUS
<1>2. Live(Q) = {} /\ Q.cnt = 0 /\ ~Q.clr /\ ~Q.defer BY <1>1, EmptyRing DEF EmptyQueue
<1>3. \A m \in Modules : q[m] = Q BY <1>1 DEF Init
<1>4. \A x \in Requests : out[x].ok = 0 /\ out[x].fail = 0 BY DEF Init
<1>5. Ids(Q) = {} /\ Doomed(Q) = {} /\ Bare(Q) BY <1>2 DEF Ids, Doomed, Bare
<1>6. RecDir(Q, out, covered) BY <1>2, <1>5 DEF RecDir, Match, Marks
<1>7. \A m \in Modules : RecDir(q[m], out, covered) /\ CallRec(m, q[m], call) BY <1>3, <1>5, <1>6 DEF CallRec
<1>8. Ids(q["RX"]) \cap Ids(q["TX"]) = {} BY <1>3, <1>5 DEF Modules
<1>9. OneOutcome BY <1>4 DEF OneOutcome
<1>10. NothingLost BY DEF NothingLost, Init
<1> QED BY <1>4, <1>7, <1>8, <1>9, <1>10 DEF RInv

LEMMA NextRInv ==
  ASSUME IInv, RInv, [Next]_vars
  PROVE  RInv'
<1>1. Directions \subseteq Modules /\ "RX" \in Modules BY Sizes DEF Modules
<1>2. ASSUME UNCHANGED vars PROVE RInv'
  <2>1. UNCHANGED <<q, out, covered, used, call>> BY <1>2 DEF vars
  <2>2. \A n \in Modules : CallRec(n, q[n], call') BY <2>1 DEF RInv
  <2> QED BY <2>1, <2>2, StillRInv
<1> QED BY <1>1, <1>2, HostRInv, WorkerRInv, QuietRInv, FireRInv DEF Next, Hardware

\* A request has at most one completion record, never a success and a failure
\* and never the same one twice, whatever CLEAR, RFIC fault, failed upload or
\* stalled clock met it, and in any order.
THEOREM EndsOnce == Spec => []OneOutcome
<1>1. Init => IInv /\ RInv BY InitIInv, InitRInv
<1>2. IInv /\ RInv /\ [Next]_vars => IInv' /\ RInv' BY NextIInv, NextRInv
<1>3. RInv => OneOutcome BY DEF RInv
<1> QED BY <1>1, <1>2, <1>3, PTL DEF Spec

\* No accepted request is forgotten: it is in its queue, or it has its
\* record, or a CLEAR of the host found it there.
THEOREM NoneLost == Spec => []NothingLost
<1>1. Init => IInv /\ RInv BY InitIInv, InitRInv
<1>2. IInv /\ RInv /\ [Next]_vars => IInv' /\ RInv' BY NextIInv, NextRInv
<1>3. RInv => NothingLost BY DEF RInv
<1> QED BY <1>1, <1>2, <1>3, PTL DEF Spec

-----------------------------------------------------------------------------
(* Uploads and slots: what the cells of one queue say about them.          *)

\* A request whose profile is in its slot, or on its way there.
Claims(e) == e.res \/ e.st = "LOAD_PENDING"

\* No request ahead of it in the queue uses that slot, unless it has failed.
Parted(Q) ==
  \A k, l \in 0 .. Q.cnt-1 :
    k < l /\ Q.ent[Idx(Q, k)].st # "LOAD_FAILED" /\ Claims(Q.ent[Idx(Q, l)]) =>
      Q.ent[Idx(Q, k)].slot # Q.ent[Idx(Q, l)].slot

SlotDir(Q) ==
  /\ \A i \in Live(Q) : Q.ent[i].st \in {"LOAD_PENDING", "LOAD_FAILED"} => ~Q.ent[i].res
  /\ Parted(Q)

\* An upload spares the slot x the synthesizer runs from, unless it is to retune now.
Spared(Q, x) == \A i \in Loading(Q) : Q.ent[i].imm \/ x # Q.ent[i].slot

\* profile_upload_hits_selected() asks about the slot of the head.
Asks(m, Q, c, x) == c.at = "new" /\ c.m = m => x = Head(Q).slot

SInv == \A m \in Modules : SlotDir(q[m]) /\ Spared(q[m], sel[m]) /\ Asks(m, q[m], call, sel[m])

\* No cell but the head's claims a slot it did not claim before.
Tame(Q, R) ==
  /\ R.rem = Q.rem /\ R.cnt = Q.cnt
  /\ \A i \in Live(Q) :
       /\ R.ent[i].slot = Q.ent[i].slot
       /\ Q.ent[i].st = "LOAD_FAILED" => R.ent[i].st = "LOAD_FAILED"
       /\ i # Q.rem /\ Claims(R.ent[i]) => Claims(Q.ent[i])
       /\ R.ent[i].st \in {"LOAD_PENDING", "LOAD_FAILED"} => ~R.ent[i].res

\* The uploads of R were uploads of Q.
Loads(Q, R) ==
  \A i \in Loading(R) :
    i \in Loading(Q) /\ R.ent[i].slot = Q.ent[i].slot /\ R.ent[i].imm = Q.ent[i].imm

Keeps(Q, R) == SlotDir(R) /\ Loads(Q, R)

LEMMA TameSlots ==
  ASSUME NEW Q \in QueueT, SlotDir(Q), NEW R, Tame(Q, R)
  PROVE  SlotDir(R) /\ Live(R) = Live(Q)
<1>1. R.rem = Q.rem /\ R.cnt = Q.cnt /\ Q.rem \in Indices /\ Q.cnt \in 0 .. QueueMax BY DEF Tame, QueueT
<1>2. Live(R) = Live(Q) /\ \A k : Idx(R, k) = Idx(Q, k) BY <1>1, SameLive
<1>3. \A i \in Live(R) : R.ent[i].st \in {"LOAD_PENDING", "LOAD_FAILED"} => ~R.ent[i].res BY <1>2 DEF Tame
<1>4. ASSUME NEW k \in 0 .. R.cnt-1, NEW l \in 0 .. R.cnt-1, k < l,
             R.ent[Idx(R, k)].st # "LOAD_FAILED", Claims(R.ent[Idx(R, l)])
      PROVE  R.ent[Idx(R, k)].slot # R.ent[Idx(R, l)].slot
  <2>1. k \in 0 .. Q.cnt-1 /\ l \in 0 .. Q.cnt-1 BY <1>1, <1>4
  <2>2. PICK i \in Live(Q) : i = Idx(Q, k) BY <2>1, LiveCells
  <2>3. PICK j \in Live(Q) : j = Idx(Q, l) BY <2>1, LiveCells
  <2>4. j # Q.rem
    <3>1. Idx(Q, 0) = Q.rem BY <1>1, IdxValue, Sizes DEF Indices
    <3>2. 0 \in 0 .. QueueMax-1 /\ l \in 0 .. QueueMax-1 /\ l # 0 BY <1>1, <1>4, <2>1, Sizes
    <3> QED BY <1>1, <2>3, <3>1, <3>2, IdxInjective
  <2>5. Idx(R, k) = i /\ Idx(R, l) = j BY <1>2, <2>2, <2>3
  <2>6. Q.ent[i].st # "LOAD_FAILED" /\ Claims(Q.ent[j]) BY <1>4, <2>4, <2>5 DEF Tame
  <2>7. Q.ent[i].slot # Q.ent[j].slot BY <1>4, <2>1, <2>2, <2>3, <2>6 DEF SlotDir, Parted
  <2> QED BY <2>5, <2>7 DEF Tame
<1>5. Parted(R) BY <1>4 DEF Parted
<1> QED BY <1>2, <1>3, <1>5 DEF SlotDir

LEMMA TameKeeps ==
  ASSUME NEW Q \in QueueT, SlotDir(Q), NEW R, Tame(Q, R),
         \A i \in Live(Q) : R.ent[i].st = "LOAD_PENDING" =>
            Q.ent[i].st = "LOAD_PENDING" /\ R.ent[i].imm = Q.ent[i].imm
  PROVE  Keeps(Q, R)
<1>1. SlotDir(R) /\ Live(R) = Live(Q) BY TameSlots
<1>2. Loads(Q, R) BY <1>1 DEF Loads, Loading, Tame
<1> QED BY <1>1, <1>2 DEF Keeps

LEMMA SameKeeps ==
  ASSUME NEW Q \in QueueT, SlotDir(Q), NEW R, R.ent = Q.ent, R.rem = Q.rem, R.cnt = Q.cnt
  PROVE  Keeps(Q, R)
<1>1. Tame(Q, R) BY DEF Tame, SlotDir
<1> QED BY <1>1, TameKeeps

LEMMA NoneKeeps ==
  ASSUME NEW Q, NEW R \in QueueT, R.cnt = 0
  PROVE  Keeps(Q, R)
<1>1. Live(R) = {} BY LiveCells
<1>2. Parted(R) BY DEF Parted
<1> QED BY <1>1, <1>2 DEF Keeps, SlotDir, Loads, Loading

LEMMA LeftKeeps ==
  ASSUME NEW Q \in QueueT, SlotDir(Q), NEW R, Left(Q, R)
  PROVE  Keeps(Q, R)
<1>1. /\ R \in QueueT /\ Live(R) = Live(Q) \ {Q.rem} /\ R.cnt = Q.cnt - 1 /\ Q.cnt \in 0 .. QueueMax
      /\ \A i \in Indices : i # Q.rem => R.ent[i] = Q.ent[i]
      /\ \A k \in 0 .. Q.cnt-2 : Idx(R, k) = Idx(Q, k+1)
  BY DEF Left, QueueT
<1>2. \A i \in Live(R) : i \in Indices /\ i \in Live(Q) /\ R.ent[i] = Q.ent[i] BY <1>1, LiveCells
<1>3. \A i \in Live(R) : R.ent[i].st \in {"LOAD_PENDING", "LOAD_FAILED"} => ~R.ent[i].res BY <1>2 DEF SlotDir
<1>4. ASSUME NEW k \in 0 .. R.cnt-1, NEW l \in 0 .. R.cnt-1, k < l,
             R.ent[Idx(R, k)].st # "LOAD_FAILED", Claims(R.ent[Idx(R, l)])
      PROVE  R.ent[Idx(R, k)].slot # R.ent[Idx(R, l)].slot
  <2>1. k \in 0 .. Q.cnt-2 /\ l \in 0 .. Q.cnt-2 BY <1>1, <1>4
  <2>2. PICK i \in Live(R) : i = Idx(R, k) /\ i = Idx(Q, k+1) BY <1>1, <2>1, LiveCells
  <2>3. PICK j \in Live(R) : j = Idx(R, l) /\ j = Idx(Q, l+1) BY <1>1, <2>1, LiveCells
  <2>4. k+1 \in 0 .. Q.cnt-1 /\ l+1 \in 0 .. Q.cnt-1 /\ k+1 < l+1 BY <1>1, <1>4, <2>1
  <2>5. Q.ent[i].st # "LOAD_FAILED" /\ Claims(Q.ent[j]) BY <1>2, <1>4, <2>2, <2>3
  <2>6. Q.ent[i].slot # Q.ent[j].slot BY <2>2, <2>3, <2>4, <2>5 DEF SlotDir, Parted
  <2> QED BY <1>2, <2>2, <2>3, <2>6
<1>5. Parted(R) BY <1>4 DEF Parted
<1>6. Loads(Q, R) BY <1>2 DEF Loads, Loading
<1> QED BY <1>3, <1>5, <1>6 DEF Keeps, SlotDir

\* The head's cell changes and its upload, if it had one, is over.
LEMMA EditKeeps ==
  ASSUME NEW s \in ViewT, Ring(s.q), SlotDir(s.q), NEW r, NEW e, Edited(s, r, e),
         Head(s.q).st # "LOAD_FAILED", e.st \notin {"LOAD_PENDING", "LOAD_FAILED"}
  PROVE  Keeps(s.q, r.q)
<1>1. s.q \in QueueT /\ s.q.rem \in Indices /\ Live(s.q) \subseteq Indices BY LiveCells DEF ViewT, QueueT
<1>2. /\ Head(r.q) = e /\ r.q.rem = s.q.rem /\ r.q.cnt = s.q.cnt /\ Kept(s.q, r.q)
      /\ \A i \in Indices : i # s.q.rem => r.q.ent[i] = s.q.ent[i]
  BY EditedRing
<1>3. \A i \in Live(s.q) : i # s.q.rem => r.q.ent[i] = s.q.ent[i] BY <1>1, <1>2
<1>4. r.q.ent[s.q.rem] = e BY <1>2 DEF Head
<1>5. Tame(s.q, r.q) BY <1>2, <1>3, <1>4 DEF Tame, Kept, SlotDir, Head
<1>6. \A i \in Live(s.q) : r.q.ent[i].st = "LOAD_PENDING" =>
            s.q.ent[i].st = "LOAD_PENDING" /\ r.q.ent[i].imm = s.q.ent[i].imm
  BY <1>3, <1>4
<1> QED BY <1>1, <1>5, <1>6, TameKeeps

LEMMA OffKeeps ==
  ASSUME NEW Q \in QueueT, SlotDir(Q), NEW R, Off(Q, R)
  PROVE  Keeps(Q, R)
<1>1. CASE Q.clr BY <1>1, NoneKeeps DEF Off, Emptied
<1>2. CASE ~Q.clr BY <1>2, LeftKeeps DEF Off
<1> QED BY <1>1, <1>2

\* The steps of perform_work() that start no upload.
LEMMA PerformsKeeps ==
  ASSUME NEW m, NEW s \in ViewT, Ring(s.q), SlotDir(s.q), NEW r,
         \/ Performs(s, r) \/ Calibrates(m, s, r) \/ Recalls(m, s, r) \/ Orphans(m, s, r)
         \/ Leaves(s, r)
  PROVE  Keeps(s.q, r.q)
<1>1. s.q \in QueueT BY DEF ViewT
<1>2. CASE r = s \/ Orphans(m, s, r) BY <1>1, <1>2, SameKeeps DEF Orphans
<1>3. CASE Sweeps(s, r) BY <1>1, <1>3, SameKeeps DEF Sweeps
<1>4. CASE Disarms(s, r) \/ JobOver(s, r) BY <1>1, <1>4, OffKeeps DEF Disarms, JobOver
<1>5. CASE Leaves(s, r) BY <1>1, <1>5, LeftKeeps DEF Leaves
<1>6. CASE Arms(s, r) \/ Acknowledges(s, r) \/ Releases(s, r) \/ LoadsGains(s, r)
           \/ Calibrates(m, s, r) \/ Recalls(m, s, r)
  <2>1. PICK x \in EntryStates \ {"INVALID", "LOAD_PENDING", "LOAD_FAILED"} :
            Edited(s, r, St(Head(s.q), x)) /\ Head(s.q).st # "LOAD_FAILED"
    BY <1>6 DEF Arms, Acknowledges, Releases, LoadsGains, Calibrates, Recalls, EntryStates
  <2>2. St(Head(s.q), x).st = x BY <1>1, <2>1, Headed, StCells
  <2> QED BY <2>1, <2>2, EditKeeps
<1>7. CASE GivesUp(s, r) \/ Cancels(s, r) \/ GainsLoaded(s, r)
  <2>1. Head(s.q) \in Entry BY <1>1, Headed
  <2>2. PICK e : Edited(s, r, e) /\ Head(s.q).st # "LOAD_FAILED" /\ e.st \in {"CANCEL_PENDING", "READY"}
    <3>1. CASE GivesUp(s, r)
      <4>1. Told(Head(s.q)) \in Entry BY <2>1, HeadCells
      <4>2. Cancelling(Told(Head(s.q))).st = "CANCEL_PENDING" BY <4>1 DEF Cancelling, Entry
      <4> QED BY <3>1, <4>2 DEF GivesUp
    <3>2. CASE Cancels(s, r)
      <4>1. \A b \in BOOLEAN : [Head(s.q) EXCEPT !.cseen = b, !.cpend = FALSE].st = Head(s.q).st
        BY <2>1 DEF Entry
      <4>2. Requested(Head(s.q), s.t).st = Head(s.q).st BY <2>1, RequestedCells DEF ViewT
      <4> QED BY <3>2, <4>1, <4>2 DEF Cancels
    <3>3. CASE GainsLoaded(s, r)
      <4>1. [Head(s.q) EXCEPT !.gt = FALSE, !.st = "READY"].st = "READY" BY <2>1 DEF Entry
      <4> QED BY <3>3, <4>1 DEF GainsLoaded
    <3> QED BY <1>7, <3>1, <3>2, <3>3
  <2> QED BY <2>2, EditKeeps
<1> QED BY <1>2, <1>3, <1>4, <1>5, <1>6, <1>7 DEF Performs

\* The head's upload starts; x is the slot the synthesizer runs from.
LEMMA UploadsSlots ==
  ASSUME NEW m, NEW s \in ViewT, Ring(s.q), SlotDir(s.q), NEW r, Uploads(m, s, r), OneLoad(r.q), NEW x,
         x # Head(s.q).slot
  PROVE  SlotDir(r.q) /\ Spared(r.q, x)
<1>1. s.q \in QueueT /\ s.q.rem \in Indices /\ Live(s.q) \subseteq Indices BY LiveCells DEF ViewT, QueueT
<1>2. Head(s.q) \in Entry BY <1>1, Headed
<1>3. PICK e : e = St(Head(s.q), "LOAD_PENDING") OBVIOUS
<1>4. Edited(s, r, e) /\ ~Head(s.q).res /\ Head(s.q).st # "LOAD_FAILED" BY <1>3 DEF Uploads
<1>5. e.st = "LOAD_PENDING" /\ e.slot = Head(s.q).slot /\ e.res = Head(s.q).res
  <2>1. "LOAD_PENDING" \in EntryStates BY DEF EntryStates
  <2> QED BY <1>2, <1>3, <2>1, StCells
<1>6. /\ Head(r.q) = e /\ r.q.rem = s.q.rem /\ r.q.cnt = s.q.cnt /\ Kept(s.q, r.q)
      /\ Live(r.q) = Live(s.q) /\ \A i \in Indices : i # s.q.rem => r.q.ent[i] = s.q.ent[i]
  BY <1>4, EditedRing
<1>7. \A i \in Live(s.q) : i # s.q.rem => r.q.ent[i] = s.q.ent[i] BY <1>1, <1>6
<1>8. r.q.ent[s.q.rem] = e BY <1>6 DEF Head
<1>9. Tame(s.q, r.q) BY <1>4, <1>5, <1>6, <1>7, <1>8 DEF Tame, Kept, SlotDir, Head
<1>10. s.q.rem \in Loading(r.q)
  <2>1. s.q.rem \in Live(s.q) BY <1>1, <1>4, LiveCells DEF Edited
  <2> QED BY <1>5, <1>6, <1>8, <2>1 DEF Loading
<1>11. \A i \in Loading(r.q) : r.q.ent[i].slot = Head(s.q).slot BY <1>5, <1>8, <1>10 DEF OneLoad
<1> QED BY <1>1, <1>9, <1>11, TameSlots DEF Spared

-----------------------------------------------------------------------------
(* CLEAR, the RFIC's fault, the interrupt, and the slots.                  *)

\* A cell that lost its upload claims no slot.
LEMMA DroppedClaims ==
  ASSUME NEW e \in Entry, ~e.res
  PROVE  ~Claims(Dropped(e)) /\ Dropped(e).st = "LOAD_FAILED" /\ ~Dropped(e).res /\ Dropped(e).slot = e.slot
<1>1. Dropped(e).st = "LOAD_FAILED" /\ Dropped(e).res = e.res /\ Dropped(e).slot = e.slot BY DroppedCells
<1> QED BY <1>1 DEF Claims

\* What a CLEAR does to the head it leaves in place.
LEMMA ClearedHead ==
  ASSUME NEW s \in ViewT, Ring(s.q), NEW r, HeadCleared(s, r)
  PROVE  /\ Head(r.q).slot = Head(s.q).slot /\ Head(s.q).st \notin {"LOAD_FAILED", "LOAD_PENDING"}
         /\ Head(r.q).st \notin {"LOAD_FAILED", "LOAD_PENDING"}
<1>1. s.q \in QueueT /\ s.t \in TamerT BY DEF ViewT
<1>2. PICK e \in Entry : e = Head(s.q) BY <1>1, Headed
<1>3. PICK c : c = IF s.q.clr \/ e.st = "CANCEL_PENDING" THEN e ELSE Cancelling(e) OBVIOUS
<1>4. PICK h : h = Head(r.q) OBVIOUS
<1>5. /\ Cancelling(e) \in Entry /\ Cancelling(e).slot = e.slot /\ Cancelling(e).st = "CANCEL_PENDING"
  BY <1>2, CellTypes, <1>1 DEF Cancelling, Entry
<1>6. c \in Entry /\ c.slot = e.slot /\ (c.st = e.st \/ c.st = "CANCEL_PENDING") BY <1>2, <1>3, <1>5
<1>7. Requested(c, s.t).slot = c.slot /\ Requested(c, s.t).st = c.st BY <1>1, <1>6, RequestedCells
<1>8. e.st \notin {"LOAD_FAILED", "LOAD_PENDING"} BY <1>2 DEF HeadCleared
<1>9. h = e \/ h = c \/ h = Requested(c, s.t)
  <2>1. s.q.cnt \in 0 .. QueueMax BY <1>1 DEF QueueT
  <2>2. s.q.cnt = 0 \/ s.q.cnt > 0 BY <2>1, Sizes
  <2> QED BY <1>2, <1>3, <1>4, <2>2 DEF HeadCleared
<1> QED BY <1>2, <1>4, <1>6, <1>7, <1>8, <1>9

LEMMA StaysKeeps ==
  ASSUME NEW m, NEW s \in ViewT, Ring(s.q), SlotDir(s.q), NEW r, Stays(s, r, m)
  PROVE  Keeps(s.q, r.q) /\ Head(r.q).slot = Head(s.q).slot
<1>1. s.q \in QueueT /\ Live(s.q) \subseteq Indices BY LiveCells DEF ViewT
<1>2. /\ r.q.rem = s.q.rem /\ r.q.cnt = s.q.cnt /\ HeadCleared(s, r)
      /\ \A i \in Indices : i # s.q.rem =>
            r.q.ent[i] = IF i \in Loading(s.q) THEN Dropped(s.q.ent[i]) ELSE s.q.ent[i]
  BY DEF Stays
<1>3. /\ Head(r.q).slot = Head(s.q).slot /\ Head(s.q).st \notin {"LOAD_FAILED", "LOAD_PENDING"}
      /\ Head(r.q).st \notin {"LOAD_FAILED", "LOAD_PENDING"}
  BY <1>2, ClearedHead
<1>4. ASSUME NEW i \in Live(s.q)
      PROVE  /\ r.q.ent[i].slot = s.q.ent[i].slot
             /\ s.q.ent[i].st = "LOAD_FAILED" => r.q.ent[i].st = "LOAD_FAILED"
             /\ i # s.q.rem /\ Claims(r.q.ent[i]) => Claims(s.q.ent[i])
             /\ r.q.ent[i].st \in {"LOAD_PENDING", "LOAD_FAILED"} => ~r.q.ent[i].res
             /\ r.q.ent[i].st # "LOAD_PENDING"
  <2>1. CASE i = s.q.rem BY <1>2, <1>3, <2>1 DEF Head
  <2>2. CASE i # s.q.rem /\ i \in Loading(s.q)
    <3>1. s.q.ent[i] \in Entry /\ ~s.q.ent[i].res /\ s.q.ent[i].st = "LOAD_PENDING"
      BY <1>1, <1>4, <2>2 DEF QueueT, SlotDir, Loading
    <3>2. r.q.ent[i] = Dropped(s.q.ent[i]) BY <1>1, <1>2, <2>2
    <3> QED BY <2>2, <3>1, <3>2, DroppedClaims
  <2>3. CASE i # s.q.rem /\ i \notin Loading(s.q)
    <3>1. r.q.ent[i] = s.q.ent[i] /\ s.q.ent[i].st # "LOAD_PENDING" BY <1>1, <1>2, <2>3 DEF Loading
    <3> QED BY <2>3, <3>1 DEF SlotDir
  <2> QED BY <2>1, <2>2, <2>3
<1>5. Tame(s.q, r.q) BY <1>2, <1>4 DEF Tame
<1> QED BY <1>1, <1>3, <1>4, <1>5, TameKeeps

\* clear_queue_async()
LEMMA ClearKeeps ==
  ASSUME NEW m \in Modules, NEW D, NEW f, NEW s, DirOk(m, s, D, f), SlotDir(s.q), NEW r, r = ClearQueue(s, m).s
  PROVE  Keeps(s.q, r.q) /\ (r.q.cnt = 0 \/ Head(r.q).slot = Head(s.q).slot)
<1>1. s \in ViewT /\ s.q \in QueueT /\ Ring(s.q) /\ OneLoad(s.q) BY DirTypes
<1>2. WasDone(s, r) \/ Gone(s, r, m) \/ Stays(s, r, m) BY <1>1, ClearQueueEffect
<1>3. CASE WasDone(s, r) BY <1>1, <1>3, SameKeeps DEF WasDone, Head
<1>4. CASE Gone(s, r, m) BY <1>4, NoneKeeps DEF Gone, Emptied
<1>5. CASE Stays(s, r, m) BY <1>1, <1>5, StaysKeeps
<1> QED BY <1>2, <1>3, <1>4, <1>5

\* fail_queue_for_rfic_fault()
LEMMA FailKeeps ==
  ASSUME NEW m \in Modules, NEW D, NEW f, NEW s, DirOk(m, s, D, f), SlotDir(s.q), NEW r, r = FailQueue(s, m),
         s.q.cnt > 0, ~s.q.clr, Head(s.q).st \notin JobStates
  PROVE  Keeps(s.q, r.q)
<1>1. /\ s \in ViewT /\ s.q \in QueueT /\ s.t \in TamerT /\ Ring(s.q) /\ OneLoad(s.q) /\ TailInv(s.q)
      /\ Live(s.q) \subseteq Indices
  BY DirTypes, LiveCells
<1>2. ~s.q.done BY <1>1, Sizes DEF TailInv
<1>3. FailedAll(s, r, m) BY <1>1, <1>2, FailQueueEffect
<1>4. CASE Head(s.q).st \notin Comparing BY <1>3, <1>4, NoneKeeps DEF FailedAll, Emptied
<1>5. CASE Head(s.q).st \in Comparing
  <2>1. PICK e \in Entry : e = Told(Head(s.q)) BY <1>1, Headed, HeadCells
  <2>2. e.slot = Head(s.q).slot /\ e.st = Head(s.q).st BY <1>1, <2>1, Headed, HeadCells
  <2>3. PICK c : c = IF e.st = "CANCEL_PENDING" THEN e ELSE Cancelling(e) OBVIOUS
  <2>4. Cancelling(e) \in Entry /\ Cancelling(e).slot = e.slot /\ Cancelling(e).st = "CANCEL_PENDING"
    BY <1>1, CellTypes DEF Cancelling, Entry
  <2>5. c \in Entry /\ c.slot = e.slot /\ c.st = "CANCEL_PENDING" BY <2>3, <2>4
  <2>6. Requested(c, s.t).slot = c.slot /\ Requested(c, s.t).st = c.st BY <1>1, <2>5, RequestedCells
  <2>7. /\ r.q.rem = s.q.rem /\ r.q.cnt = s.q.cnt
        /\ \A i \in Live(s.q) : i # s.q.rem =>
             r.q.ent[i] = IF i \in Loading(s.q) THEN Dropped(s.q.ent[i]) ELSE Told(s.q.ent[i])
        /\ Head(r.q) = c \/ Head(r.q) = Requested(c, s.t)
    BY <1>3, <1>5, <2>1, <2>3 DEF FailedAll
  <2>8. Head(r.q).slot = Head(s.q).slot /\ Head(r.q).st = "CANCEL_PENDING" BY <2>2, <2>5, <2>6, <2>7
  <2>9. ASSUME NEW i \in Live(s.q)
        PROVE  /\ r.q.ent[i].slot = s.q.ent[i].slot
               /\ s.q.ent[i].st = "LOAD_FAILED" => r.q.ent[i].st = "LOAD_FAILED"
               /\ i # s.q.rem /\ Claims(r.q.ent[i]) => Claims(s.q.ent[i])
               /\ r.q.ent[i].st \in {"LOAD_PENDING", "LOAD_FAILED"} => ~r.q.ent[i].res
               /\ r.q.ent[i].st # "LOAD_PENDING"
    <3>0. s.q.ent[i] \in Entry BY <1>1, <2>9 DEF QueueT
    <3>1. CASE i = s.q.rem
      <4>1. s.q.ent[i].st # "LOAD_FAILED" BY <1>5, <3>1 DEF Head, Comparing
      <4> QED BY <2>7, <2>8, <3>1, <4>1 DEF Head
    <3>2. CASE i # s.q.rem /\ i \in Loading(s.q)
      <4>1. ~s.q.ent[i].res /\ s.q.ent[i].st = "LOAD_PENDING" BY <2>9, <3>2 DEF SlotDir, Loading
      <4>2. r.q.ent[i] = Dropped(s.q.ent[i]) BY <2>7, <2>9, <3>2
      <4> QED BY <3>0, <3>2, <4>1, <4>2, DroppedClaims
    <3>3. CASE i # s.q.rem /\ i \notin Loading(s.q)
      <4>1. r.q.ent[i] = Told(s.q.ent[i]) /\ s.q.ent[i].st # "LOAD_PENDING" BY <2>7, <2>9, <3>3 DEF Loading
      <4>2. /\ r.q.ent[i].slot = s.q.ent[i].slot /\ r.q.ent[i].st = s.q.ent[i].st
            /\ r.q.ent[i].res = s.q.ent[i].res
        BY <3>0, <4>1, HeadCells
      <4> QED BY <3>3, <4>1, <4>2 DEF SlotDir, Claims
    <3> QED BY <3>1, <3>2, <3>3
  <2>10. Tame(s.q, r.q) BY <2>7, <2>9 DEF Tame
  <2> QED BY <1>1, <2>9, <2>10, TameKeeps
<1> QED BY <1>4, <1>5

\* An upload ends, or is given up: its cell becomes e.
LEMMA LoadedKeeps ==
  ASSUME NEW Q \in QueueT, SlotDir(Q), NEW i \in Loading(Q), NEW e \in Entry, e.slot = Q.ent[i].slot,
         e.st # "LOAD_PENDING", e.st = "LOAD_FAILED" => ~e.res, NEW R, R = WithCell(Q, i, e)
  PROVE  Keeps(Q, R)
<1>1. i \in Live(Q) /\ i \in Indices /\ Live(Q) \subseteq Indices /\ Q.ent[i].st = "LOAD_PENDING"
  BY LiveCells DEF Loading
<1>2. R.rem = Q.rem /\ R.cnt = Q.cnt /\ R.ent[i] = e BY <1>1, CellRest, CellAt
<1>3. \A j \in Live(Q) : j # i => R.ent[j] = Q.ent[j] BY <1>1, CellElse
<1>4. Tame(Q, R) BY <1>1, <1>2, <1>3 DEF Tame, Claims, SlotDir
<1> QED BY <1>2, <1>3, <1>4, TameKeeps

\* retune_isr()
LEMMA FireKeeps ==
  ASSUME NEW s \in ViewT, Ring(s.q), SlotDir(s.q)
  PROVE  Keeps(s.q, Isr(s.q))
<1>1. s.q \in QueueT /\ HeadOf(s.q) = Head(s.q) BY Headed DEF ViewT
<1>2. CASE ~s.q.clr /\ Head(s.q).st \in {"SCHEDULE_PENDING", "SCHEDULED"}
  <2>1. s.q.cnt > 0 /\ Head(s.q) \in Entry BY <1>1, <1>2, Headed
  <2>2. PICK r : r = [s EXCEPT !.q.ent[s.q.rem].st = "READY"] OBVIOUS
  <2>3. "READY" \in EntryStates \ {"INVALID"} BY DEF EntryStates
  <2>4. Edited(s, r, St(Head(s.q), "READY")) BY <2>1, <2>2, <2>3, StEffect
  <2>5. r.q = Isr(s.q) BY <1>1, <1>2, <2>2 DEF Isr, ViewT
  <2>6. PICK e : e = St(Head(s.q), "READY") OBVIOUS
  <2>7. e.st = "READY" BY <2>1, <2>3, <2>6, StCells
  <2> QED BY <1>2, <2>4, <2>5, <2>6, <2>7, EditKeeps
<1>3. CASE ~(~s.q.clr /\ Head(s.q).st \in {"SCHEDULE_PENDING", "SCHEDULED"})
  <2>1. Isr(s.q) = s.q BY <1>1, <1>3 DEF Isr
  <2> QED BY <1>1, <2>1, SameKeeps
<1> QED BY <1>2, <1>3

\* A request joins the queue: it claims a slot only if it is alone.
LEMMA AppendSlots ==
  ASSUME NEW Q \in QueueT, Ring(Q), SlotDir(Q), Q.cnt < QueueMax, NEW e \in Entry,
         e.st # "INVALID", e.id # 0, e.slot \in Slots, e.id \notin Ids(Q),
         e.st \in {"LOAD_PENDING", "LOAD_FAILED"} => ~e.res, Q.cnt = 0 \/ ~Claims(e),
         NEW R, R = Append1(Q, e)
  PROVE  /\ SlotDir(R) /\ \A i \in Loading(R) : R.ent[i] = e \/ (i \in Loading(Q) /\ R.ent[i] = Q.ent[i])
         /\ Q.cnt > 0 => Head(R) = Head(Q)
<1>1. PICK p : p = Idx(Q, Q.cnt) OBVIOUS
<1>2. /\ R \in QueueT /\ R.rem = Q.rem /\ R.cnt = Q.cnt + 1 /\ p \in Indices /\ p \notin Live(Q)
      /\ Live(R) = Live(Q) \cup {p} /\ R.ent = [Q.ent EXCEPT ![p] = e]
      /\ Q.cnt = 0 => p = Q.rem
      /\ Q.cnt > 0 => p # Q.rem
  BY <1>1, AppendRing
<1>3. Q.rem \in Indices /\ Q.cnt \in 0 .. QueueMax /\ Q.ent \in [Indices -> Entry] BY DEF QueueT
<1>4. R.ent[p] = e /\ \A i \in Live(Q) : R.ent[i] = Q.ent[i] BY <1>2, <1>3, LiveCells
<1>5. \A i \in Live(R) : R.ent[i].st \in {"LOAD_PENDING", "LOAD_FAILED"} => ~R.ent[i].res
  BY <1>2, <1>4 DEF SlotDir
<1>6. \A k : Idx(R, k) = Idx(Q, k) BY <1>2 DEF Idx
<1>7. ASSUME NEW k \in 0 .. R.cnt-1, NEW l \in 0 .. R.cnt-1, k < l,
             R.ent[Idx(R, k)].st # "LOAD_FAILED", Claims(R.ent[Idx(R, l)])
      PROVE  R.ent[Idx(R, k)].slot # R.ent[Idx(R, l)].slot
  <2>1. k \in 0 .. Q.cnt-1 /\ l \in 0 .. Q.cnt /\ Q.cnt # 0 BY <1>2, <1>3, <1>7
  <2>2. l # Q.cnt
    <3>1. SUFFICES ASSUME l = Q.cnt PROVE FALSE OBVIOUS
    <3>2. Idx(R, l) = p BY <1>1, <1>6, <3>1
    <3> QED BY <1>4, <1>7, <2>1, <3>2
  <2>3. l \in 0 .. Q.cnt-1 BY <1>3, <2>1, <2>2
  <2>4. PICK i \in Live(Q) : i = Idx(Q, k) BY <2>1, LiveCells
  <2>5. PICK j \in Live(Q) : j = Idx(Q, l) BY <2>3, LiveCells
  <2>6. Q.ent[i].st # "LOAD_FAILED" /\ Claims(Q.ent[j]) BY <1>4, <1>6, <1>7, <2>4, <2>5
  <2>7. Q.ent[i].slot # Q.ent[j].slot BY <1>7, <2>1, <2>3, <2>4, <2>5, <2>6 DEF SlotDir, Parted
  <2> QED BY <1>4, <1>6, <2>4, <2>5, <2>7
<1>8. Parted(R) BY <1>7 DEF Parted
<1>9. \A i \in Loading(R) : R.ent[i] = e \/ (i \in Loading(Q) /\ R.ent[i] = Q.ent[i]) BY <1>2, <1>4 DEF Loading
<1>10. Q.cnt > 0 => Head(R) = Head(Q) BY <1>2, <1>3, <1>4, LiveCells DEF Head
<1> QED BY <1>5, <1>8, <1>9, <1>10 DEF SlotDir

\* profile_preload_next() picks the first request whose slot nobody needs.
LEMMA PreloadSlots ==
  ASSUME IInv, NEW m \in Modules, SlotDir(q[m]), NEW k \in 1 .. q[m].cnt-1, NEW i, i = Idx(q[m], k),
         \A l \in Preloadable(m) : k <= l, i \in Live(q[m]), i # q[m].rem, q[m].ent[i].st = "NEW",
         q[m].ent[i].slot \notin SlotsInUse(m), Head(q[m]).st \in {"SCHEDULE_PENDING", "SCHEDULED"},
         NEW T, T = WithCell(q[m], i, St(q[m].ent[i], "LOAD_PENDING")), OneLoad(T)
  PROVE  SlotDir(T) /\ Spared(T, sel[m])
<1>0. PICK R : R = T OBVIOUS
<1>1. PICK Q : Q = q[m] OBVIOUS
<1>2. Q \in QueueT /\ Ring(Q) /\ TailInv(Q) /\ Live(Q) \subseteq Indices
  BY <1>1, ViewTypes, LiveCells DEF IInv, DirInv
<1>3. Q.rem \in Indices /\ Q.cnt \in 0 .. QueueMax /\ i \in Indices /\ Q.ent[i] \in Entry /\ i \in Live(Q)
  BY <1>1, <1>2 DEF QueueT
<1>4. PICK e : e = St(Q.ent[i], "LOAD_PENDING") OBVIOUS
<1>5. e \in Entry /\ e.st = "LOAD_PENDING" /\ e.slot = Q.ent[i].slot /\ e.res = Q.ent[i].res
  <2>1. "LOAD_PENDING" \in EntryStates BY DEF EntryStates
  <2> QED BY <1>3, <1>4, <2>1, StCells
<1>6. R.rem = Q.rem /\ R.cnt = Q.cnt /\ R.ent[i] = e BY <1>0, <1>1, <1>2, <1>3, <1>4, <1>5, CellRest, CellAt
<1>7. \A j \in Live(Q) : j # i => R.ent[j] = Q.ent[j] BY <1>0, <1>1, <1>2, <1>4, CellElse
<1>8. Live(R) = Live(Q) /\ \A l : Idx(R, l) = Idx(Q, l) BY <1>6, SameLive
\* A request that needs its slot, or claims it, has another one.
<1>9. ASSUME NEW j \in Live(Q), CompareOwned(Q.ent[j]) \/ (Q.ent[j].st = "NEW" /\ Q.ent[j].res)
      PROVE  Q.ent[j].slot # e.slot
  BY <1>1, <1>5, <1>9 DEF SlotsInUse
<1>10. ASSUME NEW j \in Live(Q), Claims(Q.ent[j]) PROVE Q.ent[j].slot # e.slot
  <2>1. CASE Q.ent[j].st = "LOAD_PENDING" BY <1>9, <2>1 DEF CompareOwned
  <2>2. CASE Q.ent[j].st # "LOAD_PENDING" /\ j # Q.rem
    <3>1. Q.ent[j].st # "LOAD_FAILED" BY <1>1, <1>10, <2>2 DEF SlotDir, Claims
    <3>2. Q.ent[j].st = "NEW" /\ Q.ent[j].res BY <1>2, <1>10, <2>2, <3>1 DEF TailInv, Claims
    <3> QED BY <1>9, <3>2
  <2>3. CASE j = Q.rem BY <1>1, <1>9, <2>3 DEF Head, CompareOwned
  <2> QED BY <2>1, <2>2, <2>3
<1>11. ~Q.ent[i].res BY <1>3, <1>5, <1>10 DEF Claims
<1>12. ASSUME NEW l \in 0 .. Q.cnt-1, l < k, Q.ent[Idx(Q, l)].st # "LOAD_FAILED"
       PROVE  Q.ent[Idx(Q, l)].slot # e.slot
  <2>1. PICK j \in Live(Q) : j = Idx(Q, l) BY <1>2, LiveCells
  <2>2. CASE j = Q.rem BY <1>1, <1>9, <2>1, <2>2 DEF Head, CompareOwned
  <2>3. CASE j # Q.rem
    <3>1. l # 0
      <4>1. Idx(Q, 0) = Q.rem BY <1>3, IdxValue, Sizes DEF Indices
      <4> QED BY <2>1, <2>3, <4>1
    <3>2. l \in 1 .. q[m].cnt-1 /\ ~(k <= l) BY <1>1, <1>3, <1>12, <3>1
    <3>3. l \notin Preloadable(m) BY <3>2
    <3>4. HeadOf(q[m]) = Head(q[m]) BY <1>1, <1>2, Headed
    <3>5. CASE Q.ent[j].st = "NEW"
      <4>1. q[m].ent[Idx(q[m], l)].slot \in SlotsInUse(m)
        BY <1>1, <2>1, <3>2, <3>3, <3>4, <3>5 DEF Preloadable
      <4> QED BY <1>1, <1>5, <2>1, <4>1
    <3>6. CASE Q.ent[j].st # "NEW"
      <4>1. Q.ent[j].st = "LOAD_PENDING" BY <1>2, <1>12, <2>1, <2>3, <3>6 DEF TailInv
      <4> QED BY <1>10, <2>1, <4>1 DEF Claims
    <3> QED BY <3>5, <3>6
  <2> QED BY <2>2, <2>3
<1>13. \A j \in Live(R) : R.ent[j].st \in {"LOAD_PENDING", "LOAD_FAILED"} => ~R.ent[j].res
  BY <1>1, <1>5, <1>6, <1>7, <1>8, <1>11 DEF SlotDir
<1>14. ASSUME NEW a \in 0 .. R.cnt-1, NEW b \in 0 .. R.cnt-1, a < b,
              R.ent[Idx(R, a)].st # "LOAD_FAILED", Claims(R.ent[Idx(R, b)])
       PROVE  R.ent[Idx(R, a)].slot # R.ent[Idx(R, b)].slot
  <2>1. a \in 0 .. Q.cnt-1 /\ b \in 0 .. Q.cnt-1 BY <1>6, <1>14
  <2>2. PICK x \in Live(Q) : x = Idx(Q, a) BY <1>2, <2>1, LiveCells
  <2>3. PICK y \in Live(Q) : y = Idx(Q, b) BY <1>2, <2>1, LiveCells
  <2>4. Idx(R, a) = x /\ Idx(R, b) = y BY <1>8, <2>2, <2>3
  <2>5. x # y
    <3>1. a \in 0 .. QueueMax-1 /\ b \in 0 .. QueueMax-1 /\ a # b BY <1>3, <1>14, <2>1, Sizes
    <3> QED BY <1>3, <2>2, <2>3, <3>1, IdxInjective
  <2>6. CASE y = i
    <3>1. k \in 0 .. QueueMax-1 /\ b \in 0 .. QueueMax-1 BY <1>1, <1>3, <2>1, Sizes
    <3>2. b = k BY <1>1, <1>3, <2>3, <2>6, <3>1, IdxInjective
    <3>3. Q.ent[x].st # "LOAD_FAILED" /\ R.ent[x] = Q.ent[x] BY <1>7, <1>14, <2>4, <2>5, <2>6
    <3> QED BY <1>6, <1>12, <1>14, <2>1, <2>2, <2>4, <2>6, <3>2, <3>3
  <2>7. CASE x = i
    <3>1. R.ent[y] = Q.ent[y] /\ Claims(Q.ent[y]) BY <1>7, <1>14, <2>4, <2>5, <2>7
    <3> QED BY <1>6, <1>10, <2>4, <2>7, <3>1
  <2>8. CASE x # i /\ y # i
    <3>1. R.ent[x] = Q.ent[x] /\ R.ent[y] = Q.ent[y] BY <1>7, <2>8
    <3>2. Q.ent[Idx(Q, a)].st # "LOAD_FAILED" /\ Claims(Q.ent[Idx(Q, b)]) BY <1>14, <2>2, <2>3, <2>4, <3>1
    <3>3. Q.ent[Idx(Q, a)].slot # Q.ent[Idx(Q, b)].slot BY <1>1, <1>14, <2>1, <3>2 DEF SlotDir, Parted
    <3> QED BY <2>2, <2>3, <2>4, <3>1, <3>3
  <2> QED BY <2>6, <2>7, <2>8
<1>15. Parted(R) BY <1>14 DEF Parted
<1>16. Spared(R, sel[m])
  <2>1. i \in Loading(R) BY <1>3, <1>5, <1>6, <1>8 DEF Loading
  <2>2. \A j \in Loading(R) : R.ent[j].slot = e.slot BY <1>0, <1>6, <2>1 DEF OneLoad
  <2>3. e.slot # sel[m]
    <3>1. e.slot \in Slots /\ e.slot # None BY <1>2, <1>3, <1>5, Sizes DEF Ring
    <3>2. e.slot \notin {sel[m]} \ {None} BY <1>1, <1>5 DEF SlotsInUse
    <3> QED BY <3>1, <3>2
  <2> QED BY <2>2, <2>3 DEF Spared
<1> QED BY <1>0, <1>13, <1>15, <1>16 DEF SlotDir

-----------------------------------------------------------------------------
(* The steps of Next and the slots.                                        *)

LEMMA SlotView ==
  ASSUME IInv, SInv, NEW m \in Modules
  PROVE  /\ View(m) \in ViewT /\ View(m).q = q[m] /\ Ring(q[m]) /\ q[m] \in QueueT
         /\ q \in [Modules -> QueueT] /\ DirOk(m, View(m), due, fault) /\ SlotDir(q[m])
         /\ Spared(q[m], sel[m]) /\ Asks(m, q[m], call, sel[m])
BY ViewTypes, IInvDir DEF IInv, Types, SInv

\* One queue changes, and perhaps the slot its synthesizer runs from.
LEMMA QueueSInv ==
  ASSUME IInv, SInv, NEW m \in Modules, NEW R, q' = [q EXCEPT ![m] = R], SlotDir(R), Spared(R, sel'[m]),
         \A n \in Modules : n # m => sel'[n] = sel[n],
         \A n \in Modules : Asks(n, q'[n], call', sel'[n])
  PROVE  SInv'
<1>1. q \in [Modules -> QueueT] BY DEF IInv, Types
<1>2. q'[m] = R /\ \A n \in Modules : n # m => q'[n] = q[n] BY <1>1
<1>3. ASSUME NEW n \in Modules PROVE SlotDir(q'[n]) /\ Spared(q'[n], sel'[n])
  <2>1. CASE n = m BY <1>2, <2>1
  <2>2. CASE n # m
    <3>1. q'[n] = q[n] /\ sel'[n] = sel[n] BY <1>2, <2>2
    <3>2. SlotDir(q[n]) /\ Spared(q[n], sel[n]) BY DEF SInv
    <3> QED BY <3>1, <3>2
  <2> QED BY <2>1, <2>2
<1> QED BY <1>3 DEF SInv

\* One queue changes and starts no upload.
LEMMA KeepsSInv ==
  ASSUME IInv, SInv, NEW m \in Modules, NEW R, q' = [q EXCEPT ![m] = R], Keeps(q[m], R), UNCHANGED sel,
         \A n \in Modules : Asks(n, q'[n], call', sel[n])
  PROVE  SInv'
<1>1. SlotDir(R) /\ Loads(q[m], R) BY DEF Keeps
<1>2. Spared(q[m], sel[m]) BY DEF SInv
<1>3. Spared(R, sel[m]) BY <1>1, <1>2 DEF Spared, Loads
<1> QED BY <1>1, <1>3, QueueSInv

LEMMA NoCallAsks ==
  ASSUME NEW m, NEW Q, NEW x
  PROVE  Asks(m, Q, NoCall, x)
BY DEF Asks, NoCall, None

\* The main loop leaves direction m as r, outside a call, and starts no upload.
LEMMA PutSInv ==
  ASSUME IInv, SInv, NEW m \in Modules, NEW r, Put(m, r), Keeps(q[m], r.q), UNCHANGED sel, call' = NoCall
  PROVE  SInv'
<1>1. q' = [q EXCEPT ![m] = r.q] BY DEF Put
<1>2. \A n \in Modules : Asks(n, q'[n], call', sel[n]) BY NoCallAsks
<1> QED BY <1>1, <1>2, KeepsSInv

LEMMA StillSInv ==
  ASSUME SInv, UNCHANGED <<q, sel>>, \A n \in Modules : Asks(n, q[n], call', sel[n])
  PROVE  SInv'
BY DEF SInv

\* An upload is one of its own direction, and there is one.
LEMMA OneLoadNext ==
  ASSUME IInv', NEW m \in Modules
  PROVE  OneLoad(q'[m])
BY DEF IInv, DirInv, LoadInv

LEMMA PerformWorkSInv ==
  ASSUME IInv, IInv', SInv, NEW m \in Modules, NEW ret, Working(m, ret), PerformWork(m, ret)
  PROVE  SInv'
<1>1. /\ View(m) \in ViewT /\ View(m).q = q[m] /\ Ring(q[m]) /\ q[m] \in QueueT /\ SlotDir(q[m])
      /\ q \in [Modules -> QueueT] /\ DirOk(m, View(m), due, fault)
  BY SlotView
<1>2. call = NoCall BY DEF Working
<1>3. ASSUME InCall("new", m, ret), UNCHANGED sel, MustAsk(m, Head(q[m])) PROVE SInv'
  <2>1. UNCHANGED q /\ call'.m = m BY <1>3 DEF InCall
  <2>2. \A n \in Modules : Asks(n, q[n], call', sel[n]) BY <1>3, <2>1 DEF Asks, MustAsk
  <2> QED BY <1>3, <2>1, <2>2, StillSInv
<1>4. ASSUME InCall("ready", m, ret), Head(q[m]).st = "READY", sel' = [sel EXCEPT ![m] = Head(q[m]).slot]
      PROVE  SInv'
  <2>1. UNCHANGED q /\ call'.at = "ready" BY <1>4 DEF InCall
  <2>2. sel \in [Modules -> Slots \cup {None}] BY DEF IInv, Types
  <2>3. sel'[m] = Head(q[m]).slot /\ \A n \in Modules : n # m => sel'[n] = sel[n] BY <1>4, <2>2
  <2>4. Spared(q[m], Head(q[m]).slot)
    <3>1. q[m].cnt > 0 /\ q[m].rem \in Indices /\ q[m].cnt \in 0 .. QueueMax BY <1>1, <1>4, Headed DEF QueueT
    <3>2. ASSUME NEW i \in Loading(q[m]) PROVE Head(q[m]).slot # q[m].ent[i].slot
      <4>1. PICK l \in 0 .. q[m].cnt-1 : i = Idx(q[m], l) BY DEF Loading, Live
      <4>2. Idx(q[m], 0) = q[m].rem BY <3>1, IdxValue, Sizes DEF Indices
      <4>3. q[m].ent[i].st = "LOAD_PENDING" /\ i # q[m].rem BY <1>4 DEF Loading, Head
      <4>4. 0 \in 0 .. q[m].cnt-1 /\ 0 < l BY <3>1, <4>1, <4>2, <4>3
      <4>5. Claims(q[m].ent[Idx(q[m], l)]) BY <4>1, <4>3 DEF Claims
      <4>6. q[m].ent[Idx(q[m], 0)].st # "LOAD_FAILED" BY <1>4, <4>2 DEF Head
      <4>7. q[m].ent[Idx(q[m], 0)].slot # q[m].ent[Idx(q[m], l)].slot
        BY <1>1, <4>4, <4>5, <4>6 DEF SlotDir, Parted
      <4> QED BY <4>1, <4>2, <4>7 DEF Head
    <3> QED BY <3>2 DEF Spared
  <2>5. q' = [q EXCEPT ![m] = q[m]] BY <1>1, <2>1
  <2>6. \A n \in Modules : Asks(n, q'[n], call', sel'[n]) BY <2>1 DEF Asks
  <2> QED BY <1>1, <2>3, <2>4, <2>5, <2>6, QueueSInv
<1>5. ASSUME NEW r, Step(m, ret, r), UNCHANGED <<sel, call>>, Performs(View(m), r) \/ Calibrates(m, View(m), r)
      PROVE  SInv'
  <2>1. Put(m, r) BY <1>5 DEF Step
  <2>2. Keeps(q[m], r.q) BY <1>1, <1>5, PerformsKeeps
  <2> QED BY <1>2, <1>5, <2>1, <2>2, PutSInv
<1>6. ASSUME NEW r, Step(m, ret, r), UNCHANGED <<sel, call>>, Uploads(m, View(m), r), ~MustAsk(m, Head(q[m]))
      PROVE  SInv'
  <2>1. q' = [q EXCEPT ![m] = r.q] BY <1>6 DEF Step, Put
  <2>2. OneLoad(r.q)
    <3>1. q'[m] = r.q BY <1>1, <2>1
    <3> QED BY <3>1, OneLoadNext
  <2>3. sel[m] # Head(q[m]).slot BY <1>1, <1>6 DEF MustAsk, Uploads
  <2>4. SlotDir(r.q) /\ Spared(r.q, sel[m]) BY <1>1, <1>6, <2>2, <2>3, UploadsSlots
  <2>5. \A n \in Modules : Asks(n, q'[n], call', sel'[n]) BY <1>2, <1>6, NoCallAsks
  <2> QED BY <1>6, <2>1, <2>4, <2>5, QueueSInv
<1> QED BY <1>3, <1>4, <1>5, <1>6, PerformWorkEffect

LEMMA AnsweredSInv ==
  ASSUME IInv, IInv', SInv, NewAnswered \/ ReadyAnswered
  PROVE  SInv'
<1>1. CASE ReadyAnswered
  <2>1. PICK m \in Modules : m = call.m BY <1>1, ReadyAnsweredEffect
  <2>2. PICK r : /\ Step(m, call.ret, r)
                 /\ \/ r = View(m) \/ Leaves(View(m), r) \/ Orphans(m, View(m), r) \/ Recalls(m, View(m), r)
    BY <1>1, <2>1, ReadyAnsweredEffect
  <2>3. call' = NoCall /\ UNCHANGED sel BY <1>1, ReadyAnsweredEffect
  <2>4. Put(m, r) BY <2>2 DEF Step
  <2>5. Keeps(q[m], r.q) BY <2>2, SlotView, PerformsKeeps DEF Performs
  <2> QED BY <2>3, <2>4, <2>5, PutSInv
<1>2. CASE NewAnswered
  <2>1. PICK m \in Modules : m = call.m BY <1>2, NewAnsweredEffect
  <2>2. PICK r : /\ Step(m, call.ret, r)
                 /\ \/ Leaves(View(m), r)
                    \/ Uploads(m, View(m), r) /\ sel'[m] # sel[m]
    BY <1>2, <2>1, NewAnsweredEffect
  <2>3. call' = NoCall /\ \A n \in Modules : n # m => sel'[n] = sel[n] BY <1>2, <2>1, NewAnsweredEffect
  <2>4. q' = [q EXCEPT ![m] = r.q] BY <2>2 DEF Step, Put
  <2>5. \A n \in Modules : Asks(n, q'[n], call', sel'[n]) BY <2>3, NoCallAsks
  <2>6. /\ View(m) \in ViewT /\ View(m).q = q[m] /\ Ring(q[m]) /\ q[m] \in QueueT /\ SlotDir(q[m])
        /\ q \in [Modules -> QueueT] /\ Asks(m, q[m], call, sel[m])
    BY SlotView
  <2>7. call.at = "new" BY <1>2 DEF NewAnswered
  <2>8. CASE Leaves(View(m), r)
    <3>1. SlotDir(r.q) /\ Loads(q[m], r.q) BY <2>6, <2>8, PerformsKeeps DEF Keeps
    <3>2. job.load = None BY <2>7 DEF IInv, PassInv
    <3>3. Loading(q[m]) = {} BY <3>2, Sizes DEF IInv, DirInv, LoadInv
    <3>4. Spared(r.q, sel'[m]) BY <3>1, <3>3 DEF Spared, Loads
    <3> QED BY <2>3, <2>4, <2>5, <3>1, <3>4, QueueSInv
  <2>9. CASE Uploads(m, View(m), r) /\ sel'[m] # sel[m]
    <3>1. sel[m] = Head(q[m]).slot BY <2>1, <2>6, <2>7 DEF Asks
    <3>2. OneLoad(r.q)
      <4>1. q'[m] = r.q BY <2>4, <2>6
      <4> QED BY <4>1, OneLoadNext
    <3>3. SlotDir(r.q) /\ Spared(r.q, sel'[m]) BY <2>6, <2>9, <3>1, <3>2, UploadsSlots
    <3> QED BY <2>3, <2>4, <2>5, <3>3, QueueSInv
  <2> QED BY <2>2, <2>8, <2>9
<1> QED BY <1>1, <1>2

LEMMA DeferredClearSInv ==
  ASSUME IInv, SInv, NEW m \in Modules, DeferredClear(m)
  PROVE  SInv'
<1>1. q[m] \in QueueT /\ SlotDir(q[m]) BY SlotView
<1>2. call' = NoCall /\ UNCHANGED sel BY DEF DeferredClear
<1>3. PICK s : s = [View(m) EXCEPT !.q.defer = FALSE] OBVIOUS
<1>4. /\ DirOk(m, s, due, fault) /\ s.q.ent = q[m].ent /\ s.q.rem = q[m].rem /\ s.q.cnt = q[m].cnt
  BY <1>3, Undeferred
<1>5. SlotDir(s.q) /\ Live(s.q) = Live(q[m]) BY <1>1, <1>4, SameKeeps, SameLive DEF Keeps
<1>6. PICK r : r = ClearQueue(s, m).s OBVIOUS
<1>7. SlotDir(r.q) /\ Loads(s.q, r.q) BY <1>4, <1>5, <1>6, ClearKeeps DEF Keeps
<1>8. Keeps(q[m], r.q) BY <1>4, <1>5, <1>7 DEF Keeps, Loads, Loading
<1>9. Put(m, r) BY <1>3, <1>6 DEF DeferredClear
<1> QED BY <1>2, <1>8, <1>9, PutSInv

LEMMA FaultedQueueSInv ==
  ASSUME IInv, SInv, NEW m \in Modules, FaultedQueue(m)
  PROVE  SInv'
<1>1. View(m).q = q[m] /\ SlotDir(q[m]) /\ DirOk(m, View(m), due, fault) BY SlotView
<1>2. call' = NoCall /\ UNCHANGED sel BY DEF FaultedQueue
<1>3. fault /\ q[m].cnt > 0 /\ ~q[m].clr BY DEF FaultedQueue, FaultPending
<1>4. Head(q[m]).st \notin JobStates BY <1>1, <1>3 DEF DirOk, HeadJob
<1>5. PICK r : r = FailQueue(View(m), m) OBVIOUS
<1>6. Keeps(q[m], r.q) BY <1>1, <1>3, <1>4, <1>5, FailKeeps
<1>7. Put(m, r) BY <1>5 DEF FaultedQueue
<1> QED BY <1>2, <1>6, <1>7, PutSInv

LEMMA LoadOwnerSInv ==
  ASSUME IInv, SInv, NEW m \in Modules, LoadOwner(m)
  PROVE  SInv'
<1>1. /\ View(m) \in ViewT /\ View(m).q = q[m] /\ q[m] \in QueueT /\ SlotDir(q[m])
      /\ DirOk(m, View(m), due, fault)
  BY SlotView
<1>2. Settled /\ UNCHANGED <<sel, call>> BY LoadOwnerEffect
<1>3. call' = NoCall /\ UNCHANGED sel BY <1>2 DEF Settled
<1>4. PICK r : /\ Put(m, r)
               /\ \/ r = View(m)
                  \/ r = [View(m) EXCEPT !.job.load = None]
                  \/ r = ClearQueue(View(m), m).s
                  \/ \E i \in Loading(q[m]), e \in Entry :
                       /\ r.q = WithCell(q[m], i, e) /\ e.slot = q[m].ent[i].slot
                       /\ e = Dropped(q[m].ent[i]) \/ e.st = "NEW" \/ e.st = "READY"
  BY LoadOwnerEffect
<1>5. CASE r = View(m) \/ r = [View(m) EXCEPT !.job.load = None]
  <2>1. r.q = q[m] BY <1>1, <1>5 DEF ViewT
  <2>2. Keeps(q[m], r.q) BY <1>1, <2>1, SameKeeps
  <2> QED BY <1>3, <1>4, <2>2, PutSInv
<1>6. CASE r = ClearQueue(View(m), m).s
  <2>1. Keeps(q[m], r.q) BY <1>1, <1>6, ClearKeeps
  <2> QED BY <1>3, <1>4, <2>1, PutSInv
<1>7. ASSUME NEW i \in Loading(q[m]), NEW e \in Entry, r.q = WithCell(q[m], i, e), e.slot = q[m].ent[i].slot,
             e = Dropped(q[m].ent[i]) \/ e.st = "NEW" \/ e.st = "READY"
      PROVE  SInv'
  <2>1. q[m].ent[i] \in Entry /\ ~q[m].ent[i].res BY <1>1, LiveCells DEF Loading, SlotDir, QueueT
  <2>2. e.st # "LOAD_PENDING" /\ (e.st = "LOAD_FAILED" => ~e.res) BY <1>7, <2>1, DroppedClaims
  <2>3. Keeps(q[m], r.q) BY <1>1, <1>7, <2>2, LoadedKeeps
  <2> QED BY <1>3, <1>4, <2>3, PutSInv
<1> QED BY <1>4, <1>5, <1>6, <1>7

LEMMA PreloadSInv ==
  ASSUME IInv, IInv', SInv, Preload
  PROVE  SInv'
<1>1. call' = NoCall /\ UNCHANGED <<sel, tamer, out>> BY DEF Preload
<1>2. CASE UNCHANGED q
  <2>1. \A n \in Modules : Asks(n, q[n], call', sel[n]) BY <1>1, NoCallAsks
  <2> QED BY <1>1, <1>2, <2>1, StillSInv
<1>3. CASE \E m \in Modules : Preloadable(m) # {} /\ PreloadNext(m)
  <2>1. PICK m \in Modules : Preloadable(m) # {} /\ PreloadNext(m) BY <1>3
  <2>2. PICK i \in Live(q[m]) :
           /\ i # q[m].rem /\ q[m].ent[i].st = "NEW" /\ q[m].ent[i].slot \notin SlotsInUse(m)
           /\ Head(q[m]).st \in {"SCHEDULE_PENDING", "SCHEDULED"}
           /\ \E k \in 1 .. q[m].cnt-1 : i = Idx(q[m], k) /\ \A l \in Preloadable(m) : k <= l
           /\ \E r \in ViewT : /\ r.q = WithCell(q[m], i, St(q[m].ent[i], "LOAD_PENDING"))
                               /\ Put(m, r)
    BY <1>1, <2>1, PreloadEffect
  <2>3. PICK k \in 1 .. q[m].cnt-1 : i = Idx(q[m], k) /\ \A l \in Preloadable(m) : k <= l BY <2>2
  <2>4. PICK R : R = WithCell(q[m], i, St(q[m].ent[i], "LOAD_PENDING")) OBVIOUS
  <2>5. q' = [q EXCEPT ![m] = R] BY <2>2, <2>4 DEF Put
  <2>6. SlotDir(q[m]) /\ q \in [Modules -> QueueT] BY SlotView
  <2>7. OneLoad(R)
    <3>1. q'[m] = R BY <2>5, <2>6
    <3> QED BY <3>1, OneLoadNext
  <2>8. SlotDir(R) /\ Spared(R, sel[m]) BY <2>2, <2>3, <2>4, <2>6, <2>7, PreloadSlots
  <2>9. \A n \in Modules : Asks(n, q'[n], call', sel'[n]) BY <1>1, NoCallAsks
  <2> QED BY <1>1, <2>5, <2>8, <2>9, QueueSInv
<1> QED BY <1>2, <1>3 DEF Preload

LEMMA WorkerSInv ==
  ASSUME IInv, IInv', SInv, Worker
  PROVE  SInv'
<1>1. ASSUME NEW m \in Modules, OrphanRecall(m) PROVE SInv'
  <2>1. UNCHANGED <<q, sel, call>> BY <1>1 DEF OrphanRecall
  <2> QED BY <2>1, StillSInv DEF SInv
<1> QED BY <1>1, DeferredClearSInv, FaultedQueueSInv, LoadOwnerSInv, PerformWorkSInv, AnsweredSInv,
           PreloadSInv DEF Worker

\* A packet is handled: the call it interrupts asks what it asked.
LEMMA HandledAsks ==
  ASSUME IInv, Handling, NEW m \in Modules, NEW Q, NEW x, Asks(m, Q, call, x)
  PROVE  Asks(m, Q, call', x)
<1>1. call'.m = call.m /\ call'.at = call.at BY HandlingFacts
<1> QED BY <1>1 DEF Asks

\* The head such a call is about stays the head.
LEMMA HeadAsks ==
  ASSUME IInv, SInv, Handling, NEW m \in Modules, NEW R, q' = [q EXCEPT ![m] = R],
         call.at = "new" /\ call.m = m => Head(R).slot = Head(q[m]).slot
  PROVE  \A n \in Modules : Asks(n, q'[n], call', sel[n])
<1>1. q \in [Modules -> QueueT] BY DEF IInv, Types
<1>2. q'[m] = R /\ \A n \in Modules : n # m => q'[n] = q[n] BY <1>1
<1>3. ASSUME NEW n \in Modules PROVE Asks(n, q'[n], call, sel[n])
  <2>1. Asks(n, q[n], call, sel[n]) BY DEF SInv
  <2> QED BY <1>2, <2>1 DEF Asks
<1> QED BY <1>3, HandledAsks

LEMMA ClearPacketSInv ==
  ASSUME IInv, IInv', SInv, NEW m \in Modules, ClearPacket(m)
  PROVE  SInv'
<1>1. /\ View(m).q = q[m] /\ q[m] \in QueueT /\ q \in [Modules -> QueueT] /\ SlotDir(q[m])
      /\ DirOk(m, View(m), due, fault)
  BY SlotView
<1>2. Handling /\ UNCHANGED sel BY DEF ClearPacket
<1>3. CASE Owned(job)
  <2>1. PICK R : R = [q[m] EXCEPT !.defer = TRUE] OBVIOUS
  <2>2. R.ent = q[m].ent /\ R.rem = q[m].rem /\ R.cnt = q[m].cnt BY <1>1, <2>1 DEF QueueT
  <2>3. q' = [q EXCEPT ![m] = R] BY <1>3, <2>1 DEF ClearPacket
  <2>4. Keeps(q[m], R) BY <1>1, <2>2, SameKeeps
  <2>5. Head(R).slot = Head(q[m]).slot BY <2>2 DEF Head
  <2>6. \A n \in Modules : Asks(n, q'[n], call', sel[n]) BY <1>2, <2>3, <2>5, HeadAsks
  <2> QED BY <1>2, <2>3, <2>4, <2>6, KeepsSInv
<1>4. CASE ~Owned(job)
  <2>1. PICK r : r = ClearQueue(View(m), m).s OBVIOUS
  <2>2. q' = [q EXCEPT ![m] = r.q] BY <1>4, <2>1 DEF ClearPacket, Put
  <2>3. Keeps(q[m], r.q) /\ (r.q.cnt = 0 \/ Head(r.q).slot = Head(q[m]).slot) BY <1>1, <2>1, ClearKeeps
  <2>4. call.at = "new" /\ call.m = m => Head(r.q).slot = Head(q[m]).slot
    <3>1. SUFFICES ASSUME call.at = "new", call.m = m PROVE r.q.cnt # 0 BY <2>3
    <3>2. call'.at = "new" /\ call'.m = m BY <1>2, <3>1, HandlingFacts
    <3>3. CallInv(m, q'[m], tamer'[m], due', call') BY DEF IInv, DirInv
    <3>4. q'[m].cnt > 0 BY <3>2, <3>3 DEF CallInv
    <3>5. q'[m] = r.q BY <1>1, <2>2
    <3> QED BY <3>4, <3>5
  <2>5. \A n \in Modules : Asks(n, q'[n], call', sel[n]) BY <1>2, <2>2, <2>4, HeadAsks
  <2> QED BY <1>2, <2>2, <2>3, <2>5, KeepsSInv
<1> QED BY <1>3, <1>4

\* A request joins queue m.
LEMMA JoinSInv ==
  ASSUME IInv, SInv, Handling, NEW m \in Modules, NEW e \in Entry, e.id = used.req + 1, used.req < MaxRequests,
         e.slot \in Slots, e.st \in {"NEW", "READY", "LOAD_PENDING"}, e.st = "LOAD_PENDING" => ~e.res /\ e.imm,
         q[m].cnt = 0 \/ ~Claims(e), q[m].cnt < QueueMax,
         q' = [q EXCEPT ![m] = Append1(q[m], e)], UNCHANGED sel
  PROVE  SInv'
<1>1. q[m] \in QueueT /\ Ring(q[m]) /\ SlotDir(q[m]) /\ Spared(q[m], sel[m]) BY SlotView
<1>2. used.req \in Nat /\ IdsUsed(q[m], used.req) BY Sizes DEF IInv, Types, UsedT
<1>3. e.id # 0 /\ e.id \notin Ids(q[m]) BY <1>2 DEF IdsUsed
<1>4. PICK R : R = Append1(q[m], e) OBVIOUS
<1>5. /\ SlotDir(R) /\ \A i \in Loading(R) : R.ent[i] = e \/ (i \in Loading(q[m]) /\ R.ent[i] = q[m].ent[i])
      /\ q[m].cnt > 0 => Head(R) = Head(q[m])
  <2>1. e.st # "INVALID" /\ (e.st \in {"LOAD_PENDING", "LOAD_FAILED"} => ~e.res) OBVIOUS
  <2> QED BY <1>1, <1>3, <1>4, <2>1, AppendSlots
<1>6. Spared(R, sel[m])
  <2>1. \A i \in Loading(R) : R.ent[i].st = "LOAD_PENDING" BY DEF Loading
  <2> QED BY <1>1, <1>5, <2>1 DEF Spared
<1>7. call.at = "new" /\ call.m = m => Head(R).slot = Head(q[m]).slot
  <2>1. CallInv(m, q[m], tamer[m], due, call) BY DEF IInv, DirInv
  <2> QED BY <1>5, <2>1 DEF CallInv
<1>8. q' = [q EXCEPT ![m] = R] BY <1>4
<1>9. \A n \in Modules : Asks(n, q'[n], call', sel'[n]) BY <1>7, <1>8, HeadAsks
<1> QED BY <1>5, <1>6, <1>8, <1>9, QueueSInv

LEMMA ScheduleSInv ==
  ASSUME IInv, SInv, NEW m \in Modules, NEW slot \in Slots, NEW gt \in BOOLEAN, Schedule(m, slot, gt)
  PROVE  SInv'
<1>1. used.req < MaxRequests /\ Handling /\ q[m].cnt < QueueMax /\ UNCHANGED sel BY DEF Schedule
<1>2. used.req + 1 \in Requests BY <1>1, NewRequest
<1>3. PICK e : e = Fresh(used.req + 1, slot, gt /\ m = "RX") OBVIOUS
<1>4. IsFresh(e, used.req + 1, slot) BY <1>2, <1>3, FreshCell
<1>5. q \in [Modules -> QueueT] BY DEF IInv, Types
<1>6. q' = [q EXCEPT ![m] = Append1(q[m], e)] BY <1>3, <1>5 DEF Schedule
<1>7. /\ e \in Entry /\ e.id = used.req + 1 /\ e.slot \in Slots /\ e.st = "NEW" /\ e.res = FALSE
  BY <1>4 DEF IsFresh
<1>8. ~Claims(e) BY <1>7 DEF Claims
<1> QED BY <1>1, <1>6, <1>7, <1>8, JoinSInv

LEMMA ScheduleRefusedSInv ==
  ASSUME IInv, SInv, NEW m \in Modules, ScheduleRefused(m)
  PROVE  SInv'
<1>1. q[m] \in QueueT /\ SlotDir(q[m]) BY SlotView
<1>2. Handling /\ UNCHANGED sel BY DEF ScheduleRefused
<1>3. PICK R : R = [q[m] EXCEPT !.done = FALSE] OBVIOUS
<1>4. R.ent = q[m].ent /\ R.rem = q[m].rem /\ R.cnt = q[m].cnt BY <1>1, <1>3 DEF QueueT
<1>5. q' = [q EXCEPT ![m] = R] BY <1>3 DEF ScheduleRefused
<1>6. Keeps(q[m], R) /\ Head(R).slot = Head(q[m]).slot BY <1>1, <1>4, SameKeeps DEF Head
<1>7. \A n \in Modules : Asks(n, q'[n], call', sel[n]) BY <1>2, <1>5, <1>6, HeadAsks
<1> QED BY <1>2, <1>5, <1>6, <1>7, KeepsSInv

LEMMA NowSInv ==
  ASSUME IInv, SInv, NEW m \in Modules, NEW slot \in Slots, NEW gt \in BOOLEAN, NEW res \in BOOLEAN,
         Now(m, slot, gt, res)
  PROVE  SInv'
<1>1. PICK e : e = [Fresh(used.req + 1, slot, gt /\ m = "RX") EXCEPT !.imm = TRUE, !.res = res,
                        !.st = IF res THEN "READY" ELSE "LOAD_PENDING"]
  OBVIOUS
<1>2. /\ used.req < MaxRequests /\ q[m].cnt = 0 /\ q' = [q EXCEPT ![m] = Append1(q[m], e)]
      /\ turn = "idle" /\ call = NoCall /\ UNCHANGED <<call, sel>>
  BY <1>1 DEF Now
<1>3. used.req + 1 \in Requests BY <1>2, NewRequest
<1>4. /\ e \in Entry /\ e.id = used.req + 1 /\ e.slot \in Slots
      /\ e.st \in {"NEW", "READY", "LOAD_PENDING"} /\ (e.st = "LOAD_PENDING" => ~e.res /\ e.imm)
  <2>1. PICK d : d = Fresh(used.req + 1, slot, gt /\ m = "RX") OBVIOUS
  <2>2. IsFresh(d, used.req + 1, slot) BY <1>3, <2>1, FreshCell
  <2>3. d \in Entry /\ d.id = used.req + 1 /\ d.slot = slot BY <2>2 DEF IsFresh
  <2>4. "READY" \in EntryStates /\ "LOAD_PENDING" \in EntryStates BY DEF EntryStates
  <2>5. CASE res = TRUE
    <3>1. e = [d EXCEPT !.imm = TRUE, !.res = TRUE, !.st = "READY"] BY <1>1, <2>1, <2>5
    <3> QED BY <2>3, <2>4, <3>1 DEF Entry
  <2>6. CASE res = FALSE
    <3>1. e = [d EXCEPT !.imm = TRUE, !.res = FALSE, !.st = "LOAD_PENDING"] BY <1>1, <2>1, <2>6
    <3> QED BY <2>3, <2>4, <3>1 DEF Entry
  <2> QED BY <2>5, <2>6
<1>5. q[m].cnt < QueueMax /\ Handling BY <1>2, Sizes DEF Handling
<1> QED BY <1>2, <1>4, <1>5, JoinSInv

LEMMA HostSInv ==
  ASSUME IInv, IInv', SInv, Host
  PROVE  SInv'
<1>1. Directions \subseteq Modules BY Sizes
<1>2. ASSUME NEW m \in Modules, Clear(m) PROVE SInv' BY <1>2, ClearPacketSInv DEF Clear
<1>3. ASSUME ClearAgain PROVE SInv'
  <2>1. host.m \in Modules /\ ClearPacket(host.m) BY <1>3 DEF IInv, Types, ClearAgain
  <2> QED BY <2>1, ClearPacketSInv
<1>4. ASSUME HostReturns PROVE SInv'
  <2>1. UNCHANGED <<q, sel, call>> BY <1>4 DEF HostReturns
  <2> QED BY <2>1, StillSInv DEF SInv
<1> QED BY <1>1, <1>2, <1>3, <1>4, ScheduleSInv, ScheduleRefusedSInv, NowSInv DEF Host

\* Neither the tamers' clocks and watchdogs nor the RFIC's faults touch a queue.
LEMMA QuietSInv ==
  ASSUME SInv, NEW m \in Modules,
         \/ CompareLoaded(m) \/ ScheduleTimeout(m) \/ CancelDone(m) \/ CancelTimeout(m)
         \/ StallSeen(m) \/ ClockRuns(m) \/ ClockStops(m)
         \/ MetaOff \/ MetaOn \/ RficFault \/ RficInit
  PROVE  SInv'
<1>1. UNCHANGED <<q, sel, call>>
  BY DEF CompareLoaded, ScheduleTimeout, CancelDone, CancelTimeout, StallSeen, ClockRuns, ClockStops,
         TamerStep, MetaOff, MetaOn, RficFault, RficInit
<1> QED BY <1>1, StillSInv DEF SInv

LEMMA FireSInv ==
  ASSUME IInv, SInv, NEW m \in Modules, Fire(m)
  PROVE  SInv'
<1>1. View(m) \in ViewT /\ View(m).q = q[m] /\ Ring(q[m]) /\ SlotDir(q[m]) /\ q \in [Modules -> QueueT]
  BY SlotView
<1>2. Keeps(q[m], Isr(q[m])) BY <1>1, FireKeeps
<1>3. q' = [q EXCEPT ![m] = Isr(q[m])] /\ UNCHANGED <<sel, call>> BY <1>1 DEF Fire, TamerStep
<1>4. ArmedT(tamer[m]) BY DEF Fire, ArmedT
<1>5. call.m # m BY <1>4 DEF IInv, DirInv, CallInv
<1>6. ASSUME NEW n \in Modules PROVE Asks(n, q'[n], call', sel[n])
  <2>1. Asks(n, q[n], call, sel[n]) BY DEF SInv
  <2> QED BY <1>1, <1>3, <1>5, <2>1 DEF Asks
<1> QED BY <1>2, <1>3, <1>6, KeepsSInv

LEMMA InitSInv ==
  ASSUME Init
  PROVE  SInv
<1>1. PICK Q : Q = EmptyQueue(0) OBVIOUS
<1>2. Q \in QueueT /\ Live(Q) = {} /\ Q.cnt = 0 BY <1>1, EmptyRing
<1>3. \A m \in Modules : q[m] = Q BY <1>1 DEF Init
<1>4. SlotDir(Q) BY <1>2, NoneKeeps DEF Keeps
<1>5. \A x : Spared(Q, x) BY <1>2 DEF Spared, Loading
<1>6. call = NoCall BY DEF Init
<1> QED BY <1>3, <1>4, <1>5, <1>6, NoCallAsks DEF SInv

LEMMA NextSInv ==
  ASSUME IInv, IInv', SInv, [Next]_vars
  PROVE  SInv'
<1>1. Directions \subseteq Modules /\ "RX" \in Modules BY Sizes DEF Modules
<1>2. ASSUME UNCHANGED vars PROVE SInv'
  <2>1. UNCHANGED <<q, sel, call>> BY <1>2 DEF vars
  <2> QED BY <2>1, StillSInv DEF SInv
<1> QED BY <1>1, <1>2, HostSInv, WorkerSInv, QuietSInv, FireSInv DEF Next, Hardware

\* An upload hurts nobody: requests ahead of it use other slots, and those
\* behind it claim none of theirs.
LEMMA SlotsSafe ==
  ASSUME IInv, SInv
  PROVE  SlotSafe
<1>1. SUFFICES ASSUME NEW m \in Modules, NEW i \in Loading(q[m])
               PROVE  /\ job.load = m
                      /\ q[m].ent[i].imm \/ sel[m] # q[m].ent[i].slot
                      /\ \A j \in Live(q[m]) \ {i} :
                           CompareOwned(q[m].ent[j]) \/ q[m].ent[j].res =>
                             q[m].ent[j].slot # q[m].ent[i].slot
  BY DEF SlotSafe
<1>2. PICK Q : Q = q[m] OBVIOUS
<1>3. /\ Q \in QueueT /\ SlotDir(Q) /\ Spared(Q, sel[m]) /\ TailInv(Q) /\ LoadInv(m, Q, job)
  BY <1>2, SlotView DEF IInv, DirInv
<1>4. i \in Loading(Q) /\ i \in Live(Q) /\ Q.ent[i].st = "LOAD_PENDING" BY <1>1, <1>2 DEF Loading
<1>5. job.load = m BY <1>3, <1>4 DEF LoadInv
<1>6. Q.ent[i].imm \/ sel[m] # Q.ent[i].slot BY <1>3, <1>4 DEF Spared
<1>7. ASSUME NEW j \in Live(Q) \ {i}, CompareOwned(Q.ent[j]) \/ Q.ent[j].res
      PROVE  Q.ent[j].slot # Q.ent[i].slot
  <2>1. Q.rem \in Indices /\ Q.cnt \in 0 .. QueueMax BY <1>3 DEF QueueT
  <2>2. PICK a \in 0 .. Q.cnt-1 : i = Idx(Q, a) BY <1>4 DEF Live
  <2>3. PICK b \in 0 .. Q.cnt-1 : j = Idx(Q, b) BY DEF Live
  <2>4. a # b BY <1>7, <2>2, <2>3
  <2>5. Q.ent[j].st # "LOAD_PENDING" BY <1>3, <1>4, <1>7 DEF LoadInv, OneLoad, Loading
  <2>6. Q.ent[j].st # "LOAD_FAILED" BY <1>3, <1>7 DEF CompareOwned, SlotDir, JobStates
  <2>7. CASE b < a
    <3>1. Claims(Q.ent[i]) BY <1>4 DEF Claims
    <3> QED BY <1>3, <2>2, <2>3, <2>6, <2>7, <3>1 DEF SlotDir, Parted
  <2>8. CASE a < b
    <3>1. j # Q.rem
      <4>1. Idx(Q, 0) = Q.rem BY <2>1, IdxValue, Sizes DEF Indices
      <4>2. 0 \in 0 .. QueueMax-1 /\ b \in 0 .. QueueMax-1 /\ b # 0 BY <2>1, <2>8, Sizes
      <4> QED BY <2>1, <2>3, <4>1, <4>2, IdxInjective
    <3>2. Q.ent[j].st = "NEW" BY <1>3, <1>7, <2>5, <2>6, <3>1 DEF TailInv
    <3>3. Claims(Q.ent[j]) BY <1>7, <3>2 DEF Claims, CompareOwned, JobStates
    <3>4. Q.ent[i].st # "LOAD_FAILED" BY <1>4
    <3> QED BY <1>3, <2>2, <2>3, <2>8, <3>3, <3>4 DEF SlotDir, Parted
  <2>9. a \in Int /\ b \in Int BY <2>2, <2>3
  <2> QED BY <2>4, <2>7, <2>8, <2>9
<1> QED BY <1>2, <1>5, <1>6, <1>7

\* An upload spares the slot the synthesizer runs from, unless the request is
\* to retune now, and every slot another queued request relies on: whatever
\* was preloaded, cleared, failed or recalled meanwhile.
THEOREM UploadsSpareSlots == Spec => []SlotSafe
<1>1. Init => IInv /\ SInv BY InitIInv, InitSInv
<1>2. IInv /\ SInv /\ [Next]_vars => IInv' /\ SInv' BY NextIInv, NextSInv
<1>3. IInv /\ SInv => SlotSafe BY SlotsSafe
<1> QED BY <1>1, <1>2, <1>3, PTL DEF Spec
=============================================================================
