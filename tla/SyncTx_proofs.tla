---------------------------- MODULE SyncTx_proofs ----------------------------
(***************************************************************************)
(* Proofs about the transmit ring of module SyncTx, for every size of the  *)
(* ring and of the transfer pool, every format and every bound:            *)
(*                                                                         *)
(*   TypeCorrect   the state keeps its types and the pool is not exceeded, *)
(*   Ownership     what is on USB is IN_FLIGHT and nobody else's,          *)
(*   NothingLeaks  an IN_FLIGHT slot of a running stream is somewhere,     *)
(*   SubmittedInOrder  buffers reach USB in the order they were filled.    *)
(***************************************************************************)
EXTENDS SyncTx, SequenceTheorems, WellFoundedInduction, TLAPS

-----------------------------------------------------------------------------
(* The inductive invariant.                                                *)

Callback   == [slot : Slots \cup {NoSlot}, gen : 0 .. MaxGen, at : {"none", "check", "usb"}]
StreamType == [state : StreamState, error : {"none", "would_block", "transport"},
               rejected : Slots \cup {NoSlot}]

\* The writer is around a submission; it still has the slot it submits.
Busy(c) == c.pc \in {"submit", "submitted"}
Held(c) == c.pc = "submit" \/ (c.pc = "submitted" /\ c.res # "ok")

\* Slot i is on USB or about to be put there by a callback.
Out(i, u, x) == (\E k \in 1 .. Len(u) : u[k].slot = i) \/ x.slot = i

\* Where the writer is: what its state machine and its call say of each other.
Route(bb, st, c) ==
  /\ bb.submitter = "CALLBACK" => bb.cons_i # NoSlot
  /\ c.pc \in {"wait", "woken"} => st = "WAIT_FOR_BUFFER"
  /\ Busy(c) => /\ c.idx \in Slots /\ c.why # "none"
                /\ c.why \in {"advance", "parked"} => st = "USING_BUFFER"
                /\ c.why \in {"loop", "late"} => st = "WAIT_FOR_BUFFER"
                /\ c.why = "advance" => c.idx = bb.prod_i
  /\ c.pc = "submitted" => c.res # "none"

\* The transfer pool: a callback that ships has a transfer left, transfers are out
\* only while the worker is in the stream's loop, and only a stream that has ended
\* keeps a rejected buffer.
Pool(u, x, s, w) ==
  /\ x.at = "none" <=> x.slot = NoSlot
  /\ x.at # "none" => Len(u) < T /\ s.state = "RUNNING"
  /\ u # <<>> => s.state \in {"RUNNING", "SHUTTING_DOWN"}
  /\ s.state \in {"RUNNING", "SHUTTING_DOWN"} => w = "LOOP"
  /\ s.rejected # NoSlot => w = "LOOP" /\ s.state # "RUNNING"

\* Slots on USB and the rejected one are IN_FLIGHT, each with one owner.
RingOwned(bb, u, x, rej) ==
  /\ \A i \in Slots : Out(i, u, x) => bb.status[i] = "IN_FLIGHT"
  /\ \A j, k \in 1 .. Len(u) : u[j].slot = u[k].slot => j = k
  /\ \A k \in 1 .. Len(u) : u[k].slot # x.slot
  /\ rej # NoSlot => bb.status[rej] = "IN_FLIGHT"

\* So is the slot the writer submits; nobody else has it.
WriterOwned(bb, u, x, rej, c) ==
  Held(c) => bb.status[c.idx] = "IN_FLIGHT" /\ ~Out(c.idx, u, x) /\ c.idx # rej

\* The writer changes the slot at prod_i without looking at it.
Filling(bb, st, c) ==
  /\ st = "BUFFER_READY" => bb.status[bb.prod_i] = "EMPTY"
  /\ st = "USING_BUFFER" /\ ~Busy(c) => bb.status[bb.prod_i] = "PARTIAL"

Owned(bb, u, x, rej, st, c) ==
  RingOwned(bb, u, x, rej) /\ WriterOwned(bb, u, x, rej, c) /\ Filling(bb, st, c)

\* From START on every IN_FLIGHT slot is out, or in the hands of the writer.
Runs(s, w) == w = "STARTED" \/ s.state = "RUNNING"
Placed(bb, u, x, c) ==
  \A i \in Slots : bb.status[i] = "IN_FLIGHT" => Out(i, u, x) \/ (Held(c) /\ c.idx = i)

Taken   == {"retained", "stolen"}
Stolen  == {"stolen"}

Inv ==
  /\ TypeOK
  /\ Route(b, state, call)
  /\ Pool(usb, cb, stream, worker)
  /\ Usual(g.past, Taken) => Owned(b, usb, cb, stream.rejected, state, call)
  /\ Usual(g.past, Stolen) /\ Runs(stream, worker) => Placed(b, usb, cb, call)

-----------------------------------------------------------------------------
(* Arithmetic and least elements.                                          *)

LEMMA Sizes ==
  /\ N \in Nat \ {0} /\ T \in Nat \ {0} /\ T < N /\ DataMod \in Nat \ {0}
  /\ Units \in Nat \ {0} /\ MaxGen \in Nat /\ MaxFails \in Nat /\ MaxStalls \in Nat
  /\ MaxEnds \in Nat /\ Requests \subseteq Nat
BY TxAssumption DEF TxAssumption

LEMMA ModRange ==
  ASSUME NEW a \in Int, NEW n \in Nat \ {0}
  PROVE  a % n \in 0 .. n-1
OBVIOUS

\* Ring indices and buffer numbers wrap into their range.
LEMMA Wrapped ==
  /\ \A i \in Slots : Next1(i) \in Slots
  /\ \A d \in Datas : (d + 1) % DataMod \in Datas
  /\ NoSlot \notin Slots
  /\ Slots \subseteq Nat
  /\ 0 \in Slots
<1>1. \A i \in Slots : Next1(i) \in Slots BY Sizes, ModRange DEF Next1, Slots
<1>2. \A d \in Datas : (d + 1) % DataMod \in Datas BY Sizes, ModRange DEF Datas
<1>3. NoSlot \notin Slots /\ Slots \subseteq Nat /\ 0 \in Slots BY Sizes DEF NoSlot, Slots
<1> QED BY <1>1, <1>2, <1>3

\* A non-empty set of naturals has a least element.
LEMMA LeastNatural ==
  ASSUME NEW S \in SUBSET Nat, S # {}
  PROVE  \E x \in S : \A y \in S : x <= y
<1>1. PICK x \in S : \A y \in S : ~ (<<y, x>> \in OpToRel(<, Nat))
  BY NatLessThanWellFounded, WFMin
<1>2. \A y \in S : ~ (y < x)
  BY <1>1, Zenon DEF OpToRel
<1> QED BY <1>2

\* oldest_full_buffer() finds a FULL slot when there is one.
LEMMA OldestIsFull ==
  ASSUME NEW bb \in BufferMgmt
  PROVE  /\ Full(bb) # {} => OldestFull(bb) \in Full(bb)
         /\ OldestFull(bb) \in Slots \cup {NoSlot}
         /\ OldestFull(bb) # NoSlot => Full(bb) # {}
<1> DEFINE from == IF bb.cons_i = NoSlot THEN bb.prod_i ELSE bb.cons_i
           K    == {(i - from) % N : i \in Full(bb)}
<1>1. from \in Nat /\ Full(bb) \subseteq Slots
  <2>1. from \in Slots BY DEF BufferMgmt
  <2> QED BY <2>1, Wrapped DEF Full
<1>2. CASE Full(bb) = {} BY <1>2 DEF OldestFull
<1>3. CASE Full(bb) # {}
  <2>1. \A i \in Full(bb) : (i - from) % N \in Nat
    <3> TAKE i \in Full(bb)
    <3>1. i \in Nat BY <1>1, Wrapped
    <3>2. i - from \in Int BY <3>1, <1>1
    <3>3. (i - from) % N \in 0 .. N-1
      <4> HIDE DEF from
      <4> QED BY <3>2, Sizes, ModRange
    <3> QED BY <3>3, Sizes
  <2>2. K \in SUBSET Nat /\ K # {} BY <2>1, <1>3
  <2>3. PICK k \in K : \A y \in K : k <= y
    <3> HIDE DEF K
    <3> QED BY <2>2, LeastNatural
  <2>4. \E i \in Full(bb) : \A j \in Full(bb) : (i - from) % N <= (j - from) % N
    BY <2>3
  <2>5. OldestFull(bb) \in Full(bb) BY <2>4, <1>3 DEF OldestFull
  <2> QED BY <2>5, <1>1, <1>3
<1> QED BY <1>2, <1>3

-----------------------------------------------------------------------------
(* The writer.  Mid describes the ring inside a step of the writer, which  *)
(* has no slot in its hands; Good is the invariant after the step.  Both   *)
(* leave the transport as it is.                                           *)

Mid(bb, p) ==
  /\ bb \in BufferMgmt
  /\ bb.submitter = "CALLBACK" => bb.cons_i # NoSlot
  /\ Usual(p, Taken) => RingOwned(bb, usb, cb, stream.rejected)
  /\ Usual(p, Stolen) /\ Runs(stream, worker) =>
       \A i \in Slots : bb.status[i] = "IN_FLIGHT" => Out(i, usb, cb)

Good(bb, st, c, p) ==
  /\ bb \in BufferMgmt /\ st \in SyncState /\ c \in Calls
  /\ Route(bb, st, c)
  /\ Usual(p, Taken) => Owned(bb, usb, cb, stream.rejected, st, c)
  /\ Usual(p, Stolen) /\ Runs(stream, worker) => Placed(bb, usb, cb, c)

\* What the writer's step has to show.
LEMMA WriterInv ==
  ASSUME Inv, Good(b', state', call', g'.past),
         UNCHANGED <<usb, cb, stream, worker>>,
         data' \in [Slots -> Datas], err' \in BOOLEAN, startReq' \in BOOLEAN,
         adm' \in [valid : BOOLEAN, gen : 0 .. MaxGen],
         g' \in [next : Datas, sent : Datas, past : SUBSET Kinds, old : SUBSET Slots],
         cnt' \in [fails : 0 .. MaxFails, stalls : 0 .. MaxStalls, ends : 0 .. MaxEnds]
  PROVE  Inv'
<1>1. TypeOK' BY DEF Inv, TypeOK, Good
<1>2. Route(b', state', call') BY DEF Good
<1>3. Pool(usb', cb', stream', worker') BY DEF Inv
<1>4. Usual(g'.past, Taken) => Owned(b', usb', cb', stream'.rejected, state', call')
  BY DEF Good
<1>5. Usual(g'.past, Stolen) /\ Runs(stream', worker') => Placed(b', usb', cb', call')
  BY DEF Good
<1> QED BY <1>1, <1>2, <1>3, <1>4, <1>5 DEF Inv

LEMMA NowGood ==
  ASSUME Inv
  PROVE  Good(b, state, call, g.past)
BY DEF Inv, TypeOK, Good

\* A longer past excuses more.
LEMMA PastGrows ==
  ASSUME NEW p, NEW q, p \subseteq q, NEW bb, NEW st, NEW c
  PROVE  /\ Mid(bb, p) => Mid(bb, q)
         /\ Good(bb, st, c, p) => Good(bb, st, c, q)
<1>1. \A K : Usual(q, K) => Usual(p, K) BY DEF Usual
<1> QED BY <1>1 DEF Mid, Good

\* A writer without a slot, before and after.
LEMMA IdleMid ==
  ASSUME NEW bb, NEW st, NEW c, NEW p, Good(bb, st, c, p), ~Held(c)
  PROVE  Mid(bb, p)
BY DEF Mid, Good, Route, Owned, Placed

LEMMA IdleGood ==
  ASSUME NEW bb, NEW st \in SyncState, NEW c \in Calls, NEW p, Mid(bb, p), ~Busy(c),
         c.pc \in {"wait", "woken"} => st = "WAIT_FOR_BUFFER",
         Usual(p, Taken) => Filling(bb, st, c)
  PROVE  Good(bb, st, c, p)
BY DEF Mid, Good, Route, Owned, Placed, WriterOwned, Held, Busy

\* A ring in which nothing new is IN_FLIGHT and nothing IN_FLIGHT has changed.
LEMMA SameFlight ==
  ASSUME NEW bb, NEW p, Mid(bb, p), NEW d \in BufferMgmt,
         d.submitter = "CALLBACK" => d.cons_i # NoSlot,
         \A i \in Slots : bb.status[i] = "IN_FLIGHT" <=> d.status[i] = "IN_FLIGHT",
         stream.rejected \in Slots \cup {NoSlot}
  PROVE  Mid(d, p)
BY DEF Mid, RingOwned

LEMMA LoopingIdle ==
  ASSUME NEW c \in Calls
  PROVE  /\ Looping(c) \in Calls /\ ~Busy(Looping(c))
         /\ Looping(c).pc \in {"top", "none"}
         /\ NoCall \in Calls /\ ~Busy(NoCall) /\ NoCall.pc = "none"
         /\ At(c, "wait") \in Calls /\ ~Busy(At(c, "wait")) /\ At(c, "wait").pc = "wait"
<1>1. NoCall \in Calls /\ ~Busy(NoCall) /\ NoCall.pc = "none"
  BY DEF NoCall, Calls, Busy
<1>2. At(c, "wait") \in Calls /\ ~Busy(At(c, "wait")) /\ At(c, "wait").pc = "wait"
  BY DEF At, Calls, Busy
<1>3. At(c, "top") \in Calls /\ ~Busy(At(c, "top")) /\ At(c, "top").pc = "top"
  BY DEF At, Calls, Busy
<1> QED BY <1>1, <1>2, <1>3 DEF Looping

LEMMA HandBackMid ==
  ASSUME NEW bb, NEW p, Mid(bb, p), stream.rejected \in Slots \cup {NoSlot}
  PROVE  /\ Mid(HandBack(bb), p)
         /\ HandBack(bb).status = bb.status /\ HandBack(bb).prod_i = bb.prod_i
<1>1. HandBack(bb) \in BufferMgmt /\ HandBack(bb).submitter = "FN"
  BY DEF Mid, BufferMgmt, HandBack
<1>2. HandBack(bb).status = bb.status /\ HandBack(bb).prod_i = bb.prod_i
  BY DEF Mid, BufferMgmt, HandBack
<1> QED BY <1>1, <1>2, SameFlight

\* Changing the status of a slot that is not IN_FLIGHT into another such status.
LEMMA SetStatus ==
  ASSUME NEW bb \in BufferMgmt, NEW i \in Slots, NEW v \in Status
  PROVE  /\ [bb EXCEPT !.status[i] = v] \in BufferMgmt
         /\ [bb EXCEPT !.status[i] = v].status = [bb.status EXCEPT ![i] = v]
         /\ [bb EXCEPT !.status[i] = v].prod_i = bb.prod_i
         /\ [bb EXCEPT !.status[i] = v].cons_i = bb.cons_i
         /\ [bb EXCEPT !.status[i] = v].submitter = bb.submitter
         /\ [bb EXCEPT !.status[i] = v].partial_off = bb.partial_off
         /\ [bb EXCEPT !.status[i] = v].status[i] = v
         /\ \A j \in Slots \ {i} : [bb EXCEPT !.status[i] = v].status[j] = bb.status[j]
BY DEF BufferMgmt

\* reclaim_tx_submission() takes the oldest FULL slot.
LEMMA ReclaimGood ==
  ASSUME NEW bb, NEW c \in Calls, NEW why \in {"parked", "loop", "late"}, NEW p,
         Mid(bb, p), Full(bb) # {}, Reclaim(bb, c, why), Inv,
         state = IF why = "parked" THEN "USING_BUFFER" ELSE "WAIT_FOR_BUFFER"
  PROVE  Good(b', state', call', p)
<1> DEFINE i == OldestFull(bb)
<1>1. bb \in BufferMgmt /\ i \in Slots /\ bb.status[i] = "FULL"
  BY OldestIsFull DEF Mid, Full
<1> HIDE DEF i
<1>2. b' = [bb EXCEPT !.status[i] = "IN_FLIGHT"] /\ state' = state
  BY DEF Reclaim, i
<1>3. call' = [c EXCEPT !.pc = "submit", !.idx = i, !.before = bb.cons_i, !.why = why,
                        !.res = "none"]
  BY DEF Reclaim, i
<1>4. call' \in Calls /\ call'.pc = "submit" /\ call'.idx = i /\ call'.why = why
  BY <1>1, <1>3 DEF Calls, BufferMgmt
<1>5. /\ b' \in BufferMgmt /\ b'.submitter = bb.submitter /\ b'.cons_i = bb.cons_i
      /\ b'.status[i] = "IN_FLIGHT" /\ \A j \in Slots \ {i} : b'.status[j] = bb.status[j]
  <2>1. "IN_FLIGHT" \in Status BY DEF Status
  <2> QED BY <1>1, <1>2, <2>1, SetStatus
<1>6. Route(b', state', call') /\ state' \in SyncState
  BY <1>1, <1>2, <1>4, <1>5 DEF Route, Mid, Busy, Inv, TypeOK
<1>7. ASSUME Usual(p, Taken) PROVE Owned(b', usb, cb, stream.rejected, state', call')
  <2>1. RingOwned(bb, usb, cb, stream.rejected) BY <1>7 DEF Mid
  <2>2. stream.rejected \in Slots \cup {NoSlot} BY DEF Inv, TypeOK
  <2>3. RingOwned(b', usb, cb, stream.rejected) BY <2>1, <2>2, <1>1, <1>5 DEF RingOwned
  <2>4. WriterOwned(b', usb, cb, stream.rejected, call')
    BY <2>1, <1>1, <1>4, <1>5, Wrapped DEF WriterOwned, RingOwned
  <2>5. Filling(b', state', call') BY <1>2, <1>4 DEF Filling, Busy
  <2> QED BY <2>3, <2>4, <2>5 DEF Owned
<1>8. ASSUME Usual(p, Stolen), Runs(stream, worker) PROVE Placed(b', usb, cb, call')
  BY <1>8, <1>4, <1>5 DEF Mid, Placed, Held
<1> QED BY <1>4, <1>5, <1>6, <1>7, <1>8 DEF Good

\* case SYNC_STATE_WAIT_FOR_BUFFER, after and around its reclaim loop.
LEMMA WaitOrGoGood ==
  ASSUME NEW bb, NEW c \in Calls, NEW p, Mid(bb, p), WaitOrGo(bb, c),
         state = "WAIT_FOR_BUFFER"
  PROVE  Good(b', state', call', p)
<1>1. b' = bb /\ state' \in {"WAIT_FOR_BUFFER", "CHECK_WORKER"} BY DEF WaitOrGo
<1>2. /\ call' \in Calls /\ ~Busy(call')
      /\ call'.pc \in {"wait", "woken"} => state' = "WAIT_FOR_BUFFER"
  BY LoopingIdle DEF WaitOrGo
<1>3. Filling(b', state', call') BY <1>1 DEF Filling
<1>4. state' \in SyncState BY <1>1 DEF SyncState
<1> QED BY <1>1, <1>2, <1>3, <1>4, IdleGood

LEMMA ReclaimLoopGood ==
  ASSUME NEW bb, NEW c \in Calls, NEW p, Mid(bb, p), ReclaimLoop(bb, c), Inv,
         state = "WAIT_FOR_BUFFER"
  PROVE  Good(b', state', call', p)
<1>1. CASE Parked(bb) /\ OldestFull(bb) # NoSlot
  <2>1. Full(bb) # {} BY <1>1, OldestIsFull DEF Mid
  <2>2. Reclaim(bb, c, "loop") BY <1>1 DEF ReclaimLoop
  <2> QED BY <2>1, <2>2, ReclaimGood
<1>2. CASE ~(Parked(bb) /\ OldestFull(bb) # NoSlot)
  <2>1. PICK d : d = IF Parked(bb) THEN HandBack(bb) ELSE bb OBVIOUS
  <2>2. WaitOrGo(d, c) BY <1>2, <2>1 DEF ReclaimLoop
  <2>3. stream.rejected \in Slots \cup {NoSlot} BY DEF Inv, TypeOK, StreamType
  <2>4. Mid(d, p) BY <2>1, <2>3, HandBackMid
  <2> QED BY <2>2, <2>4, WaitOrGoGood
<1> QED BY <1>1, <1>2

\* The end of advance_tx_buffer().
LEMMA StepGood ==
  ASSUME NEW bb, NEW c \in Calls, NEW p, Mid(bb, p), Step(bb, c), Inv
  PROVE  Good(b', state', call', p)
<1>1. bb \in BufferMgmt BY DEF Mid
<1>2. Next1(bb.prod_i) \in Slots BY <1>1, Wrapped DEF BufferMgmt
<1>3. b' = [bb EXCEPT !.prod_i = Next1(bb.prod_i)] BY DEF Step
<1>4. /\ b' \in BufferMgmt /\ b'.status = bb.status /\ b'.cons_i = bb.cons_i
      /\ b'.submitter = bb.submitter
  BY <1>1, <1>2, <1>3 DEF BufferMgmt
<1>5. stream.rejected \in Slots \cup {NoSlot} BY DEF Inv, TypeOK, StreamType
<1>6. Mid(b', p) BY <1>4, <1>5, SameFlight DEF Mid
<1>7. call' = Looping(c) /\ state' = NextState(b') BY DEF Step
<1>8. state' \in {"WAIT_FOR_BUFFER", "BUFFER_READY", "CHECK_WORKER"}
  BY <1>7 DEF NextState
<1>9. state' = "BUFFER_READY" => b'.status[b'.prod_i] = "EMPTY" BY <1>7 DEF NextState
<1>10. Filling(b', state', call') BY <1>8, <1>9 DEF Filling
<1>11. state' \in SyncState BY <1>8 DEF SyncState
<1> QED BY <1>6, <1>7, <1>10, <1>11, LoopingIdle, IdleGood

\* advance_tx_buffer() with the slot at prod_i not IN_FLIGHT.
LEMMA AdvanceGood ==
  ASSUME NEW bb, NEW c \in Calls, NEW p, Mid(bb, p), Advance(bb, c), Inv,
         state = "USING_BUFFER", Usual(p, Taken) => bb.status[bb.prod_i] # "IN_FLIGHT"
  PROVE  Good(b', state', call', p)
<1>0. bb \in BufferMgmt /\ bb.prod_i \in Slots /\ stream.rejected \in Slots \cup {NoSlot}
  BY DEF Mid, BufferMgmt, Inv, TypeOK
<1>1. CASE bb.submitter = "FN"
  <2>1. /\ b' = [bb EXCEPT !.status[bb.prod_i] = "IN_FLIGHT"] /\ state' = state
        /\ call' = [c EXCEPT !.pc = "submit", !.idx = bb.prod_i, !.why = "advance"]
    BY <1>1 DEF Advance
  <2>2. /\ call' \in Calls /\ call'.pc = "submit" /\ call'.idx = bb.prod_i
        /\ call'.why = "advance"
    BY <1>0, <2>1 DEF Calls
  <2>3. /\ b' \in BufferMgmt /\ b'.submitter = bb.submitter /\ b'.prod_i = bb.prod_i
        /\ b'.status[bb.prod_i] = "IN_FLIGHT"
        /\ \A j \in Slots \ {bb.prod_i} : b'.status[j] = bb.status[j]
    <3>1. "IN_FLIGHT" \in Status BY DEF Status
    <3> QED BY <1>0, <2>1, <3>1, SetStatus
  <2>4. Route(b', state', call') /\ state' \in SyncState
    BY <1>0, <1>1, <2>1, <2>2, <2>3 DEF Route, Busy, SyncState
  <2>5. ASSUME Usual(p, Taken) PROVE Owned(b', usb, cb, stream.rejected, state', call')
    <3>1. RingOwned(bb, usb, cb, stream.rejected) /\ bb.status[bb.prod_i] # "IN_FLIGHT"
      BY <2>5 DEF Mid
    <3>2. RingOwned(b', usb, cb, stream.rejected) BY <3>1, <1>0, <2>3 DEF RingOwned
    <3>3. WriterOwned(b', usb, cb, stream.rejected, call')
      BY <3>1, <1>0, <2>2, <2>3, Wrapped DEF WriterOwned, RingOwned
    <3>4. Filling(b', state', call') BY <2>1, <2>2 DEF Filling, Busy
    <3> QED BY <3>2, <3>3, <3>4 DEF Owned
  <2>6. ASSUME Usual(p, Stolen), Runs(stream, worker) PROVE Placed(b', usb, cb, call')
    BY <2>6, <2>2, <2>3 DEF Mid, Placed, Held
  <2> QED BY <2>2, <2>3, <2>4, <2>5, <2>6 DEF Good
<1>2. CASE bb.submitter # "FN"
  <2>1. PICK f : f = [bb EXCEPT !.status[bb.prod_i] = "FULL"] OBVIOUS
  <2>2. /\ f \in BufferMgmt /\ f.submitter = bb.submitter /\ f.cons_i = bb.cons_i
        /\ f.status[bb.prod_i] = "FULL"
        /\ \A j \in Slots \ {bb.prod_i} : f.status[j] = bb.status[j]
    <3>1. "FULL" \in Status BY DEF Status
    <3> QED BY <1>0, <2>1, <3>1, SetStatus
  <2>3. f.cons_i # NoSlot BY <1>0, <1>2, <2>2 DEF Mid, BufferMgmt
  <2>4. Reclaim(f, c, "parked") BY <1>2, <2>1, <2>3 DEF Advance
  <2>5. Full(f) # {} BY <1>0, <2>2 DEF Full
  <2>6. Mid(f, p)
    <3>1. Usual(p, Taken) => RingOwned(f, usb, cb, stream.rejected)
      BY <1>0, <2>2 DEF Mid, RingOwned
    <3>2. Usual(p, Stolen) /\ Runs(stream, worker) =>
            \A i \in Slots : f.status[i] = "IN_FLIGHT" => Out(i, usb, cb)
      BY <1>0, <2>2 DEF Mid
    <3> QED BY <2>2, <2>3, <3>1, <3>2 DEF Mid
  <2> QED BY <2>4, <2>5, <2>6, ReclaimGood
<1> QED BY <1>1, <1>2

\* A submission that was refused: its slot is no longer IN_FLIGHT.
LEMMA GivesUpSlot ==
  ASSUME Inv, Held(call), NEW d \in BufferMgmt,
         d.submitter = "CALLBACK" => d.cons_i # NoSlot,
         d.status[call.idx] # "IN_FLIGHT",
         \A j \in Slots \ {call.idx} : d.status[j] = b.status[j]
  PROVE  Mid(d, g.past)
<1>1. call.idx \in Slots /\ stream.rejected \in Slots \cup {NoSlot}
  BY DEF Inv, TypeOK, Route, Held, Busy
<1>2. ASSUME Usual(g.past, Taken) PROVE RingOwned(d, usb, cb, stream.rejected)
  <2>1. Owned(b, usb, cb, stream.rejected, state, call) BY <1>2 DEF Inv
  <2> QED BY <2>1, <1>1 DEF Owned, WriterOwned, RingOwned
<1>3. ASSUME Usual(g.past, Stolen), Runs(stream, worker), NEW i \in Slots,
             d.status[i] = "IN_FLIGHT"
      PROVE  Out(i, usb, cb)
  <2>1. Placed(b, usb, cb, call) BY <1>3 DEF Inv
  <2> QED BY <2>1, <1>1, <1>3 DEF Placed
<1> QED BY <1>2, <1>3 DEF Mid

LEMMA SubmittedMid ==
  ASSUME Inv, call.pc = "submitted"
  PROVE  /\ call.res = "ok" => Mid(b, g.past) /\ Mid(Reclaimed(b, call.idx), g.past)
         /\ call.res # "ok" => /\ Mid(NotReclaimed(b, call.idx), g.past)
                               /\ Mid(Defer(b, call.idx), g.past)
                               /\ Mid(Refused(b, call.idx), g.past)
                               /\ Refused(b, call.idx).prod_i = b.prod_i
                               /\ Refused(b, call.idx).status[call.idx] = "EMPTY"
<1>1. /\ call.idx \in Slots /\ stream.rejected \in Slots \cup {NoSlot} /\ b \in BufferMgmt
      /\ b.submitter = "CALLBACK" => b.cons_i # NoSlot
  BY DEF Inv, TypeOK, Route, Busy
<1>2. CASE call.res = "ok"
  <2>1. Mid(b, g.past) BY <1>2, NowGood, IdleMid DEF Held
  <2>2. Next1(call.idx) \in Slots /\ NoSlot \notin Slots BY <1>1, Wrapped
  <2>3. PICK d : d = [b EXCEPT !.cons_i = Next1(call.idx)] OBVIOUS
  <2>4. d \in BufferMgmt /\ d.cons_i # NoSlot /\ d.status = b.status
    BY <2>2, <2>3, <1>1 DEF BufferMgmt
  <2>5. Mid(d, g.past) BY <2>1, <2>4, <1>1, SameFlight
  <2>6. Mid(HandBack(b), g.past) BY <2>1, <1>1, HandBackMid
  <2> QED BY <2>1, <2>3, <2>5, <2>6, <1>2 DEF Reclaimed
<1>3. CASE call.res # "ok"
  <2>0. Held(call) /\ "FULL" \in Status /\ "EMPTY" \in Status BY <1>3 DEF Held, Status
  <2>1. Mid(NotReclaimed(b, call.idx), g.past)
    <3>1. PICK d : d = [b EXCEPT !.status[call.idx] = "FULL"] OBVIOUS
    <3>2. /\ d \in BufferMgmt /\ d.submitter = b.submitter /\ d.cons_i = b.cons_i
          /\ d.status[call.idx] = "FULL"
          /\ \A j \in Slots \ {call.idx} : d.status[j] = b.status[j]
      BY <1>1, <2>0, <3>1, SetStatus
    <3> QED BY <1>1, <2>0, <3>1, <3>2, GivesUpSlot DEF NotReclaimed
  <2>2. Mid(Defer(b, call.idx), g.past)
    <3>1. PICK d : d = Defer(b, call.idx) OBVIOUS
    <3>2. /\ d \in BufferMgmt /\ d.cons_i # NoSlot
          /\ d.status[call.idx] = "FULL"
          /\ \A j \in Slots \ {call.idx} : d.status[j] = b.status[j]
      BY <1>1, <2>0, <3>1, Wrapped DEF Defer, BufferMgmt
    <3> QED BY <1>1, <2>0, <3>1, <3>2, GivesUpSlot
  <2>3. /\ Mid(Refused(b, call.idx), g.past)
        /\ Refused(b, call.idx).prod_i = b.prod_i
        /\ Refused(b, call.idx).status[call.idx] = "EMPTY"
    <3>1. PICK d : d = Refused(b, call.idx) OBVIOUS
    <3>2. 0 \in 0 .. Units BY Sizes
    <3>3. /\ d \in BufferMgmt /\ d.submitter = b.submitter /\ d.cons_i = b.cons_i
          /\ d.status[call.idx] = "EMPTY" /\ d.prod_i = b.prod_i
          /\ \A j \in Slots \ {call.idx} : d.status[j] = b.status[j]
      BY <1>1, <2>0, <3>1, <3>2 DEF Refused, BufferMgmt
    <3> QED BY <1>1, <2>0, <3>1, <3>3, GivesUpSlot
  <2> QED BY <2>1, <2>2, <2>3, <1>3
<1> QED BY <1>2, <1>3

\* The ghosts and the rest keep their types when the writer records a past.
Ghosts == [next : Datas, sent : Datas, past : SUBSET Kinds, old : SUBSET Slots]

LEMMA Rest ==
  ASSUME Inv
  PROVE  /\ data \in [Slots -> Datas] /\ err \in BOOLEAN
         /\ adm \in [valid : BOOLEAN, gen : 0 .. MaxGen] /\ g \in Ghosts
         /\ cnt \in [fails : 0 .. MaxFails, stalls : 0 .. MaxStalls, ends : 0 .. MaxEnds]
         /\ b \in BufferMgmt /\ call \in Calls /\ state \in SyncState
         /\ stream \in StreamType /\ stream.rejected \in Slots \cup {NoSlot}
BY DEF Inv, TypeOK, Ghosts, StreamType

\* The steps of the writer that leave the ring alone.
LEMMA QuietWriter ==
  ASSUME Inv, ~Busy(call), UNCHANGED b, state' \in SyncState, call' \in Calls, ~Busy(call'),
         call'.pc \in {"wait", "woken"} => state' = "WAIT_FOR_BUFFER",
         Usual(g.past, Taken) => Filling(b, state', call')
  PROVE  Good(b', state', call', g.past)
<1>1. Mid(b, g.past) BY NowGood, IdleMid DEF Held, Busy
<1> QED BY <1>1, IdleGood

LEMMA QuietSteps ==
  ASSUME Inv,
         \/ LoopTop \/ CheckWorker \/ StartWorker \/ WorkerStarted \/ StartTimedOut
         \/ WakeUp \/ SpuriousWakeup \/ Application
  PROVE  Inv'
<1> USE Rest
<1>0. Usual(g.past, Taken) => Filling(b, state, call)
  BY DEF Inv, Owned
<1>1. UNCHANGED <<b, data, usb, cb, stream, worker, adm, g, cnt>> /\ err' \in BOOLEAN
  BY DEF LoopTop, CheckWorker, StartWorker, WorkerStarted, StartTimedOut, WakeUp,
         SpuriousWakeup, Application, StartWrite, usbVars, threadVars
<1>2. /\ ~Busy(call) /\ call' \in Calls /\ ~Busy(call')
      /\ startReq' \in BOOLEAN
      /\ call'.pc \in {"wait", "woken"} => state' = "WAIT_FOR_BUFFER"
      /\ state' \in SyncState
      /\ state' = state \/ state' \in {"CHECK_WORKER", "START_WORKER", "WAIT_FOR_BUFFER"}
  <2>1. CASE LoopTop
    <3>1. call' = NoCall \/ call' = [call EXCEPT !.pc = "case"] BY <2>1 DEF LoopTop
    <3>2. call' \in Calls /\ call'.pc \in {"none", "case"}
      BY <3>1, LoopingIdle DEF Calls
    <3> QED BY <2>1, <3>2 DEF LoopTop, threadVars, Busy, Inv, TypeOK
  <2>2. CASE CheckWorker BY <2>2, LoopingIdle DEF CheckWorker, SyncState, Busy, Inv, TypeOK
  <2>3. CASE StartWorker BY <2>3 DEF StartWorker, Calls, Busy
  <2>4. CASE WorkerStarted
    BY <2>4, LoopingIdle DEF WorkerStarted, threadVars, SyncState, Busy, Inv, TypeOK
  <2>5. CASE StartTimedOut
    BY <2>5, LoopingIdle DEF StartTimedOut, threadVars, Busy, Inv, TypeOK
  <2>6. CASE WakeUp BY <2>6, LoopingIdle DEF WakeUp, threadVars, SyncState, Busy, Inv, TypeOK
  <2>7. CASE SpuriousWakeup
    BY <2>7 DEF SpuriousWakeup, threadVars, Calls, Busy, Inv, TypeOK, Route
  <2>8. CASE Application
    <3>1. PICK kind \in Timeouts, want \in Requests, flush \in BOOLEAN :
            StartWrite(kind, want, flush)
      BY <2>8 DEF Application
    <3>2. [NoCall EXCEPT !.kind = kind, !.want = want, !.flush = flush] \in Calls
      BY Sizes, TxAssumption DEF TxAssumption, NoCall, Calls
    <3> QED BY <3>1, <3>2, LoopingIdle DEF StartWrite, threadVars, Busy, Inv, TypeOK
  <2> QED BY <2>1, <2>2, <2>3, <2>4, <2>5, <2>6, <2>7, <2>8
<1>3. Usual(g.past, Taken) => Filling(b, state', call')
  BY <1>0, <1>2 DEF Filling
<1>4. Good(b', state', call', g'.past) BY <1>1, <1>2, <1>3, QuietWriter
<1> QED BY <1>1, <1>2, <1>4, WriterInv DEF Ghosts

LEMMA PastType ==
  ASSUME NEW h \in Ghosts, NEW K \in SUBSET Kinds
  PROVE  /\ [h EXCEPT !.past = @ \cup K] \in Ghosts
         /\ [h EXCEPT !.past = @ \cup K].past = h.past \cup K
         /\ [h EXCEPT !.past = @ \cup K].old = h.old
BY DEF Ghosts

LEMMA WaitForBufferInv ==
  ASSUME Inv, WaitForBuffer
  PROVE  Inv'
<1> USE Rest
<1>1. /\ call.pc = "case" /\ state = "WAIT_FOR_BUFFER"
      /\ UNCHANGED <<data, usb, cb, stream, worker, err, startReq, adm, g, cnt>>
  BY DEF WaitForBuffer, usbVars, threadVars
<1>2. Mid(b, g.past) BY <1>1, NowGood, IdleMid DEF Held
<1>3. Good(b', state', call', g'.past)
  <2>1. CASE b.status[b.prod_i] = "EMPTY"
    <3>1. b' = b /\ state' = "BUFFER_READY" /\ call' = Looping(call)
      BY <2>1 DEF WaitForBuffer
    <3>2. Filling(b, state', call') BY <2>1, <3>1 DEF Filling
    <3>3. ~Busy(call) /\ state' \in SyncState BY <1>1, <3>1 DEF Busy, SyncState
    <3> QED BY <1>1, <3>1, <3>2, <3>3, LoopingIdle, QuietWriter
  <2>2. CASE b.status[b.prod_i] # "EMPTY"
    <3>1. ReclaimLoop(b, call) BY <2>2 DEF WaitForBuffer
    <3> QED BY <1>1, <1>2, <3>1, ReclaimLoopGood
  <2> QED BY <2>1, <2>2
<1>4. startReq' \in BOOLEAN BY <1>1 DEF Inv, TypeOK
<1> QED BY <1>1, <1>3, <1>4, WriterInv DEF Ghosts

LEMMA WaitExpiresInv ==
  ASSUME Inv, WaitExpires
  PROVE  Inv'
<1> USE Rest
<1>1. /\ call.pc = "wait" /\ state = "WAIT_FOR_BUFFER"
      /\ UNCHANGED <<data, usb, cb, stream, worker, err, startReq, adm, g, cnt>>
  BY DEF WaitExpires, usbVars, threadVars, Inv, Route
<1>2. Mid(b, g.past) BY <1>1, NowGood, IdleMid DEF Held
<1>3. Good(b', state', call', g'.past)
  <2>1. CASE Parked(b) /\ OldestFull(b) # NoSlot
    <3>1. Reclaim(b, call, "late") BY <2>1 DEF WaitExpires
    <3>2. Full(b) # {} BY <2>1, OldestIsFull
    <3> QED BY <1>1, <1>2, <3>1, <3>2, ReclaimGood
  <2>2. CASE ~(Parked(b) /\ OldestFull(b) # NoSlot)
    <3>1. /\ b' = IF Parked(b) THEN HandBack(b) ELSE b
          /\ call' \in {Looping(call), NoCall} /\ state' = state
      BY <2>2 DEF WaitExpires
    <3>2. Mid(b', g.past) BY <1>2, <3>1, HandBackMid
    <3>3. call' \in Calls /\ ~Busy(call') /\ call'.pc \in {"top", "none"}
      BY <3>1, LoopingIdle
    <3>4. Filling(b', state', call') BY <1>1, <3>1 DEF Filling
    <3> QED BY <1>1, <3>1, <3>2, <3>3, <3>4, IdleGood
  <2> QED BY <2>1, <2>2
<1>4. startReq' \in BOOLEAN BY <1>1 DEF Inv, TypeOK
<1> QED BY <1>1, <1>3, <1>4, WriterInv DEF Ghosts

LEMMA BufferReadyInv ==
  ASSUME Inv, BufferReady
  PROVE  Inv'
<1> USE Rest
<1>1. /\ call.pc = "case" /\ state = "BUFFER_READY"
      /\ UNCHANGED <<data, usb, cb, stream, worker, err, startReq, adm, g, cnt>>
      /\ state' = "USING_BUFFER" /\ call' = Looping(call)
      /\ b' = [b EXCEPT !.status[b.prod_i] = "PARTIAL", !.partial_off = 0]
  BY DEF BufferReady, usbVars, threadVars
<1>2. Mid(b, g.past) /\ b.prod_i \in Slots BY <1>1, NowGood, IdleMid DEF Held, BufferMgmt
<1>3. Usual(g.past, Taken) => b.status[b.prod_i] = "EMPTY"
  BY <1>1 DEF Inv, Owned, Filling
<1>4. 0 \in 0 .. Units BY Sizes
<1>5. /\ b' \in BufferMgmt /\ b'.submitter = b.submitter /\ b'.cons_i = b.cons_i
      /\ b'.status[b.prod_i] = "PARTIAL" /\ b'.prod_i = b.prod_i
      /\ \A j \in Slots \ {b.prod_i} : b'.status[j] = b.status[j]
  BY <1>1, <1>2, <1>4 DEF BufferMgmt, Status
<1>6. Mid(b', g.past)
  <2>1. Usual(g.past, Taken) => RingOwned(b', usb, cb, stream.rejected)
    BY <1>2, <1>3, <1>5 DEF Mid, RingOwned
  <2>2. Usual(g.past, Stolen) /\ Runs(stream, worker) =>
          \A i \in Slots : b'.status[i] = "IN_FLIGHT" => Out(i, usb, cb)
    BY <1>2, <1>5 DEF Mid
  <2> QED BY <1>2, <1>5, <2>1, <2>2 DEF Mid
<1>7. Filling(b', state', call') /\ state' \in SyncState BY <1>1, <1>5 DEF Filling, SyncState
<1>8. Good(b', state', call', g'.past) BY <1>1, <1>6, <1>7, LoopingIdle, IdleGood
<1>9. startReq' \in BOOLEAN BY <1>1 DEF Inv, TypeOK
<1> QED BY <1>1, <1>8, <1>9, WriterInv DEF Ghosts

\* The answer to a submission.
LEMMA AnswerInv ==
  ASSUME Inv, Good(b', state', call', g.past), g' \in Ghosts, g.past \subseteq g'.past,
         UNCHANGED <<usbVars, threadVars, cnt>>
  PROVE  Inv'
<1>1. Good(b', state', call', g'.past) BY PastGrows
<1> QED BY <1>1, Rest, WriterInv DEF usbVars, threadVars, Inv, TypeOK, Ghosts

LEMMA AdvanceSubmittedInv ==
  ASSUME Inv, AdvanceSubmitted
  PROVE  Inv'
<1> USE Rest
<1>1. /\ call.pc = "submitted" /\ call.why = "advance" /\ call.idx = b.prod_i
      /\ call.idx \in Slots /\ call.res \in {"ok", "would_block", "error"}
  BY DEF AdvanceSubmitted, Inv, Route, Busy, Calls
<1>2. CASE call.res = "ok"
  <2>1. Step(b, call) /\ g' = g BY <1>2 DEF AdvanceSubmitted
  <2>2. Good(b', state', call', g.past) BY <1>1, <1>2, <2>1, SubmittedMid, StepGood
  <2> QED BY <2>1, <2>2, AnswerInv DEF AdvanceSubmitted
<1>3. CASE call.res = "would_block"
  <2>1. Step(Defer(b, call.idx), call) /\ g' = g BY <1>3 DEF AdvanceSubmitted
  <2>2. PICK d : d = Defer(b, call.idx) OBVIOUS
  <2>3. Mid(d, g.past) /\ Step(d, call) BY <1>1, <1>3, <2>1, <2>2, SubmittedMid
  <2>4. Good(b', state', call', g.past) BY <2>3, StepGood
  <2> QED BY <2>1, <2>4, AnswerInv DEF AdvanceSubmitted
<1>4. CASE call.res = "error"
  <2>1. /\ b' = Refused(b, call.idx) /\ call' = NoCall
        /\ state' \in {"BUFFER_READY", "WAIT_FOR_BUFFER"}
        /\ g' = [g EXCEPT !.next = data[call.idx]]
    BY <1>4 DEF AdvanceSubmitted
  <2>2. Mid(b', g.past) /\ b'.prod_i = b.prod_i /\ b'.status[call.idx] = "EMPTY"
    BY <1>1, <1>4, <2>1, SubmittedMid
  <2>3. Filling(b', state', call') /\ state' \in SyncState
    BY <1>1, <2>1, <2>2 DEF Filling, SyncState
  <2>4. Good(b', state', call', g.past) BY <2>1, <2>2, <2>3, LoopingIdle, IdleGood
  <2>5. g' \in Ghosts /\ g'.past = g.past BY <1>1, <2>1 DEF Ghosts
  <2> QED BY <2>4, <2>5, AnswerInv DEF AdvanceSubmitted
<1> QED BY <1>1, <1>2, <1>3, <1>4

LEMMA ParkedSubmittedInv ==
  ASSUME Inv, ParkedSubmitted
  PROVE  Inv'
<1> USE Rest
<1>1. /\ call.pc = "submitted" /\ call.why = "parked" /\ call.idx \in Slots
      /\ call.res \in {"ok", "would_block", "error"} /\ state = "USING_BUFFER"
  BY DEF ParkedSubmitted, Inv, Route, Busy, Calls
<1>2. PICK K : K = LeftBehind \cup (IF call.res = "error" THEN {"retained"} ELSE {})
  OBVIOUS
<1>3. K \in SUBSET Kinds BY <1>2 DEF LeftBehind, Kinds
<1>4. g' = [g EXCEPT !.past = @ \cup K] BY <1>2 DEF ParkedSubmitted
<1>5. g' \in Ghosts /\ g'.past = g.past \cup K BY <1>3, <1>4, PastType
<1>6. CASE call.res \in {"ok", "would_block"}
  <2>1. PICK d : d = IF call.res = "ok" THEN Reclaimed(b, call.idx)
                     ELSE NotReclaimed(b, call.idx)
    OBVIOUS
  <2>2. Step(d, call) BY <1>6, <2>1 DEF ParkedSubmitted
  <2>3. Mid(d, g.past) BY <1>1, <1>6, <2>1, SubmittedMid
  <2>4. Good(b', state', call', g.past) BY <2>2, <2>3, StepGood
  <2> QED BY <1>5, <2>4, AnswerInv DEF ParkedSubmitted
<1>7. CASE call.res = "error"
  <2>1. /\ b' = NotReclaimed(b, call.idx) /\ call' = NoCall
        /\ state' = IF Format = "RAW" THEN state ELSE "WAIT_FOR_BUFFER"
    BY <1>7 DEF ParkedSubmitted
  <2>2. Mid(b', g.past) BY <1>1, <1>7, <2>1, SubmittedMid
  <2>3. Mid(b', g'.past) BY <1>5, <2>2, PastGrows
  <2>4. ~Usual(g'.past, Taken) BY <1>2, <1>5, <1>7 DEF Usual, Taken
  <2>5. state' \in SyncState BY <2>1 DEF SyncState
  <2>6. Good(b', state', call', g'.past) BY <2>1, <2>3, <2>4, <2>5, LoopingIdle, IdleGood
  <2> QED BY <1>5, <2>6, WriterInv DEF ParkedSubmitted, usbVars, threadVars, Inv, TypeOK, Ghosts
<1> QED BY <1>1, <1>6, <1>7

LEMMA LoopSubmittedInv ==
  ASSUME Inv, LoopSubmitted
  PROVE  Inv'
<1> USE Rest
<1>1. /\ call.pc = "submitted" /\ call.why = "loop" /\ call.idx \in Slots
      /\ state = "WAIT_FOR_BUFFER"
  BY DEF LoopSubmitted, Inv, Route, Busy
<1>2. LeftBehind \in SUBSET Kinds BY DEF LeftBehind, Kinds
<1>3. g' \in Ghosts /\ g.past \subseteq g'.past
  <2>1. g' = [g EXCEPT !.past = @ \cup LeftBehind] BY DEF LoopSubmitted
  <2> QED BY <1>2, <2>1, PastType
<1>4. PICK r : r = IF call.res = "ok" THEN Reclaimed(b, call.idx)
                   ELSE NotReclaimed(b, call.idx)
  OBVIOUS
<1>5. Mid(r, g.past) BY <1>1, <1>4, SubmittedMid
<1>6. Good(b', state', call', g.past)
  <2>1. CASE call.res = "error"
    <3>1. b' = r /\ call' = NoCall /\ state' = state BY <1>4, <2>1 DEF LoopSubmitted
    <3>2. Filling(b', state', call') BY <1>1, <3>1 DEF Filling
    <3> QED BY <1>5, <3>1, <3>2, LoopingIdle, IdleGood
  <2>2. CASE call.res # "error" /\ r.cons_i = call.before
    <3>1. WaitOrGo(r, call) BY <1>4, <2>2 DEF LoopSubmitted
    <3> QED BY <1>1, <1>5, <3>1, WaitOrGoGood
  <2>3. CASE call.res # "error" /\ r.cons_i # call.before
    <3>1. ReclaimLoop(r, call) BY <1>4, <2>3 DEF LoopSubmitted
    <3> QED BY <1>1, <1>5, <3>1, ReclaimLoopGood
  <2> QED BY <2>1, <2>2, <2>3
<1> QED BY <1>3, <1>6, AnswerInv DEF LoopSubmitted

LEMMA LateSubmittedInv ==
  ASSUME Inv, LateSubmitted
  PROVE  Inv'
<1> USE Rest
<1>1. /\ call.pc = "submitted" /\ call.why = "late" /\ call.idx \in Slots
      /\ state = "WAIT_FOR_BUFFER"
  BY DEF LateSubmitted, Inv, Route, Busy
<1>2. LeftBehind \in SUBSET Kinds BY DEF LeftBehind, Kinds
<1>3. g' \in Ghosts /\ g.past \subseteq g'.past
  <2>1. g' = [g EXCEPT !.past = @ \cup LeftBehind] BY DEF LateSubmitted
  <2> QED BY <1>2, <2>1, PastType
<1>4. b' = IF call.res = "ok" THEN Reclaimed(b, call.idx) ELSE NotReclaimed(b, call.idx)
  BY DEF LateSubmitted
<1>5. Mid(b', g.past) BY <1>1, <1>4, SubmittedMid
<1>6. call' \in {Looping(call), NoCall} /\ state' = state BY DEF LateSubmitted
<1>7. call' \in Calls /\ ~Busy(call') /\ call'.pc \in {"top", "none"}
  BY <1>6, LoopingIdle
<1>8. Filling(b', state', call') BY <1>1, <1>6 DEF Filling
<1>9. Good(b', state', call', g.past) BY <1>5, <1>6, <1>7, <1>8, IdleGood
<1> QED BY <1>3, <1>9, AnswerInv DEF LateSubmitted

\* cases SYNC_STATE_USING_BUFFER*: what is copied stays inside the buffer.
LEMMA UsingBufferInv ==
  ASSUME Inv, UsingBuffer
  PROVE  Inv'
<1> USE Rest
<1> DEFINE room   == Units - b.partial_off
           n      == IF call.want < room THEN call.want ELSE room
           closes == call.flush /\ call.want = n
           full   == Format = "PACKET" \/ closes \/ n = room
           want   == IF Format = "PACKET" THEN 0 ELSE call.want - n
           flush  == call.flush /\ ~closes
           off    == IF full /\ Format # "PACKET" THEN Units
                     ELSE IF full THEN b.partial_off ELSE b.partial_off + n
           again  == room = 0
<1>1. /\ call.pc = "case" /\ state = "USING_BUFFER"
      /\ UNCHANGED <<usb, cb, stream, worker, err, startReq, adm, cnt>>
  BY DEF UsingBuffer, threadVars
<1>2. Units \in Nat /\ b.partial_off \in 0 .. Units /\ call.want \in Nat /\ call.flush \in BOOLEAN
  BY Sizes DEF BufferMgmt, Calls
<1>3. room \in Nat /\ n \in Nat /\ n <= room /\ n <= call.want BY <1>2
<1>4. off \in 0 .. Units /\ want \in Nat BY <1>2, <1>3
<1>5. PICK c : c = [call EXCEPT !.want = want, !.flush = flush] OBVIOUS
<1>6. PICK f : f = [b EXCEPT !.partial_off = off] OBVIOUS
<1>7. flush \in BOOLEAN BY <1>2
<1>8. \/ /\ full /\ Advance(f, c)
         /\ data' = IF again THEN data ELSE [data EXCEPT ![b.prod_i] = g.next]
         /\ g' = [g EXCEPT !.next = IF again THEN g.next ELSE (g.next + 1) % DataMod,
                           !.old = IF again THEN g.old ELSE g.old \ {b.prod_i}]
      \/ /\ ~full /\ b' = f /\ call' = Looping(c)
         /\ UNCHANGED <<state, data, g>>
  BY <1>5, <1>6 DEF UsingBuffer
<1> HIDE DEF room, n, closes, full, want, flush, off, again
<1>9. c \in Calls /\ c.pc = "case" BY <1>1, <1>4, <1>5, <1>7 DEF Calls
<1>10. /\ f \in BufferMgmt /\ f.status = b.status /\ f.prod_i = b.prod_i
       /\ f.cons_i = b.cons_i /\ f.submitter = b.submitter /\ b.prod_i \in Slots
  BY <1>4, <1>6 DEF BufferMgmt
<1>11. Mid(b, g.past) BY <1>1, NowGood, IdleMid DEF Held
<1>12. Mid(f, g.past) BY <1>10, <1>11, SameFlight DEF Mid
<1>13. Usual(g.past, Taken) => b.status[b.prod_i] = "PARTIAL"
  BY <1>1 DEF Inv, Owned, Filling, Busy
<1>14. startReq' \in BOOLEAN BY <1>1 DEF Inv, TypeOK
<1>15. CASE full
  <2>1. Good(b', state', call', g.past)
    BY <1>1, <1>8, <1>9, <1>10, <1>12, <1>13, <1>15, AdvanceGood
  <2>2. data' \in [Slots -> Datas]
    BY <1>8, <1>10, <1>15 DEF Ghosts
  <2>3. g' \in Ghosts /\ g'.past = g.past
    <3>1. g.next \in Datas /\ (g.next + 1) % DataMod \in Datas BY Wrapped DEF Ghosts
    <3>2. g.old \subseteq Slots /\ g.old \ {b.prod_i} \subseteq Slots BY DEF Ghosts
    <3>3. PICK x \in Datas : x = IF again THEN g.next ELSE (g.next + 1) % DataMod BY <3>1
    <3>4. PICK o \in SUBSET Slots : o = IF again THEN g.old ELSE g.old \ {b.prod_i} BY <3>2
    <3>5. g' = [g EXCEPT !.next = x, !.old = o] BY <1>8, <1>15, <3>3, <3>4
    <3> QED BY <3>3, <3>4, <3>5 DEF Ghosts
  <2> QED BY <1>1, <1>14, <2>1, <2>2, <2>3, WriterInv DEF Ghosts
<1>16. CASE ~full
  <2>1. b' = f /\ call' = Looping(c) /\ UNCHANGED <<state, data, g>> BY <1>8, <1>16
  <2>2. Usual(g.past, Taken) => Filling(b', state', call')
    BY <1>1, <1>10, <1>13, <2>1 DEF Filling
  <2>3. Good(b', state', call', g'.past)
    BY <1>9, <1>12, <2>1, <2>2, LoopingIdle, IdleGood
  <2> QED BY <1>1, <1>14, <2>1, <2>3, WriterInv DEF Ghosts
<1> QED BY <1>15, <1>16

-----------------------------------------------------------------------------
(* The queue of the endpoint.                                              *)

Apart(u) == \A j, k \in 1 .. Len(u) : u[j].slot = u[k].slot => j = k
On(i, u) == \E k \in 1 .. Len(u) : u[k].slot = i

LEMMA AppendOn ==
  ASSUME NEW u \in Seq(Transfers), NEW y \in Transfers
  PROVE  /\ Append(u, y) \in Seq(Transfers) /\ Append(u, y) # <<>>
         /\ Len(Append(u, y)) = Len(u) + 1 /\ Len(u) \in Nat
         /\ \A i : On(i, Append(u, y)) <=> On(i, u) \/ i = y.slot
         /\ Apart(u) /\ ~On(y.slot, u) => Apart(Append(u, y))
<1>1. PICK v : v = Append(u, y) OBVIOUS
<1>2. /\ v \in Seq(Transfers) /\ v # <<>> /\ Len(v) = Len(u) + 1 /\ Len(u) \in Nat
      /\ \A k \in 1 .. Len(u) : v[k] = u[k]
      /\ v[Len(u) + 1] = y
  BY <1>1, AppendProperties, LenProperties
<1>3. ASSUME NEW i PROVE On(i, v) <=> On(i, u) \/ i = y.slot
  <2>1. ASSUME On(i, v) PROVE On(i, u) \/ i = y.slot
    <3>1. PICK k \in 1 .. Len(v) : v[k].slot = i BY <2>1 DEF On
    <3>2. k \in 1 .. Len(u) \/ k = Len(u) + 1 BY <1>2, <3>1
    <3> QED BY <1>2, <3>1, <3>2 DEF On
  <2>2. ASSUME On(i, u) PROVE On(i, v)
    <3>1. PICK k \in 1 .. Len(u) : u[k].slot = i BY <2>2 DEF On
    <3>2. k \in 1 .. Len(v) BY <1>2, <3>1
    <3> QED BY <1>2, <3>1, <3>2 DEF On
  <2>3. ASSUME i = y.slot PROVE On(i, v)
    <3>1. Len(u) + 1 \in 1 .. Len(v) BY <1>2
    <3> QED BY <1>2, <2>3, <3>1 DEF On
  <2> QED BY <2>1, <2>2, <2>3
<1>4. ASSUME Apart(u), ~On(y.slot, u), NEW j \in 1 .. Len(v), NEW k \in 1 .. Len(v),
             v[j].slot = v[k].slot
      PROVE  j = k
  <2>1. j \in 1 .. Len(u) \/ j = Len(u) + 1 BY <1>2
  <2>2. k \in 1 .. Len(u) \/ k = Len(u) + 1 BY <1>2
  <2> QED BY <1>2, <1>4, <2>1, <2>2 DEF On, Apart
<1> QED BY <1>1, <1>2, <1>3, <1>4 DEF Apart

LEMMA TailOn ==
  ASSUME NEW u \in Seq(Transfers), u # <<>>
  PROVE  /\ Tail(u) \in Seq(Transfers) /\ Head(u) \in Transfers
         /\ Len(Tail(u)) = Len(u) - 1 /\ Len(u) \in Nat \ {0} /\ Len(Tail(u)) \in Nat
         /\ \A i : On(i, u) <=> On(i, Tail(u)) \/ i = Head(u).slot
         /\ Apart(u) => Apart(Tail(u)) /\ ~On(Head(u).slot, Tail(u))
<1>1. PICK v : v = Tail(u) OBVIOUS
<1>2. /\ v \in Seq(Transfers) /\ Head(u) \in Transfers /\ Len(u) \in Nat \ {0}
      /\ Len(v) = Len(u) - 1
  BY <1>1, HeadTailProperties, EmptySeq, LenProperties
<1>3. /\ u[1] = Head(u) /\ 1 \in 1 .. Len(u)
      /\ \A k \in 1 .. Len(v) : v[k] = u[k + 1] /\ k + 1 \in 1 .. Len(u)
  <2>1. u[1] = Head(u) /\ 1 \in 1 .. Len(u) BY <1>2, HeadTailProperties
  <2>2. \A k \in 1 .. Len(v) : v[k] = u[k + 1] /\ k + 1 \in 1 .. Len(u)
    BY <1>1, <1>2, HeadTailProperties
  <2> QED BY <2>1, <2>2
<1>4. ASSUME NEW i PROVE On(i, u) <=> On(i, v) \/ i = Head(u).slot
  <2>1. ASSUME On(i, u) PROVE On(i, v) \/ i = Head(u).slot
    <3>1. PICK k \in 1 .. Len(u) : u[k].slot = i BY <2>1 DEF On
    <3>2. CASE k = 1 BY <1>3, <3>1, <3>2
    <3>3. CASE k # 1
      <4>1. k - 1 \in 1 .. Len(v) /\ (k - 1) + 1 = k BY <1>2, <3>1, <3>3
      <4> QED BY <1>3, <3>1, <4>1 DEF On
    <3> QED BY <3>2, <3>3
  <2>2. ASSUME On(i, v) PROVE On(i, u)
    <3>1. PICK k \in 1 .. Len(v) : v[k].slot = i BY <2>2 DEF On
    <3> QED BY <1>3, <3>1 DEF On
  <2>3. ASSUME i = Head(u).slot PROVE On(i, u) BY <1>3, <2>3 DEF On
  <2> QED BY <2>1, <2>2, <2>3
<1>5. ASSUME Apart(u) PROVE Apart(v) /\ ~On(Head(u).slot, v)
  <2>1. ASSUME NEW j \in 1 .. Len(v), NEW k \in 1 .. Len(v), v[j].slot = v[k].slot
        PROVE  j = k
    <3>1. j + 1 = k + 1 BY <1>3, <1>5, <2>1 DEF Apart
    <3> QED BY <1>2, <3>1
  <2>2. ASSUME NEW k \in 1 .. Len(v), v[k].slot = Head(u).slot PROVE FALSE
    <3>1. k + 1 = 1 BY <1>3, <1>5, <2>2 DEF Apart
    <3> QED BY <1>2, <3>1
  <2> QED BY <2>1, <2>2 DEF Apart, On
<1>6. Len(v) \in Nat BY <1>2
<1> QED BY <1>1, <1>2, <1>4, <1>5, <1>6

\* The same predicates in these terms.
LEMMA OutOn ==
  ASSUME NEW u, NEW x, NEW bb, NEW rej
  PROVE  /\ \A i : Out(i, u, x) <=> On(i, u) \/ x.slot = i
         /\ RingOwned(bb, u, x, rej) <=>
              /\ \A i \in Slots : Out(i, u, x) => bb.status[i] = "IN_FLIGHT"
              /\ Apart(u) /\ ~On(x.slot, u)
              /\ rej # NoSlot => bb.status[rej] = "IN_FLIGHT"
BY DEF Out, On, RingOwned, Apart

-----------------------------------------------------------------------------
(* Submit.                                                                 *)

LEMMA SubmitInv ==
  ASSUME Inv, Submit
  PROVE  Inv'
<1> USE Rest
<1>1. /\ call.pc = "submit" /\ call.idx \in Slots /\ call.why # "none"
      /\ UNCHANGED <<b, data, cb, stream, worker, err, startReq, state>>
  BY DEF Submit, Inv, Route, Busy
<1>2. PICK r \in {"ok", "would_block", "error"} :
         call' = [call EXCEPT !.pc = "submitted", !.res = r]
  BY DEF Submit
<1>3. /\ call' \in Calls /\ call'.pc = "submitted" /\ call'.res = r
      /\ call'.idx = call.idx /\ call'.why = call.why
  BY <1>2 DEF Calls
<1>4. Route(b', state', call')
  BY <1>1, <1>2, <1>3 DEF Inv, Route, Busy
<1>5. startReq' \in BOOLEAN BY <1>1 DEF Inv, TypeOK
<1>6. /\ adm' \in [valid : BOOLEAN, gen : 0 .. MaxGen]
      /\ cnt' \in [fails : 0 .. MaxFails, stalls : 0 .. MaxStalls, ends : 0 .. MaxEnds]
  <2>1. CASE adm' = adm /\ cnt' = cnt BY <2>1
  <2>2. CASE /\ cnt.fails < MaxFails /\ (Admission => adm.gen < MaxGen)
             /\ cnt' = [cnt EXCEPT !.fails = @ + 1]
             /\ adm' = IF Admission THEN Revoked(adm) ELSE adm
    <3>1. cnt.fails + 1 \in 0 .. MaxFails BY <2>2, Sizes
    <3>2. Admission => adm.gen + 1 \in 0 .. MaxGen BY <2>2, Sizes
    <3> QED BY <2>2, <3>1, <3>2 DEF Revoked
  <2> QED BY <2>1, <2>2 DEF Submit
<1>7. CASE r # "ok"
  <2>1. usb' = usb /\ g' = g
    <3>1. call'.res # "ok" BY <1>3, <1>7
    <3>2. [call EXCEPT !.pc = "submitted", !.res = "ok"].res = "ok" BY DEF Calls
    <3> QED BY <3>1, <3>2 DEF Submit
  <2>2. Held(call) /\ Held(call') BY <1>1, <1>3, <1>7 DEF Held
  <2>3. Usual(g.past, Taken) => Owned(b', usb, cb, stream.rejected, state', call')
    BY <1>1, <1>3, <2>2 DEF Inv, Owned, WriterOwned, Filling, Busy
  <2>4. Usual(g.past, Stolen) /\ Runs(stream, worker) => Placed(b', usb, cb, call')
    BY <1>1, <1>3, <2>2 DEF Inv, Placed
  <2>5. Good(b', state', call', g'.past) BY <1>1, <1>3, <1>4, <2>1, <2>3, <2>4 DEF Good
  <2> QED BY <1>1, <1>5, <1>6, <2>1, <2>5, WriterInv DEF Ghosts
<1>8. CASE r = "ok"
  <2> DEFINE y == [slot |-> call.idx, gen |-> adm.gen]
             K == IF cb.at = "none" THEN {} ELSE {"disordered"}
  <2>1. /\ stream.state = "RUNNING" /\ Submittable > 0
        /\ usb' = Append(usb, y)
        /\ Sends(call.idx, K)
    <3>1. call'.res = "ok" BY <1>3, <1>8
    <3>2. /\ [call EXCEPT !.pc = "submitted", !.res = "would_block"].res = "would_block"
          /\ [call EXCEPT !.pc = "submitted", !.res = "error"].res = "error"
      BY DEF Calls
    <3> QED BY <3>1, <3>2 DEF Submit
  <2>2. y \in Transfers /\ y.slot = call.idx BY <1>1 DEF Transfers
  <2>3. usb \in Seq(Transfers) /\ cb \in Callback BY DEF Inv, TypeOK, Callback
  <2> HIDE DEF y
  <2>4. /\ usb' \in Seq(Transfers) /\ Len(usb') = Len(usb) + 1 /\ Len(usb) \in Nat
        /\ \A i : On(i, usb') <=> On(i, usb) \/ i = call.idx
        /\ Apart(usb) /\ ~On(call.idx, usb) => Apart(usb')
    BY <2>1, <2>2, <2>3, AppendOn
  <2>5. Len(usb') <= T /\ (cb.at # "none" => Len(usb') < T)
    <3>1. CASE cb.at = "none" BY <2>1, <2>4, <3>1, Sizes DEF Submittable
    <3>2. CASE cb.at = "check" BY <2>1, <2>4, <3>2, Sizes DEF Submittable
    <3>3. CASE cb.at = "usb" BY <2>1, <2>4, <3>3, Sizes DEF Submittable
    <3> QED BY <2>3, <3>1, <3>2, <3>3 DEF Callback
  <2>6. Pool(usb', cb', stream', worker')
    BY <1>1, <2>1, <2>5 DEF Inv, Pool
  <2>7. g' \in Ghosts /\ g'.past = g.past \cup K
    <3>1. K \in SUBSET Kinds /\ data[call.idx] \in Datas BY <1>1 DEF Kinds
    <3>2. g' = [g EXCEPT !.sent = data[call.idx], !.past = @ \cup K] BY <2>1 DEF Sends
    <3> HIDE DEF K
    <3> QED BY <3>1, <3>2 DEF Ghosts
  <2>8. Held(call) /\ ~Held(call') /\ Busy(call') BY <1>1, <1>3, <1>8 DEF Held, Busy
  <2>9. ASSUME Usual(g'.past, Taken)
        PROVE  Owned(b', usb', cb', stream'.rejected, state', call')
    <3>1. Usual(g.past, Taken) BY <2>7, <2>9 DEF Usual
    <3>2. /\ RingOwned(b, usb, cb, stream.rejected) /\ Filling(b, state, call)
          /\ b.status[call.idx] = "IN_FLIGHT" /\ ~Out(call.idx, usb, cb)
      BY <3>1, <2>8 DEF Inv, Owned, WriterOwned
    <3>3. RingOwned(b, usb', cb, stream.rejected) BY <2>4, <3>2, OutOn
    <3>4. Filling(b, state, call') BY <3>2, <2>8, <1>1 DEF Filling, Busy
    <3> QED BY <1>1, <2>8, <3>3, <3>4 DEF Owned, WriterOwned
  <2>10. ASSUME Usual(g'.past, Stolen), Runs(stream', worker')
         PROVE  Placed(b', usb', cb', call')
    <3>1. Usual(g.past, Stolen) BY <2>7, <2>10 DEF Usual
    <3>2. Placed(b, usb, cb, call) BY <1>1, <2>10, <3>1 DEF Inv
    <3>3. \A i : Out(i, usb', cb) <=> Out(i, usb, cb) \/ i = call.idx BY <2>4, OutOn
    <3> QED BY <1>1, <3>2, <3>3 DEF Placed
  <2>11. TypeOK'
    BY <1>1, <1>3, <1>6, <2>4, <2>5, <2>7 DEF Inv, TypeOK, Ghosts
  <2> QED BY <1>4, <2>6, <2>9, <2>10, <2>11 DEF Inv
<1> QED BY <1>7, <1>8

-----------------------------------------------------------------------------
(* The USB event thread.                                                   *)

\* The writer may be woken; nothing else of its call changes.
Same(c, d) == d \in Calls /\ (d = c \/ (c.pc = "wait" /\ d.pc = "woken"))

LEMMA WakeSame ==
  ASSUME Inv, NEW sig, Wake(sig) \/ UNCHANGED call
  PROVE  Same(call, call')
<1>1. call' = call \/ (call.pc = "wait" /\ call' = [call EXCEPT !.pc = "woken"])
  BY DEF Wake
<1> QED BY <1>1, Rest DEF Same, Calls

LEMMA SameKeeps ==
  ASSUME NEW c, NEW d, Same(c, d), NEW bb, NEW st, NEW u, NEW x, NEW rej
  PROVE  /\ Route(bb, st, c) => Route(bb, st, d)
         /\ Owned(bb, u, x, rej, st, c) => Owned(bb, u, x, rej, st, d)
         /\ Placed(bb, u, x, c) => Placed(bb, u, x, d)
         /\ Busy(c) <=> Busy(d)
BY DEF Same, Route, Owned, WriterOwned, Filling, Placed, Held, Busy

\* What a step of another thread has to show.
LEMMA ThreadInv ==
  ASSUME Inv, Same(call, call'), UNCHANGED state, TypeOK',
         b'.submitter = "CALLBACK" => b'.cons_i # NoSlot, b'.prod_i = b.prod_i,
         Pool(usb', cb', stream', worker'), g.past \subseteq g'.past,
         Usual(g'.past, Taken) => Owned(b', usb', cb', stream'.rejected, state, call),
         Usual(g'.past, Stolen) /\ Runs(stream', worker') => Placed(b', usb', cb', call)
  PROVE  Inv'
<1>1. Route(b', state', call') BY SameKeeps DEF Inv, Route, Busy
<1>2. Usual(g'.past, Taken) => Owned(b', usb', cb', stream'.rejected, state', call')
  BY SameKeeps
<1>3. Usual(g'.past, Stolen) /\ Runs(stream', worker') => Placed(b', usb', cb', call')
  BY SameKeeps
<1> QED BY <1>1, <1>2, <1>3 DEF Inv

\* tx_callback() frees slot i and may take a FULL slot.
LEMMA TxCallbackRing ==
  ASSUME NEW bb \in BufferMgmt, bb.submitter = "CALLBACK" => bb.cons_i # NoSlot,
         NEW i \in Slots, NEW t, t = TxCallback(bb, i)
  PROVE  /\ t.ring \in BufferMgmt /\ t.ring.prod_i = bb.prod_i
         /\ t.ring.submitter = "CALLBACK" => t.ring.cons_i # NoSlot
         /\ t.ships \in Slots \cup {NoSlot}
         /\ t.ships # NoSlot => /\ bb.status[t.ships] = "FULL" /\ t.ships # i
                                /\ t.ring.status[t.ships] = "IN_FLIGHT"
         /\ t.ring.status[i] = "EMPTY"
         /\ \A j \in Slots \ {i, t.ships} : t.ring.status[j] = bb.status[j]
<1>1. PICK e : e = [bb EXCEPT !.status[i] = "EMPTY"] OBVIOUS
<1>2. /\ e \in BufferMgmt /\ e.submitter = bb.submitter /\ e.cons_i = bb.cons_i
      /\ e.prod_i = bb.prod_i /\ e.status[i] = "EMPTY"
      /\ \A j \in Slots \ {i} : e.status[j] = bb.status[j]
  <2>1. "EMPTY" \in Status BY DEF Status
  <2> QED BY <1>1, <2>1, SetStatus
<1>3. NoSlot \notin Slots BY Wrapped
<1>4. CASE e.submitter = "FN"
  <2>1. t = [ring |-> e, ships |-> NoSlot] BY <1>1, <1>4 DEF TxCallback
  <2>2. t.ring = e /\ t.ships = NoSlot BY <2>1
  <2> QED BY <1>2, <1>4, <2>2
<1>5. CASE e.submitter # "FN" /\ e.status[e.cons_i] = "FULL"
  <2>1. e.cons_i \in Slots /\ Next1(e.cons_i) \in Slots
    BY <1>2, <1>5, Wrapped DEF BufferMgmt
  <2>2. PICK r : r = [e EXCEPT !.status[e.cons_i] = "IN_FLIGHT", !.cons_i = Next1(e.cons_i)]
    OBVIOUS
  <2>3. t = [ring |-> r, ships |-> e.cons_i] BY <1>1, <1>5, <2>2 DEF TxCallback
  <2>4. t.ring = r /\ t.ships = e.cons_i BY <2>3
  <2>5. /\ r \in BufferMgmt /\ r.prod_i = e.prod_i /\ r.cons_i \in Slots
        /\ r.status[e.cons_i] = "IN_FLIGHT"
        /\ \A j \in Slots \ {e.cons_i} : r.status[j] = e.status[j]
    BY <1>2, <2>1, <2>2 DEF BufferMgmt, Status
  <2>6. e.cons_i # i BY <1>2, <1>5
  <2> QED BY <1>2, <1>3, <1>5, <2>1, <2>4, <2>5, <2>6
<1>6. CASE e.submitter # "FN" /\ e.status[e.cons_i] # "FULL"
  <2>1. t = [ring |-> HandBack(e), ships |-> NoSlot] BY <1>1, <1>6 DEF TxCallback
  <2>2. t.ring = HandBack(e) /\ t.ships = NoSlot BY <2>1
  <2>3. /\ HandBack(e) \in BufferMgmt /\ HandBack(e).submitter = "FN"
        /\ HandBack(e).status = e.status /\ HandBack(e).prod_i = e.prod_i
    BY <1>2 DEF HandBack, BufferMgmt
  <2> QED BY <1>2, <2>2, <2>3
<1> QED BY <1>4, <1>5, <1>6

\* Slots on USB are slots.
LEMMA OnSlots ==
  ASSUME NEW u \in Seq(Transfers), NEW i, On(i, u)
  PROVE  i \in Slots
<1>1. PICK k \in 1 .. Len(u) : u[k].slot = i BY DEF On
<1>2. u[k] \in Transfers BY <1>1, ElementOfSeq
<1> QED BY <1>1, <1>2 DEF Transfers

LEMMA NoCbType ==
  NoCb \in Callback /\ NoCb.slot = NoSlot /\ NoCb.at = "none"
BY Sizes DEF NoCb, Callback

\* What Handles says of the pool.
LEMMA HandlesPool ==
  ASSUME Inv, Handles
  PROVE  /\ usb \in Seq(Transfers) /\ usb # <<>> /\ cb \in Callback /\ cb.slot = NoSlot
         /\ cb.at = "none" /\ worker = "LOOP" /\ Len(usb) <= T
         /\ Head1 \in Transfers /\ Head1.slot \in Slots /\ Head1.gen \in 0 .. MaxGen
         /\ Tail(usb) \in Seq(Transfers) /\ Len(Tail(usb)) < T /\ Len(Tail(usb)) \in Nat
         /\ Len(Tail(usb)) < Len(usb) /\ Len(usb) \in Nat
         /\ \A i : On(i, usb) <=> On(i, Tail(usb)) \/ i = Head1.slot
         /\ Apart(usb) => Apart(Tail(usb)) /\ ~On(Head1.slot, Tail(usb))
         /\ \A i : Out(i, usb, cb) /\ i \in Slots <=> On(i, usb)
         /\ ~On(NoSlot, usb) /\ ~On(NoSlot, Tail(usb))
<1>1. /\ usb \in Seq(Transfers) /\ usb # <<>> /\ cb \in Callback /\ cb.slot = NoSlot
      /\ cb.at = "none" /\ worker = "LOOP" /\ Len(usb) <= T
  BY DEF Inv, TypeOK, Callback, Handles, Pool
<1>2. /\ Tail(usb) \in Seq(Transfers) /\ Head1 \in Transfers
      /\ Len(Tail(usb)) = Len(usb) - 1 /\ Len(usb) \in Nat \ {0} /\ Len(Tail(usb)) \in Nat
      /\ \A i : On(i, usb) <=> On(i, Tail(usb)) \/ i = Head1.slot
      /\ Apart(usb) => Apart(Tail(usb)) /\ ~On(Head1.slot, Tail(usb))
  BY <1>1, TailOn DEF Head1
<1>3. Head1.slot \in Slots /\ Head1.gen \in 0 .. MaxGen BY <1>2 DEF Transfers
<1>4. Len(Tail(usb)) < T /\ Len(Tail(usb)) < Len(usb) BY <1>1, <1>2, Sizes
<1>5. ~On(NoSlot, usb) /\ ~On(NoSlot, Tail(usb)) BY <1>1, <1>2, OnSlots, Wrapped
<1>6. \A i : Out(i, usb, cb) /\ i \in Slots <=> On(i, usb)
  BY <1>1, OutOn, OnSlots, Wrapped
<1> QED BY <1>1, <1>2, <1>3, <1>4, <1>5, <1>6

LEMMA CompletedInv ==
  ASSUME Inv, Completed
  PROVE  Inv'
<1> USE Rest
<1>1. /\ Handles /\ stream.state = "RUNNING" /\ usb' = Tail(usb)
      /\ UNCHANGED <<data, worker, err, startReq, adm, state, cnt>>
      /\ Same(call, call')
  BY WakeSame DEF Completed, threadVars
<1> USE HandlesPool
<1>2. PICK i \in Slots : i = Head1.slot BY <1>1
<1>3. PICK t : t = TxCallback(b, i) OBVIOUS
<1>4. b.submitter = "CALLBACK" => b.cons_i # NoSlot BY DEF Inv, Route
<1>5. /\ t.ring \in BufferMgmt /\ t.ring.prod_i = b.prod_i
      /\ t.ring.submitter = "CALLBACK" => t.ring.cons_i # NoSlot
      /\ t.ships \in Slots \cup {NoSlot}
      /\ t.ships # NoSlot => /\ b.status[t.ships] = "FULL" /\ t.ships # i
                             /\ t.ring.status[t.ships] = "IN_FLIGHT"
      /\ t.ring.status[i] = "EMPTY"
      /\ \A j \in Slots \ {i, t.ships} : t.ring.status[j] = b.status[j]
  BY <1>3, <1>4, TxCallbackRing
<1>6. PICK K \in SUBSET Kinds : g' = [g EXCEPT !.past = @ \cup K]
  <2>1. PICK K : /\ K = IF b.submitter = "CALLBACK" /\ t.ships = NoSlot
                           /\ Full(t.ring) # {} THEN {"disordered"} ELSE {}
                 /\ g' = [g EXCEPT !.past = @ \cup K]
    BY <1>2, <1>3 DEF Completed
  <2>2. K \in SUBSET Kinds BY <2>1 DEF Kinds
  <2> QED BY <2>1, <2>2
<1>7. g' \in Ghosts /\ g'.past = g.past \cup K BY <1>6, PastType
<1>8. b' = t.ring BY <1>2, <1>3 DEF Completed
<1>9. \/ /\ cb' = NoCb /\ t.ships = NoSlot /\ stream' = stream
      \/ /\ t.ships # NoSlot /\ stream' = stream
         /\ cb' = [slot |-> t.ships, gen |-> Head1.gen,
                   at |-> IF Admission THEN "check" ELSE "usb"]
      \/ /\ cb' = cb
         /\ stream' = [state |-> "SHUTTING_DOWN", error |-> "would_block",
                       rejected |-> t.ships]
  BY <1>2, <1>3 DEF Completed, Ends
<1>10. /\ cb' \in Callback /\ stream' \in StreamType
       /\ cb'.at = "none" <=> cb'.slot = NoSlot
       /\ cb'.slot \in {t.ships, NoSlot} /\ stream'.rejected \in {t.ships, NoSlot}
       /\ stream'.state \in {"RUNNING", "SHUTTING_DOWN"}
       /\ stream'.state = "RUNNING" => cb'.slot = t.ships /\ stream'.rejected = NoSlot
       /\ cb'.at # "none" => stream'.state = "RUNNING"
  <2>1. stream.rejected = NoSlot BY <1>1 DEF Inv, Pool
  <2>2. cb.slot = NoSlot /\ cb.at = "none" /\ cb \in Callback BY <1>1
  <2>3. CASE cb' = NoCb /\ t.ships = NoSlot /\ stream' = stream
    BY <1>1, <2>1, <2>3, NoCbType
  <2>4. CASE /\ t.ships # NoSlot /\ stream' = stream
             /\ cb' = [slot |-> t.ships, gen |-> Head1.gen,
                       at |-> IF Admission THEN "check" ELSE "usb"]
    <3>1. Head1.gen \in 0 .. MaxGen BY <1>1
    <3>2. (IF Admission THEN "check" ELSE "usb") \in {"check", "usb"} OBVIOUS
    <3>3. /\ cb'.slot = t.ships /\ cb'.at \in {"check", "usb"} /\ cb' \in Callback
      BY <1>5, <2>4, <3>1, <3>2 DEF Callback
    <3> QED BY <1>1, <2>1, <2>4, <3>3
  <2>5. CASE /\ cb' = cb
             /\ stream' = [state |-> "SHUTTING_DOWN", error |-> "would_block",
                           rejected |-> t.ships]
    <3>1. /\ stream' \in StreamType /\ stream'.state = "SHUTTING_DOWN"
          /\ stream'.rejected = t.ships
      BY <1>5, <2>5 DEF StreamType, StreamState
    <3> QED BY <2>2, <2>5, <3>1
  <2> QED BY <1>9, <2>3, <2>4, <2>5
<1>11. Pool(usb', cb', stream', worker')
  BY <1>1, <1>10 DEF Pool
<1>12. TypeOK'
  <2>1. usb' \in Seq(Transfers) /\ Len(usb') <= T BY <1>1, Sizes
  <2>2. worker' = worker /\ err' = err /\ startReq' = startReq /\ adm' = adm BY <1>1
  <2> QED BY <1>1, <1>5, <1>7, <1>8, <1>10, <2>1, <2>2
          DEF Inv, TypeOK, Same, Callback, StreamType, Ghosts
<1>13. ASSUME Usual(g'.past, Taken)
       PROVE  Owned(b', usb', cb', stream'.rejected, state, call)
  <2>1. Usual(g.past, Taken) BY <1>7, <1>13 DEF Usual
  <2>2. /\ RingOwned(b, usb, cb, stream.rejected) /\ Filling(b, state, call)
        /\ WriterOwned(b, usb, cb, stream.rejected, call)
    BY <2>1 DEF Inv, Owned
  <2>3. /\ Apart(usb) /\ \A j : On(j, usb) => b.status[j] = "IN_FLIGHT"
    BY <1>1, <2>2, OutOn
  <2>4. Apart(usb') /\ ~On(i, usb') /\ On(i, usb) /\ b.status[i] = "IN_FLIGHT"
        /\ \A j : On(j, usb') => On(j, usb) /\ j \in Slots /\ j # i /\ j # t.ships
    BY <1>1, <1>2, <1>5, <2>3, OnSlots, Wrapped
  <2>5. RingOwned(b', usb', cb', stream'.rejected)
    <3>1. \A j \in Slots : Out(j, usb', cb') => b'.status[j] = "IN_FLIGHT"
      <4> SUFFICES ASSUME NEW j \in Slots, Out(j, usb', cb') PROVE b'.status[j] = "IN_FLIGHT"
        OBVIOUS
      <4>1. CASE On(j, usb') BY <1>5, <1>8, <2>3, <2>4, <4>1
      <4>2. CASE cb'.slot = j BY <1>5, <1>8, <1>10, <4>2, Wrapped
      <4> QED BY <4>1, <4>2, OutOn
    <3>2. ~On(cb'.slot, usb') BY <1>1, <1>10, <2>4
    <3>3. stream'.rejected # NoSlot => b'.status[stream'.rejected] = "IN_FLIGHT"
      BY <1>5, <1>8, <1>10
    <3> QED BY <2>4, <3>1, <3>2, <3>3, OutOn
  <2>6. WriterOwned(b', usb', cb', stream'.rejected, call)
    <3> SUFFICES ASSUME Held(call)
                 PROVE  /\ b'.status[call.idx] = "IN_FLIGHT"
                        /\ ~Out(call.idx, usb', cb') /\ call.idx # stream'.rejected
      BY DEF WriterOwned
    <3>1. call.idx \in Slots BY DEF Inv, Route, Held, Busy
    <3>2. b.status[call.idx] = "IN_FLIGHT" /\ ~Out(call.idx, usb, cb)
      BY <2>2 DEF WriterOwned
    <3>3. call.idx # i /\ call.idx # t.ships /\ ~On(call.idx, usb')
      BY <1>1, <1>2, <1>5, <2>4, <3>1, <3>2, OutOn, Wrapped
    <3>4. b'.status[call.idx] = "IN_FLIGHT" BY <1>5, <1>8, <3>1, <3>2, <3>3
    <3>5. cb'.slot # call.idx /\ call.idx # stream'.rejected BY <1>10, <3>1, <3>3, Wrapped
    <3> QED BY <3>3, <3>4, <3>5, OutOn
  <2>7. Filling(b', state, call)
    <3>1. b.prod_i \in Slots BY DEF BufferMgmt
    <3> QED BY <1>5, <1>8, <2>2, <2>4, <3>1, Wrapped DEF Filling
  <2> QED BY <2>5, <2>6, <2>7 DEF Owned
<1>14. ASSUME Usual(g'.past, Stolen), Runs(stream', worker')
       PROVE  Placed(b', usb', cb', call)
  <2>1. stream'.state = "RUNNING" BY <1>1, <1>14 DEF Runs
  <2>2. Usual(g.past, Stolen) BY <1>7, <1>14 DEF Usual
  <2>3. Placed(b, usb, cb, call) BY <1>1, <2>2 DEF Inv, Runs
  <2> SUFFICES ASSUME NEW j \in Slots, b'.status[j] = "IN_FLIGHT"
               PROVE  Out(j, usb', cb') \/ (Held(call) /\ call.idx = j)
    BY DEF Placed
  <2>4. CASE j = t.ships BY <1>10, <2>1, <2>4, OutOn
  <2>5. CASE j # t.ships
    <3>1. j # i /\ b.status[j] = "IN_FLIGHT" BY <1>5, <1>8, <2>5
    <3>2. Out(j, usb, cb) \/ (Held(call) /\ call.idx = j) BY <2>3, <3>1 DEF Placed
    <3>3. Out(j, usb, cb) => On(j, usb') BY <1>1, <1>2, <3>1
    <3> QED BY <3>2, <3>3, OutOn
  <2> QED BY <2>4, <2>5
<1> QED BY <1>1, <1>5, <1>7, <1>8, <1>11, <1>12, <1>13, <1>14, ThreadInv

\* The stream ends: the ring and what is out keep their state, a slot that was out
\* may be kept as rejected.
LEMMA EndsInv ==
  ASSUME Inv, UNCHANGED <<b, data, threadVars, state, call>>, worker = "LOOP",
         usb' \in Seq(Transfers), Len(usb') <= T, cb' \in Callback, cb'.at = "none",
         cb'.slot = NoSlot,
         \A i : On(i, usb') => On(i, usb), Apart(usb) => Apart(usb'),
         stream' \in StreamType,
         stream'.state \in {"SHUTTING_DOWN", "DONE"}, stream'.state = "DONE" => usb' = <<>>,
         stream'.rejected # NoSlot =>
           /\ stream'.rejected \in Slots
           /\ Out(stream'.rejected, usb, cb) \/ stream'.rejected = stream.rejected,
         g' \in Ghosts, g.past \subseteq g'.past,
         cnt' \in [fails : 0 .. MaxFails, stalls : 0 .. MaxStalls, ends : 0 .. MaxEnds]
  PROVE  Inv'
<1> USE Rest
<1>1. UNCHANGED <<worker, err, startReq, adm>> BY DEF threadVars
<1>2. TypeOK' BY <1>1 DEF Inv, TypeOK, Callback, StreamType, Ghosts
<1>3. Pool(usb', cb', stream', worker') BY <1>1 DEF Pool
<1>4. ASSUME Usual(g'.past, Taken)
      PROVE  Owned(b', usb', cb', stream'.rejected, state, call)
  <2>1. Usual(g.past, Taken) BY <1>4 DEF Usual
  <2>2. /\ RingOwned(b, usb, cb, stream.rejected) /\ Filling(b, state, call)
        /\ WriterOwned(b, usb, cb, stream.rejected, call)
    BY <2>1 DEF Inv, Owned
  <2>3. /\ \A i \in Slots : Out(i, usb', cb') => Out(i, usb, cb)
    BY Wrapped, OutOn
  <2>4. ~On(cb'.slot, usb') BY OnSlots, Wrapped
  <2>5. RingOwned(b', usb', cb', stream'.rejected) BY <2>2, <2>3, <2>4, OutOn
  <2>6. Held(call) => call.idx \in Slots BY DEF Inv, Route, Held, Busy
  <2>7. WriterOwned(b', usb', cb', stream'.rejected, call)
    BY <2>2, <2>3, <2>6, Wrapped DEF WriterOwned
  <2> QED BY <2>2, <2>5, <2>7 DEF Owned
<1>5. ~Runs(stream', worker') BY <1>1 DEF Runs
<1>6. Same(call, call') BY DEF Same
<1>7. /\ b'.submitter = "CALLBACK" => b'.cons_i # NoSlot
      /\ b'.prod_i = b.prod_i
  BY DEF Inv, Route
<1> QED BY <1>2, <1>3, <1>4, <1>5, <1>6, <1>7, ThreadInv

LEMMA EndsType ==
  ASSUME NEW e \in {"would_block", "transport"}, NEW r \in Slots \cup {NoSlot}, Ends(e, r)
  PROVE  stream' \in StreamType /\ stream'.state = "SHUTTING_DOWN" /\ stream'.rejected = r
BY DEF Ends, StreamType, StreamState

LEMMA CallbackCheckedInv ==
  ASSUME Inv, CallbackChecked
  PROVE  Inv'
<1> USE Rest
<1>1. /\ cb \in Callback /\ cb.at = "check" /\ cb.slot \in Slots /\ stream.state = "RUNNING"
      /\ worker = "LOOP" /\ usb \in Seq(Transfers) /\ Len(usb) <= T
      /\ UNCHANGED <<b, data, usb, threadVars, state, call, g, cnt>>
  BY DEF CallbackChecked, Inv, TypeOK, Callback, Pool
<1>2. CASE adm.valid /\ Current(cb.gen)
  <2>1. cb' = [cb EXCEPT !.at = "usb"] /\ stream' = stream BY <1>2 DEF CallbackChecked
  <2>2. cb' \in Callback /\ cb'.slot = cb.slot /\ cb'.at = "usb" BY <1>1, <2>1 DEF Callback
  <2>3. TypeOK' BY <1>1, <2>1, <2>2 DEF Inv, TypeOK, Callback, threadVars
  <2>4. Pool(usb', cb', stream', worker') BY <1>1, <2>1, <2>2 DEF Inv, Pool, threadVars
  <2>5. \A i : Out(i, usb', cb') <=> Out(i, usb, cb) BY <1>1, <2>2 DEF Out
  <2>6. Usual(g'.past, Taken) => Owned(b', usb', cb', stream'.rejected, state, call)
    BY <1>1, <2>1, <2>2, <2>5 DEF Inv, Owned, RingOwned, WriterOwned
  <2>7. Usual(g'.past, Stolen) /\ Runs(stream', worker') => Placed(b', usb', cb', call)
    BY <1>1, <2>1, <2>5 DEF Inv, Placed, Runs, threadVars
  <2>8. /\ b'.submitter = "CALLBACK" => b'.cons_i # NoSlot
        /\ b'.prod_i = b.prod_i /\ Same(call, call') /\ g.past \subseteq g'.past
    BY <1>1 DEF Inv, Route, Same
  <2> QED BY <1>1, <2>3, <2>4, <2>6, <2>7, <2>8, ThreadInv
<1>3. CASE ~(adm.valid /\ Current(cb.gen))
  <2>1. cb' = NoCb /\ Ends("would_block", cb.slot) BY <1>3 DEF CallbackChecked
  <2>2. /\ stream' \in StreamType /\ stream'.state = "SHUTTING_DOWN"
        /\ stream'.rejected = cb.slot
    BY <1>1, <2>1, EndsType
  <2>3. Out(cb.slot, usb, cb) BY DEF Out
  <2> QED BY <1>1, <2>1, <2>2, <2>3, NoCbType, EndsInv
<1> QED BY <1>2, <1>3

LEMMA CallbackSubmitInv ==
  ASSUME Inv, CallbackSubmit
  PROVE  Inv'
<1> USE Rest
<1>1. /\ cb \in Callback /\ cb.at = "usb" /\ cb.slot \in Slots /\ cb.gen \in 0 .. MaxGen
      /\ stream.state = "RUNNING"
      /\ worker = "LOOP" /\ usb \in Seq(Transfers) /\ Len(usb) < T /\ cb' = NoCb
      /\ UNCHANGED <<b, data, threadVars, state, call>>
  BY DEF CallbackSubmit, Inv, TypeOK, Callback, Pool
<1>2. CASE /\ usb' = Append(usb, [slot |-> cb.slot, gen |-> cb.gen])
           /\ Sends(cb.slot, {}) /\ UNCHANGED <<stream, cnt>>
  <2>1. PICK y \in Transfers : y = [slot |-> cb.slot, gen |-> cb.gen]
    BY <1>1 DEF Transfers
  <2>2. y.slot = cb.slot BY <2>1
  <2>3. /\ usb' \in Seq(Transfers) /\ Len(usb') = Len(usb) + 1 /\ Len(usb) \in Nat
        /\ \A i : On(i, usb') <=> On(i, usb) \/ i = cb.slot
        /\ Apart(usb) /\ ~On(cb.slot, usb) => Apart(usb')
    BY <1>1, <1>2, <2>1, <2>2, AppendOn
  <2>4. Len(usb') <= T BY <1>1, <2>3, Sizes
  <2>5. g' \in Ghosts /\ g'.past = g.past
    <3>1. data[cb.slot] \in Datas BY <1>1
    <3>2. g' = [g EXCEPT !.sent = data[cb.slot], !.past = @ \cup {}] BY <1>2 DEF Sends
    <3> QED BY <3>1, <3>2 DEF Ghosts
  <2>6. TypeOK'
    BY <1>1, <1>2, <2>3, <2>4, <2>5, NoCbType DEF Inv, TypeOK, Callback, Ghosts, threadVars
  <2>7. Pool(usb', cb', stream', worker')
    BY <1>1, <1>2, NoCbType DEF Inv, Pool, threadVars
  <2>8. \A i \in Slots : Out(i, usb', cb') <=> Out(i, usb, cb)
    BY <1>1, <2>3, OutOn, NoCbType, Wrapped
  <2>9. ASSUME Usual(g'.past, Taken)
        PROVE  Owned(b', usb', cb', stream'.rejected, state, call)
    <3>1. Owned(b, usb, cb, stream.rejected, state, call) BY <2>5, <2>9 DEF Inv
    <3>2. ~On(cb'.slot, usb') BY <1>1, <2>3, NoCbType, OnSlots, Wrapped
    <3>3. RingOwned(b', usb', cb', stream'.rejected)
      BY <1>1, <1>2, <2>3, <2>8, <3>1, <3>2, OutOn DEF Owned
    <3>4. Held(call) => call.idx \in Slots BY DEF Inv, Route, Held, Busy
    <3>5. WriterOwned(b', usb', cb', stream'.rejected, call)
      BY <1>1, <1>2, <2>8, <3>1, <3>4 DEF Owned, WriterOwned
    <3> QED BY <1>1, <3>1, <3>3, <3>5 DEF Owned
  <2>10. Usual(g'.past, Stolen) /\ Runs(stream', worker') => Placed(b', usb', cb', call)
    BY <1>1, <1>2, <2>5, <2>8 DEF Inv, Placed, Runs, threadVars
  <2>11. /\ b'.submitter = "CALLBACK" => b'.cons_i # NoSlot
         /\ b'.prod_i = b.prod_i /\ Same(call, call') /\ g.past \subseteq g'.past
    BY <1>1, <2>5 DEF Inv, Route, Same
  <2> QED BY <1>1, <2>6, <2>7, <2>9, <2>10, <2>11, ThreadInv
<1>3. CASE /\ cnt.fails < MaxFails /\ Ends("transport", NoSlot)
           /\ cnt' = [cnt EXCEPT !.fails = @ + 1]
           /\ g' = [g EXCEPT !.past = @ \cup {"lost"}] /\ UNCHANGED usb
  <2>1. cnt' \in [fails : 0 .. MaxFails, stalls : 0 .. MaxStalls, ends : 0 .. MaxEnds]
    <3>1. cnt.fails + 1 \in 0 .. MaxFails BY <1>3, Sizes
    <3> QED BY <1>3, <3>1
  <2>2. {"lost"} \in SUBSET Kinds BY DEF Kinds
  <2>3. g' \in Ghosts /\ g.past \subseteq g'.past BY <1>3, <2>2, PastType
  <2>4. /\ stream' \in StreamType /\ stream'.state = "SHUTTING_DOWN"
        /\ stream'.rejected = NoSlot
    BY <1>3, EndsType
  <2>5. Len(usb) <= T BY DEF Inv, TypeOK
  <2> QED BY <1>1, <1>3, <2>1, <2>3, <2>4, <2>5, NoCbType, EndsInv
<1> QED BY <1>2, <1>3 DEF CallbackSubmit

\* The oldest transfer leaves the endpoint and the stream ends.
LEMMA HeadEnds ==
  ASSUME Inv, Handles, UNCHANGED <<b, data, cb, threadVars, state, call>>,
         usb' = Tail(usb), NEW e \in {"would_block", "transport"},
         NEW r \in {NoSlot, Head1.slot}, Ends(e, r), g' \in Ghosts, g.past \subseteq g'.past,
         cnt' \in [fails : 0 .. MaxFails, stalls : 0 .. MaxStalls, ends : 0 .. MaxEnds]
  PROVE  Inv'
<1>1. r \in Slots \cup {NoSlot} BY HandlesPool
<1>2. stream' \in StreamType /\ stream'.state = "SHUTTING_DOWN" /\ stream'.rejected = r
  BY <1>1, EndsType
<1>3. stream'.rejected # NoSlot => Out(stream'.rejected, usb, cb) /\ stream'.rejected \in Slots
  <2>1. On(Head1.slot, usb) BY HandlesPool
  <2> QED BY <1>1, <1>2, <2>1, OutOn
<1>4. /\ usb' \in Seq(Transfers) /\ Len(usb') <= T /\ (Apart(usb) => Apart(usb'))
      /\ \A i : On(i, usb') => On(i, usb)
  BY HandlesPool, Sizes
<1>5. cb' \in Callback /\ cb'.at = "none" /\ cb'.slot = NoSlot /\ worker = "LOOP"
  BY HandlesPool
<1> QED BY <1>2, <1>3, <1>4, <1>5, EndsInv

LEMMA StalledInv ==
  ASSUME Inv, Stalled
  PROVE  Inv'
<1> USE Rest
<1>1. /\ Handles /\ stream.state = "RUNNING" /\ cnt.stalls < MaxStalls
      /\ UNCHANGED <<b, data, cb, threadVars, state, call>>
  BY DEF Stalled
<1>2. cnt.stalls + 1 \in 0 .. MaxStalls BY <1>1, Sizes
<1>3. CASE /\ usb' = Append(Tail(usb), Head1)
           /\ cnt' = [cnt EXCEPT !.stalls = @ + 1]
           /\ g' = [g EXCEPT !.past = IF Len(usb) > 1 THEN @ \cup {"disordered"} ELSE @]
           /\ UNCHANGED stream
  <2>1. PICK K \in SUBSET Kinds : g' = [g EXCEPT !.past = @ \cup K]
    <3>1. {"disordered"} \in SUBSET Kinds /\ {} \in SUBSET Kinds BY DEF Kinds
    <3>2. CASE Len(usb) > 1
      <4>1. g' = [g EXCEPT !.past = @ \cup {"disordered"}] BY <1>3, <3>2
      <4> QED BY <3>1, <4>1
    <3>3. CASE ~(Len(usb) > 1)
      <4>1. g' = [g EXCEPT !.past = @ \cup {}] BY <1>3, <3>3
      <4> QED BY <3>1, <4>1
    <3> QED BY <3>2, <3>3
  <2>2. g' \in Ghosts /\ g'.past = g.past \cup K BY <2>1, PastType
  <2>3. /\ usb \in Seq(Transfers) /\ Tail(usb) \in Seq(Transfers) /\ Head1 \in Transfers
        /\ Len(Tail(usb)) < T /\ Len(Tail(usb)) \in Nat /\ worker = "LOOP"
        /\ cb.at = "none" /\ cb.slot = NoSlot
        /\ \A i : On(i, usb) <=> On(i, Tail(usb)) \/ i = Head1.slot
        /\ Apart(usb) => Apart(Tail(usb)) /\ ~On(Head1.slot, Tail(usb))
    BY <1>1, HandlesPool
  <2>4. /\ usb' \in Seq(Transfers) /\ Len(usb') = Len(Tail(usb)) + 1
        /\ \A i : On(i, usb') <=> On(i, Tail(usb)) \/ i = Head1.slot
        /\ Apart(Tail(usb)) /\ ~On(Head1.slot, Tail(usb)) => Apart(usb')
    BY <1>3, <2>3, AppendOn
  <2>5. Len(usb') <= T BY <2>3, <2>4, Sizes
  <2>6. TypeOK'
    <3>1. cnt' \in [fails : 0 .. MaxFails, stalls : 0 .. MaxStalls, ends : 0 .. MaxEnds]
      BY <1>2, <1>3
    <3> QED BY <1>1, <1>3, <2>2, <2>4, <2>5, <3>1 DEF Inv, TypeOK, Ghosts, threadVars
  <2>7. Pool(usb', cb', stream', worker')
    BY <1>1, <1>3, <2>3 DEF Inv, Pool, threadVars
  <2>8. \A i : On(i, usb') <=> On(i, usb) BY <2>3, <2>4
  <2>9. \A i : Out(i, usb', cb') <=> Out(i, usb, cb) BY <1>1, <2>8, OutOn
  <2>10. ASSUME Usual(g'.past, Taken)
         PROVE  Owned(b', usb', cb', stream'.rejected, state, call)
    <3>1. Usual(g.past, Taken) BY <2>2, <2>10 DEF Usual
    <3>2. Owned(b, usb, cb, stream.rejected, state, call) BY <3>1 DEF Inv
    <3>3. RingOwned(b', usb', cb', stream'.rejected)
      BY <1>1, <1>3, <2>3, <2>4, <2>8, <2>9, <3>2, OutOn DEF Owned
    <3> QED BY <1>1, <1>3, <2>9, <3>2, <3>3 DEF Owned, WriterOwned
  <2>11. ASSUME Usual(g'.past, Stolen), Runs(stream', worker')
         PROVE  Placed(b', usb', cb', call)
    <3>1. Usual(g.past, Stolen) BY <2>2, <2>11 DEF Usual
    <3> QED BY <1>1, <1>3, <2>9, <2>11, <3>1 DEF Inv, Placed, Runs, threadVars
  <2>12. /\ b'.submitter = "CALLBACK" => b'.cons_i # NoSlot
         /\ b'.prod_i = b.prod_i /\ Same(call, call') /\ g.past \subseteq g'.past
    BY <1>1, <2>2 DEF Inv, Route, Same
  <2> QED BY <1>1, <2>6, <2>7, <2>10, <2>11, <2>12, ThreadInv
<1>4. CASE /\ cnt.fails < MaxFails /\ usb' = Tail(usb) /\ Ends("transport", NoSlot)
           /\ cnt' = [cnt EXCEPT !.stalls = @ + 1, !.fails = @ + 1] /\ UNCHANGED g
  <2>1. cnt.fails + 1 \in 0 .. MaxFails BY <1>4, Sizes
  <2>2. cnt' \in [fails : 0 .. MaxFails, stalls : 0 .. MaxStalls, ends : 0 .. MaxEnds]
    BY <1>2, <1>4, <2>1
  <2> QED BY <1>1, <1>4, <2>2, HeadEnds
<1>5. CASE /\ usb' = Tail(usb) /\ Ends("would_block", Head1.slot)
           /\ cnt' = [cnt EXCEPT !.stalls = @ + 1]
           /\ g' = [g EXCEPT !.past = @ \cup {"disordered"}, !.old = @ \cup {Head1.slot}]
  <2>1. cnt' \in [fails : 0 .. MaxFails, stalls : 0 .. MaxStalls, ends : 0 .. MaxEnds]
    BY <1>2, <1>5
  <2>2. g' \in Ghosts /\ g.past \subseteq g'.past
    <3>1. Head1.slot \in Slots BY <1>1, HandlesPool
    <3>2. PICK P : P = g.past \cup {"disordered"} OBVIOUS
    <3>3. PICK O : O = g.old \cup {Head1.slot} OBVIOUS
    <3>4. P \in SUBSET Kinds /\ O \in SUBSET Slots BY <3>1, <3>2, <3>3 DEF Ghosts, Kinds
    <3>5. g' = [g EXCEPT !.past = P, !.old = O] BY <1>5, <3>2, <3>3
    <3>6. g' \in Ghosts /\ g'.past = P BY <3>4, <3>5 DEF Ghosts
    <3> QED BY <3>2, <3>6
  <2> QED BY <1>1, <1>5, <2>1, <2>2, HeadEnds
<1> QED BY <1>3, <1>4, <1>5 DEF Stalled

LEMMA TransferErrorInv ==
  ASSUME Inv, TransferError
  PROVE  Inv'
<1> USE Rest
<1>1. cnt.ends + 1 \in 0 .. MaxEnds BY Sizes DEF TransferError
<1>2. cnt' \in [fails : 0 .. MaxFails, stalls : 0 .. MaxStalls, ends : 0 .. MaxEnds]
  BY <1>1 DEF TransferError
<1> QED BY <1>2, HeadEnds DEF TransferError

LEMMA DrainedInv ==
  ASSUME Inv, Drained
  PROVE  Inv'
<1> USE Rest
<1>1. /\ worker = "LOOP" /\ stream.state = "SHUTTING_DOWN" /\ cb \in Callback
      /\ cb.at = "none" /\ cb.slot = NoSlot /\ usb \in Seq(Transfers) /\ Len(usb) <= T
      /\ UNCHANGED <<b, data, cb, threadVars, state, call, g, cnt>>
  BY DEF Drained, Inv, TypeOK, Pool, Callback
<1>2. CASE usb = <<>>
  <2>1. stream' = [stream EXCEPT !.state = "DONE"] /\ usb' = usb BY <1>2 DEF Drained
  <2>2. stream' \in StreamType /\ stream'.state = "DONE" /\ stream'.rejected = stream.rejected
    BY <2>1 DEF StreamType, StreamState
  <2> QED BY <1>1, <1>2, <2>1, <2>2, EndsInv
<1>3. CASE usb # <<>>
  <2>1. usb' = Tail(usb) /\ stream' = stream /\ Handles BY <1>1, <1>3 DEF Drained, Handles
  <2>2. /\ usb' \in Seq(Transfers) /\ Len(usb') <= T /\ (Apart(usb) => Apart(usb'))
        /\ \A i : On(i, usb') => On(i, usb)
    BY <2>1, HandlesPool, Sizes
  <2> QED BY <1>1, <2>1, <2>2, EndsInv
<1> QED BY <1>2, <1>3

-----------------------------------------------------------------------------
(* The worker and the board.                                               *)

\* START frees what an ended stream left; nothing is on USB then.
LEMMA ExecIdleStateInv ==
  ASSUME Inv, ExecIdleState
  PROVE  Inv'
<1> USE Rest
<1>1. /\ worker = "IDLE" /\ worker' = "STARTED" /\ startReq' = FALSE
      /\ UNCHANGED <<data, usb, cb, stream, err, adm, state, cnt>> /\ Same(call, call')
      /\ b' = FreesInFlight(b)
  BY WakeSame DEF ExecIdleState, usbVars
<1>2. /\ usb = <<>> /\ cb.at = "none" /\ cb.slot = NoSlot
      /\ stream.state \notin {"RUNNING", "SHUTTING_DOWN"}
  BY <1>1 DEF Inv, Pool
<1>3. PICK K \in SUBSET Kinds :
         /\ g' = [g EXCEPT !.past = @ \cup K]
         /\ Busy(call) => "stolen" \in K
  <2>1. {"stolen"} \in SUBSET Kinds /\ {} \in SUBSET Kinds BY DEF Kinds
  <2>2. CASE Busy(call)
    <3>1. g' = [g EXCEPT !.past = @ \cup {"stolen"}] BY <2>2 DEF ExecIdleState, Busy
    <3> QED BY <2>1, <3>1
  <2>3. CASE ~Busy(call)
    <3>1. g' = [g EXCEPT !.past = @ \cup {}] BY <2>3 DEF ExecIdleState, Busy
    <3> QED BY <2>1, <2>3, <3>1
  <2> QED BY <2>2, <2>3
<1>4. g' \in Ghosts /\ g'.past = g.past \cup K BY <1>3, PastType
<1>5. /\ b' \in BufferMgmt /\ b'.prod_i = b.prod_i /\ b'.cons_i = b.cons_i
      /\ b'.submitter = b.submitter
      /\ \A i \in Slots : /\ b'.status[i] # "IN_FLIGHT"
                          /\ b.status[i] # "IN_FLIGHT" => b'.status[i] = b.status[i]
  <2>1. PICK m : m = [i \in Slots |-> IF b.status[i] = "IN_FLIGHT" THEN "EMPTY"
                                      ELSE b.status[i]]
    OBVIOUS
  <2>2. m \in [Slots -> Status] BY <2>1 DEF BufferMgmt, Status
  <2>3. b' = [b EXCEPT !.status = m] BY <1>1, <2>1 DEF FreesInFlight
  <2>4. /\ b' \in BufferMgmt /\ b'.status = m /\ b'.prod_i = b.prod_i
        /\ b'.cons_i = b.cons_i /\ b'.submitter = b.submitter
    BY <2>2, <2>3 DEF BufferMgmt
  <2> QED BY <2>1, <2>4
<1>6. TypeOK' BY <1>1, <1>4, <1>5 DEF Inv, TypeOK, Same, Ghosts
<1>7. Pool(usb', cb', stream', worker') BY <1>1, <1>2 DEF Inv, Pool
<1>8. \A i \in Slots : ~Out(i, usb, cb) BY <1>2, Wrapped, EmptySeq DEF Out
<1>9. ASSUME Usual(g'.past, Taken)
      PROVE  Owned(b', usb', cb', stream'.rejected, state, call)
  <2>1. Usual(g.past, Taken) /\ ~Busy(call) BY <1>3, <1>4, <1>9 DEF Usual, Taken
  <2>2. /\ RingOwned(b, usb, cb, stream.rejected) /\ Filling(b, state, call)
    BY <2>1 DEF Inv, Owned
  <2>3. stream.rejected = NoSlot
    BY <1>1 DEF Inv, Pool
  <2>4. RingOwned(b', usb', cb', stream'.rejected)
    BY <1>1, <1>8, <2>2, <2>3 DEF RingOwned
  <2>5. Filling(b', state, call)
    <3>1. b.prod_i \in Slots BY DEF BufferMgmt
    <3> QED BY <1>5, <2>2, <3>1 DEF Filling
  <2> QED BY <2>1, <2>4, <2>5 DEF Owned, WriterOwned, Held, Busy
<1>10. Placed(b', usb', cb', call) BY <1>5 DEF Placed
<1>11. b'.submitter = "CALLBACK" => b'.cons_i # NoSlot BY <1>5 DEF Inv, Route
<1> QED BY <1>1, <1>4, <1>5, <1>6, <1>7, <1>9, <1>10, <1>11, ThreadInv

\* Steps that leave ring, transfers and past alone.
LEMMA OutsideInv ==
  ASSUME Inv, UNCHANGED <<b, data, usb, cb, state, g, cnt>>, Same(call, call'),
         worker' \in {"IDLE", "STARTED", "LOOP", "RESTORED", "ENDED"},
         stream' \in StreamType, err' \in BOOLEAN, startReq' \in BOOLEAN,
         adm' \in [valid : BOOLEAN, gen : 0 .. MaxGen],
         Pool(usb', cb', stream', worker'),
         stream'.rejected \in {stream.rejected, NoSlot},
         Runs(stream', worker') => Runs(stream, worker)
  PROVE  Inv'
<1> USE Rest
<1>1. TypeOK' BY DEF Inv, TypeOK, Same, StreamType, Ghosts
<1>2. Usual(g'.past, Taken) => Owned(b', usb', cb', stream'.rejected, state, call)
  <2> SUFFICES ASSUME Usual(g.past, Taken)
               PROVE  Owned(b, usb, cb, stream'.rejected, state, call)
    OBVIOUS
  <2>1. Owned(b, usb, cb, stream.rejected, state, call) BY DEF Inv
  <2>2. Held(call) => call.idx \in Slots BY DEF Inv, Route, Held, Busy
  <2> QED BY <2>1, <2>2, Wrapped DEF Owned, RingOwned, WriterOwned
<1>3. Usual(g'.past, Stolen) /\ Runs(stream', worker') => Placed(b', usb', cb', call)
  BY DEF Inv
<1>4. b'.submitter = "CALLBACK" => b'.cons_i # NoSlot BY DEF Inv, Route
<1> QED BY <1>1, <1>2, <1>3, <1>4, ThreadInv

LEMMA RunStreamInv ==
  ASSUME Inv, RunStream
  PROVE  Inv'
<1> USE Rest
<1>1. /\ worker = "STARTED" /\ worker' = "LOOP"
      /\ stream' = [state |-> "RUNNING", error |-> "none", rejected |-> NoSlot]
      /\ UNCHANGED <<b, data, usb, cb, err, startReq, adm, state, call, g, cnt>>
  BY DEF RunStream
<1>2. /\ stream' \in StreamType /\ stream'.state = "RUNNING" /\ stream'.rejected = NoSlot
  BY <1>1 DEF StreamType, StreamState
<1>3. usb = <<>> /\ cb.at = "none" BY <1>1 DEF Inv, Pool
<1>4. Pool(usb', cb', stream', worker') BY <1>1, <1>2, <1>3 DEF Inv, Pool
<1>5. Runs(stream, worker) /\ Same(call, call') /\ startReq' \in BOOLEAN
  BY <1>1 DEF Runs, Same, Inv, TypeOK
<1> QED BY <1>1, <1>2, <1>4, <1>5, OutsideInv

\* sync_worker_restore_rejected_tx_buffer(): the slot is FULL again.
LEMMA RestoreRejectedInv ==
  ASSUME Inv, RestoreRejected
  PROVE  Inv'
<1> USE Rest
<1>1. /\ worker = "LOOP" /\ stream.state = "DONE" /\ worker' = "RESTORED"
      /\ b' = Restore(b, stream.rejected) /\ stream' = [stream EXCEPT !.rejected = NoSlot]
      /\ UNCHANGED <<data, usb, cb, err, startReq, adm, state, g, cnt>>
      /\ Same(call, call')
  BY WakeSame DEF RestoreRejected
<1>2. usb = <<>> /\ cb.at = "none" /\ cb.slot = NoSlot BY <1>1 DEF Inv, Pool
<1>3. stream' \in StreamType /\ stream'.state = "DONE" /\ stream'.rejected = NoSlot
  BY <1>1 DEF StreamType
<1>4. Pool(usb', cb', stream', worker') BY <1>1, <1>2, <1>3 DEF Inv, Pool
<1>5. ~Runs(stream', worker') BY <1>1, <1>3 DEF Runs
<1>6. CASE b' = b
  <2>1. startReq' \in BOOLEAN BY <1>1 DEF Inv, TypeOK
  <2> QED BY <1>1, <1>3, <1>4, <1>5, <1>6, <2>1, OutsideInv
<1>7. CASE b' # b
  <2>1. /\ stream.rejected \in Slots /\ b.status[stream.rejected] = "IN_FLIGHT"
        /\ b' = Defer(b, stream.rejected)
    BY <1>1, <1>7 DEF Restore
  <2>2. PICK i \in Slots : i = stream.rejected BY <2>1
  <2>3. /\ b' \in BufferMgmt /\ b'.cons_i = i /\ b'.prod_i = b.prod_i
        /\ b'.status[i] = "FULL" /\ \A j \in Slots \ {i} : b'.status[j] = b.status[j]
    BY <2>1, <2>2 DEF Defer, BufferMgmt, Status
  <2>4. TypeOK' BY <1>1, <1>3, <2>3 DEF Inv, TypeOK, Same, StreamType, Ghosts
  <2>5. \A j \in Slots : ~Out(j, usb, cb) BY <1>2, Wrapped, EmptySeq DEF Out
  <2>6. ASSUME Usual(g'.past, Taken)
        PROVE  Owned(b', usb', cb', stream'.rejected, state, call)
    <3>1. Owned(b, usb, cb, stream.rejected, state, call) BY <1>1, <2>6 DEF Inv
    <3>2. RingOwned(b', usb', cb', stream'.rejected)
      BY <1>1, <1>3, <2>5, <3>1 DEF Owned, RingOwned
    <3>3. Held(call) => call.idx \in Slots BY DEF Inv, Route, Held, Busy
    <3>4. WriterOwned(b', usb', cb', stream'.rejected, call)
      BY <1>1, <1>3, <2>2, <2>3, <2>5, <3>1, <3>3, Wrapped DEF Owned, WriterOwned
    <3>5. Filling(b', state, call)
      <4>1. b.prod_i \in Slots BY DEF BufferMgmt
      <4> QED BY <2>1, <2>2, <2>3, <3>1, <4>1 DEF Owned, Filling
    <3> QED BY <3>2, <3>4, <3>5 DEF Owned
  <2>7. b'.cons_i # NoSlot BY <2>3, Wrapped
  <2> QED BY <1>1, <1>4, <1>5, <2>3, <2>4, <2>6, <2>7, ThreadInv
<1> QED BY <1>6, <1>7

LEMMA RevokedType ==
  ASSUME NEW a \in [valid : BOOLEAN, gen : 0 .. MaxGen], a.gen < MaxGen
  PROVE  /\ Revoked(a) \in [valid : BOOLEAN, gen : 0 .. MaxGen]
         /\ [valid |-> TRUE, gen |-> a.gen + 1] \in [valid : BOOLEAN, gen : 0 .. MaxGen]
<1>1. a.gen + 1 \in 0 .. MaxGen BY Sizes
<1> QED BY <1>1 DEF Revoked

LEMMA OutsideSteps ==
  ASSUME Inv, PublishError \/ BackToIdle \/ Revoke \/ Certify
  PROVE  Inv'
<1> USE Rest
<1>1. /\ UNCHANGED <<b, data, usb, cb, stream, startReq, state, g, cnt>>
      /\ Same(call, call') /\ err' \in BOOLEAN
  BY WakeSame DEF PublishError, BackToIdle, Revoke, Certify, usbVars
<1>2. adm' \in [valid : BOOLEAN, gen : 0 .. MaxGen]
  <2>1. CASE PublishError
    <3>1. adm' = adm \/ (adm.gen < MaxGen /\ adm' = Revoked(adm)) BY <2>1 DEF PublishError
    <3> QED BY <3>1, RevokedType
  <2>2. CASE BackToIdle BY <2>2 DEF BackToIdle
  <2>3. CASE Revoke BY <2>3, RevokedType DEF Revoke
  <2>4. CASE Certify BY <2>4, RevokedType DEF Certify
  <2> QED BY <2>1, <2>2, <2>3, <2>4
<1>3. \/ worker' = worker
      \/ worker = "RESTORED" /\ worker' = "ENDED"
      \/ worker = "ENDED" /\ worker' = "IDLE"
  BY DEF PublishError, BackToIdle, Revoke, Certify
<1>4. worker' \in {"IDLE", "STARTED", "LOOP", "RESTORED", "ENDED"}
  BY <1>3 DEF Inv, TypeOK
<1>5. Pool(usb', cb', stream', worker') /\ startReq' \in BOOLEAN
  BY <1>1, <1>3 DEF Inv, Pool, TypeOK
<1>6. Runs(stream', worker') => Runs(stream, worker) BY <1>1, <1>3 DEF Runs
<1> QED BY <1>1, <1>2, <1>4, <1>5, <1>6, OutsideInv

-----------------------------------------------------------------------------
(* The theorems.                                                           *)

LEMMA InitInv ==
  ASSUME Init
  PROVE  Inv
<1>1. InitialRing \in BufferMgmt /\ InitialRing.submitter = "FN"
      /\ \A i \in Slots : InitialRing.status[i] = "EMPTY"
  BY Sizes, Wrapped DEF InitialRing, BufferMgmt, Status
<1>2. NoCall \in Calls /\ ~Busy(NoCall) /\ NoCall.pc = "none" /\ ~Held(NoCall)
  BY DEF NoCall, Calls, Busy, Held
<1>3. 0 \in Datas /\ 1 % DataMod \in Datas BY Sizes, ModRange DEF Datas
<1>4. stream \in StreamType /\ stream.state = "IDLE" /\ stream.rejected = NoSlot
  BY DEF Init, StreamType, StreamState
<1>5. g \in Ghosts
  <2>1. {} \in SUBSET Kinds /\ {} \in SUBSET Slots OBVIOUS
  <2> QED BY <1>3, <2>1 DEF Init, Ghosts
<1>6. usb \in Seq(Transfers) /\ Len(usb) = 0 BY EmptySeq DEF Init
<1>7. adm \in [valid : BOOLEAN, gen : 0 .. MaxGen]
  BY Sizes DEF Init
<1>8. cnt \in [fails : 0 .. MaxFails, stalls : 0 .. MaxStalls, ends : 0 .. MaxEnds]
  BY Sizes DEF Init
<1>9. data \in [Slots -> Datas] BY <1>3 DEF Init
<1>10. TypeOK
  <2>1. Len(usb) <= T BY <1>6, Sizes
  <2>2. b \in BufferMgmt /\ call \in Calls /\ cb \in Callback /\ state \in SyncState
    BY <1>1, <1>2, NoCbType DEF Init, SyncState
  <2>3. /\ worker \in {"IDLE", "STARTED", "LOOP", "RESTORED", "ENDED"}
        /\ err \in BOOLEAN /\ startReq \in BOOLEAN
    BY DEF Init
  <2> QED BY <1>4, <1>5, <1>6, <1>7, <1>8, <1>9, <2>1, <2>2, <2>3
          DEF TypeOK, Callback, StreamType, Ghosts
<1>11. Route(b, state, call) BY <1>1, <1>2 DEF Init, Route
<1>12. Pool(usb, cb, stream, worker) BY <1>4, NoCbType DEF Init, Pool
<1>13. \A i \in Slots : ~Out(i, usb, cb) BY <1>6, NoCbType, Wrapped DEF Init, Out
<1>14. Owned(b, usb, cb, stream.rejected, state, call)
  BY <1>1, <1>2, <1>4, <1>6, <1>13 DEF Init, Owned, RingOwned, WriterOwned, Filling
<1>15. Placed(b, usb, cb, call) BY <1>1 DEF Init, Placed
<1> QED BY <1>10, <1>11, <1>12, <1>14, <1>15 DEF Inv

LEMMA NextInv ==
  ASSUME Inv, [Next]_vars
  PROVE  Inv'
<1>1. CASE Next
  <2>1. CASE WriterStep
    BY <2>1, QuietSteps, WaitForBufferInv, BufferReadyInv, UsingBufferInv, SubmitInv,
       AdvanceSubmittedInv, ParkedSubmittedInv, LoopSubmittedInv, LateSubmittedInv
       DEF WriterStep
  <2>2. CASE WaitExpires \/ SpuriousWakeup \/ Application
    BY <2>2, QuietSteps, WaitExpiresInv
  <2>3. CASE UsbThread
    BY <2>3, CompletedInv, CallbackCheckedInv, CallbackSubmitInv, StalledInv,
       TransferErrorInv, DrainedInv DEF UsbThread
  <2>4. CASE Worker
    BY <2>4, ExecIdleStateInv, RunStreamInv, RestoreRejectedInv, OutsideSteps DEF Worker
  <2>5. CASE Revoke \/ Certify BY <2>5, OutsideSteps
  <2> QED BY <1>1, <2>1, <2>2, <2>3, <2>4, <2>5 DEF Next
<1>2. CASE UNCHANGED vars
  BY <1>2 DEF vars, Inv, TypeOK
<1> QED BY <1>1, <1>2

LEMMA InvHolds == Spec => []Inv
BY InitInv, NextInv, PTL DEF Spec

\* sync_tx(), tx_callback() and the worker keep the ring, the transfers and the
\* writer's state within their types; no more than num_xfers transfers are out.
THEOREM TypeCorrect == Spec => []TypeOK
<1>1. Inv => TypeOK BY DEF Inv
<1> QED BY <1>1, InvHolds, PTL

\* tx_callback(): the slot of every transfer on USB, and the one a callback is about
\* to submit, is IN_FLIGHT and there once, whatever the writer does meanwhile; a
\* callback told to ship knows where to look.
THEOREM Ownership == Spec => []TxOwnership
<1>1. ASSUME Inv PROVE TxOwnership
  <2> SUFFICES ASSUME Usual(g.past, Taken)
               PROVE  /\ \A i \in InTransit : b.status[i] = "IN_FLIGHT"
                      /\ \A j, k \in 1 .. Len(usb) : usb[j].slot = usb[k].slot => j = k
                      /\ \A k \in 1 .. Len(usb) : usb[k].slot # cb.slot
                      /\ b.submitter = "CALLBACK" => b.cons_i # NoSlot
    BY DEF TxOwnership, Taken
  <2>1. RingOwned(b, usb, cb, stream.rejected) BY <1>1 DEF Inv, Owned
  <2>2. ASSUME NEW i \in InTransit PROVE i \in Slots /\ Out(i, usb, cb)
    <3>1. usb \in Seq(Transfers) /\ cb.slot \in Slots \cup {NoSlot} BY <1>1 DEF Inv, TypeOK
    <3>2. CASE \E k \in 1 .. Len(usb) : usb[k].slot = i
      BY <3>1, <3>2, OnSlots DEF Out, On
    <3>3. CASE i \in {cb.slot} \ {NoSlot} BY <3>1, <3>3 DEF Out
    <3> QED BY <2>2, <3>2, <3>3 DEF InTransit
  <2>3. b.submitter = "CALLBACK" => b.cons_i # NoSlot BY <1>1 DEF Inv, Route
  <2> QED BY <2>1, <2>2, <2>3 DEF RingOwned
<1> QED BY <1>1, InvHolds, PTL

\* While the stream runs every IN_FLIGHT slot is on USB, in the hands of a callback or
\* of the writer, also after streams that ended with buffers out (exec_idle_state()).
THEOREM NothingLeaks == Spec => []NoLeakedSlot
<1>1. ASSUME Inv PROVE NoLeakedSlot
  <2> SUFFICES ASSUME stream.state = "RUNNING", Usual(g.past, Stolen), NEW i \in Slots,
                      b.status[i] = "IN_FLIGHT"
               PROVE  i \in InTransit \/ (call.pc \in {"submit", "submitted"} /\ call.idx = i)
    BY DEF NoLeakedSlot, Stolen
  <2>1. Placed(b, usb, cb, call) BY <1>1 DEF Inv, Runs
  <2>2. Out(i, usb, cb) => i \in InTransit BY Wrapped DEF Out, InTransit
  <2> QED BY <2>1, <2>2 DEF Placed, Held
<1> QED BY <1>1, InvHolds, PTL

-----------------------------------------------------------------------------
(* Order.  The buffers that are filled and not yet on USB are a stretch of *)
(* the ring, from the oldest, slot o, over n slots to where the writer     *)
(* fills next, with consecutive numbers.                                   *)

\* Steps from slot o to slot i around the ring; o after n steps; the slot before i.
Dist(o, i)  == IF i >= o THEN i - o ELSE i - o + N
Add(o, n)   == IF o + n >= N THEN o + n - N ELSE o + n
Before(i)   == IF i = 0 THEN N - 1 ELSE i - 1

\* The stretch continues what was sent last, and the writer's number continues it.
Numbered(d, sent, next, o, n) ==
  /\ \A i \in Slots : Dist(o, i) < n =>
       d[i] = ((IF i = o THEN sent ELSE d[Before(i)]) + 1) % DataMod
  /\ next = ((IF n = 0 THEN sent ELSE d[Before(Add(o, n))]) + 1) % DataMod

\* The buffer that left the ring for a callback, or came back with an ended stream.
Lead(x, s) == IF x.slot # NoSlot THEN x.slot ELSE s.rejected

\* FULL slots, the lead and the slot in the writer's hands, h, are the stretch; it
\* begins with the lead and ends at e.  The writer submits only if nothing is FULL.
Line(bb, L, h, o, n, e) ==
  /\ \A i \in Slots : (bb.status[i] = "FULL" \/ i = L \/ i = h) <=> Dist(o, i) < n
  /\ e = Add(o, n)
  /\ L # NoSlot => L = o
  /\ bb.submitter = "FN" => bb.cons_i = NoSlot /\ \A i \in Slots : bb.status[i] # "FULL"

\* A callback told to ship takes the slot after the lead.
Aimed(bb, L, o) ==
  bb.submitter = "CALLBACK" => bb.cons_i = IF L # NoSlot THEN Next1(o) ELSE o

Hand(c)     == IF Held(c) THEN c.idx ELSE NoSlot
Advances(c) == Busy(c) /\ c.why \in {"advance", "parked"}
Until(bb, c) == IF Advances(c) THEN Next1(bb.prod_i) ELSE bb.prod_i
JustSent(c) == c.pc = "submitted" /\ c.res = "ok" /\ c.why # "advance"
Fresh(s, w) == w = "STARTED" \/ (w = "LOOP" /\ s.state = "RUNNING")

\* The writer around a submission: it has the oldest buffer in a stream that can take
\* it, and nobody else's when it submits what it has just filled.
Around(bb, L, c, fresh, o) ==
  /\ ~JustSent(c) => Aimed(bb, L, o)
  /\ JustSent(c) => /\ L = NoSlot /\ o = Next1(c.idx) /\ bb.status[c.idx] # "FULL"
                    /\ bb.submitter = "CALLBACK" => bb.cons_i = c.idx
  /\ bb.submitter = "FN" => L = NoSlot
  /\ c.why = "advance" => bb.submitter = "FN"
  /\ Held(c) /\ c.why # "advance" /\ fresh /\ bb.submitter = "CALLBACK" =>
       c.idx = bb.cons_i

\* The writer elsewhere: it does not fill a slot while a lead is out that the ring has
\* forgotten, nor fill a slot twice.
Elsewhere(bb, L, c, st, o) ==
  /\ Aimed(bb, L, o)
  /\ bb.submitter = "FN" /\ L # NoSlot =>
       bb.status[bb.prod_i] # "EMPTY" /\ st # "USING_BUFFER"
  /\ c.pc = "wait" => bb.status[bb.prod_i] # "EMPTY"
  /\ st = "USING_BUFFER" => bb.partial_off < Units

Place(bb, L, c, st, fresh, o, n) ==
  /\ Line(bb, L, Hand(c), o, n, Until(bb, c))
  /\ Busy(c) => Around(bb, L, c, fresh, o)
  /\ ~Busy(c) => Elsewhere(bb, L, c, st, o)

OInv ==
  Usual(g.past, Kinds) =>
    \E o \in Slots, n \in 0 .. N :
      /\ Place(b, Lead(cb, stream), call, state, Fresh(stream, worker), o, n)
      /\ Numbered(data, g.sent, g.next, o, n)

LEMMA ModSmall ==
  ASSUME NEW m \in Nat \ {0}, NEW a \in Nat, a < m
  PROVE  a % m = a /\ (a - m) % m = a % m /\ m % m = 0
OBVIOUS

\* The circle, without remainders.
LEMMA Circle ==
  /\ \A i \in Slots : Next1(i) = IF i = N - 1 THEN 0 ELSE i + 1
  /\ \A o, i \in Slots : Dist(o, i) \in Nat /\ Dist(o, i) < N /\ (Dist(o, i) = 0 <=> i = o)
  /\ \A o, i \in Slots : Dist(Next1(o), i) = IF i = o THEN N - 1 ELSE Dist(o, i) - 1
  /\ \A o \in Slots : Dist(o, Next1(o)) = 1 /\ Next1(o) # o
  /\ \A o \in Slots, n \in 0 .. N : Add(o, n) \in Slots /\ Before(Add(o, n)) \in Slots
  /\ \A o \in Slots, n \in 0 .. N-1 : /\ Dist(o, Add(o, n)) = n
                                      /\ Next1(Add(o, n)) = Add(o, n + 1)
                                      /\ Before(Add(o, n + 1)) = Add(o, n)
                                      /\ Add(Next1(o), n) = Add(o, n + 1)
  /\ \A o \in Slots : Add(o, 0) = o /\ Add(o, N) = o /\ Before(Next1(o)) = o
<1>0. N \in Nat /\ N > 1 BY Sizes
<1>1. ASSUME NEW i \in Slots PROVE Next1(i) = IF i = N - 1 THEN 0 ELSE i + 1
  <2>1. i \in Nat /\ i < N BY <1>0 DEF Slots
  <2>2. CASE i = N - 1
    <3>1. i + 1 = N BY <1>0, <2>1, <2>2
    <3> QED BY <3>1, <2>2, <1>0, ModSmall DEF Next1
  <2>3. CASE i # N - 1
    <3>1. i + 1 \in Nat /\ i + 1 < N BY <2>1, <2>3, <1>0
    <3>2. (i + 1) % N = i + 1 BY <3>1, <1>0, ModSmall
    <3> QED BY <3>2, <2>3 DEF Next1
  <2> QED BY <2>2, <2>3
<1>2. \A o, i \in Slots : Dist(o, i) \in Nat /\ Dist(o, i) < N /\ (Dist(o, i) = 0 <=> i = o)
  BY <1>0 DEF Slots, Dist
<1>3. \A o, i \in Slots : Dist(Next1(o), i) = IF i = o THEN N - 1 ELSE Dist(o, i) - 1
  BY <1>0, <1>1 DEF Slots, Dist
<1>4. \A o \in Slots : Dist(o, Next1(o)) = 1 /\ Next1(o) # o BY <1>0, <1>1 DEF Slots, Dist
<1>5. \A o \in Slots, n \in 0 .. N : Add(o, n) \in Slots /\ Before(Add(o, n)) \in Slots
  BY <1>0 DEF Slots, Add, Before
<1>6. ASSUME NEW o \in Slots, NEW n \in 0 .. N-1
      PROVE  /\ Dist(o, Add(o, n)) = n
             /\ Next1(Add(o, n)) = Add(o, n + 1)
             /\ Before(Add(o, n + 1)) = Add(o, n)
             /\ Add(Next1(o), n) = Add(o, n + 1)
  <2>1. Add(o, n) \in Slots BY <1>0, <1>5
  <2>2. Next1(Add(o, n)) = IF Add(o, n) = N - 1 THEN 0 ELSE Add(o, n) + 1 BY <2>1, <1>1
  <2>3. Next1(o) = IF o = N - 1 THEN 0 ELSE o + 1 BY <1>1
  <2> HIDE DEF Next1
  <2>4. Dist(o, Add(o, n)) = n BY <1>0 DEF Slots, Dist, Add
  <2>5. Next1(Add(o, n)) = Add(o, n + 1) BY <1>0, <2>2 DEF Slots, Add
  <2>6. Before(Add(o, n + 1)) = Add(o, n) BY <1>0 DEF Slots, Add, Before
  <2>7. Add(Next1(o), n) = Add(o, n + 1) BY <1>0, <2>3 DEF Slots, Add
  <2> QED BY <2>4, <2>5, <2>6, <2>7
<1>7. \A o \in Slots : Add(o, 0) = o /\ Add(o, N) = o /\ Before(Next1(o)) = o
  BY <1>0, <1>1 DEF Slots, Add, Before
<1> QED BY <1>1, <1>2, <1>3, <1>4, <1>5, <1>6, <1>7

\* What oldest_full_buffer() minimises is the distance.
LEMMA Remainder ==
  ASSUME NEW o \in Slots, NEW i \in Slots
  PROVE  (i - o) % N = Dist(o, i)
<1>0. N \in Nat \ {0} /\ o \in Nat /\ i \in Nat /\ o < N /\ i < N BY Sizes DEF Slots
<1>1. CASE i >= o
  <2>1. i - o \in Nat /\ i - o < N BY <1>0, <1>1
  <2>2. (i - o) % N = i - o BY <2>1, <1>0, ModSmall
  <2> QED BY <2>2, <1>1 DEF Dist
<1>2. CASE ~(i >= o)
  <2>1. i - o + N \in Nat /\ i - o + N < N BY <1>0, <1>2
  <2>2. PICK k : k = i - o + N OBVIOUS
  <2>3. k \in Nat /\ k < N /\ i - o = k - N BY <2>1, <2>2, <1>0
  <2> QED BY <2>2, <2>3, <1>0, <1>2, ModSmall DEF Dist
<1> QED BY <1>1, <1>2

\* A buffer is filled; the oldest leaves; the only one is taken back.
LEMMA Pushed ==
  ASSUME NEW d \in [Slots -> Datas], NEW s \in Datas, NEW x \in Datas, NEW o \in Slots,
         NEW n \in 0 .. N, n < N, Numbered(d, s, x, o, n)
  PROVE  Numbered([d EXCEPT ![Add(o, n)] = x], s, (x + 1) % DataMod, o, n + 1)
<1> DEFINE e == Add(o, n)
           f == [d EXCEPT ![e] = x]
<1>0. N \in Nat /\ n \in 0 .. N-1 BY Sizes
<1>1. e \in Slots /\ Dist(o, e) = n /\ Before(Add(o, n + 1)) = e BY <1>0, Circle
<1>2. f[e] = x /\ \A j \in Slots : j # e => f[j] = d[j] BY <1>1
<1>3. ASSUME NEW i \in Slots, Dist(o, i) < n, i # o
      PROVE  i # e /\ Before(i) # e /\ Before(i) \in Slots
  BY <1>0, <1>3 DEF Dist, Add, Before, Slots
<1>4. Before(e) \in Slots /\ Before(e) # e /\ (e = o <=> n = 0)
  BY <1>0, Sizes DEF Add, Before, Slots
<1>5. ASSUME NEW i \in Slots, Dist(o, i) < n + 1
      PROVE  f[i] = ((IF i = o THEN s ELSE f[Before(i)]) + 1) % DataMod
  <2> HIDE DEF e, f
  <2>1. CASE i = e
    <3>1. x = ((IF n = 0 THEN s ELSE d[Before(e)]) + 1) % DataMod BY DEF Numbered, e
    <3> QED BY <2>1, <3>1, <1>2, <1>4
  <2>2. CASE i # e
    <3>1. Dist(o, i) # n BY <2>2, <1>0 DEF e, Dist, Add, Slots
    <3>2. Dist(o, i) < n
      <4>1. Dist(o, i) \in Nat BY Circle
      <4> QED BY <4>1, <3>1, <1>5, <1>0
    <3>3. d[i] = ((IF i = o THEN s ELSE d[Before(i)]) + 1) % DataMod
      BY <3>2 DEF Numbered
    <3>4. i # o => f[Before(i)] = d[Before(i)] BY <3>2, <1>2, <1>3
    <3> QED BY <2>2, <3>3, <3>4, <1>2
  <2> QED BY <2>1, <2>2
<1>6. (x + 1) % DataMod = (f[Before(Add(o, n + 1))] + 1) % DataMod BY <1>1, <1>2
<1>7. n + 1 # 0 BY <1>0
<1> HIDE DEF f
<1>8. Numbered(f, s, (x + 1) % DataMod, o, n + 1) BY <1>5, <1>6, <1>7 DEF Numbered
<1> QED BY <1>8 DEF f, e

LEMMA Popped ==
  ASSUME NEW d, NEW s, NEW x, NEW o \in Slots, NEW n \in 0 .. N, 0 < n,
         Numbered(d, s, x, o, n)
  PROVE  /\ d[o] = (s + 1) % DataMod
         /\ Numbered(d, d[o], x, Next1(o), n - 1)
         /\ Next1(o) \in Slots /\ n - 1 \in 0 .. N
<1>0. N \in Nat /\ n - 1 \in 0 .. N-1 /\ n = (n - 1) + 1 BY Sizes
<1>1. d[o] = (s + 1) % DataMod BY Circle DEF Numbered
<1>2. Next1(o) \in Slots /\ Before(Next1(o)) = o BY Circle, Wrapped
<1>3. ASSUME NEW i \in Slots, Dist(Next1(o), i) < n - 1
      PROVE  d[i] = ((IF i = Next1(o) THEN d[o] ELSE d[Before(i)]) + 1) % DataMod
  <2>1. i # o /\ Dist(o, i) < n
    <3>1. /\ Dist(Next1(o), i) = IF i = o THEN N - 1 ELSE Dist(o, i) - 1
          /\ Dist(o, i) \in Nat
      BY Circle
    <3> QED BY <3>1, <1>0, <1>3
  <2>2. d[i] = (d[Before(i)] + 1) % DataMod BY <2>1 DEF Numbered
  <2> QED BY <2>2, <1>2
<1>4. Add(Next1(o), n - 1) = Add(o, n) BY <1>0, Circle
<1>5. x = (d[Before(Add(o, n))] + 1) % DataMod BY <1>0 DEF Numbered
<1>6. n = 1 => Before(Add(o, n)) = o BY Circle, <1>0
<1>7. x = ((IF n - 1 = 0 THEN d[o] ELSE d[Before(Add(Next1(o), n - 1))]) + 1) % DataMod
  BY <1>0, <1>4, <1>5, <1>6
<1>8. Numbered(d, d[o], x, Next1(o), n - 1) BY <1>3, <1>7 DEF Numbered
<1> QED BY <1>0, <1>1, <1>2, <1>8

LEMMA TakenBack ==
  ASSUME NEW d, NEW s, NEW x, NEW o \in Slots, Numbered(d, s, x, o, 1)
  PROVE  Numbered(d, s, d[o], o, 0)
<1>1. d[o] = (s + 1) % DataMod BY Circle DEF Numbered
<1>2. \A i \in Slots : ~(Dist(o, i) < 0) BY Circle
<1> QED BY <1>1, <1>2 DEF Numbered

\* What Line says of the writer's only buffer, of the oldest and of the next one.
LEMMA OnlyOne ==
  ASSUME NEW bb, NEW h \in Slots, NEW o \in Slots, NEW n \in 0 .. N, NEW e,
         Line(bb, NoSlot, h, o, n, e), bb.submitter = "FN"
  PROVE  h = o /\ n = 1
<1>1. \A i \in Slots : i = h <=> Dist(o, i) < n BY Wrapped DEF Line
<1>2. Dist(o, h) < n /\ Dist(o, h) \in Nat BY <1>1, Circle
<1>3. 0 < n /\ n \in Nat BY <1>2, Sizes
<1>4. h = o BY <1>1, <1>3, Circle
<1>5. ~(1 < n) BY <1>1, <1>4, Circle, Wrapped
<1> QED BY <1>3, <1>4, <1>5

LEMMA OldestIsNext ==
  ASSUME NEW bb \in BufferMgmt, NEW L \in Slots \cup {NoSlot}, NEW o \in Slots,
         NEW n \in 0 .. N, NEW e, Line(bb, L, NoSlot, o, n, e), Aimed(bb, L, o),
         bb.submitter = "CALLBACK", Full(bb) # {}, L # NoSlot => bb.status[L] = "IN_FLIGHT"
  PROVE  /\ OldestFull(bb) = bb.cons_i /\ bb.cons_i \in Slots
         /\ bb.status[bb.cons_i] = "FULL"
<1>1. PICK j \in Slots : bb.status[j] = "FULL" BY DEF Full
<1>2. Dist(o, j) < n /\ Dist(o, j) \in Nat /\ n \in Nat
  <2>1. Dist(o, j) < n BY <1>1 DEF Line
  <2> QED BY <2>1, Circle, Sizes
<1>3. bb.cons_i \in Slots /\ bb.status[bb.cons_i] = "FULL"
  <2>1. CASE L = NoSlot
    <3>1. bb.cons_i = o BY <2>1 DEF Aimed
    <3>2. Dist(o, o) < n BY <1>2, Circle
    <3> QED BY <2>1, <3>1, <3>2, Wrapped DEF Line
  <2>2. CASE L # NoSlot
    <3>1. bb.cons_i = Next1(o) /\ L = o BY <2>2 DEF Aimed, Line
    <3>2. j # o BY <1>1, <2>2, <3>1
    <3>3. Dist(o, j) # 0 BY <3>2, Circle
    <3>4. 1 < n BY <3>3, <1>2
    <3>5. Next1(o) \in Slots /\ Dist(o, Next1(o)) < n /\ Next1(o) # o
      BY <3>4, Circle, Wrapped
    <3> QED BY <3>1, <3>5, Wrapped DEF Line
  <2> QED BY <2>1, <2>2
<1>4. bb.cons_i # NoSlot BY <1>3, Wrapped
<1>5. PICK f : f = bb.cons_i OBVIOUS
<1>6. \A i \in Slots : (i - f) % N = Dist(f, i) BY <1>3, <1>5, Remainder
<1>7. OldestFull(bb) = CHOOSE i \in Full(bb) :
         \A k \in Full(bb) : (i - f) % N <= (k - f) % N
  BY <1>4, <1>5 DEF OldestFull
<1>8. f \in Full(bb) /\ Full(bb) \subseteq Slots BY <1>3, <1>5 DEF Full
<1>9. Dist(f, f) = 0 /\ \A k \in Slots : Dist(f, k) \in Nat BY <1>3, <1>5, Circle
<1>10. \A k \in Full(bb) : (f - f) % N <= (k - f) % N BY <1>6, <1>8, <1>9
<1>11. PICK m : m = OldestFull(bb) OBVIOUS
<1>12. m \in Full(bb) /\ \A k \in Full(bb) : (m - f) % N <= (k - f) % N
  BY <1>7, <1>8, <1>10, <1>11
<1>13. Dist(f, m) <= 0 BY <1>6, <1>8, <1>9, <1>12
<1>14. m = f BY <1>13, <1>8, <1>9, <1>12, Circle
<1> QED BY <1>3, <1>5, <1>11, <1>14

\* The oldest of the stretch leaves it.
LEMMA LinePop ==
  ASSUME NEW bb, NEW L, NEW h, NEW o \in Slots, NEW n \in 0 .. N, NEW e,
         Line(bb, L, h, o, n, e), bb.status[o] = "FULL" \/ o = L \/ o = h,
         NEW d, NEW k,
         d.submitter = "FN" => d.cons_i = NoSlot /\ \A i \in Slots : d.status[i] # "FULL",
         \A i \in Slots : (d.status[i] = "FULL" \/ i = k) <=>
                          (i # o /\ (bb.status[i] = "FULL" \/ i = L \/ i = h))
  PROVE  0 < n /\ Line(d, NoSlot, k, Next1(o), n - 1, e)
<1>1. Dist(o, o) < n BY DEF Line
<1>2. 0 < n /\ n \in Nat /\ N \in Nat BY <1>1, Circle, Sizes
<1>3. ASSUME NEW i \in Slots
      PROVE  (i # o /\ Dist(o, i) < n) <=> Dist(Next1(o), i) < n - 1
  <2>1. Dist(Next1(o), i) = IF i = o THEN N - 1 ELSE Dist(o, i) - 1 BY Circle
  <2>2. Dist(o, i) \in Nat BY Circle
  <2> QED BY <2>1, <2>2, <1>2
<1>4. \A i \in Slots : (d.status[i] = "FULL" \/ i = NoSlot \/ i = k) <=> Dist(Next1(o), i) < n - 1
  BY <1>3, Wrapped DEF Line
<1>5. e = Add(Next1(o), n - 1)
  <2>1. n - 1 \in 0 .. N-1 /\ (n - 1) + 1 = n BY <1>2
  <2>2. Add(Next1(o), n - 1) = Add(o, (n - 1) + 1) BY <2>1, Circle
  <2> QED BY <2>1, <2>2 DEF Line
<1> QED BY <1>2, <1>4, <1>5 DEF Line

\* The slot the writer has filled joins it.
LEMMA LinePush ==
  ASSUME NEW bb, NEW L, NEW o \in Slots, NEW n \in 0 .. N, NEW e \in Slots,
         Line(bb, L, NoSlot, o, n, e), bb.status[e] # "FULL", e # L,
         NEW d, NEW k,
         d.submitter = "FN" => d.cons_i = NoSlot /\ \A i \in Slots : d.status[i] # "FULL",
         \A i \in Slots : (d.status[i] = "FULL" \/ i = L \/ i = k) <=>
                          (i = e \/ bb.status[i] = "FULL" \/ i = L)
  PROVE  n < N /\ n + 1 \in 0 .. N /\ Line(d, L, k, o, n + 1, Next1(e))
<1>0. N \in Nat /\ n \in Nat BY Sizes
<1>1. ~(Dist(o, e) < n) BY Wrapped DEF Line
<1>2. Dist(o, e) < N BY Circle
<1>3. n < N
  <2>1. Dist(o, e) \in Nat BY Circle
  <2> QED BY <2>1, <1>0, <1>1, <1>2
<1>4. n \in 0 .. N-1 BY <1>0, <1>3
<1>5. e = Add(o, n) /\ Dist(o, e) = n /\ Next1(e) = Add(o, n + 1) BY <1>4, Circle DEF Line
<1>6. ASSUME NEW i \in Slots PROVE (i = e \/ Dist(o, i) < n) <=> Dist(o, i) < n + 1
  <2>1. Dist(o, i) \in Nat BY Circle
  <2>2. Dist(o, i) = n => i = e BY <1>0, <1>3, <1>5 DEF Dist, Add, Slots
  <2> QED BY <2>1, <2>2, <1>0, <1>5
<1>7. \A i \in Slots : (d.status[i] = "FULL" \/ i = L \/ i = k) <=> Dist(o, i) < n + 1
  BY <1>6, Wrapped DEF Line
<1>8. n + 1 \in 0 .. N BY <1>0, <1>4
<1> QED BY <1>3, <1>5, <1>7, <1>8 DEF Line

\* Writer steps change neither the lead nor whether the stream is fresh.
Leads == Slots \cup {NoSlot}

\* A call that is not around a submission has no slot in hand.
LEMMA IdlePlace ==
  ASSUME NEW bb, NEW L, NEW c, NEW st, NEW fr, NEW o, NEW n, ~Busy(c),
         Line(bb, L, NoSlot, o, n, bb.prod_i), Elsewhere(bb, L, c, st, o)
  PROVE  Place(bb, L, c, st, fr, o, n)
BY DEF Place, Hand, Held, Busy, Until, Advances

LEMMA PlaceIdle ==
  ASSUME NEW bb, NEW L, NEW c, NEW st, NEW fr, NEW o, NEW n, ~Busy(c),
         Place(bb, L, c, st, fr, o, n)
  PROVE  Line(bb, L, NoSlot, o, n, bb.prod_i) /\ Elsewhere(bb, L, c, st, o)
BY DEF Place, Hand, Held, Busy, Until, Advances

\* reclaim_tx_submission() takes the buffer after the lead.
LEMMA ReclaimPlace ==
  ASSUME NEW bb \in BufferMgmt, NEW c \in Calls, NEW why \in {"parked", "loop", "late"},
         NEW L \in Leads, NEW fr, NEW o \in Slots, NEW n \in 0 .. N, Reclaim(bb, c, why),
         Line(bb, L, NoSlot, o, n, IF why = "parked" THEN Next1(bb.prod_i) ELSE bb.prod_i),
         Aimed(bb, L, o), bb.submitter = "CALLBACK", Full(bb) # {},
         L # NoSlot => bb.status[L] = "IN_FLIGHT"
  PROVE  Place(b', L, call', state', fr, o, n)
<1>1. /\ OldestFull(bb) = bb.cons_i /\ bb.cons_i \in Slots
      /\ bb.status[bb.cons_i] = "FULL"
  BY OldestIsNext DEF Leads
<1>2. PICK i : i = bb.cons_i OBVIOUS
<1>3. b' = [bb EXCEPT !.status[i] = "IN_FLIGHT"] BY <1>1, <1>2 DEF Reclaim
<1>4. call' = [c EXCEPT !.pc = "submit", !.idx = i, !.before = bb.cons_i, !.why = why,
                        !.res = "none"]
  BY <1>1, <1>2 DEF Reclaim
<1>5. call'.pc = "submit" /\ call'.idx = i /\ call'.why = why BY <1>4 DEF Calls
<1>6. /\ b'.submitter = bb.submitter /\ b'.cons_i = bb.cons_i /\ b'.prod_i = bb.prod_i
      /\ b'.status[i] = "IN_FLIGHT" /\ \A j \in Slots \ {i} : b'.status[j] = bb.status[j]
  <2>1. "IN_FLIGHT" \in Status BY DEF Status
  <2> QED BY <1>1, <1>2, <1>3, <2>1, SetStatus
<1>7. /\ Busy(call') /\ Hand(call') = i /\ ~JustSent(call')
      /\ Until(b', call') = IF why = "parked" THEN Next1(bb.prod_i) ELSE bb.prod_i
  BY <1>5, <1>6 DEF Busy, Hand, Held, JustSent, Until, Advances
<1>8. Line(b', L, i, o, n, Until(b', call'))
  BY <1>1, <1>2, <1>6, <1>7, Wrapped DEF Line
<1>9. Around(b', L, call', fr, o)
  BY <1>2, <1>5, <1>6, <1>7 DEF Around, Aimed
<1> QED BY <1>7, <1>8, <1>9 DEF Place

LEMMA WaitOrGoPlace ==
  ASSUME NEW bb, NEW c \in Calls, NEW L, NEW fr, NEW o, NEW n, WaitOrGo(bb, c),
         Line(bb, L, NoSlot, o, n, bb.prod_i), Aimed(bb, L, o), state = "WAIT_FOR_BUFFER",
         bb.submitter = "FN" /\ L # NoSlot => bb.status[bb.prod_i] # "EMPTY"
  PROVE  Place(b', L, call', state', fr, o, n)
<1>1. b' = bb /\ state' \in {"WAIT_FOR_BUFFER", "CHECK_WORKER"} BY DEF WaitOrGo
<1>2. ~Busy(call') /\ (call'.pc = "wait" => bb.status[bb.prod_i] # "EMPTY")
  BY LoopingIdle DEF WaitOrGo
<1>3. Elsewhere(b', L, call', state', o) BY <1>1, <1>2 DEF Elsewhere
<1> QED BY <1>1, <1>2, <1>3, IdlePlace

LEMMA HandBackRing ==
  ASSUME NEW bb \in BufferMgmt
  PROVE  /\ HandBack(bb) \in BufferMgmt
         /\ HandBack(bb).submitter = "FN" /\ HandBack(bb).cons_i = NoSlot
         /\ HandBack(bb).status = bb.status /\ HandBack(bb).prod_i = bb.prod_i
         /\ HandBack(bb).partial_off = bb.partial_off
BY DEF BufferMgmt, HandBack

\* The ring gives the duty back to the writer when nothing is FULL.
LEMMA HandBackLine ==
  ASSUME NEW bb \in BufferMgmt, NEW L, NEW h, NEW o, NEW n, NEW e, Line(bb, L, h, o, n, e),
         Full(bb) = {}
  PROVE  Line(HandBack(bb), L, h, o, n, e) /\ Aimed(HandBack(bb), L, o)
<1>1. \A i \in Slots : bb.status[i] # "FULL" BY DEF Full
<1> QED BY <1>1, HandBackRing DEF Line, Aimed

LEMMA ReclaimLoopPlace ==
  ASSUME NEW bb \in BufferMgmt, NEW c \in Calls, NEW L \in Leads, NEW fr, NEW o \in Slots,
         NEW n \in 0 .. N, ReclaimLoop(bb, c),
         Line(bb, L, NoSlot, o, n, bb.prod_i), Aimed(bb, L, o), state = "WAIT_FOR_BUFFER",
         L # NoSlot /\ Full(bb) = {} => bb.status[bb.prod_i] # "EMPTY",
         L # NoSlot => bb.status[L] = "IN_FLIGHT"
  PROVE  Place(b', L, call', state', fr, o, n)
<1>1. bb.submitter = "FN" => Full(bb) = {} BY DEF Line, Full
<1>2. bb.submitter \in {"FN", "CALLBACK"} BY DEF BufferMgmt
<1>3. CASE Parked(bb) /\ OldestFull(bb) # NoSlot
  <2>1. Full(bb) # {} BY <1>3, OldestIsFull
  <2>2. Reclaim(bb, c, "loop") BY <1>3 DEF ReclaimLoop
  <2>3. bb.submitter = "CALLBACK" BY <1>1, <1>2, <2>1
  <2> QED BY <2>1, <2>2, <2>3, ReclaimPlace
<1>4. CASE Parked(bb) /\ OldestFull(bb) = NoSlot
  <2>1. Full(bb) = {} BY <1>4, OldestIsFull, Wrapped DEF Full
  <2>2. PICK d : d = HandBack(bb) OBVIOUS
  <2>3. WaitOrGo(d, c) BY <1>4, <2>2 DEF ReclaimLoop
  <2>4. Line(d, L, NoSlot, o, n, d.prod_i) /\ Aimed(d, L, o)
    BY <2>1, <2>2, HandBackLine, HandBackRing
  <2>5. L # NoSlot => d.status[d.prod_i] # "EMPTY" BY <2>1, <2>2, HandBackRing
  <2> QED BY <2>3, <2>4, <2>5, WaitOrGoPlace
<1>5. CASE ~Parked(bb)
  <2>1. WaitOrGo(bb, c) BY <1>5 DEF ReclaimLoop
  <2> QED BY <2>1, <1>1, WaitOrGoPlace
<1> QED BY <1>3, <1>4, <1>5

\* The end of advance_tx_buffer().
LEMMA StepPlace ==
  ASSUME NEW bb \in BufferMgmt, NEW c \in Calls, NEW L, NEW fr, NEW o, NEW n, Step(bb, c),
         Line(bb, L, NoSlot, o, n, Next1(bb.prod_i)), Aimed(bb, L, o),
         bb.submitter = "FN" => L = NoSlot
  PROVE  Place(b', L, call', state', fr, o, n)
<1>1. Next1(bb.prod_i) \in Slots BY Wrapped DEF BufferMgmt
<1>2. b' = [bb EXCEPT !.prod_i = Next1(bb.prod_i)] BY DEF Step
<1>3. /\ b'.status = bb.status /\ b'.cons_i = bb.cons_i /\ b'.submitter = bb.submitter
      /\ b'.prod_i = Next1(bb.prod_i)
  BY <1>1, <1>2 DEF BufferMgmt
<1>4. call' = Looping(c) /\ state' = NextState(b') BY DEF Step
<1>5. state' # "USING_BUFFER" BY <1>4 DEF NextState
<1>6. ~Busy(call') /\ call'.pc # "wait" BY <1>4, LoopingIdle
<1>7. Line(b', L, NoSlot, o, n, b'.prod_i) BY <1>3 DEF Line
<1>8. Elsewhere(b', L, call', state', o) BY <1>3, <1>5, <1>6 DEF Elsewhere, Aimed
<1> QED BY <1>6, <1>7, <1>8, IdlePlace

\* advance_tx_buffer() with a slot that has just been filled.
LEMMA AdvancePlace ==
  ASSUME NEW bb \in BufferMgmt, NEW c \in Calls, NEW L \in Leads, NEW fr, NEW o \in Slots,
         NEW n \in 0 .. N, Advance(bb, c), Line(bb, L, NoSlot, o, n, bb.prod_i),
         Aimed(bb, L, o), bb.submitter = "FN" => L = NoSlot,
         bb.status[bb.prod_i] = "PARTIAL", L # NoSlot => bb.status[L] = "IN_FLIGHT",
         bb.submitter = "CALLBACK" => bb.cons_i # NoSlot
  PROVE  /\ n < N /\ n + 1 \in 0 .. N /\ bb.prod_i = Add(o, n)
         /\ Place(b', L, call', state', fr, o, n + 1)
<1>0. PICK e : e = bb.prod_i OBVIOUS
<1>1. e \in Slots /\ bb.status[e] = "PARTIAL" /\ e # L BY <1>0, Wrapped DEF BufferMgmt
<1>2. bb.prod_i = Add(o, n) BY DEF Line
<1>3. CASE bb.submitter = "FN"
  <2>1. /\ b' = [bb EXCEPT !.status[e] = "IN_FLIGHT"]
        /\ call' = [c EXCEPT !.pc = "submit", !.idx = e, !.why = "advance"]
    BY <1>0, <1>3 DEF Advance
  <2>2. call'.pc = "submit" /\ call'.idx = e /\ call'.why = "advance" BY <2>1 DEF Calls
  <2>3. /\ b'.submitter = bb.submitter /\ b'.prod_i = e /\ b'.cons_i = bb.cons_i
        /\ b'.status[e] = "IN_FLIGHT" /\ \A j \in Slots \ {e} : b'.status[j] = bb.status[j]
    <3>1. "IN_FLIGHT" \in Status BY DEF Status
    <3> QED BY <1>0, <1>1, <2>1, <3>1, SetStatus
  <2>4. bb.cons_i = NoSlot /\ \A i \in Slots : bb.status[i] # "FULL" BY <1>3 DEF Line
  <2>5. L = NoSlot BY <1>3
  <2>6. /\ b'.cons_i = NoSlot /\ \A i \in Slots : b'.status[i] # "FULL" BY <2>3, <2>4
  <2>7. \A i \in Slots : (b'.status[i] = "FULL" \/ i = L \/ i = e) <=>
                         (i = e \/ bb.status[i] = "FULL" \/ i = L)
    BY <2>4, <2>6
  <2>8. n < N /\ n + 1 \in 0 .. N /\ Line(b', L, e, o, n + 1, Next1(e))
    BY <1>0, <1>1, <2>6, <2>7, LinePush
  <2>9. /\ Busy(call') /\ Hand(call') = e /\ ~JustSent(call')
        /\ Until(b', call') = Next1(e)
    BY <2>2, <2>3 DEF Busy, Hand, Held, JustSent, Until, Advances
  <2>10. Around(b', L, call', fr, o)
    BY <1>3, <2>2, <2>3, <2>5, <2>9 DEF Around, Aimed
  <2> QED BY <1>2, <2>8, <2>9, <2>10 DEF Place
<1>4. CASE bb.submitter # "FN"
  <2>0. bb.submitter = "CALLBACK" BY <1>4 DEF BufferMgmt
  <2>1. PICK f : f = [bb EXCEPT !.status[e] = "FULL"] OBVIOUS
  <2>2. /\ f \in BufferMgmt /\ f.submitter = bb.submitter /\ f.cons_i = bb.cons_i
        /\ f.prod_i = bb.prod_i /\ f.status[e] = "FULL"
        /\ \A j \in Slots \ {e} : f.status[j] = bb.status[j]
    <3>1. "FULL" \in Status BY DEF Status
    <3> QED BY <1>1, <2>1, <3>1, SetStatus
  <2>3. Reclaim(f, c, "parked") BY <1>0, <1>4, <2>0, <2>1, <2>2 DEF Advance
  <2>4. Full(f) # {} BY <1>1, <2>2 DEF Full
  <2>5. \A i \in Slots : (f.status[i] = "FULL" \/ i = L \/ i = NoSlot) <=>
                         (i = e \/ bb.status[i] = "FULL" \/ i = L)
    BY <2>2, Wrapped
  <2>6. n < N /\ n + 1 \in 0 .. N /\ Line(f, L, NoSlot, o, n + 1, Next1(e))
    BY <1>0, <1>1, <1>4, <2>2, <2>5, LinePush
  <2>7. Aimed(f, L, o) BY <2>2 DEF Aimed
  <2>8. L # NoSlot => f.status[L] = "IN_FLIGHT" BY <1>1, <2>2 DEF Leads
  <2>9. Line(f, L, NoSlot, o, n + 1, IF "parked" = "parked" THEN Next1(f.prod_i) ELSE f.prod_i)
    BY <1>0, <2>2, <2>6
  <2>10. Place(b', L, call', state', fr, o, n + 1)
    BY <2>0, <2>2, <2>3, <2>4, <2>6, <2>7, <2>8, <2>9, ReclaimPlace
  <2> QED BY <1>2, <2>6, <2>10
<1> QED BY <1>3, <1>4

\* What the ownership invariant says of the lead.
LEMMA LeadFacts ==
  ASSUME Inv, Usual(g.past, Kinds)
  PROVE  /\ Lead(cb, stream) \in Leads
         /\ Lead(cb, stream) # NoSlot => b.status[Lead(cb, stream)] = "IN_FLIGHT"
         /\ Owned(b, usb, cb, stream.rejected, state, call)
         /\ Route(b, state, call)
         /\ b.submitter = "CALLBACK" => b.cons_i # NoSlot
<1>1. cb.slot \in Slots \cup {NoSlot} /\ stream.rejected \in Slots \cup {NoSlot}
  BY DEF Inv, TypeOK
<1>2. Usual(g.past, Taken) BY DEF Usual, Taken, Kinds
<1>3. Owned(b, usb, cb, stream.rejected, state, call) /\ Route(b, state, call)
  BY <1>2 DEF Inv
<1>4. cb.slot # NoSlot => b.status[cb.slot] = "IN_FLIGHT"
  BY <1>1, <1>3 DEF Owned, RingOwned, Out
<1>5. stream.rejected # NoSlot => b.status[stream.rejected] = "IN_FLIGHT"
  BY <1>3 DEF Owned, RingOwned
<1> QED BY <1>1, <1>3, <1>4, <1>5 DEF Lead, Leads, Route

\* What a writer step that leaves the numbers alone has to show.
LEMMA WriterOrder ==
  ASSUME OInv, UNCHANGED <<data, cb, stream, worker>>, g'.sent = g.sent, g'.next = g.next,
         Usual(g'.past, Kinds) => Usual(g.past, Kinds),
         ASSUME Usual(g'.past, Kinds), NEW o \in Slots, NEW n \in 0 .. N,
                Place(b, Lead(cb, stream), call, state, Fresh(stream, worker), o, n)
         PROVE  Place(b', Lead(cb, stream), call', state', Fresh(stream, worker), o, n)
  PROVE  OInv'
<1> SUFFICES ASSUME Usual(g'.past, Kinds)
             PROVE  \E o \in Slots, n \in 0 .. N :
                      /\ Place(b', Lead(cb', stream'), call', state', Fresh(stream', worker'), o, n)
                      /\ Numbered(data', g'.sent, g'.next, o, n)
  BY DEF OInv
<1>1. PICK o \in Slots, n \in 0 .. N :
        /\ Place(b, Lead(cb, stream), call, state, Fresh(stream, worker), o, n)
        /\ Numbered(data, g.sent, g.next, o, n)
  BY DEF OInv
<1>2. Place(b', Lead(cb, stream), call', state', Fresh(stream, worker), o, n) BY <1>1
<1> QED BY <1>1, <1>2

LEMMA QuietOrder ==
  ASSUME Inv, OInv,
         \/ LoopTop \/ CheckWorker \/ StartWorker \/ WorkerStarted \/ StartTimedOut
         \/ WakeUp \/ SpuriousWakeup \/ Application
  PROVE  OInv'
<1> USE Rest
<1>1. UNCHANGED <<b, data, cb, stream, worker, g>>
  BY DEF LoopTop, CheckWorker, StartWorker, WorkerStarted, StartTimedOut, WakeUp,
         SpuriousWakeup, Application, StartWrite, usbVars, threadVars
<1>2. /\ ~Busy(call) /\ ~Busy(call') /\ call'.pc # "wait"
      /\ state' = state \/ state' # "USING_BUFFER"
  <2>1. CASE LoopTop
    <3>1. call' = NoCall \/ call' = [call EXCEPT !.pc = "case"] BY <2>1 DEF LoopTop
    <3>2. call'.pc \in {"none", "case"} BY <3>1, LoopingIdle DEF Calls
    <3> QED BY <2>1, <3>2 DEF LoopTop, Busy
  <2>2. CASE CheckWorker BY <2>2, LoopingIdle DEF CheckWorker, Busy
  <2>3. CASE StartWorker BY <2>3 DEF StartWorker, Calls, Busy
  <2>4. CASE WorkerStarted BY <2>4, LoopingIdle DEF WorkerStarted, Busy
  <2>5. CASE StartTimedOut BY <2>5, LoopingIdle DEF StartTimedOut, Busy
  <2>6. CASE WakeUp BY <2>6, LoopingIdle DEF WakeUp, Busy
  <2>7. CASE SpuriousWakeup BY <2>7 DEF SpuriousWakeup, Calls, Busy
  <2>8. CASE Application
    <3>1. PICK kind \in Timeouts, want \in Requests, flush \in BOOLEAN :
            StartWrite(kind, want, flush)
      BY <2>8 DEF Application
    <3>2. [NoCall EXCEPT !.kind = kind, !.want = want, !.flush = flush] \in Calls
      BY Sizes, TxAssumption DEF TxAssumption, NoCall, Calls
    <3> QED BY <3>1, <3>2, LoopingIdle DEF StartWrite, Busy
  <2> QED BY <2>1, <2>2, <2>3, <2>4, <2>5, <2>6, <2>7, <2>8
<1>3. ASSUME NEW o \in Slots, NEW n \in 0 .. N,
             Place(b, Lead(cb, stream), call, state, Fresh(stream, worker), o, n)
      PROVE  Place(b', Lead(cb, stream), call', state', Fresh(stream, worker), o, n)
  <2>1. PICK L : L = Lead(cb, stream) OBVIOUS
  <2>2. Line(b, L, NoSlot, o, n, b.prod_i) /\ Elsewhere(b, L, call, state, o)
    BY <1>2, <1>3, <2>1, PlaceIdle
  <2>3. Elsewhere(b', L, call', state', o) BY <1>1, <1>2, <2>2 DEF Elsewhere
  <2> QED BY <1>1, <1>2, <2>1, <2>2, <2>3, IdlePlace
<1> QED BY <1>1, <1>3, WriterOrder

LEMMA WaitForBufferOrder ==
  ASSUME Inv, OInv, WaitForBuffer
  PROVE  OInv'
<1> USE Rest
<1>1. /\ call.pc = "case" /\ state = "WAIT_FOR_BUFFER" /\ ~Busy(call)
      /\ UNCHANGED <<data, cb, stream, worker, g>>
  BY DEF WaitForBuffer, usbVars, threadVars, Busy
<1>2. ASSUME Usual(g'.past, Kinds), NEW o \in Slots, NEW n \in 0 .. N,
             Place(b, Lead(cb, stream), call, state, Fresh(stream, worker), o, n)
      PROVE  Place(b', Lead(cb, stream), call', state', Fresh(stream, worker), o, n)
  <2>1. PICK L : L = Lead(cb, stream) OBVIOUS
  <2>2. Line(b, L, NoSlot, o, n, b.prod_i) /\ Elsewhere(b, L, call, state, o)
    BY <1>1, <1>2, <2>1, PlaceIdle
  <2>3. L \in Leads /\ (L # NoSlot => b.status[L] = "IN_FLIGHT") BY <1>1, <1>2, <2>1, LeadFacts
  <2>4. CASE b.status[b.prod_i] = "EMPTY"
    <3>1. b' = b /\ state' = "BUFFER_READY" /\ call' = Looping(call)
      BY <2>4 DEF WaitForBuffer
    <3>2. ~Busy(call') /\ call'.pc # "wait" BY <3>1, LoopingIdle
    <3>3. Elsewhere(b', L, call', state', o) BY <2>2, <2>4, <3>1, <3>2 DEF Elsewhere
    <3> QED BY <2>1, <2>2, <3>1, <3>2, <3>3, IdlePlace
  <2>5. CASE b.status[b.prod_i] # "EMPTY"
    <3>1. ReclaimLoop(b, call) BY <2>5 DEF WaitForBuffer
    <3>2. Aimed(b, L, o) BY <2>2 DEF Elsewhere
    <3> QED BY <1>1, <2>1, <2>2, <2>3, <2>5, <3>1, <3>2, ReclaimLoopPlace
  <2> QED BY <2>4, <2>5
<1> QED BY <1>1, <1>2, WriterOrder

LEMMA WaitExpiresOrder ==
  ASSUME Inv, OInv, WaitExpires
  PROVE  OInv'
<1> USE Rest
<1>1. /\ call.pc = "wait" /\ state = "WAIT_FOR_BUFFER" /\ ~Busy(call)
      /\ UNCHANGED <<data, cb, stream, worker, g>>
  BY DEF WaitExpires, usbVars, threadVars, Busy, Inv, Route
<1>2. ASSUME Usual(g'.past, Kinds), NEW o \in Slots, NEW n \in 0 .. N,
             Place(b, Lead(cb, stream), call, state, Fresh(stream, worker), o, n)
      PROVE  Place(b', Lead(cb, stream), call', state', Fresh(stream, worker), o, n)
  <2>1. PICK L : L = Lead(cb, stream) OBVIOUS
  <2>2. Line(b, L, NoSlot, o, n, b.prod_i) /\ Elsewhere(b, L, call, state, o)
    BY <1>1, <1>2, <2>1, PlaceIdle
  <2>3. L \in Leads /\ (L # NoSlot => b.status[L] = "IN_FLIGHT") BY <1>1, <1>2, <2>1, LeadFacts
  <2>4. Aimed(b, L, o) /\ b.status[b.prod_i] # "EMPTY" BY <1>1, <2>2 DEF Elsewhere
  <2>5. b.submitter = "FN" => Full(b) = {} BY <2>2 DEF Line, Full
  <2>6. CASE Parked(b) /\ OldestFull(b) # NoSlot
    <3>1. Reclaim(b, call, "late") BY <2>6 DEF WaitExpires
    <3>2. Full(b) # {} BY <2>6, OldestIsFull
    <3>3. b.submitter = "CALLBACK" BY <2>5, <3>2 DEF BufferMgmt
    <3> QED BY <2>1, <2>2, <2>3, <2>4, <3>1, <3>2, <3>3, ReclaimPlace
  <2>7. CASE ~(Parked(b) /\ OldestFull(b) # NoSlot)
    <3>1. /\ b' = IF Parked(b) THEN HandBack(b) ELSE b
          /\ call' \in {Looping(call), NoCall} /\ state' = state
      BY <2>7 DEF WaitExpires
    <3>2. ~Busy(call') /\ call'.pc # "wait" BY <3>1, LoopingIdle
    <3>3. Parked(b) => Full(b) = {} BY <2>7, OldestIsFull, Wrapped DEF Full
    <3>4. /\ Line(b', L, NoSlot, o, n, b'.prod_i) /\ Aimed(b', L, o)
          /\ b'.status = b.status /\ b'.prod_i = b.prod_i
      BY <2>2, <2>4, <3>1, <3>3, HandBackLine, HandBackRing
    <3>5. Elsewhere(b', L, call', state', o) BY <1>1, <2>4, <3>1, <3>2, <3>4 DEF Elsewhere
    <3> QED BY <2>1, <3>2, <3>4, <3>5, IdlePlace
  <2> QED BY <2>6, <2>7
<1> QED BY <1>1, <1>2, WriterOrder

LEMMA BufferReadyOrder ==
  ASSUME Inv, OInv, BufferReady
  PROVE  OInv'
<1> USE Rest
<1>1. /\ call.pc = "case" /\ state = "BUFFER_READY" /\ ~Busy(call)
      /\ UNCHANGED <<data, cb, stream, worker, g>>
      /\ state' = "USING_BUFFER" /\ call' = Looping(call)
      /\ b' = [b EXCEPT !.status[b.prod_i] = "PARTIAL", !.partial_off = 0]
  BY DEF BufferReady, usbVars, threadVars, Busy
<1>2. ASSUME Usual(g'.past, Kinds), NEW o \in Slots, NEW n \in 0 .. N,
             Place(b, Lead(cb, stream), call, state, Fresh(stream, worker), o, n)
      PROVE  Place(b', Lead(cb, stream), call', state', Fresh(stream, worker), o, n)
  <2>1. PICK L : L = Lead(cb, stream) OBVIOUS
  <2>2. Line(b, L, NoSlot, o, n, b.prod_i) /\ Elsewhere(b, L, call, state, o)
    BY <1>1, <1>2, <2>1, PlaceIdle
  <2>3. b.status[b.prod_i] = "EMPTY" /\ b.prod_i \in Slots
    BY <1>1, <1>2, LeadFacts DEF Owned, Filling, BufferMgmt
  <2>4. /\ b'.submitter = b.submitter /\ b'.cons_i = b.cons_i /\ b'.prod_i = b.prod_i
        /\ b'.status[b.prod_i] = "PARTIAL" /\ b'.partial_off = 0
        /\ \A j \in Slots \ {b.prod_i} : b'.status[j] = b.status[j]
    BY <1>1, <2>3 DEF BufferMgmt
  <2>5. b.submitter = "FN" => L = NoSlot BY <2>2, <2>3 DEF Elsewhere
  <2>6. ~Busy(call') /\ call'.pc # "wait" BY <1>1, LoopingIdle
  <2>7. 0 < Units BY Sizes
  <2>8. Elsewhere(b', L, call', state', o)
    BY <2>2, <2>4, <2>5, <2>6, <2>7 DEF Elsewhere, Aimed
  <2>9. Line(b', L, NoSlot, o, n, b'.prod_i) BY <2>2, <2>3, <2>4 DEF Line
  <2> QED BY <2>1, <2>6, <2>8, <2>9, IdlePlace
<1> QED BY <1>1, <1>2, WriterOrder

\* cases SYNC_STATE_USING_BUFFER*: a buffer that is full gets the next number.
LEMMA UsingBufferOrder ==
  ASSUME Inv, OInv, UsingBuffer
  PROVE  OInv'
<1> USE Rest
<1> DEFINE room   == Units - b.partial_off
           n      == IF call.want < room THEN call.want ELSE room
           closes == call.flush /\ call.want = n
           full   == Format = "PACKET" \/ closes \/ n = room
           want   == IF Format = "PACKET" THEN 0 ELSE call.want - n
           flush  == call.flush /\ ~closes
           off    == IF full /\ Format # "PACKET" THEN Units
                     ELSE IF full THEN b.partial_off ELSE b.partial_off + n
           again  == room = 0
<1>1. /\ call.pc = "case" /\ state = "USING_BUFFER" /\ ~Busy(call)
      /\ UNCHANGED <<cb, stream, worker>>
  BY DEF UsingBuffer, threadVars, Busy
<1>2. Units \in Nat /\ b.partial_off \in 0 .. Units /\ call.want \in Nat /\ call.flush \in BOOLEAN
  BY Sizes DEF BufferMgmt, Calls
<1>3. room \in Nat /\ n \in Nat /\ n <= room /\ n <= call.want BY <1>2
<1>4. off \in 0 .. Units /\ want \in Nat BY <1>2, <1>3
<1>5. PICK c : c = [call EXCEPT !.want = want, !.flush = flush] OBVIOUS
<1>6. PICK f : f = [b EXCEPT !.partial_off = off] OBVIOUS
<1>7. flush \in BOOLEAN BY <1>2
<1>8. \/ /\ full /\ Advance(f, c)
         /\ data' = IF again THEN data ELSE [data EXCEPT ![b.prod_i] = g.next]
         /\ g' = [g EXCEPT !.next = IF again THEN g.next ELSE (g.next + 1) % DataMod,
                           !.old = IF again THEN g.old ELSE g.old \ {b.prod_i}]
      \/ /\ ~full /\ b' = f /\ call' = Looping(c)
         /\ UNCHANGED <<state, data, g>>
  BY <1>5, <1>6 DEF UsingBuffer
<1>9. ~full => off < Units BY <1>2, <1>3
<1>10. again <=> ~(b.partial_off < Units) BY <1>2
<1> HIDE DEF room, n, closes, full, want, flush, off, again
<1>11. c \in Calls /\ c.pc = "case" BY <1>1, <1>4, <1>5, <1>7 DEF Calls
<1>12. /\ f \in BufferMgmt /\ f.status = b.status /\ f.prod_i = b.prod_i
       /\ f.cons_i = b.cons_i /\ f.submitter = b.submitter /\ b.prod_i \in Slots
       /\ f.partial_off = off
  BY <1>4, <1>6 DEF BufferMgmt
<1>13. CASE full
  <2>1. g'.past = g.past /\ g'.sent = g.sent /\ (~again => g'.next = (g.next + 1) % DataMod)
    BY <1>8, <1>13 DEF Ghosts
  <2> SUFFICES ASSUME Usual(g'.past, Kinds)
               PROVE  \E o \in Slots, m \in 0 .. N :
                        /\ Place(b', Lead(cb', stream'), call', state',
                                 Fresh(stream', worker'), o, m)
                        /\ Numbered(data', g'.sent, g'.next, o, m)
    BY DEF OInv
  <2>2. Usual(g.past, Kinds) BY <2>1
  <2>3. PICK o \in Slots, m \in 0 .. N :
          /\ Place(b, Lead(cb, stream), call, state, Fresh(stream, worker), o, m)
          /\ Numbered(data, g.sent, g.next, o, m)
    BY <2>2 DEF OInv
  <2>4. PICK L : L = Lead(cb, stream) OBVIOUS
  <2>5. Line(b, L, NoSlot, o, m, b.prod_i) /\ Elsewhere(b, L, call, state, o)
    BY <1>1, <2>3, <2>4, PlaceIdle
  <2>6. /\ L \in Leads /\ (L # NoSlot => b.status[L] = "IN_FLIGHT")
        /\ b.status[b.prod_i] = "PARTIAL"
        /\ b.submitter = "CALLBACK" => b.cons_i # NoSlot
    BY <1>1, <2>2, <2>4, LeadFacts DEF Owned, Filling
  <2>7. ~again /\ Aimed(b, L, o) /\ (b.submitter = "FN" => L = NoSlot)
    BY <1>1, <1>10, <2>5 DEF Elsewhere
  <2>8. Line(f, L, NoSlot, o, m, f.prod_i) /\ Aimed(f, L, o)
    BY <1>12, <2>5, <2>7 DEF Line, Aimed
  <2>9. Advance(f, c) BY <1>8, <1>13
  <2>10. /\ m < N /\ m + 1 \in 0 .. N /\ f.prod_i = Add(o, m)
         /\ Place(b', L, call', state', Fresh(stream, worker), o, m + 1)
    BY <1>11, <1>12, <2>6, <2>7, <2>8, <2>9, AdvancePlace
  <2>11. Numbered([data EXCEPT ![Add(o, m)] = g.next], g.sent, (g.next + 1) % DataMod, o, m + 1)
    BY <2>3, <2>10, Pushed DEF Ghosts
  <2>12. data' = [data EXCEPT ![Add(o, m)] = g.next] BY <1>8, <1>12, <1>13, <2>7, <2>10
  <2>13. Numbered(data', g'.sent, g'.next, o, m + 1) BY <2>1, <2>7, <2>11, <2>12
  <2> QED BY <1>1, <2>4, <2>10, <2>13
<1>14. CASE ~full
  <2>1. b' = f /\ call' = Looping(c) /\ UNCHANGED <<state, data, g>> BY <1>8, <1>14
  <2>2. ASSUME NEW o \in Slots, NEW m \in 0 .. N,
               Place(b, Lead(cb, stream), call, state, Fresh(stream, worker), o, m)
        PROVE  Place(b', Lead(cb, stream), call', state', Fresh(stream, worker), o, m)
    <3>1. PICK L : L = Lead(cb, stream) OBVIOUS
    <3>2. Line(b, L, NoSlot, o, m, b.prod_i) /\ Elsewhere(b, L, call, state, o)
      BY <1>1, <2>2, <3>1, PlaceIdle
    <3>3. ~Busy(call') /\ call'.pc # "wait" BY <1>11, <2>1, LoopingIdle
    <3>4. Line(b', L, NoSlot, o, m, b'.prod_i) BY <1>12, <2>1, <3>2 DEF Line
    <3>5. Elsewhere(b', L, call', state', o)
      BY <1>9, <1>12, <1>14, <2>1, <3>2, <3>3 DEF Elsewhere, Aimed
    <3> QED BY <3>1, <3>3, <3>4, <3>5, IdlePlace
  <2> QED BY <1>1, <2>1, <2>2, WriterOrder
<1> QED BY <1>13, <1>14

\* The ring after the answer to a reclaimed buffer.
LEMMA AnsweredRing ==
  ASSUME Inv, NEW L, NEW fr, NEW o \in Slots, NEW n \in 0 .. N,
         Place(b, L, call, state, fr, o, n), call.pc = "submitted", call.why # "advance",
         call.res # "ok" => b.submitter = "CALLBACK",
         NEW r, r = IF call.res = "ok" THEN Reclaimed(b, call.idx)
                    ELSE NotReclaimed(b, call.idx)
  PROVE  /\ r \in BufferMgmt /\ r.prod_i = b.prod_i
         /\ Line(r, L, NoSlot, o, n, Until(b, call)) /\ Aimed(r, L, o)
         /\ r.submitter = "FN" => L = NoSlot
         /\ L # NoSlot =>
              /\ Full(r) # {}
              /\ b.status[L] = "IN_FLIGHT" /\ call.idx # L => r.status[L] = "IN_FLIGHT"
<1> USE Rest
<1>0. Busy(call) /\ call.idx \in Slots /\ Next1(call.idx) \in Slots
  BY Wrapped DEF Busy, Inv, Route
<1>1. Around(b, L, call, fr, o) /\ Line(b, L, Hand(call), o, n, Until(b, call))
  BY <1>0 DEF Place
<1>2. CASE call.res = "ok"
  <2>1. Hand(call) = NoSlot /\ JustSent(call) BY <1>2 DEF Hand, Held, JustSent
  <2>2. /\ L = NoSlot /\ o = Next1(call.idx)
        /\ b.submitter = "CALLBACK" => b.cons_i = call.idx
    BY <1>1, <2>1 DEF Around
  <2>3. CASE Full(b) = {}
    <3>1. r = HandBack(b) BY <1>2, <2>3 DEF Reclaimed
    <3> QED BY <1>1, <2>1, <2>2, <2>3, <3>1, HandBackLine, HandBackRing
  <2>4. CASE Full(b) # {}
    <3>1. r = [b EXCEPT !.cons_i = Next1(call.idx)] BY <1>2, <2>4 DEF Reclaimed
    <3>2. /\ r \in BufferMgmt /\ r.prod_i = b.prod_i /\ r.status = b.status
          /\ r.submitter = b.submitter /\ r.cons_i = Next1(call.idx)
      BY <1>0, <3>1 DEF BufferMgmt
    <3>3. b.submitter # "FN" BY <1>1, <2>4 DEF Line, Full
    <3> QED BY <1>1, <2>1, <2>2, <3>2, <3>3 DEF Line, Aimed
  <2> QED BY <2>3, <2>4
<1>3. CASE call.res # "ok"
  <2>1. Hand(call) = call.idx /\ ~JustSent(call) /\ b.submitter = "CALLBACK"
    BY <1>3 DEF Hand, Held, JustSent
  <2>2. r = [b EXCEPT !.status[call.idx] = "FULL"] BY <1>3 DEF NotReclaimed
  <2>3. /\ r \in BufferMgmt /\ r.prod_i = b.prod_i /\ r.submitter = b.submitter
        /\ r.cons_i = b.cons_i /\ r.status[call.idx] = "FULL"
        /\ \A j \in Slots \ {call.idx} : r.status[j] = b.status[j]
    <3>1. "FULL" \in Status /\ b \in BufferMgmt BY DEF Status
    <3>2. PICK q : q = [b EXCEPT !.status[call.idx] = "FULL"] OBVIOUS
    <3>3. /\ q \in BufferMgmt /\ q.prod_i = b.prod_i /\ q.submitter = b.submitter
          /\ q.cons_i = b.cons_i /\ q.status[call.idx] = "FULL"
          /\ \A j \in Slots \ {call.idx} : q.status[j] = b.status[j]
      BY <1>0, <3>1, <3>2, SetStatus
    <3> QED BY <2>2, <3>2, <3>3
  <2>4. Line(r, L, NoSlot, o, n, Until(b, call))
    BY <1>0, <1>1, <2>1, <2>3, Wrapped DEF Line
  <2>5. Aimed(r, L, o) BY <1>1, <2>1, <2>3 DEF Around, Aimed
  <2>6. Full(r) # {} BY <1>0, <2>3 DEF Full
  <2>7. L # NoSlot => L \in Slots BY <1>1 DEF Line
  <2> QED BY <2>1, <2>3, <2>4, <2>5, <2>6, <2>7
<1> QED BY <1>2, <1>3

\* LeftBehind excuses a buffer the callback can no longer ship in order.
LEMMA NotLeftBehind ==
  ASSUME Inv, NEW K, g'.past = g.past \cup K, LeftBehind \subseteq K, Usual(g'.past, Kinds)
  PROVE  Usual(g.past, Kinds) /\ (call.res # "ok" => b.submitter = "CALLBACK")
<1>1. b.submitter \in {"FN", "CALLBACK"} BY DEF Inv, TypeOK, BufferMgmt
<1>2. "disordered" \in Kinds BY DEF Kinds
<1> QED BY <1>1, <1>2 DEF Usual, LeftBehind

\* The writer's slot is not the lead.
LEMMA HandNotLead ==
  ASSUME Inv, Usual(g.past, Kinds), Held(call), Lead(cb, stream) # NoSlot
  PROVE  call.idx # Lead(cb, stream)
<1>1. WriterOwned(b, usb, cb, stream.rejected, call) BY LeadFacts DEF Owned
<1> QED BY <1>1 DEF WriterOwned, Out, Lead

LEMMA AdvanceSubmittedOrder ==
  ASSUME Inv, OInv, AdvanceSubmitted
  PROVE  OInv'
<1> USE Rest
<1>1. /\ call.pc = "submitted" /\ call.why = "advance" /\ call.idx = b.prod_i /\ Busy(call)
      /\ call.idx \in Slots /\ call.res \in {"ok", "would_block", "error"}
      /\ UNCHANGED <<data, cb, stream, worker>>
  BY DEF AdvanceSubmitted, Inv, Route, Busy, Calls, usbVars, threadVars
<1>2. ASSUME NEW L, NEW fr, NEW o \in Slots, NEW n \in 0 .. N,
             Place(b, L, call, state, fr, o, n)
      PROVE  /\ L = NoSlot /\ b.submitter = "FN"
             /\ Line(b, NoSlot, Hand(call), o, n, Next1(b.prod_i))
             /\ call.res # "ok" => Hand(call) = call.idx /\ call.idx = o /\ n = 1
             /\ call.res = "ok" => Hand(call) = NoSlot
  <2>1. Around(b, L, call, fr, o) /\ Line(b, L, Hand(call), o, n, Until(b, call))
    BY <1>1, <1>2 DEF Place
  <2>2. L = NoSlot /\ b.submitter = "FN" BY <1>1, <2>1 DEF Around
  <2>3. Until(b, call) = Next1(b.prod_i) BY <1>1 DEF Until, Advances
  <2>4. /\ call.res # "ok" => Hand(call) = call.idx
        /\ call.res = "ok" => Hand(call) = NoSlot
    BY <1>1 DEF Hand, Held
  <2>5. Line(b, NoSlot, Hand(call), o, n, Next1(b.prod_i)) BY <2>1, <2>2, <2>3
  <2>6. call.res # "ok" => call.idx = o /\ n = 1 BY <1>1, <2>2, <2>4, <2>5, OnlyOne
  <2> QED BY <2>2, <2>4, <2>5, <2>6
<1>3. CASE call.res = "ok"
  <2>1. Step(b, call) /\ g' = g BY <1>3 DEF AdvanceSubmitted
  <2>2. ASSUME NEW o \in Slots, NEW n \in 0 .. N,
               Place(b, Lead(cb, stream), call, state, Fresh(stream, worker), o, n)
        PROVE  Place(b', Lead(cb, stream), call', state', Fresh(stream, worker), o, n)
    <3>1. PICK L : L = Lead(cb, stream) OBVIOUS
    <3>2. /\ L = NoSlot /\ b.submitter = "FN"
          /\ Line(b, L, NoSlot, o, n, Next1(b.prod_i))
      BY <1>2, <1>3, <2>2, <3>1
    <3>3. Aimed(b, L, o) BY <3>2 DEF Aimed
    <3> QED BY <2>1, <3>1, <3>2, <3>3, StepPlace
  <2> QED BY <1>1, <2>1, <2>2, WriterOrder
<1>4. CASE call.res = "would_block"
  <2>1. Step(Defer(b, call.idx), call) /\ g' = g BY <1>4 DEF AdvanceSubmitted
  <2>2. PICK d : d = Defer(b, call.idx) OBVIOUS
  <2>3. /\ d \in BufferMgmt /\ d.submitter = "CALLBACK" /\ d.cons_i = call.idx
        /\ d.status[call.idx] = "FULL" /\ d.prod_i = b.prod_i
        /\ \A j \in Slots \ {call.idx} : d.status[j] = b.status[j]
    BY <1>1, <2>2 DEF Defer, BufferMgmt, Status
  <2>4. ASSUME NEW o \in Slots, NEW n \in 0 .. N,
               Place(b, Lead(cb, stream), call, state, Fresh(stream, worker), o, n)
        PROVE  Place(b', Lead(cb, stream), call', state', Fresh(stream, worker), o, n)
    <3>1. PICK L : L = Lead(cb, stream) OBVIOUS
    <3>2. /\ L = NoSlot /\ call.idx = o
          /\ Line(b, L, call.idx, o, n, Next1(b.prod_i))
      BY <1>2, <1>4, <2>4, <3>1
    <3>3. Line(d, L, NoSlot, o, n, Next1(d.prod_i)) BY <1>1, <2>3, <3>2, Wrapped DEF Line
    <3>4. Aimed(d, L, o) BY <2>3, <3>2 DEF Aimed
    <3> QED BY <2>1, <2>2, <2>3, <3>1, <3>2, <3>3, <3>4, StepPlace
  <2> QED BY <1>1, <2>1, <2>4, WriterOrder
<1>5. CASE call.res = "error"
  <2>1. /\ b' = Refused(b, call.idx) /\ call' = NoCall
        /\ state' \in {"BUFFER_READY", "WAIT_FOR_BUFFER"}
        /\ g' = [g EXCEPT !.next = data[call.idx]]
    BY <1>5 DEF AdvanceSubmitted
  <2>2. 0 \in 0 .. Units BY Sizes
  <2>3. /\ b'.submitter = b.submitter /\ b'.cons_i = b.cons_i
        /\ b'.status[call.idx] = "EMPTY" /\ b'.prod_i = b.prod_i
        /\ \A j \in Slots \ {call.idx} : b'.status[j] = b.status[j]
    BY <1>1, <2>1, <2>2 DEF Refused, BufferMgmt
  <2>4. g'.past = g.past /\ g'.sent = g.sent /\ g'.next = data[call.idx]
    BY <2>1 DEF Ghosts
  <2> SUFFICES ASSUME Usual(g'.past, Kinds)
               PROVE  \E o \in Slots, m \in 0 .. N :
                        /\ Place(b', Lead(cb', stream'), call', state',
                                 Fresh(stream', worker'), o, m)
                        /\ Numbered(data', g'.sent, g'.next, o, m)
    BY DEF OInv
  <2>5. PICK o \in Slots, n \in 0 .. N :
          /\ Place(b, Lead(cb, stream), call, state, Fresh(stream, worker), o, n)
          /\ Numbered(data, g.sent, g.next, o, n)
    BY <2>4 DEF OInv
  <2>6. PICK L : L = Lead(cb, stream) OBVIOUS
  <2>7. /\ L = NoSlot /\ b.submitter = "FN" /\ call.idx = o /\ n = 1
        /\ Line(b, NoSlot, o, o, 1, Next1(b.prod_i))
    BY <1>2, <1>5, <2>5, <2>6
  <2>8. Numbered(data, g.sent, data[o], o, 0) BY <2>5, <2>7, TakenBack
  <2>9. /\ b'.cons_i = NoSlot /\ \A i \in Slots : b'.status[i] # "FULL"
    BY <1>1, <2>3, <2>7 DEF Line
  <2>10. b'.prod_i = Add(o, 0) BY <1>1, <2>3, <2>7, Circle
  <2>11. \A i \in Slots : ~(Dist(o, i) < 0) /\ i # NoSlot BY Circle, Wrapped
  <2>12. Line(b', L, NoSlot, o, 0, b'.prod_i) BY <2>7, <2>9, <2>10, <2>11 DEF Line
  <2>13. ~Busy(call') /\ call'.pc = "none" BY <2>1, LoopingIdle
  <2>14. Elsewhere(b', L, call', state', o)
    BY <2>1, <2>3, <2>7, <2>13 DEF Elsewhere, Aimed
  <2>15. Place(b', L, call', state', Fresh(stream, worker), o, 0)
    BY <2>12, <2>13, <2>14, IdlePlace
  <2>16. 0 \in 0 .. N BY Sizes
  <2>17. Numbered(data', g'.sent, g'.next, o, 0) BY <1>1, <2>4, <2>7, <2>8
  <2> QED BY <1>1, <2>6, <2>15, <2>16, <2>17
<1> QED BY <1>1, <1>3, <1>4, <1>5

LEMMA ParkedSubmittedOrder ==
  ASSUME Inv, OInv, ParkedSubmitted
  PROVE  OInv'
<1> USE Rest
<1>1. /\ call.pc = "submitted" /\ call.why = "parked" /\ Busy(call)
      /\ call.res \in {"ok", "would_block", "error"}
      /\ UNCHANGED <<data, cb, stream, worker>>
  BY DEF ParkedSubmitted, Inv, Route, Busy, Calls, usbVars, threadVars
<1>2. PICK K : K = LeftBehind \cup (IF call.res = "error" THEN {"retained"} ELSE {})
  OBVIOUS
<1>3. K \in SUBSET Kinds BY <1>2 DEF LeftBehind, Kinds
<1>4. g' = [g EXCEPT !.past = @ \cup K] BY <1>2 DEF ParkedSubmitted
<1>5. g'.past = g.past \cup K /\ g'.sent = g.sent /\ g'.next = g.next BY <1>4 DEF Ghosts
<1>6. ASSUME Usual(g'.past, Kinds), NEW o \in Slots, NEW n \in 0 .. N,
             Place(b, Lead(cb, stream), call, state, Fresh(stream, worker), o, n)
      PROVE  Place(b', Lead(cb, stream), call', state', Fresh(stream, worker), o, n)
  <2>1. call.res # "error" BY <1>2, <1>5, <1>6 DEF Usual, Kinds
  <2>2. call.res # "ok" => b.submitter = "CALLBACK" BY <1>2, <1>5, <1>6, NotLeftBehind
  <2>3. PICK d : d = IF call.res = "ok" THEN Reclaimed(b, call.idx)
                     ELSE NotReclaimed(b, call.idx)
    OBVIOUS
  <2>4. Step(d, call) BY <1>1, <2>1, <2>3 DEF ParkedSubmitted
  <2>5. PICK L : L = Lead(cb, stream) OBVIOUS
  <2>6. Until(b, call) = Next1(b.prod_i) BY <1>1 DEF Until, Advances
  <2>7. /\ d \in BufferMgmt /\ d.prod_i = b.prod_i
        /\ Line(d, L, NoSlot, o, n, Until(b, call)) /\ Aimed(d, L, o)
        /\ d.submitter = "FN" => L = NoSlot
    BY <1>1, <1>6, <2>2, <2>3, <2>5, AnsweredRing
  <2> QED BY <2>4, <2>5, <2>6, <2>7, StepPlace
<1>7. Usual(g'.past, Kinds) => Usual(g.past, Kinds) BY <1>5 DEF Usual
<1> QED BY <1>1, <1>5, <1>6, <1>7, WriterOrder

LEMMA LoopSubmittedOrder ==
  ASSUME Inv, OInv, LoopSubmitted
  PROVE  OInv'
<1> USE Rest
<1>1. /\ call.pc = "submitted" /\ call.why = "loop" /\ Busy(call)
      /\ state = "WAIT_FOR_BUFFER" /\ UNCHANGED <<data, cb, stream, worker>>
  BY DEF LoopSubmitted, Inv, Route, Busy, usbVars, threadVars
<1>2. g' = [g EXCEPT !.past = @ \cup LeftBehind] BY DEF LoopSubmitted
<1>3. g'.past = g.past \cup LeftBehind /\ g'.sent = g.sent /\ g'.next = g.next
  BY <1>2 DEF Ghosts
<1>4. ASSUME Usual(g'.past, Kinds), NEW o \in Slots, NEW n \in 0 .. N,
             Place(b, Lead(cb, stream), call, state, Fresh(stream, worker), o, n)
      PROVE  Place(b', Lead(cb, stream), call', state', Fresh(stream, worker), o, n)
  <2>1. Usual(g.past, Kinds) /\ (call.res # "ok" => b.submitter = "CALLBACK")
    BY <1>3, <1>4, NotLeftBehind
  <2>2. PICK r : r = IF call.res = "ok" THEN Reclaimed(b, call.idx)
                     ELSE NotReclaimed(b, call.idx)
    OBVIOUS
  <2>3. PICK L : L = Lead(cb, stream) OBVIOUS
  <2>4. Until(b, call) = b.prod_i BY <1>1 DEF Until, Advances
  <2>5. /\ r \in BufferMgmt /\ r.prod_i = b.prod_i
        /\ Line(r, L, NoSlot, o, n, Until(b, call)) /\ Aimed(r, L, o)
        /\ r.submitter = "FN" => L = NoSlot
        /\ L # NoSlot => /\ Full(r) # {}
                         /\ b.status[L] = "IN_FLIGHT" /\ call.idx # L => r.status[L] = "IN_FLIGHT"
    BY <1>1, <1>4, <2>1, <2>2, <2>3, AnsweredRing
  <2>6. L \in Leads /\ (L # NoSlot => b.status[L] = "IN_FLIGHT") BY <2>1, <2>3, LeadFacts
  <2>7. L # NoSlot => call.idx # L
    <3>1. call.res = "ok" => L = NoSlot
      <4>1. call.res = "ok" => JustSent(call) BY <1>1 DEF JustSent
      <4> QED BY <4>1, <1>1, <1>4, <2>3 DEF Place, Around
    <3>2. call.res # "ok" => Held(call) BY <1>1 DEF Held
    <3> QED BY <2>1, <2>3, <3>1, <3>2, HandNotLead
  <2>8. Line(r, L, NoSlot, o, n, r.prod_i) BY <2>4, <2>5
  <2>9. CASE call.res = "error"
    <3>1. b' = r /\ call' = NoCall /\ state' = state BY <2>2, <2>9 DEF LoopSubmitted
    <3>2. ~Busy(call') /\ call'.pc # "wait" BY <3>1, LoopingIdle
    <3>3. Elsewhere(b', L, call', state', o) BY <1>1, <2>5, <3>1, <3>2 DEF Elsewhere
    <3> QED BY <2>3, <2>8, <3>1, <3>2, <3>3, IdlePlace
  <2>10. CASE call.res # "error" /\ r.cons_i = call.before
    <3>1. WaitOrGo(r, call) BY <2>2, <2>10 DEF LoopSubmitted
    <3> QED BY <1>1, <2>3, <2>5, <2>8, <3>1, WaitOrGoPlace
  <2>11. CASE call.res # "error" /\ r.cons_i # call.before
    <3>1. ReclaimLoop(r, call) BY <2>2, <2>11 DEF LoopSubmitted
    <3>2. L # NoSlot => r.status[L] = "IN_FLIGHT" BY <2>5, <2>6, <2>7
    <3> QED BY <1>1, <2>3, <2>5, <2>6, <2>8, <3>1, <3>2, ReclaimLoopPlace
  <2> QED BY <2>9, <2>10, <2>11
<1>5. Usual(g'.past, Kinds) => Usual(g.past, Kinds) BY <1>3 DEF Usual
<1> QED BY <1>1, <1>3, <1>4, <1>5, WriterOrder

LEMMA LateSubmittedOrder ==
  ASSUME Inv, OInv, LateSubmitted
  PROVE  OInv'
<1> USE Rest
<1>1. /\ call.pc = "submitted" /\ call.why = "late" /\ Busy(call)
      /\ state = "WAIT_FOR_BUFFER" /\ UNCHANGED <<data, cb, stream, worker, state>>
  BY DEF LateSubmitted, Inv, Route, Busy, usbVars, threadVars
<1>2. g' = [g EXCEPT !.past = @ \cup LeftBehind] BY DEF LateSubmitted
<1>3. g'.past = g.past \cup LeftBehind /\ g'.sent = g.sent /\ g'.next = g.next
  BY <1>2 DEF Ghosts
<1>4. ASSUME Usual(g'.past, Kinds), NEW o \in Slots, NEW n \in 0 .. N,
             Place(b, Lead(cb, stream), call, state, Fresh(stream, worker), o, n)
      PROVE  Place(b', Lead(cb, stream), call', state', Fresh(stream, worker), o, n)
  <2>1. Usual(g.past, Kinds) /\ (call.res # "ok" => b.submitter = "CALLBACK")
    BY <1>3, <1>4, NotLeftBehind
  <2>2. PICK r : r = IF call.res = "ok" THEN Reclaimed(b, call.idx)
                     ELSE NotReclaimed(b, call.idx)
    OBVIOUS
  <2>3. PICK L : L = Lead(cb, stream) OBVIOUS
  <2>4. Until(b, call) = b.prod_i BY <1>1 DEF Until, Advances
  <2>5. /\ r \in BufferMgmt /\ r.prod_i = b.prod_i
        /\ Line(r, L, NoSlot, o, n, Until(b, call)) /\ Aimed(r, L, o)
        /\ r.submitter = "FN" => L = NoSlot
    BY <1>1, <1>4, <2>1, <2>2, <2>3, AnsweredRing
  <2>6. b' = r /\ call' \in {Looping(call), NoCall} BY <2>2 DEF LateSubmitted
  <2>7. ~Busy(call') /\ call'.pc # "wait" BY <2>6, LoopingIdle
  <2>8. Line(b', L, NoSlot, o, n, b'.prod_i) BY <2>4, <2>5, <2>6
  <2>9. Elsewhere(b', L, call', state', o) BY <1>1, <2>5, <2>6, <2>7 DEF Elsewhere
  <2> QED BY <2>3, <2>7, <2>8, <2>9, IdlePlace
<1>5. Usual(g'.past, Kinds) => Usual(g.past, Kinds) BY <1>3 DEF Usual
<1> QED BY <1>1, <1>3, <1>4, <1>5, WriterOrder

\* What is appended to the endpoint's queue is what is sent.
InOrderStep == Submits /\ Usual(g'.past, Kinds) => Sent = (g.sent + 1) % DataMod

LEMMA AppendSent ==
  ASSUME Inv, NEW i, NEW gen, usb' = Append(usb, [slot |-> i, gen |-> gen])
  PROVE  Sent = data[i]
<1>1. Len(usb) \in Nat BY DEF Inv, TypeOK
<1>2. Len(usb') = Len(usb) + 1 /\ usb'[Len(usb')] = [slot |-> i, gen |-> gen]
  BY <1>1 DEF Inv, TypeOK
<1> QED BY <1>2 DEF Sent

LEMMA SubmitOrder ==
  ASSUME Inv, OInv, Submit
  PROVE  OInv' /\ InOrderStep
<1> USE Rest
<1>1. /\ call.pc = "submit" /\ Busy(call) /\ call.idx \in Slots
      /\ UNCHANGED <<b, data, cb, stream, worker, state>>
  BY DEF Submit, Inv, Route, Busy
<1>2. CASE /\ UNCHANGED <<usb, g>>
           /\ \/ call' = [call EXCEPT !.pc = "submitted", !.res = "would_block"]
              \/ call' = [call EXCEPT !.pc = "submitted", !.res = "error"]
  <2>1. /\ call'.pc = "submitted" /\ call'.res # "ok" /\ call'.idx = call.idx
        /\ call'.why = call.why
    BY <1>2 DEF Calls
  <2>2. /\ Hand(call') = Hand(call) /\ Until(b, call') = Until(b, call) /\ Busy(call')
        /\ ~JustSent(call') /\ ~JustSent(call) /\ Held(call') /\ Held(call)
    BY <1>1, <2>1 DEF Hand, Held, Until, Advances, Busy, JustSent
  <2>3. ASSUME NEW o \in Slots, NEW n \in 0 .. N,
               Place(b, Lead(cb, stream), call, state, Fresh(stream, worker), o, n)
        PROVE  Place(b', Lead(cb, stream), call', state', Fresh(stream, worker), o, n)
    BY <1>1, <2>1, <2>2, <2>3 DEF Place, Around
  <2>4. OInv' BY <1>1, <1>2, <2>3, WriterOrder
  <2>5. ~Submits BY <1>2 DEF Submits, Inv, TypeOK
  <2> QED BY <2>4, <2>5 DEF InOrderStep
<1>3. CASE /\ stream.state = "RUNNING"
           /\ usb' = Append(usb, [slot |-> call.idx, gen |-> adm.gen])
           /\ Sends(call.idx, IF cb.at = "none" THEN {} ELSE {"disordered"})
           /\ call' = [call EXCEPT !.pc = "submitted", !.res = "ok"]
  <2>1. /\ call'.pc = "submitted" /\ call'.res = "ok" /\ call'.idx = call.idx
        /\ call'.why = call.why
    BY <1>3 DEF Calls
  <2>2. /\ g'.sent = data[call.idx] /\ g'.next = g.next
        /\ g'.past = g.past \cup (IF cb.at = "none" THEN {} ELSE {"disordered"})
    BY <1>3 DEF Sends, Ghosts
  <2> SUFFICES ASSUME Usual(g'.past, Kinds)
               PROVE  /\ \E o \in Slots, m \in 0 .. N :
                           /\ Place(b', Lead(cb', stream'), call', state',
                                 Fresh(stream', worker'), o, m)
                           /\ Numbered(data', g'.sent, g'.next, o, m)
                      /\ Sent = (g.sent + 1) % DataMod
    BY DEF OInv, InOrderStep
  <2>3. cb.at = "none" /\ Usual(g.past, Kinds) BY <2>2 DEF Usual, Kinds
  <2>4. Lead(cb, stream) = NoSlot /\ Fresh(stream, worker)
    BY <1>3, <2>3 DEF Inv, Pool, Lead, Fresh
  <2>5. PICK o \in Slots, n \in 0 .. N :
          /\ Place(b, NoSlot, call, state, Fresh(stream, worker), o, n)
          /\ Numbered(data, g.sent, g.next, o, n)
    BY <2>3, <2>4 DEF OInv
  <2>6. Held(call) /\ Hand(call) = call.idx /\ ~JustSent(call)
    BY <1>1 DEF Hand, Held, JustSent
  <2>7. /\ Line(b, NoSlot, call.idx, o, n, Until(b, call))
        /\ Around(b, NoSlot, call, Fresh(stream, worker), o)
    BY <1>1, <2>5, <2>6 DEF Place
  <2>8. call.idx = o
    <3>1. CASE b.submitter = "FN" BY <1>1, <2>7, <3>1, OnlyOne
    <3>2. CASE b.submitter # "FN"
      <4>1. b.submitter = "CALLBACK" BY <3>2 DEF BufferMgmt
      <4>2. call.why # "advance" BY <2>7, <3>2 DEF Around
      <4>3. call.idx = b.cons_i BY <2>4, <2>6, <2>7, <4>1, <4>2 DEF Around
      <4>4. b.cons_i = o BY <2>6, <2>7, <4>1 DEF Around, Aimed
      <4> QED BY <4>3, <4>4
    <3> QED BY <3>1, <3>2
  <2>9. b.status[o] # "FULL"
    BY <1>1, <2>3, <2>6, <2>8, LeadFacts DEF Owned, WriterOwned
  <2>10. \A i \in Slots : (b.status[i] = "FULL" \/ i = NoSlot) <=>
                          (i # o /\ (b.status[i] = "FULL" \/ i = NoSlot \/ i = call.idx))
    BY <2>8, <2>9, Wrapped
  <2>11. 0 < n /\ Line(b, NoSlot, NoSlot, Next1(o), n - 1, Until(b, call))
    <3>1. b.submitter = "FN" => b.cons_i = NoSlot /\ \A i \in Slots : b.status[i] # "FULL"
      BY <2>7 DEF Line
    <3> QED BY <2>7, <2>8, <2>10, <3>1, LinePop
  <2>12. /\ data[o] = (g.sent + 1) % DataMod
         /\ Numbered(data, data[o], g.next, Next1(o), n - 1)
         /\ Next1(o) \in Slots /\ n - 1 \in 0 .. N
    BY <2>5, <2>11, Popped
  <2>13. Hand(call') = NoSlot /\ Until(b, call') = Until(b, call) /\ Busy(call') /\ ~Held(call')
    BY <1>1, <2>1 DEF Hand, Held, Until, Advances, Busy
  <2>14. Around(b, NoSlot, call', Fresh(stream, worker), Next1(o))
    <3>1. call.why = "advance" => b.submitter = "FN" BY <2>7 DEF Around
    <3>2. JustSent(call') <=> call.why # "advance" BY <2>1 DEF JustSent
    <3>3. b.submitter = "CALLBACK" => b.cons_i = call.idx
      BY <2>6, <2>7, <2>8 DEF Around, Aimed
    <3> QED BY <2>1, <2>8, <2>9, <2>13, <3>1, <3>2, <3>3 DEF Around, Aimed
  <2>15. Place(b, NoSlot, call', state, Fresh(stream, worker), Next1(o), n - 1)
    BY <2>11, <2>13, <2>14 DEF Place
  <2>16. Place(b', Lead(cb', stream'), call', state', Fresh(stream', worker'), Next1(o), n - 1)
    BY <1>1, <2>4, <2>15
  <2>17. Numbered(data', g'.sent, g'.next, Next1(o), n - 1) BY <1>1, <2>2, <2>8, <2>12
  <2>18. Sent = data[o] BY <1>3, <2>8, AppendSent
  <2> QED BY <2>12, <2>16, <2>17, <2>18
<1> QED BY <1>2, <1>3 DEF Submit

-----------------------------------------------------------------------------
(* Order: the other threads.                                               *)

\* A step that leaves the stretch where it is, and wakes the writer at most.
LEMMA ThreadOrder ==
  ASSUME OInv, UNCHANGED <<data, state>>, g'.sent = g.sent, g'.next = g.next,
         Usual(g'.past, Kinds) => Usual(g.past, Kinds),
         ASSUME Usual(g'.past, Kinds), NEW o \in Slots, NEW n \in 0 .. N,
                Place(b, Lead(cb, stream), call, state, Fresh(stream, worker), o, n)
         PROVE  Place(b', Lead(cb', stream'), call', state, Fresh(stream', worker'), o, n)
  PROVE  OInv'
<1> SUFFICES ASSUME Usual(g'.past, Kinds)
             PROVE  \E o \in Slots, n \in 0 .. N :
                      /\ Place(b', Lead(cb', stream'), call', state', Fresh(stream', worker'), o, n)
                      /\ Numbered(data', g'.sent, g'.next, o, n)
  BY DEF OInv
<1>1. PICK o \in Slots, n \in 0 .. N :
        /\ Place(b, Lead(cb, stream), call, state, Fresh(stream, worker), o, n)
        /\ Numbered(data, g.sent, g.next, o, n)
  BY DEF OInv
<1>2. Place(b', Lead(cb', stream'), call', state, Fresh(stream', worker'), o, n) BY <1>1
<1> QED BY <1>1, <1>2

\* Waking the writer, or ending the stream, loses nothing.
LEMMA SamePlace ==
  ASSUME NEW bb, NEW L, NEW c, NEW d, NEW st, NEW fr, NEW fs, NEW o, NEW n, Same(c, d),
         Place(bb, L, c, st, fr, o, n), fs => fr
  PROVE  Place(bb, L, d, st, fs, o, n)
<1>1. CASE d = c BY <1>1 DEF Place, Around
<1>2. CASE c.pc = "wait" /\ d.pc = "woken"
  <2>1. ~Busy(c) /\ ~Busy(d) BY <1>2 DEF Busy
  <2>2. Line(bb, L, NoSlot, o, n, bb.prod_i) /\ Elsewhere(bb, L, c, st, o)
    BY <2>1, PlaceIdle
  <2>3. Elsewhere(bb, L, d, st, o) BY <1>2, <2>2 DEF Elsewhere
  <2> QED BY <2>1, <2>2, <2>3, IdlePlace
<1> QED BY <1>1, <1>2 DEF Same

LEMMA OutsideOrder ==
  ASSUME Inv, OInv, UNCHANGED <<b, data, state>>, g'.sent = g.sent, g'.next = g.next,
         Usual(g'.past, Kinds) => Usual(g.past, Kinds), Same(call, call'),
         Lead(cb', stream') = Lead(cb, stream),
         Fresh(stream', worker') => Fresh(stream, worker)
  PROVE  OInv'
<1>1. ASSUME NEW o \in Slots, NEW n \in 0 .. N,
             Place(b, Lead(cb, stream), call, state, Fresh(stream, worker), o, n)
      PROVE  Place(b', Lead(cb', stream'), call', state, Fresh(stream', worker'), o, n)
  BY <1>1, SamePlace
<1> QED BY <1>1, ThreadOrder

LEMMA OutsideOrders ==
  ASSUME Inv, OInv, \/ PublishError \/ BackToIdle \/ Revoke \/ Certify \/ RunStream
                    \/ Drained \/ TransferError \/ CallbackChecked \/ Stalled
  PROVE  OInv' /\ (~Submits \/ ~Usual(g'.past, Kinds))
<1> USE Rest
<1>0. Len(usb) \in Nat /\ usb \in Seq(Transfers) BY DEF Inv, TypeOK
<1>1. CASE PublishError \/ BackToIdle \/ Revoke \/ Certify
  <2>1. UNCHANGED <<b, data, usb, cb, stream, state, g>> /\ Same(call, call')
    BY <1>1, WakeSame DEF PublishError, BackToIdle, Revoke, Certify, usbVars
  <2>2. \/ worker' = worker
        \/ worker = "RESTORED" /\ worker' = "ENDED"
        \/ worker = "ENDED" /\ worker' = "IDLE"
    BY <1>1 DEF PublishError, BackToIdle, Revoke, Certify
  <2>3. OInv' BY <2>1, <2>2, OutsideOrder DEF Fresh
  <2> QED BY <1>0, <2>1, <2>3 DEF Submits
<1>2. CASE RunStream
  <2>1. /\ worker = "STARTED" /\ UNCHANGED <<b, data, usb, cb, state, call, g>>
        /\ stream'.rejected = NoSlot
    BY <1>2 DEF RunStream
  <2>2. Lead(cb', stream') = Lead(cb, stream) BY <2>1 DEF Inv, Pool, Lead
  <2>3. Fresh(stream, worker) /\ Same(call, call') BY <2>1 DEF Fresh, Same
  <2>4. OInv' BY <2>1, <2>2, <2>3, OutsideOrder
  <2> QED BY <1>0, <2>1, <2>4 DEF Submits
<1>3. CASE Drained
  <2>1. /\ stream.state = "SHUTTING_DOWN" /\ UNCHANGED <<b, data, cb, worker, state, call, g>>
        /\ worker = "LOOP" /\ stream'.state \in {"SHUTTING_DOWN", "DONE"}
        /\ stream'.rejected = stream.rejected
        /\ usb' = usb \/ (usb # <<>> /\ usb' = Tail(usb))
    BY <1>3 DEF Drained, threadVars, StreamType
  <2>2. Lead(cb', stream') = Lead(cb, stream) /\ Same(call, call') BY <2>1 DEF Lead, Same
  <2>3. ~Fresh(stream', worker') BY <2>1 DEF Fresh
  <2>4. OInv' BY <2>1, <2>2, <2>3, OutsideOrder
  <2>5. Len(usb') <= Len(usb) BY <1>0, <2>1
  <2>6. Len(usb') \in Nat BY <1>0, <2>1
  <2> QED BY <1>0, <2>4, <2>5, <2>6 DEF Submits
<1>4. CASE TransferError
  <2>1. /\ Handles /\ stream.state = "RUNNING" /\ usb' = Tail(usb)
        /\ UNCHANGED <<b, data, cb, worker, state, call, g>>
        /\ stream'.rejected = NoSlot /\ stream'.state = "SHUTTING_DOWN"
    BY <1>4 DEF TransferError, threadVars, Ends
  <2>2. Lead(cb', stream') = Lead(cb, stream) /\ Same(call, call')
    BY <2>1 DEF Lead, Same, Inv, Pool
  <2>3. ~Fresh(stream', worker') BY <2>1, HandlesPool DEF Fresh
  <2>4. OInv' BY <2>1, <2>2, <2>3, OutsideOrder
  <2> QED BY <2>1, <2>4, HandlesPool DEF Submits
<1>5. CASE CallbackChecked
  <2>1. /\ cb.at = "check" /\ UNCHANGED <<b, data, usb, worker, state, call, g>>
        /\ \/ cb' = [cb EXCEPT !.at = "usb"] /\ stream' = stream
           \/ cb' = NoCb /\ stream'.rejected = cb.slot /\ stream'.state = "SHUTTING_DOWN"
    BY <1>5 DEF CallbackChecked, threadVars, Ends
  <2>2. cb.slot # NoSlot /\ stream.state = "RUNNING" /\ worker = "LOOP" /\ cb \in Callback
    BY <2>1 DEF Inv, Pool, TypeOK, Callback
  <2>3. Lead(cb', stream') = Lead(cb, stream) /\ Same(call, call')
    BY <2>1, <2>2, NoCbType DEF Lead, Same, Callback
  <2>4. Fresh(stream, worker) BY <2>2 DEF Fresh
  <2>5. OInv' BY <2>1, <2>3, <2>4, OutsideOrder
  <2> QED BY <1>0, <2>1, <2>5 DEF Submits
<1>6. CASE Stalled
  <2>1. /\ Handles /\ stream.state = "RUNNING"
        /\ UNCHANGED <<b, data, cb, worker, state, call>>
    BY <1>6 DEF Stalled, threadVars
  <2>2. cb.slot = NoSlot /\ stream.rejected = NoSlot /\ worker = "LOOP" /\ Same(call, call')
    BY <2>1, HandlesPool DEF Inv, Pool, Same
  <2>3. Fresh(stream, worker) BY <2>1, <2>2 DEF Fresh
  <2>4. Usual(g'.past, Kinds) =>
          /\ g'.past = g.past /\ g'.sent = g.sent /\ g'.next = g.next
          /\ stream'.rejected = NoSlot /\ Len(usb') <= Len(usb)
    <3>1. "disordered" \in Kinds BY DEF Kinds
    <3>2. CASE /\ usb' = Append(Tail(usb), Head1) /\ UNCHANGED stream
               /\ g' = [g EXCEPT !.past = IF Len(usb) > 1 THEN @ \cup {"disordered"} ELSE @]
      <4>1. Len(usb') = Len(usb)
        BY <2>1, <3>2, HandlesPool
      <4> QED BY <2>2, <3>1, <3>2, <4>1, <1>0 DEF Ghosts, Usual
    <3>3. CASE usb' = Tail(usb) /\ Ends("transport", NoSlot) /\ UNCHANGED g
      BY <2>1, <3>3, HandlesPool DEF Ends
    <3>4. CASE g' = [g EXCEPT !.past = @ \cup {"disordered"}, !.old = @ \cup {Head1.slot}]
      BY <3>1, <3>4 DEF Ghosts, Usual
    <3> QED BY <1>6, <3>2, <3>3, <3>4 DEF Stalled
  <2>5. CASE Usual(g'.past, Kinds)
    <3>1. Lead(cb', stream') = Lead(cb, stream) BY <2>1, <2>2, <2>4, <2>5 DEF Lead
    <3>2. OInv' BY <2>1, <2>2, <2>3, <2>4, <2>5, <3>1, OutsideOrder
    <3>3. Inv' BY <1>6, StalledInv
    <3>4. ~Submits
      <4>1. Len(usb') \in Nat BY <3>3 DEF Inv, TypeOK
      <4> QED BY <1>0, <2>4, <2>5, <4>1 DEF Submits
    <3> QED BY <3>2, <3>4
  <2>6. CASE ~Usual(g'.past, Kinds) BY <2>6 DEF OInv
  <2> QED BY <2>5, <2>6
<1> QED BY <1>1, <1>2, <1>3, <1>4, <1>5, <1>6

\* The three ways of tx_callback().
LEMMA TxCallbackWays ==
  ASSUME NEW bb \in BufferMgmt, bb.submitter = "CALLBACK" => bb.cons_i # NoSlot,
         NEW i \in Slots, bb.status[i] = "IN_FLIGHT", NEW t, t = TxCallback(bb, i)
  PROVE  /\ t.ring.prod_i = bb.prod_i /\ t.ring.partial_off = bb.partial_off
         /\ t.ring.status[i] = "EMPTY"
         /\ \/ /\ bb.submitter = "FN" /\ t.ships = NoSlot
               /\ t.ring.submitter = "FN" /\ t.ring.cons_i = bb.cons_i
            \/ /\ bb.submitter = "CALLBACK" /\ t.ships = bb.cons_i /\ bb.cons_i \in Slots
               /\ bb.status[bb.cons_i] = "FULL" /\ t.ring.status[bb.cons_i] = "IN_FLIGHT"
               /\ t.ring.submitter = "CALLBACK" /\ t.ring.cons_i = Next1(bb.cons_i)
            \/ /\ bb.submitter = "CALLBACK" /\ t.ships = NoSlot
               /\ t.ring.submitter = "FN" /\ t.ring.cons_i = NoSlot
         /\ \A j \in Slots \ {i, t.ships} : t.ring.status[j] = bb.status[j]
<1>1. PICK e : e = [bb EXCEPT !.status[i] = "EMPTY"] OBVIOUS
<1>2. /\ e \in BufferMgmt /\ e.submitter = bb.submitter /\ e.cons_i = bb.cons_i
      /\ e.prod_i = bb.prod_i /\ e.partial_off = bb.partial_off /\ e.status[i] = "EMPTY"
      /\ \A j \in Slots \ {i} : e.status[j] = bb.status[j]
  <2>1. "EMPTY" \in Status BY DEF Status
  <2> QED BY <1>1, <2>1, SetStatus
<1>3. NoSlot \notin Slots /\ bb.submitter \in {"FN", "CALLBACK"} BY Wrapped DEF BufferMgmt
<1>4. CASE e.submitter = "FN"
  <2>1. t = [ring |-> e, ships |-> NoSlot] BY <1>1, <1>4 DEF TxCallback
  <2>2. t.ring = e /\ t.ships = NoSlot BY <2>1
  <2> QED BY <1>2, <1>4, <2>2
<1>5. CASE e.submitter # "FN" /\ e.status[e.cons_i] = "FULL"
  <2>1. e.cons_i \in Slots /\ Next1(e.cons_i) \in Slots
    BY <1>2, <1>3, <1>5, Wrapped DEF BufferMgmt
  <2>2. PICK r : r = [e EXCEPT !.status[e.cons_i] = "IN_FLIGHT", !.cons_i = Next1(e.cons_i)]
    OBVIOUS
  <2>3. t = [ring |-> r, ships |-> e.cons_i] BY <1>1, <1>5, <2>2 DEF TxCallback
  <2>4. t.ring = r /\ t.ships = e.cons_i BY <2>3
  <2>5. /\ r.prod_i = e.prod_i /\ r.cons_i = Next1(e.cons_i) /\ r.submitter = e.submitter
        /\ r.partial_off = e.partial_off /\ r.status[e.cons_i] = "IN_FLIGHT"
        /\ \A j \in Slots \ {e.cons_i} : r.status[j] = e.status[j]
    BY <1>2, <2>1, <2>2 DEF BufferMgmt, Status
  <2>6. e.cons_i # i BY <1>2, <1>5
  <2> QED BY <1>2, <1>3, <1>5, <2>1, <2>4, <2>5, <2>6
<1>6. CASE e.submitter # "FN" /\ e.status[e.cons_i] # "FULL"
  <2>1. t = [ring |-> HandBack(e), ships |-> NoSlot] BY <1>1, <1>6 DEF TxCallback
  <2>2. t.ring = HandBack(e) /\ t.ships = NoSlot BY <2>1
  <2> QED BY <1>2, <1>3, <1>6, <2>2, HandBackRing
<1> QED BY <1>4, <1>5, <1>6

\* A completion frees a slot that is not of the stretch, and may take its first one.
LEMMA CompletedOrder ==
  ASSUME Inv, OInv, Completed
  PROVE  OInv' /\ ~Submits
<1> USE Rest
<1>1. /\ Handles /\ stream.state = "RUNNING" /\ usb' = Tail(usb)
      /\ UNCHANGED <<data, worker, state>> /\ Same(call, call')
      /\ call.pc = "wait" => call'.pc = "woken"
  <2>1. Same(call, call') BY WakeSame DEF Completed
  <2>2. call.pc = "wait" => call' = [call EXCEPT !.pc = "woken"] BY DEF Completed, Wake
  <2> QED BY <2>1, <2>2 DEF Completed, threadVars, Calls
<1>2. PICK i \in Slots : i = Head1.slot BY <1>1, HandlesPool
<1>3. PICK t : t = TxCallback(b, i) OBVIOUS
<1>4. b' = t.ring BY <1>2, <1>3 DEF Completed
<1>5. /\ g'.sent = g.sent /\ g'.next = g.next
      /\ g'.past = g.past \cup (IF b.submitter = "CALLBACK" /\ t.ships = NoSlot
                                   /\ Full(t.ring) # {} THEN {"disordered"} ELSE {})
  BY <1>2, <1>3 DEF Completed, Ghosts
<1>6. /\ cb.slot = NoSlot /\ stream.rejected = NoSlot /\ worker = "LOOP"
      /\ Lead(cb, stream) = NoSlot /\ Fresh(stream, worker)
  BY <1>1, HandlesPool DEF Inv, Pool, Lead, Fresh
<1>7. Lead(cb', stream') = t.ships
  <2>1. \/ /\ cb' = NoCb /\ t.ships = NoSlot /\ stream' = stream
        \/ /\ t.ships # NoSlot /\ stream' = stream
           /\ cb' = [slot |-> t.ships, gen |-> Head1.gen,
                     at |-> IF Admission THEN "check" ELSE "usb"]
        \/ /\ cb' = cb
           /\ stream' = [state |-> "SHUTTING_DOWN", error |-> "would_block",
                         rejected |-> t.ships]
    BY <1>2, <1>3 DEF Completed, Ends
  <2> QED BY <1>6, <2>1, NoCbType DEF Lead
<1>8. ASSUME Usual(g'.past, Kinds), NEW o \in Slots, NEW n \in 0 .. N,
             Place(b, Lead(cb, stream), call, state, Fresh(stream, worker), o, n)
      PROVE  Place(b', Lead(cb', stream'), call', state, Fresh(stream', worker'), o, n)
  <2>1. /\ Usual(g.past, Kinds)
        /\ b.submitter = "CALLBACK" /\ t.ships = NoSlot => Full(t.ring) = {}
    BY <1>5, <1>8 DEF Usual, Kinds
  <2>2. /\ Owned(b, usb, cb, stream.rejected, state, call) /\ Route(b, state, call)
        /\ b.submitter = "CALLBACK" => b.cons_i # NoSlot
    BY <2>1, LeadFacts
  <2>3. b.status[i] = "IN_FLIGHT"
    <3>1. On(i, usb) BY <1>1, <1>2, HandlesPool
    <3> QED BY <1>1, <2>2, <3>1, HandlesPool DEF Owned, RingOwned
  <2>4. /\ b'.prod_i = b.prod_i /\ b'.partial_off = b.partial_off
        /\ b'.status[i] = "EMPTY"
        /\ \/ /\ b.submitter = "FN" /\ t.ships = NoSlot
              /\ b'.submitter = "FN" /\ b'.cons_i = b.cons_i
           \/ /\ b.submitter = "CALLBACK" /\ t.ships = b.cons_i /\ b.cons_i \in Slots
              /\ b.status[b.cons_i] = "FULL" /\ b'.status[b.cons_i] = "IN_FLIGHT"
              /\ b'.submitter = "CALLBACK" /\ b'.cons_i = Next1(b.cons_i)
           \/ /\ b.submitter = "CALLBACK" /\ t.ships = NoSlot
              /\ b'.submitter = "FN" /\ b'.cons_i = NoSlot
        /\ \A j \in Slots \ {i, t.ships} : b'.status[j] = b.status[j]
    BY <1>3, <1>4, <2>2, <2>3, TxCallbackWays
  <2>5. Place(b, NoSlot, call, state, TRUE, o, n)
    BY <1>6, <1>8 DEF Place, Around
  <2>6. CASE t.ships = NoSlot
    <3>1. Line(b, NoSlot, Hand(call), o, n, Until(b, call)) BY <2>5 DEF Place
    <3>2. b'.submitter = "FN" /\ b'.cons_i = NoSlot
      BY <2>2, <2>4, <2>6, <3>1, Wrapped DEF Line
    <3>3. \A j \in Slots : b'.status[j] = "FULL" <=> b.status[j] = "FULL"
      BY <2>3, <2>4, <2>6, Wrapped
    <3>4. \A j \in Slots : b'.status[j] # "FULL"
      BY <1>4, <2>1, <2>4, <2>6, <3>1, <3>3 DEF Line, Full
    <3>5. Until(b', call) = Until(b, call) BY <2>4 DEF Until
    <3>6. Line(b', NoSlot, Hand(call), o, n, Until(b', call))
      BY <3>1, <3>2, <3>3, <3>4, <3>5 DEF Line
    <3>7. CASE Busy(call)
      <4>1. call' = call BY <1>1, <3>7 DEF Same, Busy
      <4>2. call.idx \in Slots BY <2>2, <3>7 DEF Route
      <4>3. Around(b', NoSlot, call, Fresh(stream', worker'), o)
        BY <2>5, <3>2, <3>4, <3>7, <4>2 DEF Place, Around, Aimed
      <4> QED BY <1>7, <2>6, <3>6, <3>7, <4>1, <4>3 DEF Place
    <3>8. CASE ~Busy(call)
      <4>1. ~Busy(call') /\ call'.pc # "wait"
        BY <1>1, <3>8 DEF Same, Busy
      <4>2. Hand(call) = NoSlot /\ Until(b', call) = b'.prod_i
        BY <3>8 DEF Hand, Held, Busy, Until, Advances
      <4>3. Elsewhere(b, NoSlot, call, state, o) BY <2>5, <3>8 DEF Place
      <4>4. Elsewhere(b', NoSlot, call', state, o)
        BY <2>4, <3>2, <4>1, <4>3 DEF Elsewhere, Aimed
      <4> QED BY <1>7, <2>6, <3>6, <4>1, <4>2, <4>4, IdlePlace
    <3> QED BY <3>7, <3>8
  <2>7. CASE t.ships # NoSlot
    <3>1. /\ b.submitter = "CALLBACK" /\ t.ships = b.cons_i /\ b.cons_i \in Slots
          /\ b.status[b.cons_i] = "FULL" /\ b'.status[b.cons_i] = "IN_FLIGHT"
          /\ b'.submitter = "CALLBACK" /\ b'.cons_i = Next1(b.cons_i)
      BY <2>4, <2>7
    <3>2. ~Busy(call)
      <4> SUFFICES ASSUME Busy(call) PROVE FALSE OBVIOUS
      <4>1. Around(b, NoSlot, call, TRUE, o) BY <2>5 DEF Place
      <4>2. call.why # "advance" BY <3>1, <4>1 DEF Around
      <4>3. CASE Held(call)
        <5>1. call.idx = b.cons_i BY <3>1, <4>1, <4>2, <4>3 DEF Around
        <5>2. b.status[call.idx] = "IN_FLIGHT" BY <2>2, <4>3 DEF Owned, WriterOwned
        <5> QED BY <3>1, <5>1, <5>2
      <4>4. CASE ~Held(call)
        <5>1. JustSent(call) BY <4>2, <4>4 DEF JustSent, Held, Busy
        <5>2. b.cons_i = call.idx /\ b.status[call.idx] # "FULL"
          BY <3>1, <4>1, <5>1 DEF Around
        <5> QED BY <3>1, <5>2
      <4> QED BY <4>3, <4>4
    <3>3. Line(b, NoSlot, NoSlot, o, n, b.prod_i) /\ Elsewhere(b, NoSlot, call, state, o)
      BY <2>5, <3>2, PlaceIdle
    <3>4. b.cons_i = o BY <3>1, <3>3 DEF Elsewhere, Aimed
    <3>5. o # i BY <2>3, <3>1, <3>4
    <3>6. \A j \in Slots : (b'.status[j] = "FULL" \/ j = o) <=> b.status[j] = "FULL"
      BY <2>3, <2>4, <3>1, <3>4, <3>5
    <3>7. Line(b', o, NoSlot, o, n, b'.prod_i)
      BY <2>4, <3>1, <3>3, <3>6, Wrapped DEF Line
    <3>8. ~Busy(call') /\ call'.pc # "wait" BY <1>1, <3>2 DEF Same, Busy
    <3>9. Elsewhere(b', o, call', state, o)
      BY <2>4, <3>1, <3>3, <3>4, <3>8, Wrapped DEF Elsewhere, Aimed
    <3> QED BY <1>7, <3>1, <3>4, <3>7, <3>8, <3>9, IdlePlace
  <2> QED BY <2>6, <2>7
<1>9. Usual(g'.past, Kinds) => Usual(g.past, Kinds) BY <1>5 DEF Usual
<1>10. OInv' BY <1>1, <1>5, <1>8, <1>9, ThreadOrder
<1> QED BY <1>1, <1>10, HandlesPool DEF Submits

\* The callback's buffer is the oldest.
LEMMA CallbackSubmitOrder ==
  ASSUME Inv, OInv, CallbackSubmit
  PROVE  OInv' /\ InOrderStep
<1> USE Rest
<1>1. /\ cb.at = "usb" /\ cb' = NoCb /\ UNCHANGED <<b, data, worker, state, call>>
  BY DEF CallbackSubmit, threadVars
<1>2. CASE g' = [g EXCEPT !.past = @ \cup {"lost"}]
  <2>1. ~Usual(g'.past, Kinds) BY <1>2 DEF Ghosts, Usual, Kinds
  <2> QED BY <2>1 DEF OInv, InOrderStep
<1>3. CASE /\ usb' = Append(usb, [slot |-> cb.slot, gen |-> cb.gen])
           /\ Sends(cb.slot, {}) /\ UNCHANGED stream
  <2>1. g'.sent = data[cb.slot] /\ g'.next = g.next /\ g'.past = g.past
    BY <1>3 DEF Sends, Ghosts
  <2> SUFFICES ASSUME Usual(g'.past, Kinds)
               PROVE  /\ \E o \in Slots, m \in 0 .. N :
                           /\ Place(b', Lead(cb', stream'), call', state',
                                 Fresh(stream', worker'), o, m)
                           /\ Numbered(data', g'.sent, g'.next, o, m)
                      /\ Sent = (g.sent + 1) % DataMod
    BY DEF OInv, InOrderStep
  <2>2. /\ cb.slot # NoSlot /\ cb.slot \in Slots /\ stream.rejected = NoSlot
    BY <1>1 DEF Inv, Pool, TypeOK
  <2>3. Lead(cb, stream) = cb.slot /\ Lead(cb', stream') = NoSlot
    BY <1>1, <1>3, <2>2, NoCbType DEF Lead
  <2>4. PICK o \in Slots, n \in 0 .. N :
          /\ Place(b, cb.slot, call, state, Fresh(stream, worker), o, n)
          /\ Numbered(data, g.sent, g.next, o, n)
    BY <2>1, <2>3 DEF OInv
  <2>5. PICK h : h = Hand(call) OBVIOUS
  <2>6. Line(b, cb.slot, h, o, n, Until(b, call)) BY <2>4, <2>5 DEF Place
  <2>7. cb.slot = o BY <2>2, <2>6 DEF Line
  <2>8. b.status[o] = "IN_FLIGHT" /\ o # h
    <3>1. b.status[o] = "IN_FLIGHT" BY <2>1, <2>2, <2>3, <2>7, LeadFacts
    <3>2. Held(call) => call.idx # o BY <2>1, <2>2, <2>3, <2>7, HandNotLead
    <3> QED BY <2>2, <2>5, <2>7, <3>1, <3>2 DEF Hand
  <2>9. \A i \in Slots : (b.status[i] = "FULL" \/ i = h) <=>
                         (i # o /\ (b.status[i] = "FULL" \/ i = cb.slot \/ i = h))
    BY <2>7, <2>8
  <2>10. 0 < n /\ Line(b, NoSlot, h, Next1(o), n - 1, Until(b, call))
    <3>1. b.submitter = "FN" => b.cons_i = NoSlot /\ \A i \in Slots : b.status[i] # "FULL"
      BY <2>6 DEF Line
    <3> QED BY <2>6, <2>7, <2>9, <3>1, LinePop
  <2>11. /\ data[o] = (g.sent + 1) % DataMod
         /\ Numbered(data, data[o], g.next, Next1(o), n - 1)
         /\ Next1(o) \in Slots /\ n - 1 \in 0 .. N
    BY <2>4, <2>10, Popped
  <2>12. Busy(call) => Around(b, NoSlot, call, Fresh(stream, worker), Next1(o))
    BY <2>2, <2>4 DEF Place, Around, Aimed
  <2>13. ~Busy(call) => Elsewhere(b, NoSlot, call, state, Next1(o))
    BY <2>2, <2>4 DEF Place, Elsewhere, Aimed
  <2>14. Place(b, NoSlot, call, state, Fresh(stream, worker), Next1(o), n - 1)
    BY <2>5, <2>10, <2>12, <2>13 DEF Place
  <2>15. Place(b', Lead(cb', stream'), call', state', Fresh(stream', worker'), Next1(o), n - 1)
    BY <1>1, <1>3, <2>3, <2>14
  <2>16. Numbered(data', g'.sent, g'.next, Next1(o), n - 1) BY <1>1, <2>1, <2>7, <2>11
  <2>17. Sent = data[o] BY <1>3, <2>7, AppendSent
  <2> QED BY <2>11, <2>15, <2>16, <2>17
<1> QED BY <1>2, <1>3 DEF CallbackSubmit

\* START frees slots that are not of the stretch: no buffer is out then.
LEMMA ExecIdleStateOrder ==
  ASSUME Inv, OInv, ExecIdleState
  PROVE  OInv' /\ ~Submits
<1> USE Rest
<1>1. /\ worker = "IDLE" /\ worker' = "STARTED"
      /\ UNCHANGED <<data, usb, cb, stream, state>> /\ Same(call, call')
      /\ call.pc = "wait" => call'.pc = "woken"
  <2>1. Same(call, call') BY WakeSame DEF ExecIdleState
  <2>2. call.pc = "wait" => call' = [call EXCEPT !.pc = "woken"] BY DEF ExecIdleState, Wake
  <2> QED BY <2>1, <2>2 DEF ExecIdleState, usbVars, Calls
<1>2. Lead(cb, stream) = NoSlot /\ Lead(cb', stream') = NoSlot
  BY <1>1 DEF Inv, Pool, Lead
<1>3. /\ g'.sent = g.sent /\ g'.next = g.next
      /\ g'.past = IF Busy(call) THEN g.past \cup {"stolen"} ELSE g.past
  BY DEF ExecIdleState, Ghosts, Busy
<1>4. /\ b'.prod_i = b.prod_i /\ b'.cons_i = b.cons_i /\ b'.submitter = b.submitter
      /\ b'.partial_off = b.partial_off
      /\ \A i \in Slots : b'.status[i] = "FULL" <=> b.status[i] = "FULL"
  <2>1. PICK m : m = [i \in Slots |-> IF b.status[i] = "IN_FLIGHT" THEN "EMPTY"
                                      ELSE b.status[i]]
    OBVIOUS
  <2>2. b' = [b EXCEPT !.status = m] BY <2>1 DEF ExecIdleState, FreesInFlight
  <2>3. /\ b'.status = m /\ b'.prod_i = b.prod_i /\ b'.partial_off = b.partial_off
        /\ b'.cons_i = b.cons_i /\ b'.submitter = b.submitter
    BY <2>2 DEF BufferMgmt
  <2> QED BY <2>1, <2>3
<1>5. ASSUME Usual(g'.past, Kinds), NEW o \in Slots, NEW n \in 0 .. N,
             Place(b, Lead(cb, stream), call, state, Fresh(stream, worker), o, n)
      PROVE  Place(b', Lead(cb', stream'), call', state, Fresh(stream', worker'), o, n)
  <2>1. ~Busy(call) BY <1>3, <1>5 DEF Usual, Kinds
  <2>2. Line(b, NoSlot, NoSlot, o, n, b.prod_i) /\ Elsewhere(b, NoSlot, call, state, o)
    BY <1>2, <1>5, <2>1, PlaceIdle
  <2>3. ~Busy(call') /\ call'.pc # "wait" BY <1>1, <2>1 DEF Same, Busy
  <2>4. Line(b', NoSlot, NoSlot, o, n, b'.prod_i) BY <1>4, <2>2 DEF Line
  <2>5. Elsewhere(b', NoSlot, call', state, o) BY <1>4, <2>2, <2>3 DEF Elsewhere, Aimed
  <2> QED BY <1>2, <2>3, <2>4, <2>5, IdlePlace
<1>6. Usual(g'.past, Kinds) => Usual(g.past, Kinds) BY <1>3 DEF Usual
<1>7. OInv' BY <1>1, <1>3, <1>5, <1>6, ThreadOrder
<1>8. ~Submits BY <1>1 DEF Submits, Inv, TypeOK
<1> QED BY <1>7, <1>8

\* sync_worker_restore_rejected_tx_buffer(): the lead is the oldest FULL slot again.
LEMMA RestoreRejectedOrder ==
  ASSUME Inv, OInv, RestoreRejected
  PROVE  OInv' /\ ~Submits
<1> USE Rest
<1>1. /\ worker = "LOOP" /\ stream.state = "DONE" /\ worker' = "RESTORED"
      /\ b' = Restore(b, stream.rejected) /\ stream' = [stream EXCEPT !.rejected = NoSlot]
      /\ UNCHANGED <<data, usb, cb, state, g>>
      /\ Same(call, call')
  BY WakeSame DEF RestoreRejected
<1>2. cb.slot = NoSlot /\ stream'.rejected = NoSlot BY <1>1 DEF Inv, Pool, StreamType
<1>3. Lead(cb, stream) = stream.rejected /\ Lead(cb', stream') = NoSlot
      /\ ~Fresh(stream', worker')
  BY <1>1, <1>2 DEF Lead, Fresh
<1>4. ASSUME Usual(g'.past, Kinds), NEW o \in Slots, NEW n \in 0 .. N,
             Place(b, Lead(cb, stream), call, state, Fresh(stream, worker), o, n)
      PROVE  Place(b', Lead(cb', stream'), call', state, Fresh(stream', worker'), o, n)
  <2>1. PICK L : L = stream.rejected OBVIOUS
  <2>2. Place(b, L, call, state, Fresh(stream, worker), o, n) BY <1>3, <1>4, <2>1
  <2>3. CASE L = NoSlot
    <3>1. b' = b BY <1>1, <2>1, <2>3 DEF Restore
    <3> QED BY <1>1, <1>3, <2>2, <2>3, <3>1, SamePlace
  <2>4. CASE L # NoSlot
    <3>1. L \in Slots /\ b.status[L] = "IN_FLIGHT"
      BY <1>1, <1>3, <1>4, <2>1, <2>4, LeadFacts DEF Leads
    <3>2. L = o BY <2>2, <2>4 DEF Place, Line
    <3>3. b' = Defer(b, o) BY <1>1, <2>1, <2>4, <3>1, <3>2 DEF Restore
    <3>4. /\ b'.cons_i = o /\ b'.prod_i = b.prod_i /\ b'.submitter = "CALLBACK"
          /\ b'.partial_off = b.partial_off
          /\ b'.status[o] = "FULL" /\ \A j \in Slots \ {o} : b'.status[j] = b.status[j]
      BY <3>3 DEF Defer, BufferMgmt, Status
    <3>5. Until(b', call) = Until(b, call) BY <3>4 DEF Until
    <3>6. Line(b', NoSlot, Hand(call), o, n, Until(b', call))
      BY <2>2, <3>2, <3>4, <3>5, Wrapped DEF Place, Line
    <3>7. Busy(call) => Around(b', NoSlot, call, FALSE, o)
      BY <2>2, <2>4, <3>4 DEF Place, Around, Aimed
    <3>8. ~Busy(call) => Elsewhere(b', NoSlot, call, state, o)
      <4>1. b.prod_i \in Slots BY DEF BufferMgmt
      <4> QED BY <2>2, <3>4, <4>1 DEF Place, Elsewhere, Aimed
    <3>9. Place(b', NoSlot, call, state, FALSE, o, n) BY <3>6, <3>7, <3>8 DEF Place
    <3>10. Place(b', NoSlot, call, state, Fresh(stream', worker'), o, n)
      BY <1>3, <3>9 DEF Place, Around
    <3> QED BY <1>1, <1>3, <3>10, SamePlace
  <2> QED BY <2>3, <2>4
<1>5. OInv' BY <1>1, <1>4, ThreadOrder
<1>6. ~Submits BY <1>1 DEF Submits, Inv, TypeOK
<1> QED BY <1>5, <1>6

LEMMA InitOrder ==
  ASSUME Init
  PROVE  OInv
<1>1. /\ b.status = [i \in Slots |-> "EMPTY"] /\ b.prod_i = 0 /\ b.cons_i = NoSlot
      /\ b.submitter = "FN"
  BY DEF Init, InitialRing
<1>2. ~Busy(call) /\ call.pc = "none" BY DEF Init, NoCall, Busy
<1>3. Lead(cb, stream) = NoSlot BY NoCbType DEF Init, Lead
<1>4. \A i \in Slots : b.status[i] = "EMPTY" /\ i # NoSlot /\ ~(Dist(0, i) < 0)
  BY <1>1, Wrapped, Circle
<1>5. 0 \in Slots /\ Add(0, 0) = 0 /\ 0 \in 0 .. N BY Wrapped, Circle, Sizes
<1>6. Line(b, NoSlot, NoSlot, 0, 0, b.prod_i) BY <1>1, <1>4, <1>5 DEF Line
<1>7. Elsewhere(b, NoSlot, call, state, 0) BY <1>1, <1>2 DEF Elsewhere, Aimed, Init
<1>8. Place(b, NoSlot, call, state, Fresh(stream, worker), 0, 0) BY <1>2, <1>6, <1>7, IdlePlace
<1>9. g.sent = 0 /\ g.next = 1 % DataMod BY DEF Init
<1>10. g.next = (g.sent + 1) % DataMod BY <1>9
<1>11. Numbered(data, g.sent, g.next, 0, 0) BY <1>4, <1>10 DEF Numbered
<1> QED BY <1>3, <1>5, <1>8, <1>11 DEF OInv

LEMMA NextOrder ==
  ASSUME Inv, OInv, [Next]_vars
  PROVE  OInv' /\ InOrderStep
<1>0. Len(usb) \in Nat BY DEF Inv, TypeOK
<1>1. CASE Next
  <2>1. CASE \/ LoopTop \/ CheckWorker \/ StartWorker \/ WorkerStarted \/ StartTimedOut
             \/ WakeUp \/ SpuriousWakeup \/ Application
    <3>1. UNCHANGED usb
      BY <2>1 DEF LoopTop, CheckWorker, StartWorker, WorkerStarted, StartTimedOut, WakeUp,
                  SpuriousWakeup, Application, StartWrite, usbVars
    <3> QED BY <1>0, <2>1, <3>1, QuietOrder DEF InOrderStep, Submits
  <2>2. CASE \/ WaitForBuffer \/ WaitExpires \/ BufferReady \/ UsingBuffer
             \/ AdvanceSubmitted \/ ParkedSubmitted \/ LoopSubmitted \/ LateSubmitted
    <3>1. UNCHANGED usb
      BY <2>2 DEF WaitForBuffer, WaitExpires, BufferReady, UsingBuffer, AdvanceSubmitted,
                  ParkedSubmitted, LoopSubmitted, LateSubmitted, usbVars
    <3>2. OInv'
      BY <2>2, WaitForBufferOrder, WaitExpiresOrder, BufferReadyOrder, UsingBufferOrder,
         AdvanceSubmittedOrder, ParkedSubmittedOrder, LoopSubmittedOrder, LateSubmittedOrder
    <3> QED BY <1>0, <3>1, <3>2 DEF InOrderStep, Submits
  <2>3. CASE Submit BY <2>3, SubmitOrder
  <2>4. CASE CallbackSubmit BY <2>4, CallbackSubmitOrder
  <2>5. CASE Completed \/ ExecIdleState \/ RestoreRejected
    BY <2>5, CompletedOrder, ExecIdleStateOrder, RestoreRejectedOrder DEF InOrderStep
  <2>6. CASE \/ PublishError \/ BackToIdle \/ Revoke \/ Certify \/ RunStream
             \/ Drained \/ TransferError \/ CallbackChecked \/ Stalled
    BY <2>6, OutsideOrders DEF InOrderStep
  <2> QED
    BY <1>1, <2>1, <2>2, <2>3, <2>4, <2>5, <2>6 DEF Next, WriterStep, UsbThread, Worker
<1>2. CASE UNCHANGED vars
  <2>1. OInv' BY <1>2 DEF vars, OInv
  <2>2. ~Submits BY <1>0, <1>2 DEF vars, Submits
  <2> QED BY <2>1, <2>2 DEF InOrderStep
<1> QED BY <1>1, <1>2

\* advance_tx_buffer(), reclaim_tx_submission() and tx_callback() hand buffers to USB in
\* the order sync_tx() filled them, none twice and none left out, also across streams that
\* ended, unless one of the excepted events has happened.
THEOREM SubmittedInOrder == Spec => InOrderSubmission
<1>1. Inv /\ OInv /\ [Next]_vars => OInv' /\ [InOrderStep]_vars BY NextOrder
<1>2. [InOrderStep]_vars =>
        [Submits /\ Usual(g'.past, Kinds) => Sent = (g.sent + 1) % DataMod]_vars
  BY DEF InOrderStep
<1> QED BY <1>1, <1>2, InitOrder, InvHolds, PTL DEF Spec, InOrderSubmission

=============================================================================
