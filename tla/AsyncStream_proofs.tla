------------------------- MODULE AsyncStream_proofs -------------------------
(***************************************************************************)
(* Proofs about one asynchronous stream of module AsyncStream, for every   *)
(* number of transfers and submitters and every bound:                     *)
(*                                                                         *)
(*   TypeCorrect     the state keeps its types,                            *)
(*   LeasesExact     the board's lease count is that of the transfers,     *)
(*   FlushIsBarrier  no TX transfer is anywhere while the FIFO is cleared, *)
(*   DoneStaysDone   a stream that is DONE submits nothing,                *)
(*   FreedIsUnused   the stream is freed when nobody is left in it.        *)
(*                                                                         *)
(* The first three hold whatever the environment does.  The last two need  *)
(* what the run async_stream fixes: no thread but the run thread pumps the *)
(* events, no buffer is submitted before lusb_stream() has started, and    *)
(* the owner joins its submitters before it frees the stream.              *)
(***************************************************************************)
EXTENDS AsyncStream, FiniteSetTheorems, WellFoundedInduction, TLAPS

-----------------------------------------------------------------------------
(* The shape of the state.                                                 *)

States   == {"IDLE", "RUNNING", "SHUTTING_DOWN", "DONE"}
Transfer == [status : {"AVAIL", "IN_FLIGHT", "CANCEL_PENDING"},
             usb : {"none", "queued", "cancelling"}, gen : Gens, lease : BOOLEAN]
Stream   == [state : States, error : BOOLEAN, shut : BOOLEAN, deinit : BOOLEAN,
             calls : 0 .. 1, done : BOOLEAN, told : BOOLEAN,
             deadline : {"none", "armed", "passed"}, i : Transfers, cb_active : 0 .. 1,
             x : [Transfers -> Transfer]]
Window   == [at : {"no", "before", "after"}, t : Transfers]
RunAts   == {"out", "called", "published", "check", "fill", "told fill", "told loop", "loop",
             "ended", "returned"}
RunState == [at : RunAts, k : Transfers, gen : Gens, was : States]
CbState  == [at : {"none", "app", "check", "next", "again", "told", "told fail"},
             t : Transfers, gen : Gens, by : {"run", "other"}, retire : BOOLEAN]
SubState == [at : {"out", "room", "check", "put", "told"}, gen : Gens]
Owners   == {"out", "asked", "waiting", "freed"}
Admission == [open : BOOLEAN, gen : Gens, flush : BOOLEAN, leases : Int, idle : BOOLEAN]

Leased(S) == {t \in Transfers : S.x[t].lease}
One(b)    == IF b THEN 1 ELSE 0

\* What the transfers, the callers around libusb and the board have recorded
\* agree: a TX transfer that is not available holds a lease, a caller that has
\* yet to call libusb has a transfer of its own that libusb does not know.
Slots(S) ==
  \A t \in Transfers :
    /\ S.x[t].lease <=> (TX /\ S.x[t].status # "AVAIL")
    /\ S.x[t].status = "AVAIL" => S.x[t].usb = "none"
Windows(S, W) ==
  /\ \A u \in Users : W[u].at = "before" =>
       S.x[W[u].t].status # "AVAIL" /\ S.x[W[u].t].usb = "none"
  /\ \A u, v \in Users : W[u].at = "before" /\ W[v].at = "before" /\ W[u].t = W[v].t => u = v
Board1(A) == (A.flush => TX) /\ (A.idle => A.flush /\ A.leases = 0)

Books(S, W, A, retire) ==
  /\ S \in Stream /\ W \in [Users -> Window] /\ A \in Admission /\ retire \in BOOLEAN
  /\ Slots(S) /\ Windows(S, W) /\ Board1(A)
  /\ A.leases = Cardinality(Leased(S)) + One(retire)
  /\ retire => TX

RxOnly == {"app", "told", "told fail"}   \* the application is called without the lock
CbOK ==
  /\ cb \in CbState
  /\ cb.retire <=> (TX /\ cb.at # "none")
  /\ cb.at = "none" => s.cb_active = 0
  /\ cb.at \in {"next", "again"} <=> win["cb"].at # "no"
  /\ cb.at \in RxOnly => ~TX
RunOK ==
  /\ run \in RunState
  /\ run.at = "fill" <=> win["run"].at # "no"
  /\ run.at = "out" <=> s.calls = 0
SubOK ==
  /\ sub \in [Submitters -> SubState]
  /\ \A p \in Submitters : sub[p].at = "put" <=> win[p].at # "no"

Inv ==
  /\ Books(s, win, adm, cb.retire) /\ CbOK /\ RunOK /\ SubOK
  /\ owner \in Owners /\ dir \in {"RX", "TX"}

-----------------------------------------------------------------------------
(* Constants and the choice of a transfer.                                 *)

LEMMA Constants ==
  /\ N \in Nat \ {0} /\ Directions \subseteq {"RX", "TX"}
  /\ \A p \in Submitters : p # "run" /\ p # "cb"
  /\ MaxGen \in Nat /\ 0 \in Gens /\ 0 \in Transfers
  /\ {SharedContext, EarlySubmit, JoinFirst} \subseteq BOOLEAN
BY StreamAssumption DEF StreamAssumption, Gens, Transfers

LEMMA TransfersFinite ==
  /\ IsFiniteSet(Transfers) /\ Cardinality(Transfers) = N
  /\ \A T \in SUBSET Transfers : IsFiniteSet(T) /\ Cardinality(T) \in 0 .. N
<1>1. 0 \in Int /\ N-1 \in Int /\ N \in Nat \ {0} BY Constants
<1>2. IsFiniteSet(Transfers) /\ Cardinality(Transfers) = N BY <1>1, FS_Interval DEF Transfers
<1>3. ASSUME NEW T \in SUBSET Transfers PROVE IsFiniteSet(T) /\ Cardinality(T) \in 0 .. N
  <2>1. IsFiniteSet(T) /\ Cardinality(T) <= Cardinality(Transfers) BY <1>2, FS_Subset
  <2>2. Cardinality(T) \in Nat BY <2>1, FS_CardinalityType
  <2> QED BY <2>1, <2>2, <1>1, <1>2
<1> QED BY <1>2, <1>3

\* get_next_available_transfer() finds a transfer when there is one.
LEMMA NextAvailIs ==
  ASSUME NEW S \in Stream, Avail(S) # {}
  PROVE  NextAvail(S) \in Avail(S) /\ NextAvail(S) \in Transfers
<1> USE Constants
<1>1. S.i \in Transfers BY DEF Stream
<1> DEFINE D == {d \in Transfers : (S.i + d) % N \in Avail(S)}
<1>2. D # {}
  <2>1. PICK t \in Transfers : t \in Avail(S) BY DEF Avail
  <2>2. CASE t >= S.i
    <3>1. t - S.i \in Transfers /\ (S.i + (t - S.i)) = t BY <2>2, <1>1 DEF Transfers
    <3>2. t % N = t BY DEF Transfers
    <3> QED BY <3>1, <3>2, <2>1
  <2>3. CASE t < S.i
    <3>1. t - S.i + N \in Transfers /\ (S.i + (t - S.i + N)) = t + N
      BY <2>3, <1>1 DEF Transfers
    <3>2. (t + N) % N = t BY DEF Transfers
    <3> QED BY <3>1, <3>2, <2>1
  <2> QED BY <2>2, <2>3, <1>1 DEF Transfers
<1>3. D \subseteq Nat BY DEF Transfers
<1>4. PICK d \in D : \A e \in D : ~(e < d)
  <2>1. IsWellFoundedOn(OpToRel(<, Nat), Nat) BY NatLessThanWellFounded
  <2>2. PICK d \in D : \A e \in D : ~(<<e, d>> \in OpToRel(<, Nat))
    BY <2>1, <1>2, <1>3, WFMin
  <2> QED BY <2>2, <1>3 DEF OpToRel
<1> DEFINE P(e) == /\ (S.i + e) % N \in Avail(S)
                   /\ \A f \in Transfers : f < e => (S.i + f) % N \notin Avail(S)
<1>5. d \in Transfers /\ P(d) BY <1>4
<1>6. PICK e \in Transfers : e = (CHOOSE x \in Transfers : P(x)) /\ P(e) BY <1>5
<1>7. NextAvail(S) = (S.i + e) % N BY <1>6 DEF NextAvail
<1> QED BY <1>6, <1>7 DEF Avail

-----------------------------------------------------------------------------
(* What the back end does to its state without taking or returning a        *)
(* transfer: stopping, failing, cancelling, ending.  A stream becomes DONE  *)
(* only when every transfer is available, and never RUNNING.                *)

SameSlot(a, b) ==
  /\ b.gen = a.gen /\ (b.lease <=> a.lease)
  /\ (b.status = "AVAIL" <=> a.status = "AVAIL") /\ (b.usb = "none" <=> a.usb = "none")

Like(S, T) ==
  /\ T \in Stream
  /\ T.i = S.i /\ T.calls = S.calls /\ T.cb_active = S.cb_active /\ T.deinit = S.deinit
  /\ \A t \in Transfers : SameSlot(S.x[t], T.x[t])
  /\ T.state \in {"IDLE", "DONE"} => T.state = S.state \/ AllAvail(S)
  /\ T.state = "RUNNING" => S.state = "RUNNING"

LEMMA LikeAvail ==
  ASSUME NEW S, NEW T, \A t \in Transfers : SameSlot(S.x[t], T.x[t])
  PROVE  Avail(T) = Avail(S) /\ Leased(T) = Leased(S) /\ (AllAvail(T) <=> AllAvail(S))
BY DEF SameSlot, Avail, AllAvail, Leased

\* A stream that is not running, nor shutting down, has every transfer back.
Settled(S) == S.state \in {"IDLE", "DONE"} => AllAvail(S)

LEMMA LikeSettled ==
  ASSUME NEW S, NEW T, Like(S, T), Settled(S) PROVE Settled(T)
BY LikeAvail DEF Like, Settled

LEMMA SettledSame ==
  ASSUME NEW S, NEW T, T.x = S.x, T.state = S.state, Settled(S) PROVE Settled(T)
BY DEF Settled, AllAvail, Avail

LEMMA LikeSelf == ASSUME NEW S \in Stream PROVE Like(S, S)
BY DEF Like, SameSlot

LEMMA LikeTrans ==
  ASSUME NEW S, NEW T, NEW U, Like(S, T), Like(T, U) PROVE Like(S, U)
<1>1. AllAvail(T) <=> AllAvail(S) BY LikeAvail DEF Like
<1>2. \A t \in Transfers : SameSlot(S.x[t], U.x[t]) BY DEF Like, SameSlot
<1> QED BY <1>1, <1>2 DEF Like

\* Only flags and the state change.
LEMMA LikeFlags ==
  ASSUME NEW S \in Stream, NEW T \in Stream, T.x = S.x, T.i = S.i, T.calls = S.calls,
         T.cb_active = S.cb_active, T.deinit = S.deinit,
         T.state \in {"IDLE", "DONE"} => T.state = S.state \/ AllAvail(S),
         T.state = "RUNNING" => S.state = "RUNNING"
  PROVE  Like(S, T)
BY DEF Like, SameSlot

LEMMA LikeStopping ==
  ASSUME NEW S \in Stream
  PROVE  Like(S, Stopping(S)) /\ Stopping(S).state = "SHUTTING_DOWN"
<1>1. /\ Stopping(S) \in Stream /\ Stopping(S).x = S.x /\ Stopping(S).i = S.i
      /\ Stopping(S).calls = S.calls /\ Stopping(S).cb_active = S.cb_active
      /\ Stopping(S).deinit = S.deinit /\ Stopping(S).state = "SHUTTING_DOWN"
  BY DEF Stopping, Stream, States
<1> QED BY <1>1, LikeFlags

LEMMA LikeFailed ==
  ASSUME NEW S \in Stream
  PROVE  Like(S, Failed(S)) /\ Like(S, Tell(S)) /\ Failed(S).state = S.state
         /\ Tell(S).state = S.state
<1>1. /\ Failed(S) \in Stream /\ Failed(S).x = S.x /\ Failed(S).i = S.i
      /\ Failed(S).calls = S.calls /\ Failed(S).cb_active = S.cb_active
      /\ Failed(S).deinit = S.deinit /\ Failed(S).state = S.state
  BY DEF Failed, Stream
<1>2. /\ Tell(S) \in Stream /\ Tell(S).x = S.x /\ Tell(S).i = S.i
      /\ Tell(S).calls = S.calls /\ Tell(S).cb_active = S.cb_active
      /\ Tell(S).deinit = S.deinit /\ Tell(S).state = S.state
  BY DEF Tell, Stream
<1> QED BY <1>1, <1>2, LikeFlags

LEMMA LikeDone ==
  ASSUME NEW S \in Stream, AllAvail(S) PROVE Like(S, mark_stream_done(S))
<1> DEFINE T == mark_stream_done(S)
<1>1. /\ T \in Stream /\ T.x = S.x /\ T.i = S.i /\ T.calls = S.calls
      /\ T.cb_active = S.cb_active /\ T.deinit = S.deinit /\ T.state = "DONE"
  BY DEF mark_stream_done, Stream, States
<1> QED BY <1>1, LikeFlags

LEMMA LikeCancel ==
  ASSUME NEW S \in Stream
  PROVE  /\ Like(S, cancel_all_transfers(S))
         /\ cancel_all_transfers(S).state = S.state
<1> DEFINE Y == [t \in Transfers |->
                   IF S.x[t].status # "IN_FLIGHT" THEN S.x[t]
                   ELSE [S.x[t] EXCEPT !.status = "CANCEL_PENDING",
                                       !.usb = IF @ = "queued" THEN "cancelling" ELSE @]]
           T == [S EXCEPT !.x = Y]
           U == [S EXCEPT !.deadline = "armed"]
<1>0. CancelNow(S) = T BY DEF CancelNow
<1>1. ASSUME NEW t \in Transfers PROVE Y[t] \in Transfer /\ SameSlot(S.x[t], Y[t])
  <2>1. S.x[t] \in Transfer BY DEF Stream
  <2> QED BY <2>1 DEF Transfer, SameSlot
<1>2. Y \in [Transfers -> Transfer] BY <1>1
<1> HIDE DEF Y
<1>3. /\ T \in Stream /\ T.x = Y /\ T.i = S.i /\ T.calls = S.calls
      /\ T.cb_active = S.cb_active /\ T.deinit = S.deinit /\ T.state = S.state
  BY <1>2 DEF Stream
<1>4. Like(S, T) BY <1>1, <1>3 DEF Like
<1>5. /\ U \in Stream /\ U.x = S.x /\ U.i = S.i /\ U.calls = S.calls
      /\ U.cb_active = S.cb_active /\ U.deinit = S.deinit /\ U.state = S.state
  BY DEF Stream
<1>6. Like(S, U) BY <1>5, LikeFlags
<1>7. cancel_all_transfers(S) = T \/ cancel_all_transfers(S) = U
  BY <1>0 DEF cancel_all_transfers
<1> HIDE DEF T, U
<1> QED BY <1>3, <1>4, <1>5, <1>6, <1>7

LEMMA LikeSettle ==
  ASSUME NEW S \in Stream PROVE Like(S, Settle(S))
BY LikeSelf, LikeDone, LikeCancel DEF Settle

LEMMA LikeShutdownBuffer ==
  ASSUME NEW S \in Stream PROVE Like(S, ShutdownBuffer(S))
BY LikeDone, LikeStopping DEF ShutdownBuffer

LEMMA LikeStream == ASSUME NEW S, NEW T, Like(S, T) PROVE T \in Stream
BY DEF Like

\* The paths that stop a failed stream and settle it.
LEMMA LikeStopped ==
  ASSUME NEW S \in Stream
  PROVE  /\ Like(S, Settle(Stopping(S))) /\ Like(S, Settle(Stopping(Failed(S))))
         /\ Like(S, Settle(Failed(Stopping(S)))) /\ Like(S, Settle(Failed(S)))
         /\ Like(S, cancel_all_transfers(Stopping(S)))
         /\ Like(S, cancel_all_transfers(Stopping(Failed(S))))
         /\ Like(S, cancel_all_transfers(Failed(S)))
         /\ Like(S, Stopping(Failed(S))) /\ Like(S, Tell(Failed(S))) /\ Like(S, Tell(Stopping(S)))
         /\ Like(S, ShutdownBuffer(Failed(S)))
<1>1. Stopping(S) \in Stream /\ Failed(S) \in Stream BY LikeStopping, LikeFailed, LikeStream
<1>2. Stopping(Failed(S)) \in Stream /\ Failed(Stopping(S)) \in Stream
  BY <1>1, LikeStopping, LikeFailed, LikeStream
<1>3. Like(S, Stopping(Failed(S))) /\ Like(S, Failed(Stopping(S)))
  BY <1>1, LikeStopping, LikeFailed, LikeTrans
<1> QED BY <1>1, <1>2, <1>3, LikeStopping, LikeFailed, LikeSettle, LikeCancel, LikeTrans,
           LikeShutdownBuffer

LEMMA LikeShutdownStream ==
  ASSUME NEW S \in Stream PROVE Like(S, lusb_shutdown_stream(S))
<1> DEFINE A == Stopping(S)  B == [A EXCEPT !.shut = TRUE]
<1>1. A \in Stream /\ Like(S, A) BY LikeStopping, LikeStream
<1> HIDE DEF A
<1>2. /\ B \in Stream /\ B.x = A.x /\ B.i = A.i /\ B.calls = A.calls
      /\ B.cb_active = A.cb_active /\ B.deinit = A.deinit /\ B.state = A.state
  BY <1>1 DEF Stream
<1>3. Like(A, B) BY <1>1, <1>2, LikeFlags
<1>4. lusb_shutdown_stream(S) = Settle(B) BY DEF lusb_shutdown_stream, A
<1> HIDE DEF B
<1> QED BY <1>1, <1>2, <1>3, <1>4, LikeSettle, LikeTrans

-----------------------------------------------------------------------------
(* The books stay balanced.                                                *)

LEMMA BooksLike ==
  ASSUME NEW S, NEW T, NEW W, NEW A, NEW r, Books(S, W, A, r), Like(S, T)
  PROVE  Books(T, W, A, r)
<1>1. Leased(T) = Leased(S) /\ T \in Stream BY LikeAvail DEF Like
<1>2. Slots(T) BY DEF Books, Slots, Like, SameSlot
<1>3. Windows(T, W)
  <2>1. \A u \in Users : W[u].t \in Transfers BY DEF Books, Window
  <2> QED BY <2>1 DEF Books, Windows, Like, SameSlot
<1> QED BY <1>1, <1>2, <1>3 DEF Books

\* Only flags outside the transfers change.
LEMMA BooksSlots ==
  ASSUME NEW S, NEW T \in Stream, NEW W, NEW A, NEW r, Books(S, W, A, r), T.x = S.x
  PROVE  Books(T, W, A, r)
BY DEF Books, Slots, Windows, Leased

LEMMA NoWinIs == NoWin \in Window /\ NoWin.at = "no"
BY Constants DEF NoWin, Window

LEMMA BooksNoWin ==
  ASSUME NEW S, NEW W, NEW A, NEW r, Books(S, W, A, r), NEW u \in Users
  PROVE  Books(S, [W EXCEPT ![u] = NoWin], A, r)
<1> DEFINE V == [W EXCEPT ![u] = NoWin]
<1>1. V \in [Users -> Window] BY NoWinIs DEF Books
<1>2. \A v \in Users : V[v] = IF v = u THEN NoWin ELSE W[v] BY DEF Books
<1> HIDE DEF V
<1>3. Windows(S, V) BY <1>2, NoWinIs DEF Books, Windows
<1> QED BY <1>1, <1>3 DEF Books, V

LEMMA BooksWin ==
  ASSUME NEW u \in Users, win \in [Users -> Window], NotTaken(u)
  PROVE  win' = [win EXCEPT ![u] = NoWin] /\ win'[u].at = "no"
         /\ \A v \in Users : v # u => win'[v] = win[v]
BY NoWinIs DEF NotTaken

\* submit_transfer() takes a transfer and, for TX, a lease.
LEMMA BooksTakes ==
  ASSUME NEW S, NEW r, NEW u \in Users, NEW gen \in Gens, Books(S, win, adm, r),
         ~Refuses(S, gen), Takes(u, S, gen)
  PROVE  /\ Books(s', win', adm', r)
         /\ s'.calls = S.calls /\ s'.cb_active = S.cb_active /\ s'.state = S.state
         /\ s'.deinit = S.deinit /\ Avail(S) # {}
         /\ \A v \in Users : v # u => win'[v] = win[v]
         /\ win'[u].at = "before"
         /\ s'.x[win'[u].t].status = "IN_FLIGHT"
         /\ \A t \in Transfers : S.x[t].status # "AVAIL" => s'.x[t] = S.x[t]
<1> USE Constants
<1> DEFINE t == NextAvail(S)
           new == [status |-> "IN_FLIGHT", usb |-> "none", gen |-> gen, lease |-> TX]
<1>1. S \in Stream /\ Avail(S) # {} BY DEF Books, Refuses
<1>2. t \in Avail(S) /\ t \in Transfers /\ S.x[t].status = "AVAIL"
  BY <1>1, NextAvailIs DEF Avail
<1>3. new \in Transfer
  <2>1. TX \in BOOLEAN BY DEF TX
  <2> QED BY <2>1 DEF Transfer
<1>4. (t + 1) % N \in Transfers BY <1>2 DEF Transfers
<1>5. /\ s' = [S EXCEPT !.x[t] = new, !.i = (t + 1) % N]
      /\ win' = [win EXCEPT ![u] = [at |-> "before", t |-> t]]
      /\ adm' = Lease(1)
  BY DEF Takes
<1>6. new.status = "IN_FLIGHT" /\ new.usb = "none" /\ (new.lease <=> TX) OBVIOUS
<1> HIDE DEF t, new
<1>7. /\ s' \in Stream /\ s'.calls = S.calls /\ s'.cb_active = S.cb_active /\ s'.state = S.state
      /\ s'.deinit = S.deinit
      /\ s'.x[t] = new /\ \A k \in Transfers : k # t => s'.x[k] = S.x[k]
  <2>1. [S.x EXCEPT ![t] = new] \in [Transfers -> Transfer] BY <1>1, <1>3 DEF Stream
  <2> DEFINE Y == [S.x EXCEPT ![t] = new]
  <2>2. s' = [[S EXCEPT !.x = Y] EXCEPT !.i = (t + 1) % N] BY <1>1, <1>5 DEF Stream
  <2>3. Y[t] = new /\ \A k \in Transfers : k # t => Y[k] = S.x[k]
    BY <1>1, <1>2 DEF Stream
  <2> HIDE DEF Y
  <2> QED BY <2>1, <2>2, <2>3, <1>1, <1>4 DEF Stream, Y
<1>8. /\ win' \in [Users -> Window] /\ win'[u].at = "before" /\ win'[u].t = t
      /\ \A v \in Users : v # u => win'[v] = win[v]
  BY <1>2, <1>5 DEF Books, Window
<1>9. Slots(s') BY <1>6, <1>7 DEF Books, Slots
<1>10. Windows(s', win')
  <2>1. \A v \in Users : win[v].t \in Transfers BY DEF Books, Window
  <2>2. \A v \in Users : win[v].at = "before" => win[v].t # t BY <1>2 DEF Books, Windows
  <2> QED BY <2>1, <2>2, <1>6, <1>7, <1>8 DEF Books, Windows
<1>11. Leased(S) \subseteq Transfers /\ IsFiniteSet(Leased(S)) /\ Cardinality(Leased(S)) \in Nat
  BY TransfersFinite DEF Leased
<1>12. Cardinality(Leased(s')) = Cardinality(Leased(S)) + One(TX)
  <2>1. CASE TX
    <3>1. t \notin Leased(S) BY <1>2 DEF Books, Slots, Leased
    <3>2. Leased(s') = Leased(S) \cup {t} BY <2>1, <1>2, <1>6, <1>7 DEF Leased
    <3> QED BY <3>1, <3>2, <1>11, <2>1, FS_AddElement DEF One
  <2>2. CASE ~TX
    <3>1. Leased(s') = Leased(S) BY <2>2, <1>2, <1>6, <1>7 DEF Leased, Books, Slots
    <3> QED BY <3>1, <2>2, <1>11 DEF One
  <2> QED BY <2>1, <2>2
<1>13. /\ adm' \in Admission /\ adm'.leases = adm.leases + One(TX)
       /\ adm'.flush = adm.flush /\ adm'.idle = adm.idle
  BY <1>5 DEF Books, Admission, Lease, One
<1>14. Board1(adm')
  <2>1. TX => ~adm.flush BY DEF Refuses, lease_acquire
  <2> QED BY <2>1, <1>13 DEF Books, Board1, One, Admission
<1>15. adm'.leases = Cardinality(Leased(s')) + One(r)
  <2>1. One(r) \in Int /\ One(TX) \in Int BY DEF One
  <2> QED BY <2>1, <1>11, <1>12, <1>13 DEF Books
<1> QED BY <1>1, <1>2, <1>6, <1>7, <1>8, <1>9, <1>10, <1>13, <1>14, <1>15 DEF Books

\* libusb hands a transfer back: its lease is now the callback's.
LEMMA BooksReturned ==
  ASSUME NEW t \in Transfers, Books(s, win, adm, FALSE), s.x[t].usb # "none", s.cb_active = 0
  PROVE  /\ Books(Returned(t), win, adm, s.x[t].lease)
         /\ Returned(t).state = s.state /\ Returned(t).calls = s.calls
         /\ Returned(t).deinit = s.deinit
         /\ s.x[t].lease <=> TX
         /\ \A k \in Transfers : k # t => Returned(t).x[k] = s.x[k]
         /\ \A u \in Users : win[u].at = "before" => win[u].t # t
<1> USE Constants
<1> DEFINE S == Returned(t)
           old == s.x[t]
           new == [old EXCEPT !.status = "AVAIL", !.usb = "none", !.lease = FALSE]
           act == IF TX THEN 1 ELSE 0
<1>1. s \in Stream /\ old \in Transfer BY DEF Books, Stream
<1>2. new \in Transfer /\ new.status = "AVAIL" /\ new.usb = "none" /\ ~new.lease
  BY <1>1 DEF Transfer
<1>3. S = [s EXCEPT !.x[t] = new, !.cb_active = act]
  BY <1>1 DEF Returned, Stream
<1>4. act \in 0 .. 1 OBVIOUS
<1> HIDE DEF new, act
<1>5. /\ S \in Stream /\ S.calls = s.calls /\ S.state = s.state /\ S.deinit = s.deinit
      /\ S.x[t] = new /\ \A k \in Transfers : k # t => S.x[k] = s.x[k]
  <2> DEFINE Y == [s.x EXCEPT ![t] = new]
  <2>1. Y \in [Transfers -> Transfer] /\ Y[t] = new /\ \A k \in Transfers : k # t => Y[k] = s.x[k]
    BY <1>1, <1>2 DEF Stream
  <2>2. S = [[s EXCEPT !.x = Y] EXCEPT !.cb_active = act] BY <1>1, <1>3 DEF Stream
  <2> HIDE DEF Y, S
  <2> QED BY <2>1, <2>2, <1>1, <1>4 DEF Stream
<1>6. old.status # "AVAIL" /\ (old.lease <=> TX) /\ old.lease \in BOOLEAN
  BY <1>1 DEF Books, Slots, Transfer
<1>7. \A u \in Users : win[u].at = "before" => win[u].t # t BY DEF Books, Windows
<1> HIDE DEF S
<1>8. Slots(S) BY <1>2, <1>5 DEF Books, Slots
<1>9. Windows(S, win)
  <2>1. \A v \in Users : win[v].t \in Transfers BY DEF Books, Window
  <2> QED BY <2>1, <1>5, <1>7 DEF Books, Windows
<1>10. Cardinality(Leased(s)) = Cardinality(Leased(S)) + One(old.lease)
  <2>0. /\ Leased(S) \subseteq Transfers /\ IsFiniteSet(Leased(S)) /\ Cardinality(Leased(S)) \in Nat
    BY TransfersFinite DEF Leased
  <2>1. t \notin Leased(S) BY <1>2, <1>5 DEF Leased
  <2>2. CASE old.lease
    <3>1. Leased(s) = Leased(S) \cup {t} BY <2>2, <1>2, <1>5 DEF Leased
    <3> QED BY <3>1, <2>0, <2>1, <2>2, FS_AddElement DEF One
  <2>3. CASE ~old.lease
    <3>1. Leased(s) = Leased(S) BY <2>3, <1>2, <1>5 DEF Leased
    <3> QED BY <3>1, <2>0, <2>3 DEF One
  <2> QED BY <2>2, <2>3
<1>11. adm.leases = Cardinality(Leased(S)) + One(old.lease)
  <2>2. Cardinality(Leased(s)) \in Nat BY TransfersFinite DEF Leased
  <2>3. adm.leases = Cardinality(Leased(s)) + 0 BY DEF Books, One
  <2> QED BY <2>2, <2>3, <1>10
<1> QED BY <1>5, <1>6, <1>7, <1>8, <1>9, <1>11 DEF Books, S

\* libusb refuses: the transfer and its lease are given back.
LEMMA BooksRollback ==
  ASSUME NEW r, NEW u \in Users, Books(s, win, adm, r), win[u].at = "before"
  PROVE  /\ Books(Rollback(u), [win EXCEPT ![u] = NoWin], Lease(-1), r)
         /\ Rollback(u).state = s.state /\ Rollback(u).calls = s.calls
         /\ Rollback(u).cb_active = s.cb_active /\ Rollback(u).deinit = s.deinit
         /\ Rollback(u).told = s.told
         /\ \A k \in Transfers : k # win[u].t => Rollback(u).x[k] = s.x[k]
         /\ Rollback(u).x[win[u].t].status = "AVAIL"
         /\ win[u].t \in Transfers
<1> USE Constants
<1> DEFINE t == win[u].t
           S == Rollback(u)
           V == [win EXCEPT ![u] = NoWin]
           old == s.x[t]
           new == [old EXCEPT !.status = "AVAIL", !.lease = FALSE]
<1>1. s \in Stream /\ t \in Transfers /\ old \in Transfer
  BY DEF Books, Stream, Window
<1>2. old.status # "AVAIL" /\ old.usb = "none" /\ (old.lease <=> TX)
  BY <1>1 DEF Books, Slots, Windows
<1>3. new \in Transfer /\ new.status = "AVAIL" /\ new.usb = "none" /\ ~new.lease
  BY <1>1, <1>2 DEF Transfer
<1>4. S = [s EXCEPT !.x[t] = new, !.i = t]
  BY <1>1 DEF Rollback, Stream
<1> HIDE DEF new, t
<1>5. /\ S \in Stream /\ S.calls = s.calls /\ S.state = s.state /\ S.deinit = s.deinit
      /\ S.cb_active = s.cb_active /\ S.told = s.told
      /\ S.x[t] = new /\ \A k \in Transfers : k # t => S.x[k] = s.x[k]
  <2> DEFINE Y == [s.x EXCEPT ![t] = new]
  <2>1. Y \in [Transfers -> Transfer] /\ Y[t] = new /\ \A k \in Transfers : k # t => Y[k] = s.x[k]
    BY <1>1, <1>3 DEF Stream
  <2>2. S = [[s EXCEPT !.x = Y] EXCEPT !.i = t] BY <1>1, <1>4 DEF Stream
  <2> HIDE DEF Y, S
  <2> QED BY <2>1, <2>2, <1>1 DEF Stream
<1> HIDE DEF S
<1>6. V \in [Users -> Window] /\ V[u].at = "no" /\ \A v \in Users : v # u => V[v] = win[v]
  BY NoWinIs DEF Books
<1> HIDE DEF V
<1>7. Slots(S) BY <1>3, <1>5 DEF Books, Slots
<1>8. Windows(S, V)
  <2>1. \A v \in Users : win[v].t \in Transfers BY DEF Books, Window
  <2>2. \A v \in Users : win[v].at = "before" /\ v # u => win[v].t # t
    BY DEF Books, Windows, t
  <2> QED BY <2>1, <2>2, <1>5, <1>6 DEF Books, Windows
<1>9. Cardinality(Leased(s)) = Cardinality(Leased(S)) + One(TX) /\ Cardinality(Leased(S)) \in Nat
  <2>0. /\ Leased(S) \subseteq Transfers /\ IsFiniteSet(Leased(S)) /\ Cardinality(Leased(S)) \in Nat
    BY TransfersFinite DEF Leased
  <2>1. t \notin Leased(S) BY <1>3, <1>5 DEF Leased
  <2>2. CASE TX
    <3>1. Leased(s) = Leased(S) \cup {t} BY <2>2, <1>1, <1>2, <1>3, <1>5 DEF Leased
    <3> QED BY <3>1, <2>0, <2>1, <2>2, FS_AddElement DEF One
  <2>3. CASE ~TX
    <3>1. Leased(s) = Leased(S) BY <2>3, <1>2, <1>3, <1>5 DEF Leased
    <3> QED BY <3>1, <2>0, <2>3 DEF One
  <2> QED BY <2>0, <2>2, <2>3
<1>10. /\ Lease(-1) \in Admission /\ Lease(-1).leases = adm.leases - One(TX)
       /\ Lease(-1).flush = adm.flush /\ Lease(-1).idle = adm.idle
  BY DEF Books, Admission, Lease, One
<1>11. Lease(-1).leases = Cardinality(Leased(S)) + One(r)
  <2>1. One(r) \in Int /\ One(TX) \in Int /\ adm.leases \in Int BY DEF One, Books, Admission
  <2> QED BY <2>1, <1>9, <1>10 DEF Books
<1>12. Board1(Lease(-1))
  <2>1. adm.leases # 0 \/ ~TX
    <3>1. adm.leases = Cardinality(Leased(S)) + One(TX) + One(r) BY <1>9 DEF Books
    <3> QED BY <3>1, <1>9 DEF One
  <2> QED BY <2>1, <1>10 DEF Books, Board1, One
<1> QED BY <1>1, <1>3, <1>5, <1>6, <1>7, <1>8, <1>10, <1>11, <1>12 DEF Books, S, V, t

\* A transfer on its way to libusb is not available: the stream is not DONE.
LEMMA RollbackSettled ==
  ASSUME NEW r, NEW u \in Users, Books(s, win, adm, r), win[u].at = "before", Settled(s)
  PROVE  Settled(Rollback(u)) /\ ~AllAvail(s)
<1>1. Rollback(u).state = s.state /\ win[u].t \in Transfers BY BooksRollback
<1>2. s.x[win[u].t].status # "AVAIL" BY DEF Books, Windows
<1> QED BY <1>1, <1>2 DEF Settled, AllAvail, Avail

LEMMA NoCbIs == NoCb \in CbState /\ NoCb.at = "none" /\ ~NoCb.retire /\ NoCb.by = "run"
BY Constants DEF NoCb, CbState

\* A callback ends: its reserve and its lease are given up.
LEMMA BooksEnds ==
  ASSUME NEW S, NEW W, NEW r, Books(S, W, adm, r), CbEnds(S, r)
  PROVE  /\ Books(s', W, adm', cb'.retire) /\ cb' = NoCb
         /\ s'.cb_active = 0 /\ s'.state = S.state /\ s'.calls = S.calls /\ s'.x = S.x
         /\ s'.deinit = S.deinit
<1> DEFINE c == IF S.cb_active # 0 THEN S.cb_active - 1 ELSE 0
<1>1. S \in Stream /\ c = 0 BY DEF Books, Stream
<1>2. s' = [S EXCEPT !.cb_active = c] /\ cb' = NoCb /\ adm' = IF r THEN Lease(-1) ELSE adm
  BY <1>1 DEF CbEnds, Stream
<1> HIDE DEF c
<1>3. /\ s' \in Stream /\ s'.cb_active = 0 /\ s'.state = S.state /\ s'.calls = S.calls
      /\ s'.x = S.x /\ s'.deinit = S.deinit
  BY <1>1, <1>2 DEF Stream
<1>4. Books(s', W, adm, r) BY <1>3, BooksSlots
<1>5. ~cb'.retire BY <1>2, NoCbIs
<1>6. CASE ~r
  <2>1. cb'.retire \in BOOLEAN /\ One(cb'.retire) = One(r) BY <1>6, <1>2, NoCbIs DEF One, CbState
  <2> QED BY <2>1, <1>2, <1>3, <1>4, <1>5, <1>6 DEF Books
<1>7. CASE r
  <2>1. TX /\ adm' = Lease(-1) BY <1>7, <1>2 DEF Books
  <2>2. /\ adm' \in Admission /\ adm'.leases = adm.leases - 1
        /\ adm'.flush = adm.flush /\ adm'.idle = adm.idle
    BY <2>1 DEF Books, Admission, Lease
  <2>3. /\ One(r) = 1 /\ One(cb'.retire) = 0 /\ Cardinality(Leased(s')) \in Nat
        /\ cb'.retire \in BOOLEAN /\ adm.leases = Cardinality(Leased(s')) + One(r)
    <3>1. Cardinality(Leased(s')) \in Nat BY TransfersFinite DEF Leased
    <3>2. cb'.retire \in BOOLEAN BY <1>2, NoCbIs DEF CbState
    <3>3. One(r) = 1 /\ One(cb'.retire) = 0 BY <1>5, <1>7 DEF One
    <3> QED BY <3>1, <3>2, <3>3, <1>4 DEF Books
  <2>4. adm'.leases = Cardinality(Leased(s')) + One(cb'.retire) BY <2>2, <2>3
  <2>5. Board1(adm') BY <2>1, <2>2, <2>3 DEF Books, Board1
  <2> QED BY <2>2, <2>3, <2>4, <2>5, <1>2, <1>3, <1>4, <1>5 DEF Books
<1> QED BY <1>2, <1>3, <1>6, <1>7 DEF Books

\* The board changes its admission and counts no lease.
LEMMA BooksBoard ==
  ASSUME NEW S, NEW W, NEW r, NEW A, Books(S, W, adm, r), A \in Admission,
         A.leases = adm.leases, Board1(A)
  PROVE  Books(S, W, A, r)
BY DEF Books

\* The direction never changes.
LEMMA BooksPrimed ==
  ASSUME Books(s', win', adm', cb'.retire), dir' = dir
  PROVE  Books(s, win, adm, cb.retire)'
BY DEF Books, Slots, Windows, Board1, TX, Leased, Transfers, Users

LEMMA InvTypes ==
  ASSUME Inv
  PROVE  /\ s \in Stream /\ win \in [Users -> Window] /\ adm \in Admission
         /\ cb \in CbState /\ run \in RunState /\ sub \in [Submitters -> SubState]
         /\ "run" \in Users /\ "cb" \in Users /\ Submitters \subseteq Users
BY DEF Inv, Books, CbOK, RunOK, SubOK, Users

\* A step that neither takes nor returns a transfer, nor touches a callback.
LEMMA QuietStep ==
  ASSUME Inv, dir' = dir, s' \in Stream, s'.x = s.x \/ Like(s, s'),
         s'.cb_active \in {0, s.cb_active}, UNCHANGED <<win, cb, adm>>
  PROVE  Books(s, win, adm, cb.retire)' /\ CbOK'
<1>1. Books(s', win', adm', cb'.retire) BY BooksLike, BooksSlots DEF Inv
<1>2. CbOK'
  <2>1. cb'.retire <=> (TX' /\ cb'.at # "none") BY DEF Inv, CbOK, TX
  <2>2. cb'.at \in RxOnly => ~TX' BY DEF Inv, CbOK, TX
  <2> QED BY <2>1, <2>2 DEF Inv, CbOK
<1> QED BY <1>1, <1>2, BooksPrimed

LEMMA OutRunIs ==
  ASSUME NEW a \in RunAts
  PROVE  [OutRun EXCEPT !.at = a] \in RunState /\ [OutRun EXCEPT !.at = a].at = a
BY Constants DEF OutRun, RunState, States

LEMMA RunAtIs ==
  ASSUME NEW a \in RunAts, RunAt(a) PROVE run' \in RunState /\ run'.at = a
BY OutRunIs DEF RunAt

-----------------------------------------------------------------------------
(* The run thread keeps the invariant.                                     *)

LEMMA QuietRun ==
  ASSUME Inv, s' \in Stream, s'.x = s.x \/ Like(s, s'), s'.cb_active \in {0, s.cb_active},
         UNCHANGED <<dir, win, cb, sub, owner, adm>>,
         run' \in RunState, run.at # "fill", run'.at # "fill", run'.at = "out" <=> s'.calls = 0
  PROVE  Inv'
<1>1. Books(s, win, adm, cb.retire)' /\ CbOK' BY QuietStep
<1>2. RunOK' BY DEF Inv, RunOK
<1>3. SubOK' BY DEF Inv, SubOK
<1> QED BY <1>1, <1>2, <1>3 DEF Inv

LEMMA StreamCallInv == ASSUME Inv, StreamCall PROVE Inv'
<1>1. s \in Stream /\ run.at = "out" /\ s.calls = 0 BY InvTypes DEF Inv, StreamCall, RunOK
<1>2. s' = [s EXCEPT !.calls = s.calls + 1] BY <1>1 DEF StreamCall, Stream
<1>3. /\ s' \in Stream /\ s'.x = s.x /\ s'.cb_active = s.cb_active /\ s'.calls = 1
  BY <1>1, <1>2 DEF Stream
<1>4. run' \in RunState /\ run'.at = "called" BY RunAtIs DEF StreamCall, RunAts
<1> QED BY <1>1, <1>3, <1>4, QuietRun DEF StreamCall

LEMMA StreamReturnsInv == ASSUME Inv, StreamReturns PROVE Inv'
<1>1. s \in Stream /\ run.at = "returned" /\ s.calls = 1
  BY InvTypes DEF Inv, StreamReturns, RunOK, Stream
<1>2. s' = [s EXCEPT !.calls = s.calls - 1] BY <1>1 DEF StreamReturns, Stream
<1>3. /\ s' \in Stream /\ s'.x = s.x /\ s'.cb_active = s.cb_active /\ s'.calls = 0
  BY <1>1, <1>2 DEF Stream
<1>4. run' \in RunState /\ run'.at = "out"
  BY Constants DEF StreamReturns, OutRun, RunState, RunAts, States
<1> QED BY <1>1, <1>3, <1>4, QuietRun DEF StreamReturns

\* What async_run_stream() publishes, and what a late shutdown makes of it.
LEMMA PublishedIs ==
  ASSUME s \in Stream
  PROVE  /\ async_run_stream => /\ s' \in Stream /\ s'.x = s.x /\ s'.cb_active = s.cb_active
                                /\ s'.calls = s.calls /\ s'.deinit = s.deinit
                                /\ s'.state = "RUNNING"
         /\ StreamLate => /\ s' \in Stream /\ s'.x = s.x /\ s'.cb_active = s.cb_active
                          /\ s'.calls = s.calls /\ s'.deinit = s.deinit /\ s'.state = "DONE"
<1>1. ASSUME async_run_stream
      PROVE  /\ s' \in Stream /\ s'.x = s.x /\ s'.cb_active = s.cb_active
             /\ s'.calls = s.calls /\ s'.deinit = s.deinit /\ s'.state = "RUNNING"
  <2> DEFINE a == [s EXCEPT !.error = FALSE, !.shut = FALSE]
  <2>1. /\ a \in Stream /\ a.x = s.x /\ a.cb_active = s.cb_active
        /\ a.calls = s.calls /\ a.deinit = s.deinit
    BY DEF Stream
  <2>2. s' = [a EXCEPT !.state = "RUNNING"] BY <1>1 DEF async_run_stream, Stream
  <2> HIDE DEF a
  <2> QED BY <2>1, <2>2 DEF Stream, States
<1>2. ASSUME StreamLate
      PROVE  /\ s' \in Stream /\ s'.x = s.x /\ s'.cb_active = s.cb_active
             /\ s'.calls = s.calls /\ s'.deinit = s.deinit /\ s'.state = "DONE"
  BY <1>2 DEF StreamLate, mark_stream_done, Stream, States
<1> QED BY <1>1, <1>2

LEMMA RunOnInv ==
  ASSUME Inv, StreamRefused \/ async_run_stream \/ StreamLate \/ RunTold \/ LoopSettle
              \/ LoopError \/ LoopExit
  PROVE  Inv'
<1>1. s \in Stream /\ run \in RunState /\ cb \in CbState BY InvTypes
<1>2. RunAts \ {"out", "fill"} \subseteq RunAts BY DEF RunAts
<1>3. run.at \in RunAts \ {"out", "fill"}
  BY <1>1 DEF StreamRefused, async_run_stream, StreamLate, RunTold, LoopSettle, LoopError,
              LoopExit, Looping, RunAts
<1>4. UNCHANGED <<dir, win, cb, sub, owner, adm>>
  BY DEF StreamRefused, async_run_stream, StreamLate, RunTold, LoopSettle, LoopError, LoopExit
<1>5. run' \in RunState /\ run'.at \in RunAts \ {"out", "fill"}
  <2>1. CASE UNCHANGED run BY <2>1, <1>1, <1>3
  <2>2. CASE \E a \in {"returned", "published", "ended", "loop", "told loop"} : RunAt(a)
    BY <2>2, RunAtIs DEF RunAts
  <2> QED BY <2>1, <2>2 DEF StreamRefused, async_run_stream, StreamLate, RunTold, LoopSettle,
                            LoopError, LoopExit
<1>6. /\ s' \in Stream /\ (s'.x = s.x \/ Like(s, s'))
      /\ s'.cb_active = s.cb_active /\ s'.calls = s.calls
  <2>1. CASE async_run_stream \/ StreamLate BY <2>1, <1>1, PublishedIs
  <2>2. CASE Like(s, s') BY <2>2 DEF Like
  <2>3. CASE StreamRefused \/ RunTold \/ LoopSettle \/ LoopError \/ LoopExit
    <3>1. Like(s, s')
      <4>1. CASE StreamRefused \/ LoopExit BY <4>1, <1>1, LikeSelf DEF StreamRefused, LoopExit
      <4>2. CASE RunTold BY <4>2, <1>1, LikeStopped, LikeStopping DEF RunTold
      <4>3. CASE LoopSettle BY <4>3, <1>1, LikeSettle DEF LoopSettle
      <4>4. CASE LoopError BY <4>4, <1>1, LikeStopped DEF LoopError
      <4> QED BY <4>1, <4>2, <4>3, <4>4, <2>3
    <3> QED BY <3>1, <2>2
  <2> QED BY <2>1, <2>3
<1>7. s.calls # 0 BY <1>3 DEF Inv, RunOK
<1> QED BY <1>3, <1>4, <1>5, <1>6, <1>7, QuietRun

LEMMA RevokedIs ==
  ASSUME Inv, Revoked
  PROVE  adm' \in Admission /\ adm'.leases = adm.leases /\ Board1(adm')
<1>1. adm \in Admission /\ Board1(adm) BY DEF Inv, Books
<1>2. adm.gen + 1 \in Gens BY <1>1, Constants DEF Revoked, Admission, Gens
<1>3. adm' = [adm EXCEPT !.open = FALSE, !.gen = adm.gen + 1]
  BY <1>1 DEF Revoked, Admission
<1> QED BY <1>1, <1>2, <1>3 DEF Admission, Board1

\* Only the board's admission changes.
LEMMA BoardStep ==
  ASSUME Inv, UNCHANGED <<dir, s, win, cb, sub, owner>>,
         adm' \in Admission, adm'.leases = adm.leases, Board1(adm'),
         run' = run \/ (run' \in RunState /\ run.at \notin {"out", "fill"}
                        /\ run'.at \notin {"out", "fill"})
  PROVE  Inv'
<1>1. Books(s, win, adm', cb.retire) BY BooksBoard DEF Inv
<1>2. Books(s, win, adm, cb.retire)' BY <1>1, BooksPrimed
<1>3. CbOK' BY DEF Inv, CbOK, TX
<1>4. RunOK' BY DEF Inv, RunOK
<1>5. SubOK' BY DEF Inv, SubOK
<1> QED BY <1>2, <1>3, <1>4, <1>5 DEF Inv

LEMMA RunEndsInv == ASSUME Inv, RunEnds PROVE Inv'
<1>1. adm' \in Admission /\ adm'.leases = adm.leases /\ Board1(adm')
  BY RevokedIs DEF RunEnds, Inv, Books
<1>2. run' \in RunState /\ run'.at = "returned" BY RunAtIs DEF RunEnds, RunAts
<1> QED BY <1>1, <1>2, BoardStep DEF RunEnds

LEMMA BoardInv == ASSUME Inv, Board PROVE Inv'
<1> USE Constants
<1>1. adm \in Admission /\ Board1(adm) /\ s \in Stream BY DEF Inv, Books
<1>2. CASE DeadlinePasses
  <2>1. s' = [s EXCEPT !.deadline = "passed"] BY <1>2 DEF DeadlinePasses
  <2>2. /\ s' \in Stream /\ s'.x = s.x /\ s'.cb_active = s.cb_active /\ s'.calls = s.calls
    BY <2>1, <1>1 DEF Stream
  <2>3. Books(s, win, adm, cb.retire)' /\ CbOK' BY <2>2, <1>2, QuietStep DEF DeadlinePasses
  <2>4. RunOK' /\ SubOK' BY <2>2, <1>2 DEF Inv, RunOK, SubOK, DeadlinePasses
  <2> QED BY <2>3, <2>4, <1>2 DEF Inv, DeadlinePasses
<1>3. CASE Revoke \/ Certify \/ LatchFault \/ TxIdle \/ CommitFlush
  <2>1. adm' \in Admission /\ adm'.leases = adm.leases /\ Board1(adm')
    <3>1. CASE Revoke BY <3>1, RevokedIs DEF Revoke
    <3>2. CASE Certify
      <4>1. adm.gen + 1 \in Gens BY <3>2, <1>1 DEF Certify, Admission, Gens
      <4>2. adm' = [adm EXCEPT !.open = TRUE, !.gen = adm.gen + 1]
        BY <3>2, <1>1 DEF Certify, Admission
      <4> QED BY <4>1, <4>2, <1>1 DEF Admission, Board1
    <3>3. CASE LatchFault BY <3>3, <1>1 DEF LatchFault, Admission, Board1
    <3>4. CASE TxIdle BY <3>4, <1>1 DEF TxIdle, Admission, Board1
    <3>5. CASE CommitFlush
      <4>1. adm.gen + 1 \in Gens BY <3>5, <1>1 DEF CommitFlush, Admission, Gens
      <4> DEFINE a == [adm EXCEPT !.flush = FALSE, !.idle = FALSE]
      <4>2. a \in Admission /\ a.leases = adm.leases /\ ~a.flush /\ ~a.idle
        BY <1>1 DEF Admission
      <4>3. adm' = [a EXCEPT !.open = FALSE, !.gen = adm.gen + 1]
        BY <3>5, <1>1 DEF CommitFlush, Admission
      <4> HIDE DEF a
      <4> QED BY <4>1, <4>2, <4>3 DEF Admission, Board1
    <3> QED BY <3>1, <3>2, <3>3, <3>4, <3>5, <1>3
  <2>2. UNCHANGED <<dir, s, win, run, cb, sub, owner>>
    BY <1>3 DEF Revoke, Certify, LatchFault, TxIdle, CommitFlush
  <2> QED BY <2>1, <2>2, BoardStep
<1> QED BY <1>2, <1>3 DEF Board

\* The run thread moves on, around libusb or away from it.
LEMMA RunMoves ==
  ASSUME Inv, Books(s', win', adm', cb.retire), UNCHANGED <<dir, cb, sub, owner>>,
         s'.cb_active \in {0, s.cb_active}, s'.calls = s.calls, s.calls # 0,
         run' \in RunState, run'.at # "out", run'.at = "fill" <=> win'["run"].at # "no",
         \A v \in Users : v # "run" => win'[v] = win[v]
  PROVE  Inv'
<1>1. "cb" \in Users /\ Submitters \subseteq Users /\ \A p \in Submitters : p # "run"
  BY InvTypes, Constants
<1>2. Books(s, win, adm, cb.retire)' BY BooksPrimed
<1>3. CbOK'
  <2>1. win'["cb"] = win["cb"] BY <1>1
  <2> QED BY <2>1 DEF Inv, CbOK, TX
<1>4. RunOK' BY DEF RunOK
<1>5. SubOK' BY <1>1 DEF Inv, SubOK
<1> QED BY <1>2, <1>3, <1>4, <1>5 DEF Inv

LEMMA BooksAfterRefusal ==
  ASSUME NEW S, NEW W, NEW A, NEW r, Books(S, W, A, r)
  PROVE  /\ Books(AfterRefusal(S), W, A, r)
         /\ AfterRefusal(S) \in Stream /\ AfterRefusal(S).x = S.x
         /\ AfterRefusal(S).state = S.state /\ AfterRefusal(S).calls = S.calls
         /\ AfterRefusal(S).cb_active = S.cb_active /\ AfterRefusal(S).told = S.told
         /\ AfterRefusal(S).deinit = S.deinit
<1> DEFINE T == [S EXCEPT !.i = NextAvail(S)]
<1>1. S \in Stream BY DEF Books
<1>2. CASE Avail(S) = {} BY <1>1, <1>2 DEF AfterRefusal
<1>3. CASE Avail(S) # {}
  <2>1. NextAvail(S) \in Transfers BY <1>1, <1>3, NextAvailIs
  <2>2. /\ T \in Stream /\ T.x = S.x /\ T.state = S.state /\ T.calls = S.calls
        /\ T.cb_active = S.cb_active /\ T.told = S.told /\ T.deinit = S.deinit
    BY <1>1, <2>1 DEF Stream
  <2>3. AfterRefusal(S) = T BY <1>3 DEF AfterRefusal
  <2> HIDE DEF T
  <2> QED BY <2>2, <2>3, BooksSlots
<1> QED BY <1>2, <1>3

LEMMA FillStopsInv ==
  ASSUME Inv, NEW S, Books(S, win, adm, cb.retire), S.calls = s.calls, s.calls # 0,
         S.cb_active \in {0, s.cb_active}, UNCHANGED <<dir, cb, sub, owner>>,
         NEW T, Like(S, T), FillStops(T)
  PROVE  Inv'
<1>1. "run" \in Users /\ win \in [Users -> Window] BY InvTypes
<1>2. s' = T /\ RunAt("loop") /\ NotTaken("run") /\ UNCHANGED adm BY DEF FillStops
<1>3. run' \in RunState /\ run'.at = "loop" BY <1>2, RunAtIs DEF RunAts
<1>4. /\ win' = [win EXCEPT !["run"] = NoWin] /\ win'["run"].at = "no"
      /\ \A v \in Users : v # "run" => win'[v] = win[v]
  BY <1>1, <1>2, BooksWin
<1>5. Books(s', win', adm', cb.retire) BY <1>1, <1>2, <1>4, BooksLike, BooksNoWin
<1>6. s'.cb_active \in {0, s.cb_active} /\ s'.calls = s.calls BY <1>2 DEF Like
<1> QED BY <1>3, <1>4, <1>5, <1>6, RunMoves

\* A submission of the first fill failed, the window is closed.
LEMMA FillFailsInv ==
  ASSUME Inv, NEW S, Books(S, win', adm', cb.retire), S.calls = s.calls, s.calls # 0,
         S.cb_active \in {0, s.cb_active}, UNCHANGED <<dir, cb, sub, owner>>,
         NotTaken("run"), FillFails(S)
  PROVE  Inv' /\ Like(S, s') /\ run'.at \in {"loop", "told fill"}
<1>1. "run" \in Users /\ win \in [Users -> Window] BY InvTypes
<1>2. S \in Stream BY DEF Books
<1>3. Like(S, s') /\ (RunAt("loop") \/ RunAt("told fill"))
  BY <1>2, LikeStopped DEF FillFails
<1>4. run' \in RunState /\ run'.at \in {"loop", "told fill"} BY <1>3, RunAtIs DEF RunAts
<1>5. /\ win'["run"].at = "no" /\ \A v \in Users : v # "run" => win'[v] = win[v]
  BY <1>1, BooksWin
<1>6. Books(s', win', adm', cb.retire) BY <1>3, BooksLike
<1>7. s'.cb_active \in {0, s.cb_active} /\ s'.calls = s.calls BY <1>3 DEF Like
<1> QED BY <1>3, <1>4, <1>5, <1>6, <1>7, RunMoves

LEMMA FillSubmitsInv ==
  ASSUME Inv, NEW S, Books(S, win, adm, cb.retire), S.calls = s.calls, s.calls # 0,
         S.cb_active \in {0, s.cb_active}, UNCHANGED <<dir, cb, sub, owner>>,
         NEW k \in Transfers, NEW gen \in Gens, FillSubmits(S, k, gen)
  PROVE  Inv'
<1>1. "run" \in Users /\ win \in [Users -> Window] BY InvTypes
<1>2. CASE Refuses(S, gen)
  <2>1. FillFails(AfterRefusal(S)) /\ NotTaken("run") /\ UNCHANGED adm
    BY <1>2 DEF FillSubmits
  <2>2. win' = [win EXCEPT !["run"] = NoWin] BY <2>1, <1>1, BooksWin
  <2>3. /\ Books(AfterRefusal(S), win', adm', cb.retire)
        /\ AfterRefusal(S).calls = s.calls /\ AfterRefusal(S).cb_active \in {0, s.cb_active}
    BY <1>1, <2>1, <2>2, BooksAfterRefusal, BooksNoWin
  <2> QED BY <2>1, <2>3, FillFailsInv
<1>3. CASE ~Refuses(S, gen)
  <2>1. Takes("run", S, gen) /\ run' = [OutRun EXCEPT !.at = "fill", !.k = k]
    BY <1>3 DEF FillSubmits
  <2>2. run' \in RunState /\ run'.at = "fill"
    BY <2>1, Constants DEF OutRun, RunState, RunAts, States
  <2>3. /\ Books(s', win', adm', cb.retire) /\ s'.calls = S.calls
        /\ s'.cb_active = S.cb_active /\ win'["run"].at = "before"
        /\ \A v \in Users : v # "run" => win'[v] = win[v]
    BY <1>1, <1>3, <2>1, BooksTakes
  <2> QED BY <2>2, <2>3, RunMoves
<1> QED BY <1>2, <1>3

LEMMA FillFromInv ==
  ASSUME Inv, NEW S, Books(S, win, adm, cb.retire), S.calls = s.calls, s.calls # 0,
         S.cb_active \in {0, s.cb_active}, UNCHANGED <<dir, cb, sub, owner>>,
         NEW k \in 0 .. N, FillFrom(S, k)
  PROVE  Inv'
<1> USE Constants
<1>1. S \in Stream /\ "run" \in Users /\ win \in [Users -> Window] BY InvTypes DEF Books
<1>2. CASE FillStops(S) BY <1>1, <1>2, FillStopsInv, LikeSelf
<1>3. CASE k < N /\ FillSubmits(S, k, 0)
  <2>1. k \in Transfers BY <1>3 DEF Transfers
  <2> QED BY <2>1, <1>3, FillSubmitsInv
<1>4. CASE FillStops(ShutdownBuffer(S)) \/ FillStops(ShutdownBuffer(Failed(S)))
  BY <1>1, <1>4, FillStopsInv, LikeShutdownBuffer, LikeStopped
<1>5. CASE /\ \E j \in k .. N-1 :
                run' = [at |-> "check", k |-> j, gen |-> adm.gen, was |-> S.state]
           /\ s' = S /\ NotTaken("run") /\ UNCHANGED adm
  <2>1. PICK j \in k .. N-1 : run' = [at |-> "check", k |-> j, gen |-> adm.gen, was |-> S.state]
    BY <1>5
  <2>2. j \in Transfers /\ adm.gen \in Gens /\ S.state \in States
    BY <1>1, InvTypes DEF Transfers, Admission, Stream
  <2>3. run' \in RunState /\ run'.at = "check" BY <2>1, <2>2 DEF RunState, RunAts
  <2>4. /\ win' = [win EXCEPT !["run"] = NoWin] /\ win'["run"].at = "no"
        /\ \A v \in Users : v # "run" => win'[v] = win[v]
    BY <1>1, <1>5, BooksWin
  <2>5. Books(s', win', adm', cb.retire) BY <1>1, <1>5, <2>4, BooksNoWin
  <2> QED BY <1>5, <2>3, <2>4, <2>5, RunMoves
<1> QED BY <1>2, <1>3, <1>4, <1>5 DEF FillFrom

LEMMA ResetIs ==
  ASSUME NEW S \in Stream
  PROVE  /\ ResetForRun(S) \in Stream /\ ResetForRun(S).x = S.x /\ ResetForRun(S).calls = S.calls
         /\ ResetForRun(S).cb_active = 0 /\ ResetForRun(S).state = S.state
         /\ ResetForRun(S).deinit = S.deinit
<1> DEFINE a == [S EXCEPT !.cb_active = 0]
           b == [a EXCEPT !.done = FALSE]
           c == [b EXCEPT !.told = FALSE, !.deadline = "none"]
<1>0. ResetForRun(S) = c BY DEF ResetForRun, Stream
<1>1. /\ a \in Stream /\ a.x = S.x /\ a.calls = S.calls /\ a.cb_active = 0 /\ a.state = S.state
      /\ a.deinit = S.deinit
  BY DEF Stream
<1> HIDE DEF a
<1>2. /\ b \in Stream /\ b.x = S.x /\ b.calls = S.calls /\ b.cb_active = 0 /\ b.state = S.state
      /\ b.deinit = S.deinit
  BY <1>1 DEF Stream
<1> HIDE DEF b
<1>3. /\ c \in Stream /\ c.x = S.x /\ c.calls = S.calls /\ c.cb_active = 0 /\ c.state = S.state
      /\ c.deinit = S.deinit
  BY <1>2 DEF Stream
<1> QED BY <1>0, <1>3

LEMMA FillInv ==
  ASSUME Inv, StreamBegin \/ FillChecked \/ FillSubmitted \/ FillRefused PROVE Inv'
<1> USE Constants
<1>1. /\ s \in Stream /\ Books(s, win, adm, cb.retire) /\ run \in RunState /\ "run" \in Users
      /\ win \in [Users -> Window]
  BY InvTypes DEF Inv
<1>2. UNCHANGED <<dir, cb, sub, owner>>
  BY DEF StreamBegin, FillChecked, FillSubmitted, FillRefused
<1>3. run.at # "out" /\ s.calls # 0
  BY DEF Inv, RunOK, StreamBegin, FillChecked, FillSubmitted, FillRefused, LibusbRefuses
<1>4. CASE StreamBegin
  <2>1. /\ Books(ResetForRun(s), win, adm, cb.retire) /\ ResetForRun(s).calls = s.calls
        /\ ResetForRun(s).cb_active = 0
    BY <1>1, ResetIs, BooksSlots
  <2> QED BY <2>1, <1>2, <1>3, <1>4, FillFromInv DEF StreamBegin
<1>5. CASE FillChecked
  <2>1. CASE FillStops(ShutdownBuffer(Failed(s)))
    BY <2>1, <1>1, <1>2, <1>3, LikeStopped, FillStopsInv
  <2>2. CASE FillSubmits(s, run.k, run.gen)
    BY <2>2, <1>1, <1>2, <1>3, FillSubmitsInv DEF RunState
  <2> QED BY <2>1, <2>2, <1>5 DEF FillChecked
<1>6. CASE FillSubmitted
  <2>1. run.k + 1 \in 0 .. N BY <1>1 DEF RunState, Transfers
  <2> QED BY <2>1, <1>1, <1>2, <1>3, <1>6, FillFromInv DEF FillSubmitted
<1>7. CASE FillRefused
  <2>1. win["run"].at = "before" /\ NotTaken("run") /\ FillFails(Rollback("run")) /\ adm' = Lease(-1)
    BY <1>7 DEF FillRefused, LibusbRefuses
  <2>2. win' = [win EXCEPT !["run"] = NoWin] BY <2>1, <1>1, BooksWin
  <2>3. /\ Books(Rollback("run"), win', adm', cb.retire) /\ Rollback("run").calls = s.calls
        /\ Rollback("run").cb_active = s.cb_active
    BY <1>1, <2>1, <2>2, BooksRollback
  <2> QED BY <2>1, <2>3, <1>2, <1>3, FillFailsInv
<1> QED BY <1>4, <1>5, <1>6, <1>7

-----------------------------------------------------------------------------
(* The callback keeps the invariant.                                       *)

LEMMA CbMoves ==
  ASSUME Inv, Books(s', win', adm', cb'.retire), UNCHANGED <<dir, run, sub, owner>>,
         s'.calls = s.calls, cb' \in CbState, cb'.retire <=> (TX /\ cb'.at # "none"),
         cb'.at = "none" => s'.cb_active = 0,
         cb'.at \in {"next", "again"} <=> win'["cb"].at # "no", cb'.at \in RxOnly => ~TX,
         \A v \in Users : v # "cb" => win'[v] = win[v]
  PROVE  Inv'
<1>1. "run" \in Users /\ Submitters \subseteq Users /\ \A p \in Submitters : p # "cb"
  BY InvTypes, Constants
<1>2. Books(s, win, adm, cb.retire)' BY BooksPrimed
<1>3. CbOK' BY DEF CbOK, TX
<1>4. RunOK'
  <2>1. win'["run"] = win["run"] BY <1>1
  <2> QED BY <2>1 DEF Inv, RunOK
<1>5. SubOK' BY <1>1 DEF Inv, SubOK
<1> QED BY <1>2, <1>3, <1>4, <1>5 DEF Inv

\* What is true of the callback's transfer and window in the middle of a step.
CbHas(S, r, W) ==
  /\ Books(S, W, adm, r) /\ S.calls = s.calls
  /\ W["cb"].at = "no" /\ \A v \in Users : v # "cb" => W[v] = win[v]

LEMMA CbEndsInv ==
  ASSUME Inv, NEW S, NEW r, CbHas(S, r, win'), NEW T, Like(S, T), CbEnds(T, r),
         UNCHANGED <<dir, run, sub, owner>>
  PROVE  Inv' /\ cb' = NoCb /\ (Settled(S) => Settled(s'))
<1>1. Books(T, win', adm, r) BY BooksLike DEF CbHas
<1>2. /\ Books(s', win', adm', cb'.retire) /\ cb' = NoCb /\ s'.cb_active = 0
      /\ s'.calls = T.calls /\ s'.state = T.state /\ s'.x = T.x
  BY <1>1, BooksEnds
<1>3. s'.calls = s.calls BY <1>2 DEF Like, CbHas
<1>4. Inv' BY <1>2, <1>3, NoCbIs, CbMoves DEF CbHas, RxOnly
<1>5. Settled(S) => Settled(s') BY <1>2, LikeSettled, SettledSame
<1> QED BY <1>2, <1>4, <1>5

LEMMA CbHoldsInv ==
  ASSUME Inv, NEW S, NEW C \in CbState, CbHas(S, C.retire, win'), C.retire <=> TX, Like(S, s'),
         NEW a \in {"check"} \cup RxOnly, a \in RxOnly => ~TX, cb' = [C EXCEPT !.at = a],
         UNCHANGED <<dir, run, sub, owner, adm>>
  PROVE  Inv' /\ cb'.by = C.by /\ (Settled(S) => Settled(s'))
<1>1. cb' \in CbState /\ cb'.at = a /\ cb'.retire = C.retire /\ cb'.by = C.by
  BY DEF CbState, RxOnly
<1>2. Books(s', win', adm', cb'.retire) BY <1>1, BooksLike DEF CbHas
<1>3. s'.calls = s.calls BY DEF CbHas, Like
<1>4. Inv' BY <1>1, <1>2, <1>3, CbMoves DEF CbHas, RxOnly
<1> QED BY <1>1, <1>4, LikeSettled

LEMMA CbSubmitsInv ==
  ASSUME Inv, NEW S, NEW C \in CbState, Books(S, win, adm, C.retire), S.calls = s.calls,
         C.retire <=> TX, NEW gen \in Gens, ~Refuses(S, gen), NEW a \in {"next", "again"},
         CbSubmits(S, gen, a, C), UNCHANGED <<dir, run, sub, owner>>
  PROVE  Inv' /\ cb'.by = C.by /\ (S.state = "RUNNING" => Settled(s'))
<1>0. "cb" \in Users BY InvTypes
<1>1. cb' = [C EXCEPT !.at = a] /\ Takes("cb", S, gen) BY DEF CbSubmits
<1>2. cb' \in CbState /\ cb'.at = a /\ cb'.retire = C.retire /\ cb'.by = C.by
  BY <1>1 DEF CbState
<1>3. /\ Books(s', win', adm', C.retire) /\ s'.calls = S.calls /\ s'.state = S.state
      /\ \A v \in Users : v # "cb" => win'[v] = win[v]
      /\ win'["cb"].at = "before"
  BY <1>0, <1>1, BooksTakes
<1>4. Inv' BY <1>2, <1>3, CbMoves DEF RxOnly
<1> QED BY <1>2, <1>3, <1>4 DEF Settled

\* The window of a callback that has left libusb.
LEMMA CbWindow ==
  ASSUME Inv, NEW S, NEW r, Books(S, win, adm, r), S.calls = s.calls, NotTaken("cb")
  PROVE  CbHas(S, r, win')
<1>1. "cb" \in Users /\ win \in [Users -> Window] BY InvTypes
<1>2. /\ win' = [win EXCEPT !["cb"] = NoWin] /\ win'["cb"].at = "no"
      /\ \A v \in Users : v # "cb" => win'[v] = win[v]
  BY <1>1, BooksWin
<1> QED BY <1>1, <1>2, BooksNoWin DEF CbHas

LEMMA CbFailsInv ==
  ASSUME Inv, NEW S, NEW C \in CbState, CbHas(S, C.retire, win'), C.retire <=> TX, CbFails(S, C),
         UNCHANGED <<dir, run, sub, owner>>
  PROVE  Inv' /\ (cb' = NoCb \/ cb'.by = C.by) /\ (Settled(S) => Settled(s'))
<1>1. S \in Stream BY DEF CbHas, Books
<1>2. CASE TX \/ S.told
  <2>1. CbEnds(Settle(Stopping(Failed(S))), C.retire) BY <1>2 DEF CbFails
  <2> QED BY <2>1, <1>1, LikeStopped, CbEndsInv
<1>3. CASE ~(TX \/ S.told)
  <2>1. s' = Tell(Failed(S)) /\ cb' = [C EXCEPT !.at = "told fail"] /\ UNCHANGED adm
    BY <1>3 DEF CbFails
  <2> QED BY <2>1, <1>1, <1>3, LikeStopped, CbHoldsInv DEF RxOnly
<1> QED BY <1>2, <1>3

LEMMA CbErrorInv ==
  ASSUME Inv, NEW S, NEW C \in CbState, CbHas(S, C.retire, win'), C.retire <=> TX, NEW result,
         CbError(S, result, C), UNCHANGED <<dir, run, sub, owner>>
  PROVE  Inv' /\ (cb' = NoCb \/ cb'.by = C.by) /\ (Settled(S) => Settled(s'))
<1>1. S \in Stream BY DEF CbHas, Books
<1>2. CASE CbEnds(Settle(Stopping(S)), C.retire) \/ CbEnds(Settle(Failed(Stopping(S))), C.retire)
  BY <1>2, <1>1, LikeStopped, CbEndsInv
<1>3. CASE ~TX /\ s' = Tell(Stopping(S)) /\ cb' = [C EXCEPT !.at = "told"] /\ UNCHANGED adm
  BY <1>3, <1>1, LikeStopped, CbHoldsInv DEF RxOnly
<1> QED BY <1>2, <1>3 DEF CbError

LEMMA CbTxInv ==
  ASSUME Inv, NEW S, NEW C \in CbState, CbHas(S, C.retire, win'), C.retire <=> TX, CbTx(S, C),
         UNCHANGED <<dir, run, sub, owner>>
  PROVE  Inv' /\ (cb' = NoCb \/ cb'.by = C.by) /\ (Settled(S) => Settled(s'))
<1>1. S \in Stream BY DEF CbHas, Books
<1>2. CASE \/ CbEnds(Settle(Stopping(Failed(S))), C.retire) \/ CbEnds(S, C.retire)
           \/ CbEnds(Settle(Stopping(S)), C.retire)
  BY <1>2, <1>1, LikeStopped, LikeSelf, CbEndsInv
<1>3. CASE s' = S /\ cb' = [C EXCEPT !.at = "check"] /\ UNCHANGED adm
  BY <1>3, <1>1, LikeSelf, CbHoldsInv DEF RxOnly
<1> QED BY <1>2, <1>3 DEF CbTx

\* A transfer comes back while no callback runs.
LEMMA CallbackStarts ==
  ASSUME Inv, NEW t \in Transfers, NEW by \in {"run", "other"}, cb.at = "none",
         s.x[t].usb # "none"
  PROVE  LET C == [at |-> "none", t |-> t, gen |-> s.x[t].gen, by |-> by,
                   retire |-> s.x[t].lease]
         IN  /\ C \in CbState /\ C.by = by /\ C.gen \in Gens /\ (C.retire <=> TX)
             /\ Books(Returned(t), win, adm, C.retire) /\ Returned(t).calls = s.calls
             /\ Returned(t).state = s.state /\ (Settled(s) => Settled(Returned(t)))
<1>1. s \in Stream /\ cb \in CbState /\ s.x[t] \in Transfer BY InvTypes DEF Stream
<1>2. cb.retire = FALSE /\ s.cb_active = 0 BY <1>1 DEF Inv, CbOK, CbState
<1>3. Books(s, win, adm, FALSE) BY <1>2 DEF Inv
<1>4. /\ Books(Returned(t), win, adm, s.x[t].lease) /\ (s.x[t].lease <=> TX)
      /\ Returned(t).state = s.state /\ Returned(t).calls = s.calls
  BY <1>1, <1>2, <1>3, BooksReturned
<1>5. [at |-> "none", t |-> t, gen |-> s.x[t].gen, by |-> by, retire |-> s.x[t].lease] \in CbState
  BY <1>1 DEF CbState, Transfer
<1>6. s.x[t].status # "AVAIL" BY <1>1 DEF Inv, Books, Slots
<1>7. Settled(s) => Settled(Returned(t)) BY <1>4, <1>6 DEF Settled, AllAvail, Avail
<1> QED BY <1>1, <1>4, <1>5, <1>7 DEF Transfer

LEMMA lusb_stream_cbInv ==
  ASSUME Inv, NEW t \in Transfers, NEW by \in {"run", "other"}, NEW result,
         lusb_stream_cb(t, by, result)
  PROVE  Inv' /\ (cb' = NoCb \/ cb'.by = by) /\ (Settled(s) => Settled(s'))
<1> DEFINE S == Returned(t)
           C == [at |-> "none", t |-> t, gen |-> s.x[t].gen, by |-> by, retire |-> s.x[t].lease]
           runs == s.state = "RUNNING"
           back == TX /\ result = "stall" /\ runs
<1>1. cb.at = "none" /\ s.x[t].usb # "none" /\ UNCHANGED <<dir, run, sub, owner>>
  BY DEF lusb_stream_cb
<1>2. /\ C \in CbState /\ C.by = by /\ C.gen \in Gens /\ (C.retire <=> TX)
      /\ Books(S, win, adm, C.retire) /\ S.calls = s.calls /\ S.state = s.state
      /\ (Settled(s) => Settled(S))
  BY <1>1, CallbackStarts
<1>3. \/ CbEnds(Settle(Stopping(Failed(S))), C.retire) /\ NotTaken("cb")
      \/ s.state = "RUNNING" /\ ~Refuses(S, C.gen) /\ CbSubmits(S, C.gen, "again", C)
      \/ CbError(AfterRefusal(S), result, C) /\ NotTaken("cb")
      \/ CbError(S, result, C) /\ NotTaken("cb")
      \/ CbEnds(Settle(S), C.retire) /\ NotTaken("cb")
      \/ CbTx(S, C) /\ NotTaken("cb")
      \/ ~TX /\ s' = S /\ cb' = [C EXCEPT !.at = "app"] /\ NotTaken("cb") /\ UNCHANGED adm
  BY DEF lusb_stream_cb
<1> HIDE DEF S, C
<1>4. S \in Stream BY <1>2 DEF Books
<1>5. CASE s.state = "RUNNING" /\ ~Refuses(S, C.gen) /\ CbSubmits(S, C.gen, "again", C)
  BY <1>1, <1>2, <1>5, CbSubmitsInv
<1>6. CASE NotTaken("cb")
  <2>1. CbHas(S, C.retire, win') BY <1>2, <1>6, CbWindow
  <2>2. CASE CbEnds(Settle(Stopping(Failed(S))), C.retire) \/ CbEnds(Settle(S), C.retire)
    BY <2>1, <2>2, <1>1, <1>2, <1>4, LikeStopped, LikeSettle, CbEndsInv
  <2>3. CASE CbError(S, result, C) BY <2>1, <2>3, <1>1, <1>2, CbErrorInv
  <2>4. CASE CbError(AfterRefusal(S), result, C)
    <3>1. Books(AfterRefusal(S), win, adm, C.retire) /\ AfterRefusal(S).calls = s.calls
      BY <1>2, BooksAfterRefusal
    <3>2. CbHas(AfterRefusal(S), C.retire, win') BY <3>1, <1>6, CbWindow
    <3>3. Settled(S) => Settled(AfterRefusal(S)) BY <1>2, BooksAfterRefusal, SettledSame
    <3> QED BY <3>2, <3>3, <2>4, <1>1, <1>2, CbErrorInv
  <2>5. CASE CbTx(S, C) BY <2>1, <2>5, <1>1, <1>2, CbTxInv
  <2>6. CASE ~TX /\ s' = S /\ cb' = [C EXCEPT !.at = "app"] /\ UNCHANGED adm
    BY <2>1, <2>6, <1>1, <1>2, <1>4, LikeSelf, CbHoldsInv DEF RxOnly
  <2> QED BY <2>2, <2>3, <2>4, <2>5, <2>6, <1>3, <1>5
<1> QED BY <1>3, <1>5, <1>6

LEMMA CbAppInv ==
  ASSUME Inv, CbApp
  PROVE  Inv' /\ (cb' = NoCb \/ cb'.by = cb.by) /\ (Settled(s) => Settled(s'))
<1>1. /\ s \in Stream /\ cb \in CbState /\ cb.at = "app" /\ UNCHANGED <<dir, run, sub, owner>>
      /\ Books(s, win, adm, cb.retire) /\ (cb.retire <=> TX) /\ 0 \in Gens
  BY InvTypes, Constants DEF Inv, CbOK, CbApp
<1>2. CASE NotTaken("cb") /\ (CbEnds(Settle(Stopping(s)), FALSE) \/ CbEnds(s, FALSE))
  <2>1. cb.retire = FALSE /\ CbHas(s, FALSE, win')
    <3>1. cb.retire = FALSE BY <1>1 DEF Inv, CbOK, RxOnly, CbState
    <3> QED BY <3>1, <1>1, <1>2, CbWindow
  <2> QED BY <2>1, <1>1, <1>2, LikeStopped, LikeSelf, CbEndsInv
<1>3. CASE Refuses(s, 0) /\ CbFails(s, cb) /\ NotTaken("cb")
  BY <1>1, <1>3, CbWindow, CbFailsInv
<1>4. CASE s.state = "RUNNING" /\ ~Refuses(s, 0) /\ CbSubmits(s, 0, "next", cb)
  BY <1>1, <1>4, CbSubmitsInv
<1> QED BY <1>2, <1>3, <1>4 DEF CbApp

LEMMA CbCheckedInv ==
  ASSUME Inv, CbChecked
  PROVE  Inv' /\ (cb' = NoCb \/ cb'.by = cb.by) /\ (Settled(s) => Settled(s'))
<1>1. /\ s \in Stream /\ cb \in CbState /\ cb.at = "check" /\ UNCHANGED <<dir, run, sub, owner>>
      /\ Books(s, win, adm, cb.retire) /\ (cb.retire <=> TX) /\ s.x[cb.t].gen \in Gens
  <2>1. s \in Stream /\ cb \in CbState BY InvTypes
  <2>2. s.x[cb.t] \in Transfer BY <2>1 DEF Stream, CbState
  <2> QED BY <2>1, <2>2 DEF Inv, CbOK, CbChecked, Transfer
<1>2. CASE NotTaken("cb") /\ CbEnds(Settle(Stopping(Failed(s))), cb.retire)
  BY <1>1, <1>2, CbWindow, LikeStopped, CbEndsInv
<1>3. CASE CbFails(AfterRefusal(s), cb) /\ NotTaken("cb")
  <2>1. Books(AfterRefusal(s), win, adm, cb.retire) /\ AfterRefusal(s).calls = s.calls
    BY <1>1, BooksAfterRefusal
  <2>2. CbHas(AfterRefusal(s), cb.retire, win') BY <2>1, <1>3, CbWindow
  <2>3. Settled(s) => Settled(AfterRefusal(s)) BY <1>1, BooksAfterRefusal, SettledSame
  <2> QED BY <1>1, <1>3, <2>2, <2>3, CbFailsInv
<1>4. CASE /\ s.state = "RUNNING" /\ ~Refuses(s, s.x[cb.t].gen)
           /\ CbSubmits(s, s.x[cb.t].gen, "next", cb)
  BY <1>1, <1>4, CbSubmitsInv
<1> QED BY <1>2, <1>3, <1>4 DEF CbChecked, StillValid

LEMMA CbSubmittedInv ==
  ASSUME Inv, CbSubmitted PROVE Inv' /\ cb' = NoCb /\ (Settled(s) => Settled(s'))
<1>1. /\ s \in Stream /\ NotTaken("cb") /\ UNCHANGED <<dir, run, sub, owner>>
      /\ Books(s, win, adm, cb.retire) /\ (CbEnds(s, cb.retire) \/ CbEnds(Settle(s), cb.retire))
  BY InvTypes DEF Inv, CbSubmitted
<1>2. CbHas(s, cb.retire, win') BY <1>1, CbWindow
<1> QED BY <1>1, <1>2, LikeSelf, LikeSettle, CbEndsInv

LEMMA CbToldInv ==
  ASSUME Inv, CbTold PROVE Inv' /\ cb' = NoCb /\ (Settled(s) => Settled(s'))
<1>1. /\ s \in Stream /\ cb \in CbState /\ cb.at \in {"told", "told fail"}
      /\ UNCHANGED <<dir, win, run, sub, owner>>
      /\ (CbEnds(Settle(Failed(s)), FALSE) \/ CbEnds(Settle(Stopping(s)), FALSE))
  BY InvTypes DEF Inv, CbTold
<1>2. cb.retire = FALSE /\ win["cb"].at = "no" BY <1>1, InvTypes DEF Inv, CbOK, RxOnly, CbState, Window
<1>3. CbHas(s, FALSE, win') BY <1>1, <1>2 DEF CbHas, Inv
<1> QED BY <1>1, <1>3, LikeStopped, CbEndsInv

\* libusb refuses the replacement: both leases of a TX callback are given up.
LEMMA CbRefusedInv ==
  ASSUME Inv, CbRefused
  PROVE  Inv' /\ (cb' = NoCb \/ cb'.by = cb.by) /\ (Settled(s) => Settled(s'))
<1> DEFINE S == Rollback("cb")
<1>1. /\ s \in Stream /\ cb \in CbState /\ NotTaken("cb") /\ UNCHANGED <<dir, run, sub, owner>>
      /\ Books(s, win, adm, cb.retire) /\ win["cb"].at = "before" /\ "cb" \in Users
      /\ (cb.retire <=> TX) /\ win \in [Users -> Window] /\ adm \in Admission
  <2>1. /\ s \in Stream /\ cb \in CbState /\ "cb" \in Users /\ win \in [Users -> Window]
        /\ adm \in Admission
    BY InvTypes
  <2>2. NotTaken("cb") /\ UNCHANGED <<dir, run, sub, owner>> /\ win["cb"].at = "before"
    BY DEF CbRefused, LibusbRefuses
  <2> QED BY <2>1, <2>2 DEF Inv, CbOK
<1>2. /\ win' = [win EXCEPT !["cb"] = NoWin] /\ win'["cb"].at = "no"
      /\ \A v \in Users : v # "cb" => win'[v] = win[v]
  BY <1>1, BooksWin
<1>3. /\ Books(S, win', Lease(-1), cb.retire) /\ S.calls = s.calls /\ S.state = s.state
  BY <1>1, <1>2, BooksRollback
<1>30. Settled(s) => Settled(S) BY <1>1, <1>3, RollbackSettled
<1> HIDE DEF S
<1>4. CASE ~TX /\ CbFails(S, cb)
  <2>1. CbHas(S, cb.retire, win') BY <1>2, <1>3, <1>4 DEF CbHas, Lease
  <2> QED BY <2>1, <1>1, <1>4, <1>30, CbFailsInv
<1>5. CASE /\ TX /\ cb' = NoCb /\ adm' = Lease(-2)
           /\ \E T \in {S, Failed(S)} :
                s' = [Settle(Stopping(T)) EXCEPT !.cb_active = IF @ # 0 THEN @ - 1 ELSE 0]
  <2>1. PICK T \in {S, Failed(S)} :
          s' = [Settle(Stopping(T)) EXCEPT !.cb_active = IF @ # 0 THEN @ - 1 ELSE 0]
    BY <1>5
  <2>2. S \in Stream BY <1>3 DEF Books
  <2> DEFINE U == Settle(Stopping(T))
  <2>3. Like(S, U) /\ U \in Stream BY <2>2, LikeStopped, LikeStream
  <2>4. Books(U, win', Lease(-1), cb.retire) BY <2>3, <1>3, BooksLike
  <2> HIDE DEF U
  <2> DEFINE c == IF U.cb_active # 0 THEN U.cb_active - 1 ELSE 0
  <2>5. c = 0 /\ s' = [U EXCEPT !.cb_active = c] BY <2>1, <2>3 DEF Stream, U
  <2> HIDE DEF c
  <2>6. /\ s' \in Stream /\ s'.x = U.x /\ s'.cb_active = 0 /\ s'.calls = U.calls
        /\ s'.state = U.state
    BY <2>3, <2>5 DEF Stream
  <2>7. Books(s', win', Lease(-1), cb.retire) BY <2>4, <2>6, BooksSlots
  <2>8. /\ adm' \in Admission /\ adm'.leases = Lease(-1).leases - 1 /\ Lease(-1) \in Admission
        /\ adm'.flush = Lease(-1).flush /\ adm'.idle = Lease(-1).idle
    <3>1. /\ Lease(-1) = [adm EXCEPT !.leases = adm.leases - 1]
          /\ adm' = [adm EXCEPT !.leases = adm.leases - 2]
      BY <1>1, <1>5 DEF Lease, Admission
    <3> QED BY <3>1, <1>1 DEF Admission
  <2>9. ~cb'.retire /\ cb'.retire \in BOOLEAN /\ cb.retire BY <1>1, <1>5, NoCbIs DEF CbState
  <2>10. Cardinality(Leased(s')) \in Nat BY TransfersFinite DEF Leased
  <2>11. /\ One(cb.retire) = 1 /\ One(cb'.retire) = 0
    BY <2>9 DEF One
  <2>12. Lease(-1).leases = Cardinality(Leased(s')) + 1 /\ Board1(Lease(-1))
    BY <2>7, <2>11 DEF Books
  <2>13. adm'.leases = Cardinality(Leased(s')) + One(cb'.retire)
    BY <2>8, <2>10, <2>11, <2>12
  <2>14. Board1(adm') BY <2>8, <2>10, <2>12 DEF Board1
  <2>15. Books(s', win', adm', cb'.retire)
    BY <2>7, <2>8, <2>9, <2>13, <2>14 DEF Books
  <2>16. s'.calls = s.calls BY <2>3, <2>6, <1>3 DEF Like
  <2>17. Settled(s) => Settled(s') BY <1>30, <2>3, <2>6, LikeSettled, SettledSame
  <2> QED BY <2>6, <2>15, <2>16, <2>17, <1>1, <1>2, <1>5, NoCbIs, CbMoves DEF RxOnly
<1> QED BY <1>1, <1>4, <1>5 DEF CbRefused, S

-----------------------------------------------------------------------------
(* libusb, the submitters and the owner keep the invariant.                *)

\* libusb knows the transfer now.
LEMMA LibusbAcceptsInv ==
  ASSUME Inv, NEW u \in Users, LibusbAccepts(u)
  PROVE  /\ Inv' /\ s'.state = s.state
         /\ \A t \in Transfers : s'.x[t].status = s.x[t].status
<1> DEFINE t == win[u].t
           new == [s.x[t] EXCEPT !.usb = "queued"]
<1>1. /\ s \in Stream /\ win \in [Users -> Window] /\ win[u].at = "before" /\ t \in Transfers
      /\ UNCHANGED <<dir, run, cb, sub, owner, adm, used>>
      /\ "run" \in Users /\ "cb" \in Users /\ Submitters \subseteq Users
  BY InvTypes DEF LibusbAccepts, Window
<1>2. s.x[t].status # "AVAIL" /\ s.x[t] \in Transfer BY <1>1 DEF Inv, Books, Windows, Stream
<1>3. /\ new \in Transfer /\ new.status = s.x[t].status /\ new.usb = "queued"
      /\ new.lease = s.x[t].lease
  BY <1>2 DEF Transfer
<1>4. s' = [s EXCEPT !.x[t] = new] /\ win' = [win EXCEPT ![u].at = "after"]
  BY <1>1 DEF LibusbAccepts, Stream
<1> HIDE DEF new, t
<1>5. /\ s' \in Stream /\ s'.calls = s.calls /\ s'.state = s.state /\ s'.cb_active = s.cb_active
      /\ s'.x[t] = new /\ \A k \in Transfers : k # t => s'.x[k] = s.x[k]
  <2> DEFINE Y == [s.x EXCEPT ![t] = new]
  <2>1. Y \in [Transfers -> Transfer] /\ Y[t] = new /\ \A k \in Transfers : k # t => Y[k] = s.x[k]
    BY <1>1, <1>3 DEF Stream
  <2>2. s' = [s EXCEPT !.x = Y] BY <1>1, <1>4 DEF Stream
  <2> HIDE DEF Y
  <2> QED BY <2>1, <2>2, <1>1 DEF Stream
<1>6. /\ win' \in [Users -> Window] /\ win'[u].at = "after" /\ win'[u].t = t
      /\ \A v \in Users : v # u => win'[v] = win[v]
  <2>1. win[u] \in Window BY <1>1
  <2> DEFINE w == [win[u] EXCEPT !.at = "after"]
  <2>2. w \in Window /\ w.at = "after" /\ w.t = t BY <2>1 DEF Window, t
  <2>3. win' = [win EXCEPT ![u] = w] BY <1>4
  <2> HIDE DEF w
  <2> QED BY <2>2, <2>3, <1>1
<1>7. Slots(s') BY <1>2, <1>3, <1>5 DEF Inv, Books, Slots
<1>8. Windows(s', win')
  <2>1. \A v \in Users : win[v].t \in Transfers BY <1>1 DEF Window
  <2>2. \A v \in Users : win[v].at = "before" /\ v # u => win[v].t # t
    BY <1>1 DEF Inv, Books, Windows, t
  <2> QED BY <2>1, <2>2, <1>5, <1>6 DEF Inv, Books, Windows
<1>9. Leased(s') = Leased(s) BY <1>1, <1>3, <1>5 DEF Leased
<1>10. Books(s', win', adm', cb'.retire) BY <1>1, <1>5, <1>6, <1>7, <1>8, <1>9 DEF Inv, Books
<1>11. Books(s, win, adm, cb.retire)' BY <1>1, <1>10, BooksPrimed
<1>12. \A v \in Users : win'[v].at # "no" <=> win[v].at # "no" BY <1>1, <1>6
<1>13. CbOK' BY <1>1, <1>5, <1>12 DEF Inv, CbOK, TX
<1>14. RunOK' BY <1>1, <1>5, <1>12 DEF Inv, RunOK
<1>15. SubOK' BY <1>1, <1>12 DEF Inv, SubOK
<1> QED BY <1>1, <1>3, <1>5, <1>11, <1>13, <1>14, <1>15 DEF Inv

\* One submitter moves on.
LEMMA SubMoves ==
  ASSUME Inv, NEW p \in Submitters, Books(s', win', adm', cb.retire),
         UNCHANGED <<dir, run, cb, owner>>, s'.cb_active = s.cb_active, s'.calls = s.calls,
         sub' \in [Submitters -> SubState], sub'[p].at = "put" <=> win'[p].at # "no",
         \A q \in Submitters : q # p => sub'[q] = sub[q],
         \A v \in Users : v # p => win'[v] = win[v]
  PROVE  Inv'
<1>1. /\ "cb" \in Users /\ "run" \in Users /\ Submitters \subseteq Users
      /\ p # "run" /\ p # "cb"
  BY InvTypes, Constants
<1>2. Books(s, win, adm, cb.retire)' BY BooksPrimed
<1>3. win'["cb"] = win["cb"] /\ win'["run"] = win["run"] BY <1>1
<1>4. CbOK' BY <1>3 DEF Inv, CbOK, TX
<1>5. RunOK' BY <1>3 DEF Inv, RunOK
<1>6. SubOK' BY <1>1 DEF Inv, SubOK
<1> QED BY <1>2, <1>4, <1>5, <1>6 DEF Inv

LEMMA SubGoes ==
  ASSUME Inv, NEW p \in Submitters, NEW a \in {"check", "put", "told"},
         Goes(p, a) \/ Leaves(p)
  PROVE  /\ sub' \in [Submitters -> SubState]
         /\ Goes(p, a) => sub'[p].at = a
         /\ Leaves(p) => sub'[p].at = "out"
         /\ \A q \in Submitters : q # p => sub'[q] = sub[q]
<1>1. sub \in [Submitters -> SubState] /\ sub[p] \in SubState BY InvTypes
<1>2. OutSub \in SubState /\ OutSub.at = "out" BY Constants DEF OutSub, SubState
<1> DEFINE w == [sub[p] EXCEPT !.at = a]
<1>3. w \in SubState /\ w.at = a BY <1>1 DEF SubState
<1>4. Goes(p, a) => sub' = [sub EXCEPT ![p] = w] BY DEF Goes
<1> HIDE DEF w
<1> QED BY <1>1, <1>2, <1>3, <1>4 DEF Leaves

\* A submitter leaves or goes to its check; the stream's transfers stay.
LEMMA SubQuiet ==
  ASSUME Inv, NEW p \in Submitters, s' \in Stream, s'.x = s.x \/ Like(s, s'),
         s'.cb_active = s.cb_active, s'.calls = s.calls,
         UNCHANGED <<dir, win, run, cb, owner, adm>>, sub[p].at # "put",
         sub' \in [Submitters -> SubState], sub'[p].at # "put",
         \A q \in Submitters : q # p => sub'[q] = sub[q]
  PROVE  Inv'
<1>1. Books(s', win', adm', cb.retire) BY BooksLike, BooksSlots DEF Inv
<1>2. win'[p].at = "no"
  <2>1. win[p] \in Window BY InvTypes
  <2> QED BY <2>1 DEF Inv, SubOK, Window
<1> QED BY <1>1, <1>2, SubMoves

\* A submitter has taken a transfer.
LEMMA SubTakes ==
  ASSUME Inv, NEW p \in Submitters, NEW gen \in Gens, ~Refuses(s, gen), Takes(p, s, gen),
         Goes(p, "put"), UNCHANGED <<dir, run, cb, owner>>
  PROVE  /\ Inv' /\ s'.state = s.state
         /\ \A t \in Transfers : s.x[t].status # "AVAIL" => s'.x[t] = s.x[t]
<1>1. p \in Users /\ Books(s, win, adm, cb.retire) BY InvTypes DEF Inv
<1>2. /\ Books(s', win', adm', cb.retire) /\ s'.calls = s.calls /\ s'.cb_active = s.cb_active
      /\ s'.state = s.state /\ win'[p].at = "before"
      /\ \A v \in Users : v # p => win'[v] = win[v]
      /\ \A t \in Transfers : s.x[t].status # "AVAIL" => s'.x[t] = s.x[t]
  BY <1>1, BooksTakes
<1>3. /\ sub' \in [Submitters -> SubState] /\ sub'[p].at = "put"
      /\ \A q \in Submitters : q # p => sub'[q] = sub[q]
  BY SubGoes
<1>4. Inv' BY <1>2, <1>3, SubMoves
<1> QED BY <1>2, <1>4

LEMMA SubmitterInv ==
  ASSUME Inv, NEW p \in Submitters, Submitter(p)
  PROVE  Inv'
<1> USE Constants
<1>1. /\ s \in Stream /\ win \in [Users -> Window] /\ adm \in Admission /\ p \in Users
      /\ sub \in [Submitters -> SubState] /\ sub[p] \in SubState /\ win[p] \in Window
      /\ Books(s, win, adm, cb.retire) /\ (sub[p].at = "put" <=> win[p].at # "no")
  BY InvTypes DEF Inv, SubOK
<1>2. CASE SubmitCall(p)
  <2> DEFINE w == [at |-> "room", gen |-> adm.gen]
  <2>1. w \in SubState /\ w.at = "room" BY <1>1 DEF SubState, Admission
  <2>2. sub' = [sub EXCEPT ![p] = w] BY <1>2 DEF SubmitCall
  <2> HIDE DEF w
  <2>3. sub' \in [Submitters -> SubState] /\ sub'[p].at = "room"
        /\ \A q \in Submitters : q # p => sub'[q] = sub[q]
    BY <2>1, <2>2, <1>1
  <2> QED BY <2>3, <1>1, <1>2, SubQuiet DEF SubmitCall
<1>3. CASE SubmitGivesUp(p)
  <2>1. sub' \in [Submitters -> SubState] /\ sub'[p].at = "out"
        /\ \A q \in Submitters : q # p => sub'[q] = sub[q]
    BY <1>3, SubGoes DEF SubmitGivesUp
  <2> QED BY <2>1, <1>1, <1>3, SubQuiet DEF SubmitGivesUp
<1>4. CASE SubmitRoom(p)
  <2>1. CASE (Leaves(p) \/ Goes(p, "check")) /\ UNCHANGED <<s, win, adm>>
    <3>1. sub' \in [Submitters -> SubState] /\ sub'[p].at # "put"
          /\ \A q \in Submitters : q # p => sub'[q] = sub[q]
      BY <2>1, SubGoes
    <3> QED BY <3>1, <2>1, <1>1, <1>4, SubQuiet DEF SubmitRoom
  <2>2. CASE ~TX /\ Goes(p, "put") /\ Takes(p, s, 0)
    <3>1. ~Refuses(s, 0)
      <4>1. Cardinality(Avail(s)) > s.cb_active BY <1>4 DEF SubmitRoom, lusb_submittable
      <4>2. Avail(s) # {}
        <5>1. Cardinality({}) = 0 BY FS_EmptySet
        <5>2. s.cb_active \in 0 .. 1 BY <1>1 DEF Stream
        <5> QED BY <4>1, <5>1, <5>2
      <4> QED BY <4>2, <2>2 DEF Refuses
    <3> QED BY <3>1, <2>2, <1>4, SubTakes DEF SubmitRoom
  <2> QED BY <2>1, <2>2, <1>4 DEF SubmitRoom
<1>5. CASE SubmitChecked(p)
  <2>1. CASE Leaves(p) /\ UNCHANGED <<s, win, adm>>
    <3>1. sub' \in [Submitters -> SubState] /\ sub'[p].at # "put"
          /\ \A q \in Submitters : q # p => sub'[q] = sub[q]
      BY <2>1, SubGoes
    <3> QED BY <3>1, <2>1, <1>1, <1>5, SubQuiet DEF SubmitChecked
  <2>2. CASE Leaves(p) /\ s' = AfterRefusal(s) /\ UNCHANGED <<win, adm>>
    <3>1. sub' \in [Submitters -> SubState] /\ sub'[p].at # "put"
          /\ \A q \in Submitters : q # p => sub'[q] = sub[q]
      BY <2>2, SubGoes
    <3>2. s' \in Stream /\ s'.x = s.x /\ s'.cb_active = s.cb_active /\ s'.calls = s.calls
      BY <2>2, <1>1, BooksAfterRefusal
    <3> QED BY <3>1, <3>2, <2>2, <1>1, <1>5, SubQuiet DEF SubmitChecked
  <2>3. CASE ~Refuses(s, sub[p].gen) /\ Goes(p, "put") /\ Takes(p, s, sub[p].gen)
    BY <2>3, <1>1, <1>5, SubTakes DEF SubmitChecked, SubState
  <2> QED BY <2>1, <2>2, <2>3, <1>5 DEF SubmitChecked
<1>6. CASE SubmitReturns(p)
  <2>1. sub' \in [Submitters -> SubState] /\ sub'[p].at = "out"
        /\ \A q \in Submitters : q # p => sub'[q] = sub[q]
    BY <1>6, SubGoes DEF SubmitReturns
  <2>2. win' = [win EXCEPT ![p] = NoWin] /\ win'[p].at = "no"
        /\ \A v \in Users : v # p => win'[v] = win[v]
    BY <1>1, <1>6, BooksWin DEF SubmitReturns
  <2>3. Books(s', win', adm', cb.retire) BY <2>2, <1>1, <1>6, BooksNoWin DEF SubmitReturns
  <2> QED BY <2>1, <2>2, <2>3, <1>6, SubMoves DEF SubmitReturns
<1>7. CASE SubmitRefused(p)
  <2> DEFINE S == Rollback(p)
  <2>1. win[p].at = "before" /\ NotTaken(p) /\ UNCHANGED <<dir, run, cb, owner>>
    BY <1>7 DEF SubmitRefused, LibusbRefuses
  <2>2. win' = [win EXCEPT ![p] = NoWin] /\ win'[p].at = "no"
        /\ \A v \in Users : v # p => win'[v] = win[v]
    BY <1>1, <2>1, BooksWin
  <2>3. /\ Books(S, win', Lease(-1), cb.retire) /\ S.calls = s.calls /\ S.cb_active = s.cb_active
    BY <1>1, <2>1, <2>2, BooksRollback
  <2>4. \/ TX /\ adm.gen < MaxGen /\ s' = S /\ Leaves(p)
           /\ adm' = [Lease(-1) EXCEPT !.open = FALSE, !.gen = @ + 1]
        \/ ~TX /\ s' = cancel_all_transfers(Stopping(Failed(S))) /\ Leaves(p) /\ UNCHANGED adm
        \/ ~TX /\ s' = Tell(Failed(S)) /\ Goes(p, "told") /\ UNCHANGED adm
    BY <1>7 DEF SubmitRefused
  <2> HIDE DEF S
  <2>5. S \in Stream BY <2>3 DEF Books
  <2>6. Like(S, s') BY <2>4, <2>5, LikeSelf, LikeStopped
  <2>7. sub' \in [Submitters -> SubState] /\ sub'[p].at # "put"
        /\ \A q \in Submitters : q # p => sub'[q] = sub[q]
    BY <2>4, SubGoes
  <2>8. Books(s', win', Lease(-1), cb.retire) BY <2>3, <2>6, BooksLike
  <2>9. Books(s', win', adm', cb.retire)
    <3>1. CASE ~TX
      <4>1. adm' = Lease(-1) BY <2>4, <3>1 DEF Lease
      <4> QED BY <4>1, <2>8
    <3>2. CASE TX
      <4> DEFINE A == Lease(-1)
      <4>1. A \in Admission /\ A.gen = adm.gen BY <1>1, <2>8 DEF Books, Lease, Admission
      <4>2. adm.gen + 1 \in Gens BY <1>1, <2>4, <3>2 DEF Admission, Gens
      <4>3. adm' = [A EXCEPT !.open = FALSE, !.gen = adm.gen + 1]
        <5>1. adm' = [A EXCEPT !.open = FALSE, !.gen = @ + 1] BY <2>4, <3>2
        <5> HIDE DEF A
        <5> QED BY <5>1, <4>1 DEF Admission
      <4>4. Books(s', win', A, cb.retire) BY <2>8
      <4> HIDE DEF A
      <4>5. /\ adm' \in Admission /\ adm'.leases = A.leases /\ adm'.flush = A.flush
            /\ adm'.idle = A.idle
        BY <4>1, <4>2, <4>3 DEF Admission
      <4> QED BY <4>4, <4>5 DEF Books, Board1
    <3> QED BY <3>1, <3>2
  <2>10. s'.calls = s.calls /\ s'.cb_active = s.cb_active BY <2>3, <2>6 DEF Like
  <2> QED BY <2>1, <2>2, <2>7, <2>9, <2>10, SubMoves
<1>8. CASE SubmitTold(p)
  <2>1. sub' \in [Submitters -> SubState] /\ sub'[p].at # "put"
        /\ \A q \in Submitters : q # p => sub'[q] = sub[q]
    BY <1>8, SubGoes DEF SubmitTold
  <2>2. Like(s, s') BY <1>1, <1>8, LikeStopped DEF SubmitTold
  <2>3. s' \in Stream /\ s'.cb_active = s.cb_active /\ s'.calls = s.calls BY <2>2 DEF Like
  <2> QED BY <2>1, <2>2, <2>3, <1>8, SubQuiet DEF SubmitTold
<1> QED BY <1>2, <1>3, <1>4, <1>5, <1>6, <1>7, <1>8 DEF Submitter

LEMMA OwnerInv == ASSUME Inv, Owner PROVE Inv'
<1>1. s \in Stream BY InvTypes
<1>2. CASE async_request_stream_shutdown \/ SubmitShutdown \/ DeinitStops \/ DeinitFrees
  <2>1. Like(s, s')
    BY <1>1, <1>2, LikeShutdownStream, LikeShutdownBuffer, LikeSelf
    DEF async_request_stream_shutdown, SubmitShutdown, DeinitStops, DeinitFrees
  <2>2. UNCHANGED <<dir, win, run, cb, sub, adm>> /\ (owner' = owner \/ owner' \in Owners)
    BY <1>2 DEF async_request_stream_shutdown, SubmitShutdown, DeinitStops, DeinitFrees, Owners
  <2>3. s' \in Stream /\ s'.cb_active = s.cb_active /\ s'.calls = s.calls BY <2>1 DEF Like
  <2>4. Books(s, win, adm, cb.retire)' /\ CbOK' BY <2>1, <2>2, <2>3, QuietStep
  <2>5. RunOK' /\ SubOK' BY <2>2, <2>3 DEF Inv, RunOK, SubOK
  <2> QED BY <2>2, <2>4, <2>5 DEF Inv
<1>3. CASE DeinitAsks
  <2>1. s' = [s EXCEPT !.deinit = TRUE] /\ UNCHANGED <<dir, win, run, cb, sub, adm>>
        /\ owner' \in Owners
    BY <1>3 DEF DeinitAsks, Owners
  <2>2. s' \in Stream /\ s'.x = s.x /\ s'.cb_active = s.cb_active /\ s'.calls = s.calls
    BY <1>1, <2>1 DEF Stream
  <2>4. Books(s, win, adm, cb.retire)' /\ CbOK' BY <2>1, <2>2, QuietStep
  <2>5. RunOK' /\ SubOK' BY <2>1, <2>2 DEF Inv, RunOK, SubOK
  <2> QED BY <2>1, <2>4, <2>5 DEF Inv
<1> QED BY <1>2, <1>3 DEF Owner

LEMMA InitInv == Init => Inv
<1> SUFFICES ASSUME Init PROVE Inv OBVIOUS
<1> USE Constants
<1> DEFINE x0 == [t \in Transfers |-> [status |-> "AVAIL", usb |-> "none", gen |-> 0,
                                       lease |-> FALSE]]
<1>1. /\ x0 \in [Transfers -> Transfer]
      /\ \A t \in Transfers : x0[t].status = "AVAIL" /\ x0[t].usb = "none" /\ ~x0[t].lease
  <2>1. ASSUME NEW t \in Transfers
        PROVE  x0[t] \in Transfer /\ x0[t].status = "AVAIL" /\ x0[t].usb = "none" /\ ~x0[t].lease
    BY DEF Transfer
  <2> QED BY <2>1
<1>2. s = [state |-> "IDLE", error |-> FALSE, shut |-> FALSE, deinit |-> FALSE,
           calls |-> 0, done |-> FALSE, told |-> FALSE, deadline |-> "none",
           i |-> 0, cb_active |-> 0, x |-> x0]
  BY DEF Init
<1> HIDE DEF x0
<1>3. s \in Stream /\ s.x = x0 /\ s.calls = 0 /\ s.cb_active = 0 BY <1>1, <1>2 DEF Stream, States
<1>4. win \in [Users -> Window] /\ \A u \in Users : win[u] = NoWin BY NoWinIs DEF Init
<1>5. /\ adm \in Admission /\ adm.leases = 0 /\ ~adm.flush /\ ~adm.idle
  BY DEF Init, Admission
<1>6. cb \in CbState /\ cb.at = "none" /\ ~cb.retire /\ cb.retire \in BOOLEAN
  BY NoCbIs DEF Init, CbState
<1>7. Leased(s) = {} /\ Cardinality({}) = 0 BY <1>1, <1>3, FS_EmptySet DEF Leased
<1>8. Slots(s) /\ Windows(s, win) /\ Board1(adm)
  BY <1>1, <1>3, <1>4, <1>5, NoWinIs DEF Slots, Windows, Board1
<1>9. Books(s, win, adm, cb.retire)
  BY <1>3, <1>4, <1>5, <1>6, <1>7, <1>8 DEF Books, One
<1>10. "run" \in Users /\ "cb" \in Users /\ Submitters \subseteq Users BY DEF Users
<1>11. CbOK BY <1>3, <1>4, <1>6, <1>10, NoWinIs DEF CbOK, RxOnly
<1>12. RunOK
  <2>1. run \in RunState /\ run.at = "out" BY DEF Init, OutRun, RunState, RunAts, States
  <2> QED BY <2>1, <1>3, <1>4, <1>10, NoWinIs DEF RunOK
<1>13. SubOK
  <2>1. OutSub \in SubState /\ OutSub.at = "out" BY DEF OutSub, SubState
  <2>2. sub \in [Submitters -> SubState] /\ \A p \in Submitters : sub[p].at = "out"
    BY <2>1 DEF Init
  <2> QED BY <2>2, <1>4, <1>10, NoWinIs DEF SubOK
<1> QED BY <1>9, <1>11, <1>12, <1>13 DEF Inv, Init, Owners

LEMMA StutterInv == ASSUME Inv, UNCHANGED vars PROVE Inv'
<1>1. Books(s', win', adm', cb'.retire) BY DEF Inv, vars
<1>2. Books(s, win, adm, cb.retire)' BY <1>1, BooksPrimed DEF vars
<1>3. CbOK' BY DEF Inv, CbOK, TX, vars
<1>4. RunOK' /\ SubOK' BY DEF Inv, RunOK, SubOK, vars
<1> QED BY <1>2, <1>3, <1>4 DEF Inv, vars

LEMMA StepInv == Inv /\ [Next]_vars => Inv'
<1> SUFFICES ASSUME Inv, [Next]_vars PROVE Inv' OBVIOUS
<1>1. CASE RunThread
  BY <1>1, StreamCallInv, StreamReturnsInv, RunOnInv, RunEndsInv, FillInv DEF RunThread
<1>2. CASE Callback
  <2>1. ASSUME NEW t \in Transfers, NEW by \in {"run", "other"}, NEW r \in Results(t),
               lusb_stream_cb(t, by, r)
        PROVE  Inv'
    BY <2>1, lusb_stream_cbInv
  <2> QED BY <2>1, <1>2, CbAppInv, CbCheckedInv, CbSubmittedInv, CbRefusedInv, CbToldInv
      DEF Callback
<1>3. CASE Owner BY <1>3, OwnerInv
<1>4. CASE Board BY <1>4, BoardInv
<1>5. CASE \E u \in Users : LibusbAccepts(u) BY <1>5, LibusbAcceptsInv
<1>6. CASE \E p \in Submitters : Submitter(p) BY <1>6, SubmitterInv
<1>7. CASE UNCHANGED vars BY <1>7, StutterInv
<1> QED BY <1>1, <1>2, <1>3, <1>4, <1>5, <1>6, <1>7 DEF Next, Freed

LEMMA Invariance == Spec => []Inv
<1>1. Init => Inv BY InitInv
<1>2. Inv /\ [Next]_vars => Inv' BY StepInv
<1> QED BY <1>1, <1>2, PTL DEF Spec

\* The state keeps its types: at most one bladerf_stream() call is counted, at
\* most one callback reserves a transfer, and there are never more leases than
\* the transfers and the one completion being retired.
THEOREM TypeCorrect == Spec => []TypeOK
<1>1. Inv => TypeOK
  <2> SUFFICES ASSUME Inv PROVE TypeOK OBVIOUS
  <2> USE Constants
  <2>1. /\ s \in Stream /\ win \in [Users -> Window] /\ adm \in Admission /\ cb \in CbState
        /\ run \in RunState /\ sub \in [Submitters -> SubState]
    BY InvTypes
  <2>2. adm.leases \in 0 .. N + 1
    <3>1. Cardinality(Leased(s)) \in 0 .. N BY TransfersFinite DEF Leased
    <3>2. One(cb.retire) \in 0 .. 1 BY DEF One
    <3>3. adm.leases = Cardinality(Leased(s)) + One(cb.retire) BY DEF Inv, Books
    <3> QED BY <3>1, <3>2, <3>3
  <2>3. adm \in [open : BOOLEAN, gen : Gens, flush : BOOLEAN, leases : 0 .. N + 1, idle : BOOLEAN]
    BY <2>1, <2>2 DEF Admission
  <2> QED BY <2>1, <2>3 DEF Inv, TypeOK, Stream, Transfer, States, Window, CbState, RunState,
                            RunAts, SubState, Owners
<1> QED BY <1>1, Invariance, PTL

\* lease_acquire() and lease_release() balance on every path of the callback,
\* of the submissions and of their failures: the board's count is the number of
\* TX transfers taken and not yet retired.
THEOREM LeasesExact == Spec => []LeaseExact
<1>1. Inv => LeaseExact BY DEF Inv, Books, LeaseExact, Leased, One
<1> QED BY <1>1, Invariance, PTL

\* bladerf2_wait_tx_async_idle() is a barrier: when it has seen no lease, no TX
\* transfer is with libusb or on its way there and no completion is at work,
\* until the recovery commits.
THEOREM FlushIsBarrier == Spec => []FlushBarrier
<1>1. Inv => FlushBarrier
  <2> SUFFICES ASSUME Inv, adm.idle
               PROVE  /\ \A t \in Transfers : s.x[t].usb = "none"
                      /\ \A u \in Users : win[u].at # "before"
                      /\ cb.at = "none"
    BY DEF FlushBarrier
  <2>1. TX /\ adm.leases = 0 BY DEF Inv, Books, Board1
  <2>2. Cardinality(Leased(s)) \in Nat /\ IsFiniteSet(Leased(s))
    BY TransfersFinite DEF Leased
  <2>3. Cardinality(Leased(s)) = 0 /\ ~cb.retire
    <3>1. adm.leases = Cardinality(Leased(s)) + One(cb.retire) BY DEF Inv, Books
    <3> QED BY <3>1, <2>1, <2>2 DEF One
  <2>4. Leased(s) = {} BY <2>2, <2>3, FS_EmptySet
  <2>5. \A t \in Transfers : s.x[t].status = "AVAIL"
    BY <2>1, <2>4 DEF Inv, Books, Slots, Leased
  <2>6. \A u \in Users : win[u].t \in Transfers BY InvTypes DEF Window
  <2> QED BY <2>1, <2>3, <2>5, <2>6 DEF Inv, Books, Slots, Windows, CbOK
<1> QED BY <1>1, Invariance, PTL

-----------------------------------------------------------------------------
(* A stream with a libusb context, a start and an end of its own: no other *)
(* thread pumps its events, nobody submits before lusb_stream() has begun, *)
(* and its owner joins the submitters before the stream is freed.          *)

Alone == ~SharedContext /\ ~EarlySubmit /\ JoinFirst

Outside == {"out", "called", "published", "ended", "returned"}

\* The run thread's own transfer, while it is around libusb.
FillSlot(S, W) ==
  /\ S.x[W["run"].t].status # "AVAIL"
  /\ W["run"].at = "after" => S.x[W["run"].t].usb # "none"

\* Transfers are out only while lusb_stream() is at work, and callbacks run
\* only in its event loop.
Drained ==
  /\ run.at \in Outside => AllAvail(s)
  /\ Settled(s)
  /\ s.state = "RUNNING" => run.at \notin Outside \ {"published"}
  /\ cb.at # "none" => run.at = "loop" /\ cb.by = "run"
  /\ run.at = "fill" => FillSlot(s, win)
  /\ run.at = "check" => run.was \in {"RUNNING", "SHUTTING_DOWN"}
  /\ owner # "out" => \A p \in Submitters : sub[p].at = "out"
  /\ SafeFree

LEMMA DrainedPrimed ==
  ASSUME run'.at \in Outside => AllAvail(s'), Settled(s'),
         s'.state = "RUNNING" => run'.at \notin Outside \ {"published"},
         cb'.at # "none" => run'.at = "loop" /\ cb'.by = "run",
         run'.at = "fill" => FillSlot(s', win'),
         run'.at = "check" => run'.was \in {"RUNNING", "SHUTTING_DOWN"},
         owner' # "out" => \A p \in Submitters : sub'[p].at = "out",
         owner' = "freed" => /\ \A t \in Transfers : s'.x[t].usb = "none"
                             /\ run'.at = "out" /\ cb'.at = "none"
  PROVE  Drained'
BY DEF Drained, Settled, AllAvail, Avail, FillSlot, SafeFree, Outside, Transfers

LEMMA AllAvailUsb ==
  ASSUME Inv, AllAvail(s) PROVE \A t \in Transfers : s.x[t].usb = "none"
BY DEF Inv, Books, Slots, AllAvail, Avail

\* A step of the run thread.
LEMMA RunDrained ==
  ASSUME Drained, cb.at = "none", owner # "freed", UNCHANGED <<cb, sub, owner>>, Settled(s'),
         run'.at \in Outside => AllAvail(s'),
         s'.state = "RUNNING" => run'.at \notin Outside \ {"published"},
         run'.at = "fill" => FillSlot(s', win'),
         run'.at = "check" => run'.was \in {"RUNNING", "SHUTTING_DOWN"}
  PROVE  Drained'
BY DrainedPrimed DEF Drained

\* A step of the callback, in the event loop of the run thread.
LEMMA CbDrained ==
  ASSUME Drained, run.at = "loop", owner # "freed", UNCHANGED <<run, sub, owner>>, Settled(s'),
         cb' = NoCb \/ cb'.by = "run"
  PROVE  Drained'
BY DrainedPrimed, NoCbIs DEF Drained, Outside

\* A step of anybody else.
LEMMA OtherDrained ==
  ASSUME Inv, Drained, owner # "freed", UNCHANGED <<run, cb>>, Settled(s'),
         run.at \in Outside => AllAvail(s'), s'.state = "RUNNING" => s.state = "RUNNING",
         run.at = "fill" => FillSlot(s', win'),
         owner' # "out" => \A p \in Submitters : sub'[p].at = "out",
         owner' = "freed" => /\ \A t \in Transfers : s'.x[t].usb = "none"
                             /\ run'.at = "out" /\ cb'.at = "none"
  PROVE  Drained'
BY DrainedPrimed DEF Drained

\* What a step that takes and returns no transfer keeps of these facts.
LEMMA QuietDrained ==
  ASSUME Inv, Drained, Like(s, s') \/ (s'.x = s.x /\ s'.state = s.state), win'["run"] = win["run"]
  PROVE  /\ Settled(s') /\ (run.at \in Outside => AllAvail(s'))
         /\ (s'.state = "RUNNING" => s.state = "RUNNING")
         /\ (run.at = "fill" => FillSlot(s', win'))
<1>1. win["run"].t \in Transfers BY InvTypes DEF Window
<1>2. CASE Like(s, s')
  <2>1. Settled(s') /\ (AllAvail(s') <=> AllAvail(s)) /\ (s'.state = "RUNNING" => s.state = "RUNNING")
    BY <1>2, LikeSettled, LikeAvail DEF Drained, Like
  <2>2. SameSlot(s.x[win["run"].t], s'.x[win["run"].t]) BY <1>1, <1>2 DEF Like
  <2> QED BY <2>1, <2>2 DEF Drained, FillSlot, SameSlot
<1>3. CASE s'.x = s.x /\ s'.state = s.state
  <2>1. Settled(s') /\ (AllAvail(s') <=> AllAvail(s)) BY <1>3, SettledSame DEF Drained, AllAvail, Avail
  <2> QED BY <2>1, <1>3 DEF Drained, FillSlot
<1> QED BY <1>2, <1>3

LEMMA NoCallback ==
  ASSUME Inv, Drained, run.at # "loop" \/ Looping PROVE cb.at = "none"
BY DEF Drained, Looping

LEMMA RunOnDrained ==
  ASSUME Inv, Drained, owner # "freed",
         \/ StreamCall \/ StreamReturns \/ StreamRefused \/ async_run_stream \/ StreamLate
         \/ RunTold \/ LoopSettle \/ LoopError \/ LoopExit \/ RunEnds
  PROVE  Drained'
<1>1. s \in Stream /\ run \in RunState /\ Settled(s) BY InvTypes DEF Drained
<1>2. CASE StreamCall \/ StreamReturns
  <2>1. cb.at = "none" BY <1>2, NoCallback DEF StreamCall, StreamReturns
  <2>2. s'.x = s.x /\ s'.state = s.state /\ UNCHANGED <<win, cb, sub, owner>>
    BY <1>1, <1>2 DEF StreamCall, StreamReturns, Stream
  <2>3. run'.at \in {"called", "out"} /\ run.at \in {"returned", "out"}
    <3>1. CASE StreamCall BY <3>1, RunAtIs DEF StreamCall, RunAts
    <3>2. CASE StreamReturns BY <3>2 DEF StreamReturns, OutRun
    <3> QED BY <3>1, <3>2, <1>2
  <2>4. AllAvail(s') /\ Settled(s')
    BY <2>2, <2>3, QuietDrained DEF Outside
  <2> QED BY <2>1, <2>2, <2>3, <2>4, <1>2, RunDrained DEF Drained, Outside
<1>3. CASE StreamRefused \/ RunEnds
  <2>1. cb.at = "none" BY <1>3, NoCallback DEF StreamRefused, RunEnds
  <2>2. UNCHANGED <<s, win, cb, sub, owner>> BY <1>3 DEF StreamRefused, RunEnds
  <2>3. run'.at = "returned" /\ run.at \in {"called", "ended"}
    BY <1>3, RunAtIs DEF StreamRefused, RunEnds, RunAts
  <2>4. AllAvail(s') /\ Settled(s') BY <2>2, <2>3 DEF Drained, Outside
  <2> QED BY <2>1, <2>2, <2>3, <2>4, <1>3, RunDrained DEF Drained, Outside
<1>4. CASE async_run_stream \/ StreamLate
  <2>1. cb.at = "none" BY <1>4, NoCallback DEF async_run_stream, StreamLate
  <2>2. s'.x = s.x /\ UNCHANGED <<win, cb, sub, owner>>
    BY <1>1, <1>4, PublishedIs DEF async_run_stream, StreamLate
  <2>3. run.at \in {"called", "published"} BY <1>4 DEF async_run_stream, StreamLate
  <2>4. AllAvail(s) BY <2>3 DEF Drained, Outside
  <2>5. AllAvail(s') /\ Settled(s') BY <2>2, <2>4 DEF AllAvail, Avail, Settled
  <2>6. CASE async_run_stream
    <3>1. run'.at = "published" BY <2>6, RunAtIs DEF async_run_stream, RunAts
    <3> QED BY <3>1, <2>1, <2>2, <2>5, RunDrained DEF Outside
  <2>7. CASE StreamLate
    <3>1. run'.at = "ended" BY <2>7, RunAtIs DEF StreamLate, RunAts
    <3>2. s'.state = "DONE" BY <2>7, <1>1, PublishedIs
    <3> QED BY <3>1, <3>2, <2>1, <2>2, <2>5, RunDrained DEF Outside
  <2> QED BY <2>6, <2>7, <1>4
<1>5. CASE LoopExit
  <2>1. cb.at = "none" BY <1>5, NoCallback DEF LoopExit
  <2>2. UNCHANGED <<s, win, cb, sub, owner>> /\ s.state = "DONE" BY <1>5 DEF LoopExit
  <2>3. run'.at = "ended" BY <1>5, RunAtIs DEF LoopExit, RunAts
  <2>4. AllAvail(s') /\ Settled(s') BY <1>1, <2>2 DEF Settled
  <2> QED BY <2>1, <2>2, <2>3, <2>4, RunDrained DEF Outside
<1>6. CASE RunTold \/ LoopSettle \/ LoopError
  <2>1. cb.at = "none" BY <1>6, NoCallback DEF RunTold, LoopSettle, LoopError
  <2>2. UNCHANGED <<win, cb, sub, owner>> BY <1>6 DEF RunTold, LoopSettle, LoopError
  <2>3. Like(s, s')
    BY <1>1, <1>6, LikeStopped, LikeStopping, LikeSettle DEF RunTold, LoopSettle, LoopError
  <2>4. run'.at \in {"loop", "told loop"}
    <3>1. CASE UNCHANGED run /\ run.at = "loop" BY <3>1
    <3>2. CASE RunAt("loop") \/ RunAt("told loop") BY <3>2, RunAtIs DEF RunAts
    <3> QED BY <3>1, <3>2, <1>6 DEF RunTold, LoopSettle, LoopError, Looping
  <2>5. Settled(s') BY <1>1, <2>3, LikeSettled
  <2> QED BY <2>1, <2>2, <2>4, <2>5, RunDrained DEF Outside
<1> QED BY <1>2, <1>3, <1>4, <1>5, <1>6

\* Where the first fill leaves the run thread and its transfer.
Filling ==
  /\ Settled(s') /\ run'.at \in {"loop", "told fill", "fill", "check"}
  /\ run'.at = "fill" => FillSlot(s', win')
  /\ run'.at = "check" => run'.was \in {"RUNNING", "SHUTTING_DOWN"}

LEMMA FillFailsFilling ==
  ASSUME NEW S \in Stream, Settled(S), FillFails(S) PROVE Filling
<1>1. Like(S, s') /\ (RunAt("loop") \/ RunAt("told fill")) BY LikeStopped DEF FillFails
<1>2. run'.at \in {"loop", "told fill"} BY <1>1, RunAtIs DEF RunAts
<1> QED BY <1>1, <1>2, LikeSettled DEF Filling

LEMMA FillStopsFilling ==
  ASSUME NEW S, NEW T, Settled(S), Like(S, T), FillStops(T) PROVE Filling
<1>1. s' = T /\ run'.at = "loop" BY RunAtIs DEF FillStops, RunAts
<1> QED BY <1>1, LikeSettled DEF Filling

LEMMA FillSubmitsFilling ==
  ASSUME Inv, NEW S, Books(S, win, adm, cb.retire), S.state \in {"RUNNING", "SHUTTING_DOWN"},
         NEW k \in Transfers, NEW gen \in Gens, FillSubmits(S, k, gen)
  PROVE  Filling
<1>1. "run" \in Users /\ win \in [Users -> Window] BY InvTypes
<1>2. CASE Refuses(S, gen)
  <2>1. AfterRefusal(S) \in Stream /\ AfterRefusal(S).state = S.state BY BooksAfterRefusal
  <2>2. Settled(AfterRefusal(S)) BY <2>1 DEF Settled
  <2> QED BY <2>1, <2>2, <1>2, FillFailsFilling DEF FillSubmits
<1>3. CASE ~Refuses(S, gen)
  <2>1. Takes("run", S, gen) /\ run' = [OutRun EXCEPT !.at = "fill", !.k = k]
    BY <1>3 DEF FillSubmits
  <2>2. run'.at = "fill" BY <2>1 DEF OutRun
  <2>3. /\ s'.state = S.state /\ win'["run"].at = "before"
        /\ s'.x[win'["run"].t].status = "IN_FLIGHT"
    BY <1>1, <1>3, <2>1, BooksTakes
  <2> QED BY <2>2, <2>3 DEF Filling, Settled, FillSlot
<1> QED BY <1>2, <1>3

LEMMA FillFromFilling ==
  ASSUME Inv, NEW S, Books(S, win, adm, cb.retire), S.state \in {"RUNNING", "SHUTTING_DOWN"},
         NEW k \in 0 .. N, FillFrom(S, k)
  PROVE  Filling
<1> USE Constants
<1>1. S \in Stream /\ Settled(S) BY DEF Books, Settled
<1>2. CASE FillStops(S) BY <1>1, <1>2, FillStopsFilling, LikeSelf
<1>3. CASE k < N /\ FillSubmits(S, k, 0)
  <2>1. k \in Transfers BY <1>3 DEF Transfers
  <2> QED BY <2>1, <1>3, FillSubmitsFilling
<1>4. CASE FillStops(ShutdownBuffer(S)) \/ FillStops(ShutdownBuffer(Failed(S)))
  BY <1>1, <1>4, FillStopsFilling, LikeShutdownBuffer, LikeStopped
<1>5. CASE /\ \E j \in k .. N-1 :
                run' = [at |-> "check", k |-> j, gen |-> adm.gen, was |-> S.state]
           /\ s' = S
  BY <1>1, <1>5 DEF Filling
<1> QED BY <1>2, <1>3, <1>4, <1>5 DEF FillFrom

LEMMA FillDrained ==
  ASSUME Inv, Drained, owner # "freed", StreamBegin \/ FillChecked \/ FillSubmitted \/ FillRefused
  PROVE  Drained'
<1> USE Constants
<1>1. /\ s \in Stream /\ Books(s, win, adm, cb.retire) /\ run \in RunState /\ "run" \in Users
      /\ win["run"].t \in Transfers /\ Settled(s)
  BY InvTypes DEF Inv, Drained, Window
<1>2. UNCHANGED <<cb, sub, owner>> BY DEF StreamBegin, FillChecked, FillSubmitted, FillRefused
<1>3. run.at \in {"published", "check", "fill"}
  BY DEF Inv, RunOK, StreamBegin, FillChecked, FillSubmitted, FillRefused, LibusbRefuses
<1>4. run.at = "fill" => s.state \in {"RUNNING", "SHUTTING_DOWN"}
  BY <1>1 DEF Drained, FillSlot, Settled, AllAvail, Avail, Stream, States
<1>5. Filling
  <2>1. CASE StreamBegin
    <3>1. Books(ResetForRun(s), win, adm, cb.retire) /\ ResetForRun(s).state = "RUNNING"
      BY <1>1, <2>1, ResetIs, BooksSlots DEF StreamBegin
    <3> QED BY <3>1, <2>1, FillFromFilling DEF StreamBegin
  <2>2. CASE FillChecked
    <3>1. CASE FillStops(ShutdownBuffer(Failed(s)))
      BY <3>1, <1>1, LikeStopped, FillStopsFilling
    <3>2. CASE s.state = run.was /\ FillSubmits(s, run.k, run.gen)
      <4>1. s.state \in {"RUNNING", "SHUTTING_DOWN"} BY <3>2, <2>2 DEF Drained, FillChecked
      <4> QED BY <4>1, <3>2, <1>1, FillSubmitsFilling DEF RunState
    <3> QED BY <3>1, <3>2, <2>2 DEF FillChecked, StillValid
  <2>3. CASE FillSubmitted
    <3>1. run.k + 1 \in 0 .. N BY <1>1 DEF RunState, Transfers
    <3> QED BY <3>1, <1>1, <1>4, <2>3, FillFromFilling DEF FillSubmitted
  <2>4. CASE FillRefused
    <3>1. win["run"].at = "before" /\ FillFails(Rollback("run"))
      BY <2>4 DEF FillRefused, LibusbRefuses
    <3>2. Rollback("run") \in Stream BY <3>1, <1>1, BooksRollback DEF Books
    <3>3. Settled(Rollback("run")) BY <3>1, <1>1, RollbackSettled
    <3> QED BY <3>1, <3>2, <3>3, FillFailsFilling
  <2> QED BY <2>1, <2>2, <2>3, <2>4
<1>6. cb.at = "none" BY <1>3, NoCallback
<1> QED BY <1>2, <1>5, <1>6, RunDrained DEF Filling, Outside

LEMMA CallbackDrained ==
  ASSUME Alone, Inv, Drained, owner # "freed", Callback
  PROVE  Drained'
<1>1. Settled(s) BY DEF Drained
<1>2. ASSUME NEW t \in Transfers, NEW by \in {"run", "other"}, NEW r \in Results(t),
             lusb_stream_cb(t, by, r)
      PROVE  Drained'
  <2>1. by = "run" /\ run.at = "loop" /\ UNCHANGED <<run, sub, owner>>
    BY <1>2 DEF lusb_stream_cb, Alone
  <2>2. (cb' = NoCb \/ cb'.by = by) /\ Settled(s') BY <1>1, <1>2, lusb_stream_cbInv
  <2> QED BY <2>1, <2>2, CbDrained
<1>3. ASSUME CbApp \/ CbChecked \/ CbSubmitted \/ CbRefused \/ CbTold PROVE Drained'
  <2>1. cb \in CbState /\ cb.at # "none"
    BY <1>3, InvTypes DEF Inv, CbOK, CbApp, CbChecked, CbSubmitted, CbRefused, CbTold, LibusbRefuses
  <2>2. run.at = "loop" /\ cb.by = "run" BY <2>1 DEF Drained
  <2>3. UNCHANGED <<run, sub, owner>>
    BY <1>3 DEF CbApp, CbChecked, CbSubmitted, CbRefused, CbTold
  <2>4. (cb' = NoCb \/ cb'.by = "run") /\ Settled(s')
    BY <1>1, <1>3, <2>2, CbAppInv, CbCheckedInv, CbSubmittedInv, CbRefusedInv, CbToldInv
  <2> QED BY <2>2, <2>3, <2>4, CbDrained
<1> QED BY <1>2, <1>3 DEF Callback

LEMMA LibusbAcceptsDrained ==
  ASSUME Inv, Drained, owner # "freed", NEW u \in Users, LibusbAccepts(u)
  PROVE  Drained'
<1> DEFINE t == win["run"].t
<1>1. /\ s \in Stream /\ t \in Transfers /\ win[u].t \in Transfers /\ "run" \in Users
      /\ win \in [Users -> Window] /\ UNCHANGED <<run, cb, sub, owner>>
  BY InvTypes DEF LibusbAccepts, Window
<1>2. s'.state = s.state /\ \A k \in Transfers : s'.x[k].status = s.x[k].status
  BY LibusbAcceptsInv
<1>3. Settled(s') /\ (AllAvail(s') <=> AllAvail(s))
  BY <1>2 DEF Drained, Settled, AllAvail, Avail
<1>4. run.at = "fill" => FillSlot(s', win')
  <2> SUFFICES ASSUME run.at = "fill" PROVE FillSlot(s', win') OBVIOUS
  <2>1. win'["run"].t = t /\ (u # "run" => win'["run"].at = win["run"].at)
    BY <1>1 DEF LibusbAccepts, Window
  <2>2. s'.x[t].usb = "queued" \/ s'.x[t].usb = s.x[t].usb
    <3>1. s.x[win[u].t] \in Transfer /\ s.x[t] \in Transfer BY <1>1 DEF Stream
    <3>2. s' = [s EXCEPT !.x[win[u].t].usb = "queued"] BY DEF LibusbAccepts
    <3> QED BY <3>1, <3>2, <1>1 DEF Stream, Transfer
  <2>3. u = "run" => s'.x[t].usb = "queued"
    <3>1. s.x[t] \in Transfer BY <1>1 DEF Stream
    <3>2. s' = [s EXCEPT !.x[win[u].t].usb = "queued"] BY DEF LibusbAccepts
    <3> QED BY <3>1, <3>2, <1>1 DEF Stream, Transfer
  <2> QED BY <2>1, <2>2, <2>3, <1>1, <1>2 DEF Drained, FillSlot
<1> QED BY <1>1, <1>2, <1>3, <1>4, OtherDrained DEF Drained

\* A submitter takes a transfer only from a stream that is at work.
LEMMA SubTakesDrained ==
  ASSUME Alone, Inv, Drained, owner = "out", NEW p \in Submitters, NEW gen \in Gens,
         ~Refuses(s, gen), Takes(p, s, gen), s.state = "RUNNING", InTime,
         UNCHANGED <<run, cb, owner>>
  PROVE  Drained'
<1>1. /\ p \in Users /\ "run" \in Users /\ p # "run" /\ Books(s, win, adm, cb.retire)
      /\ win["run"].t \in Transfers
  BY InvTypes, Constants DEF Inv, Window
<1>2. /\ s'.state = s.state /\ \A v \in Users : v # p => win'[v] = win[v]
      /\ \A t \in Transfers : s.x[t].status # "AVAIL" => s'.x[t] = s.x[t]
  BY <1>1, BooksTakes
<1>3. run.at \notin Outside BY DEF Drained, InTime, Alone
<1>4. run.at = "fill" => FillSlot(s', win') BY <1>1, <1>2 DEF Drained, FillSlot
<1>5. Settled(s') BY <1>2 DEF Settled
<1> QED BY <1>2, <1>3, <1>4, <1>5, OtherDrained

LEMMA SubmitterDrained ==
  ASSUME Alone, Inv, Drained, owner # "freed", NEW p \in Submitters, Submitter(p)
  PROVE  Drained'
<1> USE Constants
<1>1. /\ s \in Stream /\ win \in [Users -> Window] /\ p \in Users /\ "run" \in Users /\ p # "run"
      /\ sub[p] \in SubState /\ win["run"].t \in Transfers /\ win["run"] \in Window
      /\ Books(s, win, adm, cb.retire) /\ Settled(s)
  BY InvTypes DEF Inv, Drained, Window
<1>2. owner = "out" /\ UNCHANGED <<run, cb, owner>>
  BY DEF Drained, Alone, Submitter, SubmitCall, SubmitGivesUp, SubmitRoom, SubmitChecked,
         SubmitReturns, SubmitRefused, SubmitTold
<1>3. CASE ((s'.x = s.x /\ s'.state = s.state) \/ Like(s, s')) /\ win'["run"] = win["run"]
  BY <1>2, <1>3, QuietDrained, OtherDrained
<1>4. CASE SubmitCall(p) \/ SubmitGivesUp(p)
  BY <1>3, <1>4 DEF SubmitCall, SubmitGivesUp
<1>5. CASE SubmitRoom(p)
  <2>1. CASE UNCHANGED <<s, win, adm>> BY <1>3, <2>1
  <2>2. CASE ~TX /\ s.state = "RUNNING" /\ Takes(p, s, 0)
    <3>1. ~Refuses(s, 0)
      <4>1. Cardinality(Avail(s)) > s.cb_active BY <1>5 DEF SubmitRoom, lusb_submittable
      <4>2. Cardinality({}) = 0 BY FS_EmptySet
      <4>3. s.cb_active \in 0 .. 1 BY <1>1 DEF Stream
      <4>4. Avail(s) # {} BY <4>1, <4>2, <4>3
      <4> QED BY <4>4, <2>2 DEF Refuses
    <3> QED BY <3>1, <2>2, <1>2, <1>5, SubTakesDrained DEF SubmitRoom
  <2> QED BY <2>1, <2>2, <1>5 DEF SubmitRoom
<1>6. CASE SubmitChecked(p)
  <2>1. CASE UNCHANGED <<s, win, adm>> BY <1>3, <2>1
  <2>2. CASE s' = AfterRefusal(s) /\ UNCHANGED <<win, adm>>
    <3>1. s'.x = s.x /\ s'.state = s.state BY <1>1, <2>2, BooksAfterRefusal
    <3> QED BY <3>1, <2>2, <1>3
  <2>3. CASE s.state = "RUNNING" /\ ~Refuses(s, sub[p].gen) /\ Takes(p, s, sub[p].gen)
    BY <2>3, <1>1, <1>2, <1>6, SubTakesDrained DEF SubmitChecked, SubState
  <2> QED BY <2>1, <2>2, <2>3, <1>6 DEF SubmitChecked, StillValid
<1>7. CASE SubmitReturns(p)
  <2>1. win'["run"] = win["run"] BY <1>1, <1>7, BooksWin DEF SubmitReturns
  <2> QED BY <2>1, <1>3, <1>7 DEF SubmitReturns
<1>8. CASE SubmitTold(p)
  <2>1. Like(s, s') BY <1>1, <1>8, LikeStopped DEF SubmitTold
  <2> QED BY <2>1, <1>3, <1>8 DEF SubmitTold
<1>9. CASE SubmitRefused(p)
  <2> DEFINE S == Rollback(p)
             t == win["run"].t
  <2>1. win[p].at = "before" /\ NotTaken(p) BY <1>9 DEF SubmitRefused, LibusbRefuses
  <2>2. win'["run"] = win["run"] BY <1>1, <2>1, BooksWin
  <2>3. /\ S \in Stream /\ S.state = s.state
        /\ \A k \in Transfers : k # win[p].t => S.x[k] = s.x[k]
    <3>1. /\ Books(S, [win EXCEPT ![p] = NoWin], Lease(-1), cb.retire) /\ S.state = s.state
          /\ \A k \in Transfers : k # win[p].t => S.x[k] = s.x[k]
      BY <1>1, <2>1, BooksRollback
    <3> HIDE DEF S
    <3> QED BY <3>1 DEF Books
  <2>4. Settled(S) /\ ~AllAvail(s) BY <1>1, <2>1, RollbackSettled
  <2>5. Like(S, s')
    <3>1. s' \in {S, cancel_all_transfers(Stopping(Failed(S))), Tell(Failed(S))}
      BY <1>9 DEF SubmitRefused
    <3> HIDE DEF S
    <3> QED BY <3>1, <2>3, LikeSelf, LikeStopped
  <2> HIDE DEF S
  <2>6. Settled(s') /\ (s'.state = "RUNNING" => s.state = "RUNNING")
    BY <2>3, <2>4, <2>5, LikeSettled DEF Like
  <2>7. run.at \notin Outside BY <2>4 DEF Drained
  <2>8. run.at = "fill" => FillSlot(s', win')
    <3> SUFFICES ASSUME run.at = "fill" PROVE FillSlot(s', win') OBVIOUS
    <3>1. win["run"].at \in {"before", "after"} BY <1>1 DEF Inv, RunOK, Window
    <3>2. t # win[p].t
      <4>1. s.x[win[p].t].usb = "none" BY <1>1, <2>1 DEF Books, Windows
      <4>2. CASE win["run"].at = "before" BY <4>2, <1>1, <2>1 DEF Books, Windows
      <4>3. CASE win["run"].at = "after" BY <4>1, <4>3 DEF Drained, FillSlot
      <4> QED BY <4>2, <4>3, <3>1
    <3>3. S.x[t] = s.x[t] /\ SameSlot(S.x[t], s'.x[t]) BY <3>2, <1>1, <2>3, <2>5 DEF Like
    <3> QED BY <3>3, <2>2 DEF Drained, FillSlot, SameSlot
  <2> QED BY <2>6, <2>7, <2>8, <1>2, OtherDrained
<1> QED BY <1>4, <1>5, <1>6, <1>7, <1>8, <1>9 DEF Submitter

LEMMA OwnerDrained ==
  ASSUME Alone, Inv, Drained, owner # "freed", Owner
  PROVE  Drained'
<1>1. s \in Stream /\ UNCHANGED <<win, run, cb, sub>>
  BY InvTypes DEF Owner, async_request_stream_shutdown, SubmitShutdown, DeinitAsks, DeinitStops,
                  DeinitFrees
<1>2. Like(s, s') \/ (s'.x = s.x /\ s'.state = s.state)
  <2>1. CASE DeinitAsks BY <2>1, <1>1 DEF DeinitAsks, Stream
  <2>2. CASE async_request_stream_shutdown \/ SubmitShutdown \/ DeinitStops \/ DeinitFrees
    BY <1>1, <2>2, LikeShutdownStream, LikeShutdownBuffer, LikeSelf
    DEF async_request_stream_shutdown, SubmitShutdown, DeinitStops, DeinitFrees
  <2> QED BY <2>1, <2>2 DEF Owner
<1>3. owner' # "out" => \A p \in Submitters : sub'[p].at = "out"
  BY <1>1 DEF Drained, Alone, Owner, async_request_stream_shutdown, SubmitShutdown, DeinitAsks,
              DeinitStops, DeinitFrees
<1>4. owner' = "freed" => /\ \A t \in Transfers : s'.x[t].usb = "none"
                          /\ run'.at = "out" /\ cb'.at = "none"
  <2> SUFFICES ASSUME owner' = "freed"
               PROVE  /\ \A t \in Transfers : s'.x[t].usb = "none"
                      /\ run'.at = "out" /\ cb'.at = "none"
    OBVIOUS
  <2>1. DeinitFrees
    BY DEF Owner, async_request_stream_shutdown, SubmitShutdown, DeinitAsks, DeinitStops
  <2>2. s' = s /\ s.calls = 0 /\ s.state \in {"DONE", "IDLE"} BY <2>1 DEF DeinitFrees, Terminal
  <2>3. run.at = "out" /\ AllAvail(s) BY <2>2 DEF Inv, RunOK, Drained, Settled
  <2>4. cb.at = "none" BY <2>3, NoCallback
  <2> QED BY <1>1, <2>2, <2>3, <2>4, AllAvailUsb
<1> QED BY <1>1, <1>2, <1>3, <1>4, QuietDrained, OtherDrained

LEMMA BoardDrained ==
  ASSUME Inv, Drained, owner # "freed", Board
  PROVE  Drained'
<1>1. s \in Stream BY InvTypes
<1>2. UNCHANGED <<win, run, cb, sub, owner>> /\ s'.x = s.x /\ s'.state = s.state
  BY <1>1 DEF Board, Revoke, Certify, LatchFault, TxIdle, CommitFlush, DeadlinePasses, Stream
<1> QED BY <1>2, QuietDrained, OtherDrained DEF Drained

LEMMA StepDrained == Alone /\ Inv /\ Drained /\ [Next]_vars => Drained'
<1> SUFFICES ASSUME Alone, Inv, Drained, [Next]_vars PROVE Drained' OBVIOUS
<1>1. CASE UNCHANGED vars
  BY <1>1, DrainedPrimed DEF Drained, SafeFree, vars
<1>2. CASE owner # "freed" /\ RunThread
  BY <1>2, RunOnDrained, FillDrained DEF RunThread
<1>3. CASE owner # "freed" /\ Callback BY <1>3, CallbackDrained
<1>4. CASE owner # "freed" /\ Owner BY <1>4, OwnerDrained
<1>5. CASE owner # "freed" /\ Board BY <1>5, BoardDrained
<1>6. CASE owner # "freed" /\ \E u \in Users : LibusbAccepts(u) BY <1>6, LibusbAcceptsDrained
<1>7. CASE owner # "freed" /\ \E p \in Submitters : Submitter(p) BY <1>7, SubmitterDrained
<1> QED BY <1>1, <1>2, <1>3, <1>4, <1>5, <1>6, <1>7 DEF Next, Freed

LEMMA InitDrained == Init => Drained
<1> SUFFICES ASSUME Init PROVE Drained OBVIOUS
<1>1. \A t \in Transfers : s.x[t].status = "AVAIL" BY DEF Init
<1>2. AllAvail(s) BY <1>1 DEF AllAvail, Avail
<1>3. s.state = "IDLE" /\ run.at = "out" /\ cb.at = "none" /\ owner = "out"
  BY DEF Init, OutRun, NoCb
<1> QED BY <1>2, <1>3 DEF Drained, Settled, SafeFree, Outside

LEMMA DrainedAlways == Alone => (Spec => []Drained)
<1> SUFFICES ASSUME Alone PROVE Spec => []Drained OBVIOUS
<1>1. Init => Drained BY InitDrained
<1>2. Inv /\ Drained /\ [Next]_vars => Drained' BY StepDrained
<1> QED BY <1>1, <1>2, Invariance, PTL DEF Spec

\* A stream that is DONE stays drained: no submission, whatever it had checked
\* before it dropped stream->lock, puts a transfer into a stream whose event
\* loop is gone.  Another thread that pumps the context breaks this.
THEOREM DoneStaysDone == Alone => (Spec => DoneIsFinal)
<1> SUFFICES ASSUME Alone PROVE Spec => DoneIsFinal OBVIOUS
<1>1. Drained' => [s.state = "DONE" /\ s'.state = "DONE" => Avail(s) \subseteq Avail(s')]_vars
  <2> SUFFICES ASSUME Drained', s'.state = "DONE" PROVE Avail(s) \subseteq Avail(s') OBVIOUS
  <2>1. Settled(s') BY DEF Drained, Settled, AllAvail, Avail, Transfers
  <2>2. Avail(s') = Transfers BY <2>1 DEF Settled, AllAvail
  <2> QED BY <2>2 DEF Avail
<1> QED BY <1>1, DrainedAlways, PTL DEF DoneIsFinal

\* async_deinit_stream() frees the stream when no transfer is with libusb, no
\* callback runs, and no thread is in bladerf_stream() or in a submission.
THEOREM FreedIsUnused == Alone => (Spec => []SafeFree)
<1> SUFFICES ASSUME Alone PROVE Spec => []SafeFree OBVIOUS
<1>1. Drained => SafeFree BY DEF Drained
<1> QED BY <1>1, DrainedAlways, PTL
=============================================================================
