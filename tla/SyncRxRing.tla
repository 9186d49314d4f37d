------------------------------ MODULE SyncRxRing ------------------------------
(***************************************************************************)
(* The receive side of libbladeRF's synchronous interface: the ring of     *)
(* sample buffers (struct buffer_mgmt) shared by                           *)
(*                                                                         *)
(*   - the USB event thread, which runs rx_callback() or                   *)
(*     sync_worker_rx_buffer_rejected() for each completed transfer,       *)
(*   - the worker thread, which resets the ring when it serves a START     *)
(*     request and publishes an error when the stream ends,                *)
(*   - the reader, an application thread inside sync_rx(),                 *)
(*   - the control thread, which revokes an RX epoch.                      *)
(*                                                                         *)
(* One action is one critical section of buf_mgmt.lock.  The fields of     *)
(* variable b keep the names of struct buffer_mgmt; log messages, sample   *)
(* bytes and actual_lengths are left out.  reorder[] is an array kept      *)
(* sorted by distance, but every search of it is by sequence number, so it *)
(* is a set of entries here.  Sequence numbers wrap at SeqMod (2^32).      *)
(***************************************************************************)
EXTENDS Integers, FiniteSets

CONSTANTS
  N,            \* num_buffers of the ring
  T,            \* num_xfers, the USB transfers kept in flight
  SeqMod,       \* sequence numbers are 0..SeqMod-1 (uint32_t: 2^32)
  MaxReorder,   \* SYNC_RX_MAX_REORDER
  Units,        \* samples per buffer, in units a read may split
  Requests,     \* sizes a read may ask for, in units
  Format,       \* "RAW", "META" or "PACKET"
  Timeouts,     \* kinds of timeout_ms a read may pass: "infinite", "deadline"
  MaxLost,      \* bound: transfers rejected or recycled in a behaviour
  MaxOvertakes, \* bound: USB completions that overtake an older transfer
  MaxEnds,      \* bound: streams that end with an error
  MaxFences,    \* bound: RX epoch revocations
  MaxPrimes     \* bound: calls of sync_prime_stream()

\* sync_init() and async_init_stream() refuse other rings; sequence numbers are
\* far more than the buffers and the SYNC_RX_MAX_REORDER entries of reorder[].
ASSUME RingAssumption ==
  /\ N \in Nat /\ T \in Nat /\ 0 < T /\ T < N
  /\ SeqMod \in Nat /\ SeqMod > 2 * N /\ SeqMod > N + MaxReorder
  /\ MaxReorder \in Nat \ {0}
  /\ Units \in Nat \ {0} /\ Requests \subseteq Nat \ {0}
  /\ Format \in {"RAW", "META", "PACKET"}
  /\ Timeouts \subseteq {"infinite", "deadline"}
  /\ MaxLost \in Nat /\ MaxOvertakes \in Nat /\ MaxEnds \in Nat
  /\ MaxFences \in Nat /\ MaxPrimes \in Nat

Slots  == 0 .. N-1
NoSlot == N                       \* BUFFER_MGMT_INVALID_INDEX
Seqs   == 0 .. SeqMod-1
NoSeq  == SeqMod - 1              \* UINT32_MAX, "never submitted"

Status      == {"EMPTY", "PARTIAL", "FULL", "IN_FLIGHT"}
SyncState   == {"CHECK_WORKER", "RESET_BUF_MGMT", "START_WORKER",
                "WAIT_FOR_BUFFER", "BUFFER_READY", "USING_BUFFER"}
Sources     == {"SYNC_RX_QUEUE", "FPGA_RX_LOSS"}

Entries == [seq : Seqs, idx : Slots \cup {NoSlot}, dropped : BOOLEAN]

BufferMgmt ==
  [status : [Slots -> Status], buffer_seq : [Slots -> Seqs],
   buffer_dropped : [Slots -> BOOLEAN],
   prod_i : Slots, cons_i : Slots, partial_off : 0 .. Units,
   expected_seq : Seqs, next_seq : Seqs, reorder : SUBSET Entries,
   overrun_pending : BOOLEAN, overrun_source_flags : SUBSET Sources,
   stale_pending : BOOLEAN, rx_data_withheld_pending : BOOLEAN]

VARIABLES
  b,        \* struct buffer_mgmt, under buf_mgmt.lock
  usb,      \* how many USB transfers own each slot's memory
  worker,   \* worker->state; "ENDED": stream over, IDLE not yet published
  err,      \* worker->err_code is set
  startReq, \* SYNC_WORKER_START is in worker->requests
  primer,   \* sync_prime_stream() saw IDLE and is about to request START
  state,    \* sync->state, the reader's state machine
  call,     \* the sync_rx() call in progress
  notice,   \* [due |-> event-only callback due, on |-> rx_withheld_notice_active]
  fence,    \* an epoch was revoked and its ring not discarded yet
  g,        \* ghost: what the properties remember of the past
  cnt       \* how much of each bound is used up

vars == <<b, usb, worker, err, startReq, primer, state, call, notice, fence,
          g, cnt>>

-----------------------------------------------------------------------------
(* uint32_t arithmetic on sequence numbers.                                *)

Incr(s)    == (s + 1) % SeqMod
Dist(s, t) == (s - t) % SeqMod
Behind(bb, i) == Dist(bb.buffer_seq[i], bb.expected_seq) > (SeqMod - 1) \div 2

\* Mutant: the ring index is not wrapped.
Next1NoWrap(i) == i + 1

Next1(i) == (i + 1) % N
ReorderLimit == IF N - 1 > MaxReorder THEN MaxReorder ELSE N - 1

HeldSeqs(bb)  == {e.seq : e \in bb.reorder}
HeldSlots(bb) == {e.idx : e \in {f \in bb.reorder : ~f.dropped}}

-----------------------------------------------------------------------------
(* Helpers of sync_worker.c.  Each maps the ring before to the ring after. *)

\* flush_reorder_entries(): release the run of held entries that starts at
\* expected_seq; a tombstone is only counted.
Run(bb) ==
  {e \in bb.reorder : \A k \in 0 .. Dist(e.seq, bb.expected_seq) :
                        (bb.expected_seq + k) % SeqMod \in HeldSeqs(bb)}

\* Mutant: held payloads are never released.
FlushNothing(bb) == bb

Flush(bb) ==
  [bb EXCEPT
    !.status = [i \in Slots |->
                  IF \E e \in Run(bb) : ~e.dropped /\ e.idx = i
                  THEN "FULL" ELSE bb.status[i]],
    !.expected_seq = (@ + Cardinality({e.seq : e \in Run(bb)})) % SeqMod,
    !.reorder = @ \ Run(bb)]

\* The sequence at expected_seq is done with: step over it and drain.
RetireExpected(bb) == Flush([bb EXCEPT !.expected_seq = Incr(@)])

\* Mutant: the backlog is marked stale but no overrun is left for the reader.
NoteOverrunSilently(bb) == [bb EXCEPT !.stale_pending = TRUE]

\* note_rx_overrun()
NoteOverrun(bb) ==
  [bb EXCEPT !.overrun_pending = TRUE,
             !.overrun_source_flags = @ \cup {"SYNC_RX_QUEUE"},
             !.stale_pending = TRUE]

\* hold_dropped_sequence() and retire_dropped_sequence()
RetireDropped(bb, s) ==
  IF s = bb.expected_seq THEN RetireExpected(bb)
  ELSE IF Cardinality(bb.reorder) < MaxReorder
       THEN [bb EXCEPT !.reorder =
               @ \cup {[seq |-> s, idx |-> NoSlot, dropped |-> TRUE]}]
       ELSE NoteOverrun(bb)

\* sync_worker_mark_rx_slot_in_flight(b, idx, b->next_seq++)
MarkInFlight(bb, i) ==
  [bb EXCEPT !.status[i] = "IN_FLIGHT",
             !.buffer_seq[i] = bb.next_seq,
             !.buffer_dropped[i] = FALSE,
             !.next_seq = Incr(@)]

\* sync_worker_rx_select_producer_slot(): the first EMPTY slot from prod_i.
EmptySlots(bb) == {i \in Slots : bb.status[i] = "EMPTY"}
\* Mutant: prod_i is used without looking at the slot's status.
ProducerAtCursor(bb) == bb.prod_i
ProducerSlot(bb) ==
  CHOOSE i \in EmptySlots(bb) :
    \A j \in EmptySlots(bb) : (i - bb.prod_i) % N <= (j - bb.prod_i) % N

\* Give the selected slot to the transport and step the producer cursor.
SubmitSlot(bb, i) == [MarkInFlight(bb, i) EXCEPT !.prod_i = Next1(i)]

\* hold_out_of_order_buffer() and sync_worker_rx_reorder_buffer(): hold a
\* completion that overtook expected_seq if the reorder window has room.
CanHold(bb, s) == /\ Dist(s, bb.expected_seq) <= ReorderLimit
                  /\ Cardinality(bb.reorder) < ReorderLimit
Hold(bb, i) ==
  [bb EXCEPT !.reorder = @ \cup
     {[seq |-> bb.buffer_seq[i], idx |-> i, dropped |-> FALSE]}]

\* mark_buffer_ready()
Ready(bb, i) == [bb EXCEPT !.status[i] = "FULL"]

\* What rx_callback() does with the buffer that completed.
StoreCompleted(bb, i) ==
  LET s == bb.buffer_seq[i] IN
  IF s = bb.expected_seq THEN RetireExpected(Ready(bb, i))
  ELSE IF CanHold(bb, s) THEN Hold(bb, i)
       ELSE Ready(NoteOverrun(bb), i)

\* sync_worker_discard_rx_epoch(): free every payload of the revoked epoch and
\* re-anchor expected_seq and cons_i on the oldest transfer still in flight.
OldestInFlight(bb) ==
  LET F == {i \in Slots : /\ bb.status[i] = "IN_FLIGHT"
                          /\ Dist(bb.buffer_seq[i], bb.expected_seq) < SeqMod - 1}
  IN
  IF F = {} THEN NoSlot
  ELSE CHOOSE i \in F : \A j \in F :
         \/ Dist(bb.buffer_seq[i], bb.expected_seq)
              < Dist(bb.buffer_seq[j], bb.expected_seq)
         \/ /\ Dist(bb.buffer_seq[i], bb.expected_seq)
                 = Dist(bb.buffer_seq[j], bb.expected_seq)
            /\ i <= j

\* Mutant: payloads held in reorder[] are forgotten, not freed.
FreeOnlyReady(bb) ==
  [bb EXCEPT !.status = [i \in Slots |->
     IF bb.status[i] \in {"FULL", "PARTIAL"} THEN "EMPTY" ELSE bb.status[i]]]

FreeCompleted(bb) ==
  LET held  == {i \in HeldSlots(bb) : bb.status[i] = "IN_FLIGHT"}
      ready == {i \in Slots : bb.status[i] \in {"FULL", "PARTIAL"}}
  IN [bb EXCEPT
       !.status = [i \in Slots |-> IF i \in held \cup ready THEN "EMPTY"
                                   ELSE bb.status[i]],
       !.buffer_dropped = [i \in Slots |->
                             IF i \in ready THEN TRUE
                             ELSE IF i \in held THEN FALSE
                             ELSE bb.buffer_dropped[i]],
       !.partial_off = IF bb.cons_i \in ready THEN 0 ELSE bb.partial_off]

Discard(bb) ==
  LET c == FreeCompleted(bb)
      o == OldestInFlight(c)
  IN IF o = NoSlot THEN c
     ELSE [c EXCEPT !.expected_seq = c.buffer_seq[o], !.cons_i = o,
                    !.partial_off = 0, !.reorder = {}]

\* Mutant: cancelled transfers stay IN_FLIGHT across a restart.
ResetKeepsInFlight(bb) ==
  [bb EXCEPT
    !.prod_i = T,
    !.status = [i \in Slots |-> IF i < T THEN "IN_FLIGHT" ELSE bb.status[i]],
    !.buffer_seq = [i \in Slots |-> IF i < T THEN i ELSE NoSeq],
    !.expected_seq = 0, !.next_seq = T, !.reorder = {}]

\* The reset exec_idle_state() makes for a START request, and
\* sync_reset_sequence_tracking(): buffer_dropped is left as it was.
ResetForStart(bb) ==
  [bb EXCEPT
    !.prod_i = T,
    !.status = [i \in Slots |->
                  IF i < T THEN "IN_FLIGHT"
                  ELSE IF bb.status[i] = "IN_FLIGHT" THEN "EMPTY"
                  ELSE bb.status[i]],
    !.buffer_seq = [i \in Slots |-> IF i < T THEN i ELSE NoSeq],
    !.expected_seq = 0, !.next_seq = T, !.reorder = {}]

-----------------------------------------------------------------------------
(* Helpers of the reader.                                                  *)

\* WAIT_FOR_BUFFER skips the slots whose completion was rejected.
SkipLength(bb) ==
  Cardinality({k \in 0 .. N-1 : \A j \in 0 .. k :
                                  bb.buffer_dropped[(bb.cons_i + j) % N]})

SkipDropped(bb) ==
  LET n == SkipLength(bb)
      skipped == {(bb.cons_i + k) % N : k \in 0 .. n-1}
  IN [bb EXCEPT !.buffer_dropped = [i \in Slots |-> bb.buffer_dropped[i]
                                                      /\ i \notin skipped],
                !.cons_i = (bb.cons_i + n) % N]

\* sync_worker_reanchor_rx_consumer_to_oldest()
Candidates(bb) ==
  {i \in Slots : \/ bb.status[i] = "FULL"
                 \/ bb.status[i] = "IN_FLIGHT" /\ ~Behind(bb, i)}
\* Mutant: the age of a FULL slot is taken with the wrong sign.
KeyNewest(bb, i) ==
  LET ahead == Dist(bb.buffer_seq[i], bb.expected_seq) IN
  IF Behind(bb, i) THEN SeqMod - ahead ELSE SeqMod + ahead
Key(bb, i) ==
  LET ahead == Dist(bb.buffer_seq[i], bb.expected_seq) IN
  IF Behind(bb, i) THEN ahead - 1 ELSE SeqMod + ahead

Reanchor(bb) ==
  IF \/ \E i \in Slots : bb.status[i] = "PARTIAL"
     \/ Candidates(bb) = {}
  THEN bb
  ELSE LET best == CHOOSE i \in Candidates(bb) : \A j \in Candidates(bb) :
                     \/ Key(bb, i) < Key(bb, j)
                     \/ Key(bb, i) = Key(bb, j) /\ i <= j
       IN IF best = bb.cons_i THEN bb
          ELSE [bb EXCEPT !.cons_i = best, !.partial_off = 0]

\* sync_rx_should_drop_stale() and the purge of the backlog after an overrun.
ShouldDropStale(now) == Format = "RAW" \/ (Format = "META" /\ now)

DropStale(bb, now) ==
  IF ~(bb.stale_pending /\ ShouldDropStale(now)) THEN bb
  ELSE LET atPartial == Format = "META" /\ bb.status[bb.cons_i] = "PARTIAL"
       IN [bb EXCEPT
            !.status = [i \in Slots |->
                          IF bb.status[i] = "FULL" \/ (atPartial /\ i = bb.cons_i)
                          THEN "EMPTY" ELSE bb.status[i]],
            !.cons_i = IF atPartial THEN Next1(@) ELSE @,
            !.stale_pending = FALSE]

\* advance_rx_buffer()
AdvanceRx(bb) ==
  [bb EXCEPT !.status[bb.cons_i] = "EMPTY", !.cons_i = Next1(@)]

-----------------------------------------------------------------------------
(* Init: sync_init() has configured the RX stream; the worker is idle.     *)

InitialRing ==
  [status |-> [i \in Slots |-> IF i < T THEN "IN_FLIGHT" ELSE "EMPTY"],
   buffer_seq |-> [i \in Slots |-> IF i < T THEN i ELSE NoSeq],
   buffer_dropped |-> [i \in Slots |-> FALSE],
   prod_i |-> T, cons_i |-> 0, partial_off |-> 0,
   expected_seq |-> 0, next_seq |-> T, reorder |-> {},
   overrun_pending |-> FALSE, overrun_source_flags |-> {},
   stale_pending |-> FALSE, rx_data_withheld_pending |-> FALSE]

NoCall == [pc |-> "none", kind |-> "infinite", now |-> FALSE, want |-> 0,
           ok |-> TRUE, stale |-> FALSE]

Init ==
  /\ b = InitialRing
  /\ usb = [i \in Slots |-> 0]
  /\ worker = "IDLE" /\ err = FALSE /\ startReq = FALSE /\ primer = FALSE
  /\ state = "CHECK_WORKER"
  /\ call = NoCall
  /\ notice = [due |-> FALSE, on |-> FALSE]
  /\ fence = FALSE
  /\ g = [last |-> NoSeq, gap |-> FALSE, past |-> {}, old |-> {}]
  /\ cnt = [lost |-> 0, overtakes |-> 0, ends |-> 0, fences |-> 0, primes |-> 0]

-----------------------------------------------------------------------------
(* Locks and wakeups.                                                      *)

\* A reader that returned from its case with buf_mgmt.lock held blocks on it.
LockFree == call.pc # "stuck"

\* sync_rx() holds s->lock except between the two halves of the wait.
SyncLockFree == call.pc \in {"none", "wait", "woken", "timedout"}

\* COND_SIGNAL(&b->buf_ready): only the reader waits on it.
Wake(sig) ==
  call' = IF sig /\ call.pc = "wait" THEN [call EXCEPT !.pc = "woken"] ELSE call

\* Mutant: a buffer that becomes FULL does not wake the reader.
SignalsOnlyOverrun(new) == new.stale_pending /\ ~b.stale_pending

\* mark_buffer_ready() and the first note_rx_overrun() of an interval signal.
Signals(new) ==
  \/ \E i \in Slots : new.status[i] = "FULL" /\ b.status[i] # "FULL"
  \/ new.stale_pending /\ ~b.stale_pending

\* Ghost bookkeeping of a new ring: what is lost, which old payloads remain.
Note(new, kinds, lost) ==
  [g EXCEPT !.past = @ \cup kinds,
            !.gap = @ \/ lost,
            !.old = {i \in @ : new.status[i] \in {"FULL", "PARTIAL"}}]

-----------------------------------------------------------------------------
(* The USB event thread (async_rx_process_buffer() and its callbacks).     *)

Owned == {i \in Slots : usb[i] > 0}
Oldest(i) == \A j \in Owned : Dist(b.next_seq, b.buffer_seq[j])
                                <= Dist(b.next_seq, b.buffer_seq[i])

\* The transfer into slot i completes, perhaps ahead of older ones.
Completes(i, lost) ==
  /\ worker = "RUNNING" /\ ~notice.due /\ LockFree
  /\ i \in Owned
  /\ Oldest(i) \/ cnt.overtakes < MaxOvertakes
  /\ cnt.lost + lost <= MaxLost
  /\ cnt' = [cnt EXCEPT !.overtakes = IF Oldest(i) THEN @ ELSE @ + 1,
                        !.lost = @ + lost]

\* rx_callback() with an EMPTY slot to submit in exchange.
RxCallbackStore(i) ==
  LET c == [b EXCEPT !.buffer_dropped[i] = FALSE]
      d == StoreCompleted(c, i)
      j == ProducerSlot(c)
      s == c.buffer_seq[i]
      forwarded == s # c.expected_seq /\ ~CanHold(c, s)
  IN
  /\ Completes(i, 0)
  /\ EmptySlots(b) # {}
  /\ b' = SubmitSlot(d, j)
  /\ usb' = [[usb EXCEPT ![i] = @ - 1] EXCEPT ![j] = @ + 1]
  /\ notice' = [notice EXCEPT !.on = FALSE]
  /\ g' = IF forwarded THEN Note(b', {"forwarded"}, TRUE)
                       ELSE Note(b', {}, FALSE)
  /\ Wake(Signals(d))
  /\ UNCHANGED <<worker, err, startReq, primer, state, fence>>

\* rx_callback() with no EMPTY slot while payloads are held: the stream gets
\* NO_DATA and the transfer is not submitted again.
RxCallbackNoData(i) ==
  /\ Completes(i, 0)
  /\ EmptySlots(b) = {} /\ b.reorder # {}
  /\ b' = [b EXCEPT !.buffer_dropped[i] = FALSE]
  /\ usb' = [usb EXCEPT ![i] = @ - 1]
  /\ notice' = [notice EXCEPT !.on = FALSE]
  /\ g' = Note(b', {"stranded"}, FALSE)
  /\ UNCHANGED <<worker, err, startReq, primer, state, call, fence>>

\* rx_callback() on a full ring: drop the payload, reuse the same buffer
\* (sync_worker_rx_ring_full_recycle() and note_rx_overrun()).
RxCallbackRingFull(i) ==
  /\ Completes(i, 1)
  /\ EmptySlots(b) = {} /\ b.reorder = {}
  /\ b' = NoteOverrun(MarkInFlight(RetireDropped(b, b.buffer_seq[i]), i))
  /\ notice' = [notice EXCEPT !.on = FALSE]
  /\ g' = Note(b', {}, TRUE)
  /\ Wake(Signals(b'))
  /\ UNCHANGED <<usb, worker, err, startReq, primer, state, fence>>

\* sync_worker_rx_buffer_rejected().  quiet: the epoch admission check withheld
\* the buffer inside an interval already notified; otherwise (a new interval, or
\* a bad transfer) an event-only callback follows.
RxBufferRejected(i, quiet) ==
  LET inFlight == b.status[i] = "IN_FLIGHT"
      r == [RetireDropped(b, b.buffer_seq[i]) EXCEPT
              !.buffer_dropped[i] = TRUE, !.status[i] = "EMPTY"]
      j == IF inFlight THEN ProducerSlot(r) ELSE i
      untracked == /\ b.buffer_seq[i] # b.expected_seq
                   /\ Cardinality(b.reorder) >= MaxReorder
  IN
  /\ Completes(i, 1)
  /\ quiet => notice.on
  /\ b' = IF inFlight THEN SubmitSlot(r, j) ELSE b
  /\ usb' = [[usb EXCEPT ![i] = @ - 1] EXCEPT ![j] = @ + 1]
  /\ notice' = [due |-> ~quiet, on |-> TRUE]
  /\ g' = Note(b', IF inFlight /\ untracked THEN {"untracked"} ELSE {}, FALSE)
  /\ Wake(inFlight /\ (i = b.cons_i \/ Signals(r)))
  /\ UNCHANGED <<worker, err, startReq, primer, state, fence>>

\* rx_callback() with no samples: the event-only callback.
RxEventCallback ==
  /\ notice.due /\ worker = "RUNNING" /\ LockFree
  /\ b' = [b EXCEPT !.rx_data_withheld_pending = TRUE]
  /\ notice' = [notice EXCEPT !.due = FALSE]
  /\ Wake(TRUE)
  /\ UNCHANGED <<usb, worker, err, startReq, primer, state, fence, g, cnt>>

UsbThread ==
  \/ \E i \in Slots : \/ RxCallbackStore(i)
                      \/ RxCallbackNoData(i)
                      \/ RxCallbackRingFull(i)
                      \/ \E quiet \in BOOLEAN : RxBufferRejected(i, quiet)
  \/ RxEventCallback

-----------------------------------------------------------------------------
(* The worker thread (sync_worker_task()).                                 *)

\* exec_idle_state() serves START; the backend submits the first T buffers.
ExecIdleState ==
  /\ worker = "IDLE" /\ startReq /\ LockFree
  /\ startReq' = FALSE
  /\ b' = ResetForStart(b)
  /\ usb' = [i \in Slots |-> IF i < T THEN 1 ELSE 0]
  /\ worker' = "RUNNING"
  /\ notice' = [due |-> FALSE, on |-> FALSE]
  /\ g' = [g EXCEPT
       !.last = NoSeq,
       !.past = (@ \cap {"stolen"}) \cup
                IF state \in {"BUFFER_READY", "USING_BUFFER"}
                THEN {"stolen"} ELSE {},
       !.old = {i \in Slots : b'.status[i] \in {"FULL", "PARTIAL"}}]
  /\ UNCHANGED <<err, primer, state, call, fence, cnt>>

\* exec_running_state(): async_run_stream() failed; every transfer is back.
ExecRunningState ==
  /\ worker = "RUNNING" /\ ~notice.due /\ LockFree
  /\ cnt.ends < MaxEnds
  /\ cnt' = [cnt EXCEPT !.ends = @ + 1]
  /\ worker' = "ENDED"
  /\ err' = TRUE
  /\ usb' = [i \in Slots |-> 0]
  /\ Wake(TRUE)
  /\ UNCHANGED <<b, startReq, primer, state, notice, fence, g>>

\* sync_worker_task() publishes IDLE after exec_running_state() returns.
WorkerBackToIdle ==
  /\ worker = "ENDED"
  /\ worker' = "IDLE"
  /\ UNCHANGED <<b, usb, err, startReq, primer, state, call, notice, fence, g, cnt>>

Worker == ExecIdleState \/ ExecRunningState \/ WorkerBackToIdle

-----------------------------------------------------------------------------
(* The reader: one sync_rx() call at a time (rx_reader_lock).              *)

Reports == Format \in {"META", "PACKET"}    \* the format carries a status word

ClearOverrun(bb) ==
  [bb EXCEPT !.overrun_pending = FALSE,
             !.overrun_source_flags = IF bb.overrun_pending THEN {} ELSE @]

\* The loop runs while samples are missing and no error is set.
Looping(c) == [c EXCEPT !.pc = IF c.ok /\ c.want > 0 THEN "top" ELSE "out"]
Failed(c)  == [c EXCEPT !.pc = "out", !.ok = FALSE]

\* Entry of sync_rx(): a metadata read reports a pending overrun at once.  Once
\* an epoch has been revoked the entry checks may refuse a metadata read (which
\* reads they refuse is the subject of module RxEpoch).
StartRead(kind, now, want) ==
  /\ call.pc = "none"
  /\ now => Format = "META"
  /\ LET c == [NoCall EXCEPT !.kind = kind, !.now = now, !.want = want] IN
     \/ call' = Looping(c)
     \/ Format = "META" /\ cnt.fences > 0 /\ call' = Failed(c)
  /\ b' = IF Reports THEN ClearOverrun(b) ELSE b
  /\ g' = IF Reports /\ b.overrun_pending
          THEN [g EXCEPT !.gap = FALSE] ELSE g
  /\ UNCHANGED <<usb, worker, err, startReq, primer, state, notice, fence, cnt>>

\* Top of the loop: the epoch generation, then the caller's deadline.
LoopTop ==
  /\ call.pc = "top"
  /\ \/ call.stale /\ call' = Failed(call)
     \/ ~call.stale /\ call.kind = "deadline" /\ call' = Failed(call)
     \/ ~call.stale /\ call' = [call EXCEPT !.pc = "case"]
  /\ UNCHANGED <<b, usb, worker, err, startReq, primer, state, notice, fence, g, cnt>>

\* case SYNC_STATE_CHECK_WORKER: sync_worker_get_state() consumes the error.
CheckWorker ==
  /\ call.pc = "case" /\ state = "CHECK_WORKER"
  /\ err' = FALSE
  /\ state' = IF err THEN state
              ELSE IF worker = "IDLE" THEN "RESET_BUF_MGMT" ELSE "WAIT_FOR_BUFFER"
  /\ call' = IF err THEN Failed(call) ELSE Looping(call)
  /\ UNCHANGED <<b, usb, worker, startReq, primer, notice, fence, g, cnt>>

\* case SYNC_STATE_RESET_BUF_MGMT
ResetBufMgmt ==
  /\ call.pc = "case" /\ state = "RESET_BUF_MGMT" /\ LockFree
  /\ b' = [b EXCEPT !.cons_i = 0]
  /\ state' = "START_WORKER"
  /\ call' = Looping(call)
  /\ UNCHANGED <<usb, worker, err, startReq, primer, notice, fence, g, cnt>>

\* case SYNC_STATE_START_WORKER: request START, then wait for RUNNING.
StartWorker ==
  /\ call.pc = "case" /\ state = "START_WORKER"
  /\ startReq' = TRUE
  /\ call' = [call EXCEPT !.pc = "starting"]
  /\ UNCHANGED <<b, usb, worker, err, primer, state, notice, fence, g, cnt>>

WorkerStarted ==
  /\ call.pc = "starting" /\ worker \in {"RUNNING", "ENDED"}
  /\ state' = "WAIT_FOR_BUFFER"
  /\ call' = Looping(call)
  /\ UNCHANGED <<b, usb, worker, err, startReq, primer, notice, fence, g, cnt>>

\* The request stays posted and the state stays START_WORKER.
StartTimedOut ==
  /\ call.pc = "starting" /\ call.kind = "deadline"
  /\ call' = Failed(call)
  /\ UNCHANGED <<b, usb, worker, err, startReq, primer, state, notice, fence, g, cnt>>

\* case SYNC_STATE_WAIT_FOR_BUFFER, up to wait_for_buffer().  A deadline that
\* expires between the check at the top and the one here leaves the case
\* without releasing buf_mgmt.lock.
WaitForBuffer ==
  LET w == [b EXCEPT !.rx_data_withheld_pending = FALSE]
      r == DropStale(Reanchor(SkipDropped(w)), call.now)
      full == r.status[r.cons_i] = "FULL"
  IN
  /\ call.pc = "case" /\ state = "WAIT_FOR_BUFFER"
  /\ \/ /\ b.rx_data_withheld_pending /\ call.kind = "infinite"
        /\ b' = w /\ call' = Failed(call) /\ UNCHANGED state
     \/ /\ ~(b.rx_data_withheld_pending /\ call.kind = "infinite")
        /\ b' = r
        /\ \/ full /\ call' = Looping(call) /\ state' = "BUFFER_READY"
           \/ ~full /\ call' = [call EXCEPT !.pc = "wait"] /\ UNCHANGED state
           \/ /\ ~full /\ call.kind = "deadline"
              /\ call' = [call EXCEPT !.pc = "stuck"] /\ UNCHANGED state
  /\ g' = Note(b', {}, FALSE)
  /\ UNCHANGED <<usb, worker, err, startReq, primer, notice, fence, cnt>>

\* wait_for_buffer() returned: s->lock and buf_mgmt.lock are taken again.  The
\* slot at cons_i is claimed without looking for the oldest one ("blind").
WakeUp ==
  /\ call.pc = "woken"
  /\ state' = IF b.status[b.cons_i] = "FULL" THEN "BUFFER_READY"
              ELSE "CHECK_WORKER"
  /\ g' = IF state' = "BUFFER_READY" /\ Reanchor(b) # b
          THEN [g EXCEPT !.past = @ \cup {"blind"}] ELSE g
  /\ call' = Looping(call)
  /\ UNCHANGED <<b, usb, worker, err, startReq, primer, notice, fence, cnt>>

WaitExpires ==
  /\ call.pc = "wait" /\ call.kind = "deadline"
  /\ call' = [call EXCEPT !.pc = "timedout"]
  /\ UNCHANGED <<b, usb, worker, err, startReq, primer, state, notice, fence, g, cnt>>

TimedOut ==
  /\ call.pc = "timedout"
  /\ state' = "CHECK_WORKER"
  /\ call' = Failed(call)
  /\ UNCHANGED <<b, usb, worker, err, startReq, primer, notice, fence, g, cnt>>

\* pthread condition variables may wake for no reason.
SpuriousWakeup ==
  /\ call.pc = "wait"
  /\ Wake(TRUE)
  /\ UNCHANGED <<b, usb, worker, err, startReq, primer, state, notice, fence, g, cnt>>

\* case SYNC_STATE_BUFFER_READY: the slot is handed to the reader.
BufferReady ==
  /\ call.pc = "case" /\ state = "BUFFER_READY"
  /\ b' = [b EXCEPT !.status[b.cons_i] = "PARTIAL", !.partial_off = 0]
  /\ state' = "USING_BUFFER"
  /\ g' = [g EXCEPT !.last = b.buffer_seq[b.cons_i]]
  /\ call' = Looping(call)
  /\ UNCHANGED <<usb, worker, err, startReq, primer, notice, fence, cnt>>

\* Copy or skip n units of the current buffer; a used up buffer is given back.
Consume(n) ==
  IF b.partial_off + n < Units
  THEN b' = [b EXCEPT !.partial_off = @ + n] /\ UNCHANGED state
  ELSE /\ b' = AdvanceRx([b EXCEPT !.partial_off = Units])
       /\ state' = "WAIT_FOR_BUFFER"

\* case SYNC_STATE_USING_BUFFER: samples without metadata.
UsingBuffer ==
  /\ call.pc = "case" /\ state = "USING_BUFFER" /\ Format = "RAW"
  /\ IF b.overrun_pending
     THEN call' = Failed(call) /\ UNCHANGED <<b, state>>
     ELSE LET room == Units - b.partial_off
              n == IF call.want < room THEN call.want ELSE room
          IN /\ Consume(n)
             /\ call' = Looping([call EXCEPT !.want = @ - n])
  /\ g' = Note(b', {}, FALSE)
  /\ UNCHANGED <<usb, worker, err, startReq, primer, notice, fence, cnt>>

\* case SYNC_STATE_USING_BUFFER_META: one step of the message parser, which
\* copies (n samples of the read), skips, stops early or fails.
UsingBufferMeta ==
  /\ call.pc = "case" /\ state = "USING_BUFFER" /\ Format = "META"
  /\ \E n \in 0 .. Units - b.partial_off, copied \in BOOLEAN :
       /\ copied => n <= call.want
       /\ Consume(n)
       /\ LET c == [call EXCEPT !.want = IF copied THEN @ - n ELSE @] IN
          \/ call' = Looping(c)
          \/ call' = [c EXCEPT !.pc = "out"]
          \/ call' = Failed(c)
  /\ g' = Note(b', {}, FALSE)
  /\ UNCHANGED <<usb, worker, err, startReq, primer, notice, fence, cnt>>

\* case SYNC_STATE_USING_PACKET_META: one packet per call, or it did not fit.
UsingPacketMeta ==
  /\ call.pc = "case" /\ state = "USING_BUFFER" /\ Format = "PACKET"
  /\ b' = AdvanceRx(b)
  /\ state' = "WAIT_FOR_BUFFER"
  /\ \/ call' = [call EXCEPT !.pc = "out"]
     \/ call' = Failed(call)
  /\ g' = Note(b', {}, FALSE)
  /\ UNCHANGED <<usb, worker, err, startReq, primer, notice, fence, cnt>>

\* out: a pending overrun is taken; the status word or the error tells the
\* caller, and the final generation fence may still turn the read into an error.
Out ==
  LET fails == ~call.ok \/ call.stale IN
  /\ call.pc = "out"
  /\ b' = ClearOverrun(b)
  /\ g' = [g EXCEPT !.gap = @ /\ ~(fails \/ (Reports /\ b.overrun_pending))]
  /\ call' = NoCall
  /\ UNCHANGED <<usb, worker, err, startReq, primer, state, notice, fence, cnt>>

ReaderStep ==
  \/ LoopTop \/ CheckWorker \/ ResetBufMgmt \/ StartWorker \/ WorkerStarted
  \/ StartTimedOut \/ WaitForBuffer \/ WakeUp \/ TimedOut \/ BufferReady
  \/ UsingBuffer \/ UsingBufferMeta \/ UsingPacketMeta \/ Out

-----------------------------------------------------------------------------
(* The control thread.                                                     *)

\* rx_epoch_generation_advance_with_callback(): any read in progress is now
\* stale, and a waiting one is woken.
RevokeEpoch ==
  /\ cnt.fences < MaxFences /\ ~fence /\ LockFree
  /\ cnt' = [cnt EXCEPT !.fences = @ + 1]
  /\ fence' = (Format = "META")
  /\ LET c == IF call.pc = "none" THEN call ELSE [call EXCEPT !.stale = TRUE] IN
     call' = IF c.pc = "wait" THEN [c EXCEPT !.pc = "woken"] ELSE c
  /\ UNCHANGED <<b, usb, worker, err, startReq, primer, state, notice, g>>

\* The second half of sync_rx_epoch_invalidate_with_revoke(), under s->lock.
InvalidateEpoch ==
  LET f == b.overrun_source_flags \ {"FPGA_RX_LOSS"}
      c == [b EXCEPT !.overrun_source_flags = f,
                     !.overrun_pending = @ /\ f # {}]
  IN
  /\ fence /\ SyncLockFree
  /\ fence' = FALSE
  /\ b' = Discard(c)
  /\ state' = IF state \in {"BUFFER_READY", "USING_BUFFER"}
              THEN "WAIT_FOR_BUFFER" ELSE state
  /\ g' = Note(b', IF b.reorder = {} THEN {}
                   ELSE IF b'.reorder = {} THEN {"forgotten"} ELSE {"unanchored"},
               FALSE)
  /\ UNCHANGED <<usb, worker, err, startReq, primer, call, notice, cnt>>

\* sync_rx_stage_fpga_loss_locked()
StageFpgaLoss ==
  /\ LockFree /\ cnt.lost < MaxLost
  /\ cnt' = [cnt EXCEPT !.lost = @ + 1]
  /\ b' = [b EXCEPT !.overrun_pending = TRUE,
                    !.overrun_source_flags = @ \cup {"FPGA_RX_LOSS"}]
  /\ UNCHANGED <<usb, worker, err, startReq, primer, state, call, notice, fence, g>>

\* sync_prime_stream(): no lock of the stream is held, and the worker's state
\* is read before the request is posted.
PrimeCheck ==
  /\ worker = "IDLE" /\ ~primer /\ cnt.primes < MaxPrimes
  /\ primer' = TRUE
  /\ cnt' = [cnt EXCEPT !.primes = @ + 1]
  /\ UNCHANGED <<b, usb, worker, err, startReq, state, call, notice, fence, g>>

PrimeSubmit ==
  /\ primer
  /\ primer' = FALSE
  /\ startReq' = TRUE
  /\ UNCHANGED <<b, usb, worker, err, state, call, notice, fence, g, cnt>>

Control == RevokeEpoch \/ InvalidateEpoch \/ StageFpgaLoss \/ PrimeCheck \/ PrimeSubmit

-----------------------------------------------------------------------------
Application == \E kind \in Timeouts, now \in BOOLEAN, want \in Requests :
                 StartRead(kind, now, want)

Next == UsbThread \/ Worker \/ ReaderStep \/ WaitExpires \/ SpuriousWakeup
          \/ Control \/ Application

Spec == Init /\ [][Next]_vars

\* The threads are scheduled, and the device completes its transfers.
FairSpec ==
  /\ Spec
  /\ WF_vars(UsbThread)
  /\ WF_vars(ExecIdleState) /\ WF_vars(WorkerBackToIdle)
  /\ WF_vars(ReaderStep)
-----------------------------------------------------------------------------
(* Properties.                                                             *)

Calls == [pc : {"none", "top", "case", "wait", "woken", "timedout",
                "starting", "out", "stuck"},
          kind : {"infinite", "deadline"}, now : BOOLEAN,
          want : Nat, ok : BOOLEAN, stale : BOOLEAN]

Kinds == {"stolen", "stranded", "forwarded", "untracked", "blind",
          "forgotten", "unanchored"}

Ghosts == [last : Seqs, gap : BOOLEAN, past : SUBSET Kinds, old : SUBSET Slots]

Used == [lost : 0 .. MaxLost, overtakes : 0 .. MaxOvertakes,
         ends : 0 .. MaxEnds, fences : 0 .. MaxFences, primes : 0 .. MaxPrimes]

\* The ring, the worker and the reader only take values the code's types allow.
TypeOK ==
  /\ b \in BufferMgmt
  /\ usb \in [Slots -> Nat]
  /\ worker \in {"IDLE", "RUNNING", "ENDED"}
  /\ err \in BOOLEAN /\ startReq \in BOOLEAN /\ primer \in BOOLEAN
  /\ state \in SyncState
  /\ call \in Calls
  /\ notice \in [due : BOOLEAN, on : BOOLEAN]
  /\ fence \in BOOLEAN
  /\ g \in Ghosts
  /\ cnt \in Used

Unusual(kinds) == g.past \cap kinds # {}

\* No slot's memory is given to two USB transfers, and a slot the transport
\* owns is IN_FLIGHT, so the reader never reads memory the device writes.
\* (Left out: START served while a buffer was being read, "stolen", and a fence
\* that found payloads held but no transfer in flight, "unanchored".)
ExclusiveOwnership ==
  ~Unusual({"stolen", "unanchored"}) =>
    \A i \in Slots : usb[i] <= 1 /\ (usb[i] = 1 => b.status[i] = "IN_FLIGHT")

\* While a stream runs, a slot marked IN_FLIGHT is owned by exactly one USB
\* transfer or waits in reorder[]: the ring leaks no slot, whatever mix of
\* rejections, overruns, overtaking completions and fences it went through.
EverySlotAccounted ==
  worker = "RUNNING" /\ ~Unusual({"stolen", "stranded", "unanchored"}) =>
    /\ {i \in Slots : b.status[i] = "IN_FLIGHT"} = Owned \cup HeldSlots(b)
    /\ Owned \cap HeldSlots(b) = {}
    /\ Cardinality(Owned) = T

\* The sequence the ring waits for is carried by a live USB transfer, so it
\* will be retired: no unretirable hole stalls in-order release.
NoSequenceHole ==
  worker = "RUNNING"
  /\ ~Unusual({"stolen", "stranded", "forwarded", "untracked", "forgotten"}) =>
    \E i \in Owned : b.buffer_seq[i] = b.expected_seq

Ahead(s, t) == Dist(s, t) \in 1 .. (SeqMod - 1) \div 2

Delivers == state = "BUFFER_READY" /\ state' = "USING_BUFFER"
DeliversNewer == Ahead(b.buffer_seq[b.cons_i], g.last)

\* The buffers handed to the reader carry strictly increasing sequence numbers,
\* through rejections, recycled transfers and fences: the re-anchoring of cons_i
\* always finds the oldest buffer.  (Left out: buffers claimed right after a
\* wait, which skips that search, see AlwaysInOrder; forwarded completions;
\* the buffers an ended stream left behind, g.old.)
InOrderDelivery ==
  [][Delivers /\ ~Unusual({"stolen", "forwarded", "blind"}) /\ g.old = {}
       => DeliversNewer]_vars

\* Samples the ring dropped are reported: until a metadata read has told its
\* caller, the loss stays pending for the next one, whatever fence or read ran
\* in between.
OverrunReported == Reports /\ g.gap => b.overrun_pending

\* A read that waits without a deadline returns: no wakeup of the reader is
\* lost between the USB thread's signals and the reader's checks.
ReadReturns == call.pc = "top" ~> call.pc = "none"

-----------------------------------------------------------------------------
(* What the comments and the documentation say of this code, and the code   *)
(* does not do: each is refuted by a small instance (README, section 5).   *)

\* sync_worker.h: "The consumer must therefore follow sequence order".
AlwaysInOrder ==
  [][Delivers /\ ~Unusual({"stolen", "forwarded"}) /\ g.old = {}
       => DeliversNewer]_vars

\* libbladeRF.h: a read with a timeout completes when the time is over, so no
\* reader waits for a lock it holds itself.
NoSelfDeadlock == call.pc # "stuck"

\* sync_worker.c: the API side is woken when the stream fails, so that it can
\* hand the error to the caller.
StreamErrorReported == (err /\ call.pc # "none") ~> (~err \/ call.pc = "none")
=============================================================================
