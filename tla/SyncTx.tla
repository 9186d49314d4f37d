-------------------------------- MODULE SyncTx --------------------------------
(***************************************************************************)
(* The transmit side of libbladeRF's synchronous interface.  The ring of   *)
(* sample buffers is shared by                                             *)
(*                                                                         *)
(*   - the writer, an application thread inside sync_tx(), which fills the *)
(*     slot at prod_i and submits it (submitter FN), or leaves it FULL for *)
(*     the callback (submitter CALLBACK),                                  *)
(*   - the USB event thread, which runs lusb_stream_cb() and, under it,    *)
(*     tx_callback() for each completed transfer,                          *)
(*   - the worker thread, which starts the stream and winds it up,         *)
(*   - the board, which revokes and certifies TX admission; each change    *)
(*     makes a new admission generation.                                   *)
(*                                                                         *)
(* One action is one critical section of buf_mgmt.lock or of stream->lock. *)
(* The writer drops buf_mgmt.lock around async_submit_stream_buffer();     *)
(* lusb_stream_cb() drops stream->lock while the board checks the next     *)
(* buffer's timestamp, and submit_transfer() drops it around libusb.       *)
(* Samples are left out: a buffer carries a number, assigned when it has   *)
(* been filled (modulo DataMod).                                           *)
(***************************************************************************)
EXTENDS Integers, Sequences, FiniteSets

CONSTANTS
  N,          \* num_buffers of the ring
  T,          \* num_xfers, the USB transfers of the stream
  DataMod,    \* buffer numbers are 0..DataMod-1: more than N + 1 to tell an order
  Units,      \* samples per buffer, in units a write may split
  Requests,   \* sizes a write may ask for, in units
  Format,     \* "RAW", "META" or "PACKET"
  Timeouts,   \* kinds of timeout_ms a write may pass: "infinite", "deadline"
  Admission,  \* the board has TX admission hooks (bladeRF 2)
  MaxGen,     \* bound: admission generations
  MaxFails,   \* bound: libusb_submit_transfer() failures
  MaxStalls,  \* bound: transfers that time out without moving a byte
  MaxEnds     \* bound: transfers that end the stream with an error

\* sync_init() and async_init_stream() refuse anything else.
ASSUME TxAssumption ==
  /\ N \in Nat /\ T \in Nat /\ 0 < T /\ T < N
  /\ DataMod \in Nat \ {0}
  /\ Units \in Nat \ {0} /\ Requests \subseteq Nat \ {0}
  /\ Format \in {"RAW", "META", "PACKET"}
  /\ Timeouts \subseteq {"infinite", "deadline"}
  /\ Admission \in BOOLEAN
  /\ MaxGen \in Nat /\ MaxFails \in Nat /\ MaxStalls \in Nat /\ MaxEnds \in Nat

Slots  == 0 .. N-1
NoSlot == N                       \* BUFFER_MGMT_INVALID_INDEX, or no buffer
Datas  == 0 .. DataMod-1

Status      == {"EMPTY", "PARTIAL", "FULL", "IN_FLIGHT"}
SyncState   == {"CHECK_WORKER", "START_WORKER", "WAIT_FOR_BUFFER",
                "BUFFER_READY", "USING_BUFFER"}
StreamState == {"IDLE", "RUNNING", "SHUTTING_DOWN", "DONE"}
Transfers   == [slot : Slots, gen : 0 .. MaxGen]

BufferMgmt ==
  [status : [Slots -> Status], prod_i : Slots, cons_i : Slots \cup {NoSlot},
   partial_off : 0 .. Units, submitter : {"FN", "CALLBACK"}]

VARIABLES
  b,        \* struct buffer_mgmt, under buf_mgmt.lock
  data,     \* ghost: the number of the buffer content in each slot
  usb,      \* the transfers the endpoint holds, oldest first
  cb,       \* the buffer lusb_stream_cb() is about to submit: [slot, gen, at]
  stream,   \* [state, error |-> error_code, rejected |-> tx_buffer_rejected]
  worker,   \* worker thread: IDLE; STARTED, LOOP, RESTORED, ENDED: state RUNNING
  err,      \* worker->err_code is set
  startReq, \* SYNC_WORKER_START is in worker->requests
  adm,      \* the board's TX admission: [valid, gen]
  state,    \* sync->state, the writer's state machine
  call,     \* the sync_tx() call in progress
  g,        \* ghost: what the properties remember of the past
  cnt       \* how much of each bound is used up

vars == <<b, data, usb, cb, stream, worker, err, startReq, adm, state, call, g, cnt>>

usbVars    == <<data, usb, cb, stream>>
threadVars == <<worker, err, startReq, adm>>

-----------------------------------------------------------------------------
(* The ring.                                                               *)

Next1(i)  == (i + 1) % N
Full(bb)  == {i \in Slots : bb.status[i] = "FULL"}

\* oldest_full_buffer(): the first FULL slot from cons_i, or from prod_i when
\* the callback was not told which buffer to ship.
OldestFull(bb) ==
  LET from == IF bb.cons_i = NoSlot THEN bb.prod_i ELSE bb.cons_i IN
  IF Full(bb) = {} THEN NoSlot
  ELSE CHOOSE i \in Full(bb) :
         \A j \in Full(bb) : (i - from) % N <= (j - from) % N

\* tx_submission_parked()
Parked(bb) == IF bb.submitter = "CALLBACK" THEN bb.cons_i # NoSlot
              ELSE Full(bb) # {}

\* The writer owns submission again.
HandBack(bb) == [bb EXCEPT !.submitter = "FN", !.cons_i = NoSlot]

\* reclaim_tx_submission() after the backend accepted slot i, or refused it.
Reclaimed(bb, i) ==
  IF Full(bb) = {} THEN HandBack(bb) ELSE [bb EXCEPT !.cons_i = Next1(i)]
NotReclaimed(bb, i) == [bb EXCEPT !.status[i] = "FULL"]

\* advance_tx_buffer(): slot i waits for the callback.
Defer(bb, i) ==
  [bb EXCEPT !.status[i] = "FULL", !.submitter = "CALLBACK", !.cons_i = i]

-----------------------------------------------------------------------------
(* The transport.                                                          *)

Current(gen) == gen = adm.gen

\* A board without admission hooks admits everything.
Revoked(a) == [valid |-> FALSE, gen |-> a.gen + 1]

\* Mutant: a running callback reserves nothing.
NoReservation == T - Len(usb)

\* lusb_submittable(), num_avail - cb_active: a running callback reserves one
\* transfer, and has taken another once it is inside submit_transfer().
Submittable ==
  T - Len(usb) - (CASE cb.at = "none" -> 0 [] cb.at = "check" -> 1 [] cb.at = "usb" -> 2)

\* Ghost bookkeeping of a submission of slot i.
Sends(i, kinds) == g' = [g EXCEPT !.sent = data[i], !.past = @ \cup kinds]

-----------------------------------------------------------------------------
(* Init: sync_init() has configured the TX stream; the worker is idle.     *)

InitialRing ==
  [status |-> [i \in Slots |-> "EMPTY"], prod_i |-> 0, cons_i |-> NoSlot,
   partial_off |-> 0, submitter |-> "FN"]

NoCall == [pc |-> "none", kind |-> "infinite", want |-> 0, flush |-> FALSE,
           idx |-> NoSlot, before |-> NoSlot, why |-> "none", res |-> "none"]

NoCb == [slot |-> NoSlot, gen |-> 0, at |-> "none"]

Init ==
  /\ b = InitialRing
  /\ data = [i \in Slots |-> 0]
  /\ usb = <<>> /\ cb = NoCb
  /\ stream = [state |-> "IDLE", error |-> "none", rejected |-> NoSlot]
  /\ worker = "IDLE" /\ err = FALSE /\ startReq = FALSE
  /\ adm = [valid |-> TRUE, gen |-> 0]
  /\ state = "CHECK_WORKER"
  /\ call = NoCall
  /\ g = [next |-> 1 % DataMod, sent |-> 0, past |-> {}, old |-> {}]
  /\ cnt = [fails |-> 0, stalls |-> 0, ends |-> 0]

-----------------------------------------------------------------------------
(* The writer: one sync_tx() call at a time (s->lock).                     *)

At(c, pc) == [c EXCEPT !.pc = pc, !.idx = NoSlot, !.before = NoSlot,
                       !.why = "none", !.res = "none"]

\* The loop of sync_tx() goes on while samples are left or a flush is due.
Looping(c) == IF c.want > 0 \/ c.flush THEN At(c, "top") ELSE NoCall

\* Entry of sync_tx(); flush is BLADERF_META_FLAG_TX_BURST_END.
StartWrite(kind, want, flush) ==
  /\ call.pc = "none"
  /\ flush => Format = "META"
  /\ call' = Looping([NoCall EXCEPT !.kind = kind, !.want = want, !.flush = flush])
  /\ UNCHANGED <<b, usbVars, threadVars, state, g, cnt>>

LoopTop ==
  /\ call.pc = "top"
  /\ \/ call.kind = "deadline" /\ call' = NoCall
     \/ call' = [call EXCEPT !.pc = "case"]
  /\ UNCHANGED <<b, usbVars, threadVars, state, g, cnt>>

\* case SYNC_STATE_CHECK_WORKER: sync_worker_get_state() consumes the error.
CheckWorker ==
  LET over == stream.state \in {"DONE", "SHUTTING_DOWN"} IN
  /\ call.pc = "case" /\ state = "CHECK_WORKER"
  /\ err' = FALSE
  /\ \/ (err \/ (worker # "IDLE" /\ over)) /\ call' = NoCall /\ UNCHANGED state
     \/ /\ ~err /\ worker = "IDLE"
        /\ state' = "START_WORKER" /\ call' = Looping(call)
     \/ /\ ~err /\ worker # "IDLE" /\ ~over
        /\ state' = "WAIT_FOR_BUFFER" /\ call' = Looping(call)
  /\ UNCHANGED <<b, usbVars, worker, startReq, adm, g, cnt>>

\* case SYNC_STATE_START_WORKER: request START, then wait for RUNNING.
StartWorker ==
  /\ call.pc = "case" /\ state = "START_WORKER"
  /\ startReq' = TRUE
  /\ call' = [call EXCEPT !.pc = "starting"]
  /\ UNCHANGED <<b, usbVars, worker, err, adm, state, g, cnt>>

WorkerStarted ==
  /\ call.pc = "starting" /\ worker # "IDLE"
  /\ state' = "WAIT_FOR_BUFFER"
  /\ call' = Looping(call)
  /\ UNCHANGED <<b, usbVars, threadVars, g, cnt>>

StartTimedOut ==
  /\ call.pc = "starting" /\ call.kind = "deadline"
  /\ call' = NoCall
  /\ UNCHANGED <<b, usbVars, threadVars, state, g, cnt>>

\* Mutant: the slot is still FULL when the lock is dropped.
ReclaimUnmarked(bb, c, why) ==
  /\ b' = bb
  /\ call' = [c EXCEPT !.pc = "submit", !.idx = OldestFull(bb), !.before = bb.cons_i,
                       !.why = why, !.res = "none"]
  /\ UNCHANGED state

\* reclaim_tx_submission() up to the submission: the oldest FULL slot is marked
\* IN_FLIGHT and buf_mgmt.lock is dropped.
Reclaim(bb, c, why) ==
  LET i == OldestFull(bb) IN
  /\ b' = [bb EXCEPT !.status[i] = "IN_FLIGHT"]
  /\ call' = [c EXCEPT !.pc = "submit", !.idx = i, !.before = bb.cons_i,
                       !.why = why, !.res = "none"]
  /\ UNCHANGED state

\* case SYNC_STATE_WAIT_FOR_BUFFER after its reclaim loop: the slot at prod_i is
\* free, the deadline is over, the stream has failed, or the writer sleeps.
WaitOrGo(bb, c) ==
  /\ b' = bb
  /\ IF bb.status[bb.prod_i] = "EMPTY"
     THEN call' = Looping(c) /\ UNCHANGED state
     ELSE \/ c.kind = "deadline" /\ call' = NoCall /\ UNCHANGED state
          \/ err /\ call' = NoCall /\ state' = "CHECK_WORKER"
          \/ ~err /\ call' = At(c, "wait") /\ UNCHANGED state

\* The loop of the case: reclaim while something is parked.
ReclaimLoop(bb, c) ==
  IF Parked(bb) /\ OldestFull(bb) # NoSlot THEN Reclaim(bb, c, "loop")
  ELSE WaitOrGo(IF Parked(bb) THEN HandBack(bb) ELSE bb, c)

WaitForBuffer ==
  /\ call.pc = "case" /\ state = "WAIT_FOR_BUFFER"
  /\ IF b.status[b.prod_i] = "EMPTY"
     THEN state' = "BUFFER_READY" /\ call' = Looping(call) /\ UNCHANGED b
     ELSE ReclaimLoop(b, call)
  /\ UNCHANGED <<usbVars, threadVars, g, cnt>>

\* wait_for_buffer() returned: the worker's error is looked at again.
WakeUp ==
  /\ call.pc = "woken"
  /\ IF err THEN call' = NoCall /\ state' = "CHECK_WORKER"
     ELSE call' = Looping(call) /\ UNCHANGED state
  /\ UNCHANGED <<b, usbVars, threadVars, g, cnt>>

\* The wait timed out: one more try at a parked buffer.
WaitExpires ==
  /\ call.pc = "wait" /\ call.kind = "deadline"
  /\ IF Parked(b) /\ OldestFull(b) # NoSlot THEN Reclaim(b, call, "late")
     ELSE /\ b' = IF Parked(b) THEN HandBack(b) ELSE b
          /\ call' = IF Parked(b) THEN Looping(call) ELSE NoCall
          /\ UNCHANGED state
  /\ UNCHANGED <<usbVars, threadVars, g, cnt>>

\* pthread condition variables may wake for no reason.
SpuriousWakeup ==
  /\ call.pc = "wait"
  /\ call' = [call EXCEPT !.pc = "woken"]
  /\ UNCHANGED <<b, usbVars, threadVars, state, g, cnt>>

\* case SYNC_STATE_BUFFER_READY
BufferReady ==
  /\ call.pc = "case" /\ state = "BUFFER_READY"
  /\ b' = [b EXCEPT !.status[b.prod_i] = "PARTIAL", !.partial_off = 0]
  /\ state' = "USING_BUFFER"
  /\ call' = Looping(call)
  /\ UNCHANGED <<usbVars, threadVars, g, cnt>>

\* The rest of advance_tx_buffer(): step prod_i and choose the next state; the
\* metadata and packet cases overwrite that state.
NextState(bb) == IF Format # "RAW" THEN "WAIT_FOR_BUFFER"
                 ELSE IF bb.status[bb.prod_i] = "EMPTY" THEN "BUFFER_READY"
                 ELSE "CHECK_WORKER"

Step(bb, c) ==
  LET s == [bb EXCEPT !.prod_i = Next1(@)] IN
  /\ b' = s
  /\ state' = NextState(s)
  /\ call' = Looping(c)

\* advance_tx_buffer() up to the submission.
Advance(bb, c) ==
  LET i == bb.prod_i
      f == [bb EXCEPT !.status[i] = "FULL"]
  IN
  IF bb.submitter = "FN"
  THEN /\ b' = [bb EXCEPT !.status[i] = "IN_FLIGHT"]
       /\ call' = [c EXCEPT !.pc = "submit", !.idx = i, !.why = "advance"]
       /\ UNCHANGED state
  ELSE IF f.cons_i # NoSlot THEN Reclaim(f, c, "parked") ELSE Step(f, c)

\* cases SYNC_STATE_USING_BUFFER, _META and SYNC_STATE_USING_PACKET_META: copy n
\* units, or close the buffer of a burst that ends, and ship a full buffer.
UsingBuffer ==
  LET room   == Units - b.partial_off
      n      == IF call.want < room THEN call.want ELSE room
      closes == call.flush /\ call.want = n
      full   == Format = "PACKET" \/ closes \/ n = room
      c == [call EXCEPT !.want = IF Format = "PACKET" THEN 0 ELSE @ - n,
                        !.flush = @ /\ ~closes]
      f == [b EXCEPT !.partial_off = IF full /\ Format # "PACKET" THEN Units
                                     ELSE IF full THEN @ ELSE @ + n]
      again == room = 0     \* a slot whose submission failed before
  IN
  /\ call.pc = "case" /\ state = "USING_BUFFER"
  /\ IF full
     THEN /\ Advance(f, c)
          /\ data' = IF again THEN data ELSE [data EXCEPT ![b.prod_i] = g.next]
          /\ g' = [g EXCEPT !.next = IF again THEN @ ELSE (@ + 1) % DataMod,
                            !.old = IF again THEN @ ELSE @ \ {b.prod_i}]
     ELSE /\ b' = f /\ call' = Looping(c)
          /\ UNCHANGED <<state, data, g>>
  /\ UNCHANGED <<usb, cb, stream, threadVars, cnt>>

\* async_submit_stream_buffer(), nonblocking: it would block unless TX is
\* admitted, the stream runs and a transfer is free; libusb may refuse it, which
\* a bladeRF 2 answers by revoking admission; the deadline may be over.
Submit ==
  LET room == adm.valid /\ stream.state = "RUNNING" /\ Submittable > 0
      crossing == IF cb.at = "none" THEN {} ELSE {"disordered"}
  IN
  /\ call.pc = "submit"
  /\ \/ /\ ~room
        /\ call' = [call EXCEPT !.pc = "submitted", !.res = "would_block"]
        /\ UNCHANGED <<usb, adm, g, cnt>>
     \/ /\ room
        /\ usb' = Append(usb, [slot |-> call.idx, gen |-> adm.gen])
        /\ Sends(call.idx, crossing)
        /\ call' = [call EXCEPT !.pc = "submitted", !.res = "ok"]
        /\ UNCHANGED <<adm, cnt>>
     \/ /\ room /\ cnt.fails < MaxFails /\ (Admission => adm.gen < MaxGen)
        /\ cnt' = [cnt EXCEPT !.fails = @ + 1]
        /\ adm' = IF Admission THEN Revoked(adm) ELSE adm
        /\ call' = [call EXCEPT !.pc = "submitted", !.res = "error"]
        /\ UNCHANGED <<usb, g>>
     \/ /\ call.kind = "deadline" /\ adm.valid /\ stream.state = "RUNNING"
        /\ call' = [call EXCEPT !.pc = "submitted", !.res = "error"]
        /\ UNCHANGED <<usb, adm, g, cnt>>
  /\ UNCHANGED <<b, data, cb, stream, worker, err, startReq, state>>

\* A buffer the backend refused for good is given back to its caller.
Refused(bb, i) == [bb EXCEPT !.status[i] = "EMPTY", !.partial_off = 0]

\* buf_mgmt.lock is taken again: advance_tx_buffer() and its caller.
AdvanceSubmitted ==
  LET i == call.idx IN
  /\ call.pc = "submitted" /\ call.why = "advance"
  /\ CASE call.res = "ok" -> Step(b, call) /\ UNCHANGED g
       [] call.res = "would_block" -> Step(Defer(b, i), call) /\ UNCHANGED g
       [] call.res = "error" ->
            /\ b' = Refused(b, i)
            /\ state' = IF Format = "RAW" THEN "BUFFER_READY" ELSE "WAIT_FOR_BUFFER"
            /\ call' = NoCall
            /\ g' = [g EXCEPT !.next = data[i]]
  /\ UNCHANGED <<usbVars, threadVars, cnt>>

\* Ghost: a callback gave the duty back while the reclaim had dropped the lock,
\* and now the buffer it was about to send stays behind.
LeftBehind ==
  IF call.res # "ok" /\ b.submitter = "FN" THEN {"disordered"} ELSE {}

\* The same for the buffer advance_tx_buffer() reclaimed from the callback.
ParkedSubmitted ==
  LET i == call.idx IN
  /\ call.pc = "submitted" /\ call.why = "parked"
  /\ CASE call.res = "ok" -> Step(Reclaimed(b, i), call)
       [] call.res = "would_block" -> Step(NotReclaimed(b, i), call)
       [] call.res = "error" ->
            /\ b' = NotReclaimed(b, i)
            /\ state' = IF Format = "RAW" THEN state ELSE "WAIT_FOR_BUFFER"
            /\ call' = NoCall
  /\ g' = [g EXCEPT !.past = @ \cup LeftBehind
             \cup (IF call.res = "error" THEN {"retained"} ELSE {})]
  /\ UNCHANGED <<usbVars, threadVars, cnt>>

\* The reclaim loop of WAIT_FOR_BUFFER ends when cons_i has not moved.
LoopSubmitted ==
  LET r == IF call.res = "ok" THEN Reclaimed(b, call.idx)
           ELSE NotReclaimed(b, call.idx)
  IN
  /\ call.pc = "submitted" /\ call.why = "loop"
  /\ IF call.res = "error" THEN b' = r /\ call' = NoCall /\ UNCHANGED state
     ELSE IF r.cons_i = call.before THEN WaitOrGo(r, call)
     ELSE ReclaimLoop(r, call)
  /\ g' = [g EXCEPT !.past = @ \cup LeftBehind]
  /\ UNCHANGED <<usbVars, threadVars, cnt>>

\* The try after a timeout turns into success only if nothing is left parked.
LateSubmitted ==
  LET r == IF call.res = "ok" THEN Reclaimed(b, call.idx)
           ELSE NotReclaimed(b, call.idx)
  IN
  /\ call.pc = "submitted" /\ call.why = "late"
  /\ b' = r
  /\ call' = IF call.res # "error" /\ r.submitter = "FN" THEN Looping(call)
             ELSE NoCall
  /\ g' = [g EXCEPT !.past = @ \cup LeftBehind]
  /\ UNCHANGED <<usbVars, threadVars, state, cnt>>

WriterStep ==
  \/ LoopTop \/ CheckWorker \/ StartWorker \/ WorkerStarted \/ StartTimedOut
  \/ WaitForBuffer \/ WakeUp \/ BufferReady \/ UsingBuffer \/ Submit
  \/ AdvanceSubmitted \/ ParkedSubmitted \/ LoopSubmitted \/ LateSubmitted

-----------------------------------------------------------------------------
(* The USB event thread: lusb_stream_cb() and tx_callback().               *)

\* Mutant: the waiting writer is not signalled.
NoWake(sig) == UNCHANGED call

\* COND_SIGNAL(&b->buf_ready): only the writer waits on it.
Wake(sig) ==
  call' = IF sig /\ call.pc = "wait" THEN [call EXCEPT !.pc = "woken"] ELSE call

Ends(error, rejected) ==
  stream' = [state |-> "SHUTTING_DOWN", error |-> error, rejected |-> rejected]

\* Mutant: the duty goes back although a buffer waits.
CallbackHandsBack(bb, i) ==
  [ring |-> HandBack([bb EXCEPT !.status[i] = "EMPTY"]), ships |-> NoSlot]

\* tx_callback(): slot i is free again; a deferred buffer is shipped, or the
\* duty to submit goes back to sync_tx().
TxCallback(bb, i) ==
  LET e == [bb EXCEPT !.status[i] = "EMPTY"] IN
  IF e.submitter = "FN" THEN [ring |-> e, ships |-> NoSlot]
  ELSE IF e.status[e.cons_i] = "FULL"
       THEN [ring |-> [e EXCEPT !.status[e.cons_i] = "IN_FLIGHT",
                                !.cons_i = Next1(@)],
             ships |-> e.cons_i]
       ELSE [ring |-> HandBack(e), ships |-> NoSlot]

Head1 == Head(usb)
Handles == worker = "LOOP" /\ cb.at = "none" /\ usb # <<>>

\* A transfer completed.  One of an older generation still frees its buffer, but
\* ends the stream and keeps the replacement for the worker to restore.
Completed ==
  LET x == Head1
      t == TxCallback(b, x.slot)
  IN
  /\ Handles /\ stream.state = "RUNNING"
  /\ usb' = Tail(usb)
  /\ b' = t.ring
  /\ IF Current(x.gen)
     THEN cb' = (IF t.ships = NoSlot THEN NoCb
                 ELSE [slot |-> t.ships, gen |-> x.gen,
                       at |-> IF Admission THEN "check" ELSE "usb"])
          /\ UNCHANGED stream
     ELSE UNCHANGED cb /\ Ends("would_block", t.ships)
  /\ g' = [g EXCEPT !.past = @
             \cup (IF b.submitter = "CALLBACK" /\ t.ships = NoSlot
                      /\ Full(t.ring) # {} THEN {"disordered"} ELSE {})]
  /\ Wake(TRUE)
  /\ UNCHANGED <<data, threadVars, state, cnt>>

\* The board has checked the replacement's timestamp (async_tx_buffer_validate()):
\* it is rejected if admission or its generation has gone meanwhile.
CallbackChecked ==
  /\ cb.at = "check"
  /\ IF adm.valid /\ Current(cb.gen)
     THEN cb' = [cb EXCEPT !.at = "usb"] /\ UNCHANGED stream
     ELSE cb' = NoCb /\ Ends("would_block", cb.slot)
  /\ UNCHANGED <<b, data, usb, threadVars, state, call, g, cnt>>

\* libusb_submit_transfer() accepts the replacement, or fails and ends the stream.
CallbackSubmit ==
  /\ cb.at = "usb"
  /\ cb' = NoCb
  /\ \/ /\ usb' = Append(usb, [slot |-> cb.slot, gen |-> cb.gen])
        /\ Sends(cb.slot, {})
        /\ UNCHANGED <<stream, cnt>>
     \/ /\ cnt.fails < MaxFails
        /\ Ends("transport", NoSlot)
        /\ cnt' = [cnt EXCEPT !.fails = @ + 1]
        /\ g' = [g EXCEPT !.past = @ \cup {"lost"}]
        /\ UNCHANGED usb
  /\ UNCHANGED <<b, data, threadVars, state, call>>

\* A transfer timed out without moving a byte: it goes to the end of the queue;
\* one of an older generation ends the stream, as does a failed resubmission.
Stalled ==
  LET x == Head1 IN
  /\ Handles /\ stream.state = "RUNNING"
  /\ cnt.stalls < MaxStalls
  /\ \/ /\ Current(x.gen)
        /\ usb' = Append(Tail(usb), x)
        /\ cnt' = [cnt EXCEPT !.stalls = @ + 1]
        /\ g' = [g EXCEPT !.past = IF Len(usb) > 1 THEN @ \cup {"disordered"} ELSE @]
        /\ UNCHANGED stream
     \/ /\ Current(x.gen) /\ cnt.fails < MaxFails
        /\ usb' = Tail(usb)
        /\ Ends("transport", NoSlot)
        /\ cnt' = [cnt EXCEPT !.stalls = @ + 1, !.fails = @ + 1]
        /\ UNCHANGED g
     \/ /\ ~Current(x.gen)
        /\ usb' = Tail(usb)
        /\ Ends("would_block", x.slot)
        /\ cnt' = [cnt EXCEPT !.stalls = @ + 1]
        /\ g' = [g EXCEPT !.past = @ \cup {"disordered"}, !.old = @ \cup {x.slot}]
  /\ UNCHANGED <<b, data, cb, threadVars, state, call>>

\* A transfer failed, was short or was cancelled while the stream ran.
TransferError ==
  /\ Handles /\ stream.state = "RUNNING"
  /\ cnt.ends < MaxEnds
  /\ cnt' = [cnt EXCEPT !.ends = @ + 1]
  /\ usb' = Tail(usb)
  /\ Ends("transport", NoSlot)
  /\ UNCHANGED <<b, data, cb, threadVars, state, call, g>>

\* While shutting down, transfers come back without a callback; then it is DONE.
Drained ==
  /\ worker = "LOOP" /\ stream.state = "SHUTTING_DOWN"
  /\ IF usb = <<>> THEN stream' = [stream EXCEPT !.state = "DONE"] /\ UNCHANGED usb
     ELSE usb' = Tail(usb) /\ UNCHANGED stream
  /\ UNCHANGED <<b, data, cb, threadVars, state, call, g, cnt>>

UsbThread == Completed \/ CallbackChecked \/ CallbackSubmit \/ Stalled \/ TransferError \/ Drained

-----------------------------------------------------------------------------
(* The worker thread.                                                      *)

\* Mutant: what an ended stream left IN_FLIGHT stays so.
FreesNothing(bb) == bb

\* Buffers an ended stream left IN_FLIGHT are free again.
FreesInFlight(bb) ==
  [bb EXCEPT !.status = [i \in Slots |->
     IF bb.status[i] = "IN_FLIGHT" THEN "EMPTY" ELSE bb.status[i]]]

\* exec_idle_state() serves START.
ExecIdleState ==
  /\ worker = "IDLE" /\ startReq
  /\ startReq' = FALSE
  /\ b' = FreesInFlight(b)
  /\ worker' = "STARTED"
  /\ g' = [g EXCEPT !.past = IF call.pc \in {"submit", "submitted"}
                             THEN @ \cup {"stolen"} ELSE @]
  /\ Wake(TRUE)
  /\ UNCHANGED <<usbVars, err, adm, state, cnt>>

\* async_run_stream() and lusb_stream(): no buffer is submitted at the start.
RunStream ==
  /\ worker = "STARTED"
  /\ worker' = "LOOP"
  /\ stream' = [state |-> "RUNNING", error |-> "none", rejected |-> NoSlot]
  /\ UNCHANGED <<b, data, usb, cb, err, startReq, adm, state, call, g, cnt>>

\* Mutant: a rejected buffer is forgotten.
RestoreNothing(bb, i) == bb

\* sync_worker_restore_rejected_tx_buffer()
Restore(bb, i) == IF i # NoSlot /\ bb.status[i] = "IN_FLIGHT" THEN Defer(bb, i) ELSE bb

RestoreRejected ==
  /\ worker = "LOOP" /\ stream.state = "DONE"
  /\ worker' = "RESTORED"
  /\ b' = Restore(b, stream.rejected)
  /\ stream' = [stream EXCEPT !.rejected = NoSlot]
  /\ Wake(b' # b)
  /\ UNCHANGED <<data, usb, cb, err, startReq, adm, state, g, cnt>>

\* The rest of exec_running_state(): the error is published and the writer woken;
\* a transport failure has revoked admission before.
PublishError ==
  LET fatal == stream.error = "transport" /\ Admission IN
  /\ worker = "RESTORED" /\ (fatal => adm.gen < MaxGen)
  /\ worker' = "ENDED"
  /\ err' = TRUE
  /\ adm' = IF fatal THEN Revoked(adm) ELSE adm
  /\ Wake(TRUE)
  /\ UNCHANGED <<b, usbVars, startReq, state, g, cnt>>

BackToIdle ==
  /\ worker = "ENDED"
  /\ worker' = "IDLE"
  /\ UNCHANGED <<b, usbVars, err, startReq, adm, state, call, g, cnt>>

Worker == ExecIdleState \/ RunStream \/ RestoreRejected \/ PublishError \/ BackToIdle

-----------------------------------------------------------------------------
(* The board.                                                              *)

\* A retune or a configuration change revokes admission.
Revoke ==
  /\ Admission /\ adm.valid /\ adm.gen < MaxGen
  /\ adm' = Revoked(adm)
  /\ UNCHANGED <<b, usbVars, worker, err, startReq, state, call, g, cnt>>

\* The monitor saw a healthy RFIC and link again.
Certify ==
  /\ Admission /\ ~adm.valid /\ adm.gen < MaxGen
  /\ adm' = [valid |-> TRUE, gen |-> adm.gen + 1]
  /\ UNCHANGED <<b, usbVars, worker, err, startReq, state, call, g, cnt>>

Application == \E kind \in Timeouts, want \in Requests, flush \in BOOLEAN :
                 StartWrite(kind, want, flush)

Next == WriterStep \/ WaitExpires \/ SpuriousWakeup \/ UsbThread \/ Worker
          \/ Revoke \/ Certify \/ Application

Spec == Init /\ [][Next]_vars

\* The threads are scheduled, and the endpoint serves its transfers.
FairSpec == /\ Spec
            /\ WF_vars(WriterStep) /\ WF_vars(UsbThread) /\ WF_vars(Worker)

-----------------------------------------------------------------------------
(* Properties.                                                             *)

Calls == [pc : {"none", "top", "case", "starting", "wait", "woken", "submit",
                "submitted"},
          kind : {"infinite", "deadline"}, want : Nat, flush : BOOLEAN,
          idx : Slots \cup {NoSlot}, before : Slots \cup {NoSlot},
          why : {"none", "advance", "parked", "loop", "late"},
          res : {"none", "ok", "would_block", "error"}]

Kinds == {"disordered", "retained", "stolen", "lost"}

\* The ring, the transport and the writer only take values the code's types allow.
TypeOK ==
  /\ b \in BufferMgmt
  /\ data \in [Slots -> Datas]
  /\ usb \in Seq(Transfers) /\ Len(usb) <= T
  /\ cb \in [slot : Slots \cup {NoSlot}, gen : 0 .. MaxGen,
             at : {"none", "check", "usb"}]
  /\ stream \in [state : StreamState, error : {"none", "would_block", "transport"},
                 rejected : Slots \cup {NoSlot}]
  /\ worker \in {"IDLE", "STARTED", "LOOP", "RESTORED", "ENDED"}
  /\ err \in BOOLEAN /\ startReq \in BOOLEAN
  /\ adm \in [valid : BOOLEAN, gen : 0 .. MaxGen]
  /\ state \in SyncState
  /\ call \in Calls
  /\ g \in [next : Datas, sent : Datas, past : SUBSET Kinds, old : SUBSET Slots]
  /\ cnt \in [fails : 0 .. MaxFails, stalls : 0 .. MaxStalls, ends : 0 .. MaxEnds]

Usual(past, kinds) == past \cap kinds = {}

InTransit == {usb[k].slot : k \in 1 .. Len(usb)} \cup ({cb.slot} \ {NoSlot})

\* The assertions of tx_callback() hold when a transfer completes: its slot is
\* still IN_FLIGHT, so no writer has filled or re-submitted it, no slot is on
\* USB twice, and a callback told to ship knows where to look.
TxOwnership ==
  Usual(g.past, {"retained", "stolen"}) =>
    /\ \A i \in InTransit : b.status[i] = "IN_FLIGHT"
    /\ \A j, k \in 1 .. Len(usb) : usb[j].slot = usb[k].slot => j = k
    /\ \A k \in 1 .. Len(usb) : usb[k].slot # cb.slot
    /\ b.submitter = "CALLBACK" => b.cons_i # NoSlot

\* No slot leaks: while the stream runs, an IN_FLIGHT slot is on USB, in the hands
\* of a callback or of the writer, also after streams that ended with buffers out.
NoLeakedSlot ==
  stream.state = "RUNNING" /\ worker = "LOOP" /\ Usual(g.past, {"stolen"}) =>
    \A i \in Slots : b.status[i] = "IN_FLIGHT" =>
      \/ i \in InTransit
      \/ call.pc \in {"submit", "submitted"} /\ call.idx = i

Submits == Len(usb') > Len(usb)
Sent    == data[usb'[Len(usb')].slot]

\* Buffers reach USB in the order they were written, none twice and none left out,
\* whoever submits them, also across streams that a retune or a failed transfer
\* ended.  The exceptions: the writer and a callback that overtook one another, a
\* stalled transfer that was queued again (disordered), and a replacement libusb
\* refused, whose samples are lost with the stream.
InOrderSubmission ==
  [][Submits /\ Usual(g'.past, Kinds) => Sent = (g.sent + 1) % DataMod]_vars

\* The duty is a chain of completions: while the stream runs and a transfer is
\* out, the buffer the callback was told to ship does leave the ring.
DeferredShipped ==
  \A i \in Slots :
    (b.submitter = "CALLBACK" /\ b.cons_i = i /\ b.status[i] = "FULL" /\ usb # <<>>)
      ~> (b.status[i] # "FULL" \/ stream.state # "RUNNING")

Stranded == call.pc = "wait" /\ usb = <<>> /\ b.status[b.prod_i] # "EMPTY"

\* A write returns, unless it ends up asleep while its slot is taken and nothing is
\* on USB to free it: a completion is never missed by a writer whose slot it freed.
WriteProgress == (call.pc # "none") ~> (call.pc = "none" \/ Stranded)

\* Claim (sync_tx(): "Do not start waiting while the ring is in a state no callback
\* can get it out of"): a write without a timeout returns.
WriteReturns == (call.pc # "none") ~> (call.pc = "none")

\* Claim (advance_tx_buffer(): "Then try to ship the oldest deferred buffer
\* ourselves"): while the stream runs, buffers reach USB in the order written.
AlwaysInOrder ==
  [][Submits /\ Usual(g'.past, {"retained", "stolen", "lost"})
       => Sent = (g.sent + 1) % DataMod]_vars

\* Claim (lusb_stream_cb(): "Do not replay it after a retune/recovery"): a buffer
\* that stalled in an older admission generation is not submitted again.
NoReplay == [][Submits => usb'[Len(usb')].slot \notin g.old]_vars

=============================================================================
