----------------------------- MODULE AsyncStream -----------------------------
(***************************************************************************)
(* One asynchronous stream of libbladeRF on the libusb back end, from      *)
(* bladerf_stream() to bladerf_deinit_stream().  Its threads are           *)
(*                                                                         *)
(*   - the run thread, inside bladerf_stream(): it fills the transfer pool *)
(*     and then pumps libusb's events until the stream is DONE,            *)
(*   - the event thread, which runs lusb_stream_cb() for a transfer that   *)
(*     came back: the run thread itself or, when another stream or a       *)
(*     control call pumps the same libusb context, that other thread,      *)
(*   - submitters, inside bladerf_submit_stream_buffer(),                  *)
(*   - the thread that stops the stream and the one that frees it,         *)
(*   - the board, which revokes and restores TX admission and drains the   *)
(*     TX path after a fault.                                              *)
(*                                                                         *)
(* One action is one critical section of stream->lock.  Every place where  *)
(* the code drops that lock is a place between two actions: around         *)
(* libusb_submit_transfer(), around the application's RX callback, around  *)
(* the TX timestamp check.  Samples, lengths and error codes are left out. *)
(***************************************************************************)
EXTENDS Integers, FiniteSets

CONSTANTS
  N,            \* num_transfers
  Directions,   \* the directions a stream may have: subset of {"RX", "TX"}
  Submitters,   \* threads that call bladerf_submit_stream_buffer()
  SharedContext,\* another thread pumps the events of this libusb context
  EarlySubmit,  \* submissions may come between RUNNING and lusb_stream()
  JoinFirst,    \* the owner joins its submitters before it frees the stream
  MaxRuns,      \* bound: calls of bladerf_stream()
  MaxSubmits,   \* bound: calls of bladerf_submit_stream_buffer()
  MaxFaults,    \* bound: transfers, submissions and event calls that fail
  MaxGen,       \* bound: TX admission generations
  MaxFlushes    \* bound: TX faults that require the path to be drained

ASSUME StreamAssumption ==
  /\ N \in Nat \ {0}
  /\ Directions \subseteq {"RX", "TX"}
  /\ Submitters \cap {"run", "cb"} = {}
  /\ {SharedContext, EarlySubmit, JoinFirst} \subseteq BOOLEAN
  /\ {MaxRuns, MaxSubmits, MaxFaults, MaxGen, MaxFlushes} \subseteq Nat

Transfers == 0 .. N-1
Users     == {"run", "cb"} \cup Submitters     \* the callers of submit_transfer()
Gens      == 0 .. MaxGen

VARIABLES
  dir,   \* the direction of stream->layout
  s,     \* struct bladerf_stream and lusb_stream_data, under stream->lock
  win,   \* each caller of submit_transfer(): where it is around libusb, and its slot
  run,   \* the thread in bladerf_stream(): [at, k, gen, was]
  cb,    \* the lusb_stream_cb() in progress: [at, t, gen, by, retire]
  sub,   \* the submitters: [at, gen]
  owner, \* bladerf_deinit_stream(): "out", "asked", "waiting", "freed"
  adm,   \* the board: [open, gen, flush, leases, idle]
  used   \* how much of each bound is used up

vars == <<dir, s, win, run, cb, sub, owner, adm, used>>

TX == dir = "TX"

NoCb   == [at |-> "none", t |-> 0, gen |-> 0, by |-> "run", retire |-> FALSE]
NoWin  == [at |-> "no", t |-> 0]
OutRun == [at |-> "out", k |-> 0, gen |-> 0, was |-> "IDLE"]
OutSub == [at |-> "out", gen |-> 0]

Avail(S)    == {t \in Transfers : S.x[t].status = "AVAIL"}
AllAvail(S) == Avail(S) = Transfers

-----------------------------------------------------------------------------
(* What the back end does to its state while it holds stream->lock.        *)

\* The state and the completion flag libusb checks move together.
mark_stream_done(S) == [S EXCEPT !.state = "DONE", !.done = TRUE]

\* A transfer between its slot being taken and libusb_submit_transfer() is
\* unknown to libusb: NOT_FOUND, and it is marked all the same.
CancelNow(S) ==
  [S EXCEPT !.x = [t \in Transfers |->
     IF S.x[t].status # "IN_FLIGHT" THEN S.x[t]
     ELSE [S.x[t] EXCEPT !.status = "CANCEL_PENDING",
                         !.usb = IF @ = "queued" THEN "cancelling" ELSE @]]]

\* A TX transfer is first left to finish by itself, for one transfer timeout.
cancel_all_transfers(S) ==
  IF ~TX \/ S.deadline = "passed" THEN CancelNow(S)
  ELSE [S EXCEPT !.deadline = "armed"]

\* The end of every path that may find the stream shutting down.
Settle(S) ==
  IF S.state # "SHUTTING_DOWN" THEN S
  ELSE IF AllAvail(S) THEN mark_stream_done(S)
  ELSE cancel_all_transfers(S)

Stopping(S)       == [S EXCEPT !.state = "SHUTTING_DOWN"]
Failed(S)         == [S EXCEPT !.error = TRUE]

\* lusb_submittable(): a free transfer beyond those running callbacks reserve.
lusb_submittable(S) == Cardinality(Avail(S)) > S.cb_active

\* lusb_shutdown_stream(), called by async_request_stream_shutdown().
lusb_shutdown_stream(S) == Settle([Stopping(S) EXCEPT !.shut = TRUE])

\* A submitted BLADERF_STREAM_SHUTDOWN; also what the first fill does with one.
ShutdownBuffer(S) == IF AllAvail(S) THEN mark_stream_done(S) ELSE Stopping(S)

\* get_next_available_transfer() from S.i on.
NextAvail(S) ==
  LET d == CHOOSE d \in Transfers :
             /\ (S.i + d) % N \in Avail(S)
             /\ \A e \in Transfers : e < d => (S.i + e) % N \notin Avail(S)
  IN  (S.i + d) % N

-----------------------------------------------------------------------------
(* The board's TX admission and the leases of the transfers.               *)

\* Mutant: a latched fault does not refuse leases.
LeaseDuringFlush(gen) == adm.gen = gen /\ adm.open

lease_acquire(gen) == adm.gen = gen /\ ~adm.flush /\ adm.open

Lease(n) == IF TX THEN [adm EXCEPT !.leases = @ + n] ELSE adm

-----------------------------------------------------------------------------
(* submit_transfer(): take a slot and a lease, drop the lock, call libusb. *)

\* It fails before it drops the lock: no slot, or no lease.
Refuses(S, gen) == Avail(S) = {} \/ (TX /\ ~lease_acquire(gen))

\* What it leaves behind when it fails there.
AfterRefusal(S) == IF Avail(S) = {} THEN S ELSE [S EXCEPT !.i = NextAvail(S)]

\* The slot is taken and the lock is dropped.
Takes(u, S, gen) ==
  LET t == NextAvail(S)
  IN  /\ s' = [S EXCEPT !.x[t] = [status |-> "IN_FLIGHT", usb |-> "none",
                                  gen |-> gen, lease |-> TX],
                        !.i = (t + 1) % N]
      /\ win' = [win EXCEPT ![u] = [at |-> "before", t |-> t]]
      /\ adm' = Lease(1)

\* libusb takes the transfer; the caller has yet to take the lock again.
LibusbAccepts(u) ==
  /\ win[u].at = "before"
  /\ s' = [s EXCEPT !.x[win[u].t].usb = "queued"]
  /\ win' = [win EXCEPT ![u].at = "after"]
  /\ UNCHANGED <<dir, run, cb, sub, owner, adm, used>>

\* The caller is not, or no longer, around libusb.
NotTaken(u) == win' = [win EXCEPT ![u] = NoWin]

Fault == used.faults < MaxFaults /\ used' = [used EXCEPT !.faults = @ + 1]

\* libusb refuses: the caller takes the lock and undoes what it recorded.
LibusbRefuses(u) == win[u].at = "before" /\ Fault /\ NotTaken(u)

Rollback(u) == [s EXCEPT !.x[win[u].t].status = "AVAIL",
                         !.x[win[u].t].lease = FALSE, !.i = win[u].t]

-----------------------------------------------------------------------------
(* fail_rx_stream(): the application is told once, without the lock.       *)

Tell(S) == [S EXCEPT !.told = TRUE]

-----------------------------------------------------------------------------
(* The run thread.                                                         *)

RunAt(at) == run' = [OutRun EXCEPT !.at = at]

\* bladerf_stream() counts itself in, unless the stream is being freed.
StreamCall ==
  /\ run.at = "out" /\ used.runs < MaxRuns /\ ~s.deinit
  /\ s' = [s EXCEPT !.calls = @ + 1]
  /\ used' = [used EXCEPT !.runs = @ + 1]
  /\ RunAt("called")
  /\ UNCHANGED <<dir, win, cb, sub, owner, adm>>

\* The board refuses the format or layout, or async_run_stream() finds
\* deinit_requested: the call ends without a run.
StreamRefused ==
  /\ run.at = "called"
  /\ RunAt("returned")
  /\ UNCHANGED <<dir, s, win, cb, sub, owner, adm, used>>

\* async_run_stream() publishes RUNNING, and drops the lock.
async_run_stream ==
  /\ run.at = "called" /\ ~s.deinit
  /\ s' = [s EXCEPT !.error = FALSE, !.shut = FALSE, !.state = "RUNNING"]
  /\ RunAt("published")
  /\ UNCHANGED <<dir, win, cb, sub, owner, adm, used>>

\* lusb_stream(): a shutdown that came first ends the run at once.
StreamLate ==
  /\ run.at = "published" /\ s.state # "RUNNING"
  /\ s' = mark_stream_done(s)
  /\ RunAt("ended")
  /\ UNCHANGED <<dir, win, cb, sub, owner, adm, used>>

\* Mutant: done_flag of the previous run survives.
ResetKeepsDone(S) == [S EXCEPT !.cb_active = 0, !.told = FALSE, !.deadline = "none"]

\* What lusb_stream() resets for this run.
ResetForRun(S) == [S EXCEPT !.done = FALSE, !.cb_active = 0, !.told = FALSE,
                            !.deadline = "none"]

\* A submission of the first fill failed: everything in flight is cancelled
\* and the fill ends.  A TX stream stays RUNNING.
FillFails(S) ==
  IF TX \/ S.told
  THEN /\ s' = cancel_all_transfers(IF TX THEN Failed(S) ELSE Stopping(Failed(S)))
       /\ RunAt("loop")
  ELSE s' = Tell(Failed(S)) /\ RunAt("told fill")

FillSubmits(S, k, gen) ==
  IF Refuses(S, gen)
  THEN FillFails(AfterRefusal(S)) /\ NotTaken("run") /\ UNCHANGED adm
  ELSE Takes("run", S, gen) /\ run' = [OutRun EXCEPT !.at = "fill", !.k = k]

FillStops(S) == s' = S /\ RunAt("loop") /\ NotTaken("run") /\ UNCHANGED adm

\* The first fill with the lock held, from transfer k on.  The TX callback
\* may have no data for some of the transfers; it may end the stream; its
\* buffer is refused at once or checked without the lock.
FillFrom(S, k) ==
  \/ (k = N \/ TX) /\ FillStops(S)
  \/ ~TX /\ k < N /\ FillSubmits(S, k, 0)
  \/ TX /\ k < N /\ FillStops(ShutdownBuffer(S))
  \/ TX /\ k < N /\ ~adm.open /\ FillStops(ShutdownBuffer(Failed(S)))
  \/ /\ TX /\ adm.open
     /\ \E j \in k .. N-1 :
          run' = [at |-> "check", k |-> j, gen |-> adm.gen, was |-> S.state]
     /\ s' = S /\ NotTaken("run") /\ UNCHANGED adm

\* lusb_stream() starts its run and the first fill.
StreamBegin ==
  /\ run.at = "published" /\ s.state = "RUNNING"
  /\ FillFrom(ResetForRun(s), 0)
  /\ UNCHANGED <<dir, cb, sub, owner, used>>

\* Mutant: the state is not looked at again after the check.
GenerationOnly(was, gen) == adm.gen = gen

\* async_tx_buffer_validate() has the lock again: the state and the
\* generation it found before must still be there.
StillValid(was, gen) == s.state = was /\ adm.gen = gen

\* The check of the fill's buffer fails (for its timestamp too), or the
\* buffer is submitted.
FillChecked ==
  /\ run.at = "check"
  /\ \/ FillStops(ShutdownBuffer(Failed(s)))
     \/ StillValid(run.was, run.gen) /\ FillSubmits(s, run.k, run.gen)
  /\ UNCHANGED <<dir, cb, sub, owner, used>>

\* The fill goes on with the next transfer, whatever the state has become.
FillSubmitted ==
  /\ run.at = "fill" /\ win["run"].at = "after"
  /\ FillFrom(s, run.k + 1)
  /\ UNCHANGED <<dir, cb, sub, owner, used>>

FillRefused ==
  /\ LibusbRefuses("run")
  /\ FillFails(Rollback("run")) /\ adm' = Lease(-1)
  /\ UNCHANGED <<dir, cb, sub, owner>>

\* The application has been told of the failure: the fill's, the loop's.
RunTold ==
  /\ \/ run.at = "told fill" /\ s' = cancel_all_transfers(Stopping(s))
     \/ run.at = "told loop" /\ s' = Stopping(s)
  /\ RunAt("loop")
  /\ UNCHANGED <<dir, win, cb, sub, owner, adm, used>>

\* The event loop, between two calls of libusb.
Looping == run.at = "loop" /\ (cb.at = "none" \/ cb.by # "run")

\* It settles a shutdown that no completion will settle.
LoopSettle ==
  /\ Looping /\ s.state = "SHUTTING_DOWN"
  /\ s' = Settle(s)
  /\ UNCHANGED <<dir, win, run, cb, sub, owner, adm, used>>

\* libusb's event call fails.
LoopError ==
  /\ Looping /\ s.state \in {"IDLE", "RUNNING"} /\ Fault
  /\ IF TX \/ s.told THEN s' = Stopping(Failed(s)) /\ UNCHANGED run
                     ELSE s' = Tell(Failed(s)) /\ RunAt("told loop")
  /\ UNCHANGED <<dir, win, cb, sub, owner, adm>>

LoopExit ==
  /\ Looping /\ s.state = "DONE"
  /\ RunAt("ended")
  /\ UNCHANGED <<dir, s, win, cb, sub, owner, adm, used>>

\* The board learns of a TX transport failure and revokes admission.
Revoked == adm.gen < MaxGen /\ adm' = [adm EXCEPT !.open = FALSE, !.gen = @ + 1]

\* async_run_stream() has its result; some errors are transport failures.
RunEnds ==
  /\ run.at = "ended"
  /\ UNCHANGED adm \/ (TX /\ s.error /\ Revoked)
  /\ RunAt("returned")
  /\ UNCHANGED <<dir, s, win, cb, sub, owner, used>>

\* Mutant: an early return forgets the count.
ReturnsUncounted ==
  /\ run.at = "returned"
  /\ run' = OutRun
  /\ UNCHANGED <<dir, s, win, cb, sub, owner, adm, used>>

\* bladerf_stream() counts itself out.
StreamReturns ==
  /\ run.at = "returned"
  /\ s' = [s EXCEPT !.calls = @ - 1]
  /\ run' = OutRun
  /\ UNCHANGED <<dir, win, cb, sub, owner, adm, used>>

-----------------------------------------------------------------------------
(* lusb_stream_cb().                                                       *)

\* How a transfer may come back.  A TX transfer that timed out is a "stall"
\* when it moved no byte.  Faults are bounded while the stream is running.
Results(t) ==
  {"full"} \cup (IF s.x[t].usb = "cancelling" THEN {"cancelled"} ELSE {})
  \cup {"short", "timeout", "error"} \cup (IF TX THEN {"stall"} ELSE {})

\* Mutant: the lease of the transfer that came back is never released.
CbKeepsLease(S, retire) ==
  /\ s' = [S EXCEPT !.cb_active = IF @ # 0 THEN @ - 1 ELSE 0]
  /\ cb' = NoCb
  /\ UNCHANGED adm

\* The callback is over: its reserve and the lease it retires are given up.
CbEnds(S, retire) ==
  /\ s' = [S EXCEPT !.cb_active = IF @ # 0 THEN @ - 1 ELSE 0]
  /\ cb' = NoCb
  /\ adm' = IF retire THEN Lease(-1) ELSE adm

\* The transfer is free again, and a TX callback reserves one.
Returned(t) ==
  [s EXCEPT !.x[t] = [@ EXCEPT !.status = "AVAIL", !.usb = "none", !.lease = FALSE],
            !.cb_active = IF TX THEN @ + 1 ELSE @]

\* The transfer failed.  A timeout while a shutdown is wanted is no error, nor
\* is the cancellation of a stream that is shutting down.
CbError(S, result, C) ==
  LET quiet == \/ result \in {"timeout", "stall"} /\ s.shut
               \/ result = "cancelled" /\ s.state # "RUNNING"
  IN  IF quiet THEN CbEnds(Settle(Stopping(S)), C.retire)
      ELSE IF TX \/ S.told THEN CbEnds(Settle(Failed(Stopping(S))), C.retire)
      ELSE s' = Tell(Stopping(S)) /\ cb' = [C EXCEPT !.at = "told"] /\ UNCHANGED adm

\* A replacement could not be submitted.
CbFails(S, C) ==
  IF TX \/ S.told THEN CbEnds(Settle(Stopping(Failed(S))), C.retire)
  ELSE s' = Tell(Failed(S)) /\ cb' = [C EXCEPT !.at = "told fail"] /\ UNCHANGED adm

\* Submit a replacement (at "next") or the same buffer again (at "again").
CbSubmits(S, gen, at, C) ==
  Takes("cb", S, gen) /\ cb' = [C EXCEPT !.at = at]

\* A TX transfer completed: the application's callback runs with the lock.
CbTx(S, C) ==
  \/ C.gen # adm.gen /\ CbEnds(Settle(Stopping(Failed(S))), C.retire)
  \/ C.gen = adm.gen /\ CbEnds(Settle(Stopping(S)), C.retire)
  \/ C.gen = adm.gen /\ CbEnds(S, C.retire)
  \/ C.gen = adm.gen /\ ~adm.open /\ CbEnds(Settle(Stopping(Failed(S))), C.retire)
  \/ /\ C.gen = adm.gen /\ adm.open
     /\ s' = S /\ cb' = [C EXCEPT !.at = "check"] /\ UNCHANGED adm

\* libusb hands transfer t back to the callback, in the run thread's event
\* loop or in another thread that pumps the same context.
lusb_stream_cb(t, by, result) ==
  LET S    == Returned(t)
      C    == [at |-> "none", t |-> t, gen |-> s.x[t].gen, by |-> by,
               retire |-> s.x[t].lease]
      runs == s.state = "RUNNING"
      back == TX /\ result = "stall" /\ runs
  IN  /\ cb.at = "none" /\ s.x[t].usb # "none" /\ result \in Results(t)
      /\ IF by = "run" THEN run.at = "loop" /\ ~s.done ELSE SharedContext
      /\ IF runs /\ result \notin {"full", "cancelled"} THEN Fault ELSE UNCHANGED used
      /\ CASE back /\ C.gen # adm.gen ->
                CbEnds(Settle(Stopping(Failed(S))), C.retire) /\ NotTaken("cb")
           [] back /\ C.gen = adm.gen /\ ~Refuses(S, C.gen) ->
                CbSubmits(S, C.gen, "again", C)
           [] back /\ C.gen = adm.gen /\ Refuses(S, C.gen) ->
                CbError(AfterRefusal(S), result, C) /\ NotTaken("cb")
           [] ~back /\ result \notin {"full", "short"} ->
                CbError(S, result, C) /\ NotTaken("cb")
           [] result \in {"full", "short"} /\ ~runs ->
                CbEnds(Settle(S), C.retire) /\ NotTaken("cb")
           [] TX /\ result = "short" /\ runs ->
                CbEnds(Settle(Stopping(Failed(S))), C.retire) /\ NotTaken("cb")
           [] TX /\ result = "full" /\ runs -> CbTx(S, C) /\ NotTaken("cb")
           [] ~TX /\ result \in {"full", "short"} /\ runs ->
                /\ s' = S /\ cb' = [C EXCEPT !.at = "app"]
                /\ NotTaken("cb") /\ UNCHANGED adm
      /\ UNCHANGED <<dir, run, sub, owner>>

\* The application's RX callback returned: to a stream that has stopped
\* meanwhile, SHUTDOWN, NO_DATA, or a buffer.
CbApp ==
  /\ cb.at = "app"
  /\ \/ CbEnds(Settle(Stopping(s)), FALSE) /\ NotTaken("cb")
     \/ s.state = "RUNNING" /\ CbEnds(s, FALSE) /\ NotTaken("cb")
     \/ /\ s.state = "RUNNING"
        /\ IF Refuses(s, 0) THEN CbFails(s, cb) /\ NotTaken("cb")
                            ELSE CbSubmits(s, 0, "next", cb)
  /\ UNCHANGED <<dir, run, sub, owner, used>>

\* The check of the TX replacement is over: it failed, or the replacement
\* goes out with the generation of the transfer that came back.
CbChecked ==
  /\ cb.at = "check"
  /\ \/ CbEnds(Settle(Stopping(Failed(s))), cb.retire) /\ NotTaken("cb")
     \/ /\ StillValid("RUNNING", cb.gen)
        /\ IF Refuses(s, s.x[cb.t].gen)
           THEN CbFails(AfterRefusal(s), cb) /\ NotTaken("cb")
           ELSE CbSubmits(s, s.x[cb.t].gen, "next", cb)
  /\ UNCHANGED <<dir, run, sub, owner, used>>

\* The submission is back from libusb.  After a requeue the callback returns
\* at once and leaves a shutdown to the event loop.
CbSubmitted ==
  /\ win["cb"].at = "after" /\ NotTaken("cb")
  /\ CbEnds(IF cb.at = "again" THEN s ELSE Settle(s), cb.retire)
  /\ UNCHANGED <<dir, run, sub, owner, used>>

CbRefused ==
  LET S == Rollback("cb")
      both == IF cb.retire THEN Lease(-2) ELSE Lease(-1)
  IN  /\ LibusbRefuses("cb")
      /\ \/ /\ TX
            /\ s' = [Settle(Stopping(IF cb.at = "again" /\ s.shut THEN S ELSE Failed(S)))
                       EXCEPT !.cb_active = IF @ # 0 THEN @ - 1 ELSE 0]
            /\ cb' = NoCb /\ adm' = both
         \/ ~TX /\ CbFails(S, cb)
      /\ UNCHANGED <<dir, run, sub, owner>>

\* The application has been told of a failure.
CbTold ==
  /\ \/ cb.at = "told" /\ CbEnds(Settle(Failed(s)), FALSE)
     \/ cb.at = "told fail" /\ CbEnds(Settle(Stopping(s)), FALSE)
  /\ UNCHANGED <<dir, win, run, sub, owner, used>>

-----------------------------------------------------------------------------
(* async_submit_stream_buffer() and lusb_submit_stream_buffer().           *)

Goes(p, at) == sub' = [sub EXCEPT ![p].at = at]
Leaves(p)   == sub' = [sub EXCEPT ![p] = OutSub]
InTime      == run.at # "published" \/ EarlySubmit

\* The call has passed the checks of async_submit_stream_buffer(): they wait
\* or return without touching the stream.
SubmitCall(p) ==
  /\ sub[p].at = "out" /\ used.submits < MaxSubmits /\ s.state = "RUNNING"
  /\ owner = "out" \/ ~JoinFirst
  /\ TX => adm.open
  /\ sub' = [sub EXCEPT ![p] = [at |-> "room", gen |-> adm.gen]]
  /\ used' = [used EXCEPT !.submits = @ + 1]
  /\ UNCHANGED <<dir, s, win, run, cb, owner, adm>>

\* It has no room and does not, or no longer, wait.
SubmitGivesUp(p) ==
  /\ sub[p].at = "room" /\ ~lusb_submittable(s)
  /\ Leaves(p)
  /\ UNCHANGED <<dir, s, win, run, cb, owner, adm, used>>

\* There is room: the state and the admission are checked after the wait.
SubmitRoom(p) ==
  /\ sub[p].at = "room" /\ lusb_submittable(s) /\ InTime
  /\ IF s.state # "RUNNING" \/ s.deinit \/ (TX /\ ~adm.open)
     THEN Leaves(p) /\ UNCHANGED <<s, win, adm>>
     ELSE IF TX THEN Goes(p, "check") /\ UNCHANGED <<s, win, adm>>
     ELSE Goes(p, "put") /\ Takes(p, s, 0)
  /\ UNCHANGED <<dir, run, cb, owner, used>>

SubmitChecked(p) ==
  /\ sub[p].at = "check" /\ InTime
  /\ \/ Leaves(p) /\ UNCHANGED <<s, win, adm>>
     \/ /\ StillValid("RUNNING", sub[p].gen)
        /\ IF Refuses(s, sub[p].gen)
           THEN Leaves(p) /\ s' = AfterRefusal(s) /\ UNCHANGED <<win, adm>>
           ELSE Goes(p, "put") /\ Takes(p, s, sub[p].gen)
  /\ UNCHANGED <<dir, run, cb, owner, used>>

SubmitReturns(p) ==
  /\ sub[p].at = "put" /\ win[p].at = "after" /\ NotTaken(p)
  /\ Leaves(p)
  /\ UNCHANGED <<dir, s, run, cb, owner, adm, used>>

\* libusb refused: a TX stream goes on and the board learns of the failure; an
\* RX stream ends.
SubmitRefused(p) ==
  LET S == Rollback(p)
  IN  /\ sub[p].at = "put" /\ LibusbRefuses(p)
      /\ \/ /\ TX /\ adm.gen < MaxGen
            /\ s' = S /\ Leaves(p)
            /\ adm' = [Lease(-1) EXCEPT !.open = FALSE, !.gen = @ + 1]
         \/ /\ ~TX /\ S.told
            /\ s' = cancel_all_transfers(Stopping(Failed(S)))
            /\ Leaves(p) /\ UNCHANGED adm
         \/ /\ ~TX /\ ~S.told
            /\ s' = Tell(Failed(S)) /\ Goes(p, "told") /\ UNCHANGED adm
      /\ UNCHANGED <<dir, run, cb, owner>>

SubmitTold(p) ==
  /\ sub[p].at = "told"
  /\ s' = cancel_all_transfers(Stopping(s)) /\ Leaves(p)
  /\ UNCHANGED <<dir, win, run, cb, owner, adm, used>>

-----------------------------------------------------------------------------
(* Stopping and freeing the stream.                                        *)

Running(S) == S.state \in {"RUNNING", "SHUTTING_DOWN"}

\* async_request_stream_shutdown(), by the owner of a running stream.
async_request_stream_shutdown ==
  /\ owner = "out" /\ Running(s)
  /\ s' = lusb_shutdown_stream(s)
  /\ UNCHANGED <<dir, win, run, cb, sub, owner, adm, used>>

\* bladerf_submit_stream_buffer(BLADERF_STREAM_SHUTDOWN), in any state.
SubmitShutdown ==
  /\ owner = "out"
  /\ s' = ShutdownBuffer(s)
  /\ UNCHANGED <<dir, win, run, cb, sub, owner, adm, used>>

\* async_deinit_stream(): no run may start from here on.
DeinitAsks ==
  /\ owner = "out" /\ owner' = "asked"
  /\ JoinFirst => \A p \in Submitters : sub[p].at = "out"
  /\ s' = [s EXCEPT !.deinit = TRUE]
  /\ UNCHANGED <<dir, win, run, cb, sub, adm, used>>

\* It requests the shutdown of what is running.
DeinitStops ==
  /\ owner = "asked" /\ owner' = "waiting"
  /\ s' = IF Running(s) THEN lusb_shutdown_stream(s) ELSE s
  /\ UNCHANGED <<dir, win, run, cb, sub, adm, used>>

\* Mutant: only the state is waited for.
TerminalState(S) == S.state \in {"DONE", "IDLE"}

\* Terminal: transfers, buffers, lock and stream are freed.
Terminal(S) == S.state \in {"DONE", "IDLE"} /\ S.calls = 0

DeinitFrees ==
  /\ owner = "waiting" /\ Terminal(s) /\ owner' = "freed"
  /\ UNCHANGED <<dir, s, win, run, cb, sub, adm, used>>

-----------------------------------------------------------------------------
(* The board, and time.                                                    *)

\* TX admission is revoked, or certified again: each makes a new generation.
Revoke ==
  /\ TX /\ adm.open /\ Revoked
  /\ UNCHANGED <<dir, s, win, run, cb, sub, owner, used>>

Certify ==
  /\ TX /\ ~adm.open /\ adm.gen < MaxGen
  /\ adm' = [adm EXCEPT !.open = TRUE, !.gen = @ + 1]
  /\ UNCHANGED <<dir, s, win, run, cb, sub, owner, used>>

\* A TX fault is latched: the path must be drained before it opens again.
LatchFault ==
  /\ TX /\ used.flushes < MaxFlushes
  /\ adm' = [adm EXCEPT !.open = FALSE, !.flush = TRUE, !.idle = FALSE]
  /\ used' = [used EXCEPT !.flushes = @ + 1]
  /\ UNCHANGED <<dir, s, win, run, cb, sub, owner>>

\* bladerf2_wait_tx_async_idle() returns 0: the recovery clears the FIFO.
TxIdle ==
  /\ adm.flush /\ ~adm.idle /\ adm.leases = 0
  /\ adm' = [adm EXCEPT !.idle = TRUE]
  /\ UNCHANGED <<dir, s, win, run, cb, sub, owner, used>>

\* The recovery commits; admission has yet to be certified.
CommitFlush ==
  /\ adm.idle /\ adm.gen < MaxGen
  /\ adm' = [adm EXCEPT !.flush = FALSE, !.idle = FALSE, !.open = FALSE, !.gen = @ + 1]
  /\ UNCHANGED <<dir, s, win, run, cb, sub, owner, used>>

\* The time a TX transfer is given to finish by itself has passed.
DeadlinePasses ==
  /\ s.deadline = "armed"
  /\ s' = [s EXCEPT !.deadline = "passed"]
  /\ UNCHANGED <<dir, win, run, cb, sub, owner, adm, used>>

-----------------------------------------------------------------------------
Init ==
  /\ dir \in Directions
  /\ s = [state |-> "IDLE", error |-> FALSE, shut |-> FALSE, deinit |-> FALSE,
          calls |-> 0, done |-> FALSE, told |-> FALSE, deadline |-> "none",
          i |-> 0, cb_active |-> 0,
          x |-> [t \in Transfers |-> [status |-> "AVAIL", usb |-> "none",
                                      gen |-> 0, lease |-> FALSE]]]
  /\ win = [u \in Users |-> NoWin]
  /\ run = OutRun /\ cb = NoCb
  /\ sub = [p \in Submitters |-> OutSub]
  /\ owner = "out"
  /\ adm = [open |-> TRUE, gen |-> 0, flush |-> FALSE, leases |-> 0, idle |-> FALSE]
  /\ used = [runs |-> 0, submits |-> 0, faults |-> 0, flushes |-> 0]

RunThread ==
  \/ StreamCall \/ StreamRefused \/ async_run_stream \/ StreamLate \/ StreamBegin
  \/ FillChecked \/ FillSubmitted \/ FillRefused \/ RunTold
  \/ LoopSettle \/ LoopError \/ LoopExit \/ RunEnds \/ StreamReturns

Callback ==
  \/ \E t \in Transfers, by \in {"run", "other"} : \E r \in Results(t) :
       lusb_stream_cb(t, by, r)
  \/ CbApp \/ CbChecked \/ CbSubmitted \/ CbRefused \/ CbTold

Submitter(p) ==
  \/ SubmitCall(p) \/ SubmitGivesUp(p) \/ SubmitRoom(p) \/ SubmitChecked(p)
  \/ SubmitReturns(p) \/ SubmitRefused(p) \/ SubmitTold(p)

Owner == async_request_stream_shutdown \/ SubmitShutdown
         \/ DeinitAsks \/ DeinitStops \/ DeinitFrees

Board == Revoke \/ Certify \/ LatchFault \/ TxIdle \/ CommitFlush \/ DeadlinePasses

\* The stream object is gone.
Freed == owner = "freed" /\ UNCHANGED vars

Next ==
  \/ /\ owner # "freed"
     /\ \/ RunThread \/ Callback \/ Owner \/ Board
        \/ \E u \in Users : LibusbAccepts(u)
        \/ \E p \in Submitters : Submitter(p)
  \/ Freed

Spec == Init /\ [][Next]_vars

\* What the threads do without being called again.
RunSteps ==
  \/ StreamRefused \/ async_run_stream \/ StreamLate \/ StreamBegin
  \/ FillChecked \/ FillSubmitted \/ RunTold
  \/ LoopSettle \/ LoopExit \/ RunEnds \/ StreamReturns

SubmitSteps(p) ==
  SubmitRoom(p) \/ SubmitChecked(p) \/ SubmitReturns(p) \/ SubmitTold(p)

\* Threads are scheduled, libusb's calls return, every transfer comes back (at
\* the latest when its timeout expires) and the event loop runs its callback.
Fairness ==
  /\ WF_vars(RunSteps) /\ WF_vars(Callback)
  /\ \A u \in Users : WF_vars(LibusbAccepts(u))
  /\ \A p \in Submitters : WF_vars(SubmitSteps(p))
  /\ WF_vars(DeinitStops) /\ WF_vars(DeinitFrees) /\ WF_vars(DeadlinePasses)

FairSpec == Spec /\ Fairness

-----------------------------------------------------------------------------
\* Types; at most one bladerf_stream() call is counted, and at most one callback.
TypeOK ==
  /\ dir \in {"RX", "TX"}
  /\ s \in [state : {"IDLE", "RUNNING", "SHUTTING_DOWN", "DONE"},
            error : BOOLEAN, shut : BOOLEAN, deinit : BOOLEAN, calls : 0 .. 1,
            done : BOOLEAN, told : BOOLEAN,
            deadline : {"none", "armed", "passed"},
            i : Transfers, cb_active : 0 .. 1,
            x : [Transfers -> [status : {"AVAIL", "IN_FLIGHT", "CANCEL_PENDING"},
                               usb : {"none", "queued", "cancelling"},
                               gen : Gens, lease : BOOLEAN]]]
  /\ win \in [Users -> [at : {"no", "before", "after"}, t : Transfers]]
  /\ run \in [at : {"out", "called", "published", "check", "fill", "told fill",
                    "told loop", "loop", "ended", "returned"},
              k : Transfers, gen : Gens,
              was : {"IDLE", "RUNNING", "SHUTTING_DOWN", "DONE"}]
  /\ cb \in [at : {"none", "app", "check", "next", "again", "told", "told fail"},
             t : Transfers, gen : Gens, by : {"run", "other"}, retire : BOOLEAN]
  /\ sub \in [Submitters -> [at : {"out", "room", "check", "put", "told"}, gen : Gens]]
  /\ owner \in {"out", "asked", "waiting", "freed"}
  /\ adm \in [open : BOOLEAN, gen : Gens, flush : BOOLEAN,
              leases : 0 .. N + 1, idle : BOOLEAN]

\* async_deinit_stream() frees the stream only when nobody is left in it: no
\* transfer with libusb, no callback, no thread in bladerf_stream() and no
\* submitter (async.c: "wait until callbacks and transfer storage are drained").
SafeFree ==
  owner = "freed" =>
    /\ \A t \in Transfers : s.x[t].usb = "none"
    /\ run.at = "out" /\ cb.at = "none"
    /\ \A p \in Submitters : sub[p].at = "out"

\* Every TX transfer taken and not retired holds exactly one lease: a lost one
\* blocks the fault recovery for good, a double release opens it too early.
LeaseExact ==
  adm.leases = Cardinality({t \in Transfers : s.x[t].lease})
               + (IF cb.retire THEN 1 ELSE 0)

\* While the recovery clears the TX FIFO, after bladerf2_wait_tx_async_idle(),
\* libusb has no TX transfer, none is on its way there, and no completion is
\* still producing a replacement.
FlushBarrier ==
  adm.idle =>
    /\ \A t \in Transfers : s.x[t].usb = "none"
    /\ \A u \in Users : win[u].at # "before"
    /\ cb.at = "none"

\* A stream that is DONE submits nothing: its event loop has ended, or is
\* about to, and nobody would reap the transfer.
DoneIsFinal ==
  [][s.state = "DONE" /\ s'.state = "DONE" => Avail(s) \subseteq Avail(s')]_vars

\* bladerf_deinit_stream() returns, whatever the run thread, the callbacks and
\* the submitters were doing when it was called (async.c: "waiting for terminal
\* state" has no deadline).
DeinitEnds == owner = "asked" ~> owner = "freed"

=============================================================================
