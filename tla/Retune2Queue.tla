---------------------------- MODULE Retune2Queue ----------------------------
(***************************************************************************)
(* The scheduled-retune queues of the bladeRF2 NIOS firmware               *)
(* (pkt_retune2.c): one ring of requests per direction, the worker pass    *)
(* that uploads a profile, arms the time tamer, recalls the profile and    *)
(* polls the jobs this starts, the interrupt of the tamer, and CLEAR,      *)
(* which the host repeats until it is told the queue is gone.  The time    *)
(* tamer (time_tamer.vhd) is modelled by what the firmware can see of it:  *)
(* sticky bits, a cancel toggle, two watchdogs, a clock that may stop and  *)
(* a timestamp domain that metadata may hold in reset.                      *)
(*                                                                         *)
(* The main loop is one thread: packet handlers run between worker passes  *)
(* (turn = "idle") or from the service hook inside an SPI call the worker  *)
(* is in (call # NoCall).  The interrupt runs between any two steps; the   *)
(* CPU takes it before its next step, so it is part of Fire.               *)
(***************************************************************************)
EXTENDS Integers, FiniteSets

CONSTANTS Slots,        \* RFFE fastlock slots
          Directions,   \* the directions the host uses: RX, TX or both
          QueueMax,     \* RETUNE2_QUEUE_MAX
          MaxRequests,  \* bound: requests the host ever gets accepted
          MaxClears,    \* bound: CLEAR calls the host ever begins
          MaxFaults,    \* bound: RFIC faults
          MaxStalls,    \* bound: stops of a timestamp clock
          MaxResets     \* bound: times metadata is switched off

Modules  == {"RX", "TX"}
None     == "none"
Requests == 1 .. MaxRequests

ASSUME SizesAssumption ==
    /\ Directions \subseteq Modules /\ None \notin Slots
    /\ QueueMax \in Nat \ {0} /\ MaxRequests \in Nat /\ MaxClears \in Nat
    /\ MaxFaults \in Nat /\ MaxStalls \in Nat /\ MaxResets \in Nat

VARIABLES
    q,        \* per direction: the ring and the state of a CLEAR
    tamer,    \* per direction: the time tamer
    job,      \* which hardware jobs the firmware has under way
    sel,      \* per direction: rffe_selected, the slot the synthesizer uses
    fault,    \* rfic_command_state_faulted()
    turn,     \* where the worker pass is
    call,     \* the SPI call the worker is in, if a hook can run inside it
    host,     \* what the host waits for
    used,     \* accepted requests, and the bounds spent so far
    out,      \* history: completion records of each request
    due,      \* history: requests whose own compare fired
    covered   \* history: requests a CLEAR of the host found in its queue

vars == <<q, tamer, job, sel, fault, turn, call, host, used, out,
          due, covered>>

(***************************************************************************)
(* The ring.                                                               *)
(***************************************************************************)
Indices == 0 .. QueueMax - 1

EntryStates == {"INVALID", "NEW", "LOAD_PENDING", "LOAD_FAILED",
                "SCHEDULE_PENDING", "SCHEDULED", "CANCEL_PENDING", "READY",
                "GAIN_TABLE_PENDING", "PLL_PENDING", "TXQ_PENDING"}

\* An entry whose compare fired and whose request a hardware job is serving.
JobStates == {"GAIN_TABLE_PENDING", "PLL_PENDING", "TXQ_PENDING"}

\* A cell outside the queue: nothing reads it before the next enqueue.
Blank == [id |-> 0, st |-> "INVALID", slot |-> None, imm |-> FALSE,
          gt |-> FALSE, res |-> FALSE, rep |-> TRUE,
          cseen |-> FALSE, cpend |-> FALSE, cack |-> 0]

Fresh(id, slot, gt) ==
    [Blank EXCEPT !.id = id, !.st = "NEW", !.slot = slot, !.gt = gt,
                  !.rep = FALSE]

EmptyQueue(ack) ==
    [ent |-> [i \in Indices |-> Blank], rem |-> 0, cnt |-> 0,
     clr |-> FALSE, done |-> FALSE, defer |-> FALSE,
     cpend |-> FALSE, cseen |-> FALSE, cack |-> ack]

Idx(Q, k) == (Q.rem + k) % QueueMax
Live(Q)   == {Idx(Q, k) : k \in 0 .. Q.cnt - 1}
Ids(Q)    == {Q.ent[i].id : i \in Live(Q)}

\* peek_next_retune(); Blank stands for NULL.
HeadOf(Q) == IF Q.cnt = 0 THEN Blank ELSE Q.ent[Q.rem]

\* Mutant of Dequeue: remove_idx is not advanced.
DequeueStays(Q) == [Q EXCEPT !.ent[Q.rem] = Blank, !.cnt = @ - 1]

\* dequeue_retune()
Dequeue(Q) ==
    IF Q.cnt = 0 THEN Q
    ELSE [Q EXCEPT !.ent[Q.rem] = Blank, !.rem = Idx(Q, 1), !.cnt = @ - 1]

\* The ring after enqueue_retune_with_identity() found room for it.
Append1(Q, e) ==
    [Q EXCEPT !.ent[Idx(Q, Q.cnt)] = e, !.cnt = @ + 1, !.done = FALSE]

\* reset_queue()
ResetQueue(Q) == EmptyQueue(Q.cack)

\* reset_queue(); q->clear_complete = true;
Cleared(Q) == [ResetQueue(Q) EXCEPT !.done = TRUE]

\* What retires the head once its job ended: a pending CLEAR takes the rest.
Retired(Q) == IF Q.clr THEN Cleared(Q) ELSE Dequeue(Q)

\* find_profile_load_pending()
Loading(Q) == {i \in Live(Q) : Q.ent[i].st = "LOAD_PENDING"}

\* profile_slot_compare_owned()
CompareOwned(e) ==
    e.st \in JobStates \cup {"SCHEDULE_PENDING", "SCHEDULED",
                             "CANCEL_PENDING", "LOAD_PENDING", "READY"}

(***************************************************************************)
(* The time tamer.  fsm is where its interrupt machine is; sack, fired,    *)
(* sfail, cfail and stalled are the status bits, tog the cancel toggle;    *)
(* held is ts_reset, asserted while metadata is switched off.              *)
(***************************************************************************)
TamerIdle == [fsm |-> "idle", cmp |-> 0, sack |-> FALSE, fired |-> FALSE,
              sfail |-> FALSE, swait |-> FALSE, cfail |-> FALSE, tog |-> 0,
              clk |-> TRUE, stalled |-> FALSE, held |-> FALSE]

\* Mutant of Armed: the sticky bits of the last compare are left standing.
ArmedSticky(t, id) ==
    [t EXCEPT !.fsm = IF @ = "idle" THEN "arming" ELSE @,
              !.cmp = IF t.fsm = "idle" THEN id ELSE @]

\* tamer_schedule_request(), its clock not stalled: the machine takes the
\* command only where it waits for one, the sticky bits clear in any case.
Armed(t, id) ==
    [t EXCEPT !.sack = FALSE, !.fired = FALSE, !.sfail = FALSE,
              !.swait = TRUE, !.stalled = FALSE,
              !.fsm = IF @ = "idle" THEN "arming" ELSE @,
              !.cmp = IF t.fsm = "idle" THEN id ELSE @]

\* tamer_cancel_request(), its clock not stalled.  A domain held in reset has
\* no compare, and acknowledges at once.
CancelRequested(t) ==
    [t EXCEPT !.fsm = IF t.held THEN "idle" ELSE "cancel",
              !.tog = IF t.held THEN 1 - @ ELSE @, !.sack = FALSE, !.fired = FALSE,
              !.sfail = FALSE, !.swait = FALSE, !.cfail = FALSE,
              !.stalled = FALSE]

(***************************************************************************)
(* One direction together with what both share, for the functions below.   *)
(***************************************************************************)
View(m) == [q |-> q[m], t |-> tamer[m], job |-> job, out |-> out]

Put(m, s) ==
    /\ q' = [q EXCEPT ![m] = s.q]
    /\ tamer' = [tamer EXCEPT ![m] = s.t]
    /\ job' = s.job
    /\ out' = s.out

\* Mutant of Fail: completion_reported is not looked at.
FailAgain(s, i) == [s EXCEPT !.out[s.q.ent[i].id].fail = @ + 1]

\* record_retune2_entry_failure(): one record per entry, whatever fails it.
Fail(s, i) ==
    IF s.q.ent[i].rep THEN s
    ELSE [s EXCEPT !.q.ent[i].rep = TRUE,
                   !.out[s.q.ent[i].id].fail = @ + 1]

\* publish_retune2_success()
Publish(s, i) == [s EXCEPT !.out[s.q.ent[i].id].ok = @ + 1]

\* adi_fastlock_load_cancel()
LoadCancel(s, m) == IF s.job.load = m THEN [s EXCEPT !.job.load = None] ELSE s

\* The entry keeps the compare until its cancellation is acknowledged.
ToCancel(s, i) ==
    [s EXCEPT !.q.ent[i].st = "CANCEL_PENDING",
              !.q.ent[i].cseen = FALSE, !.q.ent[i].cpend = FALSE]

RequestCancel(s, i) ==
    [s EXCEPT !.q.ent[i].cpend = TRUE, !.q.ent[i].cseen = TRUE,
              !.q.ent[i].cack = s.t.tog, !.t = CancelRequested(s.t)]

\* Mutant of RequestClearCancel: the toggle is sampled after the request.
RequestClearCancelLate(s) ==
    [s EXCEPT !.q.cpend = TRUE, !.q.cseen = TRUE,
              !.q.cack = CancelRequested(s.t).tog, !.t = CancelRequested(s.t)]

RequestClearCancel(s) ==
    [s EXCEPT !.q.cpend = TRUE, !.q.cseen = TRUE, !.q.cack = s.t.tog,
              !.t = CancelRequested(s.t)]

\* cancel_nonhead_profile_upload()
CancelStaged(s, m) ==
    LET staged == Loading(s.q) \ {s.q.rem}
    IN  IF staged = {} THEN s
        ELSE LET i == CHOOSE j \in staged : TRUE
             IN  [Fail(LoadCancel(s, m), i) EXCEPT
                      !.q.ent[i].st = "LOAD_FAILED"]

Answered(s, r) == [s |-> s, answer |-> r]

\* Mutant of ClearCompare: the queue is reset, its compare left armed.
ClearAtOnce(s, again) == Answered([s EXCEPT !.q = Cleared(s.q)], "done")

\* clear_queue_async() once only the compare, or a cancel, is left to wait for.
ClearCompare(s, again) ==
    LET i == s.q.rem
        e == HeadOf(s.q)
        r == IF s.t.stalled \/ s.t.cfail THEN "failed" ELSE "pending"
        mine == IF again \/ e.st = "CANCEL_PENDING" THEN s ELSE ToCancel(s, i)
    IN  CASE s.q.cnt = 0 /\ ~again ->
               Answered(IF s.t.stalled
                        THEN [s EXCEPT !.q.cpend = FALSE, !.q.cseen = FALSE]
                        ELSE RequestClearCancel(s), r)
          [] s.q.cnt = 0 /\ again ->
               Answered(IF /\ ~s.t.stalled
                           /\ s.t.cfail \/ (~s.q.cpend /\ s.q.cseen)
                        THEN RequestClearCancel(s) ELSE s, r)
          [] s.q.cnt > 0 /\ ~again ->
               Answered(IF /\ ~s.t.stalled
                           /\ s.t.cfail \/ ~mine.q.ent[i].cpend
                        THEN RequestCancel(mine, i) ELSE mine, r)
          [] OTHER ->
               Answered(IF /\ ~s.t.stalled
                           /\ \/ s.t.cfail
                              \/ /\ e.st = "CANCEL_PENDING"
                                 /\ ~e.cpend /\ e.cseen
                        THEN RequestCancel(s, i) ELSE s, r)

\* clear_queue_async()
ClearQueue(s, m) ==
    LET again == s.q.clr
        s1 == [s EXCEPT !.q.clr = TRUE]
        s2 == CancelStaged(s1, m)
        e  == HeadOf(s.q)
        Over(x) == Answered([x EXCEPT !.q = Cleared(x.q)], "done")
    IN  CASE s.q.done -> Answered([s EXCEPT !.q.done = FALSE], "done")
          [] ~s.q.done /\ e.st = "LOAD_FAILED" -> Over(s1)
          [] ~s.q.done /\ e.st \in JobStates -> Answered(s2, "pending")
          [] ~s.q.done /\ ((e.imm /\ e.st = "READY") \/ e.st = "LOAD_PENDING") ->
               Over(Fail(LoadCancel(s2, m), s.q.rem))
          [] OTHER -> ClearCompare(s2, again)

\* fail_queue_for_rfic_fault()
FailQueue(s, m) ==
    LET hit == {i \in Live(s.q) : ~s.q.ent[i].rep}
        s1  == [s EXCEPT
                  !.q.ent = [i \in Indices |->
                       [s.q.ent[i] EXCEPT !.rep = @ \/ i \in hit]],
                  !.out = [r \in Requests |->
                       [s.out[r] EXCEPT !.fail =
                            IF \E i \in hit : s.q.ent[i].id = r
                            THEN @ + 1 ELSE @]]]
        s2  == CancelStaged(s1, m)
        e   == HeadOf(s.q)
    IN  CASE e.st \in JobStates -> s2
          [] e.st \in {"SCHEDULE_PENDING", "SCHEDULED", "CANCEL_PENDING"} ->
               ClearQueue(s2, m).s
          [] OTHER -> [LoadCancel(s2, m) EXCEPT !.q = ResetQueue(s2.q)]

(***************************************************************************)
(* Requests of the host: it waits for a CLEAR to be answered, and for a    *)
(* NOW to end, unless its own deadline passes first.                       *)
(***************************************************************************)
NoCall == [at |-> None, m |-> None, i |-> 0, ret |-> None, hook |-> FALSE]
Free   == [at |-> "free", m |-> None]

\* rfic_command_owns_device() || rfic_tx_quad_retune_owner(), RETUNE2's part:
\* a gain-table load is not in it.
Owned(j) == j.load # None \/ j.recall # None \/ j.txq

\* A packet is handled between passes, or by the hook: once in an SPI call.
Handling ==
    \/ turn = "idle" /\ call = NoCall /\ UNCHANGED call
    \/ call # NoCall /\ ~call.hook /\ call' = [call EXCEPT !.hook = TRUE]

\* pkt_retune2() for a timestamp: accepted into the queue's tail.  A domain
\* held in reset has no time to compare it with.
Schedule(m, slot, gt) ==
    /\ host.at = "free" /\ used.req < MaxRequests
    /\ Handling
    /\ ~fault /\ ~tamer[m].held /\ ~q[m].clr /\ q[m].cnt < QueueMax
    /\ used' = [used EXCEPT !.req = @ + 1]
    /\ q' = [q EXCEPT ![m] =
                Append1(@, Fresh(used.req + 1, slot, gt /\ m = "RX"))]
    /\ UNCHANGED <<tamer, job, sel, fault, turn, host, out, due,
                   covered>>

\* pkt_retune2() for a timestamp, refused: a full queue forgets a clear that
\* completed, one that is being cleared does not.
ScheduleRefused(m) ==
    /\ host.at = "free" /\ Handling
    /\ ~fault /\ ~tamer[m].held /\ ~q[m].clr /\ q[m].cnt = QueueMax
    /\ q' = [q EXCEPT ![m].done = FALSE]
    /\ UNCHANGED <<tamer, job, sel, fault, turn, host, used, out,
                   due, covered>>

\* pkt_retune2() for NOW: only into two empty queues and an RFIC nobody owns.
\* resident is profile_already_in_target_slot.
Now(m, slot, gt, resident) ==
    /\ host.at = "free" /\ used.req < MaxRequests
    /\ turn = "idle" /\ call = NoCall
    /\ ~fault /\ ~Owned(job) /\ ~q[m].clr
    /\ \A n \in Modules : q[n].cnt = 0
    /\ used' = [used EXCEPT !.req = @ + 1]
    /\ q' = [q EXCEPT ![m] = Append1(@,
                [Fresh(used.req + 1, slot, gt /\ m = "RX") EXCEPT
                     !.imm = TRUE, !.res = resident,
                     !.st = IF resident THEN "READY" ELSE "LOAD_PENDING"])]
    /\ job' = IF resident THEN job ELSE [job EXCEPT !.load = m]
    /\ host' = [at |-> "now", m |-> m]
    /\ UNCHANGED <<tamer, sel, fault, turn, call, out, due, covered>>

\* A CLEAR packet: only noted while a job owns the RFIC (the hook's branch,
\* pkt_retune2_defer_clear), else clear_queue_async() at once.
ClearPacket(m) ==
    /\ Handling
    /\ covered' = covered \cup Ids(q[m])
    /\ IF Owned(job)
       THEN /\ q' = [q EXCEPT ![m].defer = TRUE]
            /\ host' = [at |-> "clear", m |-> m]
            /\ UNCHANGED <<tamer, job, out>>
       ELSE LET r == ClearQueue(View(m), m)
            IN  /\ Put(m, r.s)
                /\ host' = IF r.answer = "pending"
                           THEN [at |-> "clear", m |-> m] ELSE Free
    /\ UNCHANGED <<sel, fault, turn, due>>

Clear(m) ==
    /\ host.at = "free" /\ used.clears < MaxClears
    /\ used' = [used EXCEPT !.clears = @ + 1]
    /\ ClearPacket(m)

\* nios_retune_clear_wait() asks again after a "pending" answer.
ClearAgain ==
    /\ host.at = "clear"
    /\ ClearPacket(host.m)
    /\ UNCHANGED used

\* The host's wait ends: its deadline, far longer than a worker pass, or the
\* record of its NOW.
HostReturns ==
    /\ host.at # "free"
    /\ host.at = "clear" => ~q[host.m].defer
    /\ host' = Free
    /\ UNCHANGED <<q, tamer, job, sel, fault, turn, call, used, out,
                   due, covered>>

(***************************************************************************)
(* The worker pass, pkt_retune2_work().                                    *)
(***************************************************************************)
\* Where the pass goes on after perform_work(): it returns early only for a
\* load or a recall, after TX also for a TX quadrature calibration.
After(ret, j) ==
    CASE ret = "rx" /\ j.load = None /\ j.recall = None -> "tx"
      [] ret = "tx" /\ j.load = None /\ j.recall = None /\ ~j.txq -> "pre"
      [] OTHER -> "idle"

\* The pass goes on to the head after it gave a job of this queue up.
HeadTurn(m) == IF m = "RX" THEN "headRX" ELSE "headTX"

WorkUnchanged == UNCHANGED <<fault, host, used, due, covered>>

\* perform_work() leaves direction m as s, the pass goes on.
Step(m, ret, s) ==
    /\ Put(m, s)
    /\ turn' = After(ret, s.job)
    /\ WorkUnchanged

\* A fault has work to do in a queue: an entry without a record, or a head
\* that no job holds.
FaultPending(m) ==
    /\ fault /\ q[m].cnt > 0 /\ ~q[m].clr
    /\ \/ \E i \in Live(q[m]) : ~q[m].ent[i].rep
       \/ HeadOf(q[m]).st \notin JobStates
       \/ Loading(q[m]) # {}

\* The pass's first lines are done: no deferred CLEAR, no fault to act on.
Settled ==
    /\ turn = "idle" /\ call = NoCall
    /\ \A m \in Modules : ~q[m].defer /\ ~FaultPending(m)

DeferredClear(m) ==
    /\ turn = "idle" /\ call = NoCall /\ q[m].defer
    /\ Put(m, ClearQueue([View(m) EXCEPT !.q.defer = FALSE], m).s)
    /\ UNCHANGED <<sel, turn, call>> /\ WorkUnchanged

FaultedQueue(m) ==
    /\ turn = "idle" /\ call = NoCall
    /\ \A n \in Modules : ~q[n].defer
    /\ FaultPending(m)
    /\ Put(m, FailQueue(View(m), m))
    /\ UNCHANGED <<sel, turn, call>> /\ WorkUnchanged

\* perform_work(m) is next, and what the pass does after it.
Working(m, ret) ==
    /\ call = NoCall
    /\ \/ turn = "tx" /\ m = "TX" /\ ret = "tx"
       \/ turn = HeadTurn(m) /\ ret = "end"
       \/ /\ Settled
          /\ \/ job.gt /\ m = "RX" /\ ret = "end"
             \/ ~job.gt /\ job.load = None /\ job.recall = m /\ ret = "end"
                /\ q[m].cnt > 0
             \/ ~job.gt /\ ~Owned(job) /\ m = "RX" /\ ret = "rx"
             \/ ~job.gt /\ job.load = None /\ job.recall = None /\ job.txq
                /\ m = "TX" /\ ret = "end"

\* perform_work() on an empty queue: the cancel of a CLEAR that found it so.
WorkEmpty(m, ret) ==
    LET s == View(m)
        Q == s.q
    IN  /\ Q.cnt = 0
        /\ Step(m, ret,
             CASE ~Q.clr -> s
               [] Q.clr /\ s.t.stalled ->
                    [s EXCEPT !.q.cpend = FALSE, !.q.cseen = FALSE]
               [] Q.clr /\ ~s.t.stalled /\ Q.cpend /\ s.t.tog # Q.cack ->
                    [s EXCEPT !.q.cpend = FALSE, !.q.clr = FALSE,
                              !.q.done = TRUE]
               [] Q.clr /\ ~s.t.stalled /\ Q.cpend /\ s.t.tog = Q.cack
                    /\ s.t.cfail -> [s EXCEPT !.q.cpend = FALSE,
                                              !.q.cseen = TRUE]
               [] Q.clr /\ ~s.t.stalled /\ ~Q.cpend /\ ~Q.cseen ->
                    RequestClearCancel(s)
               [] OTHER -> s)
        /\ UNCHANGED <<sel, call>>

\* Mutant of FailHead: the head leaves without a record.
DropHead(s, i) == [s EXCEPT !.q = Dequeue(s.q)]

\* The head's failure is on record and it leaves the queue.
FailHead(s, i) == LET f == Fail(s, i) IN [f EXCEPT !.q = Dequeue(f.q)]

\* Past its upload: arm the tamer.  The timestamp cannot be read, it passed
\* meanwhile, or the compare is requested; a stalled clock refuses that.
Arm(m, ret, s, i) ==
    \/ Step(m, ret, FailHead(s, i))
    \/ /\ ~s.t.held
       /\ Step(m, ret, IF s.t.stalled THEN ToCancel(Fail(s, i), i)
                       ELSE [s EXCEPT !.q.ent[i].st = "SCHEDULE_PENDING",
                                      !.t = Armed(s.t, s.q.ent[i].id)])

\* adi_fastlock_load_start() and what perform_work() does with its answer.
LoadOrArm(m, ret, s, i) ==
    \/ Owned(s.job) /\ Step(m, ret, FailHead(s, i))
    \/ ~Owned(s.job) /\ s.q.ent[i].res /\ Arm(m, ret, s, i)
    \/ /\ ~Owned(s.job) /\ ~s.q.ent[i].res
       /\ Step(m, ret, [s EXCEPT !.q.ent[i].st = "LOAD_PENDING",
                                 !.job.load = m])

\* profile_upload_hits_selected() has to ask the chip, over SPI.
MustAsk(m, e) == sel[m] = e.slot /\ ~e.res

InCall(at, m, ret) ==
    /\ call' = [at |-> at, m |-> m, i |-> q[m].rem, ret |-> ret,
                hook |-> FALSE]
    /\ UNCHANGED <<q, tamer, job, out, turn>> /\ WorkUnchanged

WorkNew(m, ret) ==
    LET i == q[m].rem
    IN  /\ HeadOf(q[m]).st = "NEW"
        /\ IF MustAsk(m, q[m].ent[i]) THEN InCall("new", m, ret) /\ UNCHANGED sel
           ELSE LoadOrArm(m, ret, View(m), i) /\ UNCHANGED <<sel, call>>

\* The chip runs from the slot (or the read failed), or no longer does.
NewAnswered ==
    /\ call.at = "new"
    /\ LET m == call.m
       IN  \/ Step(m, call.ret, FailHead(View(m), call.i)) /\ UNCHANGED sel
           \/ /\ LoadOrArm(m, call.ret, View(m), call.i)
              /\ \E x \in (Slots \cup {None}) \ {sel[m]} :
                     sel' = [sel EXCEPT ![m] = x]
    /\ call' = NoCall

WorkLoadFailed(m, ret) ==
    /\ HeadOf(q[m]).st = "LOAD_FAILED"
    /\ Step(m, ret, [View(m) EXCEPT !.q = Dequeue(q[m])])
    /\ UNCHANGED <<sel, call>>

WorkSchedulePending(m, ret) ==
    LET s == View(m)
        i == s.q.rem
    IN  /\ HeadOf(s.q).st = "SCHEDULE_PENDING"
        /\ Step(m, ret,
             CASE s.t.sfail -> ToCancel(Fail(s, i), i)
               [] ~s.t.sfail /\ s.t.sack ->
                    [s EXCEPT !.q.ent[i].st =
                        IF s.t.fired THEN "READY" ELSE "SCHEDULED"]
               [] ~s.t.sfail /\ ~s.t.sack /\ s.t.stalled ->
                    ToCancel(Fail(s, i), i)
               [] OTHER -> s)
        /\ UNCHANGED <<sel, call>>

WorkScheduled(m, ret) ==
    LET s == View(m)
        i == s.q.rem
    IN  /\ HeadOf(s.q).st = "SCHEDULED"
        /\ Step(m, ret,
             CASE s.t.fired -> [s EXCEPT !.q.ent[i].st = "READY"]
               [] ~s.t.fired /\ s.t.stalled -> ToCancel(Fail(s, i), i)
               [] OTHER -> s)
        /\ UNCHANGED <<sel, call>>

\* The compare is owned until the tamer's toggle says it is disarmed.
WorkCancelPending(m, ret) ==
    LET s == View(m)
        i == s.q.rem
        e == s.q.ent[i]
    IN  /\ HeadOf(s.q).st = "CANCEL_PENDING"
        /\ Step(m, ret,
             CASE s.t.stalled -> [s EXCEPT !.q.ent[i].cseen = FALSE,
                                           !.q.ent[i].cpend = FALSE]
               [] ~s.t.stalled /\ e.cpend /\ s.t.tog # e.cack ->
                    [s EXCEPT !.q = Retired(s.q)]
               [] ~s.t.stalled /\ e.cpend /\ s.t.tog = e.cack /\ s.t.cfail ->
                    [s EXCEPT !.q.ent[i].cpend = FALSE,
                              !.q.ent[i].cseen = TRUE]
               [] ~s.t.stalled /\ ~e.cpend /\ ~e.cseen -> RequestCancel(s, i)
               [] OTHER -> s)
        /\ UNCHANGED <<sel, call>>

\* A job of the head ended: with a record, and the head is retired.
Ended(s) == [s EXCEPT !.q = Retired(s.q)]

\* The head is READY: the gain table first, whose start does no I/O, then the
\* preconditions of profile_activate(), then the recall's setup write.
WorkReady(m, ret) ==
    LET s == View(m)
        i == s.q.rem
    IN  /\ HeadOf(s.q).st = "READY"
        /\ \/ /\ HeadOf(s.q).gt
              /\ Step(m, ret, [s EXCEPT !.job.gt = TRUE,
                                 !.q.ent[i].st = "GAIN_TABLE_PENDING"])
              /\ UNCHANGED <<sel, call>>
           \/ Step(m, ret, FailHead(s, i)) /\ UNCHANGED <<sel, call>>
           \/ /\ ~fault /\ job.recall = None
              /\ sel' = [sel EXCEPT ![m] = s.q.ent[i].slot]
              /\ InCall("ready", m, ret)

\* The setup write of adi_fastlock_recall_start() returned.  A CLEAR in the
\* hook may have emptied the queue: then the entry's new state is nobody's,
\* and the recall has no request.
ReadyAnswered ==
    LET m == call.m
        s == View(m)
        started == [s EXCEPT !.job.recall = m]
    IN  /\ call.at = "ready"
        /\ \/ Step(m, call.ret, FailHead(s, call.i))
           \/ Step(m, call.ret,
                   IF call.i \in Live(s.q)
                   THEN [started EXCEPT !.q.ent[call.i].st = "PLL_PENDING"]
                   ELSE started)
        /\ call' = NoCall
        /\ UNCHANGED sel

\* rfic_poll_gain_table_for_retune(): it goes on, it loaded, it failed.
WorkGainTable(m, ret) ==
    LET s == View(m)
        i == s.q.rem
        over == [s EXCEPT !.job.gt = FALSE, !.q.ent[i].gt = FALSE]
    IN  /\ HeadOf(s.q).st = "GAIN_TABLE_PENDING"
        /\ \/ Step(m, ret, s)
           \/ Step(m, ret, IF s.q.clr THEN Ended(Fail(over, i))
                           ELSE [over EXCEPT !.q.ent[i].st = "READY"])
           \/ Step(m, ret, Ended(Fail(over, i)))
        /\ UNCHANGED <<sel, call>>

\* adi_fastlock_recall_poll() and, once locked, the rest of
\* profile_activate(): for TX it may leave a quadrature calibration running.
WorkPll(m, ret) ==
    LET s == View(m)
        i == s.q.rem
        over == [s EXCEPT !.job.recall = None]
    IN  /\ HeadOf(s.q).st = "PLL_PENDING"
        /\ \/ job.recall = m /\ Step(m, ret, s)
           \/ Step(m, ret, Ended(Fail(IF job.recall = m THEN over ELSE s, i)))
           \/ /\ job.recall = m /\ ~fault
              /\ Step(m, ret, Ended(Publish(over, i)))
           \/ /\ job.recall = m /\ ~fault /\ m = "TX"
              /\ Step(m, ret, [over EXCEPT !.job.txq = TRUE,
                                           !.q.ent[i].st = "TXQ_PENDING"])
        /\ UNCHANGED <<sel, call>>

\* rfic_poll_tx_quad_calibration_for_retune().  The fault a failure may latch
\* is RficFault, right after.
WorkTxq(m, ret) ==
    LET s == View(m)
        i == s.q.rem
        over == [s EXCEPT !.job.txq = FALSE]
    IN  /\ HeadOf(s.q).st = "TXQ_PENDING"
        /\ \/ Step(m, ret, s)
           \/ Step(m, ret, Ended(Publish(over, i)))
           \/ Step(m, ret, Ended(Fail(over, i)))
        /\ UNCHANGED <<sel, call>>

\* perform_profile_load_owner(): an upload is under way for m.
LoadOwner(m) ==
    LET s == View(m)
        staged == Loading(s.q)
        i == CHOOSE j \in staged : TRUE
        over == [s EXCEPT !.job.load = None]
        failed == [Fail(over, i) EXCEPT !.q.ent[i].st = "LOAD_FAILED"]
    IN  /\ Settled /\ ~job.gt /\ job.load = m
        /\ CASE staged = {} -> Put(m, over) /\ UNCHANGED turn
             [] staged # {} /\ s.q.clr ->
                  Put(m, ClearQueue(s, m).s) /\ UNCHANGED turn
             [] staged # {} /\ ~s.q.clr /\ i # s.q.rem
                /\ HeadOf(s.q).st \notin {"SCHEDULE_PENDING", "SCHEDULED"} ->
                  /\ Put(m, [over EXCEPT !.q.ent[i].st = "NEW"])
                  /\ turn' = HeadTurn(m)
             [] OTHER ->
                  /\ \/ Put(m, s)
                     \/ Put(m, failed)
                     \/ Put(m, [over EXCEPT
                            !.q.ent[i].res = TRUE,
                            !.q.ent[i].st = IF s.q.ent[i].imm
                                            THEN "READY" ELSE "NEW"])
                  /\ UNCHANGED turn
        /\ UNCHANGED <<sel, call>> /\ WorkUnchanged

\* A recall whose queue was emptied: polled to its end, recorded for nobody.
OrphanRecall(m) ==
    /\ Settled /\ ~job.gt /\ job.load = None
    /\ job.recall = m /\ q[m].cnt = 0
    /\ \/ UNCHANGED <<job, turn>>
       \/ job' = [job EXCEPT !.recall = None] /\ turn' = HeadTurn(m)
    /\ UNCHANGED <<q, tamer, out, sel, call>> /\ WorkUnchanged

(***************************************************************************)
(* profile_preload_next(): while the head's compare is armed, upload the   *)
(* first later profile whose slot nobody needs.                            *)
(***************************************************************************)
\* Mutant of SlotsInUse: only the slot the synthesizer runs from is spared.
SlotsSelected(m) == {sel[m]} \ {None}

SlotsInUse(m) ==
    ({sel[m]} \ {None}) \cup
    {q[m].ent[i].slot : i \in {j \in Live(q[m]) :
        \/ CompareOwned(q[m].ent[j])
        \/ q[m].ent[j].st = "NEW" /\ q[m].ent[j].res}}

Preloadable(m) ==
    {k \in 1 .. q[m].cnt - 1 :
        /\ HeadOf(q[m]).st \in {"SCHEDULE_PENDING", "SCHEDULED"}
        /\ q[m].ent[Idx(q[m], k)].st = "NEW"
        /\ q[m].ent[Idx(q[m], k)].slot \notin SlotsInUse(m)}

PreloadNext(m) ==
    LET k == CHOOSE j \in Preloadable(m) : \A l \in Preloadable(m) : j <= l
    IN  /\ q' = [q EXCEPT ![m].ent[Idx(q[m], k)].st = "LOAD_PENDING"]
        /\ job' = [job EXCEPT !.load = m]

\* The direction that goes first alternates; here either may.
Preload ==
    /\ turn = "pre" /\ call = NoCall
    /\ \/ \E m \in Modules : Preloadable(m) # {} /\ PreloadNext(m)
       \/ (\A m \in Modules : Preloadable(m) = {}) /\ UNCHANGED <<q, job>>
    /\ turn' = "idle"
    /\ UNCHANGED <<tamer, out, sel, call>> /\ WorkUnchanged

PerformWork(m, ret) ==
    \/ WorkEmpty(m, ret)
    \/ WorkNew(m, ret)
    \/ WorkLoadFailed(m, ret)
    \/ WorkSchedulePending(m, ret)
    \/ WorkScheduled(m, ret)
    \/ WorkCancelPending(m, ret)
    \/ WorkReady(m, ret)
    \/ WorkGainTable(m, ret)
    \/ WorkPll(m, ret)
    \/ WorkTxq(m, ret)

Worker ==
    \/ \E m \in Modules : DeferredClear(m) \/ FaultedQueue(m)
    \/ \E m \in Modules : LoadOwner(m) \/ OrphanRecall(m)
    \/ \E m \in Modules, ret \in {"rx", "tx", "end"} :
           Working(m, ret) /\ PerformWork(m, ret)
    \/ NewAnswered
    \/ ReadyAnswered
    \/ Preload

(***************************************************************************)
(* The tamer, its clock, and the RFIC's fault latch.                       *)
(***************************************************************************)
TamerStep(m, t) ==
    /\ tamer' = [tamer EXCEPT ![m] = t]
    /\ UNCHANGED <<job, sel, fault, turn, call, host, out, covered>>

\* The compare time crossed into the timestamp domain.
CompareLoaded(m) ==
    LET t == tamer[m]
    IN  /\ t.fsm = "arming" /\ t.clk
        /\ TamerStep(m, [t EXCEPT !.fsm = "armed", !.sack = TRUE,
                                  !.swait = FALSE])
        /\ UNCHANGED <<q, used, due>>

\* retune_isr(): only while no CLEAR owns the compare.
Isr(Q) ==
    IF ~Q.clr /\ HeadOf(Q).st \in {"SCHEDULE_PENDING", "SCHEDULED"}
    THEN [Q EXCEPT !.ent[Q.rem].st = "READY"] ELSE Q

\* The compare fires, or the time had already passed when it was loaded; the
\* interrupt is taken and cleared.
Fire(m) ==
    LET t == tamer[m]
    IN  /\ t.fsm \in {"arming", "armed"} /\ t.clk
        /\ TamerStep(m, [t EXCEPT !.fsm = "idle", !.sack = TRUE,
                                  !.fired = TRUE, !.swait = FALSE])
        /\ q' = [q EXCEPT ![m] = Isr(@)]
        /\ due' = due \cup {t.cmp}
        /\ UNCHANGED used

\* The schedule watchdog: a command the machine did not take, or whose
\* acknowledgement a stopped clock holds back.
ScheduleTimeout(m) ==
    LET t == tamer[m]
    IN  /\ t.swait /\ (t.fsm # "arming" \/ ~t.clk)
        /\ TamerStep(m, [t EXCEPT !.sfail = TRUE, !.swait = FALSE])
        /\ UNCHANGED <<q, used, due>>

CancelDone(m) ==
    LET t == tamer[m]
    IN  /\ t.fsm = "cancel" /\ t.clk
        /\ TamerStep(m, [t EXCEPT !.fsm = "idle", !.tog = 1 - @])
        /\ UNCHANGED <<q, used, due>>

\* The cancel watchdog.
CancelTimeout(m) ==
    LET t == tamer[m]
    IN  /\ t.fsm = "cancel" /\ ~t.clk /\ ~t.cfail
        /\ TamerStep(m, [t EXCEPT !.cfail = TRUE])
        /\ UNCHANGED <<q, used, due>>

ClockStops(m) ==
    /\ used.stalls < MaxStalls /\ tamer[m].clk
    /\ used' = [used EXCEPT !.stalls = @ + 1]
    /\ TamerStep(m, [tamer[m] EXCEPT !.clk = FALSE])
    /\ UNCHANGED <<q, due>>

\* The heartbeat watchdog, and the heartbeat that ends it.
StallSeen(m) ==
    /\ ~tamer[m].clk /\ ~tamer[m].stalled /\ ~tamer[m].held
    /\ TamerStep(m, [tamer[m] EXCEPT !.stalled = TRUE])
    /\ UNCHANGED <<q, used, due>>

ClockRuns(m) ==
    /\ ~tamer[m].clk
    /\ TamerStep(m, [tamer[m] EXCEPT !.clk = TRUE, !.stalled = FALSE])
    /\ UNCHANGED <<q, used, due>>

\* The host switches metadata off, its CLEAR answered: it holds the device
\* lock meanwhile.  The machine and the watchdogs start over; the sticky bits
\* and the toggle stay, and a cancel under way is dropped.
MetaOff ==
    /\ used.resets < MaxResets /\ host.at # "clear"
    /\ \A m \in Directions : tamer[m].clk /\ ~tamer[m].held
    /\ used' = [used EXCEPT !.resets = @ + 1,
                   !.dropped = @ \/ \E m \in Directions :
                                       tamer[m].fsm = "cancel"]
    /\ tamer' = [m \in Modules |->
                   IF m \in Directions
                   THEN [tamer[m] EXCEPT !.held = TRUE, !.fsm = "idle",
                            !.sfail = FALSE, !.swait = FALSE,
                            !.cfail = FALSE, !.stalled = FALSE]
                   ELSE tamer[m]]
    /\ UNCHANGED <<q, job, sel, fault, turn, call, host, out, due, covered>>

MetaOn ==
    /\ host.at # "clear" /\ \E m \in Directions : tamer[m].held
    /\ tamer' = [m \in Modules |-> [tamer[m] EXCEPT !.held = FALSE]]
    /\ UNCHANGED <<q, job, sel, fault, turn, call, host, used, out, due,
                   covered>>

\* The RFIC command worker runs only while RETUNE2 has no job: it may leave
\* the calibration state unknown, and INIT may recover it.
RficIdle == turn = "idle" /\ call = NoCall /\ ~Owned(job) /\ ~job.gt

RficFault ==
    /\ RficIdle /\ ~fault /\ used.faults < MaxFaults
    /\ fault' = TRUE
    /\ used' = [used EXCEPT !.faults = @ + 1]
    /\ UNCHANGED <<q, tamer, job, sel, turn, call, host, out, due,
                   covered>>

RficInit ==
    /\ RficIdle /\ fault
    /\ fault' = FALSE
    /\ UNCHANGED <<q, tamer, job, sel, turn, call, host, used, out,
                   due, covered>>

-----------------------------------------------------------------------------
Init ==
    /\ q = [m \in Modules |-> EmptyQueue(0)]
    /\ tamer = [m \in Modules |-> TamerIdle]
    /\ job = [load |-> None, recall |-> None, gt |-> FALSE, txq |-> FALSE]
    /\ sel = [m \in Modules |-> None]
    /\ fault = FALSE
    /\ turn = "idle"
    /\ call = NoCall
    /\ host = Free
    /\ used = [req |-> 0, clears |-> 0, faults |-> 0, stalls |-> 0,
               resets |-> 0, dropped |-> FALSE]
    /\ out = [r \in Requests |-> [ok |-> 0, fail |-> 0]]
    /\ due = {}
    /\ covered = {}

Host ==
    \/ \E m \in Directions, slot \in Slots, gt \in BOOLEAN :
           Schedule(m, slot, gt)
    \/ \E m \in Directions : ScheduleRefused(m) \/ Clear(m)
    \/ \E m \in Directions, slot \in Slots, gt, resident \in BOOLEAN :
           Now(m, slot, gt, resident)
    \/ ClearAgain
    \/ HostReturns

Hardware(m) ==
    \/ CompareLoaded(m) \/ Fire(m) \/ CancelDone(m)
    \/ ScheduleTimeout(m) \/ CancelTimeout(m)
    \/ StallSeen(m) \/ ClockRuns(m)

Next ==
    \/ Host
    \/ Worker
    \/ \E m \in Directions : Hardware(m) \/ ClockStops(m)
    \/ MetaOff
    \/ MetaOn
    \/ RficFault
    \/ RficInit

\* A poll or an upload step that ends its job, whatever the result.
JobEnds ==
    /\ Worker
    /\ \/ job.gt /\ ~job'.gt
       \/ job.recall # None /\ job'.recall = None
       \/ job.txq /\ ~job'.txq
       \/ job.load # None /\ job'.load = None

Spec == Init /\ [][Next]_vars

\* The main loop never stops and serves a waiting packet between passes; an
\* upload has 18 steps, a lock and a calibration end; the tamer moves, and a
\* stopped clock runs again.
FairSpec ==
    /\ Spec
    /\ WF_vars(Worker) /\ SF_vars(JobEnds) /\ SF_vars(ClearAgain)
    /\ \A m \in Directions : WF_vars(Hardware(m)) /\ SF_vars(CancelDone(m))

-----------------------------------------------------------------------------
\* Types; exactly the cells between remove_idx and the insertion point hold a
\* request.
TypeOK ==
    /\ \A m \in Modules :
         /\ q[m].rem \in Indices /\ q[m].cnt \in 0 .. QueueMax
         /\ \A i \in Indices :
              /\ q[m].ent[i].st \in EntryStates
              /\ q[m].ent[i].id \in 0 .. MaxRequests
              /\ (i \in Live(q[m])) = (q[m].ent[i].st # "INVALID")
         /\ tamer[m].fsm \in {"idle", "arming", "armed", "cancel"}
         /\ sel[m] \in Slots \cup {None}
    /\ job.load \in Modules \cup {None} /\ job.recall \in Modules \cup {None}
    /\ turn \in {"idle", "tx", "pre", "headRX", "headTX"}

\* A request ends once: record_retune2_entry_failure() and
\* publish_retune2_success() never both report it, nor one of them twice.
OneOutcome == \A r \in Requests : out[r].ok + out[r].fail <= 1

\* A request that was accepted is in its queue, has a completion record, or
\* was in the queue when the host cleared it.
NothingLost ==
    \A r \in 1 .. used.req :
        \/ \E m \in Modules : r \in Ids(q[m])
        \/ out[r].ok + out[r].fail > 0
        \/ r \in covered

\* A scheduled request reaches the RFIC only after its own compare fired:
\* a sticky event or an interrupt of an earlier one never releases it.
Punctual ==
    \A m \in Modules : \A i \in Live(q[m]) :
        q[m].ent[i].st \in JobStates \cup {"READY"} =>
            q[m].ent[i].imm \/ q[m].ent[i].id \in due

\* A compare that is armed in the tamer is owned by the queue's head: no path
\* forgets one that could still fire.
ArmedOwned ==
    \A m \in Modules : tamer[m].fsm \in {"arming", "armed"} =>
        /\ HeadOf(q[m]).id = tamer[m].cmp
        /\ HeadOf(q[m]).st \in {"SCHEDULE_PENDING", "SCHEDULED",
                                "CANCEL_PENDING"}

\* An upload never rewrites the slot the synthesizer runs from, unless the
\* request is to retune now, nor one that another queued request relies on.
SlotSafe ==
    \A m \in Modules : \A i \in Loading(q[m]) :
        /\ job.load = m
        /\ q[m].ent[i].imm \/ sel[m] # q[m].ent[i].slot
        /\ \A j \in Live(q[m]) \ {i} :
             CompareOwned(q[m].ent[j]) \/ q[m].ent[j].res =>
                 q[m].ent[j].slot # q[m].ent[i].slot

\* A CLEAR the host keeps asking for is answered, whatever the head was doing,
\* through a stopped clock and a domain held in reset: clear_queue_async() and
\* perform_work() together lose no acknowledgement.  Metadata switched off in
\* the few cycles a cancel needs is the exception: the machine and the
\* watchdog that would report it are both reset.
ClearAnswered ==
    (host.at = "clear") ~> (host.at # "clear" \/ used.dropped)

\* pkt_retune2_work(): "The RX head owns the RFIC until its gain-table load
\* ends."  Refuted: the pass that starts the load goes on to the TX queue.
GainTableOwnsRfic == job.gt => ~Owned(job)
=============================================================================
