----------------------------- MODULE RxTransition -----------------------------
(***************************************************************************)
(* The RX transition of bladeRF 2: changing the RF configuration without   *)
(* ever handing the application IQ of another configuration as current.    *)
(*                                                                         *)
(* Host.  bladerf_rx_transition_begin() revokes host admission, fences the *)
(* sample gate in the FPGA under a new 8-bit epoch id, changes the RFIC    *)
(* and reads it back; bladerf_rx_transition_wait() opens the gate, reads   *)
(* the timestamp of its first sample and certifies the epoch.  A legacy    *)
(* setter, a stream start or a capture close reserves the configuration    *)
(* with rf_transition_setter_active; the fault monitor reserves it to      *)
(* revoke an epoch whose gate was lost.  bladerf_close() sends every       *)
(* transition call away before the handle is freed.                        *)
(*                                                                         *)
(* FPGA.  rx_epoch_gate.vhd and its command decoder survive the handle.    *)
(* The writer behind the gate puts the epoch id and the timestamp of the   *)
(* first sample into each message; the fenced gate sends zero samples.     *)
(*                                                                         *)
(* One action is one critical section of dev->lock or of                   *)
(* rx_async_epoch_lock, one NIOS command, or one clock edge that matters.  *)
(***************************************************************************)
EXTENDS Integers, Sequences, FiniteSets

CONSTANTS
  Callers,     \* threads that use the transition API
  Setters,     \* threads that call legacy setters, start streams, close captures
  K,           \* the largest epoch id: 255 in the code
  StreamLate,  \* a stream may return while somebody else holds the reservation
  MaxOps,      \* bound: transitions begun and setters called
  MaxTrouble,  \* bound: commands and reads that fail, lost gates, resets, RFIC faults
  MaxOpens     \* bound: handles opened one after the other

ASSUME TransitionAssumption ==
  /\ K \in Nat \ {0}
  /\ StreamLate \in BOOLEAN
  /\ IsFiniteSet(Callers)
  /\ {MaxOps, MaxTrouble, MaxOpens} \subseteq Nat

VARIABLES
  h,     \* struct bladerf2_board_data: the transition and its certificate
  call,  \* each caller: [at, txn, first]
  set,   \* each setter: [at, kind]
  mon,   \* the fault monitor: [at, txn, id]
  gate,  \* rx_epoch_gate, its command word, the link: [st, id, cmd, cmdId, first, link]
  rf,    \* which RF configuration the RFIC has, as a version number
  msg,   \* the message between the FIFO writer and the host: [st, id, ts, has]
  rx,    \* rx_async_buffer_valid(): [at, has, id, first, ok]
  ts,    \* the timestamp, counted in epoch boundaries
  used   \* how much of each bound is used up

vars == <<h, call, set, mon, gate, rf, msg, rx, ts, used>>

(* Timestamps are compared with first_valid_timestamp only, so ts counts   *)
(* the boundaries: every sample from one boundary to the next has the same *)
(* number.  It does not restart with a reset, which empties the pipe: two  *)
(* boundaries never have the same timestamp.                               *)

Zero  == -1                     \* what the fenced gate sends instead of IQ
NoMsg == [st |-> "none", id |-> 0, ts |-> 0, has |-> {}]
NoBuffer == [at |-> "idle", has |-> {}, id |-> 0, first |-> 0, ok |-> TRUE]
NoCert == [id |-> 0, first |-> 0, txn |-> 0, cfg |-> 0]

(* bladerf2_rx_transition_next_epoch_id: zero is the id of a reset gate. *)
NextEpoch(id) == IF id = K THEN 1 ELSE id + 1

----------------------------------------------------------------------------
(* The command word: each command flips its toggle.  cmd is the set of the *)
(* toggles that the decoder in the RX clock domain has not seen flip yet.  *)

Toggled(c, id) ==
  gate' = [gate EXCEPT !.cmd = IF c \in @ THEN @ \ {c} ELSE @ \cup {c},
                       !.cmdId = IF c = "arm" THEN id ELSE @]

(* A command either reaches the FPGA or its answer fails; when it fails it *)
(* may have been executed all the same.                                    *)
CommandFails(c, id) ==
  /\ used.trouble < MaxTrouble
  /\ used' = [used EXCEPT !.trouble = @ + 1]
  /\ Toggled(c, id) \/ UNCHANGED gate

(* A gate that goes to ERROR stops the writer in the middle of a message.  *)
(* When it leaves ERROR the message is completed with zeroes.              *)
Interrupted == IF msg.st = "open" THEN [msg EXCEPT !.st = "short"] ELSE msg

(* The decoder sees every toggle that flipped as a pulse of one cycle.  In *)
(* every state ABORT beats ARM and ARM beats COMPLETE.                     *)
GatePulse ==
  /\ gate.cmd # {}
  /\ gate' = [gate EXCEPT
       !.cmd = {}, !.cmdId = 0,
       !.st = IF "abort" \in gate.cmd THEN "ERROR"
              ELSE IF "arm" \in gate.cmd THEN "PENDING"
              ELSE IF @ = "PENDING" THEN "WAIT" ELSE @,
       !.id = IF "arm" \in gate.cmd /\ "abort" \notin gate.cmd
              THEN gate.cmdId ELSE @]
  /\ msg' = IF "abort" \in gate.cmd THEN Interrupted ELSE msg
  /\ UNCHANGED <<h, call, set, mon, rf, rx, ts, used>>

(* ACTIVE_NEW is the cycle after the first sample. *)
GateSettles ==
  /\ gate.st = "ACTIVE_NEW"
  /\ gate' = [gate EXCEPT !.st = "ACTIVE"]
  /\ UNCHANGED <<h, call, set, mon, rf, msg, rx, ts, used>>

(* One of two enabled lanes has no sample: the pair is lost. *)
GateFaults ==
  /\ gate.st \in {"ACTIVE", "ACTIVE_NEW"}
  /\ used.trouble < MaxTrouble
  /\ used' = [used EXCEPT !.trouble = @ + 1]
  /\ gate' = [gate EXCEPT !.st = "ERROR"]
  /\ msg' = Interrupted
  /\ UNCHANGED <<h, call, set, mon, rf, rx, ts>>

(* A reset of the RX clock domain: unarmed and open, under epoch zero, the *)
(* link not started and the FIFOs and the endpoint empty.  The decoder     *)
(* takes the surviving toggles as its new baseline.                        *)
ResetGate == [st |-> "ACTIVE", id |-> 0, cmd |-> {}, cmdId |-> 0,
              first |-> 0, link |-> FALSE]

GateResets ==
  /\ used.trouble < MaxTrouble
  /\ used' = [used EXCEPT !.trouble = @ + 1]
  /\ gate' = ResetGate
  /\ msg' = NoMsg
  /\ UNCHANGED <<h, call, set, mon, rf, rx, ts>>

(* What the gate passes on for the sample on this edge. *)
Forwarded == IF gate.st \in {"ACTIVE", "ACTIVE_NEW", "WAIT"} THEN rf ELSE Zero

(* A sample on every enabled lane.  It opens the gate that waits for it.   *)
(* The writer puts it into a message, as its first or its last sample: the *)
(* header, with epoch id and timestamp, is written with the first.  It     *)
(* does not take samples before a short message is complete.  The host     *)
(* judges each message by itself, so one message in the pipe is enough.    *)
Sample ==
  /\ gate.st # "ERROR" /\ gate.link
  /\ \E now \in {IF gate.st = "WAIT" THEN ts + 1 ELSE ts} :
       /\ ts' = now
       /\ gate' = IF gate.st = "WAIT"
                  THEN [gate EXCEPT !.st = "ACTIVE_NEW", !.first = now] ELSE gate
       /\ \/ msg.st \in {"short", "full"} /\ UNCHANGED msg
          \/ /\ msg = NoMsg
             /\ msg' = [st |-> "open", id |-> gate.id, ts |-> now, has |-> {Forwarded}]
          \/ /\ msg.st = "open"
             /\ msg' = [msg EXCEPT !.st = "full", !.has = @ \cup {Forwarded}]
  /\ UNCHANGED <<h, call, set, mon, rf, rx, used>>

(* packet_pad *)
Pad ==
  /\ msg.st = "short" /\ gate.st # "ERROR" /\ gate.link
  /\ msg' = [msg EXCEPT !.st = "full", !.has = @ \cup {Zero}]
  /\ UNCHANGED <<h, call, set, mon, gate, rf, rx, ts, used>>

Fpga == GatePulse \/ GateSettles \/ GateFaults \/ GateResets \/ Sample \/ Pad

----------------------------------------------------------------------------
(* rx_async_buffer_valid().  The certificate is copied under the lock, the *)
(* message is parsed without it, and the copy must still be current when   *)
(* the message is admitted.  A handle without an epoch contract admits     *)
(* everything, as upstream does.                                           *)

InEpochById(m) == m.id = h.cert.id                         \* mutant

(* metadata_rx_buffer_epoch_contiguous *)
InEpoch(m) == m.id = h.cert.id /\ m.ts >= h.cert.first

RxTake ==
  /\ msg.st = "full"
  /\ rx.at = "idle"
  /\ h.contract
  /\ msg' = NoMsg
  /\ rx' = IF h.certified /\ InEpoch(msg)
           THEN [rx EXCEPT !.at = "parsed", !.has = msg.has, !.id = h.cert.id,
                           !.first = h.cert.first]
           ELSE rx
  /\ UNCHANGED <<h, call, set, mon, gate, rf, ts, used>>

RxPass ==
  /\ msg.st = "full"
  /\ rx.at = "idle"
  /\ ~ h.contract
  /\ msg' = NoMsg
  /\ UNCHANGED <<h, call, set, mon, gate, rf, rx, ts, used>>

(* metadata_rx_epoch_snapshot_is_current *)
SnapshotIsCurrent ==
  h.certified /\ h.cert.id = rx.id /\ h.cert.first = rx.first

(* rx.ok: no buffer was admitted with a sample of another configuration    *)
(* than the certified one.                                                 *)
RxCommit ==
  /\ rx.at = "parsed"
  /\ rx' = [NoBuffer EXCEPT
              !.ok = rx.ok /\ (SnapshotIsCurrent => rx.has = {h.cert.cfg})]
  /\ h' = IF SnapshotIsCurrent THEN [h EXCEPT !.reported = TRUE] ELSE h
  /\ UNCHANGED <<call, set, mon, gate, rf, msg, ts, used>>

Reader == RxTake \/ RxPass \/ RxCommit

----------------------------------------------------------------------------
(* Transition calls *)

(* bladerf2_rx_epoch_revoke_admission; nobody reads a revoked certificate. *)
Revoked == [h EXCEPT !.certified = FALSE, !.cert = NoCert, !.reported = FALSE]

LeavesUncounted(hh) == hh                                  \* mutant
Leaves(hh) == [hh EXCEPT !.calls = @ - 1]

Idle == [at |-> "out", txn |-> 0, first |-> 0]

Goes(c, at)  == call' = [call EXCEPT ![c].at = at]
Ends(c)      == call' = [call EXCEPT ![c] = Idle]

Fails == /\ used.trouble < MaxTrouble
         /\ used' = [used EXCEPT !.trouble = @ + 1]

(* call_enter for begin *)
EnterBegin(c) ==
  /\ call[c].at = "out"
  /\ used.ops < MaxOps
  /\ ~ h.closing
  /\ used' = [used EXCEPT !.ops = @ + 1]
  /\ h' = [h EXCEPT !.calls = @ + 1]
  /\ Goes(c, "check")
  /\ UNCHANGED <<set, mon, gate, rf, msg, rx, ts>>

BusyPending == h.pending                                   \* mutant
Busy == h.pending \/ h.setter

(* Also when the format, the layout, the clock or the tuning mode does not  *)
(* allow the request.                                                      *)
BeginRefused(c) ==
  /\ call[c].at = "check"
  /\ h' = Leaves(h)
  /\ Ends(c)
  /\ UNCHANGED <<set, mon, gate, rf, msg, rx, ts, used>>

(* The caller requires a certified epoch, and perhaps its first data. *)
BeginAccept(c, epoch, host) ==
  /\ call[c].at = "check"
  /\ ~ Busy
  /\ host => epoch
  /\ h' = [h EXCEPT !.txn = @ + 1, !.pending = TRUE, !.waiting = FALSE,
                    !.epochReq = epoch, !.hostReq = host, !.readback = 0,
                    !.contract = @ \/ epoch,
                    !.reported = IF epoch THEN FALSE ELSE @]
  /\ call' = [call EXCEPT ![c].at = "revoke", ![c].txn = h.txn + 1]
  /\ UNCHANGED <<set, mon, gate, rf, msg, rx, ts, used>>

BeginRevoke(c) ==
  /\ call[c].at = "revoke"
  /\ \/ h.closing /\ UNCHANGED <<h, used>> /\ Goes(c, "fail")
     \/ /\ ~ h.closing
        /\ h' = Revoked
        /\ \/ UNCHANGED used /\ Goes(c, IF h.epochReq THEN "prepare" ELSE "tune")
           \/ Fails /\ Goes(c, "fail")
  /\ UNCHANGED <<set, mon, gate, rf, msg, rx, ts>>

(* _prepare_rx_epoch_id: a gate left half way by somebody is aborted first *)
BeginPrepare(c) ==
  /\ call[c].at = "prepare"
  /\ \/ /\ gate.st \in {"ACTIVE", "ERROR"}
        /\ h' = [h EXCEPT !.epoch = NextEpoch(gate.id)]
        /\ Goes(c, "arm")
        /\ UNCHANGED <<gate, used>>
     \/ /\ gate.st \notin {"ACTIVE", "ERROR"}
        /\ \/ Toggled("abort", 0) /\ Goes(c, "drain") /\ UNCHANGED used
           \/ CommandFails("abort", 0) /\ Goes(c, "fail")
        /\ UNCHANGED h
  /\ UNCHANGED <<set, mon, rf, msg, rx, ts>>

BeginDrain(c) ==
  /\ call[c].at = "drain"
  /\ gate.st = "ERROR"
  /\ h' = [h EXCEPT !.epoch = NextEpoch(gate.id)]
  /\ Goes(c, "arm")
  /\ UNCHANGED <<set, mon, gate, rf, msg, rx, ts, used>>

BeginArm(c) ==
  /\ call[c].at = "arm"
  /\ \/ Toggled("arm", h.epoch) /\ Goes(c, "fence") /\ UNCHANGED used
     \/ CommandFails("arm", h.epoch) /\ Goes(c, "fail")
  /\ UNCHANGED <<h, set, mon, rf, msg, rx, ts>>

(* _wait_rx_epoch_fenced *)
BeginFence(c) ==
  /\ call[c].at = "fence"
  /\ \/ gate.st = "ERROR" /\ Goes(c, "fail")
     \/ gate.st = "PENDING" /\ gate.id = h.epoch /\ Goes(c, "tune")
  /\ UNCHANGED <<h, set, mon, gate, rf, msg, rx, ts, used>>

(* The calibration poll sees the close; then the RFIC is written by the    *)
(* host, which raises and drops setter_active, or by the NIOS (quick).  A  *)
(* write that fails may have changed the RFIC.                             *)
BeginTune(c) ==
  /\ call[c].at = "tune"
  /\ \/ h.closing /\ Goes(c, "fail") /\ UNCHANGED <<h, rf, used>>
     \/ /\ ~ h.closing
        /\ \E quick \in BOOLEAN : h' = [h EXCEPT !.setter = quick /\ @]
        /\ \/ rf' = rf + 1 /\ Goes(c, "back") /\ UNCHANGED used
           \/ Fails /\ rf' \in {rf, rf + 1} /\ Goes(c, "fail")
  /\ UNCHANGED <<set, mon, gate, msg, rx, ts>>

BeginReadback(c) ==
  /\ call[c].at = "back"
  /\ \/ /\ ~ h.closing
        /\ h' = Leaves([h EXCEPT !.readback = rf])
        /\ Ends(c)
        /\ UNCHANGED used
     \/ h.closing /\ Goes(c, "fail") /\ UNCHANGED <<h, used>>
     \/ Fails /\ Goes(c, "fail") /\ UNCHANGED h
  /\ UNCHANGED <<set, mon, gate, rf, msg, rx, ts>>

----------------------------------------------------------------------------
(* call_enter for wait, with an id that some begin has returned: the       *)
(* current one, one that is over, or one somebody else waits for.          *)
EnterWait(c, txn) ==
  /\ call[c].at = "out"
  /\ \A d \in Callers : call[d].txn = txn => h.waiting \/ call[d].at = "join"
  /\ ~ h.closing
  /\ h' = [h EXCEPT !.calls = @ + 1]
  /\ call' = [call EXCEPT ![c].at = "join", ![c].txn = txn]
  /\ UNCHANGED <<set, mon, gate, rf, msg, rx, ts, used>>

WaitJoin(c) ==
  /\ call[c].at = "join"
  /\ \/ /\ h.pending /\ h.txn = call[c].txn /\ ~ h.waiting
        /\ h' = [h EXCEPT !.waiting = TRUE]
        /\ Goes(c, "poll")
     \/ /\ ~ (h.pending /\ h.txn = call[c].txn /\ ~ h.waiting)
        /\ h' = Leaves(h)
        /\ Ends(c)
  /\ UNCHANGED <<set, mon, gate, rf, msg, rx, ts, used>>

(* Calibration, PLL, ENSM and BBPLL polls. *)
WaitPoll(c) ==
  /\ call[c].at = "poll"
  /\ Goes(c, IF h.closing THEN "fail" ELSE IF h.epochReq THEN "complete" ELSE "commit")
  /\ UNCHANGED <<h, set, mon, gate, rf, msg, rx, ts, used>>

WaitComplete(c) ==
  /\ call[c].at = "complete"
  /\ \/ Toggled("complete", 0) /\ Goes(c, "open") /\ UNCHANGED used
     \/ CommandFails("complete", 0) /\ Goes(c, "fail")
  /\ UNCHANGED <<h, set, mon, rf, msg, rx, ts>>

GateIsActive(id) == gate.st \in {"ACTIVE", "ACTIVE_NEW"} /\ gate.id = id

WaitOpen(c) ==
  /\ call[c].at = "open"
  /\ \/ h.closing /\ Goes(c, "fail")
     \/ gate.st = "ERROR" /\ Goes(c, "fail")
     \/ gate.st \in {"ACTIVE", "ACTIVE_NEW"} /\ gate.id # h.epoch /\ Goes(c, "fail")
     \/ ~ h.closing /\ GateIsActive(h.epoch) /\ Goes(c, "stamp")
  /\ UNCHANGED <<h, set, mon, gate, rf, msg, rx, ts, used>>

WaitStamp(c) ==
  /\ call[c].at = "stamp"
  /\ call' = [call EXCEPT ![c].at = "link", ![c].first = gate.first]
  /\ UNCHANGED <<h, set, mon, gate, rf, msg, rx, ts, used>>

(* The link must be up in the epoch of its last start. *)
LinkValid == gate.link

WaitLink(c) ==
  /\ call[c].at = "link"
  /\ Goes(c, IF LinkValid THEN "certify" ELSE "fail")
  /\ UNCHANGED <<h, set, mon, gate, rf, msg, rx, ts, used>>

(* bladerf2_rx_epoch_admission_prepare, in one step with the sync latch *)
Certified(c) ==
  [h EXCEPT !.certified = TRUE, !.reported = FALSE,
            !.cert = [id |-> h.epoch, first |-> call[c].first,
                      txn |-> call[c].txn, cfg |-> h.readback]]

WaitCertify(c) ==
  /\ call[c].at = "certify"
  /\ h' = Certified(c)
  /\ call' = [call EXCEPT ![c].at = IF h.hostReq THEN "data" ELSE "commit", ![c].first = 0]
  /\ UNCHANGED <<set, mon, gate, rf, msg, rx, ts, used>>

(* _wait_for_first_host_data *)
WaitData(c) ==
  /\ call[c].at = "data"
  /\ h.closing \/ h.reported \/ ~ (h.certified /\ h.cert.txn = call[c].txn)
  /\ Goes(c, IF h.reported /\ ~ h.closing THEN "commit" ELSE "fail")
  /\ UNCHANGED <<h, set, mon, gate, rf, msg, rx, ts, used>>

WaitCommit(c) ==
  /\ call[c].at = "commit"
  /\ \/ /\ ~ h.closing
        /\ h' = Leaves([h EXCEPT !.pending = FALSE, !.waiting = FALSE, !.setter = FALSE])
        /\ Ends(c)
     \/ h.closing /\ Goes(c, "fail") /\ UNCHANGED h
  /\ UNCHANGED <<set, mon, gate, rf, msg, rx, ts, used>>

(* A register or status read fails. *)
Reads == {"drain", "fence", "poll", "open", "stamp", "link"}

ReadFails(c) ==
  /\ call[c].at \in Reads
  /\ Fails
  /\ Goes(c, "fail")
  /\ UNCHANGED <<h, set, mon, gate, rf, msg, rx, ts>>

(* The deadline of the call passes while it polls or waits. *)
FenceWithoutDeadline(c) ==                                 \* mutant
  /\ call[c].at \in {"drain", "open", "data"}
  /\ Goes(c, "fail")
  /\ UNCHANGED <<h, set, mon, gate, rf, msg, rx, ts, used>>

DeadlinePasses(c) ==
  /\ call[c].at \in {"drain", "fence", "open", "data"}
  /\ Goes(c, "fail")
  /\ UNCHANGED <<h, set, mon, gate, rf, msg, rx, ts, used>>

(* _abort_transition: host admission first, then the gate, and only then   *)
(* is the transition over.  A failed ABORT is reported and otherwise       *)
(* ignored.                                                                *)
FailRevoke(c) ==
  /\ call[c].at = "fail"
  /\ h' = Revoked
  /\ Goes(c, "abort")
  /\ UNCHANGED <<set, mon, gate, rf, msg, rx, ts, used>>

FailAbort(c) ==
  /\ call[c].at = "abort"
  /\ Goes(c, "clear")
  /\ \/ h.epochReq /\ Toggled("abort", 0) /\ UNCHANGED used
     \/ h.epochReq /\ CommandFails("abort", 0)
     \/ ~ h.epochReq /\ UNCHANGED <<gate, used>>
  /\ UNCHANGED <<h, set, mon, rf, msg, rx, ts>>

FailClear(c) ==
  /\ call[c].at = "clear"
  /\ h' = Leaves([h EXCEPT !.pending = FALSE, !.waiting = FALSE, !.setter = FALSE])
  /\ Ends(c)
  /\ UNCHANGED <<set, mon, gate, rf, msg, rx, ts, used>>

CallSteps(c) ==
  \/ BeginRefused(c) \/ (\E e, d \in BOOLEAN : BeginAccept(c, e, d)) \/ BeginRevoke(c) \/ BeginPrepare(c)
  \/ BeginDrain(c) \/ BeginArm(c) \/ BeginFence(c) \/ BeginTune(c) \/ BeginReadback(c)
  \/ WaitJoin(c) \/ WaitPoll(c) \/ WaitComplete(c) \/ WaitOpen(c) \/ WaitStamp(c)
  \/ WaitLink(c) \/ WaitCertify(c) \/ WaitData(c) \/ WaitCommit(c)
  \/ FailRevoke(c) \/ FailAbort(c) \/ FailClear(c)

----------------------------------------------------------------------------
(* Legacy setters, stream starts and capture closes *)

Kinds == {"setter", "enable", "stream", "capture"}

(* bladerf2_rx_data_invalidate, or bladerf_rx_capture_close: the           *)
(* reservation                                                             *)
Reserve(s, k) ==
  /\ set[s].at = "out"
  /\ used.ops < MaxOps
  /\ ~ h.closing
  /\ ~ Busy
  /\ k = "capture" => h.contract /\ h.certified
  /\ used' = [used EXCEPT !.ops = @ + 1]
  /\ h' = [h EXCEPT !.setter = TRUE]
  /\ set' = [set EXCEPT ![s] = [at |-> "revoke", kind |-> k]]
  /\ UNCHANGED <<call, mon, gate, rf, msg, rx, ts>>

SetUnrevoked(s) ==                                         \* mutant
  /\ set[s].at = "revoke"
  /\ set' = [set EXCEPT ![s].at = IF h.contract THEN "abort" ELSE "write"]
  /\ UNCHANGED <<h, call, mon, gate, rf, msg, rx, ts, used>>

(* The synchronous reader's fence may fail after the revocation; then the  *)
(* setter is refused.                                                      *)
SetRevoke(s) ==
  /\ set[s].at = "revoke"
  /\ \/ /\ h' = Revoked
        /\ set' = [set EXCEPT ![s].at = IF h.contract THEN "abort" ELSE "write"]
        /\ UNCHANGED used
     \/ /\ Fails
        /\ h' = [Revoked EXCEPT !.setter = FALSE]
        /\ set' = [set EXCEPT ![s] = [at |-> "out", kind |-> "setter"]]
  /\ UNCHANGED <<call, mon, gate, rf, msg, rx, ts>>

(* When the gate cannot be fenced the setter is refused. *)
SetAbort(s) ==
  /\ set[s].at = "abort"
  /\ \/ /\ Toggled("abort", 0)
        /\ set' = [set EXCEPT ![s].at = IF set[s].kind = "capture" THEN "release" ELSE "write"]
        /\ UNCHANGED <<h, used>>
     \/ /\ CommandFails("abort", 0)
        /\ h' = [h EXCEPT !.setter = FALSE]
        /\ set' = [set EXCEPT ![s] = [at |-> "out", kind |-> "setter"]]
  /\ UNCHANGED <<call, mon, rf, msg, rx, ts>>

(* The setter's own change, under dev->lock; for a stream the format.      *)
(* Enabling the module starts the link, and resets the sample path first   *)
(* when no direction was on.                                               *)
SetWrite(s) ==
  /\ set[s].at = "write"
  /\ rf' = rf + 1
  /\ set' = [set EXCEPT ![s].at = "release"]
  /\ \/ set[s].kind # "enable" /\ UNCHANGED <<gate, msg>>
     \/ /\ set[s].kind = "enable"
        /\ gate' = [gate EXCEPT !.link = TRUE]
        /\ UNCHANGED <<msg>>
     \/ /\ set[s].kind = "enable"
        /\ gate' = [ResetGate EXCEPT !.link = TRUE]
        /\ msg' = NoMsg
  /\ UNCHANGED <<h, call, mon, rx, ts, used>>

(* bladerf2_rx_reconfigure_complete.  A stream releases the reservation    *)
(* before it runs, and bladerf_stream() releases it once more on return.   *)
SetRelease(s) ==
  /\ set[s].at = "release"
  /\ h' = [h EXCEPT !.setter = FALSE]
  /\ set' = [set EXCEPT ![s] = IF set[s].kind = "stream" THEN [@ EXCEPT !.at = "runs"]
                               ELSE [at |-> "out", kind |-> "setter"]]
  /\ UNCHANGED <<call, mon, gate, rf, msg, rx, ts, used>>

StreamReturns(s) ==
  /\ set[s].at = "runs"
  /\ StreamLate \/ ~ h.setter
  /\ h' = [h EXCEPT !.setter = FALSE]
  /\ set' = [set EXCEPT ![s] = [at |-> "out", kind |-> "setter"]]
  /\ UNCHANGED <<call, mon, gate, rf, msg, rx, ts, used>>

SetSteps(s) == SetRevoke(s) \/ SetAbort(s) \/ SetWrite(s) \/ SetRelease(s) \/ StreamReturns(s)

----------------------------------------------------------------------------
(* The fault monitor *)

GateLostById == gate.id # h.cert.id \/ ~ gate.link         \* mutant
GateLost == gate.st # "ACTIVE" \/ gate.id # h.cert.id \/ ~ gate.link

(* One poll, under dev->lock: the epoch it is about, and the status reads. *)
MonObserve ==
  /\ mon.at = "idle"
  /\ h.contract /\ h.certified /\ ~ Busy /\ h.opened
  /\ mon' = [at |-> "saw", txn |-> h.txn, id |-> h.cert.id]
  /\ UNCHANGED <<h, call, set, gate, rf, msg, rx, ts>>

MonSeesLoss == GateLost /\ MonObserve /\ UNCHANGED used

(* A lock bit, a mask, a counter, or a read that failed. *)
MonSeesFault ==
  /\ used.trouble < MaxTrouble
  /\ MonObserve
  /\ used' = [used EXCEPT !.trouble = @ + 1]

(* bladerf2_rx_fault_observation_is_current *)
ObservationIsCurrent == mon.txn = h.txn /\ mon.id = h.cert.id

(* _invalidate_faulted_rx_epoch *)
MonInvalidate ==
  /\ mon.at = "saw"
  /\ IF ~ Busy /\ h.contract /\ h.certified /\ ObservationIsCurrent
     THEN /\ h' = [Revoked EXCEPT !.setter = TRUE]
          /\ mon' = [mon EXCEPT !.at = "abort"]
     ELSE /\ mon' = [at |-> "idle", txn |-> 0, id |-> 0]
          /\ UNCHANGED h
  /\ UNCHANGED <<call, set, gate, rf, msg, rx, ts, used>>

MonAbort ==
  /\ mon.at = "abort"
  /\ \/ Toggled("abort", 0) /\ UNCHANGED used
     \/ CommandFails("abort", 0)
  /\ mon' = [mon EXCEPT !.at = "release"]
  /\ UNCHANGED <<h, call, set, rf, msg, rx, ts>>

MonRelease ==
  /\ mon.at = "release"
  /\ h' = [h EXCEPT !.setter = FALSE]
  /\ mon' = [at |-> "idle", txn |-> 0, id |-> 0]
  /\ UNCHANGED <<call, set, gate, rf, msg, rx, ts, used>>

Monitor == MonSeesLoss \/ MonInvalidate \/ MonAbort \/ MonRelease

----------------------------------------------------------------------------
(* Closing the handle, and opening the next one on the same FPGA.  The     *)
(* application has no setter or stream of its own left when it closes.     *)

CloseAsk ==
  /\ h.opened /\ ~ h.closing
  /\ \A s \in Setters : set[s].at = "out"
  /\ h' = [h EXCEPT !.closing = TRUE]
  /\ UNCHANGED <<call, set, mon, gate, rf, msg, rx, ts, used>>

(* bladerf2_rx_transition_waiters_close, the monitor's stop and the free *)
CloseDone ==
  /\ h.closing /\ h.opened
  /\ h.calls = 0
  /\ mon.at = "idle"
  /\ h' = [h EXCEPT !.opened = FALSE]
  /\ UNCHANGED <<call, set, mon, gate, rf, msg, rx, ts, used>>

NewHandle ==
  [txn |-> 0, pending |-> FALSE, waiting |-> FALSE, setter |-> FALSE, contract |-> FALSE,
   epochReq |-> FALSE, hostReq |-> FALSE, epoch |-> 0, certified |-> FALSE, cert |-> NoCert, reported |-> FALSE,
   readback |-> 0, closing |-> FALSE, calls |-> 0, opened |-> TRUE]

Reopen ==
  /\ ~ h.opened
  /\ used.opens < MaxOpens
  /\ used' = [used EXCEPT !.opens = @ + 1]
  /\ h' = NewHandle
  /\ call' = [c \in Callers |-> Idle]
  /\ msg' = NoMsg
  /\ rx' = [NoBuffer EXCEPT !.ok = rx.ok]
  /\ UNCHANGED <<set, mon, gate, rf, ts>>

----------------------------------------------------------------------------
Init ==
  /\ h = NewHandle
  /\ call = [c \in Callers |-> Idle]
  /\ set = [s \in Setters |-> [at |-> "out", kind |-> "setter"]]
  /\ mon = [at |-> "idle", txn |-> 0, id |-> 0]
  /\ gate = [st |-> "ACTIVE", id |-> 0, cmd |-> {}, cmdId |-> 0, first |-> 0, link |-> TRUE]
  /\ rf = 0
  /\ msg = NoMsg
  /\ rx = NoBuffer
  /\ ts = 0
  /\ used = [ops |-> 0, trouble |-> 0, opens |-> 1]

Next ==
  \/ Fpga
  \/ Reader
  \/ \E c \in Callers : \/ EnterBegin(c)
                        \/ \E t \in 1..h.txn : EnterWait(c, t)
                        \/ CallSteps(c) \/ ReadFails(c) \/ DeadlinePasses(c)
  \/ \E s \in Setters : (\E k \in Kinds : Reserve(s, k)) \/ SetSteps(s)
  \/ Monitor \/ MonSeesFault
  \/ CloseAsk \/ CloseDone \/ Reopen

Spec == Init /\ [][Next]_vars

(* The RX clock runs, threads that can run do, and calls have deadlines.   *)
FairSpec ==
  /\ Spec
  /\ WF_vars(GatePulse) /\ WF_vars(GateSettles)
  /\ WF_vars(Monitor)
  /\ WF_vars(CloseDone)
  /\ \A c \in Callers : WF_vars(CallSteps(c) \/ DeadlinePasses(c))
  /\ \A s \in Setters : WF_vars(SetRevoke(s) \/ SetAbort(s) \/ SetWrite(s) \/ SetRelease(s))

----------------------------------------------------------------------------
(* Properties *)

CallAt == {"out", "check", "revoke", "prepare", "drain", "arm", "fence", "tune", "back",
           "join", "poll", "complete", "open", "stamp", "link", "certify", "data", "commit",
           "fail", "abort", "clear"}

InCall == {c \in Callers : call[c].at # "out"}

(* Types; the epoch ids keep clear of the id of a reset gate, and the call *)
(* count of the handle is the number of callers inside.                    *)
TypeOK ==
  /\ h.txn \in Nat /\ h.epoch \in 0..K /\ h.cert.id \in 0..K /\ h.readback \in 0..rf
  /\ {h.pending, h.waiting, h.setter, h.contract, h.epochReq, h.hostReq, h.certified,
      h.reported, h.closing, h.opened} \subseteq BOOLEAN
  /\ \A c \in Callers : call[c].at \in CallAt /\ call[c].txn \in 0..h.txn
  /\ \A s \in Setters : set[s].at \in {"out", "revoke", "abort", "write", "release", "runs"}
  /\ mon.at \in {"idle", "saw", "abort", "release"}
  /\ gate.st \in {"ACTIVE", "PENDING", "WAIT", "ACTIVE_NEW", "ERROR"}
  /\ gate.id \in 0..K /\ gate.cmd \subseteq {"arm", "complete", "abort"}
  /\ rx.at \in {"idle", "parsed"}
  /\ h.calls = Cardinality(InCall)
  /\ h.certified => h.cert.id # 0

(* The contract of the API: every sample of a buffer that is admitted was  *)
(* taken under the configuration the certificate was issued for.           *)
DeliveredCertified == rx.ok

(* Nobody changes the RFIC while an epoch is certified. *)
RevokedBeforeWrite == h.certified => rf = h.cert.cfg

(* "A transition begin must not slip between invalidation and the RFIC     *)
(* write" (rf_transition.c): the configuration has one owner at a time, a  *)
(* transition, a setter or the fault monitor.                              *)
Owners ==
  {s \in Setters : set[s].at \in {"revoke", "abort", "write", "release"}}
    \cup {x \in {"monitor"} : mon.at \in {"abort", "release"}}
    \cup {x \in {"transition"} : h.pending}

OneOwner == Cardinality(Owners) <= 1

(* A gate that is lost after certification takes the certificate with it.  *)
FaultNoticed ==
  (h.opened /\ h.certified /\ (gate.st = "ERROR" \/ gate.id # h.cert.id))
    ~> ~ (h.opened /\ h.certified)

(* bladerf_close() gets every transition call out and returns. *)
CloseEnds == h.closing ~> ~ h.opened
===============================================================================
