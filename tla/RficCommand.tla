---------------------------- MODULE RficCommand ----------------------------
(***************************************************************************)
(* RFIC commands run by the NIOS II: the host side of a tagged write       *)
(* (_rfic_cmd_write(), _rfic_resolve_pending_write() and the waits in      *)
(* rfic_fpga.c) over a transport that loses requests and answers, and the  *)
(* firmware's stop-and-wait queue with its retained, acknowledged result   *)
(* (devices_rfic.c, devices_rfic_queue.c, devices_rfic_cmds.c).            *)
(*                                                                         *)
(* Every USB read and write is a step of its own, so that the worker, a    *)
(* reboot of the NIOS image or the end of the host process can fall        *)
(* between any two. The device lock admits one call at a time. A command   *)
(* is a name for its address and payload. Firmware and library have the    *)
(* current capabilities. sub, runs, void, told and heard are              *)
(* history: a submission is one command the host tried to hand over.       *)
(***************************************************************************)
EXTENDS Naturals, FiniteSets

CONSTANTS Commands,    \* what callers ask for
          MaxId,       \* transaction identifiers wrap after this one
          MaxCalls,    \* bound on the calls
          MaxCrashes,  \* bound on the ends of the host process
          MaxReboots,  \* bound on the reboots of the NIOS image
          MaxTicks,    \* bound on the polls of a resumable callback
          None

\* A queue entry and a pending record: None stands for neither.
Entries == [id : Nat, cmd : Commands \cup {None}, sub : Nat,
            st : {"new", "running", "complete"}, res : {"none", "ok", "failed"}]
Records == [adopted : BOOLEAN, id : Nat, cmd : Commands \cup {None}, seq : Nat, sub : Nat,
            rstat : {"none", "ok", "failed"}]

ASSUME ConstantsAssumption ==
    /\ None \notin Commands \cup Entries \cup Records
    /\ MaxId \in Nat \ {0, 1}
    /\ {MaxCalls, MaxCrashes, MaxReboots, MaxTicks} \subseteq Nat

VARIABLES q,      \* the write queue of the firmware and its retained result
          nonce,  \* the boot nonce: 0, or the number of the boot it was stamped in
          boot,   \* the number of the running boot
          hp,     \* the host's record of a command without an outcome, or None
          hn,     \* the nonce the host recorded, 0 when not valid
          c,      \* the call in progress
          n,      \* calls, submissions and crashes so far
          runs,   \* what ran: [sub, boot, res]
          void,   \* submissions reported as refused
          told,   \* the last answer that says something
          heard   \* failures a caller was told of

devVars  == <<q, nonce, boot, runs>>
hostVars == <<hp, hn, c, void, told, heard>>
vars == <<q, nonce, boot, hp, hn, c, n, runs, void, told, heard>>

Submissions == 1..MaxCalls

\* rfic_queue_reset(). WQSUCCESS is the low bit of last_rv, 0xFF at reset.
EmptyQueue == [ent |-> None, last |-> 0, lastcmd |-> None, lastsub |-> 0,
               ok |-> TRUE, valid |-> FALSE, res |-> "none", seq |-> 0,
               ackid |-> 0, ackseq |-> 0, prog |-> 0]

NoStatus == [len |-> 0, ok |-> TRUE, valid |-> FALSE, seq |-> 0]
NoTrans  == [act |-> 0, last |-> 0, seq |-> 0, asub |-> 0, lsub |-> 0]

Idle == [pc |-> "idle", req |-> None, k |-> "submit", same |-> FALSE,
         st |-> NoStatus, ts |-> NoTrans, ctx |-> "none", exp |-> TRUE,
         res |-> "unknown", watch |-> None]

Nothing == [sub |-> 0, res |-> "unknown"]

Init ==
    /\ q = EmptyQueue /\ nonce = 0 /\ boot = 1
    /\ hp = None /\ hn = 0 /\ c = Idle
    /\ n = [calls |-> 0, subs |-> 0, crashes |-> 0]
    /\ runs = {} /\ void = {} /\ heard = {}
    /\ told = Nothing

---------------------------------------------------------------------------
\* What the firmware answers

Status == [len |-> IF q.ent = None THEN 0 ELSE 1, ok |-> q.ok,
           valid |-> q.valid, seq |-> q.seq]

TransactionStatus ==
    [act  |-> IF q.ent = None THEN 0 ELSE q.ent.id, last |-> q.last, seq |-> q.seq,
     asub |-> IF q.ent = None THEN 0 ELSE q.ent.sub, lsub |-> q.lastsub]

\* PROGRESS: the active command, or the retained result of the last one.
Progress ==
    IF q.ent # None THEN [id |-> q.ent.id, res |-> "running"]
                    ELSE [id |-> q.last, res |-> q.res]

\* rfic_find_transaction(): 1, -1 and 0 of the code.
Find(id, cmd) ==
    CASE q.ent # None /\ q.ent.id = id -> IF q.ent.cmd = cmd THEN "same" ELSE "other"
      [] ~(q.ent # None /\ q.ent.id = id) /\ q.last = id ->
             IF q.lastcmd = cmd THEN "same" ELSE "other"
      [] OTHER -> "new"

\* bladerf_rfic_tagged_write_allowed()
Room == q.ent = None /\ ~(q.valid /\ q.last # 0)

\* A tagged write is dispatched: what is answered, and what becomes of the
\* queue. A retune or a callback that owns the RFIC makes it BUSY unless it is
\* a duplicate; a latched calibration fault makes it REJECTED.
Admit(id, cmd, sub, ans) ==
    LET f == Find(id, cmd) IN
    \/ f = "same" /\ ans = "accepted" /\ UNCHANGED q
    \/ f = "other" /\ ans = "rejected" /\ UNCHANGED q
    \/ ans = "rejected" /\ UNCHANGED q
    \/ f # "same" /\ ans = "busy" /\ UNCHANGED q
    \/ f = "new" /\ ~Room /\ ans = "full" /\ UNCHANGED q
    \/ /\ f = "new" /\ Room /\ ans = "accepted"
       /\ q' = [q EXCEPT !.ent = [id |-> id, cmd |-> cmd, sub |-> sub,
                                  st |-> "new", res |-> "none"]]

\* rfic_command_ack_result()
AckKnown(id, seq) == q.ackid = id /\ q.ackseq = seq
AckFits(id, seq) ==
    q.valid /\ q.ent = None /\ q.last = id /\ q.seq = seq /\ q.res # "none"
AckResult(id, seq, ans) ==
    \/ AckKnown(id, seq) /\ ans = "accepted" /\ UNCHANGED q
    \/ /\ ~AckKnown(id, seq) /\ AckFits(id, seq) /\ ans = "accepted"
       /\ q' = [q EXCEPT !.valid = FALSE, !.res = "none", !.ackid = id, !.ackseq = seq]
    \/ ~AckKnown(id, seq) /\ ~AckFits(id, seq) /\ ans = "rejected" /\ UNCHANGED q

---------------------------------------------------------------------------
\* The firmware's worker

\* rfic_command_work_wq() on a NEW entry.
Start ==
    /\ q.ent # None /\ q.ent.st = "new"
    /\ q' = [q EXCEPT !.ent.st = "running", !.prog = @ + 1]
    /\ UNCHANGED <<nonce, boot, hostVars, n, runs>>

\* A poll of a resumable callback that is still in progress.
Tick ==
    /\ q.ent # None /\ q.ent.st = "running" /\ q.prog < MaxTicks
    /\ q' = [q EXCEPT !.prog = @ + 1]
    /\ UNCHANGED <<nonce, boot, hostVars, n, runs>>

\* The callback ends: the result is final, the entry COMPLETE.
Finish ==
    /\ q.ent # None /\ q.ent.st = "running"
    /\ \E r \in {"ok", "failed"} :
         /\ q' = [q EXCEPT !.ent.st = "complete", !.ent.res = r, !.prog = @ + 1]
         /\ runs' = runs \cup {[sub |-> q.ent.sub, boot |-> boot, res |-> r]}
    /\ UNCHANGED <<nonce, boot, hostVars, n>>

\* The next call of the worker retires the COMPLETE entry.
Retire ==
    /\ q.ent # None /\ q.ent.st = "complete"
    /\ q' = [q EXCEPT !.ent = None, !.last = q.ent.id, !.lastcmd = q.ent.cmd,
                      !.lastsub = q.ent.sub, !.ok = (q.ent.res = "ok"),
                      !.valid = TRUE, !.res = q.ent.res, !.seq = @ + 1]
    /\ UNCHANGED <<nonce, boot, hostVars, n, runs>>

\* NIOS reset or FPGA reconfiguration: rfic_command_init(), no nonce.
Reboot ==
    /\ boot <= MaxReboots
    /\ q' = EmptyQueue /\ nonce' = 0 /\ boot' = boot + 1
    /\ UNCHANGED <<hostVars, n, runs>>

---------------------------------------------------------------------------
\* How a call goes on and ends

Goto(pc) == c' = [c EXCEPT !.pc = pc]

\* Nothing is told and the pending record becomes p.
Quiet(p) == hp' = p /\ UNCHANGED <<void, told, heard>>

Keep == UNCHANGED <<hp, void, told, heard>>

\* The call returns r, an answer about submission s, leaving the record p.
Return(s, r, p) ==
    /\ c' = Idle /\ hp' = p
    /\ told' = IF r = "unknown" THEN Nothing ELSE [sub |-> s, res |-> r]
    /\ void' = IF r = "refused" THEN void \cup {s} ELSE void
    /\ heard' = IF r = "failed" THEN heard \cup {s} ELSE heard

GiveUp == Return(0, "unknown", hp)

\* _rfic_cmd_write() after _rfic_resolve_pending_write() returned r.
ResolveReturn(r, p) ==
    IF p # None \/ c.same \/ r # "ok"
    THEN Return(hp.sub, IF p # None /\ r = "ok" /\ ~c.same THEN "unknown" ELSE r, p)
    ELSE /\ c' = [Idle EXCEPT !.pc = IF c.k = "adopt" THEN "st2" ELSE "nonce",
                              !.req = c.req, !.k = c.k]
         /\ Quiet(p)

\* The callers of _rfic_fpga_spinwait_for() after it returned r.
SpinReturn(retired, r) ==
    LET p == IF retired THEN None ELSE hp
        s == IF ~retired /\ hp.rstat # "none" THEN hp.rstat ELSE r IN
    IF c.k = "submit" THEN Return(hp.sub, s, p) ELSE ResolveReturn(s, p)

\* _rfic_fpga_pending_boot_check() found another boot: the record is dropped.
Lost == Return(hp.sub, "unknown", None) /\ hn' = 0

Spin == c' = [Idle EXCEPT !.pc = "s_st", !.req = c.req, !.k = c.k, !.same = c.same]

\* _rfic_fpga_ack_retired_result() begins.
Ack(ctx, exp, res) ==
    c' = [c EXCEPT !.pc = "a_ts", !.ctx = ctx, !.exp = exp, !.res = res,
                   !.st = NoStatus, !.ts = IF ctx = "orphan" THEN c.ts ELSE NoTrans,
                   !.watch = None]

\* Mutant: the identifier does not wrap.
NextIdUnwrapped(last) == last + 1

\* bladerf2_rfic_next_transaction_id()
NextId(last) == IF last = MaxId THEN 1 ELSE last + 1

Pending(adopted, id, cmd, seq, sub) ==
    [adopted |-> adopted, id |-> id, cmd |-> cmd, seq |-> seq, sub |-> sub,
     rstat |-> "none"]

\* The record of the new command is made before it is written.
Submit(last, seq) ==
    /\ c' = [Idle EXCEPT !.pc = "write", !.req = c.req]
    /\ n' = [n EXCEPT !.subs = @ + 1]
    /\ hp' = Pending(FALSE, NextId(last), c.req, seq + 1, n.subs + 1)
    /\ UNCHANGED <<void, told, heard>>

\* What the callers of _rfic_fpga_ack_retired_result() do with its status.
AckReturn(ok) ==
    CASE c.ctx = "spin" ->
           /\ IF ok THEN SpinReturn(TRUE, c.res) ELSE SpinReturn(FALSE, "unknown")
           /\ UNCHANGED n
      [] c.ctx = "resolve" ->
           /\ IF ok THEN ResolveReturn(c.res, None)
                    ELSE ResolveReturn(IF c.res = "ok" THEN "unknown" ELSE c.res, hp)
           /\ UNCHANGED n
      [] c.ctx = "orphan" /\ ~ok ->
           /\ IF ~c.exp /\ hp.rstat # "none" THEN Return(hp.sub, hp.rstat, hp) ELSE GiveUp
           /\ UNCHANGED n
      [] c.ctx = "orphan" /\ ok ->
           IF ~c.exp THEN Return(hp.sub, c.res, None) /\ UNCHANGED n
                     ELSE Submit(c.ts.last, c.ts.seq)

---------------------------------------------------------------------------
\* _rfic_cmd_write() up to the submission

Call(cmd) ==
    /\ c.pc = "idle" /\ n.calls < MaxCalls
    /\ c' = [Idle EXCEPT !.pc = "st0", !.req = cmd]
    /\ n' = [n EXCEPT !.calls = @ + 1]
    /\ UNCHANGED <<devVars, hp, hn, void, told, heard>>

\* STATUS, and whether an unresolved command comes first.
ReadFirst ==
    /\ c.pc = "st0" /\ Keep
    /\ c' = IF hp = None THEN [c EXCEPT !.pc = "nonce"]
            ELSE [c EXCEPT !.pc = "r_boot", !.k = "retry",
                           !.same = ~hp.adopted /\ hp.cmd = c.req]
    /\ UNCHANGED <<devVars, hn, n>>

\* _rfic_fpga_boot_nonce_refresh()
RefreshNonce ==
    /\ c.pc = "nonce" /\ Keep
    /\ IF nonce = 0 THEN Goto("n_wr") /\ UNCHANGED hn
                    ELSE Goto("st1") /\ hn' = nonce
    /\ UNCHANGED <<devVars, n>>

\* The first stamp stays; the answer may be lost.
StampNonce ==
    /\ c.pc = "n_wr" /\ nonce' = IF nonce = 0 THEN boot ELSE nonce
    /\ \/ Goto("n_rd") /\ Keep
       \/ GiveUp
    /\ UNCHANGED <<q, boot, runs, hn, n>>

RereadNonce ==
    /\ c.pc = "n_rd"
    /\ IF nonce = 0 THEN GiveUp /\ UNCHANGED hn
                    ELSE Goto("st1") /\ Keep /\ hn' = nonce
    /\ UNCHANGED <<devVars, n>>

ReadStatus(from, to) ==
    /\ c.pc = from /\ c' = [c EXCEPT !.pc = to, !.st = Status] /\ Keep
    /\ UNCHANGED <<devVars, hn, n>>

\* TRANSACTION_STATUS: a mixed snapshot blocks, a retained result is drained,
\* an active command is adopted, otherwise the command is submitted.
Snapshot ==
    /\ c.pc = "ts1"
    /\ LET t == TransactionStatus  s == c.st IN
       CASE t.seq # s.seq -> GiveUp /\ UNCHANGED n
         [] t.seq = s.seq /\ s.len = 0 /\ s.valid /\ t.last # 0 ->
              c' = [c EXCEPT !.pc = "o_pr", !.ts = t] /\ Keep /\ UNCHANGED n
         [] t.seq = s.seq /\ s.len # 0 /\ t.act = 0 -> GiveUp /\ UNCHANGED n
         [] t.seq = s.seq /\ s.len # 0 /\ t.act # 0 ->
              /\ c' = [Idle EXCEPT !.pc = "r_boot", !.req = c.req, !.k = "adopt"]
              /\ Quiet(Pending(TRUE, t.act, None, t.seq + 1, t.asub))
              /\ UNCHANGED n
         [] OTHER -> Submit(t.last, s.seq)
    /\ UNCHANGED <<devVars, hn>>

\* The retained result of a command nobody waits for any more.
ReadOrphan ==
    /\ c.pc = "o_pr"
    /\ LET p == Progress IN
       IF p.id # c.ts.last \/ p.res = "none" \/ (p.res = "ok") # c.st.ok
       THEN GiveUp
       ELSE /\ Ack("orphan", c.st.ok, p.res)
            /\ Quiet(Pending(TRUE, c.ts.last, None, c.ts.seq, c.ts.lsub))
    /\ UNCHANGED <<devVars, hn, n>>

\* After an adopted command was resolved.
ReadAgain ==
    /\ c.pc = "st2"
    /\ IF Status.len # 0 THEN GiveUp
                         ELSE c' = [c EXCEPT !.pc = "ts2", !.st = Status] /\ Keep
    /\ UNCHANGED <<devVars, hn, n>>

SnapshotAgain ==
    /\ c.pc = "ts2"
    /\ LET t == TransactionStatus IN
       IF t.act # 0 \/ t.seq # c.st.seq THEN GiveUp /\ UNCHANGED n
                                        ELSE Submit(t.last, c.st.seq)
    /\ UNCHANGED <<devVars, hn>>

\* Mutant: a write without an answer counts as refused.
AnyErrorRefuses ==
    /\ c.pc = "write"
    /\ \/ UNCHANGED q /\ Return(hp.sub, "refused", None)
       \/ \E ans \in {"accepted", "rejected", "busy", "full"} :
            /\ Admit(hp.id, hp.cmd, hp.sub, ans)
            /\ \/ Return(hp.sub, "refused", None)
               \/ ans = "accepted" /\ Spin /\ Keep
    /\ UNCHANGED <<nonce, boot, runs, hn, n>>

\* The write itself. Without an answer (it may have been lost on the way out
\* or back) the record is kept; a refusal is final.
Write ==
    /\ c.pc = "write"
    /\ \/ UNCHANGED q /\ GiveUp
       \/ \E ans \in {"accepted", "rejected", "busy", "full"} :
            /\ Admit(hp.id, hp.cmd, hp.sub, ans)
            /\ \/ GiveUp
               \/ ans = "accepted" /\ Spin /\ Keep
               \/ ans # "accepted" /\ Return(hp.sub, "refused", None)
    /\ UNCHANGED <<nonce, boot, runs, hn, n>>

---------------------------------------------------------------------------
\* _rfic_resolve_pending_write()

CheckBoot ==
    /\ c.pc = "r_boot"
    /\ IF hn # 0 /\ nonce # hn THEN Lost ELSE Goto("r_ts") /\ Keep /\ UNCHANGED hn
    /\ UNCHANGED <<devVars, n>>

ResolveTrans ==
    /\ c.pc = "r_ts" /\ c' = [c EXCEPT !.pc = "r_st", !.ts = TransactionStatus] /\ Keep
    /\ UNCHANGED <<devVars, hn, n>>

\* STATUS completes the snapshot; the comparisons in the code's order.
Resolve ==
    /\ c.pc = "r_st"
    /\ LET s == Status  t == c.ts
           drop == ResolveReturn("unknown", None)
           wait == ResolveReturn("unknown", hp) IN
       IF s.seq # t.seq THEN wait
       ELSE IF s.len = 0 /\ t.seq = hp.seq THEN
         CASE t.last # hp.id \/ t.act # 0 -> drop
           [] t.last = hp.id /\ t.act = 0 /\ ~s.valid ->
                IF hp.rstat # "none" THEN Goto("r_ack") /\ Keep ELSE drop
           [] OTHER ->
                Keep /\ IF s.ok THEN Ack("resolve", TRUE, "ok") ELSE Goto("r_pr")
       ELSE IF s.len # 0 THEN
         IF t.act # hp.id \/ t.seq + 1 # hp.seq THEN wait ELSE Spin /\ Keep
       ELSE IF t.seq + 1 # hp.seq \/ t.act # 0 \/ t.last = hp.id THEN drop
       ELSE Goto("r_wr") /\ Keep
    /\ UNCHANGED <<devVars, hn, n>>

\* The result record of the failed command; when it cannot be correlated the
\* record is dropped without an acknowledgement.
ResolveResult ==
    /\ c.pc = "r_pr"
    /\ LET p == Progress IN
       IF p.id # hp.id \/ p.res = "none" THEN ResolveReturn("unknown", None)
       ELSE Keep /\ Ack("resolve", FALSE, IF p.res = "failed" THEN "failed" ELSE "unknown")
    /\ UNCHANGED <<devVars, hn, n>>

\* The outcome is known and only the acknowledgement was in doubt: once more.
AckAgain ==
    /\ c.pc = "r_ack"
    /\ \/ UNCHANGED q /\ ResolveReturn(hp.rstat, hp)
       \/ \E ans \in {"accepted", "rejected"} :
            /\ AckResult(hp.id, hp.seq, ans)
            /\ \/ ResolveReturn(hp.rstat, hp)
               \/ ans = "accepted" /\ ResolveReturn(hp.rstat, None)
    /\ UNCHANGED <<nonce, boot, runs, hn, n>>

\* The same token and payload are sent again.
Resend ==
    /\ c.pc = "r_wr"
    /\ \/ UNCHANGED q /\ ResolveReturn("unknown", hp)
       \/ \E ans \in {"accepted", "rejected", "busy", "full"} :
            /\ Admit(hp.id, hp.cmd, hp.sub, ans)
            /\ \/ ResolveReturn("unknown", hp)
               \/ ans = "accepted" /\ Spin /\ Keep
               \/ ans = "full" /\ ResolveReturn("refused", None)
    /\ UNCHANGED <<nonce, boot, runs, hn, n>>

---------------------------------------------------------------------------
\* _rfic_fpga_spinwait_for()

\* Mutant: an active command is polled without the stall watch.
PollUnwatched ==
    /\ c.pc = "s_ts"
    /\ LET s == c.st  t == TransactionStatus IN
       Goto(IF t.seq = s.seq /\ s.len = 0
            THEN IF t.seq = hp.seq /\ t.act = 0 /\ t.last = hp.id THEN "s_boot" ELSE "s_odd"
            ELSE "s_st")
    /\ Keep /\ UNCHANGED <<devVars, hn, n>>

\* The two snapshots compared.
Poll ==
    /\ c.pc = "s_ts"
    /\ LET s == c.st  t == TransactionStatus IN
       Goto(IF t.seq # s.seq THEN "s_st"
            ELSE IF s.len = 0
            THEN IF t.seq = hp.seq /\ t.act = 0 /\ t.last = hp.id THEN "s_boot" ELSE "s_odd"
            ELSE IF t.act = hp.id /\ t.seq + 1 = hp.seq THEN "s_chk" ELSE "s_odd")
    /\ Keep /\ UNCHANGED <<devVars, hn, n>>

\* _rfic_fpga_retirement_mismatch()
Mismatch ==
    /\ c.pc = "s_odd"
    /\ IF hn # 0 /\ nonce # hn THEN Lost
                               ELSE SpinReturn(FALSE, "unknown") /\ UNCHANGED hn
    /\ UNCHANGED <<devVars, n>>

\* Our identifier and sequence retired: is it still our boot, and how did it
\* end? A success needs the validity bit.
Retired ==
    /\ c.pc = "s_boot"
    /\ IF hn # 0 /\ nonce # hn THEN Lost
       ELSE /\ UNCHANGED hn
            /\ CASE c.st.valid /\ c.st.ok  -> Ack("spin", TRUE, "ok") /\ Keep
                 [] c.st.valid /\ ~c.st.ok -> Goto("s_pr") /\ Keep
                 [] OTHER                  -> SpinReturn(FALSE, "unknown")
    /\ UNCHANGED <<devVars, n>>

FailureResult ==
    /\ c.pc = "s_pr"
    /\ LET p == Progress IN
       IF p.id = hp.id /\ p.res \notin {"none", "ok"}
       THEN Ack("spin", FALSE, "failed") /\ Keep
       ELSE SpinReturn(FALSE, "unknown")
    /\ UNCHANGED <<devVars, hn, n>>

\* _rfic_fpga_check_stall(): retired meanwhile, progress seen, or the budget is
\* not used up. The interval between two checks is left out: every poll checks.
CheckStall ==
    /\ c.pc = "s_chk" /\ Keep
    /\ c' = [c EXCEPT !.pc = "s_st", !.st = NoStatus,
                      !.watch = IF Progress.id = hp.id THEN q.prog ELSE @]
    /\ UNCHANGED <<devVars, hn, n>>

\* The counter has not moved for the whole budget.
StallExpires ==
    /\ c.pc = "s_chk" /\ Progress.id = hp.id /\ c.watch = q.prog
    /\ SpinReturn(FALSE, "unknown")
    /\ UNCHANGED <<devVars, hn, n>>

---------------------------------------------------------------------------
\* _rfic_fpga_ack_retired_result()

AckTrans ==
    /\ c.pc = "a_ts"
    /\ LET t == TransactionStatus IN
       IF t.act = 0 /\ t.last = hp.id /\ t.seq = hp.seq
       THEN Goto("a_pr") /\ Keep /\ UNCHANGED n ELSE AckReturn(FALSE)
    /\ UNCHANGED <<devVars, hn>>

\* Mutant: the acknowledgement is sent before the outcome is recorded.
AckFirst ==
    /\ c.pc = "a_pr"
    /\ LET p == Progress IN
       IF p.id # hp.id \/ p.res = "none" \/ (p.res = "ok") # c.exp
       THEN AckReturn(FALSE)
       ELSE Goto("a_wr") /\ Keep /\ UNCHANGED n
    /\ UNCHANGED <<devVars, hn>>

\* The outcome goes into the record before the acknowledgement is sent.
AckProgress ==
    /\ c.pc = "a_pr"
    /\ LET p == Progress IN
       IF p.id # hp.id \/ p.res = "none" \/ (p.res = "ok") # c.exp
       THEN AckReturn(FALSE)
       ELSE Goto("a_wr") /\ Quiet([hp EXCEPT !.rstat = p.res]) /\ UNCHANGED n
    /\ UNCHANGED <<devVars, hn>>

AckWrite ==
    /\ c.pc = "a_wr"
    /\ \/ UNCHANGED q /\ AckReturn(FALSE)
       \/ \E ans \in {"accepted", "rejected"} :
            /\ AckResult(hp.id, hp.seq, ans)
            /\ \/ AckReturn(FALSE)
               \/ ans = "accepted" /\ AckReturn(TRUE)
    /\ UNCHANGED <<nonce, boot, runs, hn>>

---------------------------------------------------------------------------
\* A read fails: every caller gives up in its own way.
ReadFails ==
    /\ \/ /\ c.pc \in {"st0", "nonce", "n_rd", "st1", "ts1", "o_pr", "st2", "ts2"}
          /\ GiveUp /\ UNCHANGED n
       \/ c.pc \in {"r_boot", "r_ts", "r_st"} /\ ResolveReturn("unknown", hp) /\ UNCHANGED n
       \/ c.pc = "r_pr" /\ ResolveReturn("unknown", None) /\ UNCHANGED n
       \/ /\ c.pc \in {"s_st", "s_ts", "s_odd", "s_boot", "s_pr", "s_chk"}
          /\ SpinReturn(FALSE, "unknown") /\ UNCHANGED n
       \/ c.pc \in {"a_ts", "a_pr"} /\ AckReturn(FALSE)
    /\ UNCHANGED <<devVars, hn>>

\* The host process ends; its memory is gone and with it what the record knew.
Crash ==
    /\ n.crashes < MaxCrashes
    /\ n' = [n EXCEPT !.crashes = @ + 1]
    /\ hp' = None /\ hn' = 0 /\ c' = Idle /\ UNCHANGED <<void, told>>
    /\ heard' = IF hp # None /\ hp.rstat = "failed" THEN heard \cup {hp.sub} ELSE heard
    /\ UNCHANGED devVars

Worker == Start \/ Tick \/ Finish \/ Retire

Host ==
    \/ ReadFirst \/ RefreshNonce \/ StampNonce \/ RereadNonce
    \/ ReadStatus("st1", "ts1") \/ Snapshot \/ ReadOrphan
    \/ ReadAgain \/ SnapshotAgain \/ Write
    \/ CheckBoot \/ ResolveTrans \/ Resolve \/ ResolveResult \/ AckAgain \/ Resend
    \/ ReadStatus("s_st", "s_ts") \/ Poll \/ Mismatch \/ Retired \/ FailureResult
    \/ CheckStall \/ StallExpires
    \/ AckTrans \/ AckProgress \/ AckWrite \/ ReadFails

Next == (\E cmd \in Commands : Call(cmd)) \/ Host \/ Worker \/ Reboot \/ Crash

\* The host is scheduled, and a budget that stays exceeded is noticed. Nothing
\* is assumed of the worker: a callback may hang.
Fairness == WF_vars(Host) /\ SF_vars(StallExpires)

Spec == Init /\ [][Next]_vars /\ Fairness

---------------------------------------------------------------------------
\* Properties

Results == {"none", "ok", "failed"}
Answers == {"ok", "failed", "refused", "unknown"}
Pcs == {"idle", "st0", "nonce", "n_wr", "n_rd", "st1", "ts1", "o_pr", "st2", "ts2",
        "write", "r_boot", "r_ts", "r_st", "r_pr", "r_ack", "r_wr", "s_st", "s_ts",
        "s_odd", "s_boot", "s_pr", "s_chk", "a_ts", "a_pr", "a_wr"}
Ids == 0..MaxId
Seqs == 0..(MaxCalls + 1)
Subs == 0..MaxCalls

\* Every variable has its type: identifiers stay inside their range when they
\* wrap, and a wait or an acknowledgement always has the record it works on.
TypeOK ==
    /\ q.ent # None => /\ q.ent.id \in Ids \ {0} /\ q.ent.cmd \in Commands \cup {None}
                       /\ q.ent.sub \in Submissions /\ q.ent.res \in Results
                       /\ q.ent.st \in {"new", "running", "complete"}
    /\ q.last \in Ids /\ q.lastsub \in Subs /\ q.seq \in Seqs /\ q.res \in Results
    /\ q.ackid \in Ids /\ q.ackseq \in Seqs /\ {q.ok, q.valid} \subseteq BOOLEAN
    /\ nonce \in {0, boot} /\ boot \in 1..(MaxReboots + 1) /\ hn \in 0..boot
    /\ hp # None => /\ hp.id \in Ids \ {0} /\ hp.seq \in Seqs /\ hp.sub \in Submissions
                    /\ hp.rstat \in Results /\ hp.adopted \in BOOLEAN
    /\ c.pc \in Pcs /\ c.k \in {"submit", "retry", "adopt"}
    /\ c.pc \in {"write", "r_boot", "r_ts", "r_st", "r_pr", "r_ack", "r_wr", "s_st", "s_ts",
                 "s_odd", "s_boot", "s_pr", "s_chk", "a_ts", "a_pr", "a_wr"} => hp # None
    /\ c.pc \in {"nonce", "n_wr", "n_rd", "st1", "ts1", "o_pr", "st2", "ts2"} => hp = None
    /\ told.sub \in Subs /\ told.res \in Answers

\* What callers are promised: a submission runs at most once in a boot, "ok"
\* and "failed" are told only of a submission that ended so, and one reported
\* as refused never runs - across lost answers, retries of the write and of the
\* acknowledgement, orphans of an earlier process and reboots.
Service == INSTANCE RficService WITH
               ran    <- {r.sub : r \in {x \in runs : x.boot = boot}},
               won    <- {r.sub : r \in {x \in runs : x.res = "ok"}},
               failed <- {r.sub : r \in {x \in runs : x.res = "failed"}}
ServiceSpec == Service!Spec

\* A command that failed in this boot is never forgotten: until a caller was
\* told of the failure the firmware still holds the result, or the host's
\* record does.
FailureReported ==
    \A r \in runs : r.boot = boot /\ r.res = "failed" =>
        \/ r.sub \in heard
        \/ q.ent # None /\ q.ent.sub = r.sub
        \/ q.valid /\ q.lastsub = r.sub
        \/ hp # None /\ hp.sub = r.sub /\ hp.rstat = "failed"

\* Every call returns, even when the callback hangs: the waits poll until
\* retirement without a deadline, and only the stall watch ends them.
CallReturns == (c.pc # "idle") ~> (c.pc = "idle")

\* "[...] drop the record and fail instead of waiting on, or re-sending to, the
\* new image" (rfic_fpga.c, _rfic_fpga_pending_boot_check()): a submission that
\* ran under one boot does not run under another.  Refuted: a reboot between the
\* nonce check and the queue snapshot goes unseen.
NotResent == \A r1, r2 \in runs : r1.sub = r2.sub => r1.boot = r2.boot
=============================================================================
