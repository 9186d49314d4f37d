------------------------- MODULE RficCommand_proofs -------------------------
(***************************************************************************)
(* Proofs about the RFIC commands of module RficCommand, for every set of  *)
(* commands, every range of identifiers and every bound on calls, crashes  *)
(* of the host process and reboots of the NIOS image:                      *)
(*                                                                         *)
(*   TypeCorrect      the types, with identifiers that wrap,               *)
(*   FailuresReach    a failure is never forgotten,                        *)
(*   ServiceProvided  the commands implement module RficService.           *)
(*                                                                         *)
(* The inductive invariant says what the host may conclude from what it    *)
(* read before: while it holds a record the queue can only hold the same   *)
(* submission, an identifier stands for one submission, and between two of *)
(* its reads the queue changes only by the worker or a reboot.             *)
(***************************************************************************)
EXTENDS RficCommand, TLAPS

-----------------------------------------------------------------------------
(* The shape of the state.                                                 *)

Kinds   == {"submit", "retry", "adopt"}
Entry   == [id : Ids \ {0}, cmd : Commands \cup {None}, sub : Submissions,
            st : {"new", "running", "complete"}, res : Results]
Queue   == [ent : Entry \cup {None}, last : Ids, lastcmd : Commands \cup {None}, lastsub : Subs,
            ok : BOOLEAN, valid : BOOLEAN, res : Results, seq : Subs, ackid : Ids,
            ackseq : Seqs, prog : Nat]
Record  == [adopted : BOOLEAN, id : Ids \ {0}, cmd : Commands \cup {None}, seq : Seqs,
            sub : Submissions, rstat : Results]
StatusT == [len : {0, 1}, ok : BOOLEAN, valid : BOOLEAN, seq : Subs]
TransT  == [act : Ids, last : Ids, seq : Subs, asub : Subs, lsub : Subs]
CallT   == [pc : Pcs, req : Commands \cup {None}, k : Kinds, same : BOOLEAN, st : StatusT,
            ts : TransT, ctx : {"none", "spin", "resolve", "orphan"}, exp : BOOLEAN,
            res : Answers, watch : Nat \cup {None}]
Boots   == 1 .. (MaxReboots + 1)
Run     == [sub : Submissions, boot : Boots, res : {"ok", "failed"}]
Count   == [calls : Subs, subs : Subs, crashes : Nat]

RPcs == {"r_boot", "r_ts", "r_st", "r_pr", "r_ack", "r_wr"}      \* resolving
SPcs == {"s_st", "s_ts", "s_odd", "s_boot", "s_pr", "s_chk"}     \* waiting
APcs == {"a_ts", "a_pr", "a_wr"}                                 \* acknowledging
Before == {"nonce", "n_wr", "n_rd", "st1", "ts1", "o_pr", "st2", "ts2"}

ResOf(ok) == IF ok THEN "ok" ELSE "failed"
Ran(s)  == \E r \in runs : r.sub = s /\ r.boot = boot
Won(s)  == \E r \in runs : r.sub = s /\ r.res = "ok"
Lost1(s) == \E r \in runs : r.sub = s /\ r.res = "failed"
Ended(ok, s) == IF ok THEN Won(s) ELSE Lost1(s)

\* What has run: at most once in a boot, and only what was submitted.
World ==
  /\ runs \subseteq Run /\ boot \in Boots /\ n \in Count /\ n.subs <= n.calls
  /\ \A r \in runs : r.boot <= boot /\ r.sub <= n.subs
  /\ \A r1, r2 \in runs : r1.sub = r2.sub /\ r1.boot = r2.boot => r1 = r2

Stamps == nonce \in {0, boot} /\ hn \in 0 .. boot

\* The active command is newer than the retired one, has another identifier
\* and has not run in this boot before.
Active(Q, V) ==
  Q.ent # None =>
    /\ Q.ent.id # Q.last /\ Q.lastsub < Q.ent.sub /\ Q.ent.sub <= n.subs /\ ~Q.valid
    /\ Q.ent.sub \notin V
    /\ Q.ent.st # "complete" => ~Ran(Q.ent.sub)
    /\ Q.ent.st = "complete" =>
         /\ Q.ent.res \in {"ok", "failed"}
         /\ [sub |-> Q.ent.sub, boot |-> boot, res |-> Q.ent.res] \in runs

\* The retired command ran in this boot and ended as retained.
Last(Q, V) ==
  /\ Q.last = 0 <=> Q.lastsub = 0
  /\ Q.lastsub <= n.subs /\ Q.seq <= Q.lastsub /\ Q.lastsub \notin V
  /\ Q.last # 0 => [sub |-> Q.lastsub, boot |-> boot, res |-> ResOf(Q.ok)] \in runs
  /\ Q.valid => Q.last # 0 /\ Q.res = ResOf(Q.ok)
  /\ ~Q.valid => Q.res = "none"

Device(Q, V) ==
  /\ Q \in Queue /\ V \subseteq Submissions /\ \A v \in V : v <= n.subs
  /\ Active(Q, V) /\ Last(Q, V)

\* While the host has a record the queue holds nothing newer, and its
\* identifier stands for its submission.
Rec(H, Q, V) ==
  H # None =>
    /\ H \in Record /\ H.sub <= n.subs /\ H.sub \notin V
    /\ Q.lastsub <= H.sub /\ (Q.last = H.id <=> Q.lastsub = H.sub)
    /\ Q.ent # None => Q.ent.id = H.id /\ Q.ent.sub = H.sub
    /\ Ran(H.sub) => Q.ent # None \/ Q.last = H.id
    /\ H.rstat = "ok" => Won(H.sub)
    /\ H.rstat = "failed" => Lost1(H.sub)

Reported(Q, H, D) ==
  \A r \in runs : r.boot = boot /\ r.res = "failed" =>
    \/ r.sub \in D
    \/ Q.ent # None /\ Q.ent.sub = r.sub
    \/ Q.valid /\ Q.lastsub = r.sub
    \/ H # None /\ H.sub = r.sub /\ H.rstat = "failed"

\* A recorded failure was told, unless its acknowledgement is on its way.
Kept(H, pc, D) == H # None /\ H.rstat = "failed" => H.sub \in D \/ pc = "a_wr"

HasRec(C, H) ==
  /\ C.pc \in {"write"} \cup RPcs \cup SPcs \cup APcs => H # None
  /\ C.pc \in Before => H = None

\* The call has yet to submit its own command.
Owing(C) ==
  /\ C.pc \notin {"idle", "write"}
  /\ ~(C.k = "submit" /\ C.pc \in SPcs \cup APcs /\ C.ctx # "orphan")
Owed(C) ==
  /\ Owing(C) => n.subs < n.calls
  /\ C.pc \in RPcs => C.k # "submit"
  /\ C.pc = "write" => C.k = "submit"
  /\ C.pc # "idle" => C.req \in Commands

\* What the call may still believe of what it read before.
Reading(C, H, Q) ==
  /\ C.pc = "write" => Q.ent = None /\ (\A r \in runs : r.sub # H.sub) /\ Q.lastsub # H.sub
  /\ C.pc = "ts1" /\ C.st.len = 0 => Q.ent = None
  /\ C.pc = "o_pr" => /\ Q.ent = None /\ C.ts.last # 0
                      /\ Q.last # 0 => Q.last = C.ts.last /\ Q.lastsub = C.ts.lsub
  /\ C.pc = "r_st" /\ C.ts.act = 0 => Q.ent = None /\ Q.last \in {0, C.ts.last}
  /\ C.pc = "s_ts" /\ C.st.len = 0 => Q.ent = None /\ (Q.last = 0 \/ Q.ok = C.st.ok)
  /\ C.pc = "s_boot" => Q.ent = None /\ Q.last \in {0, H.id} /\ Ended(C.st.ok, H.sub)
  /\ C.pc = "s_pr" => Q.ent = None /\ Q.last \in {0, H.id}
  /\ C.pc = "r_pr" => Q.ent = None /\ Q.last \in {0, H.id} /\ (Q.last = H.id => ~Q.ok)
  /\ C.pc = "r_ack" => Q.ent = None /\ ~Q.valid /\ H.rstat # "none"
  /\ C.pc \in APcs => /\ Q.ent = None /\ Q.last \in {0, H.id}
                      /\ C.ctx # "none" /\ C.res = ResOf(C.exp) /\ Ended(C.exp, H.sub)
                      /\ C.ctx = "orphan" => C.ts.last = H.id
                      /\ C.ctx = "resolve" => C.k # "submit"
  /\ C.pc = "a_wr" => H.rstat = C.res /\ (Q.valid => Q.res = C.res)

Answered == told \in [sub : Subs, res : Answers] /\ heard \subseteq Submissions

Inv ==
  /\ World /\ Stamps /\ Device(q, void) /\ Rec(hp, q, void)
  /\ Reported(q, hp, heard) /\ Kept(hp, c.pc, heard)
  /\ c \in CallT /\ HasRec(c, hp) /\ Owed(c) /\ Reading(c, hp, q) /\ Answered

\* A step of the service, or none.
Serves == [Service!Next]_(Service!vars)

-----------------------------------------------------------------------------
(* Constants, types and what the firmware answers.                         *)

LEMMA Constants ==
  /\ None \notin Commands /\ None \notin Entry /\ None \notin Record
  /\ MaxId \in Nat /\ MaxId > 1 /\ MaxCalls \in Nat /\ MaxReboots \in Nat
  /\ 0 \in Ids /\ 0 \in Subs /\ 0 \in Seqs /\ Submissions = Subs \ {0}
  /\ Subs \subseteq Nat /\ Ids \subseteq Nat /\ Seqs \subseteq Nat /\ 1 \in Boots
  /\ Boots \subseteq Nat /\ 0 \notin Boots /\ Submissions \subseteq Subs
<1>1. /\ MaxId \in Nat /\ MaxId > 1 /\ MaxCalls \in Nat /\ MaxReboots \in Nat
  BY ConstantsAssumption DEF ConstantsAssumption
<1>2. None \notin Commands /\ None \notin Entries /\ None \notin Records
  BY ConstantsAssumption DEF ConstantsAssumption
<1>3. /\ 0 \in Ids /\ 0 \in Subs /\ 0 \in Seqs /\ Submissions = Subs \ {0}
      /\ Subs \subseteq Nat /\ Ids \subseteq Nat /\ Seqs \subseteq Nat /\ 1 \in Boots
      /\ Boots \subseteq Nat /\ 0 \notin Boots /\ Submissions \subseteq Subs
  BY <1>1 DEF Ids, Subs, Seqs, Submissions, Boots
<1>4. Entry \subseteq Entries BY <1>3 DEF Entry, Entries, Results
<1>5. Record \subseteq Records BY <1>3 DEF Record, Records, Results
<1> QED BY <1>1, <1>2, <1>3, <1>4, <1>5

LEMMA EmptyQueueIs ==
  /\ EmptyQueue \in Queue /\ EmptyQueue.ent = None /\ EmptyQueue.last = 0 /\ EmptyQueue.lastsub = 0
  /\ ~EmptyQueue.valid /\ EmptyQueue.seq = 0 /\ EmptyQueue.res = "none"
BY Constants DEF EmptyQueue, Queue, Results

LEMMA NoStatusIs == NoStatus \in StatusT
BY Constants DEF NoStatus, StatusT

LEMMA NoTransIs == NoTrans \in TransT
BY Constants DEF NoTrans, TransT

LEMMA IdleIs ==
  /\ Idle \in CallT /\ Idle.pc = "idle" /\ Idle.k = "submit" /\ Idle.ctx = "none"
BY NoStatusIs, NoTransIs DEF Idle, CallT, Pcs, Kinds, Answers

LEMMA StatusIs ==
  ASSUME q \in Queue
  PROVE  /\ Status \in StatusT /\ (Status.len = 0 <=> q.ent = None) /\ Status.ok = q.ok
         /\ Status.valid = q.valid /\ Status.seq = q.seq
BY DEF Status, StatusT, Queue

LEMMA TransIs ==
  ASSUME q \in Queue
  PROVE  /\ TransactionStatus \in TransT /\ (TransactionStatus.act = 0 <=> q.ent = None)
         /\ q.ent # None => TransactionStatus.act = q.ent.id /\ TransactionStatus.asub = q.ent.sub
         /\ TransactionStatus.last = q.last /\ TransactionStatus.seq = q.seq
         /\ TransactionStatus.lsub = q.lastsub
<1>1. q.ent # None => q.ent.id \in Ids \ {0} /\ q.ent.sub \in Submissions BY DEF Queue, Entry
<1> QED BY <1>1, Constants DEF TransactionStatus, TransT, Queue

LEMMA ProgressIs ==
  /\ q.ent = None => Progress.id = q.last /\ Progress.res = q.res
  /\ q.ent # None => Progress.id = q.ent.id
BY DEF Progress

\* The call starts over, at pc.
LEMMA FreshCall ==
  ASSUME NEW p \in Pcs, NEW a \in Commands \cup {None}, NEW k \in Kinds, NEW same \in BOOLEAN
  PROVE  LET C == [Idle EXCEPT !.pc = p, !.req = a, !.k = k, !.same = same]
             D == [Idle EXCEPT !.pc = p, !.req = a, !.k = k]
             E == [Idle EXCEPT !.pc = p, !.req = a]
         IN  /\ C \in CallT /\ C.pc = p /\ C.req = a /\ C.k = k /\ C.ctx = "none" /\ C.same = same
             /\ D \in CallT /\ D.pc = p /\ D.req = a /\ D.k = k /\ D.ctx = "none"
             /\ E \in CallT /\ E.pc = p /\ E.req = a /\ E.k = "submit" /\ E.ctx = "none"
<1> DEFINE C == [Idle EXCEPT !.pc = p, !.req = a, !.k = k, !.same = same]
           D == [Idle EXCEPT !.pc = p, !.req = a, !.k = k]
           E == [Idle EXCEPT !.pc = p, !.req = a]
<1>1. E \in CallT /\ E.pc = p /\ E.req = a /\ E.k = "submit" /\ E.ctx = "none"
  BY IdleIs DEF CallT
<1>2. D \in CallT /\ D.pc = p /\ D.req = a /\ D.k = k /\ D.ctx = "none"
  BY IdleIs DEF CallT
<1>3. C \in CallT /\ C.pc = p /\ C.req = a /\ C.k = k /\ C.ctx = "none" /\ C.same = same
  BY IdleIs DEF CallT
<1> QED BY <1>1, <1>2, <1>3

LEMMA GotoIs ==
  ASSUME c \in CallT, NEW p \in Pcs, Goto(p)
  PROVE  /\ c' \in CallT /\ c'.pc = p /\ c'.req = c.req /\ c'.k = c.k /\ c'.st = c.st
         /\ c'.ts = c.ts /\ c'.ctx = c.ctx /\ c'.exp = c.exp /\ c'.res = c.res
         /\ c'.same = c.same
BY DEF Goto, CallT

LEMMA SpinIs ==
  ASSUME c \in CallT, Spin
  PROVE  c' \in CallT /\ c'.pc = "s_st" /\ c'.req = c.req /\ c'.k = c.k /\ c'.ctx = "none"
<1>1. c.req \in Commands \cup {None} /\ c.k \in Kinds /\ c.same \in BOOLEAN /\ "s_st" \in Pcs
  BY DEF CallT, Pcs
<1> QED BY <1>1, IdleIs DEF Spin, CallT

LEMMA AckIs ==
  ASSUME c \in CallT, NEW ctx \in {"spin", "resolve", "orphan"}, NEW exp \in BOOLEAN,
         NEW res \in Answers, Ack(ctx, exp, res)
  PROVE  /\ c' \in CallT /\ c'.pc = "a_ts" /\ c'.req = c.req /\ c'.k = c.k /\ c'.ctx = ctx
         /\ c'.exp = exp /\ c'.res = res /\ (ctx = "orphan" => c'.ts = c.ts)
<1> DEFINE t == IF ctx = "orphan" THEN c.ts ELSE NoTrans
           a == [c EXCEPT !.pc = "a_ts", !.ctx = ctx, !.exp = exp, !.res = res]
<1>1. t \in TransT BY NoTransIs DEF CallT
<1>2. "a_ts" \in Pcs BY DEF Pcs
<1>3. /\ a \in CallT /\ a.pc = "a_ts" /\ a.req = c.req /\ a.k = c.k /\ a.ctx = ctx
      /\ a.exp = exp /\ a.res = res
  BY <1>2 DEF CallT
<1>4. c' = [a EXCEPT !.st = NoStatus, !.ts = t, !.watch = None] BY DEF Ack, CallT
<1> HIDE DEF t, a
<1>5. /\ c' \in CallT /\ c'.pc = "a_ts" /\ c'.req = c.req /\ c'.k = c.k /\ c'.ctx = ctx
      /\ c'.exp = exp /\ c'.res = res /\ c'.ts = t
  BY <1>1, <1>3, <1>4, NoStatusIs DEF CallT
<1> QED BY <1>5 DEF t

LEMMA InvTypes ==
  ASSUME Inv
  PROVE  /\ q \in Queue /\ c \in CallT /\ (hp = None \/ hp \in Record) /\ n \in Count
         /\ runs \subseteq Run /\ boot \in Boots
BY DEF Inv, World, Device, Rec

-----------------------------------------------------------------------------
(* Steps of the host: the device's history stays, a call goes on or ends.  *)

LEMMA Stutters == ASSUME UNCHANGED <<runs, boot, void, told>> PROVE Serves
BY DEF Serves, Service!vars

\* A caller is told something true.
LEMMA Tells ==
  ASSUME UNCHANGED <<runs, boot>>, NEW s \in Subs, NEW r \in Answers,
         r = "ok" => Won(s), r = "failed" => Lost1(s), r = "refused" => ~Ran(s),
         told' = IF r = "unknown" THEN Nothing ELSE [sub |-> s, res |-> r],
         void' = IF r = "refused" THEN void \cup {s} ELSE void
  PROVE  Serves
<1>1. CASE r = "unknown"
  <2>1. Service!Tell(0, "unknown") BY <1>1 DEF Service!Tell, Nothing
  <2> QED BY <2>1 DEF Serves, Service!Next, Service!Answers
<1>2. CASE r # "unknown"
  <2>1. Service!Tell(s, r) BY <1>2 DEF Service!Tell, Won, Lost1, Ran
  <2>2. s \in Submissions \cup {0} BY Constants
  <2> QED BY <2>1, <2>2 DEF Serves, Service!Next, Service!Answers, Answers
<1> QED BY <1>1, <1>2

\* What holds of the next state when nothing has run and nothing was submitted.
LEMMA HostInv ==
  ASSUME Inv, UNCHANGED <<runs, boot, n>>, nonce' \in {0, boot}, hn' \in 0 .. boot,
         Device(q', void'), Rec(hp', q', void'), Reported(q', hp', heard'),
         Kept(hp', c'.pc, heard'), c' \in CallT, HasRec(c', hp'), Owed(c'),
         Reading(c', hp', q'), told' \in [sub : Subs, res : Answers], heard' \subseteq Submissions
  PROVE  Inv'
<1>1. World' BY DEF Inv, World
<1>2. Stamps' BY DEF Stamps
<1>3. Device(q, void)' BY DEF Device, Active, Last, Ran
<1>4. Rec(hp, q, void)' BY DEF Rec, Ran, Won, Lost1
<1>5. Reported(q, hp, heard)' /\ Kept(hp, c.pc, heard)' BY DEF Reported, Kept
<1>6. HasRec(c, hp)' /\ Owed(c)' BY DEF HasRec, Owed, Owing
<1>7. Reading(c, hp, q)' BY DEF Reading, Ended, Won, Lost1
<1>8. Answered' BY DEF Answered
<1> QED BY <1>1, <1>2, <1>3, <1>4, <1>5, <1>6, <1>7, <1>8 DEF Inv

\* The call goes on; nothing is told.
LEMMA GoesOn ==
  ASSUME Inv, UNCHANGED <<runs, boot, n, void, told, heard>>, nonce' \in {0, boot},
         hn' \in 0 .. boot, Device(q', void), Rec(hp', q', void), Reported(q', hp', heard),
         Kept(hp', c'.pc, heard), c' \in CallT, HasRec(c', hp'), Owed(c'), Reading(c', hp', q')
  PROVE  Inv' /\ Serves
<1>1. told' \in [sub : Subs, res : Answers] /\ heard' \subseteq Submissions BY DEF Inv, Answered
<1>2. /\ Device(q', void') /\ Rec(hp', q', void') /\ Reported(q', hp', heard')
      /\ Kept(hp', c'.pc, heard')
  OBVIOUS
<1>3. Inv' BY <1>1, <1>2, HostInv
<1> QED BY <1>3, Stutters

\* The device as the host finds it in this step.
Fine == /\ UNCHANGED <<runs, boot>> /\ nonce' \in {0, boot} /\ hn' \in 0 .. boot
        /\ Device(q', void) /\ Rec(hp, q', void) /\ Reported(q', hp, heard)

\* A record that is dropped, or of a call that ends, has been told of.
Settles(r) == c.pc = "a_wr" /\ hp # None /\ hp.rstat = "failed" => r = "failed"

\* What may be told of the record's submission.
Truth(r) ==
  /\ r \in Answers
  /\ r = "ok" => Won(hp.sub)
  /\ r = "failed" => Lost1(hp.sub)
  /\ r = "refused" => ~Ran(hp.sub) /\ q'.ent = None /\ q'.last # hp.id

LEMMA ReturnInv ==
  ASSUME Inv, Fine, UNCHANGED n, hp # None, NEW r, Truth(r), Settles(r), NEW p \in {hp, None},
         r = "refused" => p = None, Return(hp.sub, r, p)
  PROVE  Inv' /\ Serves
<1> USE Constants
<1>1. hp \in Record /\ hp.sub \in Submissions /\ hp.sub \in Subs /\ hp.sub <= n.subs
  BY DEF Inv, Rec, Record
<1>2. /\ c' = Idle /\ hp' = p
      /\ told' = IF r = "unknown" THEN Nothing ELSE [sub |-> hp.sub, res |-> r]
      /\ void' = IF r = "refused" THEN void \cup {hp.sub} ELSE void
      /\ heard' = IF r = "failed" THEN heard \cup {hp.sub} ELSE heard
  BY DEF Return
<1>3. Serves BY <1>1, <1>2, Tells DEF Truth, Fine
<1>4. told' \in [sub : Subs, res : Answers] /\ heard' \subseteq Submissions
  BY <1>1, <1>2 DEF Nothing, Answers, Inv, Answered, Truth
<1>5. Device(q', void')
  <2>1. CASE r # "refused" BY <2>1, <1>2 DEF Fine
  <2>2. CASE r = "refused"
    <3>1. q'.ent = None /\ q'.lastsub # hp.sub BY <2>2 DEF Truth, Fine, Rec
    <3>2. void' = void \cup {hp.sub} BY <2>2, <1>2
    <3>3. Active(q', void') /\ Last(q', void') BY <3>1, <3>2 DEF Fine, Device, Active, Last
    <3> QED BY <3>2, <3>3, <1>1 DEF Fine, Device
  <2> QED BY <2>1, <2>2
<1>6. Rec(hp', q', void')
  <2>1. CASE hp' = None BY <2>1 DEF Rec
  <2>2. CASE hp' = hp /\ void' = void BY <2>2 DEF Fine
  <2> QED BY <2>1, <2>2, <1>2
<1>7. heard \subseteq heard' /\ (hp.rstat = "failed" => hp.sub \in heard')
  BY <1>2 DEF Inv, Kept, Settles
<1>8. Reported(q', hp', heard') /\ Kept(hp', c'.pc, heard')
  BY <1>2, <1>7 DEF Fine, Reported, Kept
<1>9. c' \in CallT /\ c'.pc = "idle" BY <1>2, IdleIs
<1>10. HasRec(c', hp') /\ Owed(c') /\ Reading(c', hp', q')
  BY <1>9 DEF HasRec, Owed, Owing, Reading, RPcs, SPcs, APcs, Before
<1> QED BY <1>3, <1>4, <1>5, <1>6, <1>8, <1>9, <1>10, HostInv DEF Fine

LEMMA GiveUpInv ==
  ASSUME Inv, Fine, UNCHANGED n, Settles("unknown"), GiveUp
  PROVE  Inv' /\ Serves
<1> USE Constants
<1>1. /\ c' = Idle /\ hp' = hp /\ told' = Nothing /\ void' = void /\ heard' = heard
  BY DEF GiveUp, Return
<1>2. Serves
  <2>1. "unknown" \in Answers BY DEF Answers
  <2> QED BY <1>1, <2>1, Tells DEF Fine
<1>3. told' \in [sub : Subs, res : Answers] /\ heard' \subseteq Submissions
  BY <1>1 DEF Nothing, Answers, Inv, Answered
<1>4. Device(q', void') /\ Rec(hp', q', void') /\ Reported(q', hp', heard')
  BY <1>1 DEF Fine
<1>5. c' \in CallT /\ c'.pc = "idle" BY <1>1, IdleIs
<1>6. Kept(hp', c'.pc, heard') BY <1>1 DEF Inv, Kept, Settles
<1>7. HasRec(c', hp') /\ Owed(c') /\ Reading(c', hp', q')
  BY <1>5 DEF HasRec, Owed, Owing, Reading, RPcs, SPcs, APcs, Before
<1> QED BY <1>2, <1>3, <1>4, <1>5, <1>6, <1>7, HostInv DEF Fine

\* The record is dropped, and nothing is lost with it.
LEMMA DroppedReported ==
  ASSUME Inv, NEW Q, Reported(Q, hp, heard), hp # None /\ c.pc = "a_wr" => hp.rstat # "failed"
  PROVE  Reported(Q, None, heard)
BY DEF Inv, Kept, Reported

LEMMA ResolveReturnInv ==
  ASSUME Inv, Fine, UNCHANGED n, c.pc \in RPcs \cup SPcs \cup APcs, c.k # "submit",
         NEW r, Truth(r), Settles(r), NEW p \in {hp, None}, r = "refused" => p = None,
         ResolveReturn(r, p)
  PROVE  Inv' /\ Serves
<1> USE Constants
<1>1. hp # None /\ c \in CallT BY DEF Inv, HasRec
<1>2. CASE p # None \/ c.same \/ r # "ok"
  <2> DEFINE a == IF p # None /\ r = "ok" /\ ~c.same THEN "unknown" ELSE r
  <2>1. Return(hp.sub, a, p) BY <1>2 DEF ResolveReturn
  <2>2. Truth(a) /\ Settles(a) /\ (a = "refused" => p = None)
    BY DEF Truth, Settles, Answers
  <2> HIDE DEF a
  <2> QED BY <2>1, <2>2, <1>1, ReturnInv
<1>3. CASE ~(p # None \/ c.same \/ r # "ok")
  <2> DEFINE pc == IF c.k = "adopt" THEN "st2" ELSE "nonce"
  <2>1. /\ c' = [Idle EXCEPT !.pc = pc, !.req = c.req, !.k = c.k]
        /\ hp' = None /\ UNCHANGED <<void, told, heard>>
    BY <1>3 DEF ResolveReturn, Quiet
  <2>2. pc \in Pcs /\ pc \in {"st2", "nonce"} /\ c.req \in Commands \cup {None} /\ c.k \in Kinds
    BY <1>1 DEF Pcs, CallT
  <2> HIDE DEF pc
  <2>3. c' \in CallT /\ c'.pc = pc /\ c'.req = c.req /\ c'.k = c.k
    BY <2>1, <2>2, IdleIs DEF CallT
  <2>4. c.pc \notin {"idle", "write"} BY DEF RPcs, SPcs, APcs
  <2>5. n.subs < n.calls /\ c.req \in Commands BY <2>4 DEF Inv, Owed, Owing
  <2>6. HasRec(c', hp') /\ Owed(c') /\ Reading(c', hp', q')
    BY <2>1, <2>2, <2>3, <2>5 DEF HasRec, Owed, Reading, RPcs, SPcs, APcs, Before
  <2>7. Reported(q', hp', heard)
    BY <1>3, <2>1, DroppedReported DEF Fine, Settles
  <2>8. Rec(hp', q', void) /\ Kept(hp', c'.pc, heard) BY <2>1 DEF Rec, Kept
  <2> QED BY <2>1, <2>3, <2>6, <2>7, <2>8, GoesOn DEF Fine
<1> QED BY <1>2, <1>3

LEMMA SpinReturnInv ==
  ASSUME Inv, Fine, UNCHANGED n, c.pc \in SPcs \cup APcs, NEW retired \in BOOLEAN, NEW r,
         r # "refused", Truth(r), retired => Settles(r), SpinReturn(retired, r)
  PROVE  Inv' /\ Serves
<1> DEFINE p == IF retired THEN None ELSE hp
           a == IF ~retired /\ hp.rstat # "none" THEN hp.rstat ELSE r
<1>1. hp # None /\ hp \in Record BY DEF Inv, HasRec, Rec
<1>2. hp.rstat # "none" => Truth(hp.rstat) /\ hp.rstat # "refused"
  BY <1>1 DEF Inv, Rec, Truth, Record, Results, Answers
<1>3. Truth(a) /\ Settles(a) /\ a # "refused" /\ p \in {hp, None}
  BY <1>1, <1>2 DEF Settles
<1>4. IF c.k = "submit" THEN Return(hp.sub, a, p) ELSE ResolveReturn(a, p)
  BY DEF SpinReturn
<1> HIDE DEF a, p
<1> QED BY <1>1, <1>3, <1>4, ReturnInv, ResolveReturnInv

LEMMA NextIdIs ==
  ASSUME NEW last \in Ids
  PROVE  NextId(last) \in Ids \ {0} /\ NextId(last) # last
BY Constants DEF NextId, Ids

\* A new command is recorded: its identifier is not the retired one's.
LEMMA SubmitInv ==
  ASSUME Inv, Fine, Owing(c), q'.ent = None, NEW last \in Ids, q'.last \in {0, last},
         NEW seq \in Subs, hp # None /\ c.pc = "a_wr" => hp.rstat # "failed", Submit(last, seq)
  PROVE  Inv' /\ Serves
<1> USE Constants
<1>1. /\ c' = [Idle EXCEPT !.pc = "write", !.req = c.req]
      /\ n' = [n EXCEPT !.subs = @ + 1]
      /\ hp' = Pending(FALSE, NextId(last), c.req, seq + 1, n.subs + 1)
      /\ UNCHANGED <<void, told, heard>>
  BY DEF Submit
<1>2. n.subs < n.calls /\ c.req \in Commands /\ n.subs \in Nat
      /\ n.calls \in Nat /\ n.calls <= MaxCalls
  BY DEF Inv, World, Owed, Owing, Count, Subs
<1>3. n' \in Count /\ n'.subs = n.subs + 1 /\ n'.calls = n.calls
  BY <1>1, <1>2 DEF Inv, World, Count, Subs
<1>4. c' \in CallT /\ c'.pc = "write" /\ c'.req = c.req /\ c'.k = "submit"
  <2>1. "write" \in Pcs BY DEF Pcs
  <2> QED BY <1>1, <1>2, <2>1, IdleIs DEF CallT
<1>5. NextId(last) \in Ids \ {0} /\ NextId(last) # last BY NextIdIs
<1>6. seq + 1 \in Seqs BY DEF Seqs, Subs
<1>7. n.subs + 1 \in Submissions BY <1>2 DEF Submissions
<1>8. /\ hp' \in Record /\ hp'.id = NextId(last) /\ hp'.sub = n.subs + 1 /\ hp'.rstat = "none"
      /\ hp' # None
  <2>1. /\ hp' \in Record /\ hp'.id = NextId(last) /\ hp'.sub = n.subs + 1 /\ hp'.rstat = "none"
    BY <1>1, <1>2, <1>5, <1>6, <1>7 DEF Pending, Record, Results
  <2> QED BY <2>1
<1>9. UNCHANGED <<runs, boot>> /\ Device(q', void) BY DEF Fine
<1>10. \A r \in runs : r.sub \in Nat /\ r.sub <= n.subs
  BY DEF Inv, World, Run
<1>11. q' \in Queue /\ q'.lastsub \in Nat /\ q'.lastsub <= n.subs
  BY <1>9 DEF Device, Last, Queue
<1>12. World'
  <2>1. \A r \in runs : r.sub <= n.subs + 1 BY <1>2, <1>10
  <2> QED BY <2>1, <1>2, <1>3, <1>9 DEF Inv, World
<1>13. Stamps' BY DEF Fine, Stamps
<1>14. Device(q, void)'
  <2>1. \A v \in void : v \in Nat /\ v <= n.subs + 1 BY <1>2 DEF Inv, Device
  <2>2. Active(q, void)' BY DEF Active
  <2>3. Last(q, void)' BY <1>1, <1>2, <1>3, <1>9, <1>11 DEF Device, Last
  <2> QED BY <2>1, <2>2, <2>3, <1>1, <1>3, <1>9 DEF Device
<1>15. n.subs + 1 \notin void BY <1>2 DEF Inv, Device
<1>16. \A r \in runs : r.sub # n.subs + 1 BY <1>2, <1>10
<1>17. Rec(hp, q, void)'
  <2>1. q'.lastsub <= n.subs + 1 /\ q'.lastsub # n.subs + 1 BY <1>2, <1>11
  <2>2. q'.last # hp'.id BY <1>5, <1>8
  <2>3. ~Ran(hp.sub)' BY <1>8, <1>16, <1>9 DEF Ran
  <2>4. hp'.sub <= n'.subs BY <1>2, <1>3, <1>8
  <2>5. hp'.sub \notin void' BY <1>1, <1>8, <1>15
  <2>6. q'.lastsub <= hp'.sub /\ q'.lastsub # hp'.sub BY <1>8, <2>1
  <2> QED BY ONLY <1>8, <2>2, <2>3, <2>4, <2>5, <2>6, q'.ent = None DEF Rec
<1>18. Reported(q, hp, heard)'
  <2>1. Reported(q', None, heard) BY DroppedReported DEF Fine
  <2> QED BY <2>1, <1>1, <1>9 DEF Reported
<1>19. Kept(hp, c.pc, heard)' BY <1>8 DEF Kept
<1>20. HasRec(c, hp)' /\ Owed(c)'
  BY <1>2, <1>4, <1>8 DEF HasRec, Owed, Owing, RPcs, SPcs, APcs, Before
<1>21. Reading(c, hp, q)'
  <2>1. q'.lastsub # hp'.sub BY <1>2, <1>11, <1>8
  <2>2. \A r \in runs' : r.sub # hp'.sub BY <1>16, <1>8, <1>9
  <2> QED BY <1>4, <2>1, <2>2 DEF Reading, APcs
<1>22. Answered' BY <1>1 DEF Inv, Answered
<1>23. Serves BY <1>1, <1>9, Stutters
<1> QED BY <1>4, <1>12, <1>13, <1>14, <1>17, <1>18, <1>19, <1>20, <1>21, <1>22, <1>23 DEF Inv

LEMMA FineSame ==
  ASSUME Inv, UNCHANGED <<q, boot, runs>>, nonce' \in {0, boot}, hn' \in 0 .. boot
  PROVE  Fine
BY DEF Inv, Fine

LEMMA FineRead ==
  ASSUME Inv, UNCHANGED <<devVars, hn>>
  PROVE  Fine
<1>1. nonce' \in {0, boot} /\ hn' \in 0 .. boot BY DEF Inv, Stamps, devVars
<1> QED BY <1>1, FineSame DEF devVars

\* What the call that acknowledges knows.
LEMMA Acknowledging ==
  ASSUME Inv, c.pc \in APcs
  PROVE  /\ hp # None /\ hp \in Record /\ c \in CallT /\ c.ctx \in {"spin", "resolve", "orphan"}
         /\ Truth(c.res) /\ c.res \in {"ok", "failed"} /\ (c.res = "ok" <=> c.exp)
         /\ c.pc = "a_wr" => hp.rstat = c.res
<1>1. hp # None /\ c \in CallT BY DEF Inv, HasRec
<1>2. hp \in Record BY <1>1 DEF Inv, Rec
<1>3. c.ctx # "none" /\ c.res = ResOf(c.exp) /\ Ended(c.exp, hp.sub) BY DEF Inv, Reading
<1>4. c.pc = "a_wr" => hp.rstat = c.res BY DEF Inv, Reading
<1>5. c.ctx \in {"spin", "resolve", "orphan"} /\ c.exp \in BOOLEAN BY <1>1, <1>3 DEF CallT
<1>6. c.res \in {"ok", "failed"} /\ (c.res = "ok" <=> c.exp) BY <1>3, <1>5 DEF ResOf
<1>7. Truth(c.res) BY <1>3, <1>6 DEF Truth, Answers, Ended
<1> QED BY <1>1, <1>2, <1>4, <1>5, <1>6, <1>7

LEMMA AckReturnInv ==
  ASSUME Inv, Fine, c.pc \in APcs, NEW ok \in BOOLEAN, ok => c.pc = "a_wr",
         q'.ent = None, q'.last \in {0, hp.id}, AckReturn(ok)
  PROVE  Inv' /\ Serves
<1>1. /\ hp # None /\ hp \in Record /\ c \in CallT /\ c.ctx \in {"spin", "resolve", "orphan"}
      /\ Truth(c.res) /\ c.res \in {"ok", "failed"} /\ (c.res = "ok" <=> c.exp)
      /\ c.pc = "a_wr" => hp.rstat = c.res
  BY Acknowledging
<1>2. Settles(c.res) BY <1>1 DEF Settles
<1>3. Truth("unknown") BY DEF Truth, Answers
<1>4. CASE c.ctx = "spin"
  <2>1. UNCHANGED n /\ IF ok THEN SpinReturn(TRUE, c.res) ELSE SpinReturn(FALSE, "unknown")
    BY <1>4 DEF AckReturn
  <2>2. CASE ok BY <2>1, <2>2, <1>1, <1>2, SpinReturnInv
  <2>3. CASE ~ok BY <2>1, <2>3, <1>3, SpinReturnInv
  <2> QED BY <2>2, <2>3
<1>5. CASE c.ctx = "resolve"
  <2> DEFINE a == IF c.res = "ok" THEN "unknown" ELSE c.res
  <2>1. UNCHANGED n /\ IF ok THEN ResolveReturn(c.res, None) ELSE ResolveReturn(a, hp)
    BY <1>5 DEF AckReturn
  <2>2. c.k # "submit" BY <1>5 DEF Inv, Reading
  <2>3. Truth(a) /\ Settles(a) /\ a # "refused" BY <1>1, <1>2, <1>3 DEF Settles
  <2> HIDE DEF a
  <2>4. CASE ok BY <2>1, <2>2, <2>4, <1>1, <1>2, ResolveReturnInv
  <2>5. CASE ~ok BY <2>1, <2>2, <2>3, <2>5, ResolveReturnInv
  <2> QED BY <2>4, <2>5
<1>6. CASE c.ctx = "orphan" /\ ~ok
  <2>1. /\ UNCHANGED n
        /\ IF ~c.exp /\ hp.rstat # "none" THEN Return(hp.sub, hp.rstat, hp) ELSE GiveUp
    BY <1>6 DEF AckReturn
  <2>2. CASE ~c.exp /\ hp.rstat # "none"
    <3>1. Truth(hp.rstat) /\ hp.rstat # "refused" /\ Settles(hp.rstat)
      BY <2>2, <1>1 DEF Inv, Rec, Truth, Settles, Record, Results, Answers
    <3> QED BY <3>1, <2>1, <2>2, <1>1, ReturnInv
  <2>3. CASE ~(~c.exp /\ hp.rstat # "none")
    <3>1. Settles("unknown") BY <2>3, <1>1 DEF Settles
    <3> QED BY <3>1, <2>1, <2>3, GiveUpInv
  <2> QED BY <2>2, <2>3
<1>7. CASE c.ctx = "orphan" /\ ok
  <2>1. IF ~c.exp THEN Return(hp.sub, c.res, None) /\ UNCHANGED n
                  ELSE Submit(c.ts.last, c.ts.seq)
    BY <1>7 DEF AckReturn
  <2>2. CASE ~c.exp BY <2>1, <2>2, <1>1, <1>2, ReturnInv
  <2>3. CASE c.exp
    <3>1. Owing(c) BY <1>7 DEF Owing, APcs
    <3>2. c.ts.last \in Ids /\ c.ts.seq \in Subs BY <1>1 DEF CallT, TransT
    <3>3. c.ts.last = hp.id BY <1>7 DEF Inv, Reading
    <3>4. c.pc = "a_wr" => hp.rstat # "failed" BY <2>3, <1>1
    <3> QED BY <3>1, <3>2, <3>3, <3>4, <2>1, <2>3, SubmitInv
  <2> QED BY <2>2, <2>3
<1> QED BY <1>1, <1>4, <1>5, <1>6, <1>7

-----------------------------------------------------------------------------
(* What the host's writes do to the queue.                                 *)

LEMMA AdmitIs ==
  ASSUME Inv, UNCHANGED <<nonce, boot, runs, hn>>, hp # None, NEW ans,
         Admit(hp.id, hp.cmd, hp.sub, ans)
  PROVE  /\ Fine /\ (ans # "accepted" => q' = q)
         /\ ans = "full" => ~Ran(hp.sub) /\ q'.ent = None /\ q'.last # hp.id
<1> USE Constants
<1>1. /\ hp \in Record /\ hp.id \in Ids \ {0} /\ hp.sub \in Submissions
      /\ hp.cmd \in Commands \cup {None} /\ hp.sub <= n.subs /\ hp.sub \notin void /\ q \in Queue
  BY DEF Inv, Rec, Record, Device
<1>2. nonce' \in {0, boot} /\ hn' \in 0 .. boot BY DEF Inv, Stamps
<1>3. ASSUME Find(hp.id, hp.cmd) = "new"
      PROVE  q.ent = None /\ q.last # hp.id /\ ~Ran(hp.sub) /\ q.lastsub < hp.sub
  <2>1. ~(q.ent # None /\ q.ent.id = hp.id) /\ q.last # hp.id BY <1>3 DEF Find
  <2>2. q.ent = None BY <2>1 DEF Inv, Rec
  <2>3. ~Ran(hp.sub) /\ q.lastsub # hp.sub /\ q.lastsub <= hp.sub BY <2>1, <2>2 DEF Inv, Rec
  <2>4. q.lastsub \in Nat /\ hp.sub \in Nat BY <1>1 DEF Queue
  <2>5. q.lastsub < hp.sub BY <2>3, <2>4
  <2> QED BY <2>1, <2>2, <2>3, <2>5
<1>4. CASE q' = q
  <2>1. Fine BY <1>2, <1>4, FineSame
  <2>2. ans = "full" => Find(hp.id, hp.cmd) = "new" BY DEF Admit
  <2> QED BY <2>1, <2>2, <1>3, <1>4
<1>5. CASE q' # q
  <2> DEFINE e == [id |-> hp.id, cmd |-> hp.cmd, sub |-> hp.sub, st |-> "new", res |-> "none"]
  <2>1. /\ Find(hp.id, hp.cmd) = "new" /\ Room /\ ans = "accepted"
        /\ q' = [q EXCEPT !.ent = e]
    BY <1>5 DEF Admit
  <2>2. e \in Entry /\ e # None /\ e.id = hp.id /\ e.sub = hp.sub /\ e.st = "new"
    <3>1. e \in Entry BY <1>1 DEF Entry, Results
    <3> QED BY <3>1
  <2> HIDE DEF e
  <2>3. /\ q' \in Queue /\ q'.ent = e /\ q'.last = q.last /\ q'.lastsub = q.lastsub
        /\ q'.valid = q.valid /\ q'.ok = q.ok /\ q'.res = q.res /\ q'.seq = q.seq
    BY <2>1, <2>2, <1>1 DEF Queue
  <2>4. q.ent = None /\ q.last # hp.id /\ ~Ran(hp.sub) /\ q.lastsub < hp.sub BY <2>1, <1>3
  <2>5. ~q.valid BY <2>1 DEF Room, Inv, Device, Last
  <2>6. Active(q', void) BY <2>2, <2>3, <2>4, <2>5, <1>1 DEF Active
  <2>7. Last(q', void) BY <2>3 DEF Last, Inv, Device
  <2>8. Device(q', void) BY <2>3, <2>6, <2>7 DEF Inv, Device
  <2>9. Rec(hp, q', void) BY <2>2, <2>3 DEF Inv, Rec
  <2>10. Reported(q', hp, heard)
    <3>1. Reported(q, hp, heard) BY DEF Inv
    <3> QED BY <3>1, <2>3, <2>4 DEF Reported
  <2> QED BY <2>1, <2>8, <2>9, <2>10, <1>2 DEF Fine
<1> QED BY <1>4, <1>5

\* Two runs of one submission in one boot are one; the retained result is how
\* it ended.
LEMMA Retained ==
  ASSUME Inv, q.valid, NEW r \in runs, r.boot = boot, r.sub = q.lastsub
  PROVE  r.res = q.res
<1>1. q.last # 0 /\ q.res = ResOf(q.ok) BY DEF Inv, Device, Last
<1>2. [sub |-> q.lastsub, boot |-> boot, res |-> ResOf(q.ok)] \in runs
  BY <1>1 DEF Inv, Device, Last
<1> DEFINE x == [sub |-> q.lastsub, boot |-> boot, res |-> ResOf(q.ok)]
<1>3. x.sub = r.sub /\ x.boot = r.boot /\ x.res = q.res BY <1>1
<1>4. x \in runs BY <1>2
<1> HIDE DEF x
<1>5. x = r BY <1>3, <1>4 DEF Inv, World
<1> QED BY <1>3, <1>5

LEMMA AckResultIs ==
  ASSUME Inv, UNCHANGED <<nonce, boot, runs, hn>>, c.pc \in {"a_wr", "r_ack"}, NEW ans,
         AckResult(hp.id, hp.seq, ans)
  PROVE  Fine /\ q'.ent = None /\ q'.last = q.last /\ (c.pc = "r_ack" => q' = q)
<1> USE Constants
<1>1. hp # None /\ q.ent = None /\ (c.pc = "r_ack" => ~q.valid)
  BY DEF Inv, HasRec, Reading, APcs, RPcs
<1>2. hp \in Record /\ hp.id \in Ids /\ hp.seq \in Seqs /\ q \in Queue
  BY <1>1 DEF Inv, Rec, Record, Device
<1>3. nonce' \in {0, boot} /\ hn' \in 0 .. boot BY DEF Inv, Stamps
<1>4. CASE q' = q BY <1>1, <1>3, <1>4, FineSame
<1>5. CASE q' # q
  <2>1. /\ q.valid /\ q.last = hp.id
        /\ q' = [q EXCEPT !.valid = FALSE, !.res = "none", !.ackid = hp.id, !.ackseq = hp.seq]
    BY <1>5 DEF AckResult, AckFits
  <2>2. "none" \in Results BY DEF Results
  <2>3. /\ q' \in Queue /\ q'.ent = None /\ q'.last = q.last /\ q'.lastsub = q.lastsub
        /\ ~q'.valid /\ q'.ok = q.ok /\ q'.res = "none" /\ q'.seq = q.seq
    BY <2>1, <2>2, <1>1, <1>2 DEF Queue
  <2>4. c.pc = "a_wr" BY <2>1, <1>1
  <2>5. Active(q', void) BY <2>3 DEF Active
  <2>6. Last(q', void) BY <2>3 DEF Last, Inv, Device
  <2>7. Device(q', void) BY <2>3, <2>5, <2>6 DEF Inv, Device
  <2>8. Rec(hp, q', void) BY <2>3, <1>1 DEF Inv, Rec
  <2>9. hp.rstat = q.res BY <2>1, <2>4 DEF Inv, Reading
  <2>10. q.lastsub = hp.sub BY <2>1, <1>1 DEF Inv, Rec
  <2>11. Reported(q', hp, heard)
    <3> SUFFICES ASSUME NEW r \in runs, r.boot = boot, r.res = "failed", r.sub \notin heard
                 PROVE  hp.sub = r.sub /\ hp.rstat = "failed"
      BY <1>1 DEF Reported
    <3>1. \/ q.valid /\ q.lastsub = r.sub
          \/ hp.sub = r.sub /\ hp.rstat = "failed"
      BY <1>1 DEF Inv, Reported
    <3>2. q.lastsub = r.sub => r.res = q.res BY <2>1, Retained
    <3> QED BY <3>1, <3>2, <2>9, <2>10
  <2> QED BY <2>3, <2>4, <2>7, <2>8, <2>11, <1>3 DEF Fine
<1> QED BY <1>4, <1>5

-----------------------------------------------------------------------------
(* The steps of a call up to the submission.                               *)

\* A step that only reads, and goes on.
LEMMA ReadsOn ==
  ASSUME Inv, UNCHANGED <<devVars, hn, n>>, Keep, c' \in CallT, HasRec(c', hp), Owed(c'),
         Reading(c', hp, q), c.pc # "a_wr"
  PROVE  Inv' /\ Serves
<1>1. UNCHANGED <<q, nonce, boot, runs, hn, n, hp, void, told, heard>> BY DEF devVars, Keep
<1>2. Fine BY FineRead
<1>3. Kept(hp', c'.pc, heard) BY <1>1 DEF Inv, Kept
<1>4. /\ Device(q', void) /\ Rec(hp', q', void) /\ Reported(q', hp', heard)
      /\ nonce' \in {0, boot} /\ hn' \in 0 .. boot
      /\ HasRec(c', hp') /\ Reading(c', hp', q')
  BY <1>1, <1>2 DEF Fine
<1> QED BY <1>1, <1>3, <1>4, GoesOn

LEMMA GivesUp ==
  ASSUME Inv, UNCHANGED <<devVars, hn, n>>, c.pc # "a_wr", GiveUp
  PROVE  Inv' /\ Serves
<1>1. Fine /\ Settles("unknown") BY FineRead DEF Settles
<1> QED BY <1>1, GiveUpInv

LEMMA CallInv ==
  ASSUME Inv, NEW cmd \in Commands, Call(cmd)
  PROVE  Inv' /\ Serves
<1> USE Constants
<1>1. /\ c.pc = "idle" /\ n.calls < MaxCalls /\ c' = [Idle EXCEPT !.pc = "st0", !.req = cmd]
      /\ n' = [n EXCEPT !.calls = @ + 1]
      /\ UNCHANGED <<q, nonce, boot, runs, hp, hn, void, told, heard>>
  BY DEF Call, devVars
<1>2. c' \in CallT /\ c'.pc = "st0" /\ c'.req = cmd
  <2>1. "st0" \in Pcs BY DEF Pcs
  <2> QED BY <1>1, <2>1, IdleIs DEF CallT
<1>3. n \in Count /\ n.calls \in Nat /\ n.subs \in Nat /\ n.subs <= n.calls
  BY DEF Inv, World, Count
<1>4. n' \in Count /\ n'.subs = n.subs /\ n'.calls = n.calls + 1
  BY <1>1, <1>3 DEF Count, Subs
<1>5. World' BY <1>1, <1>3, <1>4 DEF Inv, World
<1>6. Stamps' BY <1>1 DEF Inv, Stamps
<1>7. Device(q, void)' BY <1>1, <1>4 DEF Inv, Device, Active, Last, Ran
<1>8. Rec(hp, q, void)' BY <1>1, <1>4 DEF Inv, Rec, Ran, Won, Lost1
<1>9. Reported(q, hp, heard)' BY <1>1 DEF Inv, Reported
<1>10. Kept(hp, c.pc, heard)' BY <1>1 DEF Inv, Kept
<1>11. HasRec(c, hp)' BY <1>2 DEF HasRec, RPcs, SPcs, APcs, Before
<1>12. Owed(c)' BY <1>2, <1>3, <1>4 DEF Owed, RPcs
<1>13. Reading(c, hp, q)' BY <1>2 DEF Reading, APcs
<1>14. Answered' BY <1>1 DEF Inv, Answered
<1>15. Serves BY <1>1, Stutters
<1> QED BY <1>2, <1>5, <1>6, <1>7, <1>8, <1>9, <1>10, <1>11, <1>12, <1>13, <1>14, <1>15 DEF Inv

LEMMA ReadFirstInv ==
  ASSUME Inv, ReadFirst
  PROVE  Inv' /\ Serves
<1> USE Constants
<1>1. c.pc = "st0" /\ Keep /\ UNCHANGED <<devVars, hn, n>> /\ c \in CallT
  BY DEF ReadFirst, Inv
<1>2. n.subs < n.calls /\ c.req \in Commands BY <1>1 DEF Inv, Owed, Owing, SPcs, APcs
<1>3. CASE hp = None
  <2>1. c' = [c EXCEPT !.pc = "nonce"] BY <1>3 DEF ReadFirst
  <2>2. c' \in CallT /\ c'.pc = "nonce" /\ c'.req = c.req BY <2>1, <1>1 DEF CallT, Pcs
  <2>3. HasRec(c', hp) /\ Owed(c') /\ Reading(c', hp, q)
    BY <2>2, <1>2, <1>3 DEF HasRec, Owed, Reading, RPcs, SPcs, APcs, Before
  <2> QED BY <2>2, <2>3, <1>1, ReadsOn
<1>4. CASE hp # None
  <2> DEFINE same == ~hp.adopted /\ hp.cmd = c.req
  <2>1. c' = [c EXCEPT !.pc = "r_boot", !.k = "retry", !.same = same] BY <1>4 DEF ReadFirst
  <2>2. same \in BOOLEAN OBVIOUS
  <2> HIDE DEF same
  <2>3. "r_boot" \in Pcs /\ "retry" \in Kinds BY DEF Pcs, Kinds
  <2>4. c' \in CallT /\ c'.pc = "r_boot" /\ c'.req = c.req /\ c'.k = "retry"
    BY <2>1, <2>2, <2>3, <1>1 DEF CallT
  <2>5. HasRec(c', hp) /\ Owed(c') /\ Reading(c', hp, q)
    BY <2>4, <1>2, <1>4 DEF HasRec, Owed, Reading, RPcs, SPcs, APcs, Before
  <2> QED BY <2>4, <2>5, <1>1, ReadsOn
<1> QED BY <1>3, <1>4

\* A step before the submission that goes on to another such step p.
LEMMA BeforeOn ==
  ASSUME Inv, c.pc \in Before, NEW p \in {"nonce", "n_wr", "n_rd", "st1"}, Goto(p)
  PROVE  /\ c' \in CallT /\ HasRec(c', hp) /\ Owed(c') /\ Reading(c', hp, q)
         /\ hp = None /\ c'.pc = p
<1>1. p \in Pcs /\ c \in CallT BY DEF Inv, Pcs
<1>2. c' \in CallT /\ c'.pc = p /\ c'.req = c.req BY <1>1, GotoIs
<1>3. n.subs < n.calls /\ c.req \in Commands
  BY DEF Inv, Owed, Owing, SPcs, APcs, Before
<1>4. hp = None BY DEF Inv, HasRec
<1> QED BY <1>2, <1>3, <1>4 DEF HasRec, Owed, Reading, RPcs, SPcs, APcs, Before

LEMMA RefreshNonceInv ==
  ASSUME Inv, RefreshNonce
  PROVE  Inv' /\ Serves
<1>1. /\ c.pc = "nonce" /\ Keep /\ UNCHANGED <<devVars, n>> /\ c.pc \in Before
  BY DEF RefreshNonce, Before
<1>2. PICK p \in {"n_wr", "st1"} : Goto(p) BY DEF RefreshNonce
<1>3. hn' \in 0 .. boot BY Constants DEF RefreshNonce, Inv, Stamps, World
<1>4. c' \in CallT /\ HasRec(c', hp) /\ Owed(c') /\ Reading(c', hp, q) /\ hp = None
  BY <1>1, <1>2, BeforeOn
<1>5. UNCHANGED <<q, nonce, boot, runs, n, hp, void, told, heard>> BY <1>1 DEF devVars, Keep
<1>6. nonce' \in {0, boot} BY <1>5 DEF Inv, Stamps
<1>7. Fine BY <1>3, <1>5, <1>6, FineSame
<1>8. /\ Device(q', void) /\ Rec(hp', q', void) /\ Reported(q', hp', heard)
      /\ HasRec(c', hp') /\ Reading(c', hp', q') /\ Kept(hp', c'.pc, heard)
  BY <1>4, <1>5, <1>7 DEF Fine, Kept
<1> QED BY <1>3, <1>4, <1>5, <1>6, <1>8, GoesOn

LEMMA StampNonceInv ==
  ASSUME Inv, StampNonce
  PROVE  Inv' /\ Serves
<1>1. /\ c.pc = "n_wr" /\ UNCHANGED <<q, boot, runs, hn, n>> /\ c.pc \in Before
      /\ (Goto("n_rd") /\ Keep) \/ GiveUp
  BY DEF StampNonce, Before
<1>2. nonce' \in {0, boot} BY DEF StampNonce, Inv, Stamps
<1>3. hn' \in 0 .. boot BY <1>1 DEF Inv, Stamps
<1>4. Fine BY <1>1, <1>2, <1>3, FineSame
<1>5. CASE GiveUp
  <2>1. Settles("unknown") BY <1>1 DEF Settles
  <2> QED BY <2>1, <1>1, <1>4, <1>5, GiveUpInv
<1>6. CASE Goto("n_rd") /\ Keep
  <2>1. c' \in CallT /\ HasRec(c', hp) /\ Owed(c') /\ Reading(c', hp, q) /\ hp = None
    BY <1>1, <1>6, BeforeOn
  <2>2. UNCHANGED <<q, boot, runs, n, hp, void, told, heard>> BY <1>1, <1>6 DEF Keep
  <2>3. /\ Device(q', void) /\ Rec(hp', q', void) /\ Reported(q', hp', heard)
        /\ HasRec(c', hp') /\ Reading(c', hp', q') /\ Kept(hp', c'.pc, heard)
    BY <2>1, <2>2, <1>4 DEF Fine, Kept
  <2> QED BY <1>2, <1>3, <2>1, <2>2, <2>3, GoesOn
<1> QED BY <1>1, <1>5, <1>6

LEMMA RereadNonceInv ==
  ASSUME Inv, RereadNonce
  PROVE  Inv' /\ Serves
<1>1. /\ c.pc = "n_rd" /\ UNCHANGED <<devVars, n>> /\ c.pc \in Before
  BY DEF RereadNonce, Before
<1>2. CASE nonce = 0
  <2>1. GiveUp /\ UNCHANGED hn BY <1>2 DEF RereadNonce
  <2> QED BY <2>1, <1>1, GivesUp
<1>3. CASE nonce # 0
  <2>1. Goto("st1") /\ Keep /\ hn' = nonce BY <1>3 DEF RereadNonce
  <2>2. c' \in CallT /\ HasRec(c', hp) /\ Owed(c') /\ Reading(c', hp, q) /\ hp = None
    BY <1>1, <2>1, BeforeOn
  <2>3. UNCHANGED <<q, nonce, boot, runs, n, hp, void, told, heard>>
    BY <1>1, <2>1 DEF devVars, Keep
  <2>4. nonce' \in {0, boot} /\ hn' \in 0 .. boot
    BY <2>1, <2>3, Constants DEF Inv, Stamps, World
  <2>5. Fine BY <2>3, <2>4, FineSame
  <2>6. /\ Device(q', void) /\ Rec(hp', q', void) /\ Reported(q', hp', heard)
        /\ HasRec(c', hp') /\ Reading(c', hp', q') /\ Kept(hp', c'.pc, heard)
    BY <2>2, <2>3, <2>5 DEF Fine, Kept
  <2> QED BY <2>2, <2>3, <2>4, <2>6, GoesOn
<1> QED BY <1>2, <1>3

LEMMA ReadStatusInv ==
  ASSUME Inv, NEW from, NEW to, <<from, to>> \in {<<"st1", "ts1">>, <<"s_st", "s_ts">>},
         ReadStatus(from, to)
  PROVE  Inv' /\ Serves
<1>1. /\ c.pc = from /\ c' = [c EXCEPT !.pc = to, !.st = Status] /\ Keep
      /\ UNCHANGED <<devVars, hn, n>>
  BY DEF ReadStatus
<1>2. c \in CallT /\ q \in Queue BY InvTypes
<1>3. /\ Status \in StatusT /\ (Status.len = 0 <=> q.ent = None) /\ Status.ok = q.ok
  BY <1>2, StatusIs
<1>4. (from = "st1" /\ to = "ts1") \/ (from = "s_st" /\ to = "s_ts") OBVIOUS
<1>5. to \in Pcs BY <1>4 DEF Pcs
<1>6. /\ c' \in CallT /\ c'.pc = to /\ c'.st = Status /\ c'.req = c.req /\ c'.k = c.k
      /\ c'.ctx = c.ctx
  BY <1>1, <1>2, <1>3, <1>5 DEF CallT
<1>7. HasRec(c', hp)
  BY <1>1, <1>4, <1>6 DEF Inv, HasRec, RPcs, SPcs, APcs, Before
<1>8. Owed(c') BY <1>1, <1>4, <1>6 DEF Inv, Owed, Owing, RPcs, SPcs, APcs
<1>9. Reading(c', hp, q) BY <1>3, <1>4, <1>6 DEF Reading, APcs
<1> QED BY <1>1, <1>4, <1>6, <1>7, <1>8, <1>9, ReadsOn

\* What a call before its submission knows.
LEMMA Beforehand ==
  ASSUME Inv, c.pc \in Before
  PROVE  /\ hp = None /\ c \in CallT /\ q \in Queue /\ n.subs < n.calls /\ c.req \in Commands
         /\ Owing(c) /\ c.pc # "a_wr"
BY DEF Inv, HasRec, Device, Owed, Owing, SPcs, APcs, Before

LEMMA SnapshotInv ==
  ASSUME Inv, Snapshot
  PROVE  Inv' /\ Serves
<1> USE Constants
<1> DEFINE t == TransactionStatus
           s == c.st
<1>1. c.pc = "ts1" /\ c.pc \in Before /\ UNCHANGED <<devVars, hn>> BY DEF Snapshot, Before
<1>2. /\ hp = None /\ c \in CallT /\ q \in Queue /\ n.subs < n.calls /\ c.req \in Commands
      /\ Owing(c)
  BY <1>1, Beforehand
<1>3. /\ t \in TransT /\ (t.act = 0 <=> q.ent = None)
      /\ q.ent # None => t.act = q.ent.id /\ t.asub = q.ent.sub
      /\ t.last = q.last /\ t.seq = q.seq /\ t.lsub = q.lastsub
  BY <1>2, TransIs
<1>4. s \in StatusT /\ (s.len = 0 => q.ent = None)
  BY <1>1, <1>2 DEF CallT, Inv, Reading
<1>5. \/ GiveUp /\ UNCHANGED n
      \/ s.len = 0 /\ t.last # 0 /\ c' = [c EXCEPT !.pc = "o_pr", !.ts = t] /\ Keep /\ UNCHANGED n
      \/ /\ t.act # 0 /\ c' = [Idle EXCEPT !.pc = "r_boot", !.req = c.req, !.k = "adopt"]
         /\ Quiet(Pending(TRUE, t.act, None, t.seq + 1, t.asub)) /\ UNCHANGED n
      \/ s.len = 0 /\ Submit(t.last, s.seq)
  BY DEF Snapshot
<1> HIDE DEF t, s
<1>6. Fine BY <1>1, FineRead
<1>7. CASE GiveUp /\ UNCHANGED n BY <1>1, <1>7, GivesUp
<1>8. CASE s.len = 0 /\ t.last # 0 /\ c' = [c EXCEPT !.pc = "o_pr", !.ts = t] /\ Keep /\ UNCHANGED n
  <2>1. "o_pr" \in Pcs BY DEF Pcs
  <2>2. c' \in CallT /\ c'.pc = "o_pr" /\ c'.ts = t /\ c'.req = c.req
    BY <1>2, <1>3, <1>8, <2>1 DEF CallT
  <2>3. HasRec(c', hp) /\ Owed(c')
    BY <2>2, <1>2 DEF HasRec, Owed, RPcs, SPcs, APcs, Before
  <2>4. Reading(c', hp, q) BY <2>2, <1>3, <1>4, <1>8 DEF Reading, APcs
  <2> QED BY <2>2, <2>3, <2>4, <1>1, <1>8, ReadsOn
<1>9. CASE /\ t.act # 0 /\ c' = [Idle EXCEPT !.pc = "r_boot", !.req = c.req, !.k = "adopt"]
           /\ Quiet(Pending(TRUE, t.act, None, t.seq + 1, t.asub)) /\ UNCHANGED n
  <2>1. q.ent # None /\ t.act = q.ent.id /\ t.asub = q.ent.sub /\ q.ent \in Entry
    BY <1>2, <1>3, <1>9 DEF Queue
  <2>2. /\ hp' = Pending(TRUE, q.ent.id, None, t.seq + 1, q.ent.sub)
        /\ UNCHANGED <<q, nonce, boot, runs, hn, n, void, told, heard>>
    BY <2>1, <1>1, <1>9 DEF Quiet, devVars
  <2>3. t.seq + 1 \in Seqs BY <1>3 DEF TransT, Seqs, Subs
  <2>4. hp' \in Record /\ hp'.id = q.ent.id /\ hp'.sub = q.ent.sub /\ hp'.rstat = "none"
    BY <2>1, <2>2, <2>3 DEF Pending, Record, Entry, Results
  <2>5. "r_boot" \in Pcs /\ "adopt" \in Kinds BY DEF Pcs, Kinds
  <2>6. c' \in CallT /\ c'.pc = "r_boot" /\ c'.req = c.req /\ c'.k = "adopt"
    BY <2>5, <1>2, <1>9, IdleIs DEF CallT
  <2>7. hp' # None BY <2>4
  <2>8. Active(q, void) /\ q.lastsub \in Nat /\ q.ent.sub \in Nat
    BY <1>2, <2>1 DEF Inv, Device, Queue, Entry
  <2>9. Rec(hp', q', void)
    <3>1. /\ q.lastsub <= q.ent.sub /\ q.lastsub # q.ent.sub /\ q.last # q.ent.id
          /\ q.ent.sub <= n.subs /\ q.ent.sub \notin void
      BY <2>1, <2>8 DEF Active
    <3> QED BY <3>1, <2>1, <2>2, <2>4 DEF Rec
  <2>10. Reported(q', hp', heard) BY <1>2, <2>2 DEF Inv, Reported
  <2>11. Kept(hp', c'.pc, heard) BY <2>4 DEF Kept
  <2>12. HasRec(c', hp') /\ Owed(c') /\ Reading(c', hp', q')
    BY <2>6, <2>7, <1>2 DEF HasRec, Owed, Reading, RPcs, SPcs, APcs, Before
  <2> QED BY <2>2, <2>6, <2>9, <2>10, <2>11, <2>12, <1>6, GoesOn DEF Fine
<1>10. CASE s.len = 0 /\ Submit(t.last, s.seq)
  <2>1. q'.ent = None /\ q'.last = t.last BY <1>1, <1>3, <1>4, <1>10 DEF devVars
  <2>2. t.last \in Ids /\ s.seq \in Subs BY <1>3, <1>4 DEF TransT, StatusT
  <2> QED BY <2>1, <2>2, <1>2, <1>6, <1>10, SubmitInv
<1> QED BY <1>5, <1>7, <1>8, <1>9, <1>10

LEMMA ReadOrphanInv ==
  ASSUME Inv, ReadOrphan
  PROVE  Inv' /\ Serves
<1> USE Constants
<1> DEFINE p == Progress
<1>1. c.pc = "o_pr" /\ c.pc \in Before /\ UNCHANGED <<devVars, hn, n>> BY DEF ReadOrphan, Before
<1>2. /\ hp = None /\ c \in CallT /\ q \in Queue /\ n.subs < n.calls /\ c.req \in Commands
  BY <1>1, Beforehand
<1>3. q.ent = None /\ c.ts.last # 0 /\ (q.last # 0 => q.last = c.ts.last /\ q.lastsub = c.ts.lsub)
  BY <1>1 DEF Inv, Reading
<1>4. p.id = q.last /\ p.res = q.res BY <1>3, ProgressIs
<1>5. CASE p.id # c.ts.last \/ p.res = "none" \/ (p.res = "ok") # c.st.ok
  <2>1. GiveUp BY <1>5 DEF ReadOrphan
  <2> QED BY <2>1, <1>1, GivesUp
<1>6. CASE ~(p.id # c.ts.last \/ p.res = "none" \/ (p.res = "ok") # c.st.ok)
  <2>1. Ack("orphan", c.st.ok, p.res) /\ Quiet(Pending(TRUE, c.ts.last, None, c.ts.seq, c.ts.lsub))
    BY <1>6 DEF ReadOrphan
  <2> HIDE DEF p
  <2>2. q.last = c.ts.last /\ q.last # 0 /\ q.lastsub = c.ts.lsub /\ q.res # "none"
    BY <1>3, <1>4, <1>6
  <2>3. /\ q.valid /\ q.res = ResOf(q.ok) /\ q.lastsub # 0 /\ q.lastsub <= n.subs
        /\ q.lastsub \notin void
        /\ [sub |-> q.lastsub, boot |-> boot, res |-> ResOf(q.ok)] \in runs
    BY <2>2 DEF Inv, Device, Last
  <2>4. q.ok \in BOOLEAN /\ c.st.ok \in BOOLEAN BY <1>2 DEF Queue, CallT, StatusT
  <2>5. c.st.ok = q.ok /\ p.res \in Answers /\ p.res = ResOf(q.ok)
    BY <2>3, <2>4, <1>4, <1>6 DEF ResOf, Answers
  <2>6. /\ c' \in CallT /\ c'.pc = "a_ts" /\ c'.req = c.req /\ c'.k = c.k /\ c'.ctx = "orphan"
        /\ c'.exp = q.ok /\ c'.res = ResOf(q.ok) /\ c'.ts = c.ts
    BY <2>1, <2>4, <2>5, <1>2, AckIs
  <2>7. /\ hp' = Pending(TRUE, q.last, None, c.ts.seq, q.lastsub)
        /\ UNCHANGED <<q, nonce, boot, runs, hn, n, void, told, heard>>
    BY <2>1, <2>2, <1>1 DEF Quiet, devVars
  <2>8. c.ts.seq \in Seqs BY <1>2 DEF CallT, TransT, Subs, Seqs
  <2>9. hp' \in Record /\ hp'.id = q.last /\ hp'.sub = q.lastsub /\ hp'.rstat = "none"
    BY <2>2, <2>3, <2>7, <2>8, <1>2 DEF Pending, Record, Queue, Results
  <2>10. hp' # None BY <2>9
  <2>11. q.lastsub <= q.lastsub
    <3>1. q.lastsub \in Nat BY <1>2 DEF Queue
    <3> QED BY <3>1
  <2>12. Rec(hp', q', void) BY <2>3, <2>7, <2>9, <2>11, <1>3 DEF Rec
  <2>13. Reported(q', hp', heard) BY <1>2, <2>7 DEF Inv, Reported
  <2>14. Kept(hp', c'.pc, heard) BY <2>9 DEF Kept
  <2>15. Ended(q.ok, q.lastsub)
    <3> DEFINE x == [sub |-> q.lastsub, boot |-> boot, res |-> ResOf(q.ok)]
    <3>1. x \in runs /\ x.sub = q.lastsub /\ x.res = ResOf(q.ok) BY <2>3
    <3> HIDE DEF x
    <3> QED BY <3>1, <2>4 DEF Ended, Won, Lost1, ResOf
  <2>16. HasRec(c', hp') /\ Owed(c')
    BY <2>6, <2>10, <1>2 DEF HasRec, Owed, RPcs, SPcs, APcs, Before
  <2>17. Reading(c', hp', q')
    <3>1. q'.ent = None /\ q'.last \in {0, hp'.id} /\ Ended(c'.exp, hp'.sub) /\ c'.ts.last = hp'.id
      BY <2>2, <2>6, <2>7, <2>9, <2>15, <1>3
    <3> QED BY <3>1, <2>6 DEF Reading, APcs
  <2>18. Fine BY <1>1, FineRead
  <2> QED BY <2>6, <2>7, <2>12, <2>13, <2>14, <2>16, <2>17, <2>18, GoesOn DEF Fine
<1> QED BY <1>5, <1>6

LEMMA ReadAgainInv ==
  ASSUME Inv, ReadAgain
  PROVE  Inv' /\ Serves
<1>1. c.pc = "st2" /\ c.pc \in Before /\ UNCHANGED <<devVars, hn, n>> BY DEF ReadAgain, Before
<1>2. /\ hp = None /\ c \in CallT /\ q \in Queue /\ n.subs < n.calls /\ c.req \in Commands
  BY <1>1, Beforehand
<1>3. CASE GiveUp BY <1>1, <1>3, GivesUp
<1>4. CASE c' = [c EXCEPT !.pc = "ts2", !.st = Status] /\ Keep
  <2>1. Status \in StatusT /\ "ts2" \in Pcs BY <1>2, StatusIs DEF Pcs
  <2>2. c' \in CallT /\ c'.pc = "ts2" /\ c'.req = c.req BY <2>1, <1>2, <1>4 DEF CallT
  <2>3. HasRec(c', hp) /\ Owed(c') /\ Reading(c', hp, q)
    BY <2>2, <1>2 DEF HasRec, Owed, Reading, RPcs, SPcs, APcs, Before
  <2> QED BY <2>2, <2>3, <1>1, <1>4, ReadsOn
<1> QED BY <1>3, <1>4 DEF ReadAgain

LEMMA SnapshotAgainInv ==
  ASSUME Inv, SnapshotAgain
  PROVE  Inv' /\ Serves
<1> DEFINE t == TransactionStatus
<1>1. c.pc = "ts2" /\ c.pc \in Before /\ UNCHANGED <<devVars, hn>> BY DEF SnapshotAgain, Before
<1>2. hp = None /\ c \in CallT /\ q \in Queue /\ Owing(c) BY <1>1, Beforehand
<1>3. t \in TransT /\ (t.act = 0 <=> q.ent = None) /\ t.last = q.last BY <1>2, TransIs
<1>4. (GiveUp /\ UNCHANGED n) \/ (t.act = 0 /\ Submit(t.last, c.st.seq)) BY DEF SnapshotAgain
<1> HIDE DEF t
<1>5. CASE GiveUp /\ UNCHANGED n BY <1>1, <1>5, GivesUp
<1>6. CASE t.act = 0 /\ Submit(t.last, c.st.seq)
  <2>1. q'.ent = None /\ q'.last = t.last BY <1>1, <1>3, <1>6 DEF devVars
  <2>2. t.last \in Ids /\ c.st.seq \in Subs BY <1>2, <1>3 DEF TransT, CallT, StatusT
  <2>3. Fine BY <1>1, FineRead
  <2> QED BY <2>1, <2>2, <2>3, <1>2, <1>6, SubmitInv
<1> QED BY <1>4, <1>5, <1>6

\* A command was accepted and is waited for.
LEMMA SpinOn ==
  ASSUME Inv, Fine, UNCHANGED n, Spin, Keep, hp # None, c.pc \in {"write"} \cup RPcs
  PROVE  Inv' /\ Serves
<1>1. c \in CallT BY DEF Inv
<1>2. c' \in CallT /\ c'.pc = "s_st" /\ c'.req = c.req /\ c'.k = c.k /\ c'.ctx = "none"
  BY <1>1, SpinIs
<1>3. UNCHANGED <<n, hp, void, told, heard>> BY DEF Keep
<1>4. HasRec(c', hp) BY <1>2 DEF HasRec, SPcs, Before
<1>5. Owed(c') BY <1>2 DEF Inv, Owed, Owing, RPcs, SPcs, APcs
<1>6. Reading(c', hp, q') BY <1>2 DEF Reading, APcs
<1>7. Kept(hp', c'.pc, heard) BY <1>3 DEF Inv, Kept, RPcs
<1>8. UNCHANGED <<runs, boot>> BY DEF Fine
<1>9. Rec(hp', q', void) /\ Reported(q', hp', heard) /\ HasRec(c', hp') /\ Reading(c', hp', q')
  BY <1>3, <1>4, <1>6 DEF Fine
<1> QED BY <1>2, <1>3, <1>5, <1>7, <1>8, <1>9, GoesOn DEF Fine

LEMMA WriteInv ==
  ASSUME Inv, Write
  PROVE  Inv' /\ Serves
<1>1. c.pc = "write" /\ UNCHANGED <<nonce, boot, runs, hn, n>> BY DEF Write
<1>2. hp # None BY <1>1 DEF Inv, HasRec
<1>3. Settles("unknown") /\ Settles("refused") BY <1>1 DEF Settles
<1>4. CASE UNCHANGED q /\ GiveUp
  <2>1. UNCHANGED <<devVars, hn>> BY <1>1, <1>4 DEF devVars
  <2> QED BY <2>1, <1>1, <1>4, GivesUp
<1>5. ASSUME NEW ans \in {"accepted", "rejected", "busy", "full"},
             Admit(hp.id, hp.cmd, hp.sub, ans),
             \/ GiveUp
             \/ ans = "accepted" /\ Spin /\ Keep
             \/ ans # "accepted" /\ Return(hp.sub, "refused", None)
      PROVE  Inv' /\ Serves
  <2>1. Fine /\ (ans # "accepted" => q' = q) BY <1>1, <1>2, <1>5, AdmitIs
  <2>2. CASE GiveUp BY <2>1, <2>2, <1>1, <1>3, GiveUpInv
  <2>3. CASE ans = "accepted" /\ Spin /\ Keep BY <2>1, <2>3, <1>1, <1>2, SpinOn
  <2>4. CASE ans # "accepted" /\ Return(hp.sub, "refused", None)
    <3>1. q.ent = None /\ (\A r \in runs : r.sub # hp.sub) /\ q.lastsub # hp.sub
      BY <1>1 DEF Inv, Reading
    <3>2. q.last # hp.id BY <3>1, <1>2 DEF Inv, Rec
    <3>3. Truth("refused") BY <3>1, <3>2, <2>1, <2>4 DEF Truth, Answers, Ran
    <3> QED BY <3>3, <2>1, <2>4, <1>1, <1>2, <1>3, ReturnInv
  <2> QED BY <2>2, <2>3, <2>4, <1>5
<1> QED BY <1>4, <1>5 DEF Write

-----------------------------------------------------------------------------
(* The steps of a call that has a record.                                  *)

\* The retired command is the record's, and how it ended is known.
LEMMA RetiredRan ==
  ASSUME Inv, hp # None, q.last = hp.id
  PROVE  Ended(q.ok, hp.sub) /\ q.ok \in BOOLEAN
<1>1. q.lastsub = hp.sub /\ hp.id # 0 BY DEF Inv, Rec, Record
<1>2. q.ok \in BOOLEAN BY DEF Inv, Device, Queue
<1> DEFINE x == [sub |-> q.lastsub, boot |-> boot, res |-> ResOf(q.ok)]
<1>3. x \in runs BY <1>1 DEF Inv, Device, Last
<1>4. x.sub = hp.sub /\ x.res = ResOf(q.ok) BY <1>1
<1> HIDE DEF x
<1> QED BY <1>2, <1>3, <1>4 DEF Ended, Won, Lost1, ResOf

LEMMA Recorded ==
  ASSUME Inv, c.pc \in {"write"} \cup RPcs \cup SPcs \cup APcs
  PROVE  /\ hp # None /\ hp \in Record /\ hp.id # 0 /\ c \in CallT /\ q \in Queue
         /\ (hp.rstat # "none" => Truth(hp.rstat) /\ hp.rstat # "refused")
<1>1. hp # None /\ c \in CallT /\ q \in Queue BY DEF Inv, HasRec, Device
<1>2. hp \in Record BY <1>1 DEF Inv, Rec
<1>3. hp.rstat # "none" => Truth(hp.rstat) /\ hp.rstat # "refused"
  BY <1>1, <1>2 DEF Inv, Rec, Truth, Record, Results, Answers
<1> QED BY <1>1, <1>2, <1>3 DEF Record

LEMMA LostInv ==
  ASSUME Inv, UNCHANGED <<devVars, n>>, c.pc \in RPcs \cup SPcs, Lost
  PROVE  Inv' /\ Serves
<1>1. Return(hp.sub, "unknown", None) /\ hn' = 0 BY DEF Lost
<1>2. hn' \in 0 .. boot /\ nonce' \in {0, boot} BY <1>1, Constants DEF Inv, Stamps, World, devVars
<1>3. Fine BY <1>2, FineSame DEF devVars
<1>4. hp # None BY Recorded
<1>5. Truth("unknown") /\ Settles("unknown") BY DEF Truth, Settles, Answers, RPcs, SPcs
<1> QED BY <1>1, <1>3, <1>4, <1>5, ReturnInv

\* A step inside the resolution, or inside the wait, that only reads.
LEMMA StaysOn ==
  ASSUME Inv, UNCHANGED <<devVars, hn, n>>, Keep, c' \in CallT, c'.req = c.req, c'.k = c.k,
         c'.ctx = c.ctx,
         (c.pc \in RPcs /\ c'.pc \in RPcs) \/ (c.pc \in SPcs /\ c'.pc \in SPcs),
         Reading(c', hp, q)
  PROVE  Inv' /\ Serves
<1>1. HasRec(c', hp) BY DEF Inv, HasRec, RPcs, SPcs, APcs, Before
<1>2. Owed(c') BY DEF Inv, Owed, Owing, RPcs, SPcs, APcs
<1>3. c.pc # "a_wr" BY DEF RPcs, SPcs
<1> QED BY <1>1, <1>2, <1>3, ReadsOn

\* The acknowledgement of a result begins.
LEMMA AcksOn ==
  ASSUME Inv, UNCHANGED <<devVars, hn, n>>, Keep, NEW ctx \in {"spin", "resolve"},
         NEW exp \in BOOLEAN, Ack(ctx, exp, ResOf(exp)), c.pc \in RPcs \cup SPcs,
         c.pc \in RPcs <=> ctx = "resolve",
         q.ent = None, q.last \in {0, hp.id}, Ended(exp, hp.sub)
  PROVE  Inv' /\ Serves
<1>1. c \in CallT BY DEF Inv
<1>2. ResOf(exp) \in Answers BY DEF ResOf, Answers
<1>3. /\ c' \in CallT /\ c'.pc = "a_ts" /\ c'.req = c.req /\ c'.k = c.k /\ c'.ctx = ctx
      /\ c'.exp = exp /\ c'.res = ResOf(exp)
  BY <1>1, <1>2, AckIs
<1>4. HasRec(c', hp) BY <1>3 DEF Inv, HasRec, RPcs, SPcs, APcs, Before
<1>5. Owed(c') BY <1>3 DEF Inv, Owed, Owing, RPcs, SPcs, APcs
<1>6. ctx = "resolve" => c.k # "submit" BY DEF Inv, Owed
<1>7. Reading(c', hp, q) BY <1>3, <1>6 DEF Reading, APcs
<1>8. c.pc # "a_wr" BY DEF RPcs, SPcs
<1> QED BY <1>3, <1>4, <1>5, <1>7, <1>8, ReadsOn

\* The resolution ends, with nothing known or with the record kept.
LEMMA Unresolved ==
  ASSUME Inv, Fine, UNCHANGED n, c.pc \in RPcs, NEW p \in {hp, None},
         ResolveReturn("unknown", p)
  PROVE  Inv' /\ Serves
<1>1. c.k # "submit" BY DEF Inv, Owed
<1>2. Truth("unknown") /\ Settles("unknown") BY DEF Truth, Settles, Answers, RPcs
<1> QED BY <1>1, <1>2, ResolveReturnInv

LEMMA Unwaited ==
  ASSUME Inv, UNCHANGED <<devVars, hn, n>>, c.pc \in SPcs, SpinReturn(FALSE, "unknown")
  PROVE  Inv' /\ Serves
<1>1. Truth("unknown") BY DEF Truth, Answers
<1>2. Fine BY FineRead
<1> QED BY <1>1, <1>2, SpinReturnInv

LEMMA CheckBootInv ==
  ASSUME Inv, CheckBoot
  PROVE  Inv' /\ Serves
<1>1. c.pc = "r_boot" /\ c.pc \in RPcs /\ UNCHANGED <<devVars, n>> /\ c \in CallT
  BY DEF CheckBoot, RPcs, Inv
<1>2. CASE Lost BY <1>1, <1>2, LostInv
<1>3. CASE Goto("r_ts") /\ Keep /\ UNCHANGED hn
  <2>1. "r_ts" \in Pcs BY DEF Pcs
  <2>2. c' \in CallT /\ c'.pc = "r_ts" /\ c'.req = c.req /\ c'.k = c.k /\ c'.ctx = c.ctx
    BY <2>1, <1>1, <1>3, GotoIs
  <2>3. Reading(c', hp, q) /\ c'.pc \in RPcs BY <2>2 DEF Reading, APcs, RPcs
  <2> QED BY <2>2, <2>3, <1>1, <1>3, StaysOn
<1> QED BY <1>2, <1>3 DEF CheckBoot

LEMMA ResolveTransInv ==
  ASSUME Inv, ResolveTrans
  PROVE  Inv' /\ Serves
<1>1. /\ c.pc = "r_ts" /\ c.pc \in RPcs /\ UNCHANGED <<devVars, hn, n>> /\ Keep
      /\ c' = [c EXCEPT !.pc = "r_st", !.ts = TransactionStatus]
  BY DEF ResolveTrans, RPcs
<1>2. c \in CallT /\ q \in Queue BY InvTypes
<1>3. /\ TransactionStatus \in TransT /\ (TransactionStatus.act = 0 <=> q.ent = None)
      /\ TransactionStatus.last = q.last
  BY <1>2, TransIs
<1>4. "r_st" \in Pcs BY DEF Pcs
<1>5. /\ c' \in CallT /\ c'.pc = "r_st" /\ c'.ts = TransactionStatus /\ c'.req = c.req
      /\ c'.k = c.k /\ c'.ctx = c.ctx
  BY <1>1, <1>2, <1>3, <1>4 DEF CallT
<1>6. Reading(c', hp, q) /\ c'.pc \in RPcs BY <1>3, <1>5 DEF Reading, APcs, RPcs
<1> QED BY <1>1, <1>5, <1>6, StaysOn

LEMMA ResolveInv ==
  ASSUME Inv, Resolve
  PROVE  Inv' /\ Serves
<1> DEFINE s == Status
           t == c.ts
<1>1. c.pc = "r_st" /\ c.pc \in RPcs /\ UNCHANGED <<devVars, hn, n>> BY DEF Resolve, RPcs
<1>2. hp # None /\ hp \in Record /\ hp.id # 0 /\ c \in CallT /\ q \in Queue BY <1>1, Recorded
<1>3. (s.len = 0 <=> q.ent = None) /\ s.ok = q.ok /\ s.valid = q.valid BY <1>2, StatusIs
<1>4. t.act = 0 => q.ent = None /\ q.last \in {0, t.last} BY <1>1 DEF Inv, Reading
<1>5. \/ ResolveReturn("unknown", None)
      \/ ResolveReturn("unknown", hp)
      \/ /\ s.len = 0 /\ ~s.valid /\ hp.rstat # "none" /\ Goto("r_ack") /\ Keep
      \/ /\ t.last = hp.id /\ t.act = 0 /\ s.valid /\ Keep /\ s.ok /\ Ack("resolve", TRUE, "ok")
      \/ /\ t.last = hp.id /\ t.act = 0 /\ s.valid /\ Keep /\ ~s.ok /\ Goto("r_pr")
      \/ Spin /\ Keep
      \/ Goto("r_wr") /\ Keep
  BY DEF Resolve
<1> HIDE DEF s, t
<1>6. Fine BY <1>1, FineRead
<1>7. CASE ResolveReturn("unknown", None) BY <1>1, <1>6, <1>7, Unresolved
<1>8. CASE ResolveReturn("unknown", hp) BY <1>1, <1>6, <1>8, Unresolved
<1>9. CASE s.len = 0 /\ ~s.valid /\ hp.rstat # "none" /\ Goto("r_ack") /\ Keep
  <2>1. "r_ack" \in Pcs BY DEF Pcs
  <2>2. c' \in CallT /\ c'.pc = "r_ack" /\ c'.req = c.req /\ c'.k = c.k /\ c'.ctx = c.ctx
    BY <2>1, <1>2, <1>9, GotoIs
  <2>3. Reading(c', hp, q) /\ c'.pc \in RPcs BY <2>2, <1>3, <1>9 DEF Reading, APcs, RPcs
  <2> QED BY <2>2, <2>3, <1>1, <1>9, StaysOn
<1>10. ASSUME t.last = hp.id, t.act = 0, s.valid
       PROVE  q.ent = None /\ q.last = hp.id /\ Ended(q.ok, hp.sub)
  <2>1. q.ent = None /\ q.last \in {0, hp.id} BY <1>4, <1>10
  <2>2. q.last # 0 BY <1>3, <1>10 DEF Inv, Device, Last
  <2> QED BY <2>1, <2>2, <1>2, RetiredRan
<1>11. CASE t.last = hp.id /\ t.act = 0 /\ s.valid /\ Keep /\ s.ok /\ Ack("resolve", TRUE, "ok")
  <2>1. q.ent = None /\ q.last = hp.id /\ Ended(TRUE, hp.sub)
    BY <1>3, <1>10, <1>11 DEF Ended
  <2>2. Ack("resolve", TRUE, ResOf(TRUE)) BY <1>11 DEF ResOf
  <2> QED BY <2>1, <2>2, <1>1, <1>11, AcksOn
<1>12. CASE t.last = hp.id /\ t.act = 0 /\ s.valid /\ Keep /\ ~s.ok /\ Goto("r_pr")
  <2>1. "r_pr" \in Pcs BY DEF Pcs
  <2>2. c' \in CallT /\ c'.pc = "r_pr" /\ c'.req = c.req /\ c'.k = c.k /\ c'.ctx = c.ctx
    BY <2>1, <1>2, <1>12, GotoIs
  <2>3. q.ent = None /\ q.last = hp.id /\ ~q.ok BY <1>3, <1>10, <1>12
  <2>4. Reading(c', hp, q) /\ c'.pc \in RPcs BY <2>2, <2>3 DEF Reading, APcs, RPcs
  <2> QED BY <2>2, <2>4, <1>1, <1>12, StaysOn
<1>13. CASE Spin /\ Keep BY <1>1, <1>2, <1>6, <1>13, SpinOn
<1>14. CASE Goto("r_wr") /\ Keep
  <2>1. "r_wr" \in Pcs BY DEF Pcs
  <2>2. c' \in CallT /\ c'.pc = "r_wr" /\ c'.req = c.req /\ c'.k = c.k /\ c'.ctx = c.ctx
    BY <2>1, <1>2, <1>14, GotoIs
  <2>3. Reading(c', hp, q) /\ c'.pc \in RPcs BY <2>2 DEF Reading, APcs, RPcs
  <2> QED BY <2>2, <2>3, <1>1, <1>14, StaysOn
<1> QED BY <1>5, <1>7, <1>8, <1>9, <1>11, <1>12, <1>13, <1>14

LEMMA ResolveResultInv ==
  ASSUME Inv, ResolveResult
  PROVE  Inv' /\ Serves
<1> DEFINE p == Progress
<1>1. c.pc = "r_pr" /\ c.pc \in RPcs /\ UNCHANGED <<devVars, hn, n>> BY DEF ResolveResult, RPcs
<1>2. hp # None /\ hp \in Record /\ hp.id # 0 BY <1>1, Recorded
<1>3. q.ent = None /\ q.last \in {0, hp.id} /\ (q.last = hp.id => ~q.ok)
  BY <1>1 DEF Inv, Reading
<1>4. p.id = q.last /\ p.res = q.res BY <1>3, ProgressIs
<1>5. CASE p.id # hp.id \/ p.res = "none"
  <2>1. ResolveReturn("unknown", None) BY <1>5 DEF ResolveResult
  <2>2. Fine BY <1>1, FineRead
  <2> QED BY <2>1, <2>2, <1>1, Unresolved
<1>6. CASE ~(p.id # hp.id \/ p.res = "none")
  <2>1. Keep /\ Ack("resolve", FALSE, IF p.res = "failed" THEN "failed" ELSE "unknown")
    BY <1>6 DEF ResolveResult
  <2> HIDE DEF p
  <2>2. q.last = hp.id /\ ~q.ok /\ q.res # "none" BY <1>3, <1>4, <1>6
  <2>3. q.res = "failed" BY <2>2 DEF Inv, Device, Last, ResOf
  <2>4. Ack("resolve", FALSE, ResOf(FALSE)) BY <2>1, <2>3, <1>4 DEF ResOf
  <2>5. Ended(FALSE, hp.sub) BY <2>2, <1>2, RetiredRan DEF Ended
  <2> QED BY <2>1, <2>4, <2>5, <1>1, <1>3, AcksOn
<1> QED BY <1>5, <1>6

LEMMA AckAgainInv ==
  ASSUME Inv, AckAgain
  PROVE  Inv' /\ Serves
<1>1. c.pc = "r_ack" /\ c.pc \in RPcs /\ UNCHANGED <<nonce, boot, runs, hn, n>>
  BY DEF AckAgain, RPcs
<1>2. Fine
  <2>1. CASE UNCHANGED q BY <1>1, <2>1, FineRead DEF devVars
  <2>2. CASE \E ans \in {"accepted", "rejected"} : AckResult(hp.id, hp.seq, ans)
    BY <1>1, <2>2, AckResultIs
  <2> QED BY <2>1, <2>2 DEF AckAgain
<1>3. ResolveReturn(hp.rstat, hp) \/ ResolveReturn(hp.rstat, None) BY DEF AckAgain
<1>4. hp # None /\ hp.rstat # "none" /\ c.k # "submit"
  BY <1>1 DEF Inv, Owed, Reading, HasRec
<1>5. Truth(hp.rstat) /\ hp.rstat # "refused" /\ Settles(hp.rstat)
  BY <1>1, <1>4, Recorded DEF Settles
<1> QED BY <1>1, <1>2, <1>3, <1>4, <1>5, ResolveReturnInv

LEMMA ResendInv ==
  ASSUME Inv, Resend
  PROVE  Inv' /\ Serves
<1>1. c.pc = "r_wr" /\ c.pc \in RPcs /\ UNCHANGED <<nonce, boot, runs, hn, n>>
  BY DEF Resend, RPcs
<1>2. hp # None BY <1>1, Recorded
<1>3. CASE UNCHANGED q /\ ResolveReturn("unknown", hp)
  <2>1. Fine BY <1>1, <1>3, FineRead DEF devVars
  <2> QED BY <2>1, <1>1, <1>3, Unresolved
<1>4. ASSUME NEW ans \in {"accepted", "rejected", "busy", "full"},
             Admit(hp.id, hp.cmd, hp.sub, ans),
             \/ ResolveReturn("unknown", hp)
             \/ ans = "accepted" /\ Spin /\ Keep
             \/ ans = "full" /\ ResolveReturn("refused", None)
      PROVE  Inv' /\ Serves
  <2>1. Fine /\ (ans = "full" => ~Ran(hp.sub) /\ q'.ent = None /\ q'.last # hp.id)
    BY <1>1, <1>2, <1>4, AdmitIs
  <2>2. CASE ResolveReturn("unknown", hp) BY <2>1, <2>2, <1>1, Unresolved
  <2>3. CASE ans = "accepted" /\ Spin /\ Keep BY <2>1, <2>3, <1>1, <1>2, SpinOn
  <2>4. CASE ans = "full" /\ ResolveReturn("refused", None)
    <3>1. Truth("refused") /\ Settles("refused")
      BY <2>1, <2>4, <1>1 DEF Truth, Settles, Answers
    <3>2. c.k # "submit" BY <1>1 DEF Inv, Owed
    <3> QED BY <3>1, <3>2, <2>1, <2>4, <1>1, ResolveReturnInv
  <2> QED BY <2>2, <2>3, <2>4, <1>4
<1> QED BY <1>3, <1>4 DEF Resend

LEMMA PollInv ==
  ASSUME Inv, Poll
  PROVE  Inv' /\ Serves
<1> DEFINE s == c.st
           t == TransactionStatus
<1>1. c.pc = "s_ts" /\ c.pc \in SPcs /\ UNCHANGED <<devVars, hn, n>> /\ Keep BY DEF Poll, SPcs
<1>2. hp # None /\ hp \in Record /\ hp.id # 0 /\ c \in CallT /\ q \in Queue BY <1>1, Recorded
<1>3. t.last = q.last BY <1>2, TransIs
<1>4. s.len = 0 => q.ent = None /\ (q.last = 0 \/ q.ok = s.ok) BY <1>1 DEF Inv, Reading
<1>5. PICK p \in {"s_st", "s_boot", "s_odd", "s_chk"} :
         Goto(p) /\ (p = "s_boot" => s.len = 0 /\ t.last = hp.id)
  BY DEF Poll
<1> HIDE DEF s, t
<1>6. p \in Pcs /\ p \in SPcs BY DEF Pcs, SPcs
<1>7. /\ c' \in CallT /\ c'.pc = p /\ c'.req = c.req /\ c'.k = c.k /\ c'.ctx = c.ctx
      /\ c'.st = s
  BY <1>2, <1>5, <1>6, GotoIs DEF s
<1>8. p = "s_boot" => q.ent = None /\ q.last = hp.id /\ Ended(s.ok, hp.sub)
  BY <1>2, <1>3, <1>4, <1>5, RetiredRan
<1>9. Reading(c', hp, q) BY <1>7, <1>8 DEF Reading, APcs
<1> QED BY <1>1, <1>6, <1>7, <1>9, StaysOn

LEMMA MismatchInv ==
  ASSUME Inv, Mismatch
  PROVE  Inv' /\ Serves
<1>1. c.pc = "s_odd" /\ c.pc \in SPcs /\ UNCHANGED <<devVars, n>> BY DEF Mismatch, SPcs
<1>2. Lost \/ (SpinReturn(FALSE, "unknown") /\ UNCHANGED hn) BY DEF Mismatch
<1> QED BY <1>1, <1>2, LostInv, Unwaited

LEMMA RetiredInv ==
  ASSUME Inv, Retired
  PROVE  Inv' /\ Serves
<1>1. c.pc = "s_boot" /\ c.pc \in SPcs /\ UNCHANGED <<devVars, n>> BY DEF Retired, SPcs
<1>2. c \in CallT /\ c.st.ok \in BOOLEAN /\ c.st.valid \in BOOLEAN BY DEF Inv, CallT, StatusT
<1>3. q.ent = None /\ q.last \in {0, hp.id} /\ Ended(c.st.ok, hp.sub)
  BY <1>1 DEF Inv, Reading
<1>4. \/ Lost
      \/ c.st.ok /\ Ack("spin", TRUE, "ok") /\ Keep /\ UNCHANGED hn
      \/ Goto("s_pr") /\ Keep /\ UNCHANGED hn
      \/ SpinReturn(FALSE, "unknown") /\ UNCHANGED hn
  BY DEF Retired
<1>5. CASE Lost BY <1>1, <1>5, LostInv
<1>6. CASE c.st.ok /\ Ack("spin", TRUE, "ok") /\ Keep /\ UNCHANGED hn
  <2>1. Ack("spin", TRUE, ResOf(TRUE)) BY <1>6 DEF ResOf
  <2>2. Ended(TRUE, hp.sub) BY <1>3, <1>6 DEF Ended
  <2>3. ~(c.pc \in RPcs) BY <1>1 DEF RPcs
  <2> QED BY <2>1, <2>2, <2>3, <1>1, <1>3, <1>6, AcksOn
<1>7. CASE Goto("s_pr") /\ Keep /\ UNCHANGED hn
  <2>1. "s_pr" \in Pcs BY DEF Pcs
  <2>2. c' \in CallT /\ c'.pc = "s_pr" /\ c'.req = c.req /\ c'.k = c.k /\ c'.ctx = c.ctx
    BY <2>1, <1>2, <1>7, GotoIs
  <2>3. Reading(c', hp, q) /\ c'.pc \in SPcs BY <2>2, <1>3 DEF Reading, APcs, SPcs
  <2> QED BY <2>2, <2>3, <1>1, <1>7, StaysOn
<1>8. CASE SpinReturn(FALSE, "unknown") /\ UNCHANGED hn BY <1>1, <1>8, Unwaited
<1> QED BY <1>4, <1>5, <1>6, <1>7, <1>8

LEMMA FailureResultInv ==
  ASSUME Inv, FailureResult
  PROVE  Inv' /\ Serves
<1> DEFINE p == Progress
<1>1. c.pc = "s_pr" /\ c.pc \in SPcs /\ ~(c.pc \in RPcs) /\ UNCHANGED <<devVars, hn, n>>
  BY DEF FailureResult, SPcs, RPcs
<1>2. hp # None BY <1>1, Recorded
<1>3. q.ent = None /\ q.last \in {0, hp.id} BY <1>1 DEF Inv, Reading
<1>4. p.id = q.last /\ p.res = q.res BY <1>3, ProgressIs
<1>5. CASE SpinReturn(FALSE, "unknown") BY <1>1, <1>5, Unwaited
<1>6. CASE /\ p.id = hp.id /\ p.res \notin {"none", "ok"}
           /\ Ack("spin", FALSE, "failed") /\ Keep
  <2>1. q.last = hp.id /\ q.res \notin {"none", "ok"} BY <1>4, <1>6
  <2>2. ~q.ok BY <2>1 DEF Inv, Device, Last, ResOf
  <2>3. Ended(FALSE, hp.sub) BY <2>1, <2>2, <1>2, RetiredRan DEF Ended
  <2>4. Ack("spin", FALSE, ResOf(FALSE)) BY <1>6 DEF ResOf
  <2> QED BY <2>3, <2>4, <1>1, <1>3, <1>6, AcksOn
<1> QED BY <1>5, <1>6 DEF FailureResult

LEMMA CheckStallInv ==
  ASSUME Inv, CheckStall
  PROVE  Inv' /\ Serves
<1> DEFINE w == IF Progress.id = hp.id THEN q.prog ELSE c.watch
<1>1. /\ c.pc = "s_chk" /\ c.pc \in SPcs /\ UNCHANGED <<devVars, hn, n>> /\ Keep
      /\ c' = [c EXCEPT !.pc = "s_st", !.st = NoStatus, !.watch = w]
  BY DEF CheckStall, SPcs
<1>2. c \in CallT /\ q \in Queue BY InvTypes
<1>3. w \in Nat \cup {None} BY <1>2 DEF CallT, Queue
<1> HIDE DEF w
<1>4. "s_st" \in Pcs BY DEF Pcs
<1>5. c' \in CallT /\ c'.pc = "s_st" /\ c'.req = c.req /\ c'.k = c.k /\ c'.ctx = c.ctx
  BY <1>1, <1>2, <1>3, <1>4, NoStatusIs DEF CallT
<1>6. Reading(c', hp, q) /\ c'.pc \in SPcs BY <1>5 DEF Reading, APcs, SPcs
<1> QED BY <1>1, <1>5, <1>6, StaysOn

LEMMA StallExpiresInv ==
  ASSUME Inv, StallExpires
  PROVE  Inv' /\ Serves
<1>1. c.pc \in SPcs /\ UNCHANGED <<devVars, hn, n>> /\ SpinReturn(FALSE, "unknown")
  BY DEF StallExpires, SPcs
<1> QED BY <1>1, Unwaited

LEMMA Unacknowledged ==
  ASSUME Inv, UNCHANGED <<devVars, hn>>, c.pc \in APcs, AckReturn(FALSE)
  PROVE  Inv' /\ Serves
<1>1. Fine BY FineRead
<1>2. q'.ent = None /\ q'.last \in {0, hp.id} BY DEF Inv, Reading, devVars
<1> QED BY <1>1, <1>2, AckReturnInv

LEMMA AckTransInv ==
  ASSUME Inv, AckTrans
  PROVE  Inv' /\ Serves
<1>1. c.pc = "a_ts" /\ c.pc \in APcs /\ UNCHANGED <<devVars, hn>> /\ c \in CallT
  BY DEF AckTrans, APcs, Inv
<1>2. CASE AckReturn(FALSE) BY <1>1, <1>2, Unacknowledged
<1>3. CASE Goto("a_pr") /\ Keep /\ UNCHANGED n
  <2>1. "a_pr" \in Pcs BY DEF Pcs
  <2>2. /\ c' \in CallT /\ c'.pc = "a_pr" /\ c'.req = c.req /\ c'.k = c.k /\ c'.ctx = c.ctx
        /\ c'.ts = c.ts /\ c'.exp = c.exp /\ c'.res = c.res
    BY <2>1, <1>1, <1>3, GotoIs
  <2>3. HasRec(c', hp) BY <1>1, <2>2 DEF Inv, HasRec, APcs, Before
  <2>4. Owed(c') BY <1>1, <2>2 DEF Inv, Owed, Owing, RPcs, SPcs, APcs
  <2>5. Reading(c', hp, q)
    <3>1. /\ q.ent = None /\ q.last \in {0, hp.id}
          /\ c.ctx # "none" /\ c.res = ResOf(c.exp) /\ Ended(c.exp, hp.sub)
          /\ c.ctx = "orphan" => c.ts.last = hp.id
          /\ c.ctx = "resolve" => c.k # "submit"
      BY <1>1 DEF Inv, Reading
    <3> QED BY <3>1, <2>2 DEF Reading, APcs
  <2> QED BY <2>2, <2>3, <2>4, <2>5, <1>1, <1>3, ReadsOn
<1> QED BY <1>2, <1>3 DEF AckTrans

LEMMA AckProgressInv ==
  ASSUME Inv, AckProgress
  PROVE  Inv' /\ Serves
<1> DEFINE p == Progress
<1>1. c.pc = "a_pr" /\ c.pc \in APcs /\ UNCHANGED <<devVars, hn>> BY DEF AckProgress, APcs
<1>2. hp # None /\ hp \in Record /\ c \in CallT /\ q \in Queue /\ hp.id # 0 BY <1>1, Recorded
<1>3. /\ q.ent = None /\ q.last \in {0, hp.id}
      /\ c.ctx # "none" /\ c.res = ResOf(c.exp) /\ Ended(c.exp, hp.sub)
      /\ c.ctx = "orphan" => c.ts.last = hp.id
      /\ c.ctx = "resolve" => c.k # "submit"
  BY <1>1 DEF Inv, Reading
<1>4. p.id = q.last /\ p.res = q.res BY <1>3, ProgressIs
<1>5. CASE AckReturn(FALSE) BY <1>1, <1>5, Unacknowledged
<1>6. CASE /\ ~(p.id # hp.id \/ p.res = "none" \/ (p.res = "ok") # c.exp)
           /\ Goto("a_wr") /\ Quiet([hp EXCEPT !.rstat = p.res]) /\ UNCHANGED n
  <2> HIDE DEF p
  <2>1. q.res # "none" /\ (q.res = "ok") = c.exp BY <1>4, <1>6
  <2>2. q.res = ResOf(q.ok) BY <2>1 DEF Inv, Device, Last
  <2>3. c.exp \in BOOLEAN BY <1>2 DEF CallT
  <2>4. q.res = c.res /\ q.res \in Results /\ (q.res = "ok" => c.exp) /\ (q.res = "failed" => ~c.exp)
    BY <2>1, <2>2, <2>3, <1>3 DEF ResOf, Results
  <2>5. /\ hp' = [hp EXCEPT !.rstat = q.res]
        /\ UNCHANGED <<q, nonce, boot, runs, hn, n, void, told, heard>>
    BY <1>1, <1>4, <1>6 DEF Quiet, devVars
  <2>6. hp' \in Record /\ hp'.id = hp.id /\ hp'.sub = hp.sub /\ hp'.rstat = q.res
    BY <2>4, <2>5, <1>2 DEF Record
  <2>7. hp' # None BY <2>6, Constants
  <2>8. "a_wr" \in Pcs BY DEF Pcs
  <2>9. /\ c' \in CallT /\ c'.pc = "a_wr" /\ c'.req = c.req /\ c'.k = c.k /\ c'.ctx = c.ctx
        /\ c'.ts = c.ts /\ c'.exp = c.exp /\ c'.res = c.res
    BY <2>8, <1>2, <1>6, GotoIs
  <2>10. (q.res = "ok" => Won(hp.sub)) /\ (q.res = "failed" => Lost1(hp.sub))
    BY <2>4, <1>3 DEF Ended
  <2>11. Rec(hp', q', void)
    <3>1. Rec(hp, q, void) BY DEF Inv
    <3> QED BY <3>1, <2>5, <2>6, <2>10, <1>2 DEF Rec
  <2>12. Reported(q', hp', heard)
    <3>1. Reported(q, None, heard) BY <1>1, DroppedReported DEF Inv
    <3> QED BY <3>1, <2>5 DEF Reported
  <2>13. Kept(hp', c'.pc, heard) BY <2>9 DEF Kept
  <2>14. HasRec(c', hp') BY <2>7, <2>9 DEF HasRec, Before
  <2>15. Owed(c') BY <1>1, <2>9 DEF Inv, Owed, Owing, RPcs, SPcs, APcs
  <2>16. Reading(c', hp', q')
    <3>1. q' = q BY <2>5
    <3>2. Ended(c'.exp, hp'.sub) /\ q'.last \in {0, hp'.id} BY <3>1, <2>6, <2>9, <1>3
    <3> QED BY <3>1, <3>2, <2>4, <2>6, <2>9, <1>3 DEF Reading, APcs
  <2>17. Fine BY <1>1, FineRead
  <2> QED BY <2>5, <2>9, <2>11, <2>12, <2>13, <2>14, <2>15, <2>16, <2>17, GoesOn DEF Fine
<1> QED BY <1>5, <1>6 DEF AckProgress

LEMMA AckWriteInv ==
  ASSUME Inv, AckWrite
  PROVE  Inv' /\ Serves
<1>1. c.pc = "a_wr" /\ c.pc \in APcs /\ UNCHANGED <<nonce, boot, runs, hn>>
  BY DEF AckWrite, APcs
<1>2. q.last \in {0, hp.id} BY <1>1 DEF Inv, Reading
<1>3. CASE UNCHANGED q /\ AckReturn(FALSE) BY <1>1, <1>3, Unacknowledged DEF devVars
<1>4. ASSUME NEW ans \in {"accepted", "rejected"}, AckResult(hp.id, hp.seq, ans),
             AckReturn(FALSE) \/ AckReturn(TRUE)
      PROVE  Inv' /\ Serves
  <2>1. Fine /\ q'.ent = None /\ q'.last \in {0, hp.id} BY <1>1, <1>2, <1>4, AckResultIs
  <2> QED BY <2>1, <1>1, <1>4, AckReturnInv
<1> QED BY <1>3, <1>4 DEF AckWrite

LEMMA ReadFailsInv ==
  ASSUME Inv, ReadFails
  PROVE  Inv' /\ Serves
<1>1. UNCHANGED <<devVars, hn>> BY DEF ReadFails
<1>2. Fine BY <1>1, FineRead
<1>3. CASE /\ c.pc \in {"st0", "nonce", "n_rd", "st1", "ts1", "o_pr", "st2", "ts2"}
           /\ GiveUp /\ UNCHANGED n
  BY <1>1, <1>3, GivesUp
<1>4. CASE c.pc \in {"r_boot", "r_ts", "r_st"} /\ ResolveReturn("unknown", hp) /\ UNCHANGED n
  <2>1. c.pc \in RPcs BY <1>4 DEF RPcs
  <2> QED BY <2>1, <1>2, <1>4, Unresolved
<1>5. CASE c.pc = "r_pr" /\ ResolveReturn("unknown", None) /\ UNCHANGED n
  <2>1. c.pc \in RPcs BY <1>5 DEF RPcs
  <2> QED BY <2>1, <1>2, <1>5, Unresolved
<1>6. CASE /\ c.pc \in {"s_st", "s_ts", "s_odd", "s_boot", "s_pr", "s_chk"}
           /\ SpinReturn(FALSE, "unknown") /\ UNCHANGED n
  <2>1. c.pc \in SPcs BY <1>6 DEF SPcs
  <2> QED BY <2>1, <1>1, <1>6, Unwaited
<1>7. CASE c.pc \in {"a_ts", "a_pr"} /\ AckReturn(FALSE)
  <2>1. c.pc \in APcs BY <1>7 DEF APcs
  <2> QED BY <2>1, <1>1, <1>7, Unacknowledged
<1> QED BY <1>3, <1>4, <1>5, <1>6, <1>7 DEF ReadFails

LEMMA CrashInv ==
  ASSUME Inv, Crash
  PROVE  Inv' /\ Serves
<1> USE Constants
<1>1. /\ n' = [n EXCEPT !.crashes = @ + 1] /\ hp' = None /\ hn' = 0 /\ c' = Idle
      /\ heard' = IF hp # None /\ hp.rstat = "failed" THEN heard \cup {hp.sub} ELSE heard
      /\ UNCHANGED <<q, nonce, boot, runs, void, told>>
  BY DEF Crash, devVars
<1>2. n' \in Count /\ n'.subs = n.subs /\ n'.calls = n.calls BY <1>1 DEF Inv, World, Count
<1>3. c' \in CallT /\ c'.pc = "idle" BY <1>1, IdleIs
<1>4. heard \subseteq heard' /\ heard' \subseteq Submissions
  BY <1>1 DEF Inv, Answered, Rec, Record
<1>5. World' BY <1>1, <1>2 DEF Inv, World
<1>6. Stamps' BY <1>1 DEF Inv, Stamps, World
<1>7. Device(q, void)' BY <1>1, <1>2 DEF Inv, Device, Active, Last, Ran
<1>8. Rec(hp, q, void)' /\ Kept(hp, c.pc, heard)' BY <1>1 DEF Rec, Kept
<1>9. Reported(q, hp, heard)'
  <2> SUFFICES ASSUME NEW r \in runs, r.boot = boot, r.res = "failed"
               PROVE  r.sub \in heard' \/ (q.ent # None /\ q.ent.sub = r.sub)
                      \/ (q.valid /\ q.lastsub = r.sub)
    BY <1>1 DEF Reported
  <2> QED BY <1>1, <1>4 DEF Inv, Reported
<1>10. HasRec(c, hp)' /\ Owed(c)' /\ Reading(c, hp, q)'
  BY <1>3 DEF HasRec, Owed, Owing, Reading, RPcs, SPcs, APcs, Before
<1>11. Answered' BY <1>1, <1>4 DEF Inv, Answered
<1>12. Serves BY <1>1, Stutters
<1> QED BY <1>3, <1>5, <1>6, <1>7, <1>8, <1>9, <1>10, <1>11, <1>12 DEF Inv

-----------------------------------------------------------------------------
(* The worker and the reboot. The host waits on nothing while a command is *)
(* active that the worker could change.                                    *)

LEMMA WorkerInv ==
  ASSUME Inv, q.ent # None, UNCHANGED <<nonce, boot, hostVars, n>>, World',
         Device(q, void)', Rec(hp, q, void)', Reported(q, hp, heard)'
  PROVE  Inv'
<1>1. UNCHANGED <<nonce, boot, hp, hn, c, void, told, heard, n>> BY DEF hostVars
<1>2. Stamps' /\ Kept(hp, c.pc, heard)' /\ (c \in CallT)' /\ HasRec(c, hp)' /\ Owed(c)' /\ Answered'
  BY <1>1 DEF Inv, Stamps, Kept, HasRec, Owed, Owing, Answered
<1>3. /\ c.pc \notin {"write", "o_pr", "s_boot", "s_pr", "r_pr", "r_ack", "a_wr"} \cup APcs
      /\ ~(c.pc = "ts1" /\ c.st.len = 0) /\ ~(c.pc = "r_st" /\ c.ts.act = 0)
      /\ ~(c.pc = "s_ts" /\ c.st.len = 0)
  BY DEF Inv, Reading, APcs
<1>4. Reading(c, hp, q)' BY <1>1, <1>3 DEF Reading
<1> QED BY <1>2, <1>4 DEF Inv

\* What changes nothing but the state of the active command and the counter.
LEMMA StepOnInv ==
  ASSUME Inv, q.ent # None, q.ent.st # "complete", NEW st \in {"new", "running"},
         q' = [q EXCEPT !.ent = [q.ent EXCEPT !.st = st], !.prog = q.prog + 1],
         UNCHANGED <<nonce, boot, hostVars, n, runs>>
  PROVE  Inv' /\ Serves
<1> DEFINE e == [q.ent EXCEPT !.st = st]
<1>1. q \in Queue /\ q.ent \in Entry BY InvTypes DEF Queue
<1>2. e \in Entry /\ e.id = q.ent.id /\ e.sub = q.ent.sub /\ e.st = st BY <1>1 DEF Entry
<1>3. q' = [q EXCEPT !.ent = e, !.prog = q.prog + 1] OBVIOUS
<1> HIDE DEF e
<1>4. /\ q' \in Queue /\ q'.ent = e /\ q'.last = q.last /\ q'.lastsub = q.lastsub
      /\ q'.ok = q.ok /\ q'.valid = q.valid /\ q'.res = q.res /\ q'.seq = q.seq
  <2>1. q.prog + 1 \in Nat BY <1>1 DEF Queue
  <2> QED BY ONLY <1>1, <1>2, <1>3, <2>1 DEF Queue
<1>5. e # None BY <1>2, Constants
<1>6. UNCHANGED <<hp, void, heard, told, boot, n, runs>> BY DEF hostVars
<1>7. World' BY <1>6 DEF Inv, World
<1>8. Device(q, void)'
  <2>1. Active(q, void)' BY <1>2, <1>4, <1>6 DEF Inv, Device, Active, Ran
  <2>2. Last(q, void)' BY <1>4, <1>6 DEF Inv, Device, Last
  <2> QED BY <2>1, <2>2, <1>4, <1>6 DEF Inv, Device
<1>9. Rec(hp, q, void)' BY <1>2, <1>4, <1>5, <1>6 DEF Inv, Rec, Ran, Won, Lost1
<1>10. Reported(q, hp, heard)' BY <1>2, <1>4, <1>5, <1>6 DEF Inv, Reported
<1>11. Serves BY <1>6, Stutters
<1> QED BY <1>7, <1>8, <1>9, <1>10, <1>11, WorkerInv

LEMMA StartInv ==
  ASSUME Inv, Start
  PROVE  Inv' /\ Serves
<1>1. /\ q.ent # None /\ q.ent.st = "new" /\ UNCHANGED <<nonce, boot, hostVars, n, runs>>
      /\ q' = [q EXCEPT !.ent.st = "running", !.prog = @ + 1]
  BY DEF Start
<1>2. q \in Queue BY InvTypes
<1>3. q' = [q EXCEPT !.ent = [q.ent EXCEPT !.st = "running"], !.prog = q.prog + 1]
  BY <1>1, <1>2 DEF Queue
<1> QED BY <1>1, <1>3, StepOnInv

LEMMA TickInv ==
  ASSUME Inv, Tick
  PROVE  Inv' /\ Serves
<1>1. /\ q.ent # None /\ q.ent.st = "running" /\ UNCHANGED <<nonce, boot, hostVars, n, runs>>
      /\ q' = [q EXCEPT !.prog = @ + 1]
  BY DEF Tick
<1>2. q \in Queue /\ q.ent \in Entry BY <1>1, InvTypes DEF Queue
<1>3. [q.ent EXCEPT !.st = "running"] = q.ent BY <1>1, <1>2 DEF Entry
<1>4. q' = [q EXCEPT !.ent = [q.ent EXCEPT !.st = "running"], !.prog = q.prog + 1]
  BY <1>1, <1>2, <1>3 DEF Queue
<1> QED BY <1>1, <1>4, StepOnInv

LEMMA FinishInv ==
  ASSUME Inv, Finish
  PROVE  Inv' /\ Serves
<1> USE Constants
<1>1. PICK res \in {"ok", "failed"} :
        /\ q' = [q EXCEPT !.ent.st = "complete", !.ent.res = res, !.prog = @ + 1]
        /\ runs' = runs \cup {[sub |-> q.ent.sub, boot |-> boot, res |-> res]}
  BY DEF Finish
<1>2. q.ent # None /\ q.ent.st = "running" /\ UNCHANGED <<nonce, boot, hostVars, n>>
  BY DEF Finish
<1> DEFINE e == [q.ent EXCEPT !.st = "complete", !.res = res]
           x == [sub |-> q.ent.sub, boot |-> boot, res |-> res]
<1>3. q \in Queue /\ q.ent \in Entry /\ boot \in Boots BY <1>2, InvTypes DEF Queue
<1>4. e \in Entry /\ e.id = q.ent.id /\ e.sub = q.ent.sub /\ e.st = "complete" /\ e.res = res
  BY <1>3 DEF Entry, Results
<1>5. q' = [q EXCEPT !.ent = e, !.prog = q.prog + 1] BY <1>1, <1>3 DEF Queue, Entry
<1>6. /\ x \in Run /\ x.sub = q.ent.sub /\ x.boot = boot /\ x.res = res
      /\ x = [sub |-> q.ent.sub, boot |-> boot, res |-> res]
  BY <1>3 DEF Run, Entry
<1>7. runs' = runs \cup {x} BY <1>1
<1> HIDE DEF e, x
<1>8. /\ q' \in Queue /\ q'.ent = e /\ q'.last = q.last /\ q'.lastsub = q.lastsub
      /\ q'.ok = q.ok /\ q'.valid = q.valid /\ q'.res = q.res /\ q'.seq = q.seq
  <2>1. q.prog + 1 \in Nat BY <1>3 DEF Queue
  <2> QED BY ONLY <1>3, <1>4, <1>5, <2>1 DEF Queue
<1>9. e # None BY <1>4
<1>10. UNCHANGED <<hp, void, heard, told, boot, n>> BY <1>2 DEF hostVars
<1>11. /\ q.ent.id # q.last /\ q.lastsub < q.ent.sub /\ q.ent.sub <= n.subs /\ ~q.valid
       /\ q.ent.sub \notin void /\ ~Ran(q.ent.sub)
  BY <1>2 DEF Inv, Device, Active
<1>12. World'
  <2>1. runs' \subseteq Run /\ \A r \in runs' : r.boot <= boot /\ r.sub <= n.subs
    BY <1>6, <1>7, <1>11 DEF Inv, World
  <2>2. \A r \in runs : ~(r.sub = x.sub /\ r.boot = x.boot) BY <1>6, <1>11 DEF Ran
  <2>3. \A r1, r2 \in runs' : r1.sub = r2.sub /\ r1.boot = r2.boot => r1 = r2
    BY <2>2, <1>7 DEF Inv, World
  <2> QED BY <2>1, <2>3, <1>10 DEF Inv, World
<1>13. Active(q, void)'
  <2>1. [sub |-> e.sub, boot |-> boot, res |-> e.res] \in runs' BY <1>4, <1>6, <1>7
  <2> QED BY <2>1, <1>4, <1>8, <1>10, <1>11 DEF Active
<1>14. Last(q, void)' BY <1>7, <1>8, <1>10 DEF Inv, Device, Last
<1>15. Device(q, void)' BY <1>8, <1>10, <1>13, <1>14 DEF Inv, Device
<1>16. Rec(hp, q, void)'
  <2>1. Rec(hp, q, void) BY DEF Inv
  <2>2. /\ hp # None /\ Won(hp.sub) => Won(hp.sub)'
        /\ hp # None /\ Lost1(hp.sub) => Lost1(hp.sub)'
    BY <1>7, <1>10 DEF Won, Lost1
  <2> QED BY <2>1, <2>2, <1>2, <1>4, <1>8, <1>9, <1>10 DEF Rec
<1>17. Reported(q, hp, heard)'
  <2> SUFFICES ASSUME NEW r \in runs', r.boot = boot, r.res = "failed"
               PROVE  \/ r.sub \in heard \/ e.sub = r.sub \/ (q.valid /\ q.lastsub = r.sub)
                      \/ (hp # None /\ hp.sub = r.sub /\ hp.rstat = "failed")
    BY <1>8, <1>9, <1>10 DEF Reported
  <2> QED BY <1>4, <1>6, <1>7 DEF Inv, Reported
<1>18. Serves
  <2> DEFINE ran == {r.sub : r \in {y \in runs : y.boot = boot}}
             won == {r.sub : r \in {y \in runs : y.res = "ok"}}
             failed == {r.sub : r \in {y \in runs : y.res = "failed"}}
  <2>1. q.ent.sub \notin ran \cup void BY <1>11 DEF Ran
  <2>2. ran' = ran \cup {q.ent.sub} BY <1>6, <1>7, <1>10
  <2>3. PICK s \in Submissions : s = q.ent.sub BY <1>3 DEF Entry
  <2> HIDE DEF ran, won, failed
  <2>4. CASE res = "ok"
    <3>1. won' = won \cup {q.ent.sub} /\ failed' = failed BY <2>4, <1>6, <1>7 DEF won, failed
    <3>2. Service!Execute(s) BY <3>1, <2>1, <2>2, <2>3, <1>10 DEF Service!Execute, ran, won, failed
    <3>3. Service!Next BY <3>2 DEF Service!Next
    <3> QED BY <3>3 DEF Serves
  <2>5. CASE res = "failed"
    <3>1. failed' = failed \cup {q.ent.sub} /\ won' = won BY <2>5, <1>6, <1>7 DEF won, failed
    <3>2. Service!Execute(s) BY <3>1, <2>1, <2>2, <2>3, <1>10 DEF Service!Execute, ran, won, failed
    <3>3. Service!Next BY <3>2 DEF Service!Next
    <3> QED BY <3>3 DEF Serves
  <2> QED BY <2>4, <2>5
<1> QED BY <1>2, <1>12, <1>15, <1>16, <1>17, <1>18, WorkerInv

LEMMA RetireInv ==
  ASSUME Inv, Retire
  PROVE  Inv' /\ Serves
<1> USE Constants
<1>1. q.ent # None /\ q.ent.st = "complete" /\ UNCHANGED <<nonce, boot, hostVars, n, runs>>
  BY DEF Retire
<1> DEFINE ok == (q.ent.res = "ok")
           e == q.ent
<1>2. q' = [q EXCEPT !.ent = None, !.last = e.id, !.lastcmd = e.cmd, !.lastsub = e.sub,
                     !.ok = ok, !.valid = TRUE, !.res = e.res, !.seq = q.seq + 1]
  BY InvTypes DEF Retire, Queue
<1>3. q \in Queue /\ e \in Entry BY <1>1, InvTypes DEF Queue
<1>4. /\ e.id # q.last /\ q.lastsub < e.sub /\ e.sub <= n.subs /\ ~q.valid
      /\ e.sub \notin void /\ e.res \in {"ok", "failed"}
      /\ [sub |-> e.sub, boot |-> boot, res |-> e.res] \in runs
  BY <1>1 DEF Inv, Device, Active
<1>5. ok \in BOOLEAN /\ ResOf(ok) = e.res BY <1>4 DEF ResOf
<1>6. /\ e.id \in Ids \ {0} /\ e.cmd \in Commands \cup {None} /\ e.sub \in Submissions
      /\ e.res \in Results
  BY <1>3 DEF Entry
<1>7. q.seq \in Nat /\ q.lastsub \in Nat /\ q.seq <= q.lastsub /\ e.sub \in Nat
  BY <1>3, <1>6 DEF Inv, Device, Last, Queue
<1> HIDE DEF ok, e
<1>8. q.seq + 1 <= e.sub BY <1>4, <1>7
<1>9. q.seq + 1 \in Subs BY <1>6, <1>7, <1>8 DEF Submissions, Subs
<1>10. /\ q' \in Queue /\ q'.ent = None /\ q'.last = e.id /\ q'.lastsub = e.sub
       /\ q'.ok = ok /\ q'.valid = TRUE /\ q'.res = e.res /\ q'.seq = q.seq + 1
  <2> DEFINE a == [q EXCEPT !.ent = None, !.last = e.id, !.lastcmd = e.cmd, !.lastsub = e.sub]
  <2>1. /\ a \in Queue /\ a.ent = None /\ a.last = e.id /\ a.lastsub = e.sub
    BY <1>3, <1>6 DEF Queue
  <2>2. q' = [a EXCEPT !.ok = ok, !.valid = TRUE, !.res = e.res, !.seq = q.seq + 1]
    BY <1>2, <1>3 DEF Queue
  <2> HIDE DEF a
  <2> QED BY <2>1, <2>2, <1>5, <1>6, <1>9 DEF Queue
<1>11. UNCHANGED <<hp, void, heard, told, boot, n, runs>> BY <1>1 DEF hostVars
<1>12. World' BY <1>11 DEF Inv, World
<1>13. Device(q, void)'
  <2>1. Active(q, void)' BY <1>10 DEF Active
  <2>2. Last(q, void)' BY <1>4, <1>5, <1>6, <1>8, <1>10, <1>11 DEF Last
  <2> QED BY <2>1, <2>2, <1>10, <1>11 DEF Inv, Device
<1>14. Rec(hp, q, void)'
  <2>1. CASE hp = None BY <2>1, <1>11 DEF Rec
  <2>2. CASE hp # None
    <3>1. Rec(hp, q, void) /\ e.id = hp.id /\ e.sub = hp.sub BY <2>2, <1>1 DEF Inv, Rec, e
    <3>2. e.sub <= e.sub BY <1>7
    <3> QED BY <3>1, <3>2, <2>2, <1>10, <1>11 DEF Rec, Ran, Won, Lost1
  <2> QED BY <2>1, <2>2
<1>15. Reported(q, hp, heard)'
  BY <1>1, <1>4, <1>10, <1>11 DEF Inv, Reported, e
<1>16. Serves BY <1>11, Stutters
<1> QED BY <1>1, <1>12, <1>13, <1>14, <1>15, <1>16, WorkerInv

LEMMA RebootInv ==
  ASSUME Inv, Reboot
  PROVE  Inv' /\ Serves
<1> USE Constants
<1>1. /\ boot <= MaxReboots /\ q' = EmptyQueue /\ nonce' = 0 /\ boot' = boot + 1
      /\ UNCHANGED <<hp, hn, c, void, told, heard, n, runs>>
  BY DEF Reboot, hostVars
<1>2. /\ q' \in Queue /\ q'.ent = None /\ q'.last = 0 /\ q'.lastsub = 0 /\ ~q'.valid
      /\ q'.seq = 0 /\ q'.res = "none"
  BY <1>1, EmptyQueueIs
<1>3. boot \in Boots /\ boot \in Nat /\ boot' \in Boots /\ n.subs \in Nat
  <2>1. boot \in Boots /\ n.subs \in Nat BY DEF Inv, World, Count
  <2>2. boot + 1 \in Boots BY <2>1, <1>1 DEF Boots
  <2> QED BY <2>1, <2>2, <1>1
<1>4. \A r \in runs : r.boot \in Nat /\ r.boot <= boot BY DEF Inv, World, Run
<1>5. \A r \in runs' : r.boot # boot' BY <1>1, <1>3, <1>4
<1>6. World'
  <2>1. \A r \in runs : r.boot <= boot + 1 BY <1>3, <1>4
  <2> QED BY <2>1, <1>1, <1>3 DEF Inv, World
<1>7. Stamps' BY <1>1, <1>3 DEF Inv, Stamps
<1>8. Device(q, void)'
  <2>1. Active(q, void)' BY <1>2 DEF Active
  <2>2. Last(q, void)' BY <1>1, <1>2, <1>3 DEF Inv, Device, Last
  <2> QED BY <2>1, <2>2, <1>1, <1>2 DEF Inv, Device
<1>9. Rec(hp, q, void)'
  <2>1. CASE hp = None BY <2>1, <1>1 DEF Rec
  <2>2. CASE hp # None
    <3>1. hp \in Record /\ hp.id # 0 /\ hp.sub # 0 /\ hp.sub \in Nat
      BY <2>2 DEF Inv, Rec, Record
    <3>2. ~Ran(hp.sub)' BY <1>5 DEF Ran
    <3>3. 0 <= hp.sub BY <3>1
    <3> QED BY <3>1, <3>2, <3>3, <1>1, <1>2 DEF Inv, Rec, Won, Lost1
  <2> QED BY <2>1, <2>2
<1>10. Reported(q, hp, heard)' BY <1>5 DEF Reported
<1>11. Kept(hp, c.pc, heard)' /\ (c \in CallT)' /\ HasRec(c, hp)' /\ Owed(c)' /\ Answered'
  BY <1>1 DEF Inv, Kept, HasRec, Owed, Owing, Answered
<1>12. Reading(c, hp, q)'
  <2>1. c.pc \in {"write", "s_boot", "s_pr", "r_pr"} \cup APcs => hp # None
    BY DEF Inv, HasRec, RPcs, SPcs, APcs
  <2>2. hp # None => hp.sub # 0 /\ hp.id # 0 BY DEF Inv, Rec, Record
  <2>3. Reading(c, hp, q) BY DEF Inv
  <2> QED BY <2>1, <2>2, <2>3, <1>1, <1>2 DEF Reading, Ended, Won, Lost1
<1>13. Serves
  <2> DEFINE ran == {r.sub : r \in {y \in runs : y.boot = boot}}
  <2>1. ran' = {} BY <1>5
  <2>2. Service!Reboot BY <2>1, <1>1 DEF Service!Reboot
  <2> QED BY <2>2 DEF Serves, Service!Next
<1> QED BY <1>6, <1>7, <1>8, <1>9, <1>10, <1>11, <1>12, <1>13 DEF Inv

-----------------------------------------------------------------------------
(* The theorems.                                                           *)

LEMMA InitInv ==
  ASSUME Init
  PROVE  Inv /\ Service!Init
<1> USE Constants
<1>1. /\ q = EmptyQueue /\ nonce = 0 /\ boot = 1 /\ hp = None /\ hn = 0 /\ c = Idle
      /\ n = [calls |-> 0, subs |-> 0, crashes |-> 0] /\ runs = {} /\ void = {} /\ heard = {}
      /\ told = Nothing
  BY DEF Init
<1>2. World /\ Stamps BY <1>1 DEF World, Stamps, Count
<1>3. Device(q, void) BY <1>1, EmptyQueueIs DEF Device, Active, Last
<1>4. Rec(hp, q, void) /\ Reported(q, hp, heard) /\ Kept(hp, c.pc, heard)
  BY <1>1 DEF Rec, Reported, Kept
<1>5. c \in CallT /\ HasRec(c, hp) /\ Owed(c) /\ Reading(c, hp, q)
  BY <1>1, IdleIs DEF HasRec, Owed, Owing, Reading, RPcs, SPcs, APcs, Before
<1>6. Answered BY <1>1 DEF Answered, Nothing, Answers
<1>7. Service!Init BY <1>1 DEF Service!Init, Nothing
<1> QED BY <1>2, <1>3, <1>4, <1>5, <1>6, <1>7 DEF Inv

LEMMA HostStep ==
  ASSUME Inv, Host
  PROVE  Inv' /\ Serves
<1>1. CASE \/ ReadFirst \/ RefreshNonce \/ StampNonce \/ RereadNonce
           \/ ReadStatus("st1", "ts1") \/ Snapshot \/ ReadOrphan
           \/ ReadAgain \/ SnapshotAgain \/ Write
  BY <1>1, ReadFirstInv, RefreshNonceInv, StampNonceInv, RereadNonceInv, ReadStatusInv,
     SnapshotInv, ReadOrphanInv, ReadAgainInv, SnapshotAgainInv, WriteInv
<1>2. CASE CheckBoot \/ ResolveTrans \/ Resolve \/ ResolveResult \/ AckAgain \/ Resend
  BY <1>2, CheckBootInv, ResolveTransInv, ResolveInv, ResolveResultInv, AckAgainInv, ResendInv
<1>3. CASE \/ ReadStatus("s_st", "s_ts") \/ Poll \/ Mismatch \/ Retired \/ FailureResult
           \/ CheckStall \/ StallExpires
  BY <1>3, ReadStatusInv, PollInv, MismatchInv, RetiredInv, FailureResultInv, CheckStallInv,
     StallExpiresInv
<1>4. CASE AckTrans \/ AckProgress \/ AckWrite \/ ReadFails
  BY <1>4, AckTransInv, AckProgressInv, AckWriteInv, ReadFailsInv
<1> QED BY <1>1, <1>2, <1>3, <1>4 DEF Host

LEMMA StepInv ==
  ASSUME Inv, [Next]_vars
  PROVE  Inv' /\ Serves
<1>1. CASE \E cmd \in Commands : Call(cmd) BY <1>1, CallInv
<1>2. CASE Host BY <1>2, HostStep
<1>3. CASE Worker BY <1>3, StartInv, TickInv, FinishInv, RetireInv DEF Worker
<1>4. CASE Reboot BY <1>4, RebootInv
<1>5. CASE Crash BY <1>5, CrashInv
<1>6. CASE UNCHANGED vars
  <2>1. UNCHANGED <<q, nonce, boot, hp, hn, c, n, runs, void, told, heard>> BY <1>6 DEF vars
  <2>2. Serves BY <2>1, Stutters
  <2>3. Inv' BY <2>1 DEF Inv, World, Stamps, Device, Active, Last, Rec, Reported, Kept, HasRec,
                          Owed, Owing, Reading, Answered, Ran, Won, Lost1, Ended
  <2> QED BY <2>2, <2>3
<1> QED BY <1>1, <1>2, <1>3, <1>4, <1>5, <1>6 DEF Next

LEMMA InvHolds == Spec => []Inv
<1>1. Init => Inv BY InitInv
<1>2. Inv /\ [Next]_vars => Inv' BY StepInv
<1> QED BY <1>1, <1>2, PTL DEF Spec

\* Every variable of the host and of the firmware keeps its type, through
\* wrapping identifiers, lost answers, crashes of the host and reboots of the
\* NIOS image; a wait and an acknowledgement always have their record.
THEOREM TypeCorrect == Spec => []TypeOK
<1> USE Constants
<1>1. ASSUME Inv PROVE TypeOK
  <2>1. q \in Queue /\ c \in CallT BY <1>1, InvTypes
  <2>2. q.ent # None => /\ q.ent.id \in Ids \ {0} /\ q.ent.cmd \in Commands \cup {None}
                        /\ q.ent.sub \in Submissions /\ q.ent.res \in Results
                        /\ q.ent.st \in {"new", "running", "complete"}
    BY <2>1 DEF Queue, Entry
  <2>3. Subs \subseteq Seqs BY DEF Subs, Seqs
  <2>4. /\ q.last \in Ids /\ q.lastsub \in Subs /\ q.seq \in Seqs /\ q.res \in Results
        /\ q.ackid \in Ids /\ q.ackseq \in Seqs /\ {q.ok, q.valid} \subseteq BOOLEAN
    BY <2>1, <2>3 DEF Queue
  <2>5. nonce \in {0, boot} /\ boot \in 1 .. (MaxReboots + 1) /\ hn \in 0 .. boot
    BY <1>1 DEF Inv, World, Stamps, Boots
  <2>6. hp # None => /\ hp.id \in Ids \ {0} /\ hp.seq \in Seqs /\ hp.sub \in Submissions
                     /\ hp.rstat \in Results /\ hp.adopted \in BOOLEAN
    BY <1>1 DEF Inv, Rec, Record
  <2>7. c.pc \in Pcs /\ c.k \in {"submit", "retry", "adopt"} BY <2>1 DEF CallT, Kinds
  <2>8. HasRec(c, hp) BY <1>1 DEF Inv
  <2>9. told.sub \in Subs /\ told.res \in Answers BY <1>1 DEF Inv, Answered
  <2> QED BY <2>2, <2>4, <2>5, <2>6, <2>7, <2>8, <2>9 DEF TypeOK, HasRec, RPcs, SPcs, APcs, Before
<1>2. Inv => TypeOK BY <1>1
<1> QED BY <1>2, InvHolds, PTL

\* A command that failed in the running boot is never forgotten: a caller was
\* told, or the firmware retains the result, or the host's record has it - the
\* acknowledgement clears the firmware's copy only after the record took it.
THEOREM FailuresReach == Spec => []FailureReported
<1>1. Inv => FailureReported BY DEF Inv, Reported, FailureReported
<1> QED BY <1>1, InvHolds, PTL

\* The host and the firmware together implement RficService: at most one run
\* of a submission in a boot, none of a refused one, and "ok" and "failed" only
\* of a submission that ended so.
THEOREM ServiceProvided == Spec => ServiceSpec
<1>1. Init => Service!Init BY InitInv
<1>2. Inv /\ [Next]_vars => Serves BY StepInv
<1>3. Inv /\ [Next]_vars => [Service!Next]_(Service!vars) BY <1>2 DEF Serves
<1> QED BY <1>1, <1>3, InvHolds, PTL DEF Spec, ServiceSpec, Service!Spec
=============================================================================
