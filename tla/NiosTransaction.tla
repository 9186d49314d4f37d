-------------------------- MODULE NiosTransaction --------------------------
(***************************************************************************)
(* The request/response channel between libbladeRF and the NIOS II soft    *)
(* core: nios_usb_transaction() and the peripheral state it keeps          *)
(* (nios_transaction.c, usb.h), attach and detach of that state (usb.c),   *)
(* and the device as one FIFO server (devices.c, bladeRF_nios.c).          *)
(*                                                                         *)
(* A request is a name that stands for its 16 bytes. The transaction runs  *)
(* under state->lock from the first check to the last response, so the     *)
(* threads of a process are one caller. A bulk IN transfer may time out    *)
(* with the answer still on its way; the host then remembers whose answer  *)
(* is missing (pread, prfic, pretune) or gives the channel up (desync).    *)
(***************************************************************************)
EXTENDS Naturals, Sequences, FiniteSets, SequencesExt

CONSTANTS Issued,     \* the requests the application makes
          MaxFrames,  \* bound on the frames sent to the device
          MaxOpens,   \* bound on the number of opens
          None        \* no request

\* The packet formats, by the way nios_transaction.c treats them.
Reads8x32  == {"version", "control", "generation", "counter", "completion"}
StatusRead == {"status"}                      \* RFIC 0x0f00 and 0x0f0c, 16x64
FixedReads == Reads8x32 \cup StatusRead \cup {"register"}
Readouts   == {"completion", "select"}        \* RETUNE2 completion records
RficWrites == {"rfic_a", "rfic_b"}            \* two transaction identifiers
Clears     == {"clear_rx", "clear_tx"}
Tokenless  == Clears \cup {"now"}
Tokened    == {"sched_1", "sched_2", "now_3"}
Retune2    == Tokenless \cup Tokened
Requests   == FixedReads \cup Readouts \cup RficWrites \cup Retune2 \cup {"write"}

ASSUME ConstantsAssumption ==
    /\ Issued \subseteq Requests
    /\ None \notin Requests
    /\ MaxFrames \in Nat /\ MaxOpens \in Nat

VARIABLES h,     \* struct usb_peripheral_state
          call,  \* the transaction in progress
          out,   \* frames on their way to the NIOS
          in,    \* responses on their way to the host
          gen,   \* the session generation of the command UART
          sent,  \* how many frames were sent (names each frame)
          opens, \* how often the device was opened
          last,  \* the response the last completed transaction returned
          twin,  \* a response matched the pending RETUNE2 and the current one
          why    \* what the channel was given up for

vars == <<h, call, out, in, gen, sent, opens, last, twin, why>>

Fresh == [desync |-> FALSE, pread |-> None, prfic |-> None, pretune |-> None,
          pgen |-> 0, gen |-> 0]   \* gen = 0: no generation was read yet

Idle == [pc |-> "idle", req |-> None, barrier |-> None, seq |-> 0]

Closed == [Idle EXCEPT !.pc = "closed"]

Init ==
    /\ h = Fresh /\ call = Closed
    /\ out = <<>> /\ in = <<>> /\ gen = 1
    /\ sent = 0 /\ opens = 0 /\ last = None /\ twin = FALSE /\ why = "nothing"

---------------------------------------------------------------------------
\* Matching a response with a request

\* The flag bits a RETUNE2 response may carry, by request.
FlagsFit(q, f) ==
    CASE f = "cancel"       -> q \in Clears
      [] f = "invalid_time" -> q \in {"sched_1", "sched_2"}
      [] f = "tune_time"    -> q \in {"now", "now_3"}
      [] f = "async"        -> q = "now_3"
      [] OTHER              -> TRUE

\* nios_response_matches_request(): a RETUNE2 response echoes its token and
\* session generation only; every other response echoes the whole request.
Matches(q, r, g) ==
    IF q \in Retune2
    THEN /\ r.to \in Retune2
         /\ FlagsFit(q, r.flags)
         /\ IF q \in Tokened THEN r.to = q /\ g # 0 /\ r.gen = g
                             ELSE r.to \in Tokenless
    ELSE r.to = q

PendingMatches(p, r, g) == p # None /\ Matches(p, r, g)

\* nios_is_retune2_recovery_request()
RecoversRetune2(q) == q \in Reads8x32 \cup Readouts \cup StatusRead \cup Clears

\* Requests that are a barrier for a late RFIC write response.
RficBarrier(q) == q \in StatusRead \cup Readouts

\* What a pending answer lets through.
Admitted(q) ==
    /\ h.prfic # None => RficBarrier(q) \/ q = h.prfic
    /\ h.pretune # None => RecoversRetune2(q)

---------------------------------------------------------------------------
\* The host

Send(q) ==
    /\ sent < MaxFrames
    /\ sent' = sent + 1
    /\ out' = Append(out, [to |-> q, seq |-> sent + 1])

GiveUp(state, reason) ==
    /\ h' = [state EXCEPT !.desync = TRUE]
    /\ why' = reason
    /\ call' = Idle

\* Mutant: the pending read itself may be the barrier.
AliasedBarrier(p) == "version"

\* A read that cannot be mistaken for the pending one.
Barrier(p) == IF p = "version" THEN "control" ELSE "version"

\* The caller of a tokened RETUNE2 read the session generation just before.
Prepared(q) == q \in Tokened => last # None /\ last.req = "generation"

\* Entry of nios_usb_transaction(): refuse a desynchronised channel, drain a
\* pending read first, refuse what a pending write does not let through.
Begin(q) ==
    /\ call.pc = "idle"
    /\ Prepared(q)
    /\ ~h.desync
    /\ IF h.pread # None
       THEN call' = [Idle EXCEPT !.pc = "drain_out", !.req = q,
                       !.barrier = Barrier(h.pread)]
       ELSE Admitted(q) /\ call' = [Idle EXCEPT !.pc = "out", !.req = q]
    /\ last' = None
    /\ UNCHANGED <<h, out, in, gen, sent, opens, twin, why>>

\* The barrier that follows a read whose answer is missing.
DrainOut ==
    /\ call.pc = "drain_out"
    /\ Send(call.barrier)
    /\ call' = [call EXCEPT !.pc = "drain_in"]
    /\ UNCHANGED <<h, in, gen, opens, last, twin, why>>

\* One response of nios_drain_pending_read_locked().
DrainIn ==
    LET r       == Head(in)
        barrier == Matches(call.barrier, r, h.gen)
        pending == Matches(h.pread, r, h.gen)
    IN  /\ call.pc = "drain_in" /\ in # <<>>
        /\ in' = Tail(in)
        /\ \/ /\ \/ pending /\ ~barrier
                 \/ PendingMatches(h.prfic, r, h.gen)
                 \/ PendingMatches(h.pretune, r, h.pgen)
              /\ UNCHANGED <<h, call, why>>
           \/ /\ barrier /\ ~pending
              /\ ~PendingMatches(h.prfic, r, h.gen)
              /\ ~PendingMatches(h.pretune, r, h.pgen)
              /\ h' = [h EXCEPT !.pread = None]
              /\ call' = IF Admitted(call.req) THEN [call EXCEPT !.pc = "out"]
                                               ELSE Idle
              /\ UNCHANGED why
           \/ /\ pending = barrier
              /\ ~PendingMatches(h.prfic, r, h.gen)
              /\ ~PendingMatches(h.pretune, r, h.pgen)
              /\ GiveUp(h, "mismatch")
        /\ UNCHANGED <<out, gen, sent, opens, last, twin>>

\* The barrier's own answer may now be late: give up.
DrainTimeout ==
    /\ call.pc = "drain_in"
    /\ GiveUp(h, "barrier")
    /\ UNCHANGED <<out, in, gen, sent, opens, last, twin>>

\* The bulk OUT transfer of the request.
Out ==
    /\ call.pc = "out"
    /\ Send(call.req)
    /\ call' = [call EXCEPT !.pc = "in", !.seq = sent + 1]
    /\ UNCHANGED <<h, in, gen, opens, last, twin, why>>

\* The OUT transfer fails; the device may or may not have got the frame.
OutFails ==
    /\ call.pc \in {"drain_out", "out"}
    /\ \/ UNCHANGED <<out, sent>>
       \/ Send(IF call.pc = "out" THEN call.req ELSE call.barrier)
    /\ GiveUp(h, "transport")
    /\ UNCHANGED <<in, gen, opens, last, twin>>

NoRetune(s) == [s EXCEPT !.pretune = None, !.pgen = 0]

\* The pending RETUNE2 identity after response r to request q.
AfterRetune2Match(s, r) ==
    IF PendingMatches(s.pretune, r, s.pgen) THEN NoRetune(s) ELSE s

\* Mutant: any response retires the write.
AfterAnyAnswer(s, q) == [s EXCEPT !.prfic = None]

\* A matching barrier response retires the RFIC write before it.
AfterBarrier(s, q) == IF RficBarrier(q) THEN [s EXCEPT !.prfic = None] ELSE s

\* A session generation read caches the generation; a new one means that the
\* response queue of the old session is gone.
AfterGeneration(s, q, r) ==
    IF q # "generation" THEN s
    ELSE LET t == [s EXCEPT !.gen = r.gen]
         IN  IF s.pretune # None /\ s.gen # 0 /\ r.gen # s.pgen
             THEN NoRetune(t) ELSE t

\* An acknowledged CLEAR_QUEUE retires the RETUNE2 before it.
AfterClear(s, q) == IF q \in Clears THEN NoRetune(s) ELSE s

\* The peripheral state after response r completes request q.
Completed(s, q, r) ==
    AfterClear(AfterGeneration(AfterBarrier(AfterRetune2Match(s, r), q), q, r), q)

\* One full response of the loop of nios_usb_transaction().
In ==
    LET r        == Head(in)
        current  == Matches(call.req, r, h.gen)
        older    == PendingMatches(h.prfic, r, h.gen)
        retune2  == PendingMatches(h.pretune, r, h.pgen)
    IN  /\ call.pc = "in" /\ in # <<>>
        /\ in' = Tail(in)
        /\ twin' = (twin \/ (current /\ retune2))
        /\ \/ /\ current
              /\ h' = Completed(h, call.req, r)
              /\ call' = Idle
              /\ last' = [req |-> call.req, to |-> r.to, own |-> r.seq = call.seq]
              /\ UNCHANGED why
           \/ /\ ~current /\ (older \/ retune2)
              /\ h' = AfterRetune2Match(h, r)
              /\ UNCHANGED <<call, last, why>>
           \/ /\ ~current /\ ~older /\ ~retune2
              /\ GiveUp(h, "mismatch")
              /\ UNCHANGED last
        /\ UNCHANGED <<out, gen, sent, opens>>

\* The deadline passes before any byte of a response: the request's identity
\* is kept where the response can be recognised later.
InTimeout ==
    /\ call.pc = "in"
    /\ LET q == call.req IN
       \/ /\ q \in Retune2 /\ h.pretune = None /\ (h.gen # 0 \/ q \in Clears)
          /\ h' = [h EXCEPT !.pretune = q, !.pgen = h.gen]
          /\ call' = Idle /\ UNCHANGED why
       \/ /\ q \in Retune2 /\ (h.pretune # None \/ (h.gen = 0 /\ q \notin Clears))
          /\ GiveUp(h, "second")
       \/ /\ q \in RficWrites
          /\ h' = [h EXCEPT !.prfic = q]   \* none pending, or this one
          /\ call' = Idle /\ UNCHANGED why
       \/ /\ q \in FixedReads
          /\ h' = [h EXCEPT !.pread = q]
          /\ call' = Idle /\ UNCHANGED why
       \/ /\ q \notin Retune2 \cup RficWrites \cup FixedReads
          /\ GiveUp(h, "write")
    /\ UNCHANGED <<out, in, gen, sent, opens, last, twin>>

\* A short frame at the deadline, a transfer error or an empty packet.
InFails ==
    /\ call.pc \in {"drain_in", "in"}
    /\ GiveUp(h, "transport")
    /\ UNCHANGED <<out, in, gen, sent, opens, last, twin>>

---------------------------------------------------------------------------
\* Opening and closing the device

\* usb_peripheral_attach() of the state kept for this enumeration. Selecting
\* the RF link may pulse SYS_RST, which starts a new command session and drops
\* what the old one had in flight.
Open(reset) ==
    /\ call.pc = "closed" /\ opens < MaxOpens
    /\ opens' = opens + 1
    /\ call' = Idle
    /\ IF reset THEN out' = <<>> /\ in' = <<>> /\ gen' = gen + 1
                ELSE UNCHANGED <<out, in, gen>>
    /\ UNCHANGED <<h, sent, last, twin, why>>

\* Mutant: a pending read is forgotten with the handle.
ReadForgotten(s) == s.prfic # None \/ s.pretune # None \/ s.desync

\* usb_peripheral_detach(): ambiguous state outlives the handle.
Kept(s) == s.pread # None \/ s.prfic # None \/ s.pretune # None \/ s.desync

Close ==
    /\ call.pc = "idle"
    /\ call' = Closed
    /\ h' = IF Kept(h) THEN h ELSE Fresh
    /\ last' = None
    /\ UNCHANGED <<out, in, gen, sent, opens, twin, why>>

\* The device enumerates again at another address: attach finds no state of
\* this address and drops the one of the old address.
Replug ==
    /\ call.pc = "closed" /\ opens < MaxOpens
    /\ opens' = opens + 1
    /\ call' = Idle
    /\ h' = Fresh /\ out' = <<>> /\ in' = <<>> /\ gen' = 1
    /\ twin' = FALSE /\ why' = "nothing"
    /\ UNCHANGED <<sent, last>>

---------------------------------------------------------------------------
\* The device

\* The flags the firmware may answer with.
AnswerFlags(q) ==
    CASE q \in Clears                 -> {"ok", "cancel"}
      [] q = "now"                    -> {"tune_time", "fail"}
      [] q \in {"sched_1", "sched_2"} -> {"ok", "invalid_time", "fail"}
      [] q = "now_3"                  -> {"async", "fail"}
      [] OTHER                        -> {"ok"}

\* One packet is in pkt_buf at a time: the request interrupt is disabled until
\* its response is published, also when the worker publishes it later. So the
\* device answers in the order of the requests.
Answer ==
    /\ out # <<>>
    /\ out' = Tail(out)
    /\ \E f \in AnswerFlags(Head(out).to) :
         in' = Append(in, [to |-> Head(out).to, seq |-> Head(out).seq,
                           flags |-> f, gen |-> gen])
    /\ UNCHANGED <<h, call, gen, sent, opens, last, twin, why>>

Next ==
    \/ \E q \in Issued : Begin(q)
    \/ DrainOut \/ DrainIn \/ DrainTimeout
    \/ Out \/ OutFails \/ In \/ InTimeout \/ InFails
    \/ \E reset \in BOOLEAN : Open(reset)
    \/ Close \/ Replug
    \/ Answer

Spec == Init /\ [][Next]_vars

---------------------------------------------------------------------------
\* Properties

Frames    == [to : Requests, seq : 1..MaxFrames]
Flags     == {"ok", "cancel", "tune_time", "invalid_time", "async", "fail"}
Responses == [to : Requests, seq : 1..MaxFrames, flags : Flags, gen : 1..MaxOpens + 1]
MaybeRequest == Requests \cup {None}

\* Type correctness of the peripheral state, the call and the channel.
TypeOK ==
    /\ h \in [desync : BOOLEAN, pread : FixedReads \cup {None},
              prfic : RficWrites \cup {None}, pretune : Retune2 \cup {None},
              pgen : 0..MaxOpens + 1, gen : 0..MaxOpens + 1]
    /\ call \in [pc : {"closed", "idle", "drain_out", "drain_in", "out", "in"},
                 req : MaybeRequest, barrier : {None, "version", "control"},
                 seq : 0..MaxFrames]
    /\ out \in Seq(Frames) /\ in \in Seq(Responses)
    /\ gen \in 1..MaxOpens + 1 /\ sent \in 0..MaxFrames /\ opens \in 0..MaxOpens
    /\ last \in [req : Requests, to : Requests, own : BOOLEAN] \cup {None}
    /\ twin \in BOOLEAN
    /\ why \in {"nothing", "mismatch", "barrier", "transport", "second", "write"}

\* A completed transaction returns the answer the device gave to that very
\* frame, never the late answer of an earlier one; only the exact retry of a
\* tagged RFIC write may be certified by the answer to its first copy.
OwnAnswer ==
    last # None /\ ~twin =>
        last.own \/ (last.req \in RficWrites /\ last.to = last.req)

\* Between transactions, while the channel is not given up, whatever is still
\* on its way in either direction belongs to an identity the host remembers,
\* across closing and opening the device again.
Unowed(f) == f.to \notin {h.pread, h.prfic, h.pretune}
AllAccounted ==
    call.pc \in {"idle", "closed"} /\ ~h.desync /\ ~twin =>
        \A f \in Range(out) \cup Range(in) : ~Unowed(f)

\* The host never gives the channel up for a response it could not place:
\* every combination of late answers is recognised.
NoFalseMismatch == why = "mismatch" => twin

\* nios_transaction.c:122: a response certifies no request but the one it
\* answers.  Refuted for queue clears, which carry no token.
CertifiesItsRequest == last # None => last.to = last.req
=============================================================================
