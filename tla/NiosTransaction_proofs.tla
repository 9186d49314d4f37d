------------------------ MODULE NiosTransaction_proofs ------------------------
(***************************************************************************)
(* Proofs about the request channel of module NiosTransaction, for every   *)
(* set of requests the application makes and any number of frames, opens   *)
(* and resets of the device:                                               *)
(*                                                                         *)
(*   TypeCorrect        the state keeps its types,                         *)
(*   AnswersAreOwn      a transaction returns the answer to its own frame, *)
(*   NothingStray       what is on its way belongs to a kept identity,     *)
(*   EveryAnswerPlaced  no late answer is mistaken for a mismatch.         *)
(*                                                                         *)
(* The inductive invariant says of everything on its way, in the order of  *)
(* the device's FIFO, whom it belongs to: the frame sent last to the       *)
(* transaction in progress or to its barrier, every older one to a pending *)
(* identity.  A RETUNE2 answer is recognised by token and generation, so   *)
(* the invariant also follows the session generation.                      *)
(***************************************************************************)
EXTENDS NiosTransaction, TLAPS

-----------------------------------------------------------------------------
(* The inductive invariant.                                                *)

Waiting == Range(in) \cup Range(out)

Increasing(s) == \A i, j \in DOMAIN s : i < j => s[i].seq < s[j].seq

\* The device is a FIFO server.
InOrder ==
    /\ Increasing(in) /\ Increasing(out)
    /\ \A f \in Range(in), g \in Range(out) : f.seq < g.seq
    /\ \A f \in Waiting : f.seq <= sent

\* What the device answers: the running session, the flags of the request.
Answered == \A r \in Range(in) : r.gen = gen /\ r.flags \in AnswerFlags(r.to)

Busy == {"drain_out", "drain_in", "out", "in"}

\* The cached generation is the device's when a tokened request needs it.
Session ==
    /\ call.pc \in Busy /\ call.req \in Tokened => h.gen = gen
    /\ last # None /\ last.req = "generation" => h.gen = gen
    /\ call.pc = "closed" => last = None

\* What the transaction in progress was admitted with.
Calling ==
    /\ call.pc \in Busy => call.req \in Requests /\ ~h.desync
    /\ call.pc \in {"drain_out", "drain_in"} =>
         h.pread # None /\ call.barrier = Barrier(h.pread)
    /\ call.pc \in {"out", "in"} => h.pread = None /\ Admitted(call.req)
    /\ call.pc = "in" => call.seq = sent

Own(f) == call.pc \in {"in", "drain_in"} /\ f.seq = sent
OwnTo  == IF call.pc = "in" THEN call.req ELSE call.barrier

Healthy == ~h.desync /\ ~twin

\* Everything on its way has an owner, and an identity that is kept for a
\* RETUNE2 owns at most one frame, of the running session when it has a token.
Owned == \A f \in Waiting : IF Own(f) THEN f.to = OwnTo ELSE ~Unowed(f)
Present == call.pc \in {"in", "drain_in"} => \E f \in Waiting : Own(f)
OneRetune ==
    \A f, g \in Waiting :
        f.to = h.pretune /\ g.to = h.pretune /\ ~Own(f) /\ ~Own(g) => f.seq = g.seq
TokenFresh ==
    \A f \in Waiting : f.to = h.pretune /\ f.to \in Tokened => h.pgen = gen

Accounted == Healthy => Owned /\ Present /\ OneRetune /\ TokenFresh

Inv ==
    /\ TypeOK /\ gen <= opens + 1 /\ InOrder /\ Answered /\ Session /\ Calling
    /\ Accounted /\ OwnAnswer /\ NoFalseMismatch

-----------------------------------------------------------------------------
(* Requests and sequences.                                                 *)

LEMMA Constants ==
    /\ Issued \subseteq Requests /\ None \notin Requests
    /\ MaxFrames \in Nat /\ MaxOpens \in Nat
BY ConstantsAssumption DEF ConstantsAssumption

LEMMA Kinds ==
    /\ FixedReads \subseteq Requests /\ RficWrites \subseteq Requests
    /\ Retune2 \subseteq Requests
    /\ RficWrites \cap Retune2 = {} /\ RficWrites \cap FixedReads = {}
    /\ FixedReads \cap Retune2 = {}
BY DEF Requests, FixedReads, RficWrites, Retune2, Reads8x32, StatusRead, Readouts,
       Tokenless, Tokened, Clears

LEMMA RangeOfTail ==
    ASSUME NEW S, NEW s \in Seq(S), s # <<>>
    PROVE  /\ Range(s) = {Head(s)} \cup Range(Tail(s)) /\ Tail(s) \in Seq(S)
           /\ Head(s) \in S
<1>1. Tail(s) \in Seq(S) /\ Len(Tail(s)) = Len(s) - 1 /\ Head(s) = s[1] /\ Len(s) \in Nat \ {0}
  OBVIOUS
<1>2. \A i \in 1 .. Len(s) - 1 : Tail(s)[i] = s[i + 1] OBVIOUS
<1>3. DOMAIN s = 1 .. Len(s) /\ DOMAIN Tail(s) = 1 .. Len(s) - 1 BY <1>1
<1>4. ASSUME NEW e \in Range(s) PROVE e \in {Head(s)} \cup Range(Tail(s))
  <2>1. PICK i \in 1 .. Len(s) : e = s[i] BY <1>4, <1>3 DEF Range
  <2>2. i = 1 \/ (i - 1 \in 1 .. Len(s) - 1 /\ i = (i - 1) + 1) BY <1>1
  <2>3. CASE i = 1 BY <2>3, <2>1, <1>1
  <2>4. CASE i - 1 \in 1 .. Len(s) - 1
    <3>1. Tail(s)[i - 1] = s[(i - 1) + 1] BY <2>4, <1>2
    <3>2. (i - 1) + 1 = i BY <1>1
    <3>3. Tail(s)[i - 1] = e BY <3>1, <3>2, <2>1
    <3> QED BY <3>3, <2>4, <1>3 DEF Range
  <2> QED BY <2>2, <2>3, <2>4
<1>5. ASSUME NEW e \in {Head(s)} \cup Range(Tail(s)) PROVE e \in Range(s)
  <2>1. CASE e = Head(s) BY <2>1, <1>1, <1>3 DEF Range
  <2>2. CASE e \in Range(Tail(s))
    <3>1. PICK i \in 1 .. Len(s) - 1 : e = Tail(s)[i] BY <2>2, <1>3 DEF Range
    <3>2. i + 1 \in 1 .. Len(s) BY <1>1
    <3> QED BY <3>1, <3>2, <1>2, <1>3 DEF Range
  <2> QED BY <1>5, <2>1, <2>2
<1> QED BY <1>1, <1>4, <1>5

LEMMA RangeOfAppend ==
    ASSUME NEW S, NEW s \in Seq(S), NEW e \in S
    PROVE  Range(Append(s, e)) = Range(s) \cup {e} /\ Append(s, e) \in Seq(S)
<1>1. /\ Append(s, e) \in Seq(S) /\ Len(Append(s, e)) = Len(s) + 1
      /\ Append(s, e)[Len(s) + 1] = e /\ Len(s) \in Nat
      /\ DOMAIN s = 1 .. Len(s) /\ DOMAIN Append(s, e) = 1 .. Len(s) + 1
  OBVIOUS
<1>2. \A i \in 1 .. Len(s) : Append(s, e)[i] = s[i] OBVIOUS
<1>3. \A i \in 1 .. Len(s) + 1 : i \in 1 .. Len(s) \/ i = Len(s) + 1 BY <1>1
<1>4. \A i \in 1 .. Len(s) : i \in 1 .. Len(s) + 1 BY <1>1
<1> QED BY <1>1, <1>2, <1>3, <1>4 DEF Range

LEMMA OrderOfTail ==
    ASSUME NEW S, NEW s \in Seq(S), s # <<>>, Increasing(s)
    PROVE  Increasing(Tail(s)) /\ \A f \in Range(Tail(s)) : Head(s).seq < f.seq
<1>1. Tail(s) \in Seq(S) /\ Len(Tail(s)) = Len(s) - 1 /\ Head(s) = s[1] /\ Len(s) \in Nat \ {0}
  OBVIOUS
<1>2. \A i \in 1 .. Len(s) - 1 : Tail(s)[i] = s[i + 1] OBVIOUS
<1>3. DOMAIN s = 1 .. Len(s) /\ DOMAIN Tail(s) = 1 .. Len(s) - 1 BY <1>1
<1>4. \A i \in 1 .. Len(s) - 1 : i + 1 \in 1 .. Len(s) /\ 1 < i + 1 BY <1>1
<1>5. 1 \in 1 .. Len(s) BY <1>1
<1>6. Increasing(Tail(s))
  <2>1. SUFFICES ASSUME NEW i \in 1 .. Len(s) - 1, NEW j \in 1 .. Len(s) - 1, i < j
                 PROVE  Tail(s)[i].seq < Tail(s)[j].seq
    BY <1>3 DEF Increasing
  <2>2. i + 1 < j + 1 BY <2>1
  <2> QED BY <2>1, <2>2, <1>2, <1>3, <1>4 DEF Increasing
<1>7. \A f \in Range(Tail(s)) : Head(s).seq < f.seq
  <2>1. SUFFICES ASSUME NEW i \in 1 .. Len(s) - 1 PROVE Head(s).seq < Tail(s)[i].seq
    BY <1>3 DEF Range
  <2> QED BY <1>1, <1>2, <1>3, <1>4, <1>5 DEF Increasing
<1> QED BY <1>6, <1>7

LEMMA OrderOfAppend ==
    ASSUME NEW S, NEW s \in Seq(S), NEW e \in S, Increasing(s),
           \A f \in Range(s) : f.seq < e.seq
    PROVE  Increasing(Append(s, e))
<1>1. /\ Append(s, e) \in Seq(S) /\ Len(Append(s, e)) = Len(s) + 1
      /\ Append(s, e)[Len(s) + 1] = e /\ Len(s) \in Nat
      /\ DOMAIN s = 1 .. Len(s) /\ DOMAIN Append(s, e) = 1 .. Len(s) + 1
  OBVIOUS
<1>2. \A i \in 1 .. Len(s) : Append(s, e)[i] = s[i] OBVIOUS
<1>3. SUFFICES ASSUME NEW i \in 1 .. Len(s) + 1, NEW j \in 1 .. Len(s) + 1, i < j
               PROVE  Append(s, e)[i].seq < Append(s, e)[j].seq
  BY <1>1 DEF Increasing
<1>4. i \in 1 .. Len(s) BY <1>1, <1>3
<1>5. CASE j \in 1 .. Len(s) BY <1>1, <1>2, <1>3, <1>4, <1>5 DEF Increasing
<1>6. CASE j = Len(s) + 1
  <2>1. s[i] \in Range(s) BY <1>4, <1>1 DEF Range
  <2> QED BY <2>1, <1>6, <1>2, <1>4, <1>1
<1> QED BY <1>1, <1>5, <1>6

-----------------------------------------------------------------------------
(* Types.                                                                  *)

Peripheral == [desync : BOOLEAN, pread : FixedReads \cup {None},
               prfic : RficWrites \cup {None}, pretune : Retune2 \cup {None},
               pgen : 0..MaxOpens + 1, gen : 0..MaxOpens + 1]
Caller == [pc : {"closed", "idle", "drain_out", "drain_in", "out", "in"},
           req : MaybeRequest, barrier : {None, "version", "control"},
           seq : 0..MaxFrames]
Reasons == {"nothing", "mismatch", "barrier", "transport", "second", "write"}
Answer1 == [req : Requests, to : Requests, own : BOOLEAN]

LEMMA Types ==
    TypeOK <=> /\ h \in Peripheral /\ call \in Caller
               /\ out \in Seq(Frames) /\ in \in Seq(Responses)
               /\ gen \in 1..MaxOpens + 1 /\ sent \in 0..MaxFrames /\ opens \in 0..MaxOpens
               /\ last \in Answer1 \cup {None} /\ twin \in BOOLEAN /\ why \in Reasons
BY DEF TypeOK, Peripheral, Caller, Reasons, Answer1

LEMMA TypesNext ==
    /\ h' \in Peripheral /\ call' \in Caller
    /\ out' \in Seq(Frames) /\ in' \in Seq(Responses)
    /\ gen' \in 1..MaxOpens + 1 /\ sent' \in 0..MaxFrames /\ opens' \in 0..MaxOpens
    /\ last' \in Answer1 \cup {None} /\ twin' \in BOOLEAN /\ why' \in Reasons
    => TypeOK'
BY DEF TypeOK, Peripheral, Caller, Reasons, Answer1

LEMMA InitInv == Init => Inv
<1> SUFFICES ASSUME Init PROVE Inv OBVIOUS
<1> USE Constants
<1>1. Range(in) = {} /\ Range(out) = {} BY DEF Init, Range
<1>2. Waiting = {} BY <1>1 DEF Waiting
<1>3. h \in Peripheral BY DEF Init, Peripheral, Fresh
<1>4. call \in Caller BY DEF Init, Caller, Closed, Idle, MaybeRequest
<1>5. TypeOK
  <2>1. out \in Seq(Frames) /\ in \in Seq(Responses) BY DEF Init
  <2>2. gen \in 1..MaxOpens + 1 /\ sent \in 0..MaxFrames /\ opens \in 0..MaxOpens
    BY DEF Init
  <2>3. last \in Answer1 \cup {None} /\ twin \in BOOLEAN /\ why \in Reasons
    BY Zenon DEF Init, Reasons
  <2> QED BY <2>1, <2>2, <2>3, <1>3, <1>4, Types
<1>6. InOrder BY <1>1, <1>2 DEF InOrder, Init, Increasing
<1>7. Session /\ Calling /\ Answered
  BY <1>1 DEF Session, Calling, Answered, Init, Closed, Idle, Busy
<1>8. Accounted
  BY <1>2 DEF Accounted, Owned, Present, OneRetune, TokenFresh, Init, Closed, Idle
<1>9. OwnAnswer /\ NoFalseMismatch /\ gen <= opens + 1
  BY DEF OwnAnswer, NoFalseMismatch, Init
<1> QED BY <1>5, <1>6, <1>7, <1>8, <1>9 DEF Inv

-----------------------------------------------------------------------------
(* The channel: a frame goes out, is answered, is received, or all is lost. *)

LEMMA WaitingTyped ==
    ASSUME TypeOK PROVE \A f \in Waiting : f.seq \in 1..MaxFrames /\ f.to \in Requests
<1>1. in \in Seq(Responses) /\ out \in Seq(Frames) BY DEF TypeOK
<1>2. Range(in) \subseteq Responses /\ Range(out) \subseteq Frames BY <1>1 DEF Range
<1> QED BY <1>2 DEF Waiting, Responses, Frames

LEMMA ChannelSame ==
    ASSUME InOrder, Answered, UNCHANGED <<in, out, gen, sent>>
    PROVE  InOrder' /\ Answered' /\ Waiting' = Waiting
BY DEF InOrder, Answered, Waiting, Increasing

LEMMA ChannelLost ==
    ASSUME in' = <<>>, out' = <<>>
    PROVE  InOrder' /\ Answered' /\ Waiting' = {}
<1>1. Range(in') = {} /\ Range(out') = {} BY DEF Range
<1> QED BY <1>1 DEF InOrder, Answered, Waiting, Increasing

LEMMA ChannelSend ==
    ASSUME TypeOK, InOrder, Answered, NEW q \in Requests, Send(q), UNCHANGED <<in, gen>>
    PROVE  /\ InOrder' /\ Answered' /\ out' \in Seq(Frames) /\ sent' \in 1..MaxFrames
           /\ Waiting' = Waiting \cup {[to |-> q, seq |-> sent']}
           /\ \A f \in Waiting : f.seq < sent'
<1> DEFINE e == [to |-> q, seq |-> sent + 1]
<1>1. sent' \in 1..MaxFrames /\ sent' = sent + 1 BY Constants DEF Send, TypeOK
<1>2. e \in Frames /\ out \in Seq(Frames) /\ e.seq = sent + 1 BY <1>1 DEF Frames, TypeOK
<1>3. out' = Append(out, e) BY DEF Send
<1> HIDE DEF e
<1>4. Range(out') = Range(out) \cup {e} /\ out' \in Seq(Frames) BY <1>2, <1>3, RangeOfAppend
<1>5. \A f \in Waiting : f.seq < e.seq
  BY <1>2, WaitingTyped DEF InOrder, TypeOK
<1>6. Increasing(out') BY <1>2, <1>3, <1>5, OrderOfAppend DEF InOrder, Waiting
<1>7. Waiting' = Waiting \cup {e} BY <1>4 DEF Waiting
<1>8. InOrder'
  <2>1. \A f \in Waiting' : f.seq <= sent'
    <3>1. \A f \in Waiting : f.seq <= sent' BY <1>1, <1>5, <1>2, WaitingTyped
    <3> QED BY <3>1, <1>1, <1>2, <1>7
  <2> QED BY <2>1, <1>6, <1>5, <1>4 DEF InOrder, Waiting
<1> QED BY <1>1, <1>2, <1>4, <1>5, <1>7, <1>8 DEF Answered, e

LEMMA ChannelReceive ==
    ASSUME TypeOK, InOrder, Answered, in # <<>>, in' = Tail(in), UNCHANGED <<out, gen, sent>>
    PROVE  /\ InOrder' /\ Answered' /\ in' \in Seq(Responses)
           /\ Head(in) \in Responses /\ Head(in) \in Waiting
           /\ Head(in).gen = gen /\ Head(in).flags \in AnswerFlags(Head(in).to)
           /\ Waiting' \subseteq Waiting /\ Waiting = Waiting' \cup {Head(in)}
           /\ \A f \in Waiting' : Head(in).seq < f.seq
<1>1. in \in Seq(Responses) BY DEF TypeOK
<1>2. /\ Range(in) = {Head(in)} \cup Range(in') /\ in' \in Seq(Responses)
      /\ Head(in) \in Responses
  BY <1>1, RangeOfTail
<1>3. Increasing(in') /\ \A f \in Range(in') : Head(in).seq < f.seq
  BY <1>1, OrderOfTail DEF InOrder
<1> QED BY <1>2, <1>3 DEF InOrder, Answered, Waiting

LEMMA ChannelAnswer ==
    ASSUME TypeOK, InOrder, Answered, Answer
    PROVE  /\ InOrder' /\ Answered' /\ in' \in Seq(Responses) /\ out' \in Seq(Frames)
           /\ \A f \in Waiting' : \E g \in Waiting : f.to = g.to /\ f.seq = g.seq
           /\ \A g \in Waiting : \E f \in Waiting' : f.to = g.to /\ f.seq = g.seq
<1> DEFINE g == Head(out)
<1>1. out \in Seq(Frames) /\ in \in Seq(Responses) /\ gen \in 1..MaxOpens + 1 /\ out # <<>>
  BY DEF TypeOK, Answer
<1>2. PICK fl \in AnswerFlags(g.to) :
        in' = Append(in, [to |-> g.to, seq |-> g.seq, flags |-> fl, gen |-> gen])
  BY DEF Answer
<1> DEFINE r == [to |-> g.to, seq |-> g.seq, flags |-> fl, gen |-> gen]
<1>3. /\ Range(out) = {g} \cup Range(out') /\ out' \in Seq(Frames) /\ g \in Frames
      /\ Increasing(out') /\ \A f \in Range(out') : g.seq < f.seq
  BY <1>1, RangeOfTail, OrderOfTail DEF Answer, InOrder
<1>4. fl \in Flags
  BY DEF AnswerFlags, Flags
<1>5. r \in Responses BY <1>1, <1>3, <1>4 DEF Responses, Frames
<1>6. r.to = g.to /\ r.seq = g.seq /\ r.gen = gen /\ r.flags = fl OBVIOUS
<1>7. in' = Append(in, r) BY <1>2
<1>8. g \in Waiting /\ \A f \in Range(in) : f.seq < r.seq BY <1>3, <1>6 DEF Waiting, InOrder
<1> HIDE DEF g, r
<1>9. Range(in') = Range(in) \cup {r} /\ in' \in Seq(Responses) /\ Increasing(in')
  BY <1>1, <1>5, <1>7, <1>8, RangeOfAppend, OrderOfAppend DEF InOrder
<1>10. sent' = sent /\ gen' = gen BY DEF Answer
<1>11. InOrder'
  <2>1. \A f \in Range(in'), k \in Range(out') : f.seq < k.seq
    BY <1>3, <1>6, <1>9 DEF InOrder
  <2>2. \A f \in Waiting' : f.seq <= sent'
    BY <1>3, <1>6, <1>8, <1>9, <1>10 DEF InOrder, Waiting
  <2> QED BY <2>1, <2>2, <1>3, <1>9 DEF InOrder
<1>12. Answered' BY <1>6, <1>9, <1>10 DEF Answered
<1> QED BY <1>3, <1>6, <1>9, <1>11, <1>12 DEF Waiting

-----------------------------------------------------------------------------
(* Every step keeps the invariant.                                         *)

LEMMA IdleTyped == Idle \in Caller /\ Closed \in Caller /\ Idle.pc = "idle" /\ Closed.pc = "closed"
BY Constants DEF Idle, Closed, Caller, MaybeRequest

LEMMA BeginInv == ASSUME Inv, NEW q \in Issued, Begin(q) PROVE Inv'
<1> USE Constants
<1>1. TypeOK /\ InOrder /\ Answered BY DEF Inv
<1>2. UNCHANGED <<h, out, in, gen, sent, opens, twin, why>> /\ last' = None /\ call.pc = "idle"
  BY DEF Begin
<1>3. InOrder' /\ Answered' /\ Waiting' = Waiting BY <1>1, <1>2, ChannelSame
<1>4. \/ /\ h.pread # None
         /\ call' = [Idle EXCEPT !.pc = "drain_out", !.req = q, !.barrier = Barrier(h.pread)]
      \/ h.pread = None /\ Admitted(q) /\ call' = [Idle EXCEPT !.pc = "out", !.req = q]
  BY DEF Begin
<1>5. /\ call' \in Caller /\ call'.req = q /\ call'.pc \in {"drain_out", "out"}
      /\ call'.pc = "drain_out" => h.pread # None /\ call'.barrier = Barrier(h.pread)
      /\ call'.pc = "out" => h.pread = None /\ Admitted(q)
  <2>1. CASE h.pread # None
    <3>1. call' = [Idle EXCEPT !.pc = "drain_out", !.req = q, !.barrier = Barrier(h.pread)]
      BY <2>1, <1>4
    <3>2. Barrier(h.pread) \in {None, "version", "control"} /\ q \in MaybeRequest
      BY DEF Barrier, MaybeRequest
    <3> QED BY <3>1, <3>2, <2>1, IdleTyped DEF Idle, Caller
  <2>2. CASE h.pread = None
    <3>1. call' = [Idle EXCEPT !.pc = "out", !.req = q] /\ Admitted(q) /\ q \in MaybeRequest
      BY <2>2, <1>4 DEF MaybeRequest
    <3> QED BY <3>1, <2>2, IdleTyped DEF Idle, Caller
  <2> QED BY <2>1, <2>2
<1>6. TypeOK' BY <1>1, <1>2, <1>5, Types, TypesNext
<1>7. Session' BY <1>2, <1>5 DEF Inv, Session, Begin, Prepared
<1>8. Calling' BY <1>2, <1>5 DEF Begin, Calling, Admitted, Barrier
<1>9. Accounted'
  BY <1>2, <1>3, <1>5
  DEF Inv, Accounted, Healthy, Owned, Present, OneRetune, TokenFresh, Own, Unowed
<1>10. OwnAnswer' /\ NoFalseMismatch' /\ (gen <= opens + 1)'
  BY <1>2 DEF Inv, OwnAnswer, NoFalseMismatch
<1> QED BY <1>3, <1>6, <1>7, <1>8, <1>9, <1>10 DEF Inv

\* The channel is given up: nothing is claimed of it any more.
LEMMA GivenUp ==
    ASSUME Inv, NEW reason \in Reasons, GiveUp(h, reason), UNCHANGED <<gen, opens, last, twin>>,
           InOrder', Answered', in' \in Seq(Responses), out' \in Seq(Frames),
           sent' \in 0..MaxFrames, reason = "mismatch" => twin
    PROVE  Inv'
<1>1. TypeOK BY DEF Inv
<1>2. h' = [h EXCEPT !.desync = TRUE] /\ why' = reason /\ call' = Idle BY DEF GiveUp
<1>3. h' \in Peripheral /\ h'.desync /\ h'.gen = h.gen BY <1>1, <1>2, Types DEF Peripheral
<1>4. TypeOK' BY <1>1, <1>2, <1>3, IdleTyped, Types, TypesNext
<1>5. Session' /\ Calling'
  BY <1>2, <1>3, IdleTyped DEF Inv, Session, Calling, Busy
<1>6. Accounted' BY <1>3 DEF Accounted, Healthy
<1>7. OwnAnswer' /\ NoFalseMismatch' /\ (gen <= opens + 1)'
  BY <1>2 DEF Inv, OwnAnswer, NoFalseMismatch
<1> QED BY <1>4, <1>5, <1>6, <1>7 DEF Inv

LEMMA DrainTimeoutInv == ASSUME Inv, DrainTimeout \/ InFails PROVE Inv'
<1>1. /\ TypeOK /\ InOrder /\ Answered /\ UNCHANGED <<out, in, gen, sent, opens, last, twin>>
      /\ GiveUp(h, "barrier") \/ GiveUp(h, "transport")
  BY DEF Inv, DrainTimeout, InFails
<1>2. InOrder' /\ Answered' BY <1>1, ChannelSame
<1>3. in' \in Seq(Responses) /\ out' \in Seq(Frames) /\ sent' \in 0..MaxFrames
  BY <1>1 DEF TypeOK
<1>4. {"barrier", "transport"} \subseteq Reasons \ {"mismatch"} BY DEF Reasons
<1> QED BY <1>1, <1>2, <1>3, <1>4, GivenUp

LEMMA OutFailsInv == ASSUME Inv, OutFails PROVE Inv'
<1>1. /\ TypeOK /\ InOrder /\ Answered /\ Calling
      /\ UNCHANGED <<in, gen, opens, last, twin>> /\ GiveUp(h, "transport")
  BY DEF Inv, OutFails
<1>2. InOrder' /\ Answered' /\ out' \in Seq(Frames) /\ sent' \in 0..MaxFrames
  <2>1. CASE UNCHANGED <<out, sent>> BY <2>1, <1>1, ChannelSame DEF TypeOK
  <2>2. CASE Send(IF call.pc = "out" THEN call.req ELSE call.barrier)
    <3>1. (IF call.pc = "out" THEN call.req ELSE call.barrier) \in Requests
      BY <1>1 DEF OutFails, Calling, Busy, Barrier, Requests, FixedReads, Reads8x32
    <3>2. InOrder' /\ Answered' /\ out' \in Seq(Frames) /\ sent' \in 1..MaxFrames
      BY <3>1, <2>2, <1>1, ChannelSend
    <3> QED BY <3>2
  <2> QED BY <2>1, <2>2 DEF OutFails
<1>3. in' \in Seq(Responses) BY <1>1 DEF TypeOK
<1>4. "transport" \in Reasons \ {"mismatch"} BY DEF Reasons
<1> QED BY <1>1, <1>2, <1>3, <1>4, GivenUp

LEMMA DrainOutInv == ASSUME Inv, DrainOut PROVE Inv'
<1> USE Constants
<1>1. /\ TypeOK /\ InOrder /\ Answered /\ Calling /\ call.pc = "drain_out"
      /\ UNCHANGED <<h, in, gen, opens, last, twin, why>> /\ Send(call.barrier)
      /\ call' = [call EXCEPT !.pc = "drain_in"] /\ call \in Caller
  BY Types DEF Inv, DrainOut
<1>2. call.barrier \in Requests
  BY <1>1 DEF Calling, Barrier, Requests, FixedReads, Reads8x32
<1>3. /\ InOrder' /\ Answered' /\ out' \in Seq(Frames) /\ sent' \in 1..MaxFrames
      /\ Waiting' = Waiting \cup {[to |-> call.barrier, seq |-> sent']}
      /\ \A f \in Waiting : f.seq < sent'
  BY <1>1, <1>2, ChannelSend
<1>4. /\ call' \in Caller /\ call'.pc = "drain_in" /\ call'.req = call.req
      /\ call'.barrier = call.barrier
  BY <1>1 DEF Caller
<1>5. TypeOK' BY <1>1, <1>3, <1>4, Types, TypesNext
<1>6. Session' /\ Calling' BY <1>1, <1>4 DEF Inv, Session, Calling, Busy
<1>7. Accounted'
  <2> SUFFICES ASSUME Healthy' PROVE (Owned /\ Present /\ OneRetune /\ TokenFresh)'
    BY DEF Accounted
  <2>1. /\ Owned /\ OneRetune /\ TokenFresh /\ \A f \in Waiting : ~Own(f)
    BY <1>1 DEF Inv, Accounted, Healthy, Own
  <2>2. \A f \in Waiting' : f \in Waiting \/ (f.seq = sent' /\ f.to = call.barrier) BY <1>3
  <2>3. \A f \in Waiting : f.seq # sent' BY <1>1, <1>3, WaitingTyped
  <2>4. \A f \in Waiting' : Own(f)' <=> f \notin Waiting
    BY <2>2, <2>3, <1>4 DEF Own
  <2>5. Owned' BY <2>1, <2>2, <2>4, <1>1, <1>4 DEF Owned, OwnTo, Unowed
  <2>6. Present'
    <3>1. /\ [to |-> call.barrier, seq |-> sent'] \in Waiting'
          /\ [to |-> call.barrier, seq |-> sent'].seq = sent'
      BY <1>3
    <3> QED BY <3>1, <1>4 DEF Present, Own
  <2>7. OneRetune' BY <2>1, <2>4, <1>1 DEF OneRetune
  <2>8. TokenFresh'
    <3>1. call.barrier \notin Tokened BY <1>1 DEF Calling, Barrier, Tokened
    <3> QED BY <3>1, <2>1, <2>2, <1>1 DEF TokenFresh
  <2> QED BY <2>5, <2>6, <2>7, <2>8
<1>8. OwnAnswer' /\ NoFalseMismatch' /\ (gen <= opens + 1)'
  BY <1>1 DEF Inv, OwnAnswer, NoFalseMismatch
<1> QED BY <1>3, <1>5, <1>6, <1>7, <1>8 DEF Inv

LEMMA OutInv == ASSUME Inv, Out PROVE Inv'
<1> USE Constants
<1>1. /\ TypeOK /\ InOrder /\ Answered /\ Calling /\ call.pc = "out"
      /\ UNCHANGED <<h, in, gen, opens, last, twin, why>> /\ Send(call.req)
      /\ call' = [call EXCEPT !.pc = "in", !.seq = sent + 1] /\ call \in Caller
  BY Types DEF Inv, Out
<1>2. call.req \in Requests /\ sent' = sent + 1 BY <1>1 DEF Calling, Busy, Send
<1>3. /\ InOrder' /\ Answered' /\ out' \in Seq(Frames) /\ sent' \in 1..MaxFrames
      /\ Waiting' = Waiting \cup {[to |-> call.req, seq |-> sent']}
      /\ \A f \in Waiting : f.seq < sent'
  BY <1>1, <1>2, ChannelSend
<1>4. call' \in Caller /\ call'.pc = "in" /\ call'.req = call.req /\ call'.seq = sent'
  <2>1. call' = [call EXCEPT !.pc = "in", !.seq = sent'] /\ sent' \in 0..MaxFrames
    BY <1>1, <1>2, <1>3
  <2> QED BY <2>1, <1>1 DEF Caller
<1>5. TypeOK' BY <1>1, <1>3, <1>4, Types, TypesNext
<1>6. Session' /\ Calling' BY <1>1, <1>4 DEF Inv, Session, Calling, Busy, Admitted
<1>7. Accounted'
  <2> SUFFICES ASSUME Healthy' PROVE (Owned /\ Present /\ OneRetune /\ TokenFresh)'
    BY DEF Accounted
  <2>1. /\ Owned /\ OneRetune /\ TokenFresh /\ \A f \in Waiting : ~Own(f)
    BY <1>1 DEF Inv, Accounted, Healthy, Own
  <2>2. \A f \in Waiting' : f \in Waiting \/ (f.seq = sent' /\ f.to = call.req) BY <1>3
  <2>3. \A f \in Waiting : f.seq # sent' BY <1>1, <1>3, WaitingTyped
  <2>4. \A f \in Waiting' : Own(f)' <=> f \notin Waiting
    BY <2>2, <2>3, <1>4 DEF Own
  <2>5. Owned' BY <2>1, <2>2, <2>4, <1>1, <1>4 DEF Owned, OwnTo, Unowed
  <2>6. Present'
    <3>1. /\ [to |-> call.req, seq |-> sent'] \in Waiting'
          /\ [to |-> call.req, seq |-> sent'].seq = sent'
      BY <1>3
    <3> QED BY <3>1, <1>4 DEF Present, Own
  <2>7. OneRetune' BY <2>1, <2>4, <1>1 DEF OneRetune
  <2>8. TokenFresh'
    <3>1. h.pretune # None => call.req \notin Tokened
      BY <1>1 DEF Calling, Admitted, RecoversRetune2, Reads8x32, Readouts, StatusRead,
                  Clears, Tokened
    <3>2. call.req # None BY <1>2
    <3> QED BY <3>1, <3>2, <2>1, <2>2, <1>1 DEF TokenFresh
  <2> QED BY <2>5, <2>6, <2>7, <2>8
<1>8. OwnAnswer' /\ NoFalseMismatch' /\ (gen <= opens + 1)'
  BY <1>1 DEF Inv, OwnAnswer, NoFalseMismatch
<1> QED BY <1>3, <1>5, <1>6, <1>7, <1>8 DEF Inv

\* The device answers: the response keeps the name and place of its frame.
LEMMA AnswerInv == ASSUME Inv, Answer PROVE Inv'
<1>1. TypeOK /\ InOrder /\ Answered BY DEF Inv
<1>2. /\ InOrder' /\ Answered' /\ in' \in Seq(Responses) /\ out' \in Seq(Frames)
      /\ \A f \in Waiting' : \E g \in Waiting : f.to = g.to /\ f.seq = g.seq
      /\ \A g \in Waiting : \E f \in Waiting' : f.to = g.to /\ f.seq = g.seq
  BY <1>1, ChannelAnswer
<1>3. UNCHANGED <<h, call, gen, sent, opens, last, twin, why>> BY DEF Answer
<1>4. TypeOK' BY <1>1, <1>2, <1>3, Types, TypesNext
<1>5. Session' /\ Calling' BY <1>3 DEF Inv, Session, Calling, Busy, Admitted
<1>6. Accounted'
  <2> SUFFICES ASSUME Healthy' PROVE (Owned /\ Present /\ OneRetune /\ TokenFresh)'
    BY DEF Accounted
  <2>1. Owned /\ Present /\ OneRetune /\ TokenFresh BY <1>3 DEF Inv, Accounted, Healthy
  <2>2. Owned' BY <2>1, <1>2, <1>3 DEF Owned, Own, OwnTo, Unowed
  <2>3. Present' BY <2>1, <1>2, <1>3 DEF Present, Own
  <2>4. OneRetune' BY <2>1, <1>2, <1>3 DEF OneRetune, Own
  <2>5. TokenFresh' BY <2>1, <1>2, <1>3 DEF TokenFresh
  <2> QED BY <2>2, <2>3, <2>4, <2>5
<1>7. OwnAnswer' /\ NoFalseMismatch' /\ (gen <= opens + 1)'
  BY <1>3 DEF Inv, OwnAnswer, NoFalseMismatch
<1> QED BY <1>2, <1>4, <1>5, <1>6, <1>7 DEF Inv

LEMMA CloseInv == ASSUME Inv, Close PROVE Inv'
<1> USE Constants
<1>1. /\ TypeOK /\ InOrder /\ Answered /\ call.pc = "idle" /\ call' = Closed /\ last' = None
      /\ UNCHANGED <<out, in, gen, sent, opens, twin, why>> /\ h' = IF Kept(h) THEN h ELSE Fresh
  BY DEF Inv, Close
<1>2. InOrder' /\ Answered' /\ Waiting' = Waiting BY <1>1, ChannelSame
<1>3. h' \in Peripheral
  <2>1. Fresh \in Peripheral BY DEF Fresh, Peripheral
  <2> QED BY <2>1, <1>1, Types
<1>4. TypeOK' BY <1>1, <1>3, IdleTyped, Types, TypesNext
<1>5. Session' /\ Calling' BY <1>1, IdleTyped DEF Session, Calling, Busy
<1>6. Accounted'
  <2> SUFFICES ASSUME Healthy' PROVE (Owned /\ Present /\ OneRetune /\ TokenFresh)'
    BY DEF Accounted
  <2>1. CASE Kept(h)
    <3>1. h' = h BY <2>1, <1>1
    <3>2. Owned /\ Present /\ OneRetune /\ TokenFresh
      BY <3>1, <1>1 DEF Inv, Accounted, Healthy
    <3> QED BY <3>1, <3>2, <1>1, <1>2, IdleTyped
        DEF Owned, Present, OneRetune, TokenFresh, Own, Unowed
  <2>2. CASE ~Kept(h)
    <3>1. Owned /\ h.pread = None /\ h.prfic = None /\ h.pretune = None
      BY <2>2, <1>1 DEF Inv, Accounted, Healthy, Kept
    <3>2. Waiting = {}
      BY <3>1, <1>1, WaitingTyped DEF Owned, Own, Unowed
    <3> QED BY <3>2, <1>2, <1>1, IdleTyped DEF Owned, Present, OneRetune, TokenFresh
  <2> QED BY <2>1, <2>2
<1>7. OwnAnswer' /\ NoFalseMismatch' /\ (gen <= opens + 1)'
  BY <1>1 DEF Inv, OwnAnswer, NoFalseMismatch
<1> QED BY <1>2, <1>4, <1>5, <1>6, <1>7 DEF Inv

LEMMA OpenInv == ASSUME Inv, NEW reset \in BOOLEAN, Open(reset) PROVE Inv'
<1> USE Constants
<1>1. /\ TypeOK /\ InOrder /\ Answered /\ call.pc = "closed" /\ call' = Idle
      /\ opens < MaxOpens /\ opens' = opens + 1 /\ UNCHANGED <<h, sent, last, twin, why>>
      /\ last = None
  BY DEF Inv, Open, Session
<1>2. \/ in' = <<>> /\ out' = <<>> /\ gen' = gen + 1
      \/ UNCHANGED <<out, in, gen>>
  BY DEF Open
<1>3. InOrder' /\ Answered' /\ (Waiting' = {} \/ (Waiting' = Waiting /\ gen' = gen))
  BY <1>1, <1>2, ChannelSame, ChannelLost
<1>4. /\ opens \in 0..MaxOpens /\ gen \in 1..MaxOpens + 1 /\ gen <= opens + 1
      /\ in \in Seq(Responses) /\ out \in Seq(Frames)
  BY <1>1 DEF TypeOK, Inv
<1>5. opens' \in 0..MaxOpens /\ gen' \in 1..MaxOpens + 1 /\ gen' <= opens' + 1
  BY <1>1, <1>2, <1>4
<1>6. in' \in Seq(Responses) /\ out' \in Seq(Frames)
  <2>1. <<>> \in Seq(Responses) /\ <<>> \in Seq(Frames) OBVIOUS
  <2> QED BY <2>1, <1>2, <1>4
<1>7. TypeOK' BY <1>1, <1>5, <1>6, IdleTyped, Types, TypesNext
<1>8. Session' /\ Calling' BY <1>1, IdleTyped DEF Session, Calling, Busy
<1>9. Accounted'
  <2> SUFFICES ASSUME Healthy' PROVE (Owned /\ Present /\ OneRetune /\ TokenFresh)'
    BY DEF Accounted
  <2>1. CASE Waiting' = {}
    BY <2>1, <1>1, IdleTyped DEF Owned, Present, OneRetune, TokenFresh
  <2>2. CASE Waiting' = Waiting /\ gen' = gen
    <3>1. Owned /\ Present /\ OneRetune /\ TokenFresh
      BY <1>1 DEF Inv, Accounted, Healthy
    <3> QED BY <2>2, <3>1, <1>1, IdleTyped
        DEF Owned, Present, OneRetune, TokenFresh, Own, Unowed
  <2> QED BY <2>1, <2>2, <1>3
<1>10. OwnAnswer' /\ NoFalseMismatch'
  BY <1>1 DEF Inv, OwnAnswer, NoFalseMismatch
<1> QED BY <1>3, <1>5, <1>7, <1>8, <1>9, <1>10 DEF Inv

LEMMA ReplugInv == ASSUME Inv, Replug PROVE Inv'
<1> USE Constants
<1>1. /\ TypeOK /\ call.pc = "closed" /\ call' = Idle
      /\ opens < MaxOpens /\ opens' = opens + 1 /\ h' = Fresh /\ in' = <<>> /\ out' = <<>>
      /\ gen' = 1 /\ twin' = FALSE /\ why' = "nothing" /\ UNCHANGED <<sent, last>>
      /\ last = None
  BY DEF Inv, Replug, Session
<1>2. InOrder' /\ Answered' /\ Waiting' = {} BY <1>1, ChannelLost
<1>3. opens' \in 0..MaxOpens /\ gen' \in 1..MaxOpens + 1 /\ gen' <= opens' + 1
  BY <1>1 DEF TypeOK
<1>4. h' \in Peripheral BY <1>1 DEF Fresh, Peripheral
<1>5. twin' \in BOOLEAN /\ why' \in Reasons BY <1>1, Zenon DEF Reasons
<1>6. in' \in Seq(Responses) /\ out' \in Seq(Frames) BY <1>1
<1>7. TypeOK' BY <1>1, <1>3, <1>4, <1>5, <1>6, IdleTyped, Types, TypesNext
<1>8. Session' /\ Calling' BY <1>1, IdleTyped DEF Session, Calling, Busy
<1>9. Accounted'
  BY <1>1, <1>2, IdleTyped DEF Accounted, Owned, Present, OneRetune, TokenFresh
<1>10. OwnAnswer' /\ NoFalseMismatch'
  BY <1>1 DEF Inv, OwnAnswer, NoFalseMismatch
<1> QED BY <1>2, <1>3, <1>7, <1>8, <1>9, <1>10 DEF Inv

\* The deadline passes: the frame sent last now belongs to the kept identity.
LEMMA InTimeoutInv == ASSUME Inv, InTimeout PROVE Inv'
<1> USE Constants, Kinds
<1> DEFINE q == call.req
<1>1. /\ TypeOK /\ InOrder /\ Answered /\ Calling /\ Session /\ call.pc = "in"
      /\ UNCHANGED <<out, in, gen, sent, opens, last, twin>> /\ h \in Peripheral
  BY Types DEF Inv, InTimeout
<1>2. InOrder' /\ Answered' /\ Waiting' = Waiting BY <1>1, ChannelSame
<1>3. /\ in' \in Seq(Responses) /\ out' \in Seq(Frames) /\ sent' \in 0..MaxFrames
      /\ q \in Requests /\ ~h.desync /\ h.pread = None
      /\ q \in Tokened => h.gen = gen
      /\ h.prfic # None => RficBarrier(q) \/ q = h.prfic
  BY <1>1 DEF TypeOK, Calling, Busy, Session, Admitted
<1>4. CASE GiveUp(h, "second") \/ GiveUp(h, "write")
  <2>1. {"second", "write"} \subseteq Reasons \ {"mismatch"} BY DEF Reasons
  <2> QED BY <2>1, <1>1, <1>2, <1>3, <1>4, GivenUp
<1>5. CASE /\ call' = Idle /\ UNCHANGED why
           /\ \/ q \in Retune2 /\ h.pretune = None /\ h' = [h EXCEPT !.pretune = q, !.pgen = h.gen]
              \/ q \in RficWrites /\ h' = [h EXCEPT !.prfic = q]
              \/ q \in FixedReads /\ h' = [h EXCEPT !.pread = q]
  <2>1. /\ h' \in Peripheral /\ h'.gen = h.gen /\ h'.desync = h.desync
        /\ q \in {h'.pread, h'.prfic, h'.pretune}
    BY <1>1, <1>5 DEF Peripheral
  <2>2. TypeOK' BY <1>1, <1>3, <1>5, <2>1, IdleTyped, Types, TypesNext
  <2>3. Session' /\ Calling' BY <1>1, <1>5, <2>1, IdleTyped DEF Session, Calling, Busy
  <2>4. Accounted'
    <3> SUFFICES ASSUME Healthy' PROVE (Owned /\ Present /\ OneRetune /\ TokenFresh)'
      BY DEF Accounted
    <3>1. Owned /\ OneRetune /\ TokenFresh BY <1>1, <2>1 DEF Inv, Accounted, Healthy
    <3>2. \A f \in Waiting : f.to = q \/ f.to \in {h.prfic, h.pretune}
      BY <3>1, <1>1, <1>3, WaitingTyped DEF Owned, OwnTo, Unowed
    <3>3. \A f \in Waiting : Own(f) => f.to = q
      BY <3>1, <1>1 DEF Owned, OwnTo
    <3>4. \A f \in Waiting : ~Own(f)' BY <1>5, IdleTyped DEF Own
    <3>5. h.prfic # None /\ q \in RficWrites => h.prfic = q
      BY <1>3 DEF RficBarrier, StatusRead, Readouts, RficWrites
    <3>6. Owned'
      <4>1. ASSUME NEW f \in Waiting PROVE f.to \in {h'.pread, h'.prfic, h'.pretune}
        <5>1. f.to \in Requests BY <1>1, WaitingTyped
        <5>2. CASE f.to = q BY <5>2, <2>1
        <5>3. CASE f.to = h.prfic BY <5>1, <5>3, <1>1, <1>5, <3>5 DEF Peripheral
        <5>4. CASE f.to = h.pretune BY <5>1, <5>4, <1>1, <1>5 DEF Peripheral
        <5> QED BY <5>2, <5>3, <5>4, <3>2
      <4> QED BY <4>1, <3>4, <1>2 DEF Owned, Unowed
    <3>7. Present' BY <1>5, IdleTyped DEF Present
    <3>8. OneRetune' /\ TokenFresh'
      <4>1. CASE q \in Retune2
        <5>1. h.pretune = None /\ h' = [h EXCEPT !.pretune = q, !.pgen = h.gen]
          BY <4>1, <1>5
        <5>2. h'.pretune = q /\ h'.pgen = h.gen BY <5>1, <1>1 DEF Peripheral
        <5>3. \A f \in Waiting : f.to = q => Own(f)
          BY <5>1, <4>1, <3>1, <1>1, <1>3, WaitingTyped DEF Owned, Unowed, Peripheral
        <5> QED BY <5>2, <5>3, <1>1, <1>2, <1>3 DEF OneRetune, TokenFresh, Own
      <4>2. CASE q \notin Retune2
        <5>1. h'.pretune = h.pretune /\ h'.pgen = h.pgen
          BY <4>2, <1>1, <1>5 DEF Peripheral
        <5>2. \A f \in Waiting : f.to = h.pretune => ~Own(f)
          BY <4>2, <3>3, <1>1, <1>3, WaitingTyped DEF Peripheral
        <5> QED BY <5>1, <5>2, <3>1, <1>1, <1>2 DEF OneRetune, TokenFresh
      <4> QED BY <4>1, <4>2
    <3> QED BY <3>6, <3>7, <3>8
  <2>5. OwnAnswer' /\ NoFalseMismatch' /\ (gen <= opens + 1)'
    BY <1>1, <1>5 DEF Inv, OwnAnswer, NoFalseMismatch
  <2> QED BY <1>2, <2>2, <2>3, <2>4, <2>5 DEF Inv
<1> QED BY <1>4, <1>5 DEF InTimeout

-----------------------------------------------------------------------------
(* Matching.                                                               *)

LEMMA FlagsOfAnswer ==
    ASSUME NEW q \in Requests, NEW f \in AnswerFlags(q) PROVE FlagsFit(q, f)
BY DEF AnswerFlags, FlagsFit, Clears

\* A frame that belongs to the pending RETUNE2 is recognised.
LEMMA RetuneRecognised ==
    ASSUME Inv, NEW r \in Responses, r \in Waiting, r.gen = gen, r.flags \in AnswerFlags(r.to),
           Healthy, r.to = h.pretune
    PROVE  PendingMatches(h.pretune, r, h.pgen)
<1>1. r.to \in Requests /\ h \in Peripheral /\ TokenFresh /\ gen \in 1..MaxOpens + 1
  BY Types DEF Responses, Inv, Accounted
<1>2. r.to \in Retune2 /\ h.pretune # None BY <1>1, Constants DEF Peripheral
<1>3. FlagsFit(h.pretune, r.flags) BY <1>1, FlagsOfAnswer
<1>4. h.pretune \in Tokened => h.pgen = gen /\ gen # 0 BY <1>1 DEF TokenFresh
<1>5. h.pretune \notin Tokened => r.to \in Tokenless BY <1>2 DEF Retune2
<1> QED BY <1>2, <1>3, <1>4, <1>5 DEF PendingMatches, Matches

\* So is the answer to the frame of the transaction in progress.
LEMMA OwnRecognised ==
    ASSUME Inv, call.pc = "in", NEW r \in Responses, r.gen = gen, r.flags \in AnswerFlags(r.to),
           r.to = call.req
    PROVE  Matches(call.req, r, h.gen)
<1>1. r.to \in Requests /\ gen \in 1..MaxOpens + 1 BY Types DEF Responses, Inv
<1>2. call.req \in Tokened => h.gen = gen /\ gen # 0 BY <1>1 DEF Inv, Session, Busy
<1>3. FlagsFit(call.req, r.flags) BY <1>1, FlagsOfAnswer
<1> QED BY <1>2, <1>3 DEF Matches, Retune2

\* The peripheral state after a completed transaction.
LEMMA CompletedIs ==
    ASSUME NEW s \in Peripheral, NEW q \in Requests, NEW r \in Responses
    PROVE  /\ Completed(s, q, r) \in Peripheral
           /\ Completed(s, q, r).desync = s.desync /\ Completed(s, q, r).pread = s.pread
           /\ Completed(s, q, r).gen = IF q = "generation" THEN r.gen ELSE s.gen
           /\ q \in RficWrites /\ r.to \notin Retune2 => Completed(s, q, r) = s
<1> USE Constants
<1> DEFINE a == AfterRetune2Match(s, r)
           b == AfterBarrier(a, q)
           d == AfterGeneration(b, q, r)
           e == AfterClear(d, q)
<1>0. \A x \in Peripheral : /\ NoRetune(x) \in Peripheral /\ NoRetune(x).desync = x.desync
                            /\ NoRetune(x).pread = x.pread /\ NoRetune(x).gen = x.gen
  <2> TAKE x \in Peripheral
  <2>1. None \in Retune2 \cup {None} /\ 0 \in 0..MaxOpens + 1 OBVIOUS
  <2> QED BY <2>1 DEF NoRetune, Peripheral
<1>1. a \in Peripheral /\ a.desync = s.desync /\ a.pread = s.pread /\ a.gen = s.gen
  BY <1>0 DEF AfterRetune2Match
<1>2. b \in Peripheral /\ b.desync = s.desync /\ b.pread = s.pread /\ b.gen = s.gen
  <2> HIDE DEF a
  <2> QED BY <1>1 DEF AfterBarrier, Peripheral
<1>3. /\ d \in Peripheral /\ d.desync = s.desync /\ d.pread = s.pread
      /\ d.gen = IF q = "generation" THEN r.gen ELSE s.gen
  <2> HIDE DEF b
  <2>1. r.gen \in 0..MaxOpens + 1 BY DEF Responses
  <2>2. [b EXCEPT !.gen = r.gen] \in Peripheral /\ [b EXCEPT !.gen = r.gen].desync = s.desync
        /\ [b EXCEPT !.gen = r.gen].pread = s.pread /\ [b EXCEPT !.gen = r.gen].gen = r.gen
    BY <2>1, <1>2 DEF Peripheral
  <2> QED BY <2>2, <1>0, <1>2 DEF AfterGeneration
<1>4. /\ e \in Peripheral /\ e.desync = s.desync /\ e.pread = s.pread
      /\ e.gen = IF q = "generation" THEN r.gen ELSE s.gen
  <2> HIDE DEF d
  <2> QED BY <1>0, <1>3 DEF AfterClear
<1>5. Completed(s, q, r) = e BY DEF Completed
<1>6. ASSUME q \in RficWrites, r.to \notin Retune2 PROVE e = s
  <2>1. a = s
    BY <1>6, Kinds DEF AfterRetune2Match, PendingMatches, Matches, Peripheral
  <2>2. ~RficBarrier(q) /\ q # "generation" /\ q \notin Clears
    BY <1>6 DEF RficBarrier, StatusRead, Readouts, RficWrites, Clears
  <2> HIDE DEF a
  <2> QED BY <2>1, <2>2 DEF AfterBarrier, AfterGeneration, AfterClear
<1> HIDE DEF e
<1> QED BY <1>4, <1>5, <1>6

-----------------------------------------------------------------------------
(* Receiving.                                                              *)

LEMMA InInv == ASSUME Inv, In PROVE Inv'
<1> USE Constants, Kinds
<1> DEFINE r       == Head(in)
           current == Matches(call.req, r, h.gen)
           older   == PendingMatches(h.prfic, r, h.gen)
           retune2 == PendingMatches(h.pretune, r, h.pgen)
<1>1. /\ TypeOK /\ InOrder /\ Answered /\ Calling /\ Session /\ call.pc = "in" /\ in # <<>>
      /\ in' = Tail(in) /\ UNCHANGED <<out, gen, sent, opens>> /\ h \in Peripheral
      /\ call \in Caller /\ twin' = (twin \/ (current /\ retune2)) /\ twin \in BOOLEAN
  BY Types DEF Inv, In
<1>2. /\ InOrder' /\ Answered' /\ in' \in Seq(Responses) /\ r \in Responses /\ r \in Waiting
      /\ r.gen = gen /\ r.flags \in AnswerFlags(r.to)
      /\ Waiting' \subseteq Waiting /\ Waiting = Waiting' \cup {r}
      /\ \A f \in Waiting' : r.seq < f.seq
  BY <1>1, ChannelReceive
<1>3. \/ /\ current /\ h' = Completed(h, call.req, r) /\ call' = Idle /\ UNCHANGED why
         /\ last' = [req |-> call.req, to |-> r.to, own |-> r.seq = call.seq]
      \/ /\ ~current /\ (older \/ retune2) /\ h' = AfterRetune2Match(h, r)
         /\ UNCHANGED <<call, last, why>>
      \/ ~current /\ ~older /\ ~retune2 /\ GiveUp(h, "mismatch") /\ UNCHANGED last
  BY DEF In
<1>4. /\ call.req \in Requests /\ ~h.desync /\ h.pread = None /\ call.seq = sent
      /\ r.to \in Requests /\ r.seq \in 1..MaxFrames /\ sent \in 0..MaxFrames
      /\ gen \in 1..MaxOpens + 1
  BY <1>1, <1>2, Types DEF Calling, Busy, Responses
<1>5. r.to = call.req => current BY <1>1, <1>2, OwnRecognised
<1>6. r.to = h.pretune /\ ~twin => retune2
  BY <1>2, <1>4, RetuneRecognised DEF Healthy
<1>7. r.to = h.prfic => older
  BY <1>1, <1>4 DEF PendingMatches, Matches, Peripheral
<1>8. ~twin => /\ Owned /\ Present /\ OneRetune /\ TokenFresh
               /\ r.seq = sent => r.to = call.req
               /\ r.seq # sent => r.to \in {h.prfic, h.pretune}
  BY <1>1, <1>2, <1>4 DEF Inv, Accounted, Healthy, Owned, OwnTo, Own, Unowed
<1>9. r.seq = sent => Waiting' = {}
  <2>1. \A f \in Waiting' : r.seq < f.seq /\ f.seq <= sent /\ f.seq \in 1..MaxFrames
    BY <1>1, <1>2, WaitingTyped DEF InOrder
  <2> QED BY <2>1, <1>4
<1>10. retune2 => r.to \in Retune2
  BY <1>1 DEF PendingMatches, Matches, Peripheral
<1> HIDE DEF r, current, older, retune2
<1>11. CASE current /\ h' = Completed(h, call.req, r) /\ call' = Idle /\ UNCHANGED why
            /\ last' = [req |-> call.req, to |-> r.to, own |-> r.seq = call.seq]
  <2>1. /\ h' \in Peripheral /\ h'.desync = h.desync /\ h'.pread = h.pread
        /\ call.req = "generation" => h'.gen = gen
        /\ call.req \in RficWrites /\ r.to \notin Retune2 => h' = h
    <3>1. /\ h' \in Peripheral /\ h'.desync = h.desync /\ h'.pread = h.pread
          /\ h'.gen = IF call.req = "generation" THEN r.gen ELSE h.gen
          /\ call.req \in RficWrites /\ r.to \notin Retune2 => h' = h
      <4>1. h \in Peripheral /\ call.req \in Requests /\ r \in Responses BY <1>1, <1>2, <1>4
      <4>2. h' = Completed(h, call.req, r) BY <1>11
      <4> QED BY ONLY <4>1, <4>2, CompletedIs
    <3> QED BY <3>1, <1>2
  <2>2. /\ last' \in Answer1 /\ last'.req = call.req /\ last'.to = r.to
        /\ last'.own = (r.seq = sent)
    <3>1. (r.seq = sent) \in BOOLEAN BY Zenon
    <3>2. last' = [req |-> call.req, to |-> r.to, own |-> r.seq = sent] BY <1>11, <1>4
    <3> QED BY <3>1, <3>2, <1>4 DEF Answer1
  <2>3. twin' \in BOOLEAN /\ (~twin' => ~twin /\ ~(current /\ retune2)) BY <1>1, Zenon
  <2>4. TypeOK' BY <1>1, <1>2, <1>11, <2>1, <2>2, <2>3, IdleTyped, Types, TypesNext
  <2>5. Session' /\ Calling' BY <1>1, <1>11, <2>1, <2>2, IdleTyped DEF Session, Calling, Busy
  <2>6. ASSUME ~twin', r.seq # sent
        PROVE  call.req \in RficWrites /\ r.to = call.req /\ h' = h /\ r.to = h.prfic
    <3>1. ~twin /\ ~retune2 BY <2>6, <2>3, <1>11
    <3>2. r.to = h.prfic /\ r.to # h.pretune BY <3>1, <2>6, <1>8, <1>6
    <3>3. r.to \in RficWrites BY <3>2, <1>1, <1>4 DEF Peripheral
    <3>4. call.req = r.to BY <3>3, <1>11 DEF current, Matches
    <3> QED BY <3>2, <3>3, <3>4, <2>1
  <2>7. OwnAnswer' BY <2>2, <2>6 DEF OwnAnswer
  <2>8. Accounted'
    <3> SUFFICES ASSUME Healthy' PROVE (Owned /\ Present /\ OneRetune /\ TokenFresh)'
      BY DEF Accounted
    <3>1. Present' BY <1>11, IdleTyped DEF Present
    <3>2. CASE r.seq = sent
      BY <3>1, <3>2, <1>9 DEF Owned, OneRetune, TokenFresh
    <3>3. CASE r.seq # sent
      <4>1. call.req \in RficWrites /\ h' = h /\ call.req = h.prfic /\ ~twin
        BY <3>3, <2>6, <2>3 DEF Healthy
      <4>2. \A f \in Waiting : ~Unowed(f)
        BY <4>1, <1>8, <1>1 DEF Owned, OwnTo, Unowed
      <4>3. \A f \in Waiting : f.to = h.pretune => ~Own(f)
        <5>1. \A f \in Waiting : Own(f) => f.to = call.req
          BY <4>1, <1>8, <1>1 DEF Owned, OwnTo
        <5> QED BY <5>1, <4>1, <1>1 DEF Peripheral
      <4>4. Owned' BY <4>1, <4>2, <1>2, <1>11, IdleTyped DEF Owned, Own, Unowed
      <4>5. OneRetune' /\ TokenFresh'
        BY <4>1, <4>3, <1>8, <1>2, <1>1 DEF OneRetune, TokenFresh
      <4> QED BY <3>1, <4>4, <4>5
    <3> QED BY <3>2, <3>3
  <2>9. NoFalseMismatch' /\ (gen <= opens + 1)'
    BY <1>1, <1>11 DEF Inv, NoFalseMismatch
  <2> QED BY <1>2, <2>4, <2>5, <2>7, <2>8, <2>9 DEF Inv
<1>12. CASE ~current /\ (older \/ retune2) /\ h' = AfterRetune2Match(h, r)
            /\ UNCHANGED <<call, last, why>>
  <2>1. twin' = twin BY <1>1, <1>12, Zenon
  <2>2. h' = IF retune2 THEN NoRetune(h) ELSE h
    BY <1>12 DEF AfterRetune2Match, retune2
  <2>3. /\ h' \in Peripheral /\ h'.desync = h.desync /\ h'.pread = h.pread /\ h'.gen = h.gen
        /\ h'.prfic = h.prfic /\ (retune2 => h'.pretune = None) /\ (~retune2 => h' = h)
    <3>1. None \in Retune2 \cup {None} /\ 0 \in 0..MaxOpens + 1 OBVIOUS
    <3> QED BY <3>1, <2>2, <1>1 DEF NoRetune, Peripheral
  <2>4. TypeOK' BY <1>1, <1>2, <1>12, <2>1, <2>3, Types, TypesNext
  <2>5. Session' BY <1>1, <1>12, <2>3 DEF Session
  <2>6. Calling'
    <3>1. Admitted(call.req)' BY <1>1, <1>12, <2>3 DEF Calling, Admitted
    <3> QED BY <3>1, <1>1, <1>12, <2>3, <1>4 DEF Calling, Busy
  <2>7. Accounted'
    <3> SUFFICES ASSUME Healthy' PROVE (Owned /\ Present /\ OneRetune /\ TokenFresh)'
      BY DEF Accounted
    <3>1. ~twin BY <2>1 DEF Healthy
    <3>2. Owned /\ Present /\ OneRetune /\ TokenFresh BY <3>1, <1>8
    <3>3. r.seq # sent BY <3>1, <1>8, <1>5, <1>12
    <3>4. \A f : Own(f)' <=> Own(f) BY <1>1, <1>12 DEF Own
    <3>5. ~Own(r) BY <3>3 DEF Own
    <3>6. Present' BY <3>2, <3>4, <3>5, <1>2, <1>12 DEF Present
    <3>7. ASSUME NEW f \in Waiting', retune2, ~Own(f) PROVE f.to # h.pretune
      <4>1. r.to = h.pretune BY <3>7, <3>3, <3>1, <1>8, <1>10, <1>1, <1>4 DEF Peripheral
      <4>2. f.to = h.pretune => f.seq = r.seq
        BY <4>1, <3>2, <3>5, <3>7, <1>2 DEF OneRetune
      <4> QED BY <4>2, <1>2, <1>4
    <3>8. Owned'
      BY <3>2, <3>4, <3>7, <2>3, <1>2, <1>12 DEF Owned, Unowed, OwnTo
    <3>9. OneRetune' /\ TokenFresh'
      <4>1. CASE retune2
        <5>1. h'.pretune = None BY <4>1, <2>3
        <5>2. \A f \in Waiting' : f.to # None BY <1>1, <1>2, WaitingTyped
        <5> QED BY <5>1, <5>2 DEF OneRetune, TokenFresh
      <4>2. CASE ~retune2
        BY <4>2, <3>2, <3>4, <2>3, <1>1, <1>2 DEF OneRetune, TokenFresh
      <4> QED BY <4>1, <4>2
    <3> QED BY <3>6, <3>8, <3>9
  <2>8. OwnAnswer' /\ NoFalseMismatch' /\ (gen <= opens + 1)'
    BY <1>1, <1>12, <2>1 DEF Inv, OwnAnswer, NoFalseMismatch
  <2> QED BY <1>2, <2>4, <2>5, <2>6, <2>7, <2>8 DEF Inv
<1>13. CASE ~current /\ ~older /\ ~retune2 /\ GiveUp(h, "mismatch") /\ UNCHANGED last
  <2>1. twin' = twin BY <1>1, <1>13, Zenon
  <2>2. twin BY <1>13, <1>5, <1>6, <1>7, <1>8
  <2>3. out' \in Seq(Frames) /\ sent' \in 0..MaxFrames BY <1>1, Types
  <2>4. "mismatch" \in Reasons BY DEF Reasons
  <2> QED BY <1>1, <1>2, <1>13, <2>1, <2>2, <2>3, <2>4, GivenUp
<1> QED BY <1>3, <1>11, <1>12, <1>13

LEMMA DrainInInv == ASSUME Inv, DrainIn PROVE Inv'
<1> USE Constants, Kinds
<1> DEFINE r       == Head(in)
           barrier == Matches(call.barrier, r, h.gen)
           pending == Matches(h.pread, r, h.gen)
           older   == PendingMatches(h.prfic, r, h.gen)
           retune2 == PendingMatches(h.pretune, r, h.pgen)
<1>1. /\ TypeOK /\ InOrder /\ Answered /\ Calling /\ Session /\ call.pc = "drain_in" /\ in # <<>>
      /\ in' = Tail(in) /\ UNCHANGED <<out, gen, sent, opens, last, twin>> /\ h \in Peripheral
      /\ call \in Caller
  BY Types DEF Inv, DrainIn
<1>2. /\ InOrder' /\ Answered' /\ in' \in Seq(Responses) /\ r \in Responses /\ r \in Waiting
      /\ r.gen = gen /\ r.flags \in AnswerFlags(r.to)
      /\ Waiting' \subseteq Waiting /\ Waiting = Waiting' \cup {r}
      /\ \A f \in Waiting' : r.seq < f.seq
  BY <1>1, ChannelReceive
<1>3. \/ ((pending /\ ~barrier) \/ older \/ retune2) /\ UNCHANGED <<h, call, why>>
      \/ /\ barrier /\ ~pending /\ ~older /\ ~retune2 /\ h' = [h EXCEPT !.pread = None]
         /\ call' = IF Admitted(call.req) THEN [call EXCEPT !.pc = "out"] ELSE Idle
         /\ UNCHANGED why
      \/ pending = barrier /\ ~older /\ ~retune2 /\ GiveUp(h, "mismatch")
  BY DEF DrainIn
<1>4. /\ call.req \in Requests /\ ~h.desync /\ h.pread # None /\ call.barrier = Barrier(h.pread)
      /\ r.to \in Requests /\ r.seq \in 1..MaxFrames /\ sent \in 0..MaxFrames
  BY <1>1, <1>2, Types DEF Calling, Busy, Responses
<1>5. /\ h.pread \in FixedReads /\ call.barrier \in FixedReads /\ call.barrier # h.pread
      /\ barrier <=> r.to = call.barrier
      /\ pending <=> r.to = h.pread
  <2>1. h.pread \in FixedReads BY <1>1, <1>4 DEF Peripheral
  <2>2. call.barrier \in FixedReads /\ call.barrier # h.pread
    BY <1>4 DEF Barrier, FixedReads, Reads8x32
  <2> QED BY <2>1, <2>2 DEF Matches
<1>6. r.to = h.pretune /\ ~twin => retune2
  BY <1>2, <1>4, RetuneRecognised DEF Healthy
<1>7. (r.to = h.prfic => older) /\ (older => r.to \in RficWrites) /\ (retune2 => r.to \in Retune2)
  BY <1>1, <1>4 DEF PendingMatches, Matches, Peripheral
<1>8. ~twin => /\ Owned /\ Present /\ OneRetune /\ TokenFresh
               /\ r.seq = sent => r.to = call.barrier
               /\ r.seq # sent => r.to \in {h.pread, h.prfic, h.pretune}
  BY <1>1, <1>2, <1>4 DEF Inv, Accounted, Healthy, Owned, OwnTo, Own, Unowed
<1>9. r.seq = sent => Waiting' = {}
  <2>1. \A f \in Waiting' : r.seq < f.seq /\ f.seq <= sent /\ f.seq \in 1..MaxFrames
    BY <1>1, <1>2, WaitingTyped DEF InOrder
  <2> QED BY <2>1, <1>4
<1> HIDE DEF r, barrier, pending, older, retune2
<1>10. OwnAnswer' BY <1>1 DEF Inv, OwnAnswer
<1>11. CASE ((pending /\ ~barrier) \/ older \/ retune2) /\ UNCHANGED <<h, call, why>>
  <2>1. TypeOK' BY <1>1, <1>2, <1>11, Types, TypesNext
  <2>2. Session' /\ Calling' BY <1>1, <1>11 DEF Session, Calling, Busy
  <2>3. Accounted'
    <3> SUFFICES ASSUME Healthy' PROVE (Owned /\ Present /\ OneRetune /\ TokenFresh)'
      BY DEF Accounted
    <3>1. ~twin BY <1>1 DEF Healthy
    <3>2. Owned /\ Present /\ OneRetune /\ TokenFresh BY <3>1, <1>8
    <3>3. r.seq # sent BY <3>1, <1>8, <1>5, <1>7, <1>11
    <3>4. \A f : Own(f)' <=> Own(f) BY <1>1, <1>11 DEF Own
    <3>5. ~Own(r) BY <3>3 DEF Own
    <3>6. Present' BY <3>2, <3>4, <3>5, <1>2, <1>11 DEF Present
    <3>7. Owned' BY <3>2, <3>4, <1>2, <1>11 DEF Owned, Unowed, OwnTo
    <3>8. OneRetune' /\ TokenFresh'
      BY <3>2, <3>4, <1>1, <1>2, <1>11 DEF OneRetune, TokenFresh
    <3> QED BY <3>6, <3>7, <3>8
  <2>4. NoFalseMismatch' /\ (gen <= opens + 1)' BY <1>1, <1>11 DEF Inv, NoFalseMismatch
  <2> QED BY <1>2, <1>10, <2>1, <2>2, <2>3, <2>4 DEF Inv
<1>12. CASE /\ barrier /\ ~pending /\ ~older /\ ~retune2 /\ h' = [h EXCEPT !.pread = None]
            /\ call' = IF Admitted(call.req) THEN [call EXCEPT !.pc = "out"] ELSE Idle
            /\ UNCHANGED why
  <2>1. /\ h' \in Peripheral /\ h'.desync = h.desync /\ h'.pread = None /\ h'.gen = h.gen
        /\ h'.prfic = h.prfic /\ h'.pretune = h.pretune
    BY <1>1, <1>12 DEF Peripheral
  <2>2. /\ call' \in Caller /\ call'.pc \in {"out", "idle"}
        /\ call'.pc = "out" => Admitted(call.req) /\ call'.req = call.req
    BY <1>1, <1>12, IdleTyped DEF Caller
  <2>3. TypeOK' BY <1>1, <1>2, <1>12, <2>1, <2>2, Types, TypesNext
  <2>4. Session' BY <1>1, <2>1, <2>2 DEF Session, Busy
  <2>5. Calling'
    <3>1. call'.pc = "out" => Admitted(call.req)' BY <2>1, <2>2 DEF Admitted
    <3> QED BY <3>1, <2>1, <2>2, <1>4 DEF Calling, Busy
  <2>6. Accounted'
    <3> SUFFICES ASSUME Healthy' PROVE (Owned /\ Present /\ OneRetune /\ TokenFresh)'
      BY DEF Accounted
    <3>1. ~twin BY <1>1 DEF Healthy
    <3>2. r.seq = sent BY <3>1, <1>5, <1>6, <1>7, <1>8, <1>12
    <3>3. Waiting' = {} BY <3>2, <1>9
    <3> QED BY <3>3, <2>2 DEF Owned, Present, OneRetune, TokenFresh
  <2>7. NoFalseMismatch' /\ (gen <= opens + 1)' BY <1>1, <1>12 DEF Inv, NoFalseMismatch
  <2> QED BY <1>2, <1>10, <2>3, <2>4, <2>5, <2>6, <2>7 DEF Inv
<1>13. CASE pending = barrier /\ ~older /\ ~retune2 /\ GiveUp(h, "mismatch")
  <2>1. twin BY <1>13, <1>5, <1>6, <1>7, <1>8
  <2>2. out' \in Seq(Frames) /\ sent' \in 0..MaxFrames BY <1>1, Types
  <2>3. "mismatch" \in Reasons BY DEF Reasons
  <2> QED BY <1>1, <1>2, <1>13, <2>1, <2>2, <2>3, GivenUp
<1> QED BY <1>3, <1>11, <1>12, <1>13

-----------------------------------------------------------------------------
LEMMA StepInv == ASSUME Inv, [Next]_vars PROVE Inv'
<1>1. CASE UNCHANGED vars
  <2>1. UNCHANGED <<h, call, out, in, gen, sent, opens, last, twin, why>> BY <1>1 DEF vars
  <2>2. InOrder' /\ Answered' /\ Waiting' = Waiting BY <2>1, ChannelSame DEF Inv
  <2>3. TypeOK' BY <2>1 DEF Inv, TypeOK
  <2>4. Session' /\ Calling' BY <2>1 DEF Inv, Session, Calling, Busy, Admitted
  <2>5. Accounted'
    BY <2>1, <2>2
    DEF Inv, Accounted, Healthy, Owned, Present, OneRetune, TokenFresh, Own, OwnTo, Unowed
  <2>6. OwnAnswer' /\ NoFalseMismatch' /\ (gen <= opens + 1)'
    BY <2>1 DEF Inv, OwnAnswer, NoFalseMismatch
  <2> QED BY <2>2, <2>3, <2>4, <2>5, <2>6 DEF Inv
<1>2. CASE Next
  BY <1>2, BeginInv, DrainOutInv, DrainInInv, DrainTimeoutInv, OutInv, OutFailsInv, InInv,
     InTimeoutInv, OpenInv, CloseInv, ReplugInv, AnswerInv
  DEF Next
<1> QED BY <1>1, <1>2

LEMMA Invariance == Spec => []Inv
BY InitInv, StepInv, PTL DEF Spec

-----------------------------------------------------------------------------
(* The theorems.                                                           *)

\* The peripheral state, the transaction in progress, the frames and the
\* responses keep their types, however often the device is opened and reset.
THEOREM TypeCorrect == Spec => []TypeOK
<1>1. Inv => TypeOK BY DEF Inv
<1> QED BY <1>1, Invariance, PTL

\* nios_usb_transaction() returns the answer the device gave to this very frame,
\* whatever late answers of earlier requests, timeouts, drains and reopened
\* handles came before; only the exact retry of a tagged RFIC write may be
\* certified by the answer to its first copy.
THEOREM AnswersAreOwn == Spec => []OwnAnswer
<1>1. Inv => OwnAnswer BY DEF Inv
<1> QED BY <1>1, Invariance, PTL

\* Between transactions everything still on its way belongs to an identity the
\* peripheral state remembers, also after usb_peripheral_detach() and attach.
THEOREM NothingStray == Spec => []AllAccounted
<1>1. Inv => AllAccounted
  BY DEF Inv, Accounted, Healthy, Owned, Own, AllAccounted, Waiting
<1> QED BY <1>1, Invariance, PTL

\* nios_usb_transaction() and its drain never give the channel up for a response
\* they could not place: every combination of late answers is recognised.
THEOREM EveryAnswerPlaced == Spec => []NoFalseMismatch
<1>1. Inv => NoFalseMismatch BY DEF Inv
<1> QED BY <1>1, Invariance, PTL
=============================================================================
