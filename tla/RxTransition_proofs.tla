------------------------ MODULE RxTransition_proofs ------------------------
(***************************************************************************)
(* Proofs about the RX transition of module RxTransition, for any number   *)
(* of transition callers and setters, every width of the epoch id and      *)
(* every bound:                                                            *)
(*                                                                         *)
(*   TypeCorrect      the state keeps its types,                           *)
(*   OneOwnerHolds    one transition or setter owns the configuration,     *)
(*   RevocationFirst  delivery is revoked before the RFIC is written.      *)
(*                                                                         *)
(* The last two need StreamLate = FALSE: bladerf_stream() releases the     *)
(* reservation a second time, and both fail when it does.                  *)
(***************************************************************************)
EXTENDS RxTransition, FiniteSetTheorems, TLAPS

-----------------------------------------------------------------------------
(* The shape of the state.                                                 *)

Cert == [id : 0..K, first : Nat, txn : Nat, cfg : Nat]

Handle ==
  [txn : Nat, pending : BOOLEAN, waiting : BOOLEAN, setter : BOOLEAN, contract : BOOLEAN,
   epochReq : BOOLEAN, hostReq : BOOLEAN, epoch : 0..K, certified : BOOLEAN, cert : Cert,
   reported : BOOLEAN, readback : Nat, closing : BOOLEAN, calls : Int, opened : BOOLEAN]

Call    == [at : CallAt, txn : Nat, first : Nat]
SetAt   == {"out", "revoke", "abort", "write", "release", "runs"}
Setter  == [at : SetAt, kind : Kinds]
MonitorState == [at : {"idle", "saw", "abort", "release"}, txn : Nat, id : 0..K]
GateAt  == {"ACTIVE", "PENDING", "WAIT", "ACTIVE_NEW", "ERROR"}
Commands == {"arm", "complete", "abort"}
GateState == [st : GateAt, id : 0..K, cmd : SUBSET Commands, cmdId : 0..K, first : Nat,
              link : BOOLEAN]
Message == [st : {"none", "open", "short", "full"}, id : 0..K, ts : Nat, has : SUBSET Int]
Buffer  == [at : {"idle", "parsed"}, has : SUBSET Int, id : 0..K, first : Nat, ok : BOOLEAN]
Used    == [ops : Nat, trouble : Nat, opens : Nat]

Shape ==
  /\ h \in Handle
  /\ call \in [Callers -> Call]
  /\ set \in [Setters -> Setter]
  /\ mon \in MonitorState
  /\ gate \in GateState
  /\ rf \in Nat
  /\ msg \in Message
  /\ rx \in Buffer
  /\ ts \in Nat
  /\ used \in Used

LEMMA Constants ==
  K \in Nat /\ K > 0 /\ StreamLate \in BOOLEAN /\ IsFiniteSet(Callers)
BY TransitionAssumption DEF TransitionAssumption

LEMMA ShapeInit == Init => Shape
<1> SUFFICES ASSUME Init PROVE Shape OBVIOUS
<1> USE Constants
<1>1. h \in Handle BY DEF Init, NewHandle, NoCert, Handle, Cert
<1>2. call \in [Callers -> Call] BY DEF Init, Idle, Call, CallAt
<1>3. set \in [Setters -> Setter] BY DEF Init, Setter, SetAt, Kinds
<1>4. mon \in MonitorState BY DEF Init, MonitorState
<1>5. gate \in GateState BY DEF Init, GateState, GateAt
<1>6. msg \in Message BY DEF Init, NoMsg, Message
<1>7. rx \in Buffer BY DEF Init, NoBuffer, Buffer
<1>8. used \in Used BY DEF Init, Used
<1> QED BY <1>1, <1>2, <1>3, <1>4, <1>5, <1>6, <1>7, <1>8 DEF Init, Shape

LEMMA ToggledShape ==
  ASSUME gate \in GateState, NEW c \in Commands, NEW id \in 0..K, Toggled(c, id)
  PROVE  gate' \in GateState
BY DEF Toggled, GateState

LEMMA CommandFailsShape ==
  ASSUME gate \in GateState, used \in Used, NEW c \in Commands, NEW id \in 0..K,
         CommandFails(c, id)
  PROVE  gate' \in GateState /\ used' \in Used
BY ToggledShape DEF CommandFails, Used

LEMMA FailsShape ==
  ASSUME used \in Used, Fails PROVE used' \in Used
BY DEF Fails, Used

LEMMA GoesShape ==
  ASSUME call \in [Callers -> Call], NEW c \in Callers, NEW at \in CallAt, Goes(c, at)
  PROVE  call' \in [Callers -> Call]
BY DEF Goes, Call

LEMMA EndsShape ==
  ASSUME call \in [Callers -> Call], NEW c \in Callers, Ends(c)
  PROVE  call' \in [Callers -> Call]
BY DEF Ends, Idle, Call, CallAt

LEMMA RevokedShape ==
  ASSUME h \in Handle PROVE Revoked \in Handle
<1>1. NoCert \in Cert BY Constants DEF NoCert, Cert
<1> QED BY <1>1 DEF Revoked, Handle

LEMMA LeavesShape ==
  ASSUME NEW hh \in Handle PROVE Leaves(hh) \in Handle
BY DEF Leaves, Handle

LEMMA FpgaShape ==
  ASSUME Shape, Fpga PROVE Shape'
<1> USE DEF Shape
<1>0. Interrupted \in Message BY DEF Interrupted, Message
<1>1. CASE GatePulse
  <2> DEFINE st == IF "abort" \in gate.cmd THEN "ERROR"
                   ELSE IF "arm" \in gate.cmd THEN "PENDING"
                   ELSE IF gate.st = "PENDING" THEN "WAIT" ELSE gate.st
             id == IF "arm" \in gate.cmd /\ "abort" \notin gate.cmd
                   THEN gate.cmdId ELSE gate.id
  <2>2. st \in GateAt /\ id \in 0..K BY DEF GateState, GateAt
  <2>3. gate' = [gate EXCEPT !.cmd = {}, !.cmdId = 0, !.st = st, !.id = id]
    BY <1>1 DEF GatePulse
  <2> HIDE DEF st, id
  <2>4. {} \in SUBSET Commands /\ 0 \in 0..K BY Constants
  <2>1. gate' \in GateState BY <2>2, <2>3, <2>4 DEF GateState
  <2> QED BY <1>0, <1>1, <2>1 DEF GatePulse
<1>2. CASE GateSettles
  BY <1>2 DEF GateSettles, GateState, GateAt
<1>3. CASE GateFaults
  BY <1>0, <1>3 DEF GateFaults, GateState, GateAt, Used
<1>4. CASE GateResets
  <2>1. ResetGate \in GateState BY Constants DEF ResetGate, GateState, GateAt
  <2>2. NoMsg \in Message BY Constants DEF NoMsg, Message
  <2> QED BY <1>4, <2>1, <2>2 DEF GateResets, Used
<1>5. CASE Sample
  <2>1. Forwarded \in Int BY DEF Forwarded, Zero
  <2>4. PICK now \in {IF gate.st = "WAIT" THEN ts + 1 ELSE ts} :
         /\ ts' = now
         /\ gate' = IF gate.st = "WAIT"
                    THEN [gate EXCEPT !.st = "ACTIVE_NEW", !.first = now] ELSE gate
         /\ \/ msg.st \in {"short", "full"} /\ UNCHANGED msg
            \/ msg' = [st |-> "open", id |-> gate.id, ts |-> now, has |-> {Forwarded}]
            \/ msg' = [msg EXCEPT !.st = "full", !.has = @ \cup {Forwarded}]
    BY <1>5 DEF Sample
  <2>5. now \in Nat OBVIOUS
  <2>2. gate' \in GateState /\ ts' \in Nat
    BY <2>4, <2>5 DEF GateState, GateAt
  <2>6. gate.id \in 0..K BY DEF GateState
  <2>3. msg' \in Message
    <3> DEFINE more == msg.has \cup {Forwarded}
               one  == {Forwarded}
    <3>1. more \in SUBSET Int /\ one \in SUBSET Int BY <2>1 DEF Message
    <3>2. \/ UNCHANGED msg
          \/ msg' = [st |-> "open", id |-> gate.id, ts |-> now, has |-> one]
          \/ msg' = [msg EXCEPT !.st = "full", !.has = more]
      BY <2>4
    <3> HIDE DEF more, one
    <3>3. CASE msg' = [st |-> "open", id |-> gate.id, ts |-> now, has |-> one]
      BY <2>5, <2>6, <3>1, <3>3 DEF Message
    <3>4. CASE msg' = [msg EXCEPT !.st = "full", !.has = more]
      BY <3>1, <3>4 DEF Message
    <3> QED BY <3>2, <3>3, <3>4
  <2> QED BY <1>5, <2>2, <2>3 DEF Sample
<1>6. CASE Pad
  <2> DEFINE z == msg.has \cup {Zero}
  <2>1. z \in SUBSET Int BY DEF Zero, Message
  <2>3. msg' = [msg EXCEPT !.st = "full", !.has = z] BY <1>6 DEF Pad
  <2> HIDE DEF z
  <2>2. msg' \in Message BY <2>1, <2>3 DEF Message
  <2> QED BY <1>6, <2>2 DEF Pad
<1> QED BY <1>1, <1>2, <1>3, <1>4, <1>5, <1>6 DEF Fpga

LEMMA ReaderShape ==
  ASSUME Shape, Reader PROVE Shape'
<1> USE DEF Shape
<1>1. NoMsg \in Message BY Constants DEF NoMsg, Message
<1>2. CASE RxTake
  <2>1. rx' \in Buffer BY <1>2 DEF RxTake, Buffer, Handle, Cert, Message
  <2> QED BY <1>1, <1>2, <2>1 DEF RxTake
<1>3. CASE RxPass BY <1>1, <1>3 DEF RxPass
<1>4. CASE RxCommit
  <2> DEFINE ok == rx.ok /\ (SnapshotIsCurrent => rx.has = {h.cert.cfg})
  <2>3. ok \in BOOLEAN BY Zenon
  <2>4. rx' = [NoBuffer EXCEPT !.ok = ok] BY <1>4 DEF RxCommit
  <2> HIDE DEF ok
  <2>1. rx' \in Buffer BY <2>3, <2>4, Constants DEF NoBuffer, Buffer
  <2>2. h' \in Handle BY <1>4 DEF RxCommit, Handle
  <2> QED BY <1>4, <2>1, <2>2 DEF RxCommit
<1> QED BY <1>2, <1>3, <1>4 DEF Reader

LEMMA BeginShape ==
  ASSUME Shape, NEW c \in Callers,
         \/ EnterBegin(c) \/ BeginRefused(c)
         \/ \E e, d \in BOOLEAN : BeginAccept(c, e, d)
         \/ BeginRevoke(c) \/ BeginPrepare(c) \/ BeginDrain(c) \/ BeginArm(c)
         \/ BeginFence(c) \/ BeginTune(c) \/ BeginReadback(c)
  PROVE  Shape'
<1> USE DEF Shape
<1>0. \A id \in 0..K : NextEpoch(id) \in 0..K BY Constants DEF NextEpoch
<1>1. CASE EnterBegin(c)
  <2>1. h' \in Handle BY <1>1 DEF EnterBegin, Handle
  <2>2. used' \in Used BY <1>1 DEF EnterBegin, Used
  <2>3. call' \in [Callers -> Call] BY <1>1, GoesShape DEF EnterBegin, CallAt
  <2> QED BY <1>1, <2>1, <2>2, <2>3 DEF EnterBegin
<1>2. CASE BeginRefused(c)
  <2>1. h' \in Handle BY <1>2, LeavesShape DEF BeginRefused
  <2> QED BY <1>2, <2>1, EndsShape DEF BeginRefused
<1>3. ASSUME NEW e \in BOOLEAN, NEW d \in BOOLEAN, BeginAccept(c, e, d)
      PROVE  Shape'
  <2>1. h' \in Handle
    <3> DEFINE x == h.contract \/ e
               y == IF e THEN FALSE ELSE h.reported
               n == h.txn + 1
    <3>0. e \in BOOLEAN /\ d \in BOOLEAN BY <1>3
    <3>3. h.reported \in BOOLEAN /\ n \in Nat BY DEF Handle
    <3>1. x \in BOOLEAN /\ y \in BOOLEAN BY <3>3, Zenon
    <3> DEFINE g == [h EXCEPT !.txn = n, !.pending = TRUE, !.waiting = FALSE,
                              !.epochReq = e]
    <3>2. h' = [g EXCEPT !.hostReq = d, !.readback = 0, !.contract = x, !.reported = y]
      BY <1>3 DEF BeginAccept
    <3> HIDE DEF x, y, n
    <3>4. g \in Handle BY <3>0, <3>3 DEF Handle
    <3> HIDE DEF g
    <3> QED BY <3>0, <3>1, <3>2, <3>4 DEF Handle
  <2>2. call' \in [Callers -> Call]
    <3>1. h.txn + 1 \in Nat BY DEF Handle
    <3>2. [call[c] EXCEPT !.at = "revoke", !.txn = h.txn + 1] \in Call
      BY <3>1 DEF Call, CallAt
    <3>3. call' = [call EXCEPT ![c] = [call[c] EXCEPT !.at = "revoke", !.txn = h.txn + 1]]
      BY <1>3 DEF BeginAccept
    <3> QED BY <3>2, <3>3
  <2> QED BY <1>3, <2>1, <2>2 DEF BeginAccept
<1>4. CASE BeginRevoke(c)
  <2>1. h' \in Handle BY <1>4, RevokedShape DEF BeginRevoke
  <2>2. used' \in Used BY <1>4, FailsShape DEF BeginRevoke
  <2>3. call' \in [Callers -> Call] BY <1>4, GoesShape DEF BeginRevoke, CallAt
  <2> QED BY <1>4, <2>1, <2>2, <2>3 DEF BeginRevoke
<1>5. CASE BeginPrepare(c)
  <2>1. h' \in Handle BY <1>0, <1>5 DEF BeginPrepare, Handle, GateState
  <2>2. used' \in Used /\ gate' \in GateState
    BY <1>5, ToggledShape, CommandFailsShape, Constants DEF BeginPrepare, Commands
  <2>3. call' \in [Callers -> Call] BY <1>5, GoesShape DEF BeginPrepare, CallAt
  <2> QED BY <1>5, <2>1, <2>2, <2>3 DEF BeginPrepare
<1>6. CASE BeginDrain(c)
  <2>1. h' \in Handle BY <1>0, <1>6 DEF BeginDrain, Handle, GateState
  <2>3. call' \in [Callers -> Call] BY <1>6, GoesShape DEF BeginDrain, CallAt
  <2> QED BY <1>6, <2>1, <2>3 DEF BeginDrain
<1>7. CASE BeginArm(c)
  <2>1. h.epoch \in 0..K BY DEF Handle
  <2>2. used' \in Used /\ gate' \in GateState
    BY <1>7, <2>1, ToggledShape, CommandFailsShape DEF BeginArm, Commands
  <2>3. call' \in [Callers -> Call] BY <1>7, GoesShape DEF BeginArm, CallAt
  <2> QED BY <1>7, <2>2, <2>3 DEF BeginArm
<1>8. CASE BeginFence(c)
  <2>3. call' \in [Callers -> Call] BY <1>8, GoesShape DEF BeginFence, CallAt
  <2> QED BY <1>8, <2>3 DEF BeginFence
<1>9. CASE BeginTune(c)
  <2>1. h' \in Handle
    <3>1. CASE UNCHANGED h BY <3>1
    <3>2. ASSUME NEW q \in BOOLEAN, h' = [h EXCEPT !.setter = q /\ @] PROVE h' \in Handle
      <4> DEFINE x == q /\ h.setter
      <4>1. x \in BOOLEAN /\ h' = [h EXCEPT !.setter = x] BY <3>2
      <4> HIDE DEF x
      <4> QED BY <4>1 DEF Handle
    <3> QED BY <1>9, <3>1, <3>2 DEF BeginTune
  <2>2. used' \in Used /\ rf' \in Nat BY <1>9, FailsShape DEF BeginTune
  <2>3. call' \in [Callers -> Call] BY <1>9, GoesShape DEF BeginTune, CallAt
  <2> QED BY <1>9, <2>1, <2>2, <2>3 DEF BeginTune
<1>10. CASE BeginReadback(c)
  <2>1. h' \in Handle
    <3>1. [h EXCEPT !.readback = rf] \in Handle BY DEF Handle
    <3> QED BY <1>10, <3>1, LeavesShape DEF BeginReadback
  <2>2. used' \in Used BY <1>10, FailsShape DEF BeginReadback
  <2>3. call' \in [Callers -> Call] BY <1>10, GoesShape, EndsShape DEF BeginReadback, CallAt
  <2> QED BY <1>10, <2>1, <2>2, <2>3 DEF BeginReadback
<1> QED BY <1>1, <1>2, <1>3, <1>4, <1>5, <1>6, <1>7, <1>8, <1>9, <1>10

LEMMA OverShape ==
  ASSUME h \in Handle
  PROVE  Leaves([h EXCEPT !.pending = FALSE, !.waiting = FALSE, !.setter = FALSE]) \in Handle
<1>1. [h EXCEPT !.pending = FALSE, !.waiting = FALSE, !.setter = FALSE] \in Handle
  BY DEF Handle
<1> QED BY <1>1, LeavesShape

LEMMA WaitShape ==
  ASSUME Shape, NEW c \in Callers,
         \/ \E t \in 1..h.txn : EnterWait(c, t)
         \/ WaitJoin(c) \/ WaitPoll(c) \/ WaitComplete(c) \/ WaitOpen(c) \/ WaitStamp(c)
         \/ WaitLink(c) \/ WaitCertify(c) \/ WaitData(c) \/ WaitCommit(c)
         \/ FailRevoke(c) \/ FailAbort(c) \/ FailClear(c)
         \/ ReadFails(c) \/ DeadlinePasses(c)
  PROVE  Shape'
<1> USE DEF Shape
<1>1. ASSUME NEW t \in 1..h.txn, EnterWait(c, t) PROVE Shape'
  <2>4. h' = [h EXCEPT !.calls = @ + 1] BY <1>1 DEF EnterWait
  <2>1. h' \in Handle BY <2>4 DEF Handle
  <2>2. t \in Nat BY <1>1 DEF Handle
  <2>3. call' \in [Callers -> Call]
    <3>1. [call[c] EXCEPT !.at = "join", !.txn = t] \in Call BY <2>2 DEF Call, CallAt
    <3>2. call' = [call EXCEPT ![c] = [call[c] EXCEPT !.at = "join", !.txn = t]]
      BY <1>1 DEF EnterWait
    <3> QED BY <3>1, <3>2
  <2> QED BY <1>1, <2>1, <2>3 DEF EnterWait
<1>2. CASE WaitJoin(c)
  <2>1. h' \in Handle
    <3>1. [h EXCEPT !.waiting = TRUE] \in Handle BY DEF Handle
    <3> QED BY <1>2, <3>1, LeavesShape DEF WaitJoin
  <2>2. call' \in [Callers -> Call] BY <1>2, GoesShape, EndsShape DEF WaitJoin, CallAt
  <2> QED BY <1>2, <2>1, <2>2 DEF WaitJoin
<1>3. CASE WaitPoll(c)
  <2>1. call' \in [Callers -> Call] BY <1>3, GoesShape DEF WaitPoll, CallAt
  <2> QED BY <1>3, <2>1 DEF WaitPoll
<1>4. CASE WaitComplete(c)
  <2>1. used' \in Used /\ gate' \in GateState
    BY <1>4, ToggledShape, CommandFailsShape, Constants DEF WaitComplete, Commands
  <2>2. call' \in [Callers -> Call] BY <1>4, GoesShape DEF WaitComplete, CallAt
  <2> QED BY <1>4, <2>1, <2>2 DEF WaitComplete
<1>5. CASE WaitOpen(c)
  <2>1. call' \in [Callers -> Call] BY <1>5, GoesShape DEF WaitOpen, CallAt
  <2> QED BY <1>5, <2>1 DEF WaitOpen
<1>6. CASE WaitStamp(c)
  <2>1. gate.first \in Nat BY DEF GateState
  <2>2. [call[c] EXCEPT !.at = "link", !.first = gate.first] \in Call
    BY <2>1 DEF Call, CallAt
  <2>3. call' = [call EXCEPT ![c] = [call[c] EXCEPT !.at = "link", !.first = gate.first]]
    BY <1>6 DEF WaitStamp
  <2> QED BY <1>6, <2>2, <2>3 DEF WaitStamp
<1>7. CASE WaitLink(c)
  <2>1. call' \in [Callers -> Call] BY <1>7, GoesShape DEF WaitLink, CallAt
  <2> QED BY <1>7, <2>1 DEF WaitLink
<1>8. CASE WaitCertify(c)
  <2>1. h' \in Handle
    <3> DEFINE ct == [id |-> h.epoch, first |-> call[c].first,
                      txn |-> call[c].txn, cfg |-> h.readback]
    <3>1. ct \in Cert BY DEF Cert, Handle, Call
    <3>2. h' = [h EXCEPT !.certified = TRUE, !.reported = FALSE, !.cert = ct]
      BY <1>8 DEF WaitCertify, Certified
    <3> HIDE DEF ct
    <3> QED BY <3>1, <3>2 DEF Handle
  <2>2. call' \in [Callers -> Call]
    <3> DEFINE at == IF h.hostReq THEN "data" ELSE "commit"
    <3>1. at \in CallAt BY DEF CallAt
    <3>2. call' = [call EXCEPT ![c] = [call[c] EXCEPT !.at = at, !.first = 0]]
      BY <1>8 DEF WaitCertify
    <3> HIDE DEF at
    <3>3. [call[c] EXCEPT !.at = at, !.first = 0] \in Call BY <3>1 DEF Call
    <3> QED BY <3>2, <3>3
  <2> QED BY <1>8, <2>1, <2>2 DEF WaitCertify
<1>9. CASE WaitData(c)
  <2>1. call' \in [Callers -> Call] BY <1>9, GoesShape DEF WaitData, CallAt
  <2> QED BY <1>9, <2>1 DEF WaitData
<1>10. CASE WaitCommit(c)
  <2>1. call' \in [Callers -> Call] BY <1>10, GoesShape, EndsShape DEF WaitCommit, CallAt
  <2> QED BY <1>10, <2>1, OverShape DEF WaitCommit
<1>11. CASE FailRevoke(c)
  <2>1. call' \in [Callers -> Call] BY <1>11, GoesShape DEF FailRevoke, CallAt
  <2> QED BY <1>11, <2>1, RevokedShape DEF FailRevoke
<1>12. CASE FailAbort(c)
  <2>1. used' \in Used /\ gate' \in GateState
    BY <1>12, ToggledShape, CommandFailsShape, Constants DEF FailAbort, Commands
  <2>2. call' \in [Callers -> Call] BY <1>12, GoesShape DEF FailAbort, CallAt
  <2> QED BY <1>12, <2>1, <2>2 DEF FailAbort
<1>13. CASE FailClear(c)
  BY <1>13, OverShape, EndsShape DEF FailClear
<1>14. CASE ReadFails(c)
  <2>1. call' \in [Callers -> Call] BY <1>14, GoesShape DEF ReadFails, CallAt
  <2> QED BY <1>14, <2>1, FailsShape DEF ReadFails
<1>15. CASE DeadlinePasses(c)
  <2>1. call' \in [Callers -> Call] BY <1>15, GoesShape DEF DeadlinePasses, CallAt
  <2> QED BY <1>15, <2>1 DEF DeadlinePasses
<1> QED BY <1>1, <1>2, <1>3, <1>4, <1>5, <1>6, <1>7, <1>8, <1>9, <1>10, <1>11, <1>12,
           <1>13, <1>14, <1>15

LEMMA SetterShape ==
  ASSUME Shape, NEW s \in Setters, (\E k \in Kinds : Reserve(s, k)) \/ SetSteps(s)
  PROVE  Shape'
<1> USE DEF Shape
<1>0. \A v \in Setter : [set EXCEPT ![s] = v] \in [Setters -> Setter] OBVIOUS
<1>1. \A at \in SetAt : [set[s] EXCEPT !.at = at] \in Setter BY DEF Setter
<1>2. [at |-> "out", kind |-> "setter"] \in Setter BY DEF Setter, SetAt, Kinds
<1>3. ASSUME NEW k \in Kinds, Reserve(s, k) PROVE Shape'
  <2>1. [at |-> "revoke", kind |-> k] \in Setter BY <1>3 DEF Setter, SetAt
  <2>2. h' \in Handle BY <1>3 DEF Reserve, Handle
  <2>3. used' \in Used BY <1>3 DEF Reserve, Used
  <2> QED BY <1>0, <1>3, <2>1, <2>2, <2>3 DEF Reserve
<1>4. CASE SetRevoke(s)
  <2>1. [Revoked EXCEPT !.setter = FALSE] \in Handle BY RevokedShape DEF Handle
  <2>2. h' \in Handle BY <1>4, <2>1, RevokedShape DEF SetRevoke
  <2>3. set' \in [Setters -> Setter] BY <1>0, <1>1, <1>2, <1>4 DEF SetRevoke, SetAt
  <2> QED BY <1>4, <2>2, <2>3, FailsShape DEF SetRevoke
<1>5. CASE SetAbort(s)
  <2>1. used' \in Used /\ gate' \in GateState
    BY <1>5, ToggledShape, CommandFailsShape, Constants DEF SetAbort, Commands
  <2>2. set' \in [Setters -> Setter] BY <1>0, <1>1, <1>2, <1>5 DEF SetAbort, SetAt
  <2>3. h' \in Handle BY <1>5 DEF SetAbort, Handle
  <2> QED BY <1>5, <2>1, <2>2, <2>3 DEF SetAbort
<1>6. CASE SetWrite(s)
  <2>1. ResetGate \in GateState BY Constants DEF ResetGate, GateState, GateAt
  <2>2. [ResetGate EXCEPT !.link = TRUE] \in GateState BY <2>1 DEF GateState
  <2>3. [gate EXCEPT !.link = TRUE] \in GateState BY DEF GateState
  <2>4. gate' \in GateState BY <1>6, <2>2, <2>3 DEF SetWrite
  <2>5. NoMsg \in Message BY Constants DEF NoMsg, Message
  <2>6. msg' \in Message BY <1>6, <2>5 DEF SetWrite
  <2>7. set' \in [Setters -> Setter] BY <1>0, <1>1, <1>6 DEF SetWrite, SetAt
  <2>8. rf' \in Nat BY <1>6 DEF SetWrite
  <2> QED BY <1>6, <2>4, <2>6, <2>7, <2>8 DEF SetWrite
<1>7. CASE SetRelease(s)
  <2>1. set' \in [Setters -> Setter] BY <1>0, <1>1, <1>2, <1>7 DEF SetRelease, SetAt
  <2>2. h' \in Handle BY <1>7 DEF SetRelease, Handle
  <2> QED BY <1>7, <2>1, <2>2 DEF SetRelease
<1>8. CASE StreamReturns(s)
  <2>1. h' \in Handle BY <1>8 DEF StreamReturns, Handle
  <2> QED BY <1>0, <1>2, <1>8, <2>1 DEF StreamReturns
<1> QED BY <1>3, <1>4, <1>5, <1>6, <1>7, <1>8 DEF SetSteps

LEMMA MonitorShape ==
  ASSUME Shape, Monitor \/ MonSeesFault PROVE Shape'
<1> USE DEF Shape
<1>1. MonObserve => mon' \in MonitorState
  BY DEF MonObserve, MonitorState, Handle, Cert
<1>2. CASE MonSeesLoss BY <1>1, <1>2 DEF MonSeesLoss, MonObserve
<1>3. CASE MonSeesFault
  <2>1. used' \in Used BY <1>3 DEF MonSeesFault, Used
  <2> QED BY <1>1, <1>3, <2>1 DEF MonSeesFault, MonObserve
<1>4. [at |-> "idle", txn |-> 0, id |-> 0] \in MonitorState BY Constants DEF MonitorState
<1>5. CASE MonInvalidate
  <2>1. [Revoked EXCEPT !.setter = TRUE] \in Handle BY RevokedShape DEF Handle
  <2>2. [mon EXCEPT !.at = "abort"] \in MonitorState BY DEF MonitorState
  <2> QED BY <1>4, <1>5, <2>1, <2>2 DEF MonInvalidate
<1>6. CASE MonAbort
  <2>1. used' \in Used /\ gate' \in GateState
    BY <1>6, ToggledShape, CommandFailsShape, Constants DEF MonAbort, Commands
  <2>2. mon' \in MonitorState BY <1>6 DEF MonAbort, MonitorState
  <2> QED BY <1>6, <2>1, <2>2 DEF MonAbort
<1>7. CASE MonRelease
  <2>1. h' \in Handle BY <1>7 DEF MonRelease, Handle
  <2> QED BY <1>4, <1>7, <2>1 DEF MonRelease
<1> QED BY <1>2, <1>3, <1>5, <1>6, <1>7 DEF Monitor

LEMMA CloseShape ==
  ASSUME Shape, CloseAsk \/ CloseDone \/ Reopen PROVE Shape'
<1> USE DEF Shape
<1>1. CASE CloseAsk
  <2>1. h' \in Handle BY <1>1 DEF CloseAsk, Handle
  <2> QED BY <1>1, <2>1 DEF CloseAsk
<1>2. CASE CloseDone
  <2>1. h' \in Handle BY <1>2 DEF CloseDone, Handle
  <2> QED BY <1>2, <2>1 DEF CloseDone
<1>3. CASE Reopen
  <2>1. h' \in Handle BY <1>3, Constants DEF Reopen, NewHandle, NoCert, Handle, Cert
  <2>2. call' \in [Callers -> Call] BY <1>3 DEF Reopen, Idle, Call, CallAt
  <2>3. msg' \in Message BY <1>3, Constants DEF Reopen, NoMsg, Message
  <2>4. rx' \in Buffer BY <1>3, Constants DEF Reopen, NoBuffer, Buffer
  <2>5. used' \in Used BY <1>3 DEF Reopen, Used
  <2> QED BY <1>3, <2>1, <2>2, <2>3, <2>4, <2>5 DEF Reopen
<1> QED BY <1>1, <1>2, <1>3

LEMMA ShapeStep ==
  ASSUME Shape, [Next]_vars PROVE Shape'
<1>1. CASE UNCHANGED vars BY <1>1 DEF vars, Shape
<1>2. CASE Next
  BY <1>2, FpgaShape, ReaderShape, BeginShape, WaitShape, SetterShape, MonitorShape,
     CloseShape DEF Next, CallSteps
<1> QED BY <1>1, <1>2

-----------------------------------------------------------------------------
(* Who holds the configuration.                                            *)

Beginning == {"revoke", "prepare", "drain", "arm", "fence", "tune", "back"}
Waiting   == {"poll", "complete", "open", "stamp", "link", "certify", "data", "commit"}
Failing   == {"fail", "abort", "clear"}

\* A call between the acceptance of a transition and its end.
Holds(c)    == call[c].at \in Beginning \cup Waiting \cup Failing
\* A setter, a stream start or a capture close with the reservation.
Reserved(s) == set[s].at \in {"revoke", "abort", "write", "release"}
MonHolds    == mon.at \in {"abort", "release"}
\* No call works on the transition: between begin and wait, or none is pending.
Free        == \A c \in Callers : ~ Holds(c)

\* The reservation flag is up as long as anybody relies on it, one owner at a time.
\* A closing handle has no setter left, and a closed one no monitor.
Exclusive ==
  /\ \A s \in Setters : Reserved(s) => h.setter /\ ~ h.pending /\ ~ MonHolds
  /\ \A s, t \in Setters : Reserved(s) /\ Reserved(t) => s = t
  /\ MonHolds => h.setter /\ ~ h.pending
  /\ h.closing => \A s \in Setters : set[s].at = "out"
  /\ ~ h.opened => h.closing /\ mon.at = "idle"

\* A pending transition has at most one call that works on it: its begin, and
\* after that one wait.
OneHolder ==
  /\ h.waiting => h.pending
  /\ \A c \in Callers : Holds(c) => h.pending /\ call[c].txn = h.txn
  /\ \A c, d \in Callers : Holds(c) /\ Holds(d) => c = d
  /\ \A c \in Callers : call[c].at \in Beginning => ~ h.waiting
  /\ \A c \in Callers : call[c].at \in Waiting => h.waiting
  /\ \A c, d \in Callers :
       call[c].at = "join" /\ Holds(d) /\ ~ h.waiting => call[c].txn # h.txn
  /\ \A c \in Callers : call[c].txn <= h.txn

\* What the two invariants above depend on.
LEMMA HolderFrame ==
  ASSUME OneHolder, call' = call,
         h'.txn = h.txn, h'.pending = h.pending, h'.waiting = h.waiting
  PROVE  OneHolder'
BY DEF OneHolder, Holds

LEMMA ExclusiveFrame ==
  ASSUME Exclusive, set' = set, mon' = mon,
         h'.setter = h.setter, h'.pending = h.pending, h'.closing = h.closing,
         h'.opened = h.opened
  PROVE  Exclusive'
BY DEF Exclusive, Reserved, MonHolds

\* What a step of one call does to the calls.
LEMMA GoesTo ==
  ASSUME call \in [Callers -> Call], NEW c \in Callers, NEW at, Goes(c, at)
  PROVE  /\ call'[c].at = at /\ call'[c].txn = call[c].txn /\ call'[c].first = call[c].first
         /\ \A d \in Callers \ {c} : call'[d] = call[d]
BY DEF Goes, Call

LEMMA EndsCall ==
  ASSUME call \in [Callers -> Call], NEW c \in Callers, Ends(c)
  PROVE  /\ call'[c].at = "out" /\ call'[c].txn = 0 /\ call'[c].first = 0
         /\ \A d \in Callers \ {c} : call'[d] = call[d]
BY DEF Ends, Idle

\* The holder of the transition goes on, or the call has nothing to do with it.
LEMMA HolderMoves ==
  ASSUME Shape, OneHolder, NEW c \in Callers, NEW at,
         call'[c].at = at, call'[c].txn = call[c].txn,
         \A d \in Callers \ {c} : call'[d] = call[d],
         h'.txn = h.txn, h'.pending = h.pending, h'.waiting = h.waiting,
         Holds(c),
         \/ call[c].at \in Beginning /\ at \in Beginning
         \/ call[c].at \in Waiting /\ at \in Waiting
         \/ at \in Failing
  PROVE  OneHolder'
<1>1. \A d \in Callers : Holds(d) => d = c BY DEF OneHolder
<1>2. \A d \in Callers : Holds(d)' => d = c
  BY <1>1 DEF Holds
<1>3. call[c].txn = h.txn /\ h.pending BY DEF OneHolder
<1>4. \A d \in Callers : call'[d].txn = call[d].txn BY Zenon
<1>5. \A d \in Callers : call'[d].at = "join" => call[d].at = "join"
  BY DEF Beginning, Waiting, Failing
<1>6. call'[c].at \in Beginning => ~ h'.waiting
  BY DEF OneHolder, Beginning, Waiting, Failing
<1>7. call'[c].at \in Waiting => h'.waiting
  BY DEF OneHolder, Beginning, Waiting, Failing
<1>8. \A d \in Callers \ {c} : ~ Holds(d) BY <1>1
<1> QED BY <1>1, <1>2, <1>3, <1>4, <1>5, <1>6, <1>7, <1>8 DEF OneHolder, Holds

\* The holder ends the transition, or a begin returns and leaves it pending.
LEMMA HolderLeaves ==
  ASSUME Shape, OneHolder, NEW c \in Callers, Holds(c), Ends(c),
         h'.txn = h.txn,
         \/ h'.pending = h.pending /\ h'.waiting = h.waiting
         \/ h'.pending = FALSE /\ h'.waiting = FALSE
  PROVE  OneHolder' /\ Free'
<1>0. call \in [Callers -> Call] /\ h \in Handle BY DEF Shape
<1>1. /\ call'[c].at = "out" /\ call'[c].txn = 0
      /\ \A d \in Callers \ {c} : call'[d] = call[d]
  BY <1>0, EndsCall
<1>2. \A d \in Callers : ~ Holds(d)'
  <2>1. ~ Holds(c)' BY <1>1 DEF Holds, Beginning, Waiting, Failing
  <2>2. \A d \in Callers \ {c} : ~ Holds(d) BY DEF OneHolder
  <2> QED BY <1>1, <2>1, <2>2 DEF Holds
<1>3. \A d \in Callers : call'[d].txn <= h'.txn
  BY <1>0, <1>1 DEF OneHolder, Handle
<1>4. \A d \in Callers : call'[d].at \notin Beginning \cup Waiting
  BY <1>2 DEF Holds
<1>5. h'.waiting => h'.pending BY DEF OneHolder
<1> QED BY <1>2, <1>3, <1>4, <1>5 DEF OneHolder, Free, Holds

\* A call that holds nothing goes where it still holds nothing.
LEMMA BystanderMoves ==
  ASSUME Shape, OneHolder, NEW c \in Callers, NEW at \in {"out", "check"}, ~ Holds(c),
         call'[c].at = at, call'[c].txn <= h.txn,
         \A d \in Callers \ {c} : call'[d] = call[d],
         h'.txn = h.txn, h'.pending = h.pending, h'.waiting = h.waiting
  PROVE  OneHolder'
<1>1. \A d \in Callers : Holds(d)' => Holds(d) /\ d # c
  BY DEF Holds, Beginning, Waiting, Failing
<1>2. \A d \in Callers : Holds(d)' => call'[d] = call[d]
  BY <1>1
<1>3. \A d \in Callers : call'[d].at \in Beginning \cup Waiting \cup {"join"} => d # c
  BY DEF Beginning, Waiting
<1>4. \A d \in Callers : call'[d].txn <= h'.txn BY DEF OneHolder
<1> QED BY <1>1, <1>2, <1>3, <1>4 DEF OneHolder

\* Two handles that differ in the certificate, the report and the call count only.
SameConfig(a, b) ==
  /\ a.txn = b.txn /\ a.pending = b.pending /\ a.waiting = b.waiting
  /\ a.setter = b.setter /\ a.contract = b.contract /\ a.epochReq = b.epochReq
  /\ a.hostReq = b.hostReq /\ a.epoch = b.epoch /\ a.readback = b.readback
  /\ a.closing = b.closing /\ a.opened = b.opened

SameCert(a, b) == a.certified = b.certified /\ a.cert = b.cert

LEMMA RevokedFields ==
  ASSUME h \in Handle
  PROVE  SameConfig(Revoked, h) /\ Revoked.certified = FALSE /\ Revoked.calls = h.calls
BY DEF Handle, Revoked, SameConfig

LEMMA LeavesFields ==
  ASSUME NEW hh \in Handle
  PROVE  /\ SameConfig(Leaves(hh), hh) /\ SameCert(Leaves(hh), hh)
         /\ Leaves(hh).calls = hh.calls - 1
BY DEF Handle, Leaves, SameConfig, SameCert

Over == [h EXCEPT !.pending = FALSE, !.waiting = FALSE, !.setter = FALSE]

LEMMA OverFields ==
  ASSUME h \in Handle
  PROVE  /\ Leaves(Over).pending = FALSE /\ Leaves(Over).waiting = FALSE
         /\ Leaves(Over).setter = FALSE
         /\ Leaves(Over).txn = h.txn /\ Leaves(Over).closing = h.closing
         /\ Leaves(Over).opened = h.opened /\ Leaves(Over).contract = h.contract
         /\ Leaves(Over).calls = h.calls - 1 /\ SameCert(Leaves(Over), h)
BY DEF Handle, Leaves, Over, SameCert

LEMMA FailureFrame ==
  ASSUME Exclusive, set' = set, mon' = mon, SameConfig(h', h)
  PROVE  Exclusive'
BY ExclusiveFrame DEF SameConfig

LEMMA OverExclusive ==
  ASSUME h \in Handle, Exclusive, set' = set, mon' = mon, h' = Leaves(Over), h.pending
  PROVE  Exclusive'
BY OverFields DEF Exclusive, Reserved, MonHolds

Owned == Exclusive /\ OneHolder

\* What a step of a transition call does to them; the calls keep OneHolder whoever
\* else holds the configuration.
OwnedNext == OneHolder' /\ (Exclusive => Exclusive')

LEMMA BeginOwned ==
  ASSUME Shape, OneHolder, NEW c \in Callers,
         \/ EnterBegin(c) \/ BeginRefused(c)
         \/ \E e, d \in BOOLEAN : BeginAccept(c, e, d)
         \/ BeginRevoke(c) \/ BeginPrepare(c) \/ BeginDrain(c) \/ BeginArm(c)
         \/ BeginFence(c) \/ BeginTune(c) \/ BeginReadback(c)
  PROVE  OwnedNext
<1> USE DEF OwnedNext
<1>0. h \in Handle /\ call \in [Callers -> Call] BY DEF Shape
<1>1. CASE EnterBegin(c)
  <2>1. SameConfig(h', h) BY <1>0, <1>1 DEF EnterBegin, Handle, SameConfig
  <2>2. Exclusive => Exclusive' BY <1>1, <2>1, FailureFrame DEF EnterBegin
  <2>3. OneHolder'
    <3>1. ~ Holds(c) BY <1>1 DEF EnterBegin, Holds, Beginning, Waiting, Failing
    <3>2. call[c].txn <= h.txn BY DEF OneHolder
    <3> QED BY <1>0, <1>1, <2>1, <3>1, <3>2, GoesTo, BystanderMoves DEF EnterBegin, SameConfig
  <2> QED BY <2>2, <2>3
<1>2. CASE BeginRefused(c)
  <2>1. SameConfig(h', h) BY <1>0, <1>2, LeavesFields DEF BeginRefused
  <2>2. Exclusive => Exclusive' BY <1>2, <2>1, FailureFrame DEF BeginRefused
  <2>3. OneHolder'
    <3>1. ~ Holds(c) BY <1>2 DEF BeginRefused, Holds, Beginning, Waiting, Failing
    <3>2. 0 <= h.txn BY <1>0 DEF Handle
    <3> QED BY <1>0, <1>2, <2>1, <3>1, <3>2, EndsCall, BystanderMoves
            DEF BeginRefused, SameConfig
  <2> QED BY <2>2, <2>3
<1>3. ASSUME NEW e \in BOOLEAN, NEW d \in BOOLEAN, BeginAccept(c, e, d)
      PROVE  OwnedNext
  <2>1. /\ h'.txn = h.txn + 1 /\ h'.pending = TRUE /\ h'.waiting = FALSE
        /\ h'.setter = h.setter /\ h'.closing = h.closing /\ h'.opened = h.opened
    BY <1>0, <1>3 DEF BeginAccept, Handle
  <2>2. ~ h.pending /\ ~ h.setter BY <1>3 DEF BeginAccept, Busy
  <2>3. /\ call'[c].at = "revoke" /\ call'[c].txn = h'.txn
        /\ \A x \in Callers \ {c} : call'[x] = call[x]
    BY <1>0, <1>3, <2>1 DEF BeginAccept, Call
  <2>4. set' = set /\ mon' = mon BY <1>3 DEF BeginAccept
  <2>5. Exclusive => Exclusive' BY <2>1, <2>2, <2>4 DEF Exclusive, Reserved, MonHolds
  <2>6. \A x \in Callers : ~ Holds(x) BY <2>2 DEF OneHolder
  <2>7. \A x \in Callers : Holds(x)' => x = c BY <2>3, <2>6 DEF Holds
  <2>8. \A x \in Callers : call'[x].txn <= h'.txn /\ (x # c => call'[x].txn # h'.txn)
    BY <1>0, <2>1, <2>3 DEF OneHolder, Handle, Call
  <2>9. \A x \in Callers : call'[x].at \notin Waiting
    BY <2>3, <2>7 DEF Holds, Waiting
  <2>10. OneHolder' BY <2>1, <2>3, <2>7, <2>8, <2>9 DEF OneHolder, Holds
  <2> QED BY <2>5, <2>10
<1>4. ASSUME NEW at \in Beginning \cup Failing, Goes(c, at), set' = set, mon' = mon,
             call[c].at \in Beginning, SameConfig(h', h)
      PROVE  OwnedNext
  <2>1. Exclusive => Exclusive' BY <1>4, FailureFrame
  <2>2. Holds(c) BY <1>4 DEF Holds
  <2>3. OneHolder' BY <1>0, <1>4, <2>2, GoesTo, HolderMoves DEF SameConfig
  <2> QED BY <2>1, <2>3
<1>5. CASE BeginRevoke(c)
  <2>1. SameConfig(h', h) BY <1>0, <1>5, RevokedFields DEF BeginRevoke, SameConfig
  <2> QED BY <1>4, <1>5, <2>1 DEF BeginRevoke, Beginning, Failing
<1>6. CASE BeginPrepare(c) \/ BeginDrain(c)
  <2>1. h'.pending = h.pending /\ h'.waiting = h.waiting /\ h'.txn = h.txn
        /\ h'.setter = h.setter /\ h'.closing = h.closing /\ h'.opened = h.opened
    BY <1>0, <1>6 DEF BeginPrepare, BeginDrain, Handle
  <2>2. set' = set /\ mon' = mon BY <1>6 DEF BeginPrepare, BeginDrain
  <2>3. Exclusive => Exclusive' BY <2>1, <2>2, ExclusiveFrame
  <2>4. call[c].at \in Beginning /\ Holds(c)
    BY <1>6 DEF BeginPrepare, BeginDrain, Beginning, Holds
  <2>5. \E at \in Beginning \cup Failing : Goes(c, at)
    BY <1>6 DEF BeginPrepare, BeginDrain, Beginning, Failing
  <2>6. OneHolder' BY <1>0, <2>1, <2>4, <2>5, GoesTo, HolderMoves
  <2> QED BY <2>3, <2>6
<1>7. CASE BeginArm(c) BY <1>4, <1>7 DEF BeginArm, Beginning, Failing, SameConfig
<1>8. CASE BeginFence(c) BY <1>4, <1>8 DEF BeginFence, Beginning, Failing, SameConfig
<1>9. CASE BeginTune(c)
  <2>1. h'.pending = h.pending /\ h'.waiting = h.waiting /\ h'.txn = h.txn
        /\ h'.closing = h.closing /\ h'.opened = h.opened
    BY <1>0, <1>9 DEF BeginTune, Handle
  <2>2. set' = set /\ mon' = mon BY <1>9 DEF BeginTune
  <2>3. call[c].at \in Beginning /\ Holds(c) BY <1>9 DEF BeginTune, Beginning, Holds
  <2>4. h.pending BY <2>3 DEF OneHolder
  <2>5. Exclusive => Exclusive' BY <2>1, <2>2, <2>4 DEF Exclusive, Reserved, MonHolds
  <2>6. \E at \in Beginning \cup Failing : Goes(c, at)
    BY <1>9 DEF BeginTune, Beginning, Failing
  <2>7. OneHolder' BY <1>0, <2>1, <2>3, <2>6, GoesTo, HolderMoves
  <2> QED BY <2>5, <2>7
<1>10. CASE BeginReadback(c)
  <2>1. CASE UNCHANGED h /\ Goes(c, "fail")
    BY <1>4, <1>10, <2>1 DEF BeginReadback, Beginning, Failing, SameConfig
  <2>2. CASE h' = Leaves([h EXCEPT !.readback = rf]) /\ Ends(c)
    <3>1. h'.pending = h.pending /\ h'.waiting = h.waiting /\ h'.txn = h.txn
          /\ h'.setter = h.setter /\ h'.closing = h.closing /\ h'.opened = h.opened
      BY <1>0, <2>2 DEF Handle, Leaves
    <3>2. set' = set /\ mon' = mon BY <1>10 DEF BeginReadback
    <3>3. Exclusive => Exclusive' BY <3>1, <3>2, ExclusiveFrame
    <3>4. Holds(c) BY <1>10 DEF BeginReadback, Beginning, Holds
    <3>5. OneHolder' BY <2>2, <3>1, <3>4, HolderLeaves
    <3> QED BY <3>3, <3>5
  <2> QED BY <1>4, <1>10, <2>1, <2>2 DEF BeginReadback
<1> QED BY <1>1, <1>2, <1>3, <1>5, <1>6, <1>7, <1>8, <1>9, <1>10

LEMMA WaitOwned ==
  ASSUME Shape, OneHolder, NEW c \in Callers,
         \/ \E t \in 1..h.txn : EnterWait(c, t)
         \/ WaitJoin(c) \/ WaitPoll(c) \/ WaitComplete(c) \/ WaitOpen(c) \/ WaitStamp(c)
         \/ WaitLink(c) \/ WaitCertify(c) \/ WaitData(c) \/ WaitCommit(c)
         \/ FailRevoke(c) \/ FailAbort(c) \/ FailClear(c)
         \/ ReadFails(c) \/ DeadlinePasses(c)
  PROVE  OwnedNext
<1> USE DEF OwnedNext
<1>0. h \in Handle /\ call \in [Callers -> Call] BY DEF Shape
<1>1. ASSUME NEW t \in 1..h.txn, EnterWait(c, t) PROVE OwnedNext
  <2>1. h' = [h EXCEPT !.calls = @ + 1] BY <1>1 DEF EnterWait
  <2>2. SameConfig(h', h) BY <1>0, <2>1 DEF Handle, SameConfig
  <2>3. Exclusive => Exclusive' BY <1>1, <2>2, FailureFrame DEF EnterWait
  <2>4. call' = [call EXCEPT ![c].at = "join", ![c].txn = t] BY <1>1 DEF EnterWait
  <2>5. /\ call'[c].at = "join" /\ call'[c].txn = t
        /\ \A d \in Callers \ {c} : call'[d] = call[d]
    BY <1>0, <2>4 DEF Call
  <2>6. ~ Holds(c) BY <1>1 DEF EnterWait, Holds, Beginning, Waiting, Failing
  <2>7. \A d \in Callers : Holds(d)' => d # c /\ Holds(d)
    BY <2>5 DEF Holds, Beginning, Waiting, Failing
  <2>8. \A d \in Callers : Holds(d) /\ ~ h.waiting => t # h.txn
    <3>1. \A d \in Callers : call[d].txn = t => h.waiting \/ call[d].at = "join"
      BY <1>1 DEF EnterWait
    <3>2. \A d \in Callers : Holds(d) => call[d].at # "join"
      BY DEF Holds, Beginning, Waiting, Failing
    <3> QED BY <3>1, <3>2 DEF OneHolder
  <2>9. \A d \in Callers : call'[d].txn <= h'.txn
    BY <1>0, <1>1, <2>2, <2>5 DEF OneHolder, SameConfig, Handle
  <2>10. \A d \in Callers : call'[d].at \in Beginning \cup Waiting => d # c
    BY <2>5 DEF Beginning, Waiting
  <2>11. OneHolder'
    BY <2>2, <2>5, <2>7, <2>8, <2>9, <2>10 DEF OneHolder, SameConfig
  <2> QED BY <2>3, <2>11
<1>2. CASE WaitJoin(c)
  <2>1. set' = set /\ mon' = mon BY <1>2 DEF WaitJoin
  <2>2. ~ Holds(c) /\ call[c].at = "join"
    BY <1>2 DEF WaitJoin, Holds, Beginning, Waiting, Failing
  <2>3. CASE /\ h.pending /\ h.txn = call[c].txn /\ ~ h.waiting
             /\ h' = [h EXCEPT !.waiting = TRUE]
             /\ Goes(c, "poll")
    <3>1. h'.waiting = TRUE /\ h'.pending = h.pending /\ h'.txn = h.txn
          /\ h'.setter = h.setter /\ h'.closing = h.closing /\ h'.opened = h.opened
      BY <1>0, <2>3 DEF Handle
    <3>2. Exclusive => Exclusive' BY <2>1, <3>1, ExclusiveFrame
    <3>3. \A d \in Callers : ~ Holds(d) BY <2>2, <2>3 DEF OneHolder
    <3>4. /\ call'[c].at = "poll" /\ call'[c].txn = h'.txn
          /\ \A d \in Callers \ {c} : call'[d] = call[d]
      BY <1>0, <2>3, <3>1, GoesTo
    <3>5. \A d \in Callers : Holds(d)' => d = c BY <3>3, <3>4 DEF Holds
    <3>6. \A d \in Callers : call'[d].at \notin Beginning
      BY <3>4, <3>5 DEF Holds, Beginning
    <3>7. \A d \in Callers : call'[d].txn <= h'.txn
      BY <1>0, <3>1, <3>4 DEF OneHolder, Handle
    <3>8. OneHolder' BY <2>3, <3>1, <3>4, <3>5, <3>6, <3>7 DEF OneHolder, Holds
    <3> QED BY <3>2, <3>8
  <2>4. CASE h' = Leaves(h) /\ Ends(c)
    <3>1. SameConfig(h', h) BY <1>0, <2>4, LeavesFields
    <3>2. Exclusive => Exclusive' BY <2>1, <3>1, FailureFrame
    <3>3. 0 <= h.txn BY <1>0 DEF Handle
    <3>4. OneHolder' BY <1>0, <2>2, <2>4, <3>1, <3>3, EndsCall, BystanderMoves DEF SameConfig
    <3> QED BY <3>2, <3>4
  <2> QED BY <1>2, <2>3, <2>4 DEF WaitJoin
<1>3. ASSUME NEW at \in Waiting \cup Failing, call'[c].at = at,
             call'[c].txn = call[c].txn, \A d \in Callers \ {c} : call'[d] = call[d],
             set' = set, mon' = mon, SameConfig(h', h), Holds(c),
             call[c].at \in Waiting \/ at \in Failing
      PROVE  OwnedNext
  <2>1. Exclusive => Exclusive' BY <1>3, FailureFrame
  <2>2. OneHolder' BY <1>3, HolderMoves DEF SameConfig
  <2> QED BY <2>1, <2>2
<1>4. ASSUME NEW at \in Waiting \cup Failing, Goes(c, at), set' = set, mon' = mon,
             SameConfig(h', h), Holds(c), call[c].at \in Waiting \/ at \in Failing
      PROVE  OwnedNext
  BY <1>0, <1>3, <1>4, GoesTo
<1>5. CASE WaitPoll(c) \/ WaitComplete(c) \/ WaitOpen(c) \/ WaitLink(c) \/ WaitData(c)
  <2>1. call[c].at \in Waiting /\ Holds(c)
    BY <1>5 DEF WaitPoll, WaitComplete, WaitOpen, WaitLink, WaitData, Waiting, Holds
  <2>2. set' = set /\ mon' = mon /\ h' = h
    BY <1>5 DEF WaitPoll, WaitComplete, WaitOpen, WaitLink, WaitData
  <2>3. \E at \in Waiting \cup Failing : Goes(c, at)
    BY <1>5 DEF WaitPoll, WaitComplete, WaitOpen, WaitLink, WaitData, Waiting, Failing
  <2> QED BY <1>4, <2>1, <2>2, <2>3 DEF SameConfig
<1>6. CASE WaitStamp(c)
  <2>1. /\ call'[c].at = "link" /\ call'[c].txn = call[c].txn
        /\ \A d \in Callers \ {c} : call'[d] = call[d]
    BY <1>0, <1>6 DEF WaitStamp, Call
  <2>2. call[c].at \in Waiting /\ Holds(c) /\ "link" \in Waiting
    BY <1>6 DEF WaitStamp, Waiting, Holds
  <2> QED BY <1>3, <1>6, <2>1, <2>2 DEF WaitStamp, SameConfig
<1>7. CASE WaitCertify(c)
  <2>1. /\ call'[c].at = (IF h.hostReq THEN "data" ELSE "commit")
        /\ call'[c].txn = call[c].txn
        /\ \A d \in Callers \ {c} : call'[d] = call[d]
    BY <1>0, <1>7 DEF WaitCertify, Call
  <2>2. call[c].at \in Waiting /\ Holds(c) /\ call'[c].at \in Waiting
    BY <1>7, <2>1 DEF WaitCertify, Waiting, Holds
  <2>3. SameConfig(h', h) BY <1>0, <1>7 DEF WaitCertify, Certified, Handle, SameConfig
  <2>4. set' = set /\ mon' = mon BY <1>7 DEF WaitCertify
  <2> QED BY <1>3, <2>1, <2>2, <2>3, <2>4
<1>8. ASSUME h' = Leaves(Over), Ends(c), set' = set, mon' = mon, Holds(c)
      PROVE  OwnedNext
  <2>1. h.pending BY <1>8 DEF OneHolder
  <2>2. Exclusive => Exclusive' BY <1>0, <1>8, <2>1, OverExclusive
  <2>3. OneHolder' BY <1>0, <1>8, OverFields, HolderLeaves
  <2> QED BY <2>2, <2>3
<1>9. CASE WaitCommit(c)
  <2>1. call[c].at \in Waiting /\ Holds(c) BY <1>9 DEF WaitCommit, Waiting, Holds
  <2>2. set' = set /\ mon' = mon BY <1>9 DEF WaitCommit
  <2>3. CASE h' = h /\ Goes(c, "fail")
    BY <1>4, <2>1, <2>2, <2>3 DEF Failing, SameConfig
  <2>4. CASE h' = Leaves(Over) /\ Ends(c) BY <1>8, <2>1, <2>2, <2>4
  <2> QED BY <1>9, <2>3, <2>4 DEF WaitCommit, Over
<1>10. CASE FailRevoke(c)
  <2>1. SameConfig(h', h) BY <1>0, <1>10, RevokedFields DEF FailRevoke
  <2> QED BY <1>4, <1>10, <2>1 DEF FailRevoke, Failing, Holds
<1>11. CASE FailAbort(c)
  BY <1>4, <1>11 DEF FailAbort, Failing, Holds, SameConfig
<1>12. CASE FailClear(c)
  BY <1>8, <1>12 DEF FailClear, Over, Failing, Holds
<1>13. CASE ReadFails(c) \/ DeadlinePasses(c)
  <2>1. Holds(c)
    BY <1>13 DEF ReadFails, DeadlinePasses, Reads, Holds, Beginning, Waiting
  <2>2. set' = set /\ mon' = mon /\ h' = h /\ Goes(c, "fail")
    BY <1>13 DEF ReadFails, DeadlinePasses
  <2> QED BY <1>4, <2>1, <2>2 DEF SameConfig, Failing
<1> QED BY <1>1, <1>2, <1>5, <1>6, <1>7, <1>9, <1>10, <1>11, <1>12, <1>13

\* The setter with the reservation goes on, or gives it back.
LEMMA SetterMoves ==
  ASSUME h \in Handle, Exclusive, NEW s \in Setters, Reserved(s), mon' = mon,
         \A t \in Setters \ {s} : set'[t] = set[t],
         \/ h'.setter = h.setter /\ set'[s].at \in {"revoke", "abort", "write", "release"}
         \/ set'[s].at \in {"out", "runs"},
         h'.pending = h.pending, h'.closing = h.closing, h'.opened = h.opened
  PROVE  Exclusive'
<1>1. \A t \in Setters : Reserved(t) => t = s BY DEF Exclusive
<1>2. \A t \in Setters : Reserved(t)' => t = s BY <1>1 DEF Reserved
<1>3. ~ h.pending /\ ~ MonHolds /\ h.setter BY DEF Exclusive
<1>4. ~ h.closing BY DEF Exclusive, Reserved
<1>5. ~ MonHolds' BY <1>3 DEF MonHolds
<1>6. Reserved(s)' => h'.setter BY <1>3 DEF Reserved
<1>7. ~ h'.closing /\ ~ h'.pending BY <1>3, <1>4
<1>8. h'.opened BY <1>4 DEF Exclusive
<1> QED BY <1>2, <1>5, <1>6, <1>7, <1>8 DEF Exclusive

LEMMA SetterOwned ==
  ASSUME ~ StreamLate, Shape, Owned, NEW s \in Setters,
         (\E k \in Kinds : Reserve(s, k)) \/ SetSteps(s)
  PROVE  Owned'
<1> USE DEF Owned
<1>0. h \in Handle /\ set \in [Setters -> Setter] BY DEF Shape
<1>1. ASSUME NEW k \in Kinds, Reserve(s, k) PROVE Owned'
  <2>1. /\ h'.setter = TRUE /\ h'.pending = h.pending /\ h'.closing = h.closing
        /\ h'.opened = h.opened /\ h'.txn = h.txn /\ h'.waiting = h.waiting
    BY <1>0, <1>1 DEF Reserve, Handle
  <2>2. ~ h.pending /\ ~ h.setter /\ ~ h.closing BY <1>1 DEF Reserve, Busy
  <2>3. set'[s].at = "revoke" /\ \A t \in Setters \ {s} : set'[t] = set[t]
    BY <1>0, <1>1 DEF Reserve
  <2>4. ~ MonHolds /\ \A t \in Setters : ~ Reserved(t) BY <2>2 DEF Exclusive
  <2>5. \A t \in Setters : Reserved(t)' => t = s BY <2>3, <2>4 DEF Reserved
  <2>6. mon' = mon /\ call' = call BY <1>1 DEF Reserve
  <2>7. Exclusive' BY <2>1, <2>2, <2>4, <2>5, <2>6 DEF Exclusive, MonHolds
  <2> QED BY <2>1, <2>6, <2>7, HolderFrame
<1>2. ASSUME h'.txn = h.txn, h'.pending = h.pending, h'.waiting = h.waiting,
             h'.closing = h.closing, h'.opened = h.opened, call' = call, mon' = mon,
             Reserved(s), \A t \in Setters \ {s} : set'[t] = set[t],
             \/ h'.setter = h.setter /\ set'[s].at \in {"revoke", "abort", "write", "release"}
             \/ set'[s].at \in {"out", "runs"}
      PROVE  Owned'
  BY <1>0, <1>2, HolderFrame, SetterMoves
<1>3. CASE SetRevoke(s)
  <2>1. h'.txn = h.txn /\ h'.pending = h.pending /\ h'.waiting = h.waiting
        /\ h'.closing = h.closing /\ h'.opened = h.opened
    BY <1>0, <1>3, RevokedFields, RevokedShape DEF SetRevoke, SameConfig, Handle
  <2>2. \/ h'.setter = h.setter /\ set'[s].at \in {"revoke", "abort", "write", "release"}
        \/ set'[s].at \in {"out", "runs"}
    BY <1>0, <1>3, RevokedFields DEF SetRevoke, SameConfig, Setter
  <2>3. \A t \in Setters \ {s} : set'[t] = set[t] BY <1>0, <1>3 DEF SetRevoke
  <2> QED BY <1>2, <1>3, <2>1, <2>2, <2>3 DEF SetRevoke, Reserved
<1>4. CASE SetAbort(s)
  <2>1. h'.txn = h.txn /\ h'.pending = h.pending /\ h'.waiting = h.waiting
        /\ h'.closing = h.closing /\ h'.opened = h.opened
    BY <1>0, <1>4 DEF SetAbort, Handle
  <2>2. \/ h'.setter = h.setter /\ set'[s].at \in {"revoke", "abort", "write", "release"}
        \/ set'[s].at \in {"out", "runs"}
    BY <1>0, <1>4 DEF SetAbort, Setter
  <2>3. \A t \in Setters \ {s} : set'[t] = set[t] BY <1>0, <1>4 DEF SetAbort
  <2> QED BY <1>2, <1>4, <2>1, <2>2, <2>3 DEF SetAbort, Reserved
<1>5. CASE SetWrite(s)
  <2>1. /\ set'[s].at = "release" /\ \A t \in Setters \ {s} : set'[t] = set[t]
    BY <1>0, <1>5 DEF SetWrite, Setter
  <2> QED BY <1>2, <1>5, <2>1 DEF SetWrite, Reserved
<1>6. CASE SetRelease(s)
  <2>1. h'.txn = h.txn /\ h'.pending = h.pending /\ h'.waiting = h.waiting
        /\ h'.closing = h.closing /\ h'.opened = h.opened
    BY <1>0, <1>6 DEF SetRelease, Handle
  <2>2. set'[s].at \in {"out", "runs"} BY <1>0, <1>6 DEF SetRelease, Setter
  <2>3. \A t \in Setters \ {s} : set'[t] = set[t] BY <1>0, <1>6 DEF SetRelease
  <2> QED BY <1>2, <1>6, <2>1, <2>2, <2>3 DEF SetRelease, Reserved
<1>7. CASE StreamReturns(s)
  <2>1. ~ h.setter BY <1>7 DEF StreamReturns
  <2>2. h'.txn = h.txn /\ h'.pending = h.pending /\ h'.waiting = h.waiting
        /\ h'.closing = h.closing /\ h'.opened = h.opened
    BY <1>0, <1>7 DEF StreamReturns, Handle
  <2>3. set'[s].at = "out" /\ \A t \in Setters \ {s} : set'[t] = set[t]
    BY <1>0, <1>7 DEF StreamReturns
  <2>4. mon' = mon /\ call' = call BY <1>7 DEF StreamReturns
  <2>5. ~ MonHolds /\ \A t \in Setters : ~ Reserved(t) BY <2>1 DEF Exclusive
  <2>6. \A t \in Setters : ~ Reserved(t)' BY <2>3, <2>5 DEF Reserved
  <2>7. ~ h.closing BY <1>7 DEF StreamReturns, Exclusive
  <2>8. Exclusive' BY <2>2, <2>4, <2>5, <2>6, <2>7 DEF Exclusive, MonHolds
  <2> QED BY <2>2, <2>4, <2>8, HolderFrame
<1> QED BY <1>1, <1>3, <1>4, <1>5, <1>6, <1>7 DEF SetSteps

LEMMA MonitorOwned ==
  ASSUME Shape, Owned, Monitor \/ MonSeesFault PROVE Owned'
<1> USE DEF Owned
<1>0. h \in Handle /\ mon \in MonitorState BY DEF Shape
<1>1. CASE MonSeesLoss \/ MonSeesFault
  <2>1. h' = h /\ call' = call /\ set' = set /\ ~ h.setter /\ ~ h.pending /\ h.opened
        /\ mon'.at = "saw"
    BY <1>1 DEF MonSeesLoss, MonSeesFault, MonObserve, Busy
  <2>2. ~ MonHolds' BY <2>1 DEF MonHolds
  <2>3. Exclusive' BY <2>1, <2>2 DEF Exclusive, Reserved
  <2> QED BY <2>1, <2>3, HolderFrame
<1>2. CASE MonInvalidate
  <2>0. call' = call /\ set' = set BY <1>2 DEF MonInvalidate
  <2>1. CASE h' = h /\ mon'.at = "idle"
    <3>1. ~ MonHolds' BY <2>1 DEF MonHolds
    <3>2. Exclusive' BY <2>0, <2>1, <3>1 DEF Exclusive, Reserved
    <3> QED BY <2>0, <2>1, <3>2, HolderFrame
  <2>2. CASE ~ Busy /\ h' = [Revoked EXCEPT !.setter = TRUE] /\ mon' = [mon EXCEPT !.at = "abort"]
    <3>1. /\ h'.txn = h.txn /\ h'.pending = h.pending /\ h'.waiting = h.waiting
          /\ h'.closing = h.closing /\ h'.opened = h.opened /\ h'.setter = TRUE
      BY <1>0, <2>2, RevokedFields, RevokedShape DEF Handle, SameConfig
    <3>2. ~ h.setter /\ ~ h.pending BY <2>2 DEF Busy
    <3>3. \A s \in Setters : ~ Reserved(s)' BY <2>0, <3>2 DEF Exclusive, Reserved
    <3>4. h.opened BY <1>2 DEF MonInvalidate, Exclusive
    <3>5. Exclusive' BY <2>0, <3>1, <3>2, <3>3, <3>4 DEF Exclusive
    <3> QED BY <2>0, <3>1, <3>5, HolderFrame
  <2> QED BY <1>2, <2>1, <2>2 DEF MonInvalidate
<1>3. CASE MonAbort
  <2>1. mon'.at = "release" BY <1>0, <1>3 DEF MonAbort, MonitorState
  <2>2. mon.at = "abort" /\ h' = h /\ call' = call /\ set' = set BY <1>3 DEF MonAbort
  <2>3. Exclusive' BY <2>1, <2>2 DEF Exclusive, Reserved, MonHolds
  <2> QED BY <2>2, <2>3, HolderFrame
<1>4. CASE MonRelease
  <2>1. /\ h'.txn = h.txn /\ h'.pending = h.pending /\ h'.waiting = h.waiting
        /\ h'.closing = h.closing /\ h'.opened = h.opened
    BY <1>0, <1>4 DEF MonRelease, Handle
  <2>2. mon'.at = "idle" /\ MonHolds /\ call' = call /\ set' = set
    BY <1>4 DEF MonRelease, MonHolds
  <2>3. \A s \in Setters : ~ Reserved(s)' BY <2>2 DEF Exclusive, Reserved
  <2>4. Exclusive' BY <2>1, <2>2, <2>3 DEF Exclusive, MonHolds
  <2> QED BY <2>1, <2>2, <2>4, HolderFrame
<1> QED BY <1>1, <1>2, <1>3, <1>4 DEF Monitor

LEMMA CloseOwned ==
  ASSUME Shape, Owned, CloseAsk \/ CloseDone \/ Reopen PROVE Owned'
<1> USE DEF Owned
<1>0. h \in Handle BY DEF Shape
<1>1. CASE CloseAsk \/ CloseDone
  <2>1. /\ h'.txn = h.txn /\ h'.pending = h.pending /\ h'.waiting = h.waiting
        /\ h'.setter = h.setter
        /\ (h'.closing = TRUE /\ h'.opened = h.opened /\ CloseAsk)
           \/ (h'.closing = h.closing /\ h'.opened = FALSE /\ CloseDone)
    BY <1>0, <1>1 DEF CloseAsk, CloseDone, Handle
  <2>2. call' = call /\ set' = set /\ mon' = mon BY <1>1 DEF CloseAsk, CloseDone
  <2>3. Exclusive'
    <3>1. CASE CloseAsk
      BY <2>1, <2>2, <3>1 DEF CloseAsk, CloseDone, Exclusive, Reserved, MonHolds
    <3>2. CASE CloseDone
      BY <2>1, <2>2, <3>2 DEF CloseAsk, CloseDone, Exclusive, Reserved, MonHolds
    <3> QED BY <1>1, <3>1, <3>2
  <2> QED BY <2>1, <2>2, <2>3, HolderFrame
<1>2. CASE Reopen
  <2>1. /\ h'.txn = 0 /\ h'.pending = FALSE /\ h'.waiting = FALSE /\ h'.setter = FALSE
        /\ h'.closing = FALSE /\ h'.opened = TRUE
    BY <1>2 DEF Reopen, NewHandle
  <2>2. set' = set /\ mon' = mon /\ ~ h.opened BY <1>2 DEF Reopen
  <2>3. \A c \in Callers : call'[c].at = "out" /\ call'[c].txn = 0
    BY <1>2 DEF Reopen, Idle
  <2>4. mon.at = "idle" /\ \A s \in Setters : set[s].at = "out" BY <2>2 DEF Exclusive
  <2>5. Exclusive' BY <2>1, <2>2, <2>4 DEF Exclusive, Reserved, MonHolds
  <2>6. \A c \in Callers : ~ Holds(c)' BY <2>3 DEF Holds, Beginning, Waiting, Failing
  <2>7. OneHolder' BY <2>1, <2>3, <2>6 DEF OneHolder, Holds
  <2> QED BY <2>5, <2>7
<1> QED BY <1>1, <1>2

LEMMA DeviceOwned ==
  ASSUME Shape, Owned, Fpga \/ Reader PROVE Owned'
<1> USE DEF Owned
<1>1. call' = call /\ set' = set /\ mon' = mon
  BY DEF Fpga, GatePulse, GateSettles, GateFaults, GateResets, Sample, Pad, Reader, RxTake,
         RxPass, RxCommit
<1>2. SameConfig(h', h)
  <2>1. h \in Handle BY DEF Shape
  <2>2. h' = h \/ h' = [h EXCEPT !.reported = TRUE]
    BY DEF Fpga, GatePulse, GateSettles, GateFaults, GateResets, Sample, Pad, Reader, RxTake,
           RxPass, RxCommit
  <2> QED BY <2>1, <2>2 DEF Handle, SameConfig
<1> QED BY <1>1, <1>2, FailureFrame, HolderFrame DEF SameConfig

\* Nobody else enters or leaves a transition call; the read-back stays what it was,
\* the requirements of the transition too, and a certificate can only be revoked.
LEMMA OthersKeep ==
  ASSUME Shape,
         \/ Fpga \/ Reader \/ Monitor \/ MonSeesFault \/ CloseAsk \/ CloseDone
         \/ \E s \in Setters : (\E k \in Kinds : Reserve(s, k)) \/ SetSteps(s)
  PROVE  /\ call' = call /\ h'.calls = h.calls /\ h'.readback = h.readback
         /\ h'.epoch = h.epoch /\ h'.epochReq = h.epochReq /\ h'.hostReq = h.hostReq
         /\ h'.txn = h.txn /\ h'.pending = h.pending /\ h'.waiting = h.waiting
         /\ SameCert(h', h) \/ h'.certified = FALSE
         /\ rf' \in {rf, rf + 1}
<1> USE DEF SameCert
<1>0. h \in Handle BY DEF Shape
<1>1. ASSUME NEW s \in Setters, NEW k \in Kinds, Reserve(s, k)
      PROVE  /\ call' = call /\ h'.calls = h.calls /\ h'.readback = h.readback
             /\ h'.epoch = h.epoch /\ h'.epochReq = h.epochReq /\ h'.hostReq = h.hostReq
             /\ h'.txn = h.txn /\ h'.pending = h.pending /\ h'.waiting = h.waiting
             /\ SameCert(h', h) /\ rf' = rf
  BY <1>0, <1>1 DEF Reserve, Handle
<1>2. ASSUME NEW s \in Setters, SetSteps(s)
      PROVE  /\ call' = call /\ h'.calls = h.calls /\ h'.readback = h.readback
             /\ h'.epoch = h.epoch /\ h'.epochReq = h.epochReq /\ h'.hostReq = h.hostReq
             /\ h'.txn = h.txn /\ h'.pending = h.pending /\ h'.waiting = h.waiting
             /\ SameCert(h', h) \/ h'.certified = FALSE
             /\ rf' \in {rf, rf + 1}
  <2>1. CASE SetRevoke(s)
    BY <1>0, <2>1, RevokedFields, RevokedShape DEF SetRevoke, SameConfig, Handle
  <2>2. CASE SetAbort(s) BY <1>0, <2>2 DEF SetAbort, Handle
  <2>3. CASE SetWrite(s) BY <2>3 DEF SetWrite
  <2>4. CASE SetRelease(s) BY <1>0, <2>4 DEF SetRelease, Handle
  <2>5. CASE StreamReturns(s) BY <1>0, <2>5 DEF StreamReturns, Handle
  <2> QED BY <1>2, <2>1, <2>2, <2>3, <2>4, <2>5 DEF SetSteps
<1>3. CASE Monitor \/ MonSeesFault
  <2>1. CASE MonSeesLoss \/ MonSeesFault \/ MonAbort
    BY <2>1 DEF MonSeesLoss, MonSeesFault, MonObserve, MonAbort
  <2>2. CASE MonInvalidate
    BY <1>0, <2>2, RevokedFields, RevokedShape DEF MonInvalidate, SameConfig, Handle
  <2>3. CASE MonRelease BY <1>0, <2>3 DEF MonRelease, Handle
  <2> QED BY <1>3, <2>1, <2>2, <2>3 DEF Monitor
<1>4. CASE Fpga
  BY <1>4 DEF Fpga, GatePulse, GateSettles, GateFaults, GateResets, Sample, Pad
<1>5. CASE Reader
  BY <1>0, <1>5 DEF Reader, RxTake, RxPass, RxCommit, Handle
<1>6. CASE CloseAsk \/ CloseDone
  BY <1>0, <1>6 DEF CloseAsk, CloseDone, Handle
<1> QED BY <1>1, <1>2, <1>3, <1>4, <1>5, <1>6

LEMMA OthersHolder ==
  ASSUME Shape, OneHolder,
         \/ Fpga \/ Reader \/ Monitor \/ MonSeesFault \/ CloseAsk \/ CloseDone
         \/ \E s \in Setters : (\E k \in Kinds : Reserve(s, k)) \/ SetSteps(s)
  PROVE  OneHolder'
BY OthersKeep, HolderFrame

LEMMA ReopenHolder ==
  ASSUME Reopen PROVE OneHolder' /\ Free'
<1>1. h'.txn = 0 /\ h'.pending = FALSE /\ h'.waiting = FALSE BY DEF Reopen, NewHandle
<1>2. \A c \in Callers : call'[c].at = "out" /\ call'[c].txn = 0 BY DEF Reopen, Idle
<1>3. \A c \in Callers : ~ Holds(c)' BY <1>2 DEF Holds, Beginning, Waiting, Failing
<1> QED BY <1>1, <1>2, <1>3 DEF OneHolder, Holds, Free

\* Whoever else holds the configuration, a transition has one call that works on it.
LEMMA OneHolderStep ==
  ASSUME Shape, OneHolder, [Next]_vars PROVE OneHolder'
<1>1. CASE UNCHANGED vars BY <1>1, HolderFrame DEF vars
<1>2. CASE Next
  BY <1>2, OthersHolder, BeginOwned, WaitOwned, ReopenHolder DEF Next, CallSteps, OwnedNext
<1> QED BY <1>1, <1>2

LEMMA OwnedInit == Init => Owned
<1> SUFFICES ASSUME Init PROVE Owned OBVIOUS
<1>1. /\ h.txn = 0 /\ h.pending = FALSE /\ h.waiting = FALSE /\ h.setter = FALSE
      /\ h.closing = FALSE /\ h.opened = TRUE
  BY DEF Init, NewHandle
<1>2. \A c \in Callers : call[c].at = "out" /\ call[c].txn = 0 BY DEF Init, Idle
<1>3. mon.at = "idle" /\ \A s \in Setters : set[s].at = "out" BY DEF Init
<1>4. \A c \in Callers : ~ Holds(c) BY <1>2 DEF Holds, Beginning, Waiting, Failing
<1>5. Exclusive BY <1>1, <1>3 DEF Exclusive, Reserved, MonHolds
<1>6. OneHolder BY <1>1, <1>2, <1>4 DEF OneHolder, Holds
<1> QED BY <1>5, <1>6 DEF Owned

LEMMA OwnedStep ==
  ASSUME ~ StreamLate, Shape, Owned, [Next]_vars PROVE Owned'
<1>1. CASE UNCHANGED vars
  BY <1>1 DEF vars, Owned, Exclusive, OneHolder, Holds, Reserved, MonHolds
<1>2. CASE Next
  BY <1>2, DeviceOwned, BeginOwned, WaitOwned, SetterOwned, MonitorOwned, CloseOwned
     DEF Next, CallSteps, Owned, OwnedNext
<1> QED BY <1>1, <1>2

\* "A transition begin must not slip between invalidation and the RFIC write"
\* (rf_transition.c): for any number of setters, streams, transition calls and
\* handles, at most one of them owns the configuration.  StreamLate is excluded:
\* the second release of bladerf_stream() breaks it (run transition_claim_owner).
THEOREM OneOwnerHolds == ~ StreamLate => (Spec => []OneOwner)
<1> SUFFICES ASSUME ~ StreamLate PROVE Spec => []OneOwner OBVIOUS
<1>1. Init => Shape /\ Owned BY ShapeInit, OwnedInit
<1>2. Shape /\ Owned /\ [Next]_vars => (Shape /\ Owned)' BY ShapeStep, OwnedStep
<1>3. Owned => OneOwner
  <2> SUFFICES ASSUME Owned PROVE Cardinality(Owners) <= 1 BY DEF OneOwner
  <2>0. Owners = {s \in Setters : Reserved(s)} \cup {x \in {"monitor"} : MonHolds}
                   \cup {x \in {"transition"} : h.pending}
    BY DEF Owners, Reserved, MonHolds
  <2>1. \A x, y \in Owners : x = y
    BY <2>0 DEF Owned, Exclusive
  <2>2. CASE Owners = {} BY <2>2, FS_EmptySet
  <2>3. CASE Owners # {}
    <3>1. PICK x : x \in Owners BY <2>3
    <3>2. Owners = {x} BY <2>1, <3>1
    <3> QED BY <3>2, FS_Singleton
  <2> QED BY <2>2, <2>3
<1> QED BY <1>1, <1>2, <1>3, PTL DEF Spec

-----------------------------------------------------------------------------
(* Types: the count of calls, the ids of epochs and the read-back.         *)

Counted == h.calls = Cardinality(InCall)

LEMMA InCallFinite == IsFiniteSet(InCall)
<1>1. InCall \subseteq Callers BY DEF InCall
<1> QED BY <1>1, Constants, FS_Subset

LEMMA CountEnters ==
  ASSUME Counted, NEW c \in Callers, call[c].at = "out", call'[c].at # "out",
         \A d \in Callers \ {c} : call'[d] = call[d], h'.calls = h.calls + 1
  PROVE  Counted'
<1>1. InCall' = InCall \cup {c} /\ c \notin InCall BY DEF InCall
<1>2. Cardinality(InCall \cup {c}) = Cardinality(InCall) + 1
  BY <1>1, InCallFinite, FS_AddElement
<1> QED BY <1>1, <1>2 DEF Counted

LEMMA CountLeaves ==
  ASSUME Counted, NEW c \in Callers, call[c].at # "out", call'[c].at = "out",
         \A d \in Callers \ {c} : call'[d] = call[d], h'.calls = h.calls - 1
  PROVE  Counted'
<1>1. InCall' = InCall \ {c} /\ c \in InCall BY DEF InCall
<1>2. Cardinality(InCall \ {c}) = Cardinality(InCall) - 1
  BY <1>1, InCallFinite, FS_RemoveElement
<1> QED BY <1>1, <1>2 DEF Counted

LEMMA CountStays ==
  ASSUME Counted, NEW c \in Callers, call[c].at # "out", call'[c].at # "out",
         \A d \in Callers \ {c} : call'[d] = call[d], h'.calls = h.calls
  PROVE  Counted'
<1>1. InCall' = InCall BY DEF InCall
<1> QED BY <1>1 DEF Counted

LEMMA CountCalls ==
  ASSUME Shape, Counted, NEW c \in Callers,
         \/ EnterBegin(c) \/ (\E t \in 1..h.txn : EnterWait(c, t))
         \/ CallSteps(c) \/ ReadFails(c) \/ DeadlinePasses(c)
  PROVE  Counted'
<1>0. h \in Handle /\ call \in [Callers -> Call] BY DEF Shape
<1>1. CASE EnterBegin(c)
  <2>1. h'.calls = h.calls + 1 BY <1>0, <1>1 DEF EnterBegin, Handle
  <2> QED BY <1>0, <1>1, <2>1, GoesTo, CountEnters DEF EnterBegin
<1>2. ASSUME NEW t \in 1..h.txn, EnterWait(c, t) PROVE Counted'
  <2>1. h' = [h EXCEPT !.calls = @ + 1] BY <1>2 DEF EnterWait
  <2>2. call' = [call EXCEPT ![c].at = "join", ![c].txn = t] BY <1>2 DEF EnterWait
  <2>3. call'[c].at = "join" /\ \A d \in Callers \ {c} : call'[d] = call[d]
    BY <1>0, <2>2 DEF Call
  <2>4. h'.calls = h.calls + 1 BY <1>0, <2>1 DEF Handle
  <2>5. call[c].at = "out" BY <1>2 DEF EnterWait
  <2> QED BY <2>3, <2>4, <2>5, CountEnters
\* A call that returns.
<1>3. ASSUME call[c].at # "out", Ends(c), NEW hh \in Handle, h' = Leaves(hh), hh.calls = h.calls
      PROVE  Counted'
  <2>1. h'.calls = h.calls - 1 BY <1>3, LeavesFields
  <2> QED BY <1>0, <1>3, <2>1, EndsCall, CountLeaves
\* A call that goes on.
<1>4. ASSUME call[c].at # "out", NEW at, Goes(c, at), at # "out", h'.calls = h.calls
      PROVE  Counted'
  BY <1>0, <1>4, GoesTo, CountStays
<1>5. CASE BeginRefused(c) BY <1>0, <1>3, <1>5 DEF BeginRefused
<1>6. ASSUME NEW e \in BOOLEAN, NEW d \in BOOLEAN, BeginAccept(c, e, d) PROVE Counted'
  <2>1. h'.calls = h.calls BY <1>0, <1>6 DEF BeginAccept, Handle
  <2>2. call'[c].at = "revoke" /\ \A x \in Callers \ {c} : call'[x] = call[x]
    BY <1>0, <1>6 DEF BeginAccept, Call
  <2>3. call[c].at = "check" BY <1>6 DEF BeginAccept
  <2> QED BY <2>1, <2>2, <2>3, CountStays
<1>7. CASE BeginRevoke(c)
  <2>1. h'.calls = h.calls BY <1>0, <1>7, RevokedFields DEF BeginRevoke
  <2> QED BY <1>4, <1>7, <2>1 DEF BeginRevoke
<1>8. CASE BeginPrepare(c) \/ BeginDrain(c)
  <2>1. h'.calls = h.calls BY <1>0, <1>8 DEF BeginPrepare, BeginDrain, Handle
  <2> QED BY <1>4, <1>8, <2>1 DEF BeginPrepare, BeginDrain
<1>9. CASE BeginArm(c) \/ BeginFence(c) BY <1>4, <1>9 DEF BeginArm, BeginFence
<1>10. CASE BeginTune(c)
  <2>1. h'.calls = h.calls BY <1>0, <1>10 DEF BeginTune, Handle
  <2> QED BY <1>4, <1>10, <2>1 DEF BeginTune
<1>11. CASE BeginReadback(c)
  <2>1. [h EXCEPT !.readback = rf] \in Handle /\ [h EXCEPT !.readback = rf].calls = h.calls
    BY <1>0 DEF Handle, Shape
  <2> QED BY <1>3, <1>4, <1>11, <2>1 DEF BeginReadback
<1>12. CASE WaitJoin(c)
  <2>1. [h EXCEPT !.waiting = TRUE].calls = h.calls BY <1>0 DEF Handle
  <2> QED BY <1>0, <1>3, <1>4, <1>12, <2>1 DEF WaitJoin
<1>13. CASE WaitPoll(c) \/ WaitComplete(c) \/ WaitOpen(c) \/ WaitLink(c) \/ WaitData(c)
  BY <1>4, <1>13 DEF WaitPoll, WaitComplete, WaitOpen, WaitLink, WaitData
<1>14. CASE WaitStamp(c)
  <2>1. call'[c].at = "link" /\ \A d \in Callers \ {c} : call'[d] = call[d]
    BY <1>0, <1>14 DEF WaitStamp, Call
  <2> QED BY <1>14, <2>1, CountStays DEF WaitStamp
<1>15. CASE WaitCertify(c)
  <2>1. call'[c].at # "out" /\ \A d \in Callers \ {c} : call'[d] = call[d]
    BY <1>0, <1>15 DEF WaitCertify, Call
  <2>2. h'.calls = h.calls BY <1>0, <1>15 DEF WaitCertify, Certified, Handle
  <2> QED BY <1>15, <2>1, <2>2, CountStays DEF WaitCertify
<1>16. CASE WaitCommit(c) \/ FailClear(c)
  <2>1. Over \in Handle /\ Over.calls = h.calls BY <1>0 DEF Over, Handle
  <2> QED BY <1>3, <1>4, <1>16, <2>1 DEF WaitCommit, FailClear, Over
<1>17. CASE FailRevoke(c)
  <2>1. h'.calls = h.calls BY <1>0, <1>17, RevokedFields DEF FailRevoke
  <2> QED BY <1>4, <1>17, <2>1 DEF FailRevoke
<1>18. CASE FailAbort(c) \/ ReadFails(c) \/ DeadlinePasses(c)
  BY <1>4, <1>18 DEF FailAbort, ReadFails, DeadlinePasses, Reads
<1> QED BY <1>1, <1>2, <1>5, <1>6, <1>7, <1>8, <1>9, <1>10, <1>11, <1>12, <1>13, <1>14,
           <1>15, <1>16, <1>17, <1>18 DEF CallSteps

LEMMA CountedStep ==
  ASSUME Shape, Counted, [Next]_vars PROVE Counted'
<1>1. ASSUME call' = call, h'.calls = h.calls PROVE Counted'
  BY <1>1 DEF Counted, InCall
<1>2. CASE UNCHANGED vars BY <1>1, <1>2 DEF vars
<1>3. CASE Reopen
  <2>1. h'.calls = 0 BY <1>3 DEF Reopen, NewHandle
  <2>2. InCall' = {} BY <1>3 DEF Reopen, Idle, InCall
  <2> QED BY <2>1, <2>2, FS_EmptySet DEF Counted
<1> QED BY <1>1, <1>2, <1>3, CountCalls, OthersKeep DEF Next

\* A transition that requires an epoch has one once its begin prepared it, and zero,
\* the id of a reset gate, is not the id of any epoch.
EpochOf(c) ==
  /\ call[c].at \in {"prepare", "drain", "arm", "fence", "complete", "open", "stamp", "link",
                     "certify", "data"} => h.epochReq
  /\ call[c].at \in {"arm", "fence"} => h.epoch # 0
  /\ call[c].at \in {"tune", "back"} /\ h.epochReq => h.epoch # 0

EpochIds ==
  /\ h.certified => h.cert.id # 0
  /\ h.readback <= rf
  /\ \A c \in Callers : EpochOf(c)
  /\ h.pending /\ h.epochReq /\ (h.waiting \/ Free) => h.epoch # 0

\* The holder goes on within the transition.
LEMMA EpochMoves ==
  ASSUME OneHolder, EpochIds, NEW c \in Callers, Holds(c), EpochOf(c)', Holds(c)',
         \A d \in Callers \ {c} : call'[d] = call[d],
         h'.epochReq = h.epochReq, h'.pending = h.pending, h'.waiting = h.waiting,
         h'.epoch = h.epoch \/ h'.epoch # 0,
         h'.readback <= rf',
         SameCert(h', h) \/ h'.certified = FALSE
  PROVE  EpochIds'
<1>1. \A d \in Callers \ {c} : ~ Holds(d) BY DEF OneHolder
<1>2. \A d \in Callers \ {c} : EpochOf(d)'
  BY <1>1 DEF EpochOf, Holds, Beginning, Waiting
<1>3. ~ Free' BY DEF Free
<1>4. h'.certified => h'.cert.id # 0 BY DEF EpochIds, SameCert
<1>5. h'.pending /\ h'.epochReq /\ h'.waiting => h'.epoch # 0 BY DEF EpochIds
<1> QED BY <1>2, <1>3, <1>4, <1>5 DEF EpochIds

LEMMA EpochFrame ==
  ASSUME EpochIds, \A c \in Callers : EpochOf(c)', Free' => Free,
         h'.epochReq = h.epochReq, h'.pending = h.pending, h'.waiting = h.waiting,
         h'.epoch = h.epoch, h'.readback <= rf', SameCert(h', h) \/ h'.certified = FALSE
  PROVE  EpochIds'
BY DEF EpochIds, SameCert

LEMMA EpochCalls ==
  ASSUME Shape, OneHolder, EpochIds, NEW c \in Callers,
         \/ EnterBegin(c) \/ (\E t \in 1..h.txn : EnterWait(c, t))
         \/ CallSteps(c) \/ ReadFails(c) \/ DeadlinePasses(c)
  PROVE  EpochIds'
<1>0. h \in Handle /\ call \in [Callers -> Call] /\ gate \in GateState /\ rf \in Nat
  BY DEF Shape
<1>00. EpochOf(c) /\ h.readback <= rf BY DEF EpochIds
\* A call that holds nothing: the epoch is not its business.
<1>1. ASSUME ~ Holds(c), call'[c].at \in {"out", "check", "join"},
             \A d \in Callers \ {c} : call'[d] = call[d],
             SameConfig(h', h), SameCert(h', h), rf' = rf
      PROVE  EpochIds'
  <2>1. \A d \in Callers : EpochOf(d)'
    BY <1>1 DEF EpochIds, EpochOf, SameConfig
  <2>2. Free' => Free BY <1>1 DEF Free, Holds
  <2> QED BY <1>1, <1>00, <2>1, <2>2, EpochFrame DEF SameConfig
<1>2. CASE EnterBegin(c) \/ BeginRefused(c)
  <2>1. SameConfig(h', h) /\ SameCert(h', h)
    BY <1>0, <1>2, LeavesFields DEF EnterBegin, BeginRefused, Handle, SameConfig, SameCert
  <2>2. call'[c].at \in {"out", "check", "join"} /\ \A d \in Callers \ {c} : call'[d] = call[d]
    BY <1>0, <1>2, GoesTo, EndsCall DEF EnterBegin, BeginRefused
  <2>3. ~ Holds(c) BY <1>2 DEF EnterBegin, BeginRefused, Holds, Beginning, Waiting, Failing
  <2> QED BY <1>1, <1>2, <2>1, <2>2, <2>3 DEF EnterBegin, BeginRefused
<1>3. ASSUME NEW t \in 1..h.txn, EnterWait(c, t) PROVE EpochIds'
  <2>1. h' = [h EXCEPT !.calls = @ + 1] /\ rf' = rf BY <1>3 DEF EnterWait
  <2>2. call' = [call EXCEPT ![c].at = "join", ![c].txn = t] BY <1>3 DEF EnterWait
  <2>3. call'[c].at = "join" /\ \A d \in Callers \ {c} : call'[d] = call[d]
    BY <1>0, <2>2 DEF Call
  <2>4. SameConfig(h', h) /\ SameCert(h', h) BY <1>0, <2>1 DEF Handle, SameConfig, SameCert
  <2>5. ~ Holds(c) BY <1>3 DEF EnterWait, Holds, Beginning, Waiting, Failing
  <2> QED BY <1>1, <2>1, <2>3, <2>4, <2>5
<1>4. ASSUME NEW e \in BOOLEAN, NEW d \in BOOLEAN, BeginAccept(c, e, d) PROVE EpochIds'
  <2>1. h'.waiting = FALSE /\ h'.readback = 0 /\ SameCert(h', h) /\ rf' = rf
    BY <1>0, <1>4 DEF BeginAccept, Handle, SameCert
  <2>2. call'[c].at = "revoke" /\ \A x \in Callers \ {c} : call'[x] = call[x]
    BY <1>0, <1>4 DEF BeginAccept, Call
  <2>3. \A x \in Callers : ~ Holds(x) BY <1>4 DEF BeginAccept, Busy, OneHolder
  <2>4. \A x \in Callers : EpochOf(x)'
    BY <2>2, <2>3 DEF EpochOf, Holds, Beginning, Waiting
  <2>5. ~ Free' BY <2>2 DEF Free, Holds, Beginning
  <2> QED BY <1>0, <2>1, <2>4, <2>5 DEF EpochIds, SameCert
\* The holder goes to a step whose needs are met.
<1>5. ASSUME NEW at, Goes(c, at), Holds(c), at \in Beginning \cup Waiting \cup Failing,
             h'.epochReq = h.epochReq, h'.pending = h.pending, h'.waiting = h.waiting,
             h'.epoch = h.epoch \/ h'.epoch # 0,
             h'.readback <= rf',
             SameCert(h', h) \/ h'.certified = FALSE,
             /\ at \in {"prepare", "drain", "arm", "fence", "complete", "open", "stamp", "link",
                        "certify", "data"} => h.epochReq
             /\ at \in {"arm", "fence"} => h'.epoch # 0
             /\ at \in {"tune", "back"} /\ h.epochReq => h'.epoch # 0
      PROVE  EpochIds'
  <2>1. call'[c].at = at /\ \A d \in Callers \ {c} : call'[d] = call[d] BY <1>0, <1>5, GoesTo
  <2>2. EpochOf(c)' /\ Holds(c)' BY <1>5, <2>1 DEF EpochOf, Holds
  <2> QED BY <1>5, <2>1, <2>2, EpochMoves
<1>6. CASE BeginRevoke(c)
  <2>1. SameConfig(h', h) /\ (SameCert(h', h) \/ h'.certified = FALSE)
    BY <1>0, <1>6, RevokedFields DEF BeginRevoke, SameConfig, SameCert
  <2>2. \E at \in {"fail", "prepare", "tune"} :
          Goes(c, at) /\ (at = "prepare" => h.epochReq) /\ (at = "tune" => ~ h.epochReq)
    BY <1>6 DEF BeginRevoke
  <2>3. rf' = rf /\ call[c].at = "revoke" BY <1>6 DEF BeginRevoke
  <2>4. Holds(c) BY <2>3 DEF Holds, Beginning
  <2>5. {"fail", "prepare", "tune"} \subseteq Beginning \cup Waiting \cup Failing
    BY DEF Beginning, Failing
  <2> QED BY <1>00, <1>5, <2>1, <2>2, <2>3, <2>4, <2>5 DEF SameConfig
<1>7. CASE BeginPrepare(c) \/ BeginDrain(c)
  <2>1. \A id \in 0..K : NextEpoch(id) # 0 BY Constants DEF NextEpoch
  <2>2. /\ h'.epochReq = h.epochReq /\ h'.pending = h.pending /\ h'.waiting = h.waiting
        /\ h'.readback = h.readback /\ SameCert(h', h)
        /\ h'.epoch = h.epoch \/ h'.epoch # 0
        /\ \/ Goes(c, "arm") /\ h'.epoch # 0
           \/ Goes(c, "drain") \/ Goes(c, "fail")
    BY <1>0, <1>7, <2>1 DEF BeginPrepare, BeginDrain, Handle, GateState, SameCert
  <2>3. rf' = rf /\ call[c].at \in {"prepare", "drain"}
    BY <1>7 DEF BeginPrepare, BeginDrain
  <2>4. Holds(c) /\ h.epochReq BY <1>00, <2>3 DEF Holds, Beginning, EpochOf
  <2> QED BY <1>00, <1>5, <2>2, <2>3, <2>4 DEF Beginning, Failing
<1>8. CASE BeginArm(c) \/ BeginFence(c)
  <2>1. h' = h /\ rf' = rf /\ call[c].at \in {"arm", "fence"}
        /\ \E at \in {"fence", "tune", "fail"} : Goes(c, at)
    BY <1>8 DEF BeginArm, BeginFence
  <2>2. Holds(c) /\ h.epochReq /\ h.epoch # 0 BY <1>00, <2>1 DEF Holds, Beginning, EpochOf
  <2> QED BY <1>00, <1>5, <2>1, <2>2 DEF Beginning, Failing, SameCert
<1>9. CASE BeginTune(c)
  <2>1. /\ h'.epochReq = h.epochReq /\ h'.pending = h.pending /\ h'.waiting = h.waiting
        /\ h'.readback = h.readback /\ SameCert(h', h) /\ h'.epoch = h.epoch
    BY <1>0, <1>9 DEF BeginTune, Handle, SameCert
  <2>2. rf' \in {rf, rf + 1} /\ call[c].at = "tune" /\ \E at \in {"back", "fail"} : Goes(c, at)
    BY <1>9 DEF BeginTune
  <2>3. Holds(c) /\ (h.epochReq => h.epoch # 0) BY <1>00, <2>2 DEF Holds, Beginning, EpochOf
  <2>4. h'.readback <= rf' BY <1>0, <1>00, <2>1, <2>2 DEF Handle
  <2> QED BY <1>5, <2>1, <2>2, <2>3, <2>4 DEF Beginning, Failing
<1>10. CASE BeginReadback(c)
  <2>1. call[c].at = "back" /\ rf' = rf BY <1>10 DEF BeginReadback
  <2>2. Holds(c) /\ (h.epochReq => h.epoch # 0) BY <1>00, <2>1 DEF Holds, Beginning, EpochOf
  <2>3. CASE h' = h /\ Goes(c, "fail")
    BY <1>00, <1>5, <2>1, <2>2, <2>3 DEF Failing, SameCert
  <2>4. CASE h' = Leaves([h EXCEPT !.readback = rf]) /\ Ends(c)
    <3>1. /\ h'.epochReq = h.epochReq /\ h'.readback = rf /\ SameCert(h', h)
          /\ h'.epoch = h.epoch
      BY <1>0, <2>4 DEF Handle, Leaves, SameCert
    <3>2. call'[c].at = "out" /\ \A d \in Callers \ {c} : call'[d] = call[d]
      BY <1>0, <2>4, EndsCall
    <3>3. \A d \in Callers \ {c} : ~ Holds(d) BY <2>2 DEF OneHolder
    <3>4. \A d \in Callers : EpochOf(d)'
      BY <3>2, <3>3 DEF EpochOf, Holds, Beginning, Waiting
    <3> QED BY <1>0, <2>1, <2>2, <3>1, <3>4 DEF EpochIds, SameCert
  <2> QED BY <1>10, <2>3, <2>4 DEF BeginReadback
<1>11. CASE WaitJoin(c)
  <2>0. rf' = rf /\ ~ Holds(c) /\ call[c].at = "join"
    BY <1>11 DEF WaitJoin, Holds, Beginning, Waiting, Failing
  <2>1. CASE /\ h.pending /\ h.txn = call[c].txn /\ ~ h.waiting
             /\ h' = [h EXCEPT !.waiting = TRUE]
             /\ Goes(c, "poll")
    <3>1. /\ h'.epochReq = h.epochReq /\ h'.readback = h.readback /\ SameCert(h', h)
          /\ h'.epoch = h.epoch
      BY <1>0, <2>1 DEF Handle, SameCert
    <3>2. Free BY <2>0, <2>1 DEF OneHolder, Free
    <3>3. call'[c].at = "poll" /\ \A d \in Callers \ {c} : call'[d] = call[d]
      BY <1>0, <2>1, GoesTo
    <3>4. \A d \in Callers : EpochOf(d)'
      BY <3>2, <3>3 DEF EpochOf, Free, Holds, Beginning, Waiting
    <3>5. h.pending /\ h.epochReq => h.epoch # 0 BY <3>2 DEF EpochIds
    <3> QED BY <1>00, <2>0, <2>1, <3>1, <3>4, <3>5 DEF EpochIds, SameCert
  <2>2. CASE h' = Leaves(h) /\ Ends(c)
    BY <1>0, <1>1, <2>0, <2>2, LeavesFields, EndsCall
  <2> QED BY <1>11, <2>1, <2>2 DEF WaitJoin
<1>12. CASE WaitPoll(c) \/ WaitComplete(c) \/ WaitOpen(c) \/ WaitLink(c) \/ WaitData(c)
  <2>1. h' = h /\ rf' = rf /\ call[c].at \in {"poll", "complete", "open", "link", "data"}
        /\ \E at \in {"fail", "complete", "commit", "open", "stamp", "certify"} :
             Goes(c, at) /\ (call[c].at = "poll" /\ at = "complete" => h.epochReq)
                         /\ (call[c].at = "poll" => at \in {"fail", "complete", "commit"})
    BY <1>12 DEF WaitPoll, WaitComplete, WaitOpen, WaitLink, WaitData
  <2>2. Holds(c) BY <2>1 DEF Holds, Waiting
  <2>3. call[c].at # "poll" => h.epochReq BY <1>00, <2>1 DEF EpochOf
  <2> QED BY <1>00, <1>5, <2>1, <2>2, <2>3 DEF Waiting, Failing, SameCert
<1>13. CASE WaitStamp(c)
  <2>1. call'[c].at = "link" /\ \A d \in Callers \ {c} : call'[d] = call[d]
    BY <1>0, <1>13 DEF WaitStamp, Call
  <2>2. h' = h /\ rf' = rf /\ call[c].at = "stamp" BY <1>13 DEF WaitStamp
  <2>3. Holds(c) /\ Holds(c)' /\ EpochOf(c)' BY <1>00, <2>1, <2>2 DEF Holds, Waiting, EpochOf
  <2> QED BY <1>00, <2>1, <2>2, <2>3, EpochMoves DEF SameCert
<1>14. CASE WaitCertify(c)
  <2>1. /\ call'[c].at \in {"data", "commit"} /\ \A d \in Callers \ {c} : call'[d] = call[d]
    BY <1>0, <1>14 DEF WaitCertify, Call
  <2>2. SameConfig(h', h) /\ h'.cert.id = h.epoch /\ rf' = rf /\ call[c].at = "certify"
    BY <1>0, <1>14 DEF WaitCertify, Certified, Handle, SameConfig
  <2>3. Holds(c) /\ h.epochReq /\ h.waiting /\ h.pending
    BY <1>00, <2>2 DEF Holds, Waiting, EpochOf, OneHolder
  <2>4. h.epoch # 0 BY <2>3 DEF EpochIds
  <2>5. EpochOf(c)' BY <2>1, <2>2, <2>3 DEF EpochOf, SameConfig
  <2>6. \A d \in Callers \ {c} : ~ Holds(d) BY <2>3 DEF OneHolder
  <2>7. \A d \in Callers \ {c} : EpochOf(d)'
    BY <2>1, <2>6 DEF EpochOf, Holds, Beginning, Waiting
  <2> QED BY <1>00, <2>2, <2>4, <2>5, <2>7 DEF EpochIds, SameConfig
<1>15. CASE WaitCommit(c) \/ FailClear(c)
  <2>1. Holds(c) /\ rf' = rf BY <1>15 DEF WaitCommit, FailClear, Holds, Waiting, Failing
  <2>2. CASE h' = h /\ Goes(c, "fail")
    BY <1>00, <1>5, <2>1, <2>2 DEF Failing, SameCert
  <2>3. CASE h' = Leaves(Over) /\ Ends(c)
    <3>1. h'.pending = FALSE /\ SameCert(h', h) /\ h'.readback = h.readback
      BY <1>0, <2>3 DEF Handle, Over, Leaves, SameCert
    <3>2. call'[c].at = "out" /\ \A d \in Callers \ {c} : call'[d] = call[d]
      BY <1>0, <2>3, EndsCall
    <3>3. \A d \in Callers \ {c} : ~ Holds(d) BY <2>1 DEF OneHolder
    <3>4. \A d \in Callers : EpochOf(d)'
      BY <3>2, <3>3 DEF EpochOf, Holds, Beginning, Waiting
    <3> QED BY <1>00, <2>1, <3>1, <3>4 DEF EpochIds, SameCert
  <2> QED BY <1>15, <2>2, <2>3 DEF WaitCommit, FailClear, Over
<1>16. CASE FailRevoke(c) \/ FailAbort(c) \/ ReadFails(c) \/ DeadlinePasses(c)
  <2>1. SameConfig(h', h) /\ (SameCert(h', h) \/ h'.certified = FALSE)
    BY <1>0, <1>16, RevokedFields
       DEF FailRevoke, FailAbort, ReadFails, DeadlinePasses, SameConfig, SameCert
  <2>2. Holds(c) /\ rf' = rf /\ \E at \in Failing : Goes(c, at)
    BY <1>16 DEF FailRevoke, FailAbort, ReadFails, DeadlinePasses, Reads, Holds, Beginning,
                 Waiting, Failing
  <2> QED BY <1>00, <1>5, <2>1, <2>2 DEF Failing, SameConfig
<1> QED BY <1>2, <1>3, <1>4, <1>6, <1>7, <1>8, <1>9, <1>10, <1>11, <1>12, <1>13, <1>14,
           <1>15, <1>16 DEF CallSteps

LEMMA EpochStep ==
  ASSUME Shape, OneHolder, EpochIds, [Next]_vars PROVE EpochIds'
<1>0. h \in Handle /\ rf \in Nat /\ h.readback <= rf BY DEF Shape, EpochIds
<1>1. ASSUME call' = call, h'.epochReq = h.epochReq, h'.pending = h.pending,
             h'.waiting = h.waiting, h'.epoch = h.epoch, h'.readback = h.readback,
             rf' \in {rf, rf + 1}, SameCert(h', h) \/ h'.certified = FALSE
      PROVE  EpochIds'
  <2>1. \A c \in Callers : EpochOf(c)' BY <1>1 DEF EpochIds, EpochOf
  <2>2. Free' => Free BY <1>1 DEF Free, Holds
  <2>3. h'.readback <= rf' BY <1>0, <1>1 DEF Handle
  <2> QED BY <1>1, <2>1, <2>2, <2>3, EpochFrame
<1>2. CASE UNCHANGED vars BY <1>1, <1>2 DEF vars, SameCert
<1>3. CASE Reopen
  <2>1. h'.pending = FALSE /\ h'.certified = FALSE /\ h'.readback = 0 /\ rf' = rf
    BY <1>3 DEF Reopen, NewHandle
  <2>2. \A c \in Callers : EpochOf(c)' BY <1>3 DEF Reopen, Idle, EpochOf
  <2> QED BY <1>0, <2>1, <2>2 DEF EpochIds
<1> QED BY <1>1, <1>2, <1>3, EpochCalls, OthersKeep DEF Next

\* Types, the ids of epochs and the count of calls in the handle, for every
\* interleaving: struct bladerf2_board_data, call_enter() and call_leave(),
\* bladerf2_rx_transition_next_epoch_id().
THEOREM TypeCorrect == Spec => []TypeOK
<1> DEFINE I == Shape /\ OneHolder /\ Counted /\ EpochIds
<1>1. Init => I
  <2> SUFFICES ASSUME Init PROVE I OBVIOUS
  <2>1. Shape BY ShapeInit
  <2>2. OneHolder BY OwnedInit DEF Owned
  <2>3. h = NewHandle /\ rf = 0 /\ \A c \in Callers : call[c].at = "out" BY DEF Init, Idle
  <2>4. InCall = {} BY <2>3 DEF InCall
  <2>5. Counted BY <2>3, <2>4, FS_EmptySet DEF Counted, NewHandle
  <2>6. EpochIds BY <2>3 DEF EpochIds, EpochOf, NewHandle
  <2> QED BY <2>1, <2>2, <2>5, <2>6
<1>2. I /\ [Next]_vars => I' BY ShapeStep, OneHolderStep, CountedStep, EpochStep
<1>3. I => TypeOK
  <2> SUFFICES ASSUME I PROVE TypeOK OBVIOUS
  <2> USE DEF Shape
  <2>1. h.txn \in Nat /\ h.epoch \in 0..K /\ h.cert.id \in 0..K /\ h.readback \in 0..rf
    BY DEF Handle, Cert, EpochIds
  <2>2. {h.pending, h.waiting, h.setter, h.contract, h.epochReq, h.hostReq, h.certified,
         h.reported, h.closing, h.opened} \subseteq BOOLEAN
    BY DEF Handle
  <2>3. \A c \in Callers : call[c].at \in CallAt /\ call[c].txn \in 0..h.txn
    BY DEF Call, Handle, OneHolder
  <2>4. \A s \in Setters : set[s].at \in {"out", "revoke", "abort", "write", "release", "runs"}
    BY DEF Setter, SetAt
  <2>5. mon.at \in {"idle", "saw", "abort", "release"} BY DEF MonitorState
  <2>6. gate.st \in {"ACTIVE", "PENDING", "WAIT", "ACTIVE_NEW", "ERROR"}
        /\ gate.id \in 0..K /\ gate.cmd \subseteq {"arm", "complete", "abort"}
    BY DEF GateState, GateAt, Commands
  <2>7. rx.at \in {"idle", "parsed"} BY DEF Buffer
  <2>8. h.calls = Cardinality(InCall) /\ (h.certified => h.cert.id # 0)
    BY DEF Counted, EpochIds
  <2> QED BY <2>1, <2>2, <2>3, <2>4, <2>5, <2>6, <2>7, <2>8 DEF TypeOK
<1> QED BY <1>1, <1>2, <1>3, PTL DEF Spec

-----------------------------------------------------------------------------
(* Revocation before every write.                                          *)

\* An epoch that is certified is the work of the call that holds the transition, or
\* nobody holds the configuration; whoever changes the RFIC has revoked it before.
\* What begin read back is what the RFIC has until the transition is over.
Revocation ==
  /\ \A s \in Setters : set[s].at \in {"abort", "write", "release"} => ~ h.certified
  /\ MonHolds => ~ h.certified
  /\ \A c \in Callers :
       Holds(c) /\ h.certified => call[c].at \in {"revoke", "data", "commit", "fail"}
  /\ h.pending /\ Free => ~ h.certified
  /\ h.pending /\ (h.waiting \/ Free) => h.readback = rf
  /\ h.certified => rf = h.cert.cfg

\* The holder goes on; a certificate may be revoked but not issued.
LEMMA RevocationMoves ==
  ASSUME Owned, Revocation, NEW c \in Callers, Holds(c), Holds(c)',
         \A d \in Callers \ {c} : call'[d] = call[d],
         set' = set, mon' = mon,
         h'.pending = h.pending, h'.waiting = h.waiting,
         \/ h'.certified = FALSE
         \/ SameCert(h', h) /\ (h.certified => rf' = rf)
                            /\ (h.certified => call'[c].at \in {"revoke", "data", "commit", "fail"}),
         h.waiting => h'.readback = h.readback /\ rf' = rf
  PROVE  Revocation'
<1>1. h.pending /\ ~ Free' BY DEF Owned, OneHolder, Free
<1>2. \A s \in Setters : ~ Reserved(s) BY <1>1 DEF Owned, Exclusive
<1>3. ~ MonHolds BY <1>1 DEF Owned, Exclusive
<1>4. \A d \in Callers \ {c} : ~ Holds(d)' BY DEF Owned, OneHolder, Holds
<1>5. \A s \in Setters : set'[s].at \notin {"abort", "write", "release"} BY <1>2 DEF Reserved
<1>6. ~ MonHolds' BY <1>3 DEF MonHolds
<1>7. h'.certified => rf' = h'.cert.cfg BY DEF Revocation, SameCert
<1>8. h'.waiting /\ h'.pending => h'.readback = rf' BY DEF Revocation
<1>9. h'.certified => call'[c].at \in {"revoke", "data", "commit", "fail"} BY DEF SameCert
<1> QED BY <1>1, <1>4, <1>5, <1>6, <1>7, <1>8, <1>9 DEF Revocation

LEMMA RevocationCalls ==
  ASSUME Shape, Owned, Revocation, NEW c \in Callers,
         \/ EnterBegin(c) \/ (\E t \in 1..h.txn : EnterWait(c, t))
         \/ CallSteps(c) \/ ReadFails(c) \/ DeadlinePasses(c)
  PROVE  Revocation'
<1>0. h \in Handle /\ call \in [Callers -> Call] BY DEF Shape
\* A call that holds nothing.
<1>1. ASSUME ~ Holds(c), call'[c].at \in {"out", "check", "join"},
             \A d \in Callers \ {c} : call'[d] = call[d],
             SameConfig(h', h), SameCert(h', h), rf' = rf, set' = set, mon' = mon
      PROVE  Revocation'
  <2>1. ~ Holds(c)' BY <1>1 DEF Holds, Beginning, Waiting, Failing
  <2>2. \A d \in Callers : Holds(d)' => Holds(d) /\ call'[d] = call[d]
    BY <1>1, <2>1 DEF Holds
  <2>3. Free' => Free BY <1>1, <2>1 DEF Free, Holds
  <2> QED BY <1>1, <2>2, <2>3 DEF Revocation, SameConfig, SameCert, MonHolds
<1>2. CASE EnterBegin(c) \/ BeginRefused(c)
  <2>1. SameConfig(h', h) /\ SameCert(h', h)
    BY <1>0, <1>2, LeavesFields DEF EnterBegin, BeginRefused, Handle, SameConfig, SameCert
  <2>2. call'[c].at \in {"out", "check", "join"} /\ \A d \in Callers \ {c} : call'[d] = call[d]
    BY <1>0, <1>2, GoesTo, EndsCall DEF EnterBegin, BeginRefused
  <2>3. ~ Holds(c) BY <1>2 DEF EnterBegin, BeginRefused, Holds, Beginning, Waiting, Failing
  <2> QED BY <1>1, <1>2, <2>1, <2>2, <2>3 DEF EnterBegin, BeginRefused
<1>3. ASSUME NEW t \in 1..h.txn, EnterWait(c, t) PROVE Revocation'
  <2>1. h' = [h EXCEPT !.calls = @ + 1] /\ rf' = rf /\ set' = set /\ mon' = mon
    BY <1>3 DEF EnterWait
  <2>2. call' = [call EXCEPT ![c].at = "join", ![c].txn = t] BY <1>3 DEF EnterWait
  <2>3. call'[c].at = "join" /\ \A d \in Callers \ {c} : call'[d] = call[d]
    BY <1>0, <2>2 DEF Call
  <2>4. SameConfig(h', h) /\ SameCert(h', h) BY <1>0, <2>1 DEF Handle, SameConfig, SameCert
  <2>5. ~ Holds(c) BY <1>3 DEF EnterWait, Holds, Beginning, Waiting, Failing
  <2> QED BY <1>1, <2>1, <2>3, <2>4, <2>5
<1>4. ASSUME NEW e \in BOOLEAN, NEW d \in BOOLEAN, BeginAccept(c, e, d) PROVE Revocation'
  <2>1. h'.waiting = FALSE /\ SameCert(h', h) /\ rf' = rf /\ set' = set /\ mon' = mon
    BY <1>0, <1>4 DEF BeginAccept, Handle, SameCert
  <2>2. call'[c].at = "revoke" /\ \A x \in Callers \ {c} : call'[x] = call[x]
    BY <1>0, <1>4 DEF BeginAccept, Call
  <2>3. \A x \in Callers : ~ Holds(x) BY <1>4 DEF BeginAccept, Busy, Owned, OneHolder
  <2>4. \A x \in Callers : Holds(x)' => call'[x].at = "revoke" BY <2>2, <2>3 DEF Holds
  <2>5. ~ Free' BY <2>2 DEF Free, Holds, Beginning
  <2> QED BY <2>1, <2>4, <2>5 DEF Revocation, SameCert, MonHolds
\* The holder goes on.
<1>5. ASSUME NEW at, Goes(c, at), Holds(c), at \in Beginning \cup Waiting \cup Failing,
             set' = set, mon' = mon, h'.pending = h.pending, h'.waiting = h.waiting,
             \/ h'.certified = FALSE
             \/ SameCert(h', h) /\ (h.certified => rf' = rf)
                                /\ (h.certified => at \in {"revoke", "data", "commit", "fail"}),
             h.waiting => h'.readback = h.readback /\ rf' = rf
      PROVE  Revocation'
  <2>1. call'[c].at = at /\ \A d \in Callers \ {c} : call'[d] = call[d] BY <1>0, <1>5, GoesTo
  <2>2. Holds(c)' BY <1>5, <2>1 DEF Holds
  <2> QED BY <1>5, <2>1, <2>2, RevocationMoves
<1>6. CASE BeginRevoke(c)
  <2>1. SameConfig(h', h) /\ ((SameCert(h', h) /\ Goes(c, "fail")) \/ h'.certified = FALSE)
    BY <1>0, <1>6, RevokedFields DEF BeginRevoke, SameConfig, SameCert
  <2>2. \E at \in {"fail", "prepare", "tune"} : Goes(c, at) BY <1>6 DEF BeginRevoke
  <2>3. rf' = rf /\ set' = set /\ mon' = mon /\ Holds(c)
    BY <1>6 DEF BeginRevoke, Holds, Beginning
  <2>4. {"fail", "prepare", "tune"} \subseteq Beginning \cup Waiting \cup Failing
    BY DEF Beginning, Failing
  <2>5. CASE SameCert(h', h) /\ Goes(c, "fail")
    BY <1>5, <2>1, <2>3, <2>4, <2>5 DEF SameConfig
  <2>6. CASE h'.certified = FALSE
    BY <1>5, <2>1, <2>2, <2>3, <2>4, <2>6 DEF SameConfig
  <2> QED BY <2>1, <2>5, <2>6
\* The steps between the revocation and the certificate.
<1>7. ASSUME NEW at, Goes(c, at), Holds(c), at \in Beginning \cup Waiting \cup Failing,
             call[c].at \notin {"revoke", "data", "commit", "fail"}, SameCert(h', h),
             set' = set, mon' = mon, h'.pending = h.pending, h'.waiting = h.waiting,
             h.waiting => h'.readback = h.readback /\ rf' = rf
      PROVE  Revocation'
  <2>1. ~ h.certified BY <1>7 DEF Revocation
  <2> QED BY <1>5, <1>7, <2>1 DEF SameCert
<1>8. CASE BeginPrepare(c) \/ BeginDrain(c)
  <2>1. /\ h'.pending = h.pending /\ h'.waiting = h.waiting
        /\ h'.readback = h.readback /\ SameCert(h', h)
    BY <1>0, <1>8 DEF BeginPrepare, BeginDrain, Handle, SameCert
  <2>2. /\ rf' = rf /\ set' = set /\ mon' = mon /\ call[c].at \in {"prepare", "drain"}
        /\ \E at \in {"arm", "drain", "fail"} : Goes(c, at)
    BY <1>8 DEF BeginPrepare, BeginDrain
  <2>3. Holds(c) BY <2>2 DEF Holds, Beginning
  <2> QED BY <1>7, <2>1, <2>2, <2>3 DEF Beginning, Failing
<1>9. CASE BeginArm(c) \/ BeginFence(c)
  <2>1. /\ h' = h /\ rf' = rf /\ set' = set /\ mon' = mon /\ call[c].at \in {"arm", "fence"}
        /\ \E at \in {"fence", "tune", "fail"} : Goes(c, at)
    BY <1>9 DEF BeginArm, BeginFence
  <2>2. Holds(c) BY <2>1 DEF Holds, Beginning
  <2> QED BY <1>7, <2>1, <2>2 DEF Beginning, Failing, SameCert
<1>10. CASE BeginTune(c)
  <2>1. h'.pending = h.pending /\ h'.waiting = h.waiting /\ SameCert(h', h)
    BY <1>0, <1>10 DEF BeginTune, Handle, SameCert
  <2>2. /\ set' = set /\ mon' = mon /\ call[c].at = "tune"
        /\ \E at \in {"back", "fail"} : Goes(c, at)
    BY <1>10 DEF BeginTune
  <2>3. Holds(c) /\ ~ h.waiting BY <2>2 DEF Holds, Beginning, Owned, OneHolder
  <2> QED BY <1>7, <2>1, <2>2, <2>3 DEF Beginning, Failing
<1>11. CASE BeginReadback(c)
  <2>1. call[c].at = "back" /\ rf' = rf /\ set' = set /\ mon' = mon BY <1>11 DEF BeginReadback
  <2>2. Holds(c) /\ ~ h.waiting BY <2>1 DEF Holds, Beginning, Owned, OneHolder
  <2>3. CASE h' = h /\ Goes(c, "fail")
    BY <1>7, <2>1, <2>2, <2>3 DEF Failing, SameCert
  <2>4. CASE h' = Leaves([h EXCEPT !.readback = rf]) /\ Ends(c)
    <3>1. h'.readback = rf /\ SameCert(h', h) BY <1>0, <2>4 DEF Handle, Leaves, SameCert
    <3>2. ~ h.certified BY <2>1, <2>2 DEF Revocation
    <3> QED BY <2>1, <3>1, <3>2 DEF Revocation, SameCert
  <2> QED BY <1>11, <2>3, <2>4 DEF BeginReadback
<1>12. CASE WaitJoin(c)
  <2>0. rf' = rf /\ set' = set /\ mon' = mon /\ ~ Holds(c) /\ call[c].at = "join"
    BY <1>12 DEF WaitJoin, Holds, Beginning, Waiting, Failing
  <2>1. CASE /\ h.pending /\ h.txn = call[c].txn /\ ~ h.waiting
             /\ h' = [h EXCEPT !.waiting = TRUE]
             /\ Goes(c, "poll")
    <3>1. h'.readback = h.readback /\ SameCert(h', h) BY <1>0, <2>1 DEF Handle, SameCert
    <3>2. Free BY <2>0, <2>1 DEF Owned, OneHolder, Free
    <3>3. ~ h.certified /\ h.readback = rf BY <2>1, <3>2 DEF Revocation
    <3> QED BY <2>0, <3>1, <3>3 DEF Revocation, SameCert
  <2>2. CASE h' = Leaves(h) /\ Ends(c)
    BY <1>0, <1>1, <2>0, <2>2, LeavesFields, EndsCall
  <2> QED BY <1>12, <2>1, <2>2 DEF WaitJoin
<1>13. CASE WaitPoll(c) \/ WaitComplete(c) \/ WaitOpen(c) \/ WaitLink(c)
  <2>1. /\ h' = h /\ rf' = rf /\ set' = set /\ mon' = mon
        /\ call[c].at \in {"poll", "complete", "open", "link"}
        /\ \E at \in {"fail", "complete", "commit", "open", "stamp", "certify"} : Goes(c, at)
    BY <1>13 DEF WaitPoll, WaitComplete, WaitOpen, WaitLink
  <2>2. Holds(c) BY <2>1 DEF Holds, Waiting
  <2> QED BY <1>7, <2>1, <2>2 DEF Waiting, Failing, SameCert
<1>14. CASE WaitData(c)
  <2>1. /\ h' = h /\ rf' = rf /\ set' = set /\ mon' = mon /\ call[c].at = "data"
        /\ \E at \in {"fail", "commit"} : Goes(c, at)
    BY <1>14 DEF WaitData
  <2>2. Holds(c) BY <2>1 DEF Holds, Waiting
  <2> QED BY <1>5, <2>1, <2>2 DEF Waiting, Failing, SameCert
<1>15. CASE WaitStamp(c)
  <2>1. call'[c].at = "link" /\ \A d \in Callers \ {c} : call'[d] = call[d]
    BY <1>0, <1>15 DEF WaitStamp, Call
  <2>2. h' = h /\ rf' = rf /\ set' = set /\ mon' = mon /\ call[c].at = "stamp"
    BY <1>15 DEF WaitStamp
  <2>3. Holds(c) /\ Holds(c)' BY <2>1, <2>2 DEF Holds, Waiting
  <2>4. ~ h.certified BY <2>2, <2>3 DEF Revocation
  <2> QED BY <2>1, <2>2, <2>3, <2>4, RevocationMoves DEF SameCert
<1>16. CASE WaitCertify(c)
  <2>1. /\ call'[c].at \in {"data", "commit"} /\ \A d \in Callers \ {c} : call'[d] = call[d]
    BY <1>0, <1>16 DEF WaitCertify, Call
  <2>2. /\ SameConfig(h', h) /\ h'.cert.cfg = h.readback
        /\ rf' = rf /\ set' = set /\ mon' = mon /\ call[c].at = "certify"
    BY <1>0, <1>16 DEF WaitCertify, Certified, Handle, SameConfig
  <2>3. Holds(c) /\ Holds(c)' /\ h.waiting /\ h.pending
    BY <2>1, <2>2 DEF Holds, Waiting, Owned, OneHolder
  <2>4. h.readback = rf BY <2>3 DEF Revocation
  <2>5. \A s \in Setters : ~ Reserved(s) BY <2>3 DEF Owned, Exclusive
  <2>6. \A s \in Setters : set'[s].at \notin {"abort", "write", "release"}
    BY <2>2, <2>5 DEF Reserved
  <2>7. ~ MonHolds' BY <2>2, <2>3 DEF MonHolds, Owned, Exclusive
  <2>8. \A d \in Callers \ {c} : ~ Holds(d)' BY <2>1, <2>3 DEF Owned, OneHolder, Holds
  <2>9. ~ Free' BY <2>3 DEF Free
  <2> QED BY <2>1, <2>2, <2>4, <2>6, <2>7, <2>8, <2>9 DEF Revocation, SameConfig
<1>17. CASE WaitCommit(c) \/ FailClear(c)
  <2>1. Holds(c) /\ rf' = rf /\ set' = set /\ mon' = mon
    BY <1>17 DEF WaitCommit, FailClear, Holds, Waiting, Failing
  <2>2. CASE h' = h /\ Goes(c, "fail")
    BY <1>5, <2>1, <2>2 DEF Failing, SameCert
  <2>3. CASE h' = Leaves(Over) /\ Ends(c)
    <3>1. h'.pending = FALSE /\ SameCert(h', h) BY <1>0, <2>3, OverFields
    <3>2. h.pending BY <2>1 DEF Owned, OneHolder
    <3>3. \A s \in Setters : ~ Reserved(s) BY <3>2 DEF Owned, Exclusive
    <3>4. \A s \in Setters : set'[s].at \notin {"abort", "write", "release"}
      BY <2>1, <3>3 DEF Reserved
    <3>5. ~ MonHolds' BY <2>1, <3>2 DEF MonHolds, Owned, Exclusive
    <3>6. Free' BY <1>0, <2>1, <2>3, <3>1, OverFields, HolderLeaves DEF Owned
    <3>7. h'.certified => rf' = h'.cert.cfg BY <2>1, <3>1 DEF SameCert, Revocation
    <3> QED BY <3>1, <3>4, <3>5, <3>6, <3>7 DEF Revocation, Free
  <2> QED BY <1>17, <2>2, <2>3 DEF WaitCommit, FailClear, Over
<1>18. CASE FailRevoke(c) \/ FailAbort(c)
  <2>1. SameConfig(h', h) /\ (h'.certified = FALSE)
    <3>1. CASE FailRevoke(c) BY <1>0, <3>1, RevokedFields DEF FailRevoke
    <3>2. CASE FailAbort(c)
      <4>1. ~ h.certified BY <3>2 DEF FailAbort, Revocation, Holds, Failing
      <4>2. h' = h BY <3>2 DEF FailAbort
      <4>3. h.certified = FALSE BY <1>0, <4>1 DEF Handle
      <4> QED BY <4>2, <4>3 DEF SameConfig
    <3> QED BY <1>18, <3>1, <3>2
  <2>2. /\ Holds(c) /\ rf' = rf /\ set' = set /\ mon' = mon
        /\ \E at \in {"abort", "clear"} : Goes(c, at)
    BY <1>18 DEF FailRevoke, FailAbort, Holds, Failing
  <2> QED BY <1>5, <2>1, <2>2 DEF Failing, SameConfig
<1>19. CASE ReadFails(c) \/ DeadlinePasses(c)
  <2>1. Holds(c) /\ rf' = rf /\ set' = set /\ mon' = mon /\ h' = h /\ Goes(c, "fail")
    BY <1>19 DEF ReadFails, DeadlinePasses, Reads, Holds, Beginning, Waiting
  <2> QED BY <1>5, <2>1 DEF Failing, SameCert
<1> QED BY <1>2, <1>3, <1>4, <1>6, <1>8, <1>9, <1>10, <1>11, <1>12, <1>13, <1>14,
           <1>15, <1>16, <1>17, <1>18, <1>19 DEF CallSteps

LEMMA RevocationStep ==
  ASSUME Shape, Owned, Owned', Revocation, [Next]_vars PROVE Revocation'
<1>0. h \in Handle /\ set \in [Setters -> Setter] /\ mon \in MonitorState BY DEF Shape
<1>1. ASSUME call' = call, h'.pending = h.pending, h'.waiting = h.waiting,
             h'.readback = h.readback, rf' = rf, SameCert(h', h) \/ h'.certified = FALSE,
             \A s \in Setters : set'[s].at \in {"abort", "write", "release"} => ~ h'.certified,
             MonHolds' => ~ h'.certified
      PROVE  Revocation'
  BY <1>1 DEF Revocation, Free, Holds, SameCert
<1>2. CASE UNCHANGED vars BY <1>2 DEF vars, Revocation, Free, Holds, MonHolds
<1>3. CASE Fpga \/ Reader \/ CloseAsk \/ CloseDone
  <2>1. rf' = rf /\ set' = set /\ mon' = mon /\ SameCert(h', h)
    BY <1>0, <1>3 DEF Fpga, GatePulse, GateSettles, GateFaults, GateResets, Sample, Pad,
          Reader, RxTake, RxPass, RxCommit, CloseAsk, CloseDone, Handle, SameCert
  <2> QED BY <1>1, <1>3, <2>1, OthersKeep DEF Revocation, MonHolds, SameCert
<1>4. ASSUME NEW s \in Setters, NEW k \in Kinds, Reserve(s, k) PROVE Revocation'
  <2>1. /\ call' = call /\ mon' = mon /\ rf' = rf /\ h'.pending = h.pending
        /\ h'.waiting = h.waiting /\ h'.readback = h.readback /\ SameCert(h', h)
    BY <1>0, <1>4 DEF Reserve, Handle, SameCert
  <2>2. set'[s].at = "revoke" /\ \A t \in Setters \ {s} : set'[t] = set[t]
    BY <1>0, <1>4 DEF Reserve
  <2> QED BY <1>1, <2>1, <2>2 DEF Revocation, MonHolds, SameCert
<1>5. ASSUME NEW s \in Setters, SetSteps(s) PROVE Revocation'
  <2>0. /\ call' = call /\ h'.pending = h.pending /\ h'.waiting = h.waiting
        /\ h'.readback = h.readback
    BY <1>5, OthersKeep
  <2>1. CASE SetRevoke(s)
    <3>1. h'.certified = FALSE
      BY <1>0, <2>1, RevokedFields, RevokedShape DEF SetRevoke, Handle
    <3> QED BY <1>1, <2>0, <2>1, <3>1 DEF SetRevoke
  <2>2. CASE SetAbort(s) \/ SetWrite(s) \/ SetRelease(s)
    <3>1. ~ h.certified /\ ~ h.pending
      BY <2>2 DEF SetAbort, SetWrite, SetRelease, Revocation, Owned, Exclusive, Reserved
    <3>2. SameCert(h', h)
      BY <1>0, <2>2 DEF SetAbort, SetWrite, SetRelease, Handle, SameCert
    <3> QED BY <2>0, <3>1, <3>2 DEF Revocation, SameCert
  <2>3. CASE StreamReturns(s)
    <3>1. SameCert(h', h) BY <1>0, <2>3 DEF StreamReturns, Handle, SameCert
    <3>2. set'[s].at = "out" /\ \A t \in Setters \ {s} : set'[t] = set[t]
      BY <1>0, <2>3 DEF StreamReturns
    <3> QED BY <1>1, <2>0, <2>3, <3>1, <3>2 DEF StreamReturns, Revocation, MonHolds, SameCert
  <2> QED BY <1>5, <2>1, <2>2, <2>3 DEF SetSteps
<1>6. CASE Monitor \/ MonSeesFault
  <2>0. /\ call' = call /\ h'.pending = h.pending /\ h'.waiting = h.waiting
        /\ h'.readback = h.readback
    BY <1>6, OthersKeep
  <2>1. CASE MonSeesLoss \/ MonSeesFault
    <3>1. mon'.at = "saw" /\ set' = set /\ h' = h /\ rf' = rf
      BY <2>1 DEF MonSeesLoss, MonSeesFault, MonObserve
    <3> QED BY <1>1, <2>0, <3>1 DEF Revocation, MonHolds, SameCert
  <2>2. CASE MonInvalidate
    <3>3. \/ h' = h /\ mon'.at = "idle"
          \/ h' = [Revoked EXCEPT !.setter = TRUE]
      BY <2>2 DEF MonInvalidate
    <3>4. [Revoked EXCEPT !.setter = TRUE].certified = FALSE
      BY <1>0, RevokedFields, RevokedShape DEF Handle
    <3>1. \/ h' = h /\ mon'.at = "idle"
          \/ h'.certified = FALSE
      BY <3>3, <3>4
    <3>2. set' = set /\ rf' = rf BY <2>2 DEF MonInvalidate
    <3> QED BY <1>1, <2>0, <3>1, <3>2 DEF Revocation, MonHolds, SameCert
  <2>3. CASE MonAbort
    <3>1. h' = h /\ set' = set /\ rf' = rf /\ MonHolds BY <2>3 DEF MonAbort, MonHolds
    <3> QED BY <1>1, <2>0, <3>1 DEF Revocation, SameCert
  <2>4. CASE MonRelease
    <3>1. SameCert(h', h) /\ set' = set /\ rf' = rf /\ mon'.at = "idle"
      BY <1>0, <2>4 DEF MonRelease, Handle, SameCert
    <3> QED BY <1>1, <2>0, <3>1 DEF Revocation, SameCert, MonHolds
  <2> QED BY <1>6, <2>1, <2>2, <2>3, <2>4 DEF Monitor
<1>7. CASE Reopen
  <2>1. h'.certified = FALSE /\ h'.pending = FALSE BY <1>7 DEF Reopen, NewHandle
  <2> QED BY <2>1 DEF Revocation
<1> QED BY <1>2, <1>3, <1>4, <1>5, <1>6, <1>7, RevocationCalls DEF Next

LEMMA RevocationInit == Init => Revocation
BY DEF Init, NewHandle, Revocation

\* Nobody changes the RFIC while an epoch is certified: every transition, setter and
\* module enable revokes host admission first, in every interleaving of any number of
\* them (bladerf2_rx_epoch_revoke_admission() before each RFIC write).  StreamLate is
\* excluded, see OneOwnerHolds.
THEOREM RevocationFirst == ~ StreamLate => (Spec => []RevokedBeforeWrite)
<1> SUFFICES ASSUME ~ StreamLate PROVE Spec => []RevokedBeforeWrite OBVIOUS
<1> DEFINE I == Shape /\ Owned /\ Revocation
<1>1. Init => I BY ShapeInit, OwnedInit, RevocationInit
<1>2. I /\ [Next]_vars => I' BY ShapeStep, OwnedStep, RevocationStep
<1>3. I => RevokedBeforeWrite BY DEF Revocation, RevokedBeforeWrite
<1> QED BY <1>1, <1>2, <1>3, PTL DEF Spec
=============================================================================
