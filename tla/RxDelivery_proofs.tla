------------------------- MODULE RxDelivery_proofs -------------------------
(***************************************************************************)
(* The contract of the RX transition, for any number of callers and        *)
(* setters, every width of the epoch id and every bound: a buffer that is  *)
(* admitted holds samples of the certified configuration only.             *)
(*                                                                         *)
(* The argument follows the gate.  Between the fence and the certificate   *)
(* only the call that holds the transition sends commands to it, so it can *)
(* open only after the RFIC was written, under the epoch of this           *)
(* transition and at a timestamp no earlier buffer has; what it loses      *)
(* after that (a fault, a reset) cannot put another configuration's        *)
(* samples, or zeroes, behind that timestamp before it is armed again.     *)
(***************************************************************************)
EXTENDS RxTransition_proofs

-----------------------------------------------------------------------------
(* The gate at each step of a transition.                                  *)

\* An ARM that the decoder has not seen yet is the one of this transition.
ArmKnown == "arm" \in gate.cmd => gate.cmdId = h.epoch
\* A reset took the gate away from the transition.
Lost == gate.id = 0 /\ gate.st \in {"ACTIVE", "ERROR"} /\ ~ gate.link

\* Before the ARM: an older ARM may still be on its way, but nothing opens the gate.
Unfenced == \/ gate.st \in {"ACTIVE", "ERROR"}
            \/ gate.st = "PENDING" /\ gate.cmd = {}
\* After the ARM.
Fencing == /\ ArmKnown
           /\ \/ gate.st \in {"ACTIVE", "ERROR"}
              \/ gate.st = "PENDING" /\ gate.cmd \subseteq {"arm"}
\* From the fence to COMPLETE.
Fenced == \/ /\ gate.st = "PENDING" /\ gate.id = h.epoch
             /\ gate.cmd \subseteq {"arm"} /\ ArmKnown
          \/ Lost /\ gate.cmd = {}

\* Every sample of a message that begins at F or later was taken under the
\* configuration the RFIC has, and nothing but a new transition can change that.
Pure(F) ==
  /\ F <= ts
  /\ msg.st # "none" /\ msg.ts >= F => /\ msg.has = {rf}
                                       /\ msg.st = "short" => gate.st = "ERROR"
  /\ "arm" \notin gate.cmd
  /\ gate.st \in {"ACTIVE", "ACTIVE_NEW", "ERROR"}
\* No buffer in the reader's hands was judged by a certificate that begins at F.
Before(F) == rx.at = "parsed" => rx.first < F

Opened == gate.id = h.epoch /\ Pure(gate.first) /\ Before(gate.first)

\* After COMPLETE.
Opening == \/ /\ gate.st = "PENDING" /\ gate.id = h.epoch
              /\ gate.cmd \subseteq {"arm", "complete"} /\ ArmKnown
           \/ gate.st = "WAIT" /\ gate.id = h.epoch /\ gate.cmd = {}
           \/ Opened
           \/ Lost /\ gate.cmd \subseteq {"complete"}

GateOf(c) ==
  /\ call[c].at = "arm"   => Unfenced
  /\ call[c].at = "fence" => Fencing
  /\ call[c].at \in {"tune", "back", "poll"} /\ h.epochReq => Fenced
  /\ call[c].at = "complete" => Fenced
  /\ call[c].at = "open"  => Opening
  /\ call[c].at = "stamp" => Opened \/ ~ gate.link
  /\ call[c].at = "link"  => (Opened /\ gate.first = call[c].first) \/ ~ gate.link
  /\ call[c].at = "certify" => Pure(call[c].first) /\ Before(call[c].first)

GateInv ==
  /\ \A c \in Callers : GateOf(c)
  /\ h.pending /\ h.epochReq /\ Free => Fenced

Times ==
  /\ gate.first <= ts /\ msg.ts <= ts
  /\ rx.at = "parsed" => rx.first <= ts

Delivery ==
  /\ h.certified => /\ Pure(h.cert.first)
                    /\ rx.at = "parsed" /\ rx.first = h.cert.first => rx.has = {rf}
  /\ rx.ok

-----------------------------------------------------------------------------
(* The FPGA.                                                               *)

LEMMA PulseFacts ==
  ASSUME gate \in GateState, msg \in Message, GatePulse
  PROVE  /\ gate'.cmd = {} /\ gate'.first = gate.first /\ gate'.link = gate.link
         /\ "abort" \in gate.cmd => gate'.st = "ERROR" /\ gate'.id = gate.id
         /\ "abort" \notin gate.cmd /\ "arm" \in gate.cmd =>
              gate'.st = "PENDING" /\ gate'.id = gate.cmdId
         /\ "abort" \notin gate.cmd /\ "arm" \notin gate.cmd =>
              /\ gate'.st = (IF gate.st = "PENDING" THEN "WAIT" ELSE gate.st)
              /\ gate'.id = gate.id
         /\ msg'.ts = msg.ts /\ msg'.has = msg.has
         /\ msg'.st = msg.st \/ (msg.st = "open" /\ msg'.st = "short" /\ gate'.st = "ERROR")
         /\ gate.cmd # {} /\ h' = h /\ call' = call /\ rf' = rf /\ rx' = rx /\ ts' = ts
<1>1. /\ gate.cmd # {} /\ h' = h /\ call' = call /\ rf' = rf /\ rx' = rx /\ ts' = ts
  BY DEF GatePulse
<1>2. gate' = [gate EXCEPT
       !.cmd = {}, !.cmdId = 0,
       !.st = IF "abort" \in gate.cmd THEN "ERROR"
              ELSE IF "arm" \in gate.cmd THEN "PENDING"
              ELSE IF @ = "PENDING" THEN "WAIT" ELSE @,
       !.id = IF "arm" \in gate.cmd /\ "abort" \notin gate.cmd
              THEN gate.cmdId ELSE @]
  BY DEF GatePulse
<1>3. /\ gate'.cmd = {} /\ gate'.first = gate.first /\ gate'.link = gate.link
      /\ "abort" \in gate.cmd => gate'.st = "ERROR" /\ gate'.id = gate.id
      /\ "abort" \notin gate.cmd /\ "arm" \in gate.cmd =>
           gate'.st = "PENDING" /\ gate'.id = gate.cmdId
      /\ "abort" \notin gate.cmd /\ "arm" \notin gate.cmd =>
           /\ gate'.st = (IF gate.st = "PENDING" THEN "WAIT" ELSE gate.st)
           /\ gate'.id = gate.id
  BY <1>2 DEF GateState
<1>4. msg' = IF "abort" \in gate.cmd THEN Interrupted ELSE msg BY DEF GatePulse
<1>5. /\ msg'.ts = msg.ts /\ msg'.has = msg.has
      /\ msg'.st = msg.st \/ (msg.st = "open" /\ msg'.st = "short" /\ gate'.st = "ERROR")
  BY <1>3, <1>4 DEF Interrupted, Message
<1> QED BY <1>1, <1>3, <1>5

\* A fault, a reset and the end of ACTIVE_NEW.
LEMMA UpsetFacts ==
  ASSUME gate \in GateState, msg \in Message, GateSettles \/ GateFaults \/ GateResets
  PROVE  /\ h' = h /\ call' = call /\ rf' = rf /\ rx' = rx /\ ts' = ts
         /\ \/ /\ gate'.cmd = gate.cmd /\ gate'.cmdId = gate.cmdId
               /\ gate'.first = gate.first /\ gate'.link = gate.link /\ gate'.id = gate.id
               /\ gate.st \in {"ACTIVE", "ACTIVE_NEW"}
               /\ \/ gate.st = "ACTIVE_NEW" /\ gate'.st = "ACTIVE" /\ msg' = msg
                  \/ /\ gate'.st = "ERROR"
                     /\ msg'.ts = msg.ts /\ msg'.has = msg.has
                     /\ msg'.st = msg.st \/ (msg.st = "open" /\ msg'.st = "short")
            \/ gate' = ResetGate /\ msg' = NoMsg
<1>1. CASE GateSettles BY <1>1 DEF GateSettles, GateState
<1>2. CASE GateFaults
  <2>1. msg' = Interrupted BY <1>2 DEF GateFaults
  <2>2. /\ msg'.ts = msg.ts /\ msg'.has = msg.has
        /\ msg'.st = msg.st \/ (msg.st = "open" /\ msg'.st = "short")
    BY <2>1 DEF Interrupted, Message
  <2> QED BY <1>2, <2>2 DEF GateFaults, GateState
<1>3. CASE GateResets BY <1>3 DEF GateResets
<1> QED BY <1>1, <1>2, <1>3

LEMMA WriterFacts ==
  ASSUME gate \in GateState, msg \in Message, ts \in Nat, Sample \/ Pad
  PROVE  /\ h' = h /\ call' = call /\ rf' = rf /\ rx' = rx
         /\ gate'.cmd = gate.cmd /\ gate'.cmdId = gate.cmdId /\ gate'.link = gate.link
         /\ gate'.id = gate.id /\ gate.st # "ERROR"
         /\ \/ gate' = gate /\ ts' = ts /\ gate.st # "WAIT"
            \/ gate.st = "WAIT" /\ gate'.st = "ACTIVE_NEW" /\ ts' = ts + 1 /\ gate'.first = ts'
            \/ gate' = gate /\ ts' = ts /\ msg.st = "short"
         /\ \/ msg' = msg
            \/ msg.st = "none" /\ msg'.st = "open" /\ msg'.ts = ts' /\ msg'.has = {Forwarded}
            \/ /\ msg.st = "open" /\ msg'.st = "full" /\ msg'.ts = msg.ts
               /\ msg'.has = msg.has \cup {Forwarded}
            \/ msg.st = "short" /\ msg'.st = "full" /\ msg'.ts = msg.ts
<1>1. CASE Pad BY <1>1 DEF Pad, Message
<1>2. CASE Sample
  <2>1. PICK now \in {IF gate.st = "WAIT" THEN ts + 1 ELSE ts} :
         /\ ts' = now
         /\ gate' = IF gate.st = "WAIT"
                    THEN [gate EXCEPT !.st = "ACTIVE_NEW", !.first = now] ELSE gate
         /\ \/ UNCHANGED msg
            \/ /\ msg = NoMsg
               /\ msg' = [st |-> "open", id |-> gate.id, ts |-> now, has |-> {Forwarded}]
            \/ /\ msg.st = "open"
               /\ msg' = [msg EXCEPT !.st = "full", !.has = @ \cup {Forwarded}]
    BY <1>2 DEF Sample
  <2>2. /\ h' = h /\ call' = call /\ rf' = rf /\ rx' = rx /\ gate.st # "ERROR" BY <1>2 DEF Sample
  <2>3. /\ gate'.cmd = gate.cmd /\ gate'.cmdId = gate.cmdId /\ gate'.link = gate.link
        /\ gate'.id = gate.id
        /\ \/ gate' = gate /\ ts' = ts /\ gate.st # "WAIT"
           \/ gate.st = "WAIT" /\ gate'.st = "ACTIVE_NEW" /\ ts' = ts + 1 /\ gate'.first = ts'
    BY <2>1 DEF GateState
  <2>4. \/ msg' = msg
        \/ msg.st = "none" /\ msg'.st = "open" /\ msg'.ts = ts' /\ msg'.has = {Forwarded}
        \/ /\ msg.st = "open" /\ msg'.st = "full" /\ msg'.ts = msg.ts
           /\ msg'.has = msg.has \cup {Forwarded}
    <3>1. CASE /\ msg = NoMsg
               /\ msg' = [st |-> "open", id |-> gate.id, ts |-> now, has |-> {Forwarded}]
      BY <2>1, <3>1 DEF NoMsg
    <3> DEFINE more == msg.has \cup {Forwarded}
    <3>2. CASE msg.st = "open" /\ msg' = [msg EXCEPT !.st = "full", !.has = more]
      <4> HIDE DEF more
      <4>1. msg'.st = "full" /\ msg'.ts = msg.ts /\ msg'.has = more BY <3>2 DEF Message
      <4> QED BY <3>2, <4>1 DEF more
    <3> QED BY <2>1, <3>1, <3>2
  <2> QED BY <2>2, <2>3, <2>4
<1> QED BY <1>1, <1>2

LEMMA FpgaTimes ==
  ASSUME Shape, Times, Fpga PROVE Times'
<1> USE DEF Shape
<1>0. gate.first \in Nat /\ msg.ts \in Nat /\ rx.first \in Nat
  BY DEF GateState, Message, Buffer
<1>1. CASE GatePulse BY <1>1, PulseFacts DEF Times
<1>2. CASE GateSettles \/ GateFaults \/ GateResets
  BY <1>2, UpsetFacts DEF Times, ResetGate, NoMsg
<1>3. CASE Sample \/ Pad
  <2>1. ts' \in Nat /\ ts <= ts' BY <1>3, WriterFacts
  <2>2. gate'.first <= ts' BY <1>0, <1>3, <2>1, WriterFacts DEF Times
  <2>3. msg'.ts <= ts' BY <1>0, <1>3, <2>1, WriterFacts DEF Times
  <2>4. rx' = rx BY <1>3, WriterFacts
  <2> QED BY <1>0, <2>1, <2>2, <2>3, <2>4 DEF Times
<1> QED BY <1>1, <1>2, <1>3 DEF Fpga

\* What was pure stays pure.
LEMMA FpgaPure ==
  ASSUME Shape, Fpga, NEW F \in Nat, Pure(F) PROVE Pure(F)'
<1> USE DEF Shape
<1>0. msg.ts \in Nat /\ msg.st \in {"none", "open", "short", "full"} BY DEF Message
<1>1. CASE GatePulse BY <1>0, <1>1, PulseFacts DEF Pure
<1>2. CASE GateSettles \/ GateFaults \/ GateResets
  BY <1>0, <1>2, UpsetFacts DEF Pure, ResetGate, NoMsg
<1>3. CASE Sample \/ Pad
  <2>1. gate.st \in {"ACTIVE", "ACTIVE_NEW"} BY <1>3, WriterFacts DEF Pure
  <2>2. Forwarded = rf BY <2>1 DEF Forwarded
  <2>3. gate' = gate /\ ts' = ts /\ rf' = rf BY <1>3, <2>1, WriterFacts
  <2>4. msg'.st # "none" /\ msg'.ts >= F => msg'.has = {rf} /\ msg'.st # "short"
    BY <1>0, <1>3, <2>1, <2>2, <2>3, WriterFacts DEF Pure
  <2> QED BY <2>1, <2>3, <2>4 DEF Pure
<1> QED BY <1>1, <1>2, <1>3 DEF Fpga

LEMMA FpgaOpened ==
  ASSUME Shape, Fpga, Opened
  PROVE  (Opened' /\ gate'.first = gate.first) \/ gate' = ResetGate
<1> USE DEF Shape
<1>0. gate.first \in Nat BY DEF GateState
<1>3. CASE gate' # ResetGate
  <2>1. h' = h /\ rx' = rx
    BY PulseFacts, UpsetFacts, WriterFacts DEF Fpga
  <2>2. gate'.id = gate.id /\ gate'.first = gate.first
    <3>1. gate.st # "WAIT" /\ "arm" \notin gate.cmd BY DEF Opened, Pure
    <3>2. CASE GatePulse BY <3>1, <3>2, PulseFacts
    <3>3. CASE GateSettles \/ GateFaults \/ GateResets BY <1>3, <3>3, UpsetFacts
    <3>4. CASE Sample \/ Pad BY <3>1, <3>4, WriterFacts
    <3> QED BY <3>2, <3>3, <3>4 DEF Fpga
  <2>3. PICK F \in Nat : F = gate.first BY <1>0
  <2>4. Pure(F) BY <2>3 DEF Opened
  <2>5. Pure(F)' BY <2>4, FpgaPure
  <2>6. Pure(gate.first)' BY <2>2, <2>3, <2>5 DEF Pure
  <2>8. Before(gate.first)' BY <2>1, <2>2 DEF Before, Opened
  <2> QED BY <2>1, <2>2, <2>6, <2>8 DEF Opened
<1> QED BY <1>3

LEMMA FpgaFenced ==
  ASSUME Shape, Fpga
  PROVE  (Unfenced => Unfenced') /\ (Fencing => Fencing') /\ (Fenced => Fenced')
<1> USE DEF Shape
<1>1. CASE GatePulse
  BY <1>1, PulseFacts DEF Unfenced, Fencing, Fenced, ArmKnown, Lost
<1>2. CASE GateSettles \/ GateFaults \/ GateResets
  BY <1>2, UpsetFacts DEF Unfenced, Fencing, Fenced, ArmKnown, Lost, ResetGate
<1>3. CASE Sample \/ Pad
  BY <1>3, WriterFacts DEF Unfenced, Fencing, Fenced, ArmKnown, Lost
<1> QED BY <1>1, <1>2, <1>3 DEF Fpga

\* The first sample opens the gate: at a boundary that no message and no buffer has.
LEMMA GateOpens ==
  ASSUME Shape, Times, Sample, gate.st = "WAIT", gate.id = h.epoch, gate.cmd = {}
  PROVE  Opened'
<1> USE DEF Shape
<1>0. gate.first \in Nat /\ msg.ts \in Nat /\ rx.first \in Nat BY DEF GateState, Message, Buffer
<1>1. /\ h' = h /\ rx' = rx /\ rf' = rf /\ gate'.cmd = {} /\ gate'.id = gate.id
      /\ gate'.st = "ACTIVE_NEW" /\ ts' = ts + 1 /\ gate'.first = ts + 1
  <2>1. CASE msg.st # "short" BY <2>1, WriterFacts
  <2>2. CASE msg.st = "short"
    <3>1. gate' = [gate EXCEPT !.st = "ACTIVE_NEW", !.first = ts + 1] /\ ts' = ts + 1
      BY DEF Sample
    <3> QED BY <3>1 DEF Sample, GateState
  <2> QED BY <2>1, <2>2
<1>2. Forwarded = rf BY DEF Forwarded
<1>3. msg'.st # "none" /\ msg'.ts >= ts + 1 => msg'.has = {rf} /\ msg'.st # "short"
  <2>1. msg.ts < ts + 1 BY <1>0 DEF Times
  <2>2. \/ msg' = msg
        \/ msg.st = "none" /\ msg'.st = "open" /\ msg'.ts = ts' /\ msg'.has = {Forwarded}
        \/ msg'.ts = msg.ts
    BY WriterFacts
  <2> QED BY <1>0, <1>2, <2>1, <2>2
<1>4. Pure(gate.first)' BY <1>1, <1>3 DEF Pure
<1>5. Before(gate.first)' BY <1>0, <1>1 DEF Before, Times
<1> QED BY <1>1, <1>4, <1>5 DEF Opened

LEMMA FpgaOpening ==
  ASSUME Shape, Times, Fpga, Opening PROVE Opening'
<1> USE DEF Shape
<1>1. CASE gate' = ResetGate BY <1>1 DEF Opening, Lost, ResetGate
<1>2. CASE Opened BY <1>1, <1>2, FpgaOpened DEF Opening
<1>3. CASE gate' # ResetGate /\ gate.st = "WAIT" /\ gate.id = h.epoch /\ gate.cmd = {}
  <2>1. CASE Sample BY <1>3, <2>1, GateOpens DEF Opening
  <2>2. CASE Pad
    <3>1. gate' = gate /\ h' = h BY <2>2 DEF Pad
    <3> QED BY <1>3, <3>1 DEF Opening
  <2>3. ~ GatePulse BY <1>3 DEF GatePulse
  <2>4. ~ (GateSettles \/ GateFaults \/ GateResets) BY <1>3, UpsetFacts
  <2> QED BY <2>1, <2>2, <2>3, <2>4 DEF Fpga
<1>4. CASE \/ /\ gate.st = "PENDING" /\ gate.id = h.epoch
              /\ gate.cmd \subseteq {"arm", "complete"} /\ ArmKnown
           \/ Lost /\ gate.cmd \subseteq {"complete"}
  <2>1. CASE GatePulse BY <1>4, <2>1, PulseFacts DEF Opening, ArmKnown, Lost
  <2>2. CASE GateSettles \/ GateFaults \/ GateResets
    BY <1>1, <1>4, <2>2, UpsetFacts DEF Opening, ArmKnown, Lost
  <2>3. CASE Sample \/ Pad BY <1>4, <2>3, WriterFacts DEF Opening, ArmKnown, Lost
  <2> QED BY <2>1, <2>2, <2>3 DEF Fpga
<1> QED BY <1>1, <1>2, <1>3, <1>4 DEF Opening

LEMMA FpgaUnlinked ==
  ASSUME Shape, Fpga, ~ gate.link PROVE ~ gate'.link
BY PulseFacts, UpsetFacts, WriterFacts DEF Fpga, Shape, ResetGate

LEMMA FpgaGate ==
  ASSUME Shape, Times, GateInv, Fpga PROVE GateInv'
<1>0. h' = h /\ call' = call /\ rx' = rx
  BY PulseFacts, UpsetFacts, WriterFacts DEF Fpga, Shape
<1>1. ASSUME NEW c \in Callers PROVE GateOf(c)'
  <2>0. GateOf(c) /\ call[c].first \in Nat BY DEF GateInv, Shape, Call
  <2>1. call'[c].at = "arm" => Unfenced' BY <1>0, <2>0, FpgaFenced DEF GateOf
  <2>2. call'[c].at = "fence" => Fencing' BY <1>0, <2>0, FpgaFenced DEF GateOf
  <2>3. call'[c].at \in {"tune", "back", "poll"} /\ h'.epochReq => Fenced'
    BY <1>0, <2>0, FpgaFenced DEF GateOf
  <2>4. call'[c].at = "complete" => Fenced' BY <1>0, <2>0, FpgaFenced DEF GateOf
  <2>5. call'[c].at = "open" => Opening' BY <1>0, <2>0, FpgaOpening DEF GateOf
  <2>6. gate' = ResetGate => ~ gate'.link BY DEF ResetGate
  <2>7. call'[c].at = "stamp" => Opened' \/ ~ gate'.link
    BY <1>0, <2>0, <2>6, FpgaOpened, FpgaUnlinked DEF GateOf
  <2>8. call'[c].at = "link" => (Opened' /\ gate'.first = call'[c].first) \/ ~ gate'.link
    BY <1>0, <2>0, <2>6, FpgaOpened, FpgaUnlinked DEF GateOf
  <2>9. call'[c].at = "certify" => Pure(call[c].first)' /\ Before(call[c].first)'
    <3> SUFFICES ASSUME call'[c].at = "certify"
                 PROVE  Pure(call[c].first)' /\ Before(call[c].first)'
      OBVIOUS
    <3>1. PICK F \in Nat : F = call[c].first BY <2>0
    <3>2. Pure(F) /\ Before(F) BY <1>0, <2>0, <3>1 DEF GateOf
    <3>3. Pure(F)' BY <3>2, FpgaPure
    <3>4. Before(F)' BY <1>0, <3>2 DEF Before
    <3>5. call'[c].first = F BY <1>0, <3>1
    <3> QED BY <3>3, <3>4, <3>5 DEF Pure, Before
  <2> QED BY <2>1, <2>2, <2>3, <2>4, <2>5, <2>7, <2>8, <2>9 DEF GateOf
<1>2. h'.pending /\ h'.epochReq /\ Free' => Fenced'
  BY <1>0, FpgaFenced DEF GateInv, Free, Holds
<1> QED BY <1>1, <1>2 DEF GateInv

LEMMA FpgaDelivery ==
  ASSUME Shape, Delivery, Fpga PROVE Delivery'
<1>0. h' = h /\ rx' = rx /\ rf' = rf
  BY PulseFacts, UpsetFacts, WriterFacts DEF Fpga, Shape
<1>1. ASSUME h.certified PROVE Pure(h.cert.first)'
  <2>0. h.cert.first \in Nat BY DEF Shape, Handle, Cert
  <2>1. PICK F \in Nat : F = h.cert.first BY <2>0
  <2>2. Pure(F) BY <1>1, <2>1 DEF Delivery
  <2>3. Pure(F)' BY <2>2, FpgaPure
  <2>4. h'.cert.first = F BY <1>0, <2>1
  <2> QED BY <2>3, <2>4 DEF Pure
<1> QED BY <1>0, <1>1 DEF Delivery

-----------------------------------------------------------------------------
(* The reader.                                                             *)

LEMMA ReaderDelivery ==
  ASSUME Shape, Revocation, Times, GateInv, Delivery, Reader
  PROVE  Times' /\ GateInv' /\ Delivery'
<1> USE DEF Shape
<1>0. /\ gate' = gate /\ ts' = ts /\ rf' = rf /\ call' = call
      /\ msg' = NoMsg \/ msg' = msg
      /\ h'.epoch = h.epoch /\ h'.epochReq = h.epochReq /\ h'.pending = h.pending
      /\ SameCert(h', h)
  BY DEF Reader, RxTake, RxPass, RxCommit, Handle, SameCert
<1>1. \A F \in Nat : Pure(F) => Pure(F)' BY <1>0 DEF Pure, NoMsg
\* The buffer in the reader's hands: taken under a certificate only.
<1>2. \/ rx' = rx
      \/ rx'.at = "idle" /\ RxCommit
      \/ /\ rx'.at = "parsed" /\ rx'.first = h.cert.first /\ rx'.has = msg.has /\ rx'.ok = rx.ok
         /\ h.certified /\ msg.st = "full" /\ msg.ts >= h.cert.first
  BY DEF Reader, RxTake, RxPass, RxCommit, InEpoch, NoBuffer, Buffer
<1>3. Times'
  <2>1. msg'.ts <= ts' /\ gate'.first <= ts' BY <1>0 DEF Times, NoMsg
  <2>2. h.certified => h.cert.first <= ts BY DEF Delivery, Pure
  <2> QED BY <1>0, <1>2, <2>1, <2>2 DEF Times
<1>4. \A F \in Nat : ~ h.certified /\ Before(F) => Before(F)' BY <1>2 DEF Before
<1>5. ASSUME ~ h.certified, Opened PROVE Opened'
  <2>1. PICK F \in Nat : F = gate.first BY DEF GateState
  <2>2. Pure(F)' /\ Before(F)' BY <1>1, <1>4, <1>5, <2>1 DEF Opened
  <2>3. Pure(gate.first)' /\ Before(gate.first)' BY <1>0, <2>1, <2>2 DEF Pure, Before
  <2> QED BY <1>0, <1>5, <2>3 DEF Opened
<1>6. ASSUME NEW c \in Callers PROVE GateOf(c)'
  <2>0. GateOf(c) BY DEF GateInv
  <2>1. CASE call[c].at \in {"open", "stamp", "link", "certify"}
    <3>1. ~ h.certified BY <2>1 DEF Revocation, Holds, Waiting
    <3>2. CASE call[c].at = "certify"
      <4>1. PICK F \in Nat : F = call[c].first BY DEF Call
      <4>2. Pure(F)' /\ Before(F)' BY <1>1, <1>4, <2>0, <3>1, <3>2, <4>1 DEF GateOf
      <4>3. Pure(call[c].first)' /\ Before(call[c].first)'
        BY <1>0, <4>1, <4>2 DEF Pure, Before
      <4> QED BY <1>0, <3>2, <4>3 DEF GateOf
    <3>3. CASE call[c].at # "certify"
      <4>1. Opening => Opening' BY <1>0, <1>5, <3>1 DEF Opening, Lost, ArmKnown
      <4> QED BY <1>0, <1>5, <2>0, <2>1, <3>1, <3>3, <4>1 DEF GateOf
    <3> QED BY <3>2, <3>3
  <2>2. CASE call[c].at \notin {"open", "stamp", "link", "certify"}
    BY <1>0, <2>0, <2>2 DEF GateOf, Unfenced, Fencing, Fenced, ArmKnown, Lost
  <2> QED BY <2>1, <2>2
<1>7. GateInv'
  <2>1. h'.pending /\ h'.epochReq /\ Free' => Fenced'
    BY <1>0 DEF GateInv, Free, Holds, Fenced, ArmKnown, Lost
  <2> QED BY <1>6, <2>1 DEF GateInv
<1>8. h'.certified => Pure(h.cert.first)'
  <2> SUFFICES ASSUME h'.certified PROVE Pure(h.cert.first)' OBVIOUS
  <2>1. PICK F \in Nat : F = h.cert.first BY DEF Handle, Cert
  <2>2. Pure(F)' BY <1>0, <1>1, <2>1 DEF Delivery, SameCert
  <2> QED BY <1>0, <2>1, <2>2 DEF Pure, SameCert
<1>9. h'.certified /\ rx'.at = "parsed" /\ rx'.first = h'.cert.first => rx'.has = {rf'}
  BY <1>0, <1>2 DEF Delivery, SameCert, Pure
<1>10. rx'.ok
  <2>1. CASE RxCommit
    <3>1. SnapshotIsCurrent => rx.has = {h.cert.cfg}
      BY <2>1 DEF SnapshotIsCurrent, Delivery, RxCommit, Revocation
    <3>2. rx' = [NoBuffer EXCEPT
              !.ok = rx.ok /\ (SnapshotIsCurrent => rx.has = {h.cert.cfg})]
      BY <2>1 DEF RxCommit
    <3>3. rx'.ok = (rx.ok /\ (SnapshotIsCurrent => rx.has = {h.cert.cfg}))
      BY <3>2 DEF NoBuffer
    <3> QED BY <3>1, <3>3 DEF Delivery
  <2>2. CASE RxTake \/ RxPass BY <2>2 DEF RxTake, RxPass, Buffer, Delivery
  <2> QED BY <2>1, <2>2 DEF Reader
<1> QED BY <1>3, <1>7, <1>8, <1>9, <1>10 DEF Delivery

-----------------------------------------------------------------------------
(* Setters, the monitor and the close: no call holds the transition when   *)
(* they touch the gate, and no epoch is certified when they reset it.      *)

\* ABORT does not open a gate.
LEMMA AbortPure ==
  ASSUME gate \in GateState, Toggled("abort", 0)
  PROVE  /\ gate'.st = gate.st /\ gate'.first = gate.first
         /\ "arm" \in gate'.cmd <=> "arm" \in gate.cmd
BY DEF Toggled, GateState

LEMMA IdleGate ==
  ASSUME Owned', ~ h'.pending
  PROVE  GateInv'
<1>1. \A c \in Callers : ~ Holds(c)' BY DEF Owned, OneHolder
<1>2. \A c \in Callers : GateOf(c)' BY <1>1 DEF GateOf, Holds, Beginning, Waiting
<1> QED BY <1>2 DEF GateInv

LEMMA SameGate ==
  ASSUME GateInv, call' = call, gate' = gate, msg' = msg, rx' = rx, ts' = ts, rf' = rf,
         h'.epoch = h.epoch, h'.epochReq = h.epochReq, h'.pending = h.pending
  PROVE  GateInv'
BY DEF GateInv, GateOf, Free, Holds, Unfenced, Fencing, Fenced, Opening, Opened, Pure, Before,
       ArmKnown, Lost

LEMMA SameDelivery ==
  ASSUME Delivery, gate'.st = gate.st, "arm" \in gate'.cmd => "arm" \in gate.cmd,
         msg' = msg, rx' = rx, ts' = ts,
         (SameCert(h', h) /\ rf' = rf) \/ h'.certified = FALSE
  PROVE  Delivery'
BY DEF Delivery, Pure, SameCert

LEMMA SetterDelivery ==
  ASSUME Shape, Owned, Owned', Revocation, Times, GateInv, Delivery, NEW s \in Setters,
         (\E k \in Kinds : Reserve(s, k)) \/ SetSteps(s)
  PROVE  Times' /\ GateInv' /\ Delivery'
<1> USE DEF Shape
<1>0. /\ call' = call /\ h'.epoch = h.epoch /\ h'.epochReq = h.epochReq
      /\ h'.pending = h.pending /\ (SameCert(h', h) \/ h'.certified = FALSE)
  BY OthersKeep
<1>1. CASE \/ \E k \in Kinds : Reserve(s, k)
           \/ SetRevoke(s) \/ SetRelease(s) \/ StreamReturns(s)
  <2>1. gate' = gate /\ msg' = msg /\ rx' = rx /\ ts' = ts /\ rf' = rf
    BY <1>1 DEF Reserve, SetRevoke, SetRelease, StreamReturns
  <2> QED BY <1>0, <2>1, SameGate, SameDelivery DEF Times
<1>2. CASE SetAbort(s)
  <2>1. ~ h.pending BY <1>2 DEF SetAbort, Owned, Exclusive, Reserved
  <2>2. /\ gate'.st = gate.st /\ gate'.first = gate.first
        /\ "arm" \in gate'.cmd <=> "arm" \in gate.cmd
    BY <1>2, AbortPure DEF SetAbort, CommandFails
  <2>3. msg' = msg /\ rx' = rx /\ ts' = ts /\ rf' = rf BY <1>2 DEF SetAbort
  <2> QED BY <1>0, <2>1, <2>2, <2>3, IdleGate, SameDelivery DEF Times
<1>3. CASE SetWrite(s)
  <2>1. ~ h.pending /\ ~ h.certified
    BY <1>3 DEF SetWrite, Owned, Exclusive, Reserved, Revocation
  <2>2. h' = h /\ rx' = rx /\ ts' = ts BY <1>3 DEF SetWrite
  <2>3. gate'.first <= ts /\ msg'.ts <= ts
    BY <1>3 DEF SetWrite, Times, GateState, ResetGate, NoMsg
  <2> QED BY <2>1, <2>2, <2>3, IdleGate DEF Times, Delivery
<1> QED BY <1>1, <1>2, <1>3 DEF SetSteps

LEMMA MonitorDelivery ==
  ASSUME Shape, Owned, Owned', Times, GateInv, Delivery, Monitor \/ MonSeesFault
  PROVE  Times' /\ GateInv' /\ Delivery'
<1> USE DEF Shape
<1>0. /\ call' = call /\ h'.epoch = h.epoch /\ h'.epochReq = h.epochReq
      /\ h'.pending = h.pending /\ (SameCert(h', h) \/ h'.certified = FALSE)
  BY OthersKeep
<1>1. CASE MonSeesLoss \/ MonSeesFault \/ MonInvalidate \/ MonRelease
  <2>1. gate' = gate /\ msg' = msg /\ rx' = rx /\ ts' = ts /\ rf' = rf
    BY <1>1 DEF MonSeesLoss, MonSeesFault, MonObserve, MonInvalidate, MonRelease
  <2> QED BY <1>0, <2>1, SameGate, SameDelivery DEF Times
<1>2. CASE MonAbort
  <2>1. ~ h.pending BY <1>2 DEF MonAbort, Owned, Exclusive, MonHolds
  <2>2. /\ gate'.st = gate.st /\ gate'.first = gate.first
        /\ "arm" \in gate'.cmd <=> "arm" \in gate.cmd
    BY <1>2, AbortPure DEF MonAbort, CommandFails
  <2>3. msg' = msg /\ rx' = rx /\ ts' = ts /\ rf' = rf BY <1>2 DEF MonAbort
  <2> QED BY <1>0, <2>1, <2>2, <2>3, IdleGate, SameDelivery DEF Times
<1> QED BY <1>1, <1>2 DEF Monitor

LEMMA CloseDelivery ==
  ASSUME Shape, Owned', Times, GateInv, Delivery, CloseAsk \/ CloseDone \/ Reopen
  PROVE  Times' /\ GateInv' /\ Delivery'
<1> USE DEF Shape
<1>1. CASE CloseAsk \/ CloseDone
  <2>0. /\ call' = call /\ h'.epoch = h.epoch /\ h'.epochReq = h.epochReq
        /\ h'.pending = h.pending /\ (SameCert(h', h) \/ h'.certified = FALSE)
    BY <1>1, OthersKeep
  <2>1. gate' = gate /\ msg' = msg /\ rx' = rx /\ ts' = ts /\ rf' = rf
    BY <1>1 DEF CloseAsk, CloseDone
  <2> QED BY <2>0, <2>1, SameGate, SameDelivery DEF Times
<1>2. CASE Reopen
  <2>1. h'.pending = FALSE /\ h'.certified = FALSE BY <1>2 DEF Reopen, NewHandle
  <2>2. gate' = gate /\ ts' = ts /\ msg' = NoMsg /\ rx' = [NoBuffer EXCEPT !.ok = rx.ok]
    BY <1>2 DEF Reopen
  <2>3. rx'.at = "idle" /\ rx'.ok = rx.ok BY <2>2 DEF NoBuffer
  <2> QED BY <2>1, <2>2, <2>3, IdleGate DEF Times, Delivery, NoMsg
<1> QED BY <1>1, <1>2

-----------------------------------------------------------------------------
(* The transition calls.                                                   *)

LEMMA HolderGate ==
  ASSUME OneHolder', NEW c \in Callers, Holds(c)', GateOf(c)'
  PROVE  GateInv'
<1>1. \A d \in Callers \ {c} : ~ Holds(d)' BY DEF OneHolder
<1>2. \A d \in Callers : GateOf(d)' BY <1>1 DEF GateOf, Holds, Beginning, Waiting
<1>3. ~ Free' BY DEF Free
<1> QED BY <1>2, <1>3 DEF GateInv

LEMMA CallDelivery ==
  ASSUME Shape, Owned, Owned', Revocation, EpochIds, Times, GateInv, Delivery,
         NEW c \in Callers,
         \/ EnterBegin(c) \/ (\E t \in 1..h.txn : EnterWait(c, t))
         \/ CallSteps(c) \/ ReadFails(c) \/ DeadlinePasses(c)
  PROVE  Times' /\ GateInv' /\ Delivery'
<1> USE DEF Shape
<1>0. GateOf(c) /\ EpochOf(c) /\ OneHolder' BY DEF GateInv, EpochIds, Owned
<1>00. ASSUME gate' = gate, msg' = msg, rx' = rx, ts' = ts PROVE Times'
  BY <1>00 DEF Times
\* A call that holds nothing.
<1>1. ASSUME ~ Holds(c), call'[c].at \in {"out", "check", "join"},
             \A d \in Callers \ {c} : call'[d] = call[d],
             SameConfig(h', h), SameCert(h', h), rf' = rf,
             gate' = gate, msg' = msg, rx' = rx, ts' = ts
      PROVE  Times' /\ GateInv' /\ Delivery'
  <2>1. \A d \in Callers \ {c} : GateOf(d)'
    BY <1>1 DEF GateInv, GateOf, SameConfig, Unfenced, Fencing, Fenced, Opening, Opened, Pure,
                Before, ArmKnown, Lost
  <2>2. GateOf(c)' BY <1>1 DEF GateOf
  <2>3. Free' => Free BY <1>1 DEF Free, Holds
  <2>4. h'.pending /\ h'.epochReq /\ Free' => Fenced'
    BY <1>1, <2>3 DEF GateInv, SameConfig, Fenced, ArmKnown, Lost
  <2>5. GateInv' BY <2>1, <2>2, <2>4 DEF GateInv
  <2> QED BY <1>00, <1>1, <2>5, SameDelivery
<1>2. CASE EnterBegin(c) \/ BeginRefused(c)
  <2>1. SameConfig(h', h) /\ SameCert(h', h)
    BY <1>2, LeavesFields DEF EnterBegin, BeginRefused, Handle, SameConfig, SameCert
  <2>2. call'[c].at \in {"out", "check", "join"} /\ \A d \in Callers \ {c} : call'[d] = call[d]
    BY <1>2, GoesTo, EndsCall DEF EnterBegin, BeginRefused
  <2>3. ~ Holds(c) BY <1>2 DEF EnterBegin, BeginRefused, Holds, Beginning, Waiting, Failing
  <2> QED BY <1>1, <1>2, <2>1, <2>2, <2>3 DEF EnterBegin, BeginRefused
<1>3. ASSUME NEW t \in 1..h.txn, EnterWait(c, t) PROVE Times' /\ GateInv' /\ Delivery'
  <2>1. /\ h' = [h EXCEPT !.calls = @ + 1] /\ rf' = rf
        /\ gate' = gate /\ msg' = msg /\ rx' = rx /\ ts' = ts
    BY <1>3 DEF EnterWait
  <2>2. call' = [call EXCEPT ![c].at = "join", ![c].txn = t] BY <1>3 DEF EnterWait
  <2>3. call'[c].at = "join" /\ \A d \in Callers \ {c} : call'[d] = call[d]
    BY <2>2 DEF Call
  <2>4. SameConfig(h', h) /\ SameCert(h', h) BY <2>1 DEF Handle, SameConfig, SameCert
  <2>5. ~ Holds(c) BY <1>3 DEF EnterWait, Holds, Beginning, Waiting, Failing
  <2> QED BY <1>1, <2>1, <2>3, <2>4, <2>5
<1>4. ASSUME NEW e \in BOOLEAN, NEW d \in BOOLEAN, BeginAccept(c, e, d)
      PROVE  Times' /\ GateInv' /\ Delivery'
  <2>1. SameCert(h', h) /\ rf' = rf /\ gate' = gate /\ msg' = msg /\ rx' = rx /\ ts' = ts
    BY <1>4 DEF BeginAccept, Handle, SameCert
  <2>2. call'[c].at = "revoke" BY <1>4 DEF BeginAccept, Call
  <2>3. Holds(c)' /\ GateOf(c)' BY <2>2 DEF Holds, Beginning, GateOf
  <2> QED BY <1>0, <1>00, <2>1, <2>3, HolderGate, SameDelivery
\* The holder goes on without a command to the gate.
<1>5. ASSUME NEW at, Goes(c, at), at \in Beginning \cup Waiting \cup Failing,
             gate' = gate, msg' = msg, rx' = rx, ts' = ts,
             (SameCert(h', h) /\ rf' = rf) \/ h'.certified = FALSE,
             GateOf(c)'
      PROVE  Times' /\ GateInv' /\ Delivery'
  <2>1. Holds(c)' BY <1>5, GoesTo DEF Holds
  <2> QED BY <1>0, <1>00, <1>5, <2>1, HolderGate, SameDelivery
\* The holder gives up.
<1>6. ASSUME NEW at \in Failing, Goes(c, at), gate' = gate, msg' = msg, rx' = rx, ts' = ts,
             (SameCert(h', h) /\ rf' = rf) \/ h'.certified = FALSE
      PROVE  Times' /\ GateInv' /\ Delivery'
  <2>1. call'[c].at = at BY <1>6, GoesTo
  <2>2. GateOf(c)' BY <1>6, <2>1 DEF GateOf, Failing
  <2> QED BY <1>5, <1>6, <2>2
<1>7. CASE BeginRevoke(c)
  <2>1. SameConfig(h', h) /\ ((SameCert(h', h) /\ Goes(c, "fail")) \/ h'.certified = FALSE)
    BY <1>7, RevokedFields DEF BeginRevoke, SameConfig, SameCert
  <2>2. /\ rf' = rf /\ gate' = gate /\ msg' = msg /\ rx' = rx /\ ts' = ts
        /\ Goes(c, "fail") \/ Goes(c, "prepare") \/ (Goes(c, "tune") /\ ~ h.epochReq)
    BY <1>7 DEF BeginRevoke
  <2>3. CASE Goes(c, "fail") BY <1>6, <2>1, <2>2, <2>3 DEF Failing
  <2>4. CASE ~ Goes(c, "fail")
    <3>1. GateOf(c)' BY <2>1, <2>2, <2>4, GoesTo DEF GateOf, SameConfig
    <3> QED BY <1>5, <2>1, <2>2, <2>4, <3>1 DEF Beginning
  <2> QED BY <2>3, <2>4
\* A command other than ABORT, and an ABORT, of the holder.
<1>8. ASSUME NEW at, Goes(c, at), at \in Beginning \cup Waiting \cup Failing,
             gate'.first = gate.first, msg' = msg, rx' = rx, ts' = ts, SameCert(h', h),
             ~ h.certified, GateOf(c)'
      PROVE  Times' /\ GateInv' /\ Delivery'
  <2>1. Holds(c)' BY <1>8, GoesTo DEF Holds
  <2>2. Delivery' BY <1>8 DEF Delivery, SameCert
  <2> QED BY <1>0, <1>8, <2>1, <2>2, HolderGate DEF Times
<1>9. \A x, id : (Toggled(x, id) => gate'.first = gate.first)
                 /\ (CommandFails(x, id) => gate'.first = gate.first)
  BY DEF Toggled, CommandFails, GateState
<1>10. CASE BeginPrepare(c) \/ BeginDrain(c)
  <2>1. SameCert(h', h) BY <1>10 DEF BeginPrepare, BeginDrain, Handle, SameCert
  <2>2. /\ msg' = msg /\ rx' = rx /\ ts' = ts /\ gate'.first = gate.first
        /\ call[c].at \in {"prepare", "drain"}
        /\ \/ Goes(c, "arm") /\ gate' = gate /\ gate.st \in {"ACTIVE", "ERROR"}
           \/ Goes(c, "drain") \/ Goes(c, "fail")
    BY <1>9, <1>10 DEF BeginPrepare, BeginDrain
  <2>3. ~ h.certified BY <2>2 DEF Revocation, Holds, Beginning
  <2>4. GateOf(c)' BY <2>2, GoesTo DEF GateOf, Unfenced
  <2> QED BY <1>8, <2>1, <2>2, <2>3, <2>4 DEF Beginning, Failing
<1>11. CASE BeginArm(c)
  <2>1. /\ msg' = msg /\ rx' = rx /\ ts' = ts /\ h' = h /\ gate'.first = gate.first
        /\ call[c].at = "arm"
        /\ (Goes(c, "fence") /\ Toggled("arm", h.epoch)) \/ Goes(c, "fail")
    BY <1>9, <1>11 DEF BeginArm
  <2>2. ~ h.certified BY <2>1 DEF Revocation, Holds, Beginning
  <2>3. GateOf(c)'
    <3>1. CASE Goes(c, "fail") BY <3>1, GoesTo DEF GateOf
    <3>2. CASE Goes(c, "fence") /\ Toggled("arm", h.epoch)
      <4>1. Unfenced BY <1>0, <2>1 DEF GateOf
      <4>2. /\ gate'.st = gate.st /\ gate'.cmdId = h.epoch
            /\ gate.cmd = {} => gate'.cmd \subseteq {"arm"}
        BY <3>2 DEF Toggled, GateState
      <4>3. Fencing' BY <2>1, <4>1, <4>2 DEF Unfenced, Fencing, ArmKnown
      <4> QED BY <3>2, <4>3, GoesTo DEF GateOf
    <3> QED BY <2>1, <3>1, <3>2
  <2> QED BY <1>8, <2>1, <2>2, <2>3 DEF Beginning, Failing, SameCert
<1>12. CASE BeginFence(c)
  <2>1. /\ gate' = gate /\ msg' = msg /\ rx' = rx /\ ts' = ts /\ h' = h /\ rf' = rf
        /\ call[c].at = "fence"
        /\ \/ Goes(c, "fail")
           \/ Goes(c, "tune") /\ gate.st = "PENDING" /\ gate.id = h.epoch
    BY <1>12 DEF BeginFence
  <2>2. Goes(c, "tune") /\ gate.st = "PENDING" /\ gate.id = h.epoch => Fenced'
    BY <1>0, <2>1 DEF GateOf, Fencing, Fenced, ArmKnown
  <2>3. GateOf(c)' BY <2>1, <2>2, GoesTo DEF GateOf
  <2> QED BY <1>5, <2>1, <2>3 DEF Beginning, Failing, SameCert
<1>13. CASE BeginTune(c)
  <2>1. SameCert(h', h) /\ h'.epoch = h.epoch /\ h'.epochReq = h.epochReq
    BY <1>13 DEF BeginTune, Handle, SameCert
  <2>2. /\ gate' = gate /\ msg' = msg /\ rx' = rx /\ ts' = ts /\ call[c].at = "tune"
        /\ Goes(c, "fail") \/ Goes(c, "back")
    BY <1>13 DEF BeginTune
  <2>3. ~ h.certified BY <2>2 DEF Revocation, Holds, Beginning
  <2>4. GateOf(c)'
    BY <1>0, <2>1, <2>2, GoesTo DEF GateOf, Fenced, ArmKnown, Lost
  <2> QED BY <1>8, <2>1, <2>2, <2>3, <2>4 DEF Beginning, Failing
<1>14. CASE BeginReadback(c)
  <2>1. gate' = gate /\ msg' = msg /\ rx' = rx /\ ts' = ts /\ rf' = rf /\ call[c].at = "back"
    BY <1>14 DEF BeginReadback
  <2>2. CASE h' = h /\ Goes(c, "fail") BY <1>6, <2>1, <2>2 DEF Failing, SameCert
  <2>3. CASE h' = Leaves([h EXCEPT !.readback = rf]) /\ Ends(c)
    <3>1. /\ SameCert(h', h) /\ h'.epoch = h.epoch /\ h'.epochReq = h.epochReq
          /\ h'.txn = h.txn /\ h'.pending = h.pending /\ h'.waiting = h.waiting
      BY <2>3 DEF Handle, Leaves, SameCert
    <3>2. Holds(c) BY <2>1 DEF Holds, Beginning
    <3>3. Free' BY <2>3, <3>1, <3>2, HolderLeaves DEF Owned
    <3>4. h.epochReq => Fenced BY <1>0, <2>1 DEF GateOf
    <3>5. h'.epochReq => Fenced' BY <2>1, <3>1, <3>4 DEF Fenced, ArmKnown, Lost
    <3>6. \A d \in Callers : GateOf(d)' BY <3>3 DEF Free, Holds, GateOf, Beginning, Waiting
    <3>7. GateInv' BY <3>5, <3>6 DEF GateInv
    <3> QED BY <1>00, <2>1, <3>1, <3>7, SameDelivery
  <2> QED BY <1>14, <2>2, <2>3 DEF BeginReadback
<1>15. CASE WaitJoin(c)
  <2>0. /\ gate' = gate /\ msg' = msg /\ rx' = rx /\ ts' = ts /\ rf' = rf
        /\ ~ Holds(c) /\ call[c].at = "join"
    BY <1>15 DEF WaitJoin, Holds, Beginning, Waiting, Failing
  <2>1. CASE /\ h.pending /\ h.txn = call[c].txn /\ ~ h.waiting
             /\ h' = [h EXCEPT !.waiting = TRUE]
             /\ Goes(c, "poll")
    <3>1. h'.epoch = h.epoch /\ h'.epochReq = h.epochReq /\ SameCert(h', h)
      BY <2>1 DEF Handle, SameCert
    <3>2. Free BY <2>0, <2>1 DEF Owned, OneHolder, Free
    <3>3. h.epochReq => Fenced BY <2>1, <3>2 DEF GateInv
    <3>4. h'.epochReq => Fenced' BY <2>0, <3>1, <3>3 DEF Fenced, ArmKnown, Lost
    <3>5. GateOf(c)' BY <2>1, <3>4, GoesTo DEF GateOf
    <3> QED BY <1>5, <2>0, <2>1, <3>1, <3>5 DEF Waiting
  <2>2. CASE h' = Leaves(h) /\ Ends(c)
    BY <1>1, <2>0, <2>2, LeavesFields, EndsCall
  <2> QED BY <1>15, <2>1, <2>2 DEF WaitJoin
<1>16. CASE WaitPoll(c)
  <2>1. /\ gate' = gate /\ msg' = msg /\ rx' = rx /\ ts' = ts /\ h' = h /\ rf' = rf
        /\ call[c].at = "poll"
        /\ Goes(c, "fail") \/ Goes(c, "commit") \/ (Goes(c, "complete") /\ h.epochReq)
    BY <1>16 DEF WaitPoll
  <2>2. h.epochReq => Fenced' BY <1>0, <2>1 DEF GateOf, Fenced, ArmKnown, Lost
  <2>3. GateOf(c)' BY <2>1, <2>2, GoesTo DEF GateOf
  <2> QED BY <1>5, <2>1, <2>3 DEF Waiting, Failing, SameCert
<1>17. CASE WaitComplete(c)
  <2>1. /\ msg' = msg /\ rx' = rx /\ ts' = ts /\ h' = h /\ gate'.first = gate.first
        /\ call[c].at = "complete"
        /\ (Goes(c, "open") /\ Toggled("complete", 0)) \/ Goes(c, "fail")
    BY <1>9, <1>17 DEF WaitComplete
  <2>2. ~ h.certified BY <2>1 DEF Revocation, Holds, Waiting
  <2>3. GateOf(c)'
    <3>1. CASE Goes(c, "fail") BY <3>1, GoesTo DEF GateOf
    <3>2. CASE Goes(c, "open") /\ Toggled("complete", 0)
      <4>1. Fenced BY <1>0, <2>1 DEF GateOf
      <4>2. /\ gate'.st = gate.st /\ gate'.id = gate.id /\ gate'.cmdId = gate.cmdId
            /\ gate'.link = gate.link
            /\ gate'.cmd \subseteq gate.cmd \cup {"complete"}
        BY <3>2 DEF Toggled, GateState
      <4>3. Opening' BY <2>1, <4>1, <4>2 DEF Fenced, Opening, ArmKnown, Lost
      <4> QED BY <3>2, <4>3, GoesTo DEF GateOf
    <3> QED BY <2>1, <3>1, <3>2
  <2> QED BY <1>8, <2>1, <2>2, <2>3 DEF Waiting, Failing, SameCert
<1>18. CASE WaitOpen(c)
  <2>1. /\ gate' = gate /\ msg' = msg /\ rx' = rx /\ ts' = ts /\ h' = h /\ rf' = rf
        /\ call[c].at = "open"
        /\ Goes(c, "fail") \/ (Goes(c, "stamp") /\ GateIsActive(h.epoch))
    BY <1>18 DEF WaitOpen
  <2>2. h.epoch # 0
    <3>1. Holds(c) /\ h.waiting /\ h.pending /\ h.epochReq
      BY <1>0, <2>1 DEF Holds, Waiting, Owned, OneHolder, EpochOf
    <3> QED BY <3>1 DEF EpochIds
  <2>3. GateIsActive(h.epoch) => Opened
    BY <1>0, <2>1, <2>2 DEF GateOf, Opening, Lost, GateIsActive
  <2>4. Opened => Opened' BY <2>1 DEF Opened, Pure, Before
  <2>5. GateOf(c)' BY <2>1, <2>3, <2>4, GoesTo DEF GateOf
  <2> QED BY <1>5, <2>1, <2>5 DEF Waiting, Failing, SameCert
<1>19. CASE WaitStamp(c)
  <2>1. /\ gate' = gate /\ msg' = msg /\ rx' = rx /\ ts' = ts /\ h' = h /\ rf' = rf
        /\ call[c].at = "stamp"
    BY <1>19 DEF WaitStamp
  <2>2. call'[c].at = "link" /\ call'[c].first = gate.first BY <1>19 DEF WaitStamp, Call
  <2>3. Opened => Opened' BY <2>1 DEF Opened, Pure, Before
  <2>4. GateOf(c)' /\ Holds(c)' BY <1>0, <2>1, <2>2, <2>3 DEF GateOf, Holds, Waiting
  <2> QED BY <1>0, <1>00, <2>1, <2>4, HolderGate, SameDelivery DEF SameCert
<1>20. CASE WaitLink(c)
  <2>1. /\ gate' = gate /\ msg' = msg /\ rx' = rx /\ ts' = ts /\ h' = h /\ rf' = rf
        /\ call[c].at = "link"
        /\ Goes(c, "fail") \/ (Goes(c, "certify") /\ gate.link)
    BY <1>20 DEF WaitLink, LinkValid
  <2>2. gate.link => Pure(call[c].first) /\ Before(call[c].first)
    BY <1>0, <2>1 DEF GateOf, Opened
  <2>3. call'[c].first = call[c].first BY <2>1, GoesTo
  <2>4. gate.link => Pure(call[c].first)' /\ Before(call[c].first)'
    BY <2>1, <2>2, <2>3 DEF Pure, Before
  <2>5. GateOf(c)' BY <2>1, <2>4, GoesTo DEF GateOf
  <2> QED BY <1>5, <2>1, <2>5 DEF Waiting, Failing, SameCert
<1>21. CASE WaitCertify(c)
  <2>1. /\ gate' = gate /\ msg' = msg /\ rx' = rx /\ ts' = ts /\ rf' = rf
        /\ call[c].at = "certify"
    BY <1>21 DEF WaitCertify
  <2>2. call'[c].at \in {"data", "commit"} BY <1>21 DEF WaitCertify, Call
  <2>3. h'.cert.first = call[c].first BY <1>21 DEF WaitCertify, Certified, Handle
  <2>4. GateOf(c)' /\ Holds(c)' BY <2>2 DEF GateOf, Holds, Waiting
  <2>5. Pure(call[c].first) /\ Before(call[c].first) BY <1>0, <2>1 DEF GateOf
  <2>6. Pure(h.cert.first)' BY <2>1, <2>3, <2>5 DEF Pure
  <2>7. rx'.at = "parsed" => rx'.first # h'.cert.first
    BY <2>1, <2>3, <2>5 DEF Before, Buffer, Call
  <2>8. Delivery' BY <2>1, <2>6, <2>7 DEF Delivery
  <2> QED BY <1>0, <1>00, <2>1, <2>4, <2>8, HolderGate
<1>22. CASE WaitData(c)
  <2>1. /\ gate' = gate /\ msg' = msg /\ rx' = rx /\ ts' = ts /\ h' = h /\ rf' = rf
        /\ Goes(c, "fail") \/ Goes(c, "commit")
    BY <1>22 DEF WaitData
  <2>2. GateOf(c)' BY <2>1, GoesTo DEF GateOf
  <2> QED BY <1>5, <2>1, <2>2 DEF Waiting, Failing, SameCert
<1>23. CASE WaitCommit(c) \/ FailClear(c)
  <2>1. gate' = gate /\ msg' = msg /\ rx' = rx /\ ts' = ts /\ rf' = rf
    BY <1>23 DEF WaitCommit, FailClear
  <2>2. CASE h' = h /\ Goes(c, "fail") BY <1>6, <2>1, <2>2 DEF Failing, SameCert
  <2>3. CASE h' = Leaves(Over)
    <3>1. h'.pending = FALSE /\ SameCert(h', h) BY <2>3, OverFields
    <3> QED BY <1>00, <2>1, <3>1, IdleGate, SameDelivery
  <2> QED BY <1>23, <2>2, <2>3 DEF WaitCommit, FailClear, Over
<1>24. CASE FailRevoke(c)
  <2>1. h'.certified = FALSE BY <1>24, RevokedFields DEF FailRevoke
  <2> QED BY <1>6, <1>24, <2>1 DEF FailRevoke, Failing
<1>25. CASE FailAbort(c)
  <2>1. /\ msg' = msg /\ rx' = rx /\ ts' = ts /\ h' = h /\ gate'.first = gate.first
        /\ call[c].at = "abort" /\ Goes(c, "clear")
    BY <1>9, <1>25 DEF FailAbort
  <2>2. ~ h.certified BY <2>1 DEF Revocation, Holds, Failing
  <2>3. GateOf(c)' BY <2>1, GoesTo DEF GateOf
  <2> QED BY <1>8, <2>1, <2>2, <2>3 DEF Failing, SameCert
<1>26. CASE ReadFails(c) \/ DeadlinePasses(c)
  <2>1. /\ gate' = gate /\ msg' = msg /\ rx' = rx /\ ts' = ts /\ h' = h /\ rf' = rf
        /\ Goes(c, "fail")
    BY <1>26 DEF ReadFails, DeadlinePasses
  <2> QED BY <1>6, <2>1 DEF Failing, SameCert
<1> QED BY <1>2, <1>3, <1>4, <1>7, <1>10, <1>11, <1>12, <1>13, <1>14, <1>15, <1>16, <1>17,
           <1>18, <1>19, <1>20, <1>21, <1>22, <1>23, <1>24, <1>25, <1>26 DEF CallSteps

-----------------------------------------------------------------------------
IInv == Shape /\ Owned /\ Revocation /\ EpochIds /\ Times /\ GateInv /\ Delivery

LEMMA IInvInit == Init => IInv
<1> SUFFICES ASSUME Init PROVE IInv OBVIOUS
<1>1. Shape /\ Owned /\ Revocation BY ShapeInit, OwnedInit, RevocationInit
<1>2. /\ h.pending = FALSE /\ h.certified = FALSE /\ h.readback = 0 /\ rf = 0
      /\ \A c \in Callers : call[c].at = "out"
  BY DEF Init, NewHandle, Idle
<1>3. EpochIds BY <1>2 DEF EpochIds, EpochOf
<1>4. GateInv BY <1>2 DEF GateInv, GateOf
<1>5. gate.first = 0 /\ msg.ts = 0 /\ rx.at = "idle" /\ rx.ok = TRUE /\ ts = 0
  BY DEF Init, NoMsg, NoBuffer
<1>6. Times /\ Delivery BY <1>2, <1>5 DEF Times, Delivery
<1> QED BY <1>1, <1>3, <1>4, <1>6 DEF IInv

LEMMA IInvStep == ASSUME ~ StreamLate, IInv, [Next]_vars PROVE IInv'
<1> USE DEF IInv
<1>1. Shape' /\ Owned' /\ EpochIds'
  BY ShapeStep, OwnedStep, EpochStep DEF Owned
<1>2. Revocation' BY <1>1, RevocationStep
<1>3. CASE UNCHANGED vars
  BY <1>1, <1>2, <1>3, SameGate DEF vars, Times, Delivery, Pure
<1>4. CASE Fpga BY <1>1, <1>2, <1>4, FpgaTimes, FpgaGate, FpgaDelivery
<1>5. CASE Next /\ ~ Fpga
  BY <1>1, <1>2, <1>5, ReaderDelivery, CallDelivery, SetterDelivery, MonitorDelivery,
     CloseDelivery DEF Next
<1> QED BY <1>3, <1>4, <1>5

\* The contract of the API: rx_async_buffer_valid() admits a buffer only when every
\* sample in it was taken under the configuration the certificate was issued for,
\* whatever commands, reads, gates and deadlines fail and however transitions,
\* setters, streams, the monitor, closes and the gate interleave.  StreamLate is
\* excluded, see OneOwnerHolds.
THEOREM OnlyCertifiedDelivered == ~ StreamLate => (Spec => []DeliveredCertified)
<1> SUFFICES ASSUME ~ StreamLate PROVE Spec => []DeliveredCertified OBVIOUS
<1>1. Init => IInv BY IInvInit
<1>2. IInv /\ [Next]_vars => IInv' BY IInvStep
<1>3. IInv => DeliveredCertified BY DEF IInv, Delivery, DeliveredCertified
<1> QED BY <1>1, <1>2, <1>3, PTL DEF Spec
=============================================================================
