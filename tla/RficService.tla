---------------------------- MODULE RficService ----------------------------
(***************************************************************************)
(* What a caller of the RFIC command interface is promised: a submission   *)
(* runs at most once in the life of one NIOS image, a refused one never    *)
(* runs, and a caller is told "ok" or "failed" only of a submission that   *)
(* really ended so. RficCommand implements this over a lossy transport.    *)
(***************************************************************************)
CONSTANT Submissions

VARIABLES ran,    \* submissions that ran since the NIOS image started
          won,    \* submissions that ran successfully
          failed, \* submissions that ran and failed
          void,   \* submissions a caller was told will never run
          told    \* the last answer a caller got

vars == <<ran, won, failed, void, told>>

Answers == {"ok", "failed", "refused", "unknown"}

Init ==
    /\ ran = {} /\ won = {} /\ failed = {} /\ void = {}
    /\ told = [sub |-> 0, res |-> "unknown"]

\* Submission s runs.
Execute(s) ==
    /\ s \notin ran \cup void
    /\ ran' = ran \cup {s}
    /\ \/ won' = won \cup {s} /\ UNCHANGED failed
       \/ failed' = failed \cup {s} /\ UNCHANGED won
    /\ UNCHANGED <<void, told>>

\* A caller is told what became of submission s.
Tell(s, res) ==
    /\ res = "ok" => s \in won
    /\ res = "failed" => s \in failed
    /\ res = "refused" => s \notin ran
    /\ void' = IF res = "refused" THEN void \cup {s} ELSE void
    /\ told' = [sub |-> s, res |-> res]
    /\ UNCHANGED <<ran, won, failed>>

\* The NIOS image starts again.
Reboot == ran' = {} /\ UNCHANGED <<won, failed, void, told>>

Next ==
    \/ \E s \in Submissions : Execute(s)
    \/ \E s \in Submissions \cup {0}, res \in Answers : Tell(s, res)
    \/ Reboot

Spec == Init /\ [][Next]_vars
=============================================================================
