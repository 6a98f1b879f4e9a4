----------------------------- MODULE RunLedger -----------------------------
(***************************************************************************)
(* What the table scrape_runs promises of the runs that were triggered: a  *)
(* run begins once, ends once with one outcome, which is final, or is lost *)
(* with its process and has none.                                          *)
(***************************************************************************)
CONSTANT Runs

VARIABLES life, outcome

Outcomes == {"success", "partial", "failed"}

Init ==
    /\ life = [r \in Runs |-> "waiting"]
    /\ outcome = [r \in Runs |-> "none"]

Begin(r) ==
    /\ life[r] = "waiting"
    /\ life' = [life EXCEPT ![r] = "running"]
    /\ UNCHANGED outcome

End(r) ==
    /\ life[r] = "running"
    /\ life' = [life EXCEPT ![r] = "ended"]
    /\ \E how \in Outcomes : outcome' = [outcome EXCEPT ![r] = how]

(* Runs that share a process are lost together. *)
Lose(group) ==
    /\ \A r \in group : life[r] \in {"waiting", "running"}
    /\ life' = [r \in Runs |-> IF r \in group THEN "lost" ELSE life[r]]
    /\ UNCHANGED outcome

Next ==
    \/ \E r \in Runs : Begin(r) \/ End(r)
    \/ \E group \in SUBSET Runs : Lose(group)

Spec == Init /\ [][Next]_<<life, outcome>>
=============================================================================
