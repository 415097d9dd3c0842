----------------------------- MODULE JobContract -----------------------------
(***************************************************************************)
(* What a job promises its client, with no queue, worker or crash in it.   *)
(* Every page moves forward only: it may gain a layout result, and it is   *)
(* settled once, as full, degraded or failed output.  The completion       *)
(* counter follows the settlements one by one.  A settlement is announced  *)
(* after it happened, and the job is closed after all of them.             *)
(***************************************************************************)
EXTENDS Integers

CONSTANT Pages

VARIABLES
    outcome,     \* per page: what the client can read of it
    count,       \* the completion counter
    announced,   \* pages whose settlement has been announced
    closed       \* has job.complete been announced?

vars == <<outcome, count, announced, closed>>

Settled == {"full", "degraded", "failed"}
Outcomes == {"none", "layout"} \cup Settled

Init ==
    /\ outcome = [p \in Pages |-> "none"]
    /\ count = 0
    /\ announced = {}
    /\ closed = FALSE

GainLayout(p) ==
    /\ outcome[p] = "none"
    /\ outcome' = [outcome EXCEPT ![p] = "layout"]
    /\ UNCHANGED <<count, announced, closed>>

(* Without a layout result there is nothing to serve: the page can only    *)
(* fail.                                                                   *)
Settle(p, o) ==
    /\ outcome[p] \notin Settled
    /\ outcome[p] = "none" => o = "failed"
    /\ outcome' = [outcome EXCEPT ![p] = o]
    /\ count' = count + 1
    /\ UNCHANGED <<announced, closed>>

Announce(p) ==
    /\ outcome[p] \in Settled /\ p \notin announced
    /\ announced' = announced \cup {p}
    /\ UNCHANGED <<outcome, count, closed>>

Close ==
    /\ ~closed
    /\ \A p \in Pages : outcome[p] \in Settled
    /\ closed' = TRUE
    /\ UNCHANGED <<outcome, count, announced>>

Next ==
    \/ \E p \in Pages :
        \/ GainLayout(p) \/ Announce(p)
        \/ \E o \in Settled : Settle(p, o)
    \/ Close

Spec == Init /\ [][Next]_vars

=============================================================================
