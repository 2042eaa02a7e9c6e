------------------------------- MODULE GitOpsWait -------------------------------
(***************************************************************************)
(* scripts/check-gitops.py --revision: one LIST of all applications per      *)
(* round, until every one of them is synced, healthy and at the revision.     *)
(* It is what an operator runs after bootstrap-gitops.py.                    *)
(***************************************************************************)
EXTENDS GitOps

VARIABLES
    expected,       \* --revision
    verdict,
    moved           \* history: the root was pinned again after the verdict

waitVars == <<expected, verdict, moved>>

WaitTypeOK ==
    /\ expected \in Revisions
    /\ verdict \in {"polling", "converged", "gave_up"}
    /\ moved \in BOOLEAN

WaitInit ==
    /\ expected \in Revisions
    /\ verdict = "polling"
    /\ moved = FALSE

\* The mutant of AtRevision: only what the last comparison was made with counts.
AtRevision_Compared(a) == compared[a].source.revision = expected

\* at_revision(): the desired source, and the one the status was compared to.
AtRevision(a) ==
    /\ source[a].revision = expected
    /\ compared[a].source.revision = expected

Converged == \A a \in Apps : AtRevision(a) /\ compared[a].synced /\ compared[a].healthy

\* A round that does not pass sleeps and asks again.
Poll ==
    /\ verdict = "polling"
    /\ Converged
    /\ verdict' = "converged"
    /\ UNCHANGED <<expected, moved>>

\* The deadline, or a failing kubectl.
StopWaiting ==
    /\ verdict = "polling"
    /\ verdict' = "gave_up"
    /\ UNCHANGED <<expected, moved>>

WaitNext ==
    \/ (Poll \/ StopWaiting) /\ UNCHANGED gitopsVars
    \/ (Controllers \/ \E d \in Deployments : Degrade(d)) /\ UNCHANGED waitVars
    \/ /\ \E r \in Revisions : Bootstrap(r)
       /\ moved' = (moved \/ verdict = "converged")
       /\ UNCHANGED <<expected, verdict>>
=============================================================================
