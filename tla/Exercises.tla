------------------------------- MODULE Exercises -------------------------------
(***************************************************************************)
(* The operational exercises together: one of them runs, in a cluster that   *)
(* moves meanwhile.  What the others own does not move.                      *)
(***************************************************************************)
EXTENDS RestoreDrill, PromotionCheck, RecoveryDrill, GitOpsWait

CONSTANT First         \* the revision the cluster runs at the start

ASSUME FirstAssumption == First \in Revisions

VARIABLE script        \* which exercise it is

vars == <<script, evidenceVars, restoreVars, gitopsVars, promotionVars, drillVars, waitVars>>

TypeOK ==
    /\ script \in {"backup", "promotion", "recovery", "wait"}
    /\ EvidenceTypeOK /\ RestoreTypeOK /\ GitOpsTypeOK /\ PromotionTypeOK
    /\ DrillTypeOK /\ WaitTypeOK

\* The recovery drill and the wait write no report.
Init ==
    /\ EvidenceInit
    /\ RestoreInit
    /\ \E enabled \in BOOLEAN : GitOpsInit(First, enabled)
    /\ PromotionInit
    /\ DrillInit
    /\ WaitInit
    /\ \/ script = "backup" /\ automated
       \/ script = "promotion" /\ automated /\ tables = Nothing
       \/ script = "recovery" /\ tables = Nothing /\ report.owner = "nobody"
       \/ script = "wait" /\ automated /\ tables = Nothing /\ report.owner = "nobody"
    /\ script # "promotion" => commit = source[Root].revision
    /\ script # "wait" => expected = source[Root].revision

Next ==
    /\ UNCHANGED script
    /\ \/ script = "backup" /\ RestoreNext /\ UNCHANGED <<gitopsVars, promotionVars, drillVars, waitVars>>
       \/ script = "promotion" /\ PromotionNext /\ UNCHANGED <<restoreVars, drillVars, waitVars>>
       \/ script = "recovery" /\ DrillNext /\ UNCHANGED <<evidenceVars, restoreVars, promotionVars, waitVars>>
       \/ script = "wait" /\ WaitNext /\ UNCHANGED <<evidenceVars, restoreVars, promotionVars, drillVars>>

Spec == Init /\ [][Next]_vars

\* Argo CD and the Deployment controllers go on.
FairSpec == Spec /\ GitOpsFairness

-----------------------------------------------------------------------------
(* Properties *)

Passed == report.owner = "this" /\ report.status = "passed"

\* A report of the promotion check says passed only if one round of readings found
\* every application at the commit and every Deployment running nothing but its
\* images: "stale Healthy status alone cannot pass" (docs/operational-proof.md).
\* And although the objects were read one after the other while they changed, it is
\* true of them all together, now, unless the root was pinned again since that
\* round read it.
AtCommit(o) ==
    IF o \in Apps THEN source[o] = At(commit) ELSE image[o] = commit /\ running[o] = commit

PromotionEarned ==
    Passed /\ script = "promotion" =>
        /\ confirmed = Apps \cup Deployments
        /\ ~repinned => \A o \in Apps \cup Deployments : AtCommit(o)

\* When check-gitops.py says PASS, all applications are at that revision and stay
\* there, self-healing included, until somebody pins the root again: although the
\* statuses it reads may be old, of an earlier time at that revision.
ConvergedHolds ==
    verdict = "converged" /\ ~moved => \A a \in Apps : source[a] = At(expected)

\* A report of the backup drill says passed only if the restored rows are those
\* both tables had at the instant of the dump, and had all the way from the first
\* fingerprint to the last: writers, and damage to the dump file, make it fail.
RestoreEarned ==
    Passed /\ script = "backup" =>
        /\ restored = snapshot
        /\ prints["before"] = snapshot /\ prints["after"] = snapshot

\* Evidence is never overwritten: not an earlier exercise's at the same path, nor
\* a verdict once it is written.
ReportFinal ==
    [][report.owner = "earlier" \/ report.status \in {"passed", "failed"} => report' = report]_vars

\* Two patches to undo, and either may fail.  Unless both do, a drill that was not
\* killed leaves a way back: the good source, or a root that will restore it.
UndoneOrHealing ==
    step \in {"passed", "failed"} /\ saved.automated /\ broken # {"undo_source", "undo_pause"}
        => ~source["shop-dev"].override \/ automated

\* And that way is taken: the pods of the api all run the good image again.
GoodImageReturns ==
    (step \in {"passed", "failed"} /\ saved.automated /\ broken # {"undo_source", "undo_pause"})
        ~> (image["api"] = saved.image /\ running["api"] = saved.image)
=============================================================================
