----------------------------- MODULE PromotionCheck -----------------------------
(***************************************************************************)
(* scripts/check-promotion.py: polls the applications and Deployments, one   *)
(* GET after the other, until a whole round matches the commit it was given. *)
(***************************************************************************)
EXTENDS Evidence, GitOps

VARIABLES
    commit,         \* --revision
    looked,         \* objects read in this round
    matches,        \* all of them matched
    confirmed,      \* history: those that were at the commit when they were read
    repinned        \* history: the root was pinned since it was last read

promotionVars == <<commit, looked, matches, confirmed, repinned>>

PromotionTypeOK ==
    /\ commit \in Revisions
    /\ looked \subseteq Apps \cup Deployments
    /\ matches \in BOOLEAN
    /\ confirmed \subseteq Apps \cup Deployments
    /\ repinned \in BOOLEAN

PromotionInit ==
    /\ commit \in Revisions
    /\ looked = {} /\ matches = TRUE /\ confirmed = {} /\ repinned = FALSE

\* app_matches().
AppMatches(a) ==
    /\ source[a].revision = commit
    /\ compared[a].source.revision = commit
    /\ compared[a].synced
    /\ compared[a].healthy

\* The mutant of RolloutMatches: whatever generation the counters are of.
RolloutMatches_AnyGeneration(d) == image[d] = commit /\ rolled[d]

\* rollout_matches().
RolloutMatches(d) == image[d] = commit /\ observed[d] /\ rolled[d]

\* expected_images(): the commit's overlay, from Git; nothing of the cluster.
ExpectedImages ==
    /\ pc = "images" /\ pc' = "poll"
    /\ UNCHANGED <<report, promotionVars>>

\* One GET: does the object match, and is it at the commit whatever it says?
Look(o, ok, is) ==
    /\ pc = "poll"
    /\ o \notin looked
    /\ looked' = looked \cup {o}
    /\ matches' = (matches /\ ok)
    /\ confirmed' = IF is THEN confirmed \cup {o} ELSE confirmed
    /\ UNCHANGED <<evidenceVars, commit>>

\* The root application first.
GetApp(a) ==
    /\ a = Root \/ Root \in looked
    /\ Look(a, AppMatches(a), source[a] = At(commit))
    /\ repinned' = (repinned /\ a # Root)

\* The mutant of GetDeployment: the Deployments are read in any order.
GetDeployment_Early(d) ==
    /\ Look(d, RolloutMatches(d), running[d] = commit)
    /\ UNCHANGED repinned

\* The Deployments after the applications.
GetDeployment(d) ==
    /\ Apps \subseteq looked
    /\ Look(d, RolloutMatches(d), running[d] = commit)
    /\ UNCHANGED repinned

\* A round is over; past the deadline require() raises (Raise of Evidence).
Decide ==
    /\ pc = "poll"
    /\ looked = Apps \cup Deployments
    /\ pc' = IF matches THEN "ready" ELSE "poll"
    /\ looked' = {} /\ matches' = TRUE
    /\ confirmed' = IF matches THEN confirmed ELSE {}
    /\ UNCHANGED <<report, commit, repinned>>

ReadyInside ==
    /\ pc = "ready" /\ pc' = "returned"
    /\ UNCHANGED <<report, promotionVars>>

PromotionStep ==
    \/ EvidenceNext("images") /\ UNCHANGED promotionVars
    \/ ExpectedImages
    \/ \E a \in Apps : GetApp(a)
    \/ \E d \in Deployments : GetDeployment(d)
    \/ Decide
    \/ ReadyInside

\* Meanwhile Argo CD, Kubernetes and an operator go on.
PromotionNext ==
    \/ PromotionStep /\ UNCHANGED gitopsVars
    \/ (Controllers \/ \E d \in Deployments : Degrade(d)) /\ UNCHANGED <<evidenceVars, promotionVars>>
    \/ /\ \E r \in Revisions : Bootstrap(r)
       /\ repinned' = TRUE
       /\ UNCHANGED <<evidenceVars, commit, looked, matches, confirmed>>
=============================================================================
