-------------------------------- MODULE GitOps --------------------------------
(***************************************************************************)
(* The cluster the promotion check and the recovery drill look at: the root  *)
(* application and its children under Argo CD, and the Deployments of shop.   *)
(* Argo CD and Kubernetes are not in this repository; they are modelled by    *)
(* the fields the scripts read and by how late those fields may be.           *)
(***************************************************************************)
EXTENDS Naturals

CONSTANTS
    Revisions,      \* commits that can be selected
    Children,       \* applications the root manages
    Deployments,
    Missing,        \* the image that cannot be pulled
    Mixed           \* pods of more than one image

ASSUME GitOpsAssumption ==
    /\ "shop-dev" \in Children
    /\ "api" \in Deployments
    /\ {Missing, Mixed} \cap Revisions = {}
    /\ (Children \cup {"kube-foundry"}) \cap Deployments = {}

VARIABLES
    source,         \* spec.source: revision, and the image override of the drill
    automated,      \* the root's syncPolicy.automated is enabled
    compared,       \* status of the last refresh: source compared to, sync, health
    image,          \* the image of the Deployment's template, named by its revision
    observed,       \* observedGeneration has reached the generation
    rolled,         \* all four counters of the status equal the desired replicas
    running         \* the image all its pods run

gitopsVars == <<source, automated, compared, image, observed, rolled, running>>

Root == "kube-foundry"
Apps == Children \cup {Root}
Sources == [revision : Revisions, override : BOOLEAN]
Images == Revisions \cup {Missing}
At(r) == [revision |-> r, override |-> FALSE]

GitOpsTypeOK ==
    /\ source \in [Apps -> Sources]
    /\ automated \in BOOLEAN
    /\ compared \in [Apps -> [source : Sources, synced : BOOLEAN, healthy : BOOLEAN]]
    /\ image \in [Deployments -> Images]
    /\ observed \in [Deployments -> BOOLEAN]
    /\ rolled \in [Deployments -> BOOLEAN]
    /\ running \in [Deployments -> Images \cup {Mixed}]

\* Everything runs revision r; a killed drill may have left the root paused.
GitOpsInit(r, enabled) ==
    /\ source = [a \in Apps |-> At(r)]
    /\ automated = enabled
    /\ compared = [a \in Apps |-> [source |-> At(r), synced |-> TRUE, healthy |-> TRUE]]
    /\ image = [d \in Deployments |-> r]
    /\ observed = [d \in Deployments |-> TRUE]
    /\ rolled = [d \in Deployments |-> TRUE]
    /\ running = [d \in Deployments |-> r]

\* The override of the drill names the api image only.
Wanted(s, d) == IF s.override /\ d = "api" THEN Missing ELSE s.revision

-----------------------------------------------------------------------------
\* bootstrap-gitops.py: the root is pinned to a revision, its children by patches.
Bootstrap(r) ==
    /\ source' = [source EXCEPT ![Root] = At(r)]
    /\ UNCHANGED <<automated, compared, image, observed, rolled, running>>

InSync(a) ==
    CASE a = Root -> \A c \in Children : source[c] = source[Root]
      [] a = "shop-dev" -> \A d \in Deployments : image[d] = Wanted(source[a], d)
      [] OTHER -> TRUE

Healthy(a) == a = "shop-dev" => \A d \in Deployments : observed[d] /\ rolled[d]

\* Argo compares at a time of its own; until then the status is the old one.
Refresh(a) ==
    /\ compared' = [compared EXCEPT ![a] =
                        [source |-> source[a], synced |-> InSync(a), healthy |-> Healthy(a)]]
    /\ UNCHANGED <<source, automated, image, observed, rolled, running>>

\* The root's sync, by itself or healing: a child's source is as Git has it.
SyncChild(c) ==
    /\ automated
    /\ source[c] # source[Root]
    /\ source' = [source EXCEPT ![c] = source[Root]]
    /\ UNCHANGED <<automated, compared, image, observed, rolled, running>>

\* The sync of shop-dev, one resource at a time: a new generation.
Apply(d) ==
    /\ image[d] # Wanted(source["shop-dev"], d)
    /\ image' = [image EXCEPT ![d] = Wanted(source["shop-dev"], d)]
    /\ observed' = [observed EXCEPT ![d] = FALSE]
    /\ UNCHANGED <<source, automated, compared, rolled, running>>

\* The Deployment's controller catches up and begins to replace pods.
Observe(d) ==
    /\ ~observed[d]
    /\ observed' = [observed EXCEPT ![d] = TRUE]
    /\ running' = [running EXCEPT ![d] = IF @ = image[d] THEN @ ELSE Mixed]
    /\ rolled' = [rolled EXCEPT ![d] = rolled[d] /\ running[d] = image[d]]
    /\ UNCHANGED <<source, automated, compared, image>>

\* The last old pod is gone, and the status says so.
RollOut(d) ==
    /\ observed[d]
    /\ image[d] # Missing
    /\ ~rolled[d]
    /\ running' = [running EXCEPT ![d] = image[d]]
    /\ rolled' = [rolled EXCEPT ![d] = TRUE]
    /\ UNCHANGED <<source, automated, compared, image, observed>>

\* A pod becomes unready.
Degrade(d) ==
    /\ rolled[d]
    /\ rolled' = [rolled EXCEPT ![d] = FALSE]
    /\ UNCHANGED <<source, automated, compared, image, observed, running>>

Controllers ==
    \/ \E a \in Apps : Refresh(a)
    \/ \E c \in Children : SyncChild(c)
    \/ \E d \in Deployments : Apply(d) \/ Observe(d) \/ RollOut(d)

GitOpsFairness ==
    /\ \A a \in Apps : WF_gitopsVars(Refresh(a))
    /\ \A c \in Children : WF_gitopsVars(SyncChild(c))
    /\ \A d \in Deployments : WF_gitopsVars(Apply(d) \/ Observe(d) \/ RollOut(d))
=============================================================================
