------------------------------- MODULE Delivery -------------------------------
(***************************************************************************)
(* Image delivery: one run at a time of the workflow "Publish and deploy"   *)
(* (images, scripts/update-images.py, scripts/prepare-delivery.py), the      *)
(* delivery branches it pushes, and the pull requests that reach the         *)
(* protected main through scripts/check-delivery.py.                         *)
(*                                                                           *)
(* A commit of main is its position in `main`; of its tree only the          *)
(* development image overlay and "something else changed" are told apart.    *)
(***************************************************************************)
EXTENDS Naturals, Sequences

CONSTANTS
    COMPONENTS,     \* api, worker, web
    Pulls,          \* bound: pull requests ever opened
    MaxMain,        \* bound: commits of main
    MaxBuilds,      \* bound: images pushed under one tag
    None            \* no branch; also the overlay main starts with

ASSUME DeliveryAssumption ==
    /\ MaxMain \in Nat \ {0}
    /\ MaxBuilds \in Nat \ {0}

VARIABLES
    main,           \* the commits: overlay, and whether other paths changed
    registry,       \* images pushed so far, per revision and component
    public,         \* components whose package can be pulled anonymously
    delivery,       \* branches delivery/dev-<revision>
    pulls,          \* pull requests
    jpc,            \* what the workflow run does next
    revision,       \* its GITHUB_SHA
    todo,           \* images it has still to publish
    rendered        \* the overlay in its working tree

jobVars == <<jpc, revision, todo, rendered>>
vars == <<main, registry, public, delivery, pulls, jobVars>>

Revisions == 1..MaxMain
Tip == Len(main)

\* An overlay names a revision and, per component, which of the images pushed
\* under it; written by hand it may name anything.
Overlays == [source : Revisions, digest : [COMPONENTS -> 1..MaxBuilds]]
ByHand == [source |-> 1, digest |-> [c \in COMPONENTS |-> MaxBuilds]]

\* A branch is one commit on its parent; 0: main has been merged into it since.
Branches == [parent : Revisions \cup {0}, overlay : Overlays]

ASSUME NoneAssumption == None \notin Overlays \cup Branches

\* The merge base and the tree of a head, and the commit of main it was checked at.
Heads == [state : {"open"}, branch : 0..MaxMain, base : Revisions, overlay : Overlays \cup {None},
          edits : BOOLEAN, other : BOOLEAN, passed : 0..MaxMain]
NoPull == [state |-> "none"]
Closed == [state |-> "merged"]

TypeOK ==
    /\ main \in Seq([overlay : Overlays \cup {None}, other : BOOLEAN])
    /\ Len(main) \in Revisions
    /\ registry \in [Revisions -> [COMPONENTS -> 0..MaxBuilds]]
    /\ public \subseteq COMPONENTS
    /\ delivery \in [Revisions -> Branches \cup {None}]
    /\ pulls \in [Pulls -> Heads \cup {NoPull, Closed}]
    /\ jpc \in {"ended", "publish", "update", "resolve", "prepare", "recheck",
                "remote", "push", "done"}
    /\ revision \in 1..Len(main)
    /\ todo \subseteq COMPONENTS
    /\ rendered \in Overlays \cup {None}
    /\ \A r \in Revisions : r > Len(main) =>
        delivery[r] = None /\ registry[r] = [c \in COMPONENTS |-> 0]

Init ==
    /\ main = << [overlay |-> None, other |-> TRUE] >>
    /\ registry = [r \in Revisions |-> [c \in COMPONENTS |-> 0]]
    /\ public = {}
    /\ delivery = [r \in Revisions |-> None]
    /\ pulls = [p \in Pulls |-> NoPull]
    /\ jpc = "ended" /\ revision = 1 /\ todo = {} /\ rendered = None

-----------------------------------------------------------------------------
(* The workflow *)

\* public_digest(): the newest image of the tag; 0: missing, or a private package.
Digest(r, c) == IF c \in public THEN registry[r][c] ELSE 0

\* The mutant of Resolvable: one component that resolves is enough.
Resolvable_Any(r) == \E c \in COMPONENTS : Digest(r, c) > 0

\* render(), which raises unless every component resolves.
Resolvable(r) == \A c \in COMPONENTS : Digest(r, c) > 0
Render(r) == [source |-> r, digest |-> [c \in COMPONENTS |-> Digest(r, c)]]

Step(from, to) ==
    /\ jpc = from
    /\ jpc' = to
    /\ UNCHANGED <<main, public, pulls, revision>>

\* A run for any commit that was once the tip: a push, a dispatch, or a rerun,
\* which may leave out the images that are already published.  The concurrency
\* group lets no second run start.
StartRun(r, images) ==
    /\ jpc \in {"ended", "done"}
    /\ \A c \in COMPONENTS \ images : registry[r][c] > 0
    /\ jpc' = "publish"
    /\ revision' = r
    /\ todo' = images
    /\ rendered' = None
    /\ UNCHANGED <<main, registry, public, delivery, pulls>>

\* docker push of one component of the matrix, to the tag of the revision.
Publish(c) ==
    /\ Step("publish", "publish")
    /\ c \in todo
    /\ registry[revision][c] < MaxBuilds
    /\ todo' = todo \ {c}
    /\ registry' = [registry EXCEPT ![revision][c] = @ + 1]
    /\ UNCHANGED <<delivery, rendered>>

\* A package is private until its owner changes it, once its first image is there.
MakePublic(c) ==
    /\ c \notin public
    /\ \E r \in Revisions : registry[r][c] > 0
    /\ public' = public \cup {c}
    /\ UNCHANGED <<main, registry, delivery, pulls, jobVars>>

\* Only after all of them; "Reject stale delivery" on a fresh checkout of main.
Checkout ==
    /\ todo = {}
    /\ Step("publish", IF Tip = revision THEN "resolve" ELSE "ended")
    /\ UNCHANGED <<registry, delivery, todo, rendered>>

\* update-images.py: the overlay is replaced only when every digest resolved.
UpdateImages ==
    /\ Step("resolve", IF Resolvable(revision) THEN "prepare" ELSE "ended")
    /\ rendered' = IF Resolvable(revision) THEN Render(revision) ELSE None
    /\ UNCHANGED <<registry, delivery, todo>>

\* require_current(), HEAD = revision (Checkout saw to it), and the commit of the
\* one changed path on the new branch; without a change there is nothing to do.
Prepare ==
    /\ Step("prepare", CASE Tip # revision -> "ended"
                         [] rendered = main[revision].overlay -> "ended"
                         [] OTHER -> "recheck")
    /\ UNCHANGED <<registry, delivery, todo, rendered>>

\* The second require_current().
Recheck ==
    /\ Step("recheck", IF Tip = revision THEN "remote" ELSE "ended")
    /\ UNCHANGED <<registry, delivery, todo, rendered>>

Commit == [parent |-> revision, overlay |-> rendered]

\* The mutant of Same: the tree is not compared.
Same_Parent(branch) == branch.parent = revision

\* FETCH_HEAD^@ = revision, and equal trees.
Same(branch) == branch = Commit

\* ls-remote: a branch that is there is reused if it is this very commit.
LsRemote ==
    /\ Step("remote", IF delivery[revision] = None THEN "push"
                      ELSE IF Same(delivery[revision]) THEN "done" ELSE "ended")
    /\ UNCHANGED <<registry, delivery, todo, rendered>>

\* The mutant of Push: git push --force.
Push_Forced ==
    /\ Step("push", "done")
    /\ delivery' = [delivery EXCEPT ![revision] = Commit]
    /\ UNCHANGED <<registry, todo, rendered>>

\* git push, refused when the branch has appeared since; its answer may be lost.
Push ==
    /\ \/ Step("push", IF delivery[revision] = None THEN "done" ELSE "ended")
       \/ Step("push", "ended")
    /\ delivery' = [delivery EXCEPT ![revision] = IF @ = None THEN Commit ELSE @]
    /\ UNCHANGED <<registry, todo, rendered>>

\* A scan, a build, a fetch or the runner fails.
Abort ==
    /\ jpc \notin {"ended", "done"}
    /\ Step(jpc, "ended")
    /\ UNCHANGED <<registry, delivery, todo, rendered>>

-----------------------------------------------------------------------------
(* Pull requests *)

\* "Prepare the promotion branch with an authorized maintainer account"
\* (docs/gitops.md): a branch pushed by hand, right or wrong.
PushByHand(r, o) ==
    /\ r <= Tip
    /\ delivery[r] = None
    /\ o = ByHand \/ (Resolvable(r) /\ o = Render(r))
    /\ delivery' = [delivery EXCEPT ![r] = [parent |-> r, overlay |-> o]]
    /\ UNCHANGED <<main, registry, public, pulls, jobVars>>

Open(p, head) ==
    /\ pulls[p] = NoPull
    /\ pulls' = [pulls EXCEPT ![p] = head]
    /\ UNCHANGED <<main, registry, public, delivery, jobVars>>

\* A maintainer opens the promotion.
OpenPromotion(p, r) ==
    /\ delivery[r] # None
    /\ delivery[r].parent = r
    /\ ~\E q \in Pulls : pulls[q].state = "open" /\ pulls[q].branch = r
    /\ Open(p, [state |-> "open", branch |-> r, base |-> r, overlay |-> delivery[r].overlay,
                edits |-> TRUE, other |-> FALSE, passed |-> 0])

\* Any other pull request; edits: it touches the overlay as well.
OpenChange(p, edits) ==
    Open(p, [state |-> "open", branch |-> 0, base |-> Tip, overlay |-> IF edits THEN ByHand ELSE main[Tip].overlay,
             edits |-> edits, other |-> TRUE, passed |-> 0])

Changed(k) == main[k].overlay # main[k - 1].overlay
LastUpdate(k) == Changed(k) /\ \A j \in (k + 1)..Tip : ~Changed(j)

\* git revert of the commit that put the present digests on main.
OpenRevert(p, k) ==
    /\ LastUpdate(k)
    /\ Open(p, [state |-> "open", branch |-> 0, base |-> Tip, overlay |-> main[k - 1].overlay,
                edits |-> TRUE, other |-> FALSE, passed |-> 0])

\* "Update branch": main is merged into the head, in the branch itself.
UpdateBranch(p) ==
    /\ pulls[p].state = "open"
    /\ pulls[p].base # Tip
    /\ pulls' = [pulls EXCEPT ![p].base = Tip,
                              ![p].overlay = IF pulls[p].edits THEN @ ELSE main[Tip].overlay,
                              ![p].passed = 0]
    /\ delivery' = [r \in Revisions |-> IF r = pulls[p].branch
                                        THEN [delivery[r] EXCEPT !.parent = 0] ELSE delivery[r]]
    /\ UNCHANGED <<main, registry, public, jobVars>>

\* git diff --name-only base head: two trees, so what a head lacks counts too.
TouchesOverlay(h) == h.overlay # main[Tip].overlay
TouchesOther(h) == h.other \/ \E k \in (h.base + 1)..Tip : main[k].other

\* Mutants of Verify: other paths are not looked at; the digests are resolved for
\* the revision that the overlay itself names.
Verify_Mixed(h) ==
    TouchesOverlay(h) => Resolvable(Tip) /\ h.overlay = Render(Tip)
Verify_OwnSource(h) ==
    TouchesOverlay(h) =>
        /\ ~TouchesOther(h)
        /\ h.overlay # None
        /\ Resolvable(h.overlay.source) /\ h.overlay = Render(h.overlay.source)

\* verify() of check-delivery.py.
Verify(h) ==
    TouchesOverlay(h) =>
        /\ ~TouchesOther(h)
        /\ Resolvable(Tip) /\ h.overlay = Render(Tip)

\* The required check runs on the head against the base of that moment.
Check(p) ==
    /\ pulls[p].state = "open"
    /\ Verify(pulls[p])
    /\ pulls' = [pulls EXCEPT ![p].passed = Tip]
    /\ UNCHANGED <<main, registry, public, delivery, jobVars>>

\* Strict required checks (GitHub): the head contains main and was checked there.
MergePull(p) ==
    /\ pulls[p].state = "open"
    /\ pulls[p].base = Tip
    /\ pulls[p].passed = Tip
    /\ Tip < MaxMain
    /\ main' = Append(main, [overlay |-> pulls[p].overlay, other |-> pulls[p].other])
    /\ pulls' = [pulls EXCEPT ![p] = Closed]
    /\ UNCHANGED <<registry, public, delivery, jobVars>>

Next ==
    \/ \E r \in 1..Tip, images \in SUBSET COMPONENTS : StartRun(r, images)
    \/ \E c \in COMPONENTS : Publish(c) \/ MakePublic(c)
    \/ Checkout \/ UpdateImages \/ Prepare \/ Recheck \/ LsRemote \/ Push \/ Abort
    \/ \E r \in Revisions, o \in Overlays : PushByHand(r, o)
    \/ \E p \in Pulls :
        \/ \E r \in Revisions : OpenPromotion(p, r)
        \/ \E edits \in BOOLEAN : OpenChange(p, edits)
        \/ \E k \in 2..Tip : OpenRevert(p, k)
        \/ UpdateBranch(p) \/ Check(p) \/ MergePull(p)

Spec == Init /\ [][Next]_vars

-----------------------------------------------------------------------------
(* Properties *)

\* Whatever main, reruns and hand-made branches do meanwhile, an overlay reaches
\* main only on top of the very revision its images were built from, and those
\* images were published and can be pulled anonymously.
DeployedIsCurrent ==
    \A k \in 2..Tip : Changed(k) =>
        /\ main[k].overlay # None
        /\ main[k].overlay.source = k - 1
        /\ \A c \in COMPONENTS :
            c \in public /\ main[k].overlay.digest[c] \in 1..registry[k - 1][c]

\* "To roll back an image, revert the digest-update commit" (docs/gitops.md): the
\* pull request that does so on the tip of main, and brings back the images of an
\* earlier delivery, passes the required check.
RollbackIsAccepted ==
    \A p \in Pulls :
        /\ pulls[p].state = "open" /\ pulls[p].base = Tip
        /\ pulls[p].overlay # None /\ ~pulls[p].other
        /\ \E k \in 2..Tip : LastUpdate(k) /\ pulls[p].overlay = main[k - 1].overlay
        => Verify(pulls[p])

\* The overlay and the source never change in one commit of main: the check
\* compares two trees, and a head that is behind looks different from its base.
OverlayAlone == \A k \in 2..Tip : ~(Changed(k) /\ main[k].other)

\* A run that reports success leaves a branch that is exactly its rendering on its
\* revision, also when an earlier run or a maintainer pushed that branch, or the
\* answer of an earlier push was lost.
DoneMeansPrepared ==
    [][jpc # "done" /\ jpc' = "done" => delivery'[revision] = Commit]_vars

\* No delivery branch is ever overwritten, by a rerun with newer images either;
\* only a maintainer who updates its pull request adds to it.
BranchesFixed ==
    [][\A r \in Revisions : delivery[r] # None /\ delivery'[r] # delivery[r]
            => \E p \in Pulls : UpdateBranch(p)]_vars
=============================================================================
