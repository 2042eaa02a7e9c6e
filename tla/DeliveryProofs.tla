---------------------------- MODULE DeliveryProofs ----------------------------
(***************************************************************************)
(* Theorems about image delivery, for any components, any number of commits, *)
(* of images under a tag and of pull requests.                              *)
(***************************************************************************)
EXTENDS Delivery, SequenceTheorems, TLAPS

-----------------------------------------------------------------------------
(* The inductive invariant *)

\* From `prepare` on there is an overlay to commit.
RenderedThere == jpc \in {"prepare", "recheck", "remote", "push"} => rendered # None

\* The branch of an open promotion is there: it can be updated.
BranchesThere ==
    \A p \in Pulls : pulls[p].state = "open" /\ pulls[p].branch # 0
        => delivery[pulls[p].branch] # None

\* No head is based on, or was checked against, a commit main does not have yet.
HeadsBehind ==
    \A p \in Pulls : pulls[p].state = "open" => pulls[p].base <= Tip /\ pulls[p].passed <= Tip

\* What DeployedIsCurrent asks of an overlay on top of revision r.
Deployable(overlay, r) ==
    /\ overlay # None
    /\ overlay.source = r
    /\ \A c \in COMPONENTS : c \in public /\ overlay.digest[c] \in 1..registry[r][c]

\* What verify() found out about a head checked against the tip still holds, as
\* long as main has not moved and the head has not changed.
CheckedIsDeployable ==
    \A p \in Pulls :
        pulls[p].state = "open" /\ pulls[p].passed = Tip /\ TouchesOverlay(pulls[p])
        => ~pulls[p].other /\ Deployable(pulls[p].overlay, Tip)

IndInv ==
    /\ TypeOK /\ RenderedThere
    /\ BranchesThere /\ HeadsBehind
    /\ CheckedIsDeployable
    /\ DeployedIsCurrent /\ OverlayAlone

-----------------------------------------------------------------------------
(* The overlays *)

\* render() makes an overlay of the revision it is asked for, from images that are
\* there and public.
LEMMA RenderEffect ==
    ASSUME TypeOK, NEW r \in Revisions, Resolvable(r)
    PROVE  Render(r) \in Overlays /\ Deployable(Render(r), r)
<1>1. ASSUME NEW c \in COMPONENTS
      PROVE  c \in public /\ registry[r][c] \in 1..MaxBuilds
  <2>1. registry[r][c] \in 0..MaxBuilds /\ MaxBuilds \in Nat
    BY DeliveryAssumption DEF TypeOK
  <2>2. c \in public /\ registry[r][c] > 0
    BY <2>1 DEF Resolvable, Digest
  <2> QED
    BY <2>1, <2>2
<1>2. Render(r).source = r /\ \A c \in COMPONENTS : Render(r).digest[c] = registry[r][c]
  BY <1>1 DEF Render, Digest
<1>3. Render(r) \in Overlays
  BY <1>1 DEF Render, Digest, Overlays
<1>4. \A c \in COMPONENTS : Render(r).digest[c] \in 1..registry[r][c]
  <2>1. ASSUME NEW c \in COMPONENTS
        PROVE  Render(r).digest[c] \in 1..registry[r][c]
    <3>1. registry[r][c] \in Nat \ {0}
      BY <1>1, DeliveryAssumption
    <3>2. Render(r).digest[c] = registry[r][c]
      BY <1>2
    <3> QED
      BY <3>1, <3>2
  <2> QED
    BY <2>1
<1> QED
  BY <1>1, <1>2, <1>3, <1>4, NoneAssumption DEF Deployable

LEMMA ByHandIsOverlay == ByHand \in Overlays
  BY DeliveryAssumption DEF ByHand, Overlays, Revisions

LEMMA TipInRevisions ==
    ASSUME TypeOK
    PROVE  /\ Tip \in Revisions /\ Tip \in Nat /\ Tip >= 1
           /\ Tip <= MaxMain
           /\ \A k \in 1..Tip : main[k] \in [overlay : Overlays \cup {None}, other : BOOLEAN]
<1>1. main \in Seq([overlay : Overlays \cup {None}, other : BOOLEAN]) /\ Len(main) \in 1..MaxMain
  BY DEF TypeOK, Revisions
<1>2. Tip \in 1..MaxMain
  BY <1>1 DEF Tip
<1>3. \A k \in 1..Tip : main[k] \in [overlay : Overlays \cup {None}, other : BOOLEAN]
  BY <1>1, ElementOfSeq DEF Tip
<1> QED
  BY <1>2, <1>3, DeliveryAssumption DEF Revisions

LEMMA RunRevision ==
    ASSUME TypeOK
    PROVE  revision \in Revisions /\ revision <= Tip
<1>1. Len(main) \in 1..MaxMain /\ revision \in 1..Len(main)
  BY DEF TypeOK, Revisions
<1> QED
  BY <1>1, DeliveryAssumption DEF Tip, Revisions

LEMMA OpenHead ==
    ASSUME TypeOK, NEW p \in Pulls, pulls[p].state = "open"
    PROVE  /\ pulls[p] \in Heads
           /\ pulls[p].branch \in Revisions \cup {0} /\ pulls[p].base \in Revisions
           /\ pulls[p].overlay \in Overlays \cup {None}
           /\ pulls[p].other \in BOOLEAN /\ pulls[p].passed \in 0..MaxMain
<1>1. pulls[p] \in Heads \cup {NoPull, Closed}
  BY DEF TypeOK
<1>2. pulls[p] \in Heads
  BY <1>1 DEF NoPull, Closed
<1> QED
  BY <1>2, DeliveryAssumption DEF Heads, Revisions

\* An image that can be deployed stays one: images are added to a tag, and packages
\* are made public.
LEMMA DeployableStays ==
    ASSUME TypeOK, TypeOK', NEW overlay, NEW r \in Revisions, Deployable(overlay, r),
           public \subseteq public',
           \A c \in COMPONENTS : registry[r][c] <= registry'[r][c]
    PROVE  Deployable(overlay, r)'
<1>1. ASSUME NEW c \in COMPONENTS
      PROVE  c \in public' /\ overlay.digest[c] \in 1..registry'[r][c]
  <2>1. registry[r][c] \in Nat /\ registry'[r][c] \in Nat
    BY DeliveryAssumption DEF TypeOK
  <2>2. overlay.digest[c] \in 1..registry[r][c] /\ c \in public
    BY DEF Deployable
  <2> QED
    BY <2>1, <2>2
<1> QED
  BY <1>1 DEF Deployable

-----------------------------------------------------------------------------
(* The steps that neither open, check nor merge a pull request *)

LEMMA OthersPreserve ==
    ASSUME IndInv, TypeOK', RenderedThere',
           UNCHANGED <<main, pulls>>,
           public \subseteq public',
           \A r \in Revisions, c \in COMPONENTS : registry[r][c] <= registry'[r][c],
           \A r \in Revisions : delivery[r] # None => delivery'[r] # None
    PROVE  IndInv'
<1>1. Tip' = Tip /\ Tip \in Revisions /\ Tip \in Nat
  BY TipInRevisions DEF Tip, IndInv
<1>2. BranchesThere'
  <2> SUFFICES ASSUME NEW p \in Pulls, pulls[p].state = "open", pulls[p].branch # 0
               PROVE  delivery'[pulls[p].branch] # None
    BY DEF BranchesThere
  <2>1. pulls[p].branch \in Revisions
    BY OpenHead, DeliveryAssumption DEF IndInv, Revisions
  <2> QED
    BY <2>1 DEF IndInv, BranchesThere
<1>3. HeadsBehind'
  BY <1>1 DEF IndInv, HeadsBehind
<1>4. CheckedIsDeployable'
  <2> SUFFICES ASSUME NEW p \in Pulls, pulls[p].state = "open", pulls[p].passed = Tip,
                      TouchesOverlay(pulls[p])
               PROVE  ~pulls[p].other /\ Deployable(pulls[p].overlay, Tip)'
    BY <1>1 DEF CheckedIsDeployable, TouchesOverlay
  <2>1. ~pulls[p].other /\ Deployable(pulls[p].overlay, Tip)
    BY DEF IndInv, CheckedIsDeployable
  <2> QED
    BY <1>1, <2>1, DeployableStays DEF IndInv
<1>5. DeployedIsCurrent'
  <2> SUFFICES ASSUME NEW k \in 2..Tip, Changed(k)
               PROVE  Deployable(main[k].overlay, k - 1)'
    BY <1>1 DEF DeployedIsCurrent, Deployable, Changed
  <2>1. Deployable(main[k].overlay, k - 1)
    BY DEF IndInv, DeployedIsCurrent, Deployable
  <2>2. k - 1 \in Revisions
    BY <1>1, DeliveryAssumption DEF Revisions
  <2> QED
    BY <2>1, <2>2, DeployableStays DEF IndInv
<1>6. OverlayAlone'
  BY <1>1 DEF IndInv, OverlayAlone, Changed
<1> QED
  BY <1>2, <1>3, <1>4, <1>5, <1>6 DEF IndInv

\* A step of the workflow run that publishes nothing and pushes no branch.
LEMMA JobTypes ==
    ASSUME TypeOK,
           UNCHANGED <<main, registry, public, delivery, pulls>>,
           jpc' \in {"ended", "publish", "update", "resolve", "prepare", "recheck",
                     "remote", "push", "done"},
           revision' \in 1..Tip, todo' \subseteq COMPONENTS,
           rendered' \in Overlays \cup {None}
    PROVE  TypeOK'
  BY DEF TypeOK, Tip

LEMMA JobPreserves ==
    ASSUME IndInv,
           (\E r \in 1..Tip, images \in SUBSET COMPONENTS : StartRun(r, images))
             \/ Checkout \/ UpdateImages \/ Prepare \/ Recheck \/ LsRemote \/ Abort
    PROVE  IndInv'
<1>1. UNCHANGED <<main, registry, public, delivery, pulls>>
  BY DEF StartRun, Checkout, UpdateImages, Prepare, Recheck, LsRemote, Abort, Step
<1>2. jpc' \in {"ended", "publish", "update", "resolve", "prepare", "recheck",
                "remote", "push", "done"}
  BY DEF StartRun, Checkout, UpdateImages, Prepare, Recheck, LsRemote, Abort, Step
<1>3. revision' \in 1..Tip /\ todo' \subseteq COMPONENTS
  BY DEF StartRun, Checkout, UpdateImages, Prepare, Recheck, LsRemote, Abort, Step,
         IndInv, TypeOK, Tip
<1>4. rendered' \in Overlays \cup {None}
  <2>1. CASE UpdateImages
    <3>1. revision \in Revisions
      BY RunRevision DEF IndInv
    <3> QED
      BY <2>1, <3>1, RenderEffect DEF UpdateImages, IndInv
  <2>2. CASE ~UpdateImages
    BY <2>2 DEF StartRun, Checkout, Prepare, Recheck, LsRemote, Abort, IndInv, TypeOK
  <2> QED
    BY <2>1, <2>2
<1>5. TypeOK'
  BY <1>1, <1>2, <1>3, <1>4, JobTypes DEF IndInv
<1>6. RenderedThere'
  <2>1. CASE UpdateImages
    <3>1. revision \in Revisions
      BY RunRevision DEF IndInv
    <3> QED
      BY <2>1, <3>1, RenderEffect DEF UpdateImages, Step, RenderedThere, Deployable, IndInv
  <2>2. CASE ~UpdateImages
    BY <2>2 DEF StartRun, Checkout, Prepare, Recheck, LsRemote, Abort, Step, RenderedThere, IndInv
  <2> QED
    BY <2>1, <2>2
<1>7. \A r \in Revisions, c \in COMPONENTS : registry[r][c] <= registry'[r][c]
  BY <1>1, DeliveryAssumption DEF IndInv, TypeOK
<1> QED
  BY <1>1, <1>5, <1>6, <1>7, OthersPreserve

LEMMA PublishPreserves ==
    ASSUME IndInv, NEW c \in COMPONENTS, Publish(c)
    PROVE  IndInv'
<1>1. /\ UNCHANGED <<main, public, delivery, pulls, revision, jpc, rendered>>
      /\ todo' = todo \ {c}
      /\ registry[revision][c] < MaxBuilds
      /\ registry' = [registry EXCEPT ![revision][c] = @ + 1]
  BY DEF Publish, Step
<1>2. revision \in Revisions /\ revision <= Len(main) /\ Len(main) \in Nat
  BY RunRevision, TipInRevisions DEF IndInv, Tip
<1>3. \A r \in Revisions, d \in COMPONENTS : registry[r][d] \in 0..MaxBuilds
  BY DEF IndInv, TypeOK
<1>4. /\ registry' \in [Revisions -> [COMPONENTS -> 0..MaxBuilds]]
      /\ \A r \in Revisions : r # revision => registry'[r] = registry[r]
      /\ \A r \in Revisions, d \in COMPONENTS : registry[r][d] <= registry'[r][d]
  <2>1. registry[revision][c] + 1 \in 0..MaxBuilds
    BY <1>1, <1>2, <1>3, DeliveryAssumption
  <2> QED
    BY <1>1, <1>2, <1>3, <2>1, DeliveryAssumption DEF IndInv, TypeOK
<1>5. \A r \in Revisions : r > Len(main) => r # revision
  BY <1>2, DeliveryAssumption DEF Revisions
<1>6. TypeOK'
  BY <1>1, <1>4, <1>5 DEF IndInv, TypeOK
<1>7. RenderedThere'
  BY <1>1 DEF IndInv, RenderedThere
<1> QED
  BY <1>1, <1>4, <1>6, <1>7, OthersPreserve

LEMMA MakePublicPreserves ==
    ASSUME IndInv, NEW c \in COMPONENTS, MakePublic(c)
    PROVE  IndInv'
<1>1. /\ UNCHANGED <<main, registry, pulls, delivery, jobVars>>
      /\ public' = public \cup {c}
  BY DEF MakePublic
<1>2. TypeOK' /\ RenderedThere'
  BY <1>1 DEF IndInv, TypeOK, jobVars, RenderedThere
<1>3. \A r \in Revisions, d \in COMPONENTS : registry[r][d] <= registry'[r][d]
  BY <1>1, DeliveryAssumption DEF IndInv, TypeOK
<1> QED
  BY <1>1, <1>2, <1>3, OthersPreserve

\* A branch appears where there was none: pushed by a run or by hand.
LEMMA NewBranchPreserves ==
    ASSUME IndInv, NEW r \in Revisions, r <= Tip, NEW branch \in Branches,
           UNCHANGED <<main, registry, public, pulls, revision, todo, rendered>>,
           jpc' \in {jpc, "ended", "done"},
           delivery' = [delivery EXCEPT ![r] = IF @ = None THEN branch ELSE @]
    PROVE  IndInv'
<1>1. /\ delivery' \in [Revisions -> Branches \cup {None}]
      /\ \A q \in Revisions : q # r => delivery'[q] = delivery[q]
      /\ \A q \in Revisions : delivery[q] # None => delivery'[q] # None
  BY DEF IndInv, TypeOK
<1>2. \A q \in Revisions : q > Tip => q # r
  BY TipInRevisions, DeliveryAssumption DEF IndInv, Revisions
<1>3. TypeOK' /\ RenderedThere'
  BY <1>1, <1>2 DEF IndInv, TypeOK, RenderedThere, Tip
<1>4. \A q \in Revisions, c \in COMPONENTS : registry[q][c] <= registry'[q][c]
  BY DeliveryAssumption DEF IndInv, TypeOK
<1> QED
  BY <1>1, <1>3, <1>4, OthersPreserve

LEMMA PushPreserves ==
    ASSUME IndInv, Push
    PROVE  IndInv'
<1>1. /\ UNCHANGED <<main, registry, public, pulls, revision, todo, rendered>>
      /\ jpc = "push" /\ jpc' \in {"ended", "done"}
      /\ delivery' = [delivery EXCEPT ![revision] = IF @ = None THEN Commit ELSE @]
  BY DEF Push, Step
<1>2. revision \in Revisions /\ revision <= Tip
  BY RunRevision DEF IndInv
<1>3. Commit \in Branches
  BY <1>1, <1>2 DEF Commit, Branches, IndInv, TypeOK, RenderedThere
<1> QED
  BY <1>1, <1>2, <1>3, NewBranchPreserves

LEMMA PushByHandPreserves ==
    ASSUME IndInv, NEW r \in Revisions, NEW o \in Overlays, PushByHand(r, o)
    PROVE  IndInv'
<1>1. [parent |-> r, overlay |-> o] \in Branches
  BY DEF Branches
<1>2. /\ r <= Tip
      /\ UNCHANGED <<main, registry, public, pulls, jobVars>>
      /\ delivery' = [delivery EXCEPT ![r] = IF @ = None THEN [parent |-> r, overlay |-> o] ELSE @]
  BY DEF PushByHand
<1> QED
  BY <1>1, <1>2, NewBranchPreserves DEF jobVars

-----------------------------------------------------------------------------
(* Opening, updating and checking a pull request *)

\* A head that has not been checked is opened, or replaces another.
LEMMA HeadPreserves ==
    ASSUME IndInv, TypeOK', NEW p \in Pulls, NEW head \in Heads,
           UNCHANGED <<main, registry, public, jobVars>>,
           pulls' = [pulls EXCEPT ![p] = head],
           \A r \in Revisions : delivery[r] # None => delivery'[r] # None,
           head.branch # 0 => delivery'[head.branch] # None,
           head.base <= Tip,
           \/ head.passed = 0
           \/ /\ head.passed = Tip
              /\ TouchesOverlay(head) => ~head.other /\ Deployable(head.overlay, Tip)
    PROVE  IndInv'
<1>1. Tip' = Tip /\ Tip \in Revisions /\ Tip \in Nat /\ Tip >= 1
  BY TipInRevisions DEF Tip, IndInv
<1>2. /\ pulls'[p] = head
      /\ \A q \in Pulls : q # p => pulls'[q] = pulls[q]
  BY DEF IndInv, TypeOK
<1>3. BranchesThere'
  <2> SUFFICES ASSUME NEW q \in Pulls, pulls'[q].state = "open", pulls'[q].branch # 0
               PROVE  delivery'[pulls'[q].branch] # None
    BY DEF BranchesThere
  <2>1. CASE q = p
    BY <1>2, <2>1
  <2>2. CASE q # p
    <3>1. pulls[q].branch \in Revisions
      BY <1>2, <2>2, OpenHead DEF IndInv
    <3> QED
      BY <1>2, <2>2, <3>1 DEF IndInv, BranchesThere
  <2> QED
    BY <2>1, <2>2
<1>4. HeadsBehind'
  BY <1>1, <1>2 DEF IndInv, HeadsBehind
<1>5. CheckedIsDeployable'
  <2> SUFFICES ASSUME NEW q \in Pulls, pulls'[q].state = "open", pulls'[q].passed = Tip,
                      TouchesOverlay(pulls'[q])
               PROVE  ~pulls'[q].other /\ Deployable(pulls'[q].overlay, Tip)
    BY <1>1 DEF CheckedIsDeployable, TouchesOverlay, Deployable
  <2>1. CASE q = p
    BY <1>1, <1>2, <2>1
  <2>2. CASE q # p
    BY <1>2, <2>2 DEF IndInv, CheckedIsDeployable
  <2> QED
    BY <2>1, <2>2
<1>6. DeployedIsCurrent' /\ OverlayAlone'
  BY <1>1 DEF IndInv, DeployedIsCurrent, OverlayAlone, Changed
<1>7. RenderedThere'
  BY DEF IndInv, RenderedThere, jobVars
<1> QED
  BY <1>3, <1>4, <1>5, <1>6, <1>7 DEF IndInv

LEMMA OpenPreserves ==
    ASSUME IndInv, NEW p \in Pulls, NEW head \in Heads, Open(p, head),
           head.branch # 0 => delivery[head.branch] # None,
           head.base <= Tip, head.passed = 0
    PROVE  IndInv'
<1>1. /\ UNCHANGED <<main, registry, public, delivery, jobVars>>
      /\ pulls' = [pulls EXCEPT ![p] = head]
  BY DEF Open
<1>2. pulls' \in [Pulls -> Heads \cup {NoPull, Closed}]
  BY <1>1 DEF IndInv, TypeOK
<1>3. TypeOK'
  BY <1>1, <1>2 DEF IndInv, TypeOK, jobVars
<1> QED
  BY <1>1, <1>3, HeadPreserves

LEMMA OpenPromotionPreserves ==
    ASSUME IndInv, NEW p \in Pulls, NEW r \in Revisions, OpenPromotion(p, r)
    PROVE  IndInv'
<1> DEFINE head == [state |-> "open", branch |-> r, base |-> r, overlay |-> delivery[r].overlay,
                    edits |-> TRUE, other |-> FALSE, passed |-> 0]
<1>1. Open(p, head) /\ delivery[r] # None
  BY DEF OpenPromotion
<1>2. delivery[r].overlay \in Overlays
  BY <1>1 DEF IndInv, TypeOK, Branches
<1>3. r <= Tip
  BY <1>1, TipInRevisions, DeliveryAssumption DEF IndInv, TypeOK, Tip, Revisions
<1>4. head \in Heads
  BY <1>2, DeliveryAssumption DEF Heads, Revisions
<1> QED
  BY <1>1, <1>3, <1>4, OpenPreserves

LEMMA OpenChangePreserves ==
    ASSUME IndInv, NEW p \in Pulls, NEW edits \in BOOLEAN, OpenChange(p, edits)
    PROVE  IndInv'
<1> DEFINE overlay == IF edits THEN ByHand ELSE main[Tip].overlay
           head == [state |-> "open", branch |-> 0, base |-> Tip, overlay |-> overlay,
                    edits |-> edits, other |-> TRUE, passed |-> 0]
<1>1. Open(p, head)
  BY DEF OpenChange
<1>2. Tip \in Revisions /\ Tip \in Nat /\ main[Tip].overlay \in Overlays \cup {None}
  BY TipInRevisions DEF IndInv
<1>3. overlay \in Overlays \cup {None}
  BY <1>2, ByHandIsOverlay
<1> HIDE DEF overlay
<1>4. head \in Heads
  BY <1>2, <1>3, DeliveryAssumption DEF Heads
<1> QED
  BY <1>1, <1>2, <1>4, OpenPreserves

LEMMA OpenRevertPreserves ==
    ASSUME IndInv, NEW p \in Pulls, NEW k \in 2..Tip, OpenRevert(p, k)
    PROVE  IndInv'
<1> DEFINE overlay == main[k - 1].overlay
           head == [state |-> "open", branch |-> 0, base |-> Tip, overlay |-> overlay,
                    edits |-> TRUE, other |-> FALSE, passed |-> 0]
<1>1. Open(p, head)
  BY DEF OpenRevert
<1>2. Tip \in Revisions /\ Tip \in Nat
  BY TipInRevisions DEF IndInv
<1>3. overlay \in Overlays \cup {None}
  <2>1. k - 1 \in 1..Tip
    BY <1>2
  <2> QED
    BY <2>1, TipInRevisions DEF IndInv
<1> HIDE DEF overlay
<1>4. head \in Heads
  BY <1>2, <1>3, DeliveryAssumption DEF Heads
<1> QED
  BY <1>1, <1>2, <1>4, OpenPreserves

LEMMA UpdateBranchPreserves ==
    ASSUME IndInv, NEW p \in Pulls, UpdateBranch(p)
    PROVE  IndInv'
<1> DEFINE overlay == IF pulls[p].edits THEN pulls[p].overlay ELSE main[Tip].overlay
           head == [pulls[p] EXCEPT !.base = Tip, !.overlay = overlay, !.passed = 0]
<1>1. /\ UNCHANGED <<main, registry, public, jobVars>>
      /\ pulls[p].state = "open"
      /\ pulls' = [pulls EXCEPT ![p] = head]
      /\ delivery' = [r \in Revisions |-> IF r = pulls[p].branch
                                          THEN [delivery[r] EXCEPT !.parent = 0] ELSE delivery[r]]
  BY DEF UpdateBranch, IndInv, TypeOK
<1>2. /\ pulls[p] \in Heads
      /\ pulls[p].branch \in Revisions \cup {0}
      /\ pulls[p].overlay \in Overlays \cup {None}
  BY <1>1, OpenHead DEF IndInv
<1>3. Tip \in Revisions /\ Tip \in Nat /\ main[Tip].overlay \in Overlays \cup {None}
  BY TipInRevisions DEF IndInv
<1>4. overlay \in Overlays \cup {None}
  BY <1>2, <1>3
<1>5. head \in Heads /\ head.branch = pulls[p].branch /\ head.base = Tip /\ head.passed = 0
  <2> DEFINE old == pulls[p]
             new == [old EXCEPT !.base = Tip, !.overlay = overlay, !.passed = 0]
  <2>1. old \in Heads /\ head = new
    BY <1>2
  <2>2. Tip \in Revisions /\ overlay \in Overlays \cup {None} /\ 0 \in 0..MaxMain
    BY <1>3, <1>4, DeliveryAssumption
  <2> HIDE DEF overlay, old, head
  <2>3. old \in Heads
    BY <2>1
  <2>4. new \in Heads /\ new.branch = old.branch /\ new.base = Tip /\ new.passed = 0
    BY <2>2, <2>3 DEF Heads
  <2> QED
    BY <2>1, <2>4 DEF old
<1>6. ASSUME NEW r \in Revisions, r = pulls[p].branch
      PROVE  /\ delivery[r] \in Branches /\ delivery[r] # None
             /\ delivery'[r] \in Branches
  <2>1. r # 0
    BY DeliveryAssumption DEF Revisions
  <2>2. delivery[r] # None
    BY <1>1, <1>6, <2>1 DEF IndInv, BranchesThere
  <2>3. delivery[r] \in Branches
    BY <2>2 DEF IndInv, TypeOK
  <2> QED
    BY <1>1, <1>6, <2>2, <2>3 DEF Branches
<1>7. \A r \in Revisions :
        /\ delivery'[r] \in Branches \cup {None}
        /\ delivery[r] # None => delivery'[r] # None
        /\ delivery[r] = None => delivery'[r] = None
  BY <1>1, <1>6, NoneAssumption DEF IndInv, TypeOK
<1>8. delivery' \in [Revisions -> Branches \cup {None}]
  BY <1>1, <1>7
<1>9. pulls' \in [Pulls -> Heads \cup {NoPull, Closed}]
  <2> HIDE DEF head
  <2> QED
    BY <1>1, <1>5 DEF IndInv, TypeOK
<1>10. TypeOK'
  BY <1>1, <1>7, <1>8, <1>9 DEF IndInv, TypeOK, jobVars
<1>11. head.branch # 0 => delivery'[head.branch] # None
  BY <1>2, <1>5, <1>6, NoneAssumption
<1>12. head.base <= Tip
  BY <1>3, <1>5
<1> HIDE DEF head
<1>13. \A r \in Revisions : delivery[r] # None => delivery'[r] # None
  BY <1>7
<1>14. pulls' = [pulls EXCEPT ![p] = head] /\ UNCHANGED <<main, registry, public, jobVars>>
  BY <1>1
<1> QED
  BY <1>5, <1>10, <1>11, <1>12, <1>13, <1>14, HeadPreserves

LEMMA CheckPreserves ==
    ASSUME IndInv, NEW p \in Pulls, Check(p)
    PROVE  IndInv'
<1> DEFINE head == [pulls[p] EXCEPT !.passed = Tip]
<1>1. /\ UNCHANGED <<main, registry, public, delivery, jobVars>>
      /\ pulls[p].state = "open" /\ Verify(pulls[p])
      /\ pulls' = [pulls EXCEPT ![p] = head]
  BY DEF Check, IndInv, TypeOK
<1>2. pulls[p] \in Heads /\ pulls[p].other \in BOOLEAN
  BY <1>1, OpenHead DEF IndInv
<1>3. Tip \in Revisions /\ Tip <= MaxMain /\ Tip \in Nat
  BY TipInRevisions DEF IndInv
<1>4. /\ head \in Heads /\ head.passed = Tip
      /\ head.branch = pulls[p].branch /\ head.base = pulls[p].base
      /\ head.overlay = pulls[p].overlay /\ head.other = pulls[p].other
  BY <1>2, <1>3, DeliveryAssumption DEF Heads
<1>5. TouchesOverlay(head) => ~head.other /\ Deployable(head.overlay, Tip)
  BY <1>1, <1>3, <1>4, RenderEffect DEF Verify, TouchesOverlay, TouchesOther, IndInv
<1>6. head.branch # 0 => delivery'[head.branch] # None
  BY <1>1, <1>4 DEF IndInv, BranchesThere
<1>7. head.base <= Tip
  BY <1>1, <1>4 DEF IndInv, HeadsBehind
<1> HIDE DEF head
<1>8. pulls' \in [Pulls -> Heads \cup {NoPull, Closed}]
  BY <1>1, <1>4 DEF IndInv, TypeOK
<1>9. TypeOK'
  BY <1>1, <1>8 DEF IndInv, TypeOK, jobVars
<1> QED
  BY <1>1, <1>4, <1>5, <1>6, <1>7, <1>9, HeadPreserves

-----------------------------------------------------------------------------
(* Merging one: main moves on *)

LEMMA MergePreserves ==
    ASSUME IndInv, NEW p \in Pulls, MergePull(p)
    PROVE  IndInv'
<1> DEFINE commit == [overlay |-> pulls[p].overlay, other |-> pulls[p].other]
<1>1. /\ UNCHANGED <<registry, public, delivery, jobVars>>
      /\ pulls[p].state = "open" /\ pulls[p].passed = Tip
      /\ Tip < MaxMain
      /\ main' = Append(main, commit)
      /\ pulls' = [pulls EXCEPT ![p] = Closed]
  BY DEF MergePull
<1>2. commit \in [overlay : Overlays \cup {None}, other : BOOLEAN]
  BY <1>1, OpenHead DEF IndInv
<1>3. Tip \in Nat /\ Tip >= 1 /\ MaxMain \in Nat
  BY TipInRevisions, DeliveryAssumption DEF IndInv
<1>4. /\ main' \in Seq([overlay : Overlays \cup {None}, other : BOOLEAN])
      /\ Tip' = Tip + 1
      /\ \A k \in 1..Tip : main'[k] = main[k]
      /\ main'[Tip + 1] = commit
  <2> HIDE DEF commit
  <2>1. main \in Seq([overlay : Overlays \cup {None}, other : BOOLEAN])
    BY DEF IndInv, TypeOK
  <2> QED
    BY <1>1, <1>2, <2>1, AppendProperties DEF Tip
<1>5. /\ pulls' \in [Pulls -> Heads \cup {NoPull, Closed}]
      /\ \A q \in Pulls : pulls'[q].state = "open" => q # p /\ pulls'[q] = pulls[q]
  BY <1>1 DEF IndInv, TypeOK, Closed
<1>6. TypeOK'
  <2>1. Len(main') \in Revisions
    BY <1>1, <1>3, <1>4 DEF Tip, Revisions
  <2>2. revision' \in 1..Len(main')
    BY <1>1, <1>3, <1>4 DEF IndInv, TypeOK, Tip, jobVars
  <2>3. \A r \in Revisions : r > Len(main') =>
            delivery'[r] = None /\ registry'[r] = [c \in COMPONENTS |-> 0]
    <3>1. \A r \in Revisions : r > Len(main') => r > Len(main)
      BY <1>3, <1>4 DEF Tip, Revisions
    <3> QED
      BY <1>1, <3>1 DEF IndInv, TypeOK
  <2> QED
    BY <1>1, <1>4, <1>5, <2>1, <2>2, <2>3 DEF IndInv, TypeOK, jobVars
<1>7. RenderedThere'
  BY <1>1 DEF IndInv, RenderedThere, jobVars
<1>8. BranchesThere'
  BY <1>1, <1>5 DEF IndInv, BranchesThere
<1>9. \A q \in Pulls : pulls'[q].state = "open" =>
        pulls'[q].base <= Tip' /\ pulls'[q].passed <= Tip
  <2> SUFFICES ASSUME NEW q \in Pulls, pulls'[q].state = "open"
               PROVE  pulls'[q].base <= Tip' /\ pulls'[q].passed <= Tip
    OBVIOUS
  <2>1. pulls'[q] = pulls[q] /\ pulls[q].state = "open"
    BY <1>5
  <2>2. pulls[q].base <= Tip /\ pulls[q].passed <= Tip
    BY <2>1 DEF IndInv, HeadsBehind
  <2>3. pulls[q].base \in Nat
    BY <2>1, OpenHead, DeliveryAssumption DEF IndInv, Revisions
  <2> QED
    BY <1>3, <1>4, <2>1, <2>2, <2>3
<1>10. HeadsBehind' /\ CheckedIsDeployable'
  <2>1. \A q \in Pulls : pulls'[q].state = "open" =>
            pulls'[q].passed <= Tip' /\ pulls'[q].passed # Tip'
    <3>1. ASSUME NEW q \in Pulls, pulls'[q].state = "open"
          PROVE  pulls'[q].passed <= Tip' /\ pulls'[q].passed # Tip'
      <4>1. pulls'[q].passed \in Nat
        BY <1>5, <3>1, OpenHead, <1>3 DEF IndInv
      <4> QED
        BY <1>3, <1>4, <1>9, <3>1, <4>1
    <3> QED
      BY <3>1
  <2> QED
    BY <1>9, <2>1 DEF HeadsBehind, CheckedIsDeployable
<1>11. \/ ~pulls[p].other /\ Deployable(commit.overlay, Tip)
       \/ commit.overlay = main[Tip].overlay
  BY <1>1 DEF IndInv, CheckedIsDeployable, TouchesOverlay
<1>12. ASSUME NEW k \in 2..Tip', Changed(k)'
       PROVE  Deployable(main'[k].overlay, k - 1) /\ ~main'[k].other
  <2>1. CASE k = Tip + 1
    <3>1. main'[k] = commit /\ main'[k - 1] = main[Tip] /\ k - 1 = Tip
      BY <1>3, <1>4, <2>1
    <3> QED
      BY <1>11, <1>12, <3>1 DEF Changed
  <2>2. CASE k # Tip + 1
    <3>1. k \in 2..Tip /\ k - 1 \in 1..Tip /\ k \in 1..Tip
      BY <1>3, <1>4, <2>2
    <3>2. main'[k] = main[k] /\ main'[k - 1] = main[k - 1]
      BY <1>4, <3>1
    <3> QED
      BY <1>12, <3>1, <3>2 DEF IndInv, DeployedIsCurrent, OverlayAlone, Changed, Deployable
  <2> QED
    BY <2>1, <2>2
<1>13. DeployedIsCurrent' /\ OverlayAlone'
  BY <1>1, <1>12 DEF DeployedIsCurrent, OverlayAlone, Deployable
<1> QED
  BY <1>6, <1>7, <1>8, <1>10, <1>13 DEF IndInv

-----------------------------------------------------------------------------
(* The theorems *)

LEMMA InitInv == Init => IndInv
<1> SUFFICES ASSUME Init
             PROVE  IndInv
  OBVIOUS
<1>1. Len(main) = 1 /\ main \in Seq([overlay : Overlays \cup {None}, other : BOOLEAN])
  BY DEF Init
<1>2. TypeOK
  BY <1>1, DeliveryAssumption DEF Init, TypeOK, Revisions
<1>3. \A p \in Pulls : pulls[p].state # "open"
  BY DEF Init, NoPull
<1>4. 2..Tip = {}
  BY <1>1 DEF Tip
<1> QED
  BY <1>2, <1>3, <1>4
  DEF Init, IndInv, RenderedThere, BranchesThere, HeadsBehind, CheckedIsDeployable,
      DeployedIsCurrent, OverlayAlone

LEMMA NextInv ==
    ASSUME IndInv, [Next]_vars
    PROVE  IndInv'
<1>1. CASE UNCHANGED vars
  <2>1. Tip' = Tip
    BY <1>1 DEF vars, Tip
  <2>2. TypeOK' /\ RenderedThere' /\ BranchesThere'
    BY <1>1 DEF IndInv, TypeOK, RenderedThere, BranchesThere, vars, jobVars
  <2>3. \A r \in Revisions, c \in COMPONENTS : registry[r][c] <= registry'[r][c]
    BY <1>1, DeliveryAssumption DEF IndInv, TypeOK, vars
  <2> QED
    BY <1>1, <2>2, <2>3, OthersPreserve DEF vars
<1>2. CASE Next
  BY <1>2, JobPreserves, PublishPreserves, MakePublicPreserves, PushPreserves,
     PushByHandPreserves, OpenPromotionPreserves, OpenChangePreserves,
     OpenRevertPreserves, UpdateBranchPreserves, CheckPreserves, MergePreserves
  DEF Next
<1> QED
  BY <1>1, <1>2

LEMMA Inductive == Spec => []IndInv
  BY InitInv, NextInv, PTL DEF Spec

\* Every reachable state is type correct.
THEOREM DeliveryTypeCorrect == Spec => []TypeOK
<1>1. IndInv => TypeOK
  BY DEF IndInv
<1> QED
  BY <1>1, Inductive, PTL

\* Whatever races with a promotion, an overlay on main names the revision under it
\* and images that were published for it and are public.
THEOREM OnlyCurrentDeployed == Spec => []DeployedIsCurrent
<1>1. IndInv => DeployedIsCurrent
  BY DEF IndInv
<1> QED
  BY <1>1, Inductive, PTL

\* No commit of main changes the overlay and anything else.
THEOREM OverlayNeverMixed == Spec => []OverlayAlone
<1>1. IndInv => OverlayAlone
  BY DEF IndInv
<1> QED
  BY <1>1, Inductive, PTL

\* A run that ends well leaves the branch it prepared, found there or pushed.
THEOREM DoneIsPrepared == Spec => DoneMeansPrepared
<1>1. ASSUME IndInv, Next, jpc # "done", jpc' = "done"
      PROVE  delivery'[revision] = Commit
  <2>1. revision \in Revisions
    BY <1>1, RunRevision DEF IndInv
  <2>2. LsRemote \/ Push
    BY <1>1
    DEF Next, StartRun, Publish, MakePublic, Checkout, UpdateImages, Prepare, Recheck, Abort,
        PushByHand, OpenPromotion, OpenChange, OpenRevert, Open, UpdateBranch, Check, MergePull, Step, jobVars
  <2>3. CASE LsRemote
    BY <1>1, <2>3 DEF LsRemote, Step, Same
  <2>4. CASE Push
    BY <1>1, <2>1, <2>4 DEF Push, Step, IndInv, TypeOK
  <2> QED
    BY <2>2, <2>3, <2>4
<1>2. IndInv /\ [Next]_vars =>
        [jpc # "done" /\ jpc' = "done" => delivery'[revision] = Commit]_vars
  BY <1>1
<1> QED
  BY <1>2, Inductive, PTL DEF Spec, DoneMeansPrepared

\* No step but a maintainer's update of its pull request changes a branch.
THEOREM BranchesNeverOverwritten == Spec => BranchesFixed
<1>1. ASSUME IndInv, Next, NEW r \in Revisions, delivery[r] # None, delivery'[r] # delivery[r]
      PROVE  \E p \in Pulls : UpdateBranch(p)
  <2>1. \/ Push
        \/ \E q \in Revisions, o \in Overlays : PushByHand(q, o)
        \/ \E p \in Pulls : UpdateBranch(p)
    BY <1>1
    DEF Next, StartRun, Publish, MakePublic, Checkout, UpdateImages, Prepare, Recheck, LsRemote,
        Abort, OpenPromotion, OpenChange, OpenRevert, Open, Check, MergePull, Step
  <2>2. ~Push
    BY <1>1 DEF Push, IndInv, TypeOK
  <2>3. ~\E q \in Revisions, o \in Overlays : PushByHand(q, o)
    BY <1>1 DEF PushByHand, IndInv, TypeOK
  <2> QED
    BY <2>1, <2>2, <2>3
<1>2. IndInv /\ [Next]_vars =>
        [\A r \in Revisions : delivery[r] # None /\ delivery'[r] # delivery[r]
            => \E p \in Pulls : UpdateBranch(p)]_vars
  BY <1>1
<1> QED
  BY <1>2, Inductive, PTL DEF Spec, BranchesFixed
=============================================================================
