---------------------------- MODULE ExercisesProofs ----------------------------
(***************************************************************************)
(* Theorems about the operational exercises, for any number of revisions,    *)
(* applications, Deployments and writes.                                     *)
(***************************************************************************)
EXTENDS Exercises, TLAPS

-----------------------------------------------------------------------------
(* The inductive invariant *)

\* The body of the script owns its report, and only while it runs.
ReportRunning ==
    /\ pc = "open" => report.owner # "this"
    /\ pc = "write" => report = [owner |-> "this", status |-> "unreadable"]
    /\ pc \notin {"open", "write", "ended"} => report = [owner |-> "this", status |-> "running"]

\* Counters that are all at the desired number count pods of the template's image.
SettledRunsTemplate == \A d \in Deployments : observed[d] /\ rolled[d] => running[d] = image[d]

\* One exercise runs; what it alone changes is as at the start of the others.
OthersIdle ==
    /\ script # "recovery" => step = "healthy" /\ \A a \in Apps : ~source[a].override
    /\ script # "wait" => verdict = "polling"

\* The backup drill: rows are only added, so each reading bounds the next one.
Dumped == {"hash", "checksum", "restore", "after", "restored", "verify", "ready_after", "returned"}
Loaded == {"restored", "verify", "ready_after", "returned"}

Same ==
    /\ restored = snapshot
    /\ prints["before"] = snapshot /\ prints["after"] = snapshot

FirstBounds == \A t \in TABLES : prints["before"][t] <= tables[t]
NothingYet ==
    /\ pc \notin Dumped \cup {"raised", "ended"} => prints["after"] = Nothing
    /\ pc \notin Loaded \cup {"raised", "ended"} => prints["restored"] = Nothing
SnapshotBetween ==
    pc \in Dumped =>
        \A t \in TABLES :
            /\ prints["before"][t] <= snapshot[t] /\ snapshot[t] <= tables[t]
            /\ prints["after"][t] # 0 => snapshot[t] <= prints["after"][t]
RestoredRead ==
    pc \in Loaded =>
        \A t \in TABLES :
            /\ prints["after"][t] # 0
            /\ prints["restored"][t] # 0 => prints["restored"][t] = restored[t]
            /\ pc = "verify" => prints["restored"][t] # 0
SameOnceVerified == pc \in {"ready_after", "returned"} \/ Passed => Same

BackupInv ==
    script = "backup" =>
        FirstBounds /\ NothingYet /\ SnapshotBetween /\ RestoredRead /\ SameOnceVerified

\* The promotion check: while all it has read in a round matches, all of that is
\* at the commit still.  The root is read first because the others follow it, and
\* the applications before the Deployments because those follow them.
Everything == Apps \cup Deployments
RootFirst == looked # {} => Root \in looked
AppsFirst == \A d \in Deployments : d \in looked => Apps \subseteq looked
RoundSound ==
    pc \notin {"ready", "returned", "raised", "ended"} /\ matches =>
        confirmed = looked /\ (~repinned => \A o \in looked : AtCommit(o))
VerdictSound ==
    pc \in {"ready", "returned"} \/ Passed =>
        confirmed = Everything /\ (~repinned => \A o \in Everything : AtCommit(o))

RoundInv == RootFirst /\ AppsFirst /\ RoundSound /\ VerdictSound
PromotionInv == script = "promotion" => RoundInv

\* The recovery drill: what its next call finds of the two patches.
GoodRoot == ~source[Root].override /\ ~saved.source.override
SourceKnown ==
    /\ step \in {"healthy", "automation", "image", "pause", "break"} => ~source["shop-dev"].override
    /\ step \in {"undo_pause", "recovered", "good_image", "passed", "failed"} =>
        "undo_source" \in broken \/ ~source["shop-dev"].override
AutomationKnown ==
    /\ step \in {"healthy", "automation", "image", "pause"} => automated = saved.automated
    /\ step \in {"recovered", "good_image", "passed", "failed"} =>
        "undo_pause" \in broken \/ automated = saved.automated

IndInv ==
    /\ TypeOK
    /\ ReportRunning /\ SettledRunsTemplate /\ OthersIdle
    /\ BackupInv
    /\ PromotionInv
    /\ GoodRoot /\ SourceKnown /\ AutomationKnown
    /\ ConvergedHolds

-----------------------------------------------------------------------------
(* The report *)

\* A step of the body, or the exception it leaves with.
LEMMA BodyPreserves ==
    ASSUME EvidenceTypeOK, ReportRunning, UNCHANGED report,
           pc \notin {"open", "write", "ended"}, pc' \notin {"open", "write"}
    PROVE  EvidenceTypeOK' /\ ReportRunning' /\ ~Passed'
  BY DEF EvidenceTypeOK, ReportRunning, Passed

LEMMA EvidencePreserves ==
    ASSUME EvidenceTypeOK, ReportRunning,
           NEW body, body \notin {"open", "write", "uid", "ended"}, EvidenceNext(body)
    PROVE  /\ EvidenceTypeOK' /\ ReportRunning'
           /\ pc' \in {"write", "uid", body, "raised", "ended"}
           /\ pc' = "write" => pc = "open"
           /\ pc' = "uid" => pc = "write"
           /\ pc' = body /\ body # "raised" => pc = "uid"
           /\ Passed' => Passed \/ pc = "returned"
<1>1. CASE Reserve
  BY <1>1 DEF Reserve, EvidenceTypeOK, ReportRunning, Passed
<1>2. CASE Identify(body)
  BY <1>2 DEF Identify, EvidenceTypeOK, ReportRunning, Passed
<1>3. CASE Raise
  BY <1>3 DEF Raise, EvidenceTypeOK, ReportRunning, Passed
<1>4. CASE Close
  <2>1. pc' = "ended" /\ pc \in {"raised", "returned"}
    BY <1>4 DEF Close
  <2>2. report = [owner |-> "this", status |-> "running"]
    BY <2>1 DEF ReportRunning
  <2>3. \/ report' = [owner |-> "this", status |-> "running"]
        \/ report' = [owner |-> "this", status |-> "unreadable"]
        \/ pc = "raised" /\ report' = [owner |-> "this", status |-> "failed"]
        \/ pc = "returned" /\ report' = [owner |-> "this", status |-> "passed"]
    BY <1>4, <2>2 DEF Close
  <2> QED
    BY <2>1, <2>2, <2>3 DEF EvidenceTypeOK, ReportRunning, Passed
<1>5. CASE Kill
  BY <1>5 DEF Kill, EvidenceTypeOK, ReportRunning, Passed
<1>6. CASE FirstWrite
  <2>1. pc = "write" /\ report = [owner |-> "this", status |-> "unreadable"]
    BY <1>6 DEF FirstWrite, ReportRunning
  <2>2. \/ report' = [owner |-> "this", status |-> "unreadable"] /\ pc' = "ended"
        \/ report' = [owner |-> "this", status |-> "running"] /\ pc' \in {"uid", "ended"}
    BY <1>6, <2>1 DEF FirstWrite
  <2> QED
    BY <2>1, <2>2 DEF EvidenceTypeOK, ReportRunning, Passed
<1> QED
  BY <1>1, <1>2, <1>3, <1>4, <1>5, <1>6 DEF EvidenceNext

-----------------------------------------------------------------------------
(* The cluster *)

\* What Argo CD, the Deployment controllers and failing pods change.
LEMMA ControllersPreserve ==
    ASSUME GitOpsTypeOK, SettledRunsTemplate,
           Controllers \/ \E d \in Deployments : Degrade(d)
    PROVE  /\ GitOpsTypeOK' /\ SettledRunsTemplate'
           /\ UNCHANGED automated
           /\ \A a \in Apps : source'[a] \in {source[a], source[Root]}
           /\ UNCHANGED source \/ \E c \in Children : source[c] # source[Root]
<1>1. ASSUME NEW a \in Apps, Refresh(a)
      PROVE  GitOpsTypeOK' /\ SettledRunsTemplate' /\ UNCHANGED <<automated, source>>
  <2>1. InSync(a) \in BOOLEAN /\ Healthy(a) \in BOOLEAN
    BY DEF InSync, Healthy
  <2>2. [source |-> source[a], synced |-> InSync(a), healthy |-> Healthy(a)]
            \in [source : Sources, synced : BOOLEAN, healthy : BOOLEAN]
    BY <1>1, <2>1 DEF GitOpsTypeOK
  <2> HIDE DEF InSync, Healthy
  <2>3. compared' \in [Apps -> [source : Sources, synced : BOOLEAN, healthy : BOOLEAN]]
    BY <1>1, <2>2 DEF GitOpsTypeOK, Refresh
  <2> QED
    BY <1>1, <2>3 DEF GitOpsTypeOK, Refresh, SettledRunsTemplate
<1>2. ASSUME NEW c \in Children, SyncChild(c)
      PROVE  /\ GitOpsTypeOK' /\ SettledRunsTemplate' /\ UNCHANGED automated
             /\ \A a \in Apps : source'[a] \in {source[a], source[Root]}
             /\ source[c] # source[Root]
  BY <1>2 DEF GitOpsTypeOK, SyncChild, SettledRunsTemplate, Apps
<1>3. ASSUME NEW d \in Deployments, Apply(d)
      PROVE  GitOpsTypeOK' /\ SettledRunsTemplate' /\ UNCHANGED <<automated, source>>
  <2>1. Wanted(source["shop-dev"], d) \in Images
    BY GitOpsAssumption DEF GitOpsTypeOK, Wanted, Images, Sources, Apps
  <2> QED
    BY <1>3, <2>1 DEF GitOpsTypeOK, Apply, SettledRunsTemplate
<1>4. ASSUME NEW d \in Deployments, Observe(d)
      PROVE  GitOpsTypeOK' /\ SettledRunsTemplate' /\ UNCHANGED <<automated, source>>
  BY <1>4 DEF GitOpsTypeOK, Observe, SettledRunsTemplate
<1>5. ASSUME NEW d \in Deployments, RollOut(d)
      PROVE  GitOpsTypeOK' /\ SettledRunsTemplate' /\ UNCHANGED <<automated, source>>
  BY <1>5 DEF GitOpsTypeOK, RollOut, SettledRunsTemplate
<1>6. ASSUME NEW d \in Deployments, Degrade(d)
      PROVE  GitOpsTypeOK' /\ SettledRunsTemplate' /\ UNCHANGED <<automated, source>>
  BY <1>6 DEF GitOpsTypeOK, Degrade, SettledRunsTemplate
<1> QED
  BY <1>1, <1>2, <1>3, <1>4, <1>5, <1>6 DEF Controllers

LEMMA BootstrapPreserves ==
    ASSUME GitOpsTypeOK, SettledRunsTemplate, NEW r \in Revisions, Bootstrap(r)
    PROVE  /\ GitOpsTypeOK' /\ SettledRunsTemplate' /\ UNCHANGED automated
           /\ \A a \in Apps : source'[a] \in {source[a], At(r)}
  BY DEF GitOpsTypeOK, Bootstrap, SettledRunsTemplate, Sources, At, Apps

-----------------------------------------------------------------------------
(* The recovery drill *)

ClusterInv == GitOpsTypeOK /\ SettledRunsTemplate
DrillInv == DrillTypeOK /\ GoodRoot /\ SourceKnown /\ AutomationKnown

LEMMA ShopIsAnApp == "shop-dev" \in Apps /\ Root \in Apps /\ "shop-dev" # Root
  BY GitOpsAssumption DEF Apps, Root

\* A patch of the automation, or of the source of shop-dev.
LEMMA SetAutomationPreserves ==
    ASSUME ClusterInv, NEW on \in BOOLEAN, SetAutomation(on)
    PROVE  ClusterInv' /\ automated' = on /\ UNCHANGED source
  BY DEF SetAutomation, ClusterInv, GitOpsTypeOK, SettledRunsTemplate

LEMMA SetSourcePreserves ==
    ASSUME ClusterInv, NEW s \in Sources, SetSource(s)
    PROVE  /\ ClusterInv' /\ UNCHANGED automated
           /\ source'["shop-dev"] = s /\ source'[Root] = source[Root]
  BY ShopIsAnApp DEF SetSource, ClusterInv, GitOpsTypeOK, SettledRunsTemplate

LEMMA ClusterUnchanged ==
    ASSUME ClusterInv, UNCHANGED gitopsVars
    PROVE  ClusterInv' /\ UNCHANGED <<source, automated>>
  BY DEF ClusterInv, GitOpsTypeOK, SettledRunsTemplate, gitopsVars

LEMMA ReadingPreserves ==
    ASSUME ClusterInv, DrillInv, NEW from, NEW to, Reads(from, to),
           to \notin {"healthy", "break", "undo_pause"}, to \in {"automation", "image", "pause",
                 "failure", "available", "undo_source", "recovered", "good_image",
                 "passed", "failed", "killed"},
           to \in {"automation", "image", "pause"} => from \in {"healthy", "automation", "image"},
           to \in {"recovered", "good_image", "passed"} => from \in {"recovered", "good_image"},
           to = "failed" => from \in {"healthy", "automation", "image", "recovered", "good_image"},
           saved' \in [source : Sources, automated : BOOLEAN, image : Images],
           raised' \in BOOLEAN,
           saved'.source \in {saved.source, source["shop-dev"]},
           saved'.source # saved.source => from = "healthy",
           saved'.automated \in {saved.automated, automated}
    PROVE  ClusterInv' /\ DrillInv'
<1>1. /\ step = from /\ step' = to
      /\ ClusterInv' /\ UNCHANGED <<source, automated, broken>>
  BY ClusterUnchanged DEF Reads
<1>2. DrillTypeOK'
  BY <1>1 DEF DrillInv, DrillTypeOK
<1>3. GoodRoot'
  BY <1>1 DEF DrillInv, GoodRoot, SourceKnown
<1>4. SourceKnown'
  BY <1>1 DEF DrillInv, SourceKnown
<1>5. AutomationKnown'
  BY <1>1 DEF DrillInv, AutomationKnown
<1> QED
  BY <1>1, <1>2, <1>3, <1>4, <1>5 DEF DrillInv

LEMMA DrillStepPreserves ==
    ASSUME ClusterInv, DrillInv, DrillStep
    PROVE  ClusterInv' /\ DrillInv'
<1>1. /\ source["shop-dev"] \in Sources /\ automated \in BOOLEAN /\ image["api"] \in Images
      /\ saved \in [source : Sources, automated : BOOLEAN, image : Images]
      /\ raised \in BOOLEAN
  BY ShopIsAnApp, GitOpsAssumption DEF ClusterInv, GitOpsTypeOK, DrillInv, DrillTypeOK
<1>2. CASE GetSource
  BY <1>1, <1>2, ReadingPreserves DEF GetSource
<1>3. CASE GetAutomation
  BY <1>1, <1>3, ReadingPreserves DEF GetAutomation
<1>4. CASE GetImage
  BY <1>1, <1>4, ReadingPreserves DEF GetImage
<1>5. CASE Refuse
  BY <1>1, <1>5, ReadingPreserves DEF Refuse
<1>6. CASE ImageFailure
  BY <1>1, <1>6, ReadingPreserves DEF ImageFailure
<1>7. CASE Available
  BY <1>1, <1>7, ReadingPreserves DEF Available
<1>8. CASE Interrupt
  BY <1>1, <1>8, ReadingPreserves DEF Interrupt
<1>9. CASE RecoveredStatus
  BY <1>1, <1>9, ReadingPreserves DEF RecoveredStatus
<1>10. CASE RecoveredImage
  BY <1>1, <1>10, ReadingPreserves DEF RecoveredImage
<1>11. CASE GiveUp
  BY <1>1, <1>11, ReadingPreserves DEF GiveUp
<1>12. CASE KillDrill
  BY <1>1, <1>12, ReadingPreserves DEF KillDrill
<1>13. CASE Pause
  <2>1. /\ step = "pause" /\ step' \in {"break", "undo_source"} /\ raised' \in BOOLEAN
        /\ UNCHANGED <<saved, broken>>
        /\ SetAutomation(FALSE) \/ UNCHANGED gitopsVars
    BY <1>1, <1>13 DEF Pause, Patch
  <2>2. ClusterInv' /\ UNCHANGED source
    BY <2>1, SetAutomationPreserves, SetSourcePreserves, ClusterUnchanged
  <2> QED
    BY <2>1, <2>2 DEF DrillInv, DrillTypeOK, GoodRoot, SourceKnown, AutomationKnown
<1>14. CASE Break
  <2>1. /\ step = "break" /\ step' \in {"failure", "undo_source"} /\ raised' \in BOOLEAN
        /\ UNCHANGED <<saved, broken>>
        /\ SetSource([saved.source EXCEPT !.override = TRUE]) \/ UNCHANGED gitopsVars
    BY <1>1, <1>14 DEF Break, Patch
  <2>2. [saved.source EXCEPT !.override = TRUE] \in Sources
    BY <1>1 DEF Sources
  <2>3. ClusterInv' /\ source'[Root] = source[Root]
    BY <2>1, <2>2, SetAutomationPreserves, SetSourcePreserves, ClusterUnchanged
  <2> QED
    BY <2>1, <2>3 DEF DrillInv, DrillTypeOK, GoodRoot, SourceKnown, AutomationKnown
<1>15. CASE UndoSource
  <2>1. /\ step = "undo_source" /\ step' = "undo_pause" /\ raised' \in BOOLEAN
        /\ UNCHANGED saved
        /\ \/ SetSource(saved.source) /\ UNCHANGED broken
           \/ UNCHANGED gitopsVars /\ broken' = broken \cup {"undo_source"}
    BY <1>1, <1>15 DEF UndoSource, Undo
  <2>2. saved.source \in Sources
    BY <1>1
  <2>3. /\ ClusterInv' /\ source'[Root] = source[Root]
        /\ source'["shop-dev"] = saved.source \/ "undo_source" \in broken'
    BY <2>1, <2>2, SetAutomationPreserves, SetSourcePreserves, ClusterUnchanged
  <2> QED
    BY <2>1, <2>3 DEF DrillInv, DrillTypeOK, GoodRoot, SourceKnown, AutomationKnown
<1>16. CASE UndoPause
  <2>1. /\ step = "undo_pause" /\ step' \in {"failed", "recovered"} /\ raised' \in BOOLEAN
        /\ UNCHANGED saved
        /\ \/ SetAutomation(saved.automated) /\ UNCHANGED broken
           \/ UNCHANGED gitopsVars /\ broken' = broken \cup {"undo_pause"}
    BY <1>1, <1>16 DEF UndoPause, Undo
  <2>2. saved.automated \in BOOLEAN
    BY <1>1
  <2>3. /\ ClusterInv' /\ UNCHANGED source
        /\ automated' = saved.automated \/ "undo_pause" \in broken'
    BY <2>1, <2>2, SetAutomationPreserves, SetSourcePreserves, ClusterUnchanged
  <2> QED
    BY <2>1, <2>3 DEF DrillInv, DrillTypeOK, GoodRoot, SourceKnown, AutomationKnown
<1> QED
  BY <1>2, <1>3, <1>4, <1>5, <1>6, <1>7, <1>8, <1>9, <1>10, <1>11, <1>12, <1>13, <1>14, <1>15, <1>16
  DEF DrillStep

\* A child takes its source from the root, whose source is good.
LEMMA DrillSurvivesControllers ==
    ASSUME DrillInv, UNCHANGED drillVars, UNCHANGED automated,
           ~source'[Root].override,
           \A a \in Apps : source'[a] = source[a] \/ ~source'[a].override
    PROVE  DrillInv'
<1>1. UNCHANGED <<step, saved, raised, broken>>
  BY DEF drillVars
<1>2. source["shop-dev"].override \/ ~source'["shop-dev"].override
  BY ShopIsAnApp
<1> QED
  BY <1>1, <1>2 DEF DrillInv, DrillTypeOK, GoodRoot, SourceKnown, AutomationKnown

LEMMA ControllersKeepGood ==
    ASSUME ClusterInv, GoodRoot, Controllers \/ \E d \in Deployments : Degrade(d)
    PROVE  /\ ClusterInv' /\ UNCHANGED automated /\ ~source'[Root].override
           /\ \A a \in Apps : source'[a] = source[a] \/ ~source'[a].override
           /\ \A a \in Apps : source'[a] \in {source[a], source[Root]}
  BY ControllersPreserve, ShopIsAnApp DEF ClusterInv, GoodRoot

LEMMA BootstrapKeepsGood ==
    ASSUME ClusterInv, GoodRoot, NEW r \in Revisions, Bootstrap(r)
    PROVE  /\ ClusterInv' /\ UNCHANGED automated /\ ~source'[Root].override
           /\ \A a \in Apps : source'[a] = source[a] \/ ~source'[a].override
<1>1. \A a \in Apps : source'[a] \in {source[a], At(r)}
  BY BootstrapPreserves DEF ClusterInv
<1>2. ~At(r).override
  BY DEF At
<1> QED
  BY <1>1, <1>2, BootstrapPreserves, ShopIsAnApp DEF ClusterInv, GoodRoot

-----------------------------------------------------------------------------
(* The promotion check and the wait *)

EvidenceInv == EvidenceTypeOK /\ ReportRunning

\* Whatever follows what is at the commit has nothing to move it to.
LEMMA ReadStaysAtCommit ==
    ASSUME ClusterInv, NEW S \in SUBSET Everything, UNCHANGED commit,
           S # {} => Root \in S,
           \A d \in Deployments : d \in S => Apps \subseteq S,
           \A o \in S : AtCommit(o),
           Controllers \/ \E d \in Deployments : Degrade(d)
    PROVE  \A o \in S : AtCommit(o)'
<1> SUFFICES ASSUME NEW o \in S PROVE AtCommit(o)'
  OBVIOUS
<1>1. source[Root] = At(commit)
  BY ShopIsAnApp DEF AtCommit
<1>2. CASE o \in Apps
  <2>1. source'[o] \in {source[o], source[Root]}
    BY <1>2, ControllersPreserve DEF ClusterInv
  <2>2. source[o] = At(commit)
    BY <1>2 DEF AtCommit
  <2> QED
    BY <1>1, <1>2, <2>1, <2>2 DEF AtCommit, At, Apps
<1>3. CASE o \notin Apps
  <2>1. o \in Deployments /\ image[o] = commit /\ running[o] = commit
    BY <1>3 DEF AtCommit, Everything
  <2>2. source["shop-dev"] = At(commit)
    BY <2>1, ShopIsAnApp DEF AtCommit
  <2>3. Wanted(source["shop-dev"], o) = commit
    BY <2>2 DEF Wanted, At
  <2>4. ASSUME NEW a \in Apps, Refresh(a) PROVE UNCHANGED <<image, running>>
    BY <2>4 DEF Refresh
  <2>5. ASSUME NEW c \in Children, SyncChild(c) PROVE UNCHANGED <<image, running>>
    BY <2>5 DEF SyncChild
  <2>6. ASSUME NEW d \in Deployments, Degrade(d) PROVE UNCHANGED <<image, running>>
    BY <2>6 DEF Degrade
  <2>7. ASSUME NEW d \in Deployments, Apply(d) PROVE image'[o] = image[o] /\ UNCHANGED running
    BY <2>1, <2>3, <2>7 DEF Apply, ClusterInv, GitOpsTypeOK
  <2>8. ASSUME NEW d \in Deployments, Observe(d) PROVE UNCHANGED image /\ running'[o] = running[o]
    BY <2>1, <2>8 DEF Observe, ClusterInv, GitOpsTypeOK
  <2>9. ASSUME NEW d \in Deployments, RollOut(d) PROVE UNCHANGED image /\ running'[o] = running[o]
    BY <2>1, <2>9 DEF RollOut, ClusterInv, GitOpsTypeOK
  <2>10. image'[o] = commit /\ running'[o] = commit
    BY <2>1, <2>4, <2>5, <2>6, <2>7, <2>8, <2>9 DEF Controllers
  <2> QED
    BY <1>3, <2>10 DEF AtCommit, Apps
<1> QED
  BY <1>2, <1>3

LEMMA ClusterKeepsRound ==
    ASSUME ClusterInv, PromotionTypeOK, RoundInv,
           UNCHANGED <<evidenceVars, promotionVars>>,
           Controllers \/ \E d \in Deployments : Degrade(d)
    PROVE  RoundInv'
<1>1. UNCHANGED <<report, pc, commit, looked, matches, confirmed, repinned>>
  BY DEF evidenceVars, promotionVars
<1>2. RootFirst' /\ AppsFirst'
  BY <1>1 DEF RoundInv, RootFirst, AppsFirst, Apps
<1>3. RoundSound'
  <2> SUFFICES ASSUME pc \notin {"ready", "returned", "raised", "ended"}, matches
               PROVE  confirmed = looked /\ (~repinned => \A o \in looked : AtCommit(o)')
    BY <1>1 DEF RoundSound
  <2>1. ASSUME \A o \in looked : AtCommit(o) PROVE \A o \in looked : AtCommit(o)'
    BY <1>1, <2>1, ReadStaysAtCommit DEF RoundInv, RootFirst, AppsFirst, PromotionTypeOK, Everything
  <2> QED
    BY <2>1 DEF RoundInv, RoundSound
<1>4. VerdictSound'
  <2> SUFFICES ASSUME pc \in {"ready", "returned"} \/ Passed
               PROVE  confirmed = Everything /\ (~repinned => \A o \in Everything : AtCommit(o)')
    BY <1>1 DEF VerdictSound, Passed, Everything, Apps
  <2>1. ASSUME \A o \in Everything : AtCommit(o) PROVE \A o \in Everything : AtCommit(o)'
    BY <1>1, <2>1, ReadStaysAtCommit, ShopIsAnApp DEF Everything
  <2> QED
    BY <2>1 DEF RoundInv, VerdictSound
<1> QED
  BY <1>2, <1>3, <1>4 DEF RoundInv

\* A reading adds what it reads, which is at the commit if it matches.
LEMMA LookPreserves ==
    ASSUME EvidenceInv, PromotionTypeOK, RoundInv, UNCHANGED gitopsVars,
           NEW o \in Everything, NEW ok \in BOOLEAN, NEW is \in BOOLEAN, Look(o, ok, is),
           o = Root \/ Root \in looked,
           o \in Deployments => Apps \subseteq looked,
           repinned' = (repinned /\ o # Root),
           ok => is /\ AtCommit(o)
    PROVE  EvidenceInv' /\ PromotionTypeOK' /\ RoundInv'
<1>1. /\ pc = "poll" /\ o \notin looked /\ looked' = looked \cup {o}
      /\ matches' = (matches /\ ok)
      /\ confirmed' = IF is THEN confirmed \cup {o} ELSE confirmed
      /\ UNCHANGED <<report, pc, commit>>
  BY DEF Look, evidenceVars
<1>2. EvidenceInv'
  BY <1>1 DEF EvidenceInv, EvidenceTypeOK, ReportRunning
<1>3. PromotionTypeOK'
  <2>1. matches' \in BOOLEAN /\ repinned' \in BOOLEAN
    BY <1>1 DEF PromotionTypeOK
  <2> QED
    BY <1>1, <2>1 DEF PromotionTypeOK, Everything, Apps
<1>4. RootFirst' /\ AppsFirst'
  BY <1>1, GitOpsAssumption DEF RoundInv, RootFirst, AppsFirst, Apps, Root
<1>5. \A x : AtCommit(x) => AtCommit(x)'
  BY <1>1 DEF AtCommit, gitopsVars, Apps, At
<1>6. RoundSound'
  <2> SUFFICES ASSUME matches, ok
               PROVE  confirmed' = looked' /\ (~repinned' => \A x \in looked' : AtCommit(x)')
    BY <1>1 DEF RoundSound
  <2>1. confirmed = looked /\ (~repinned => \A x \in looked : AtCommit(x))
    BY <1>1 DEF RoundInv, RoundSound
  <2>2. confirmed' = looked'
    BY <1>1, <2>1
  <2>3. CASE o = Root
    BY <1>1, <1>5, <2>2, <2>3 DEF RoundInv, RootFirst
  <2>4. CASE o # Root
    BY <1>1, <1>5, <2>1, <2>2, <2>4
  <2> QED
    BY <2>3, <2>4
<1>7. VerdictSound'
  BY <1>1 DEF VerdictSound, Passed, EvidenceInv, ReportRunning
<1> QED
  BY <1>2, <1>3, <1>4, <1>6, <1>7 DEF RoundInv

\* A step of the script that reads nothing of the cluster.
LEMMA BesidesReading ==
    ASSUME RoundInv, UNCHANGED <<gitopsVars, commit, looked, matches, confirmed, repinned>>,
           pc' \notin {"ready", "returned", "raised", "ended"}
                => pc \notin {"ready", "returned", "raised", "ended"},
           pc' \in {"ready", "returned"} \/ Passed' => pc \in {"ready", "returned"} \/ Passed
    PROVE  RoundInv'
<1>1. \A x : AtCommit(x)' <=> AtCommit(x)
  BY DEF AtCommit, gitopsVars, Apps, At
<1>2. RootFirst' /\ AppsFirst'
  BY DEF RoundInv, RootFirst, AppsFirst, Apps
<1>3. RoundSound'
  BY <1>1 DEF RoundInv, RoundSound
<1>4. VerdictSound'
  BY <1>1 DEF RoundInv, VerdictSound, Everything, Apps
<1> QED
  BY <1>2, <1>3, <1>4 DEF RoundInv

LEMMA PromotionStepPreserves ==
    ASSUME EvidenceInv, ClusterInv, PromotionTypeOK, RoundInv,
           \A a \in Apps : ~source[a].override,
           UNCHANGED gitopsVars, PromotionStep
    PROVE  EvidenceInv' /\ PromotionTypeOK' /\ RoundInv'
<1>1. CASE EvidenceNext("images") /\ UNCHANGED promotionVars
  <2>1. /\ EvidenceInv'
        /\ pc' \in {"write", "uid", "images", "raised", "ended"}
        /\ pc' = "write" => pc = "open"
        /\ pc' = "uid" => pc = "write"
        /\ pc' = "images" => pc = "uid"
        /\ Passed' => Passed \/ pc = "returned"
    BY <1>1, EvidencePreserves DEF EvidenceInv
  <2>2. UNCHANGED <<commit, looked, matches, confirmed, repinned>>
    BY <1>1 DEF promotionVars
  <2>3. RoundInv'
    BY <2>1, <2>2, BesidesReading
  <2>4. PromotionTypeOK'
    BY <2>2 DEF PromotionTypeOK, Apps
  <2> QED
    BY <2>1, <2>3, <2>4
<1>2. CASE ExpectedImages
  <2>1. /\ pc = "images" /\ pc' = "poll"
        /\ UNCHANGED <<report, commit, looked, matches, confirmed, repinned>>
    BY <1>2 DEF ExpectedImages, promotionVars
  <2>2. EvidenceInv' /\ ~Passed'
    BY <2>1, BodyPreserves DEF EvidenceInv
  <2>3. RoundInv'
    BY <2>1, <2>2, BesidesReading
  <2>4. PromotionTypeOK'
    BY <2>1 DEF PromotionTypeOK, Apps
  <2> QED
    BY <2>2, <2>3, <2>4
<1>3. ASSUME NEW a \in Apps, GetApp(a)
      PROVE  EvidenceInv' /\ PromotionTypeOK' /\ RoundInv'
  <2>1. AppMatches(a) \in BOOLEAN
    <3>1. compared[a].synced \in BOOLEAN /\ compared[a].healthy \in BOOLEAN
      BY DEF ClusterInv, GitOpsTypeOK
    <3> QED
      BY <3>1 DEF AppMatches
  <2>2. AppMatches(a) => source[a] = At(commit)
    <3>1. source[a] \in Sources /\ source[a].override = FALSE
      BY DEF ClusterInv, GitOpsTypeOK, Sources
    <3> QED
      BY <3>1 DEF AppMatches, Sources, At
  <2>3. a \in Everything /\ a \notin Deployments
    BY GitOpsAssumption DEF Everything, Apps, Root
  <2>4. /\ a = Root \/ Root \in looked
        /\ Look(a, AppMatches(a), source[a] = At(commit))
        /\ repinned' = (repinned /\ a # Root)
    BY <1>3 DEF GetApp
  <2>5. AppMatches(a) => source[a] = At(commit) /\ AtCommit(a)
    BY <2>2 DEF AtCommit
  <2>6. (source[a] = At(commit)) \in BOOLEAN
    OBVIOUS
  <2> HIDE DEF AppMatches, Look, AtCommit
  <2> QED
    BY <2>1, <2>3, <2>4, <2>5, <2>6, LookPreserves
<1>4. ASSUME NEW d \in Deployments, GetDeployment(d)
      PROVE  EvidenceInv' /\ PromotionTypeOK' /\ RoundInv'
  <2>1. RolloutMatches(d) \in BOOLEAN
    BY DEF ClusterInv, GitOpsTypeOK, RolloutMatches
  <2>2. d \in Everything /\ d \notin Apps /\ d # Root /\ repinned \in BOOLEAN
    BY GitOpsAssumption DEF Everything, Apps, Root, PromotionTypeOK
  <2>3. RolloutMatches(d) => running[d] = commit /\ AtCommit(d)
    BY <2>2 DEF RolloutMatches, ClusterInv, SettledRunsTemplate, AtCommit
  <2>4. /\ Apps \subseteq looked
        /\ Look(d, RolloutMatches(d), running[d] = commit)
        /\ repinned' = repinned
    BY <1>4 DEF GetDeployment
  <2>5. Root \in looked /\ repinned' = (repinned /\ d # Root)
    BY <2>2, <2>4, ShopIsAnApp
  <2>6. (running[d] = commit) \in BOOLEAN
    OBVIOUS
  <2> QED
    BY <2>1, <2>2, <2>3, <2>4, <2>5, <2>6, LookPreserves
<1>5. CASE Decide
  <2>1. /\ pc = "poll" /\ looked = Everything
        /\ pc' = (IF matches THEN "ready" ELSE "poll")
        /\ looked' = {} /\ matches' = TRUE
        /\ confirmed' = IF matches THEN confirmed ELSE {}
        /\ UNCHANGED <<report, commit, repinned>>
    BY <1>5 DEF Decide, Everything
  <2>2. EvidenceInv' /\ ~Passed'
    BY <2>1, BodyPreserves DEF EvidenceInv
  <2>3. PromotionTypeOK'
    BY <2>1 DEF PromotionTypeOK, Apps
  <2>4. RootFirst' /\ AppsFirst'
    BY <2>1 DEF RootFirst, AppsFirst
  <2>5. RoundSound'
    BY <2>1 DEF RoundSound
  <2>6. VerdictSound'
    <3>1. \A x : AtCommit(x)' <=> AtCommit(x)
      BY <2>1 DEF AtCommit, gitopsVars, Apps, At
    <3>2. pc' = "ready" => confirmed = looked /\ (~repinned => \A o \in looked : AtCommit(o))
      BY <2>1 DEF RoundInv, RoundSound
    <3>3. pc' \in {"ready", "returned"} => pc' = "ready" /\ confirmed' = confirmed
      BY <2>1
    <3> QED
      BY <2>1, <2>2, <3>1, <3>2, <3>3 DEF VerdictSound, Everything, Apps
  <2> QED
    BY <2>2, <2>3, <2>4, <2>5, <2>6 DEF RoundInv
<1>6. CASE ReadyInside
  <2>1. /\ pc = "ready" /\ pc' = "returned"
        /\ UNCHANGED <<report, commit, looked, matches, confirmed, repinned>>
    BY <1>6 DEF ReadyInside, promotionVars
  <2>2. EvidenceInv' /\ ~Passed'
    BY <2>1, BodyPreserves DEF EvidenceInv
  <2>3. RoundInv'
    BY <2>1, <2>2, BesidesReading
  <2>4. PromotionTypeOK'
    BY <2>1 DEF PromotionTypeOK, Apps
  <2> QED
    BY <2>2, <2>3, <2>4
<1> QED
  BY <1>1, <1>2, <1>3, <1>4, <1>5, <1>6 DEF PromotionStep

\* A new pin of the root ends what is known of its children.
LEMMA BootstrapKeepsRound ==
    ASSUME EvidenceInv, PromotionTypeOK, RoundInv, repinned' = TRUE,
           UNCHANGED <<evidenceVars, commit, looked, matches, confirmed>>
    PROVE  EvidenceInv' /\ PromotionTypeOK' /\ RoundInv'
<1>1. UNCHANGED <<report, pc>>
  BY DEF evidenceVars
<1>2. EvidenceInv' /\ PromotionTypeOK'
  BY <1>1 DEF EvidenceInv, EvidenceTypeOK, ReportRunning, PromotionTypeOK, Apps
<1>3. RoundInv'
  BY <1>1 DEF RoundInv, RootFirst, AppsFirst, RoundSound, VerdictSound, Passed, Everything, Apps
<1> QED
  BY <1>2, <1>3

\* The sync of the root has nothing to change while all are at its revision.
LEMMA WaitNextPreserves ==
    ASSUME ClusterInv, GoodRoot, WaitTypeOK, ConvergedHolds,
           \A a \in Apps : ~source[a].override, WaitNext
    PROVE  /\ ClusterInv' /\ WaitTypeOK' /\ ConvergedHolds'
           /\ UNCHANGED automated /\ \A a \in Apps : ~source'[a].override
<1>1. CASE (Poll \/ StopWaiting) /\ UNCHANGED gitopsVars
  <2>1. ClusterInv' /\ UNCHANGED <<source, automated>>
    BY <1>1, ClusterUnchanged
  <2>2. WaitTypeOK'
    BY <1>1 DEF Poll, StopWaiting, WaitTypeOK
  <2>3. ASSUME Poll PROVE ConvergedHolds'
    <3>1. \A a \in Apps : source[a].revision = expected /\ UNCHANGED expected
      BY <2>3 DEF Poll, Converged, AtRevision
    <3>2. \A a \in Apps : source[a] \in Sources /\ source[a].override = FALSE
      BY DEF ClusterInv, GitOpsTypeOK, Sources
    <3>3. \A a \in Apps : source[a] = At(expected)
      BY <3>1, <3>2 DEF Sources, At
    <3> QED
      BY <2>1, <3>1, <3>3 DEF ConvergedHolds, At
  <2>4. ASSUME StopWaiting PROVE ConvergedHolds'
    BY <2>4 DEF StopWaiting, ConvergedHolds
  <2> QED
    BY <1>1, <2>1, <2>2, <2>3, <2>4
<1>2. CASE (Controllers \/ \E d \in Deployments : Degrade(d)) /\ UNCHANGED waitVars
  <2>1. /\ ClusterInv' /\ UNCHANGED automated
        /\ \A a \in Apps : source'[a] \in {source[a], source[Root]}
    BY <1>2, ControllersKeepGood
  <2>2. ConvergedHolds'
    BY <1>2, <2>1, ShopIsAnApp DEF ConvergedHolds, At, waitVars
  <2> QED
    BY <1>2, <2>1, <2>2, ShopIsAnApp DEF waitVars, WaitTypeOK
<1>3. ASSUME NEW r \in Revisions, Bootstrap(r), UNCHANGED <<expected, verdict>>,
             moved' = (moved \/ verdict = "converged")
      PROVE  /\ ClusterInv' /\ WaitTypeOK' /\ ConvergedHolds'
             /\ UNCHANGED automated /\ \A a \in Apps : ~source'[a].override
  <2>1. /\ ClusterInv' /\ UNCHANGED automated
        /\ \A a \in Apps : source'[a] = source[a] \/ ~source'[a].override
    BY <1>3, BootstrapKeepsGood
  <2>2. WaitTypeOK' /\ ConvergedHolds'
    BY <1>3 DEF WaitTypeOK, ConvergedHolds
  <2> QED
    BY <2>1, <2>2
<1> QED
  BY <1>1, <1>2, <1>3 DEF WaitNext

-----------------------------------------------------------------------------
(* The backup drill *)

DumpInv ==
    /\ RestoreTypeOK
    /\ FirstBounds /\ NothingYet /\ SnapshotBetween /\ RestoredRead /\ SameOnceVerified

LEMMA RowsOfTables ==
    ASSUME RestoreTypeOK
    PROVE  /\ tables \in Rows /\ archive \in Rows /\ digest \in Rows
           /\ restored \in Rows /\ snapshot \in Rows
           /\ \A w \in {"before", "after", "restored"} : prints[w] \in Rows
           /\ \A t \in TABLES :
                /\ tables[t] \in Nat /\ snapshot[t] \in Nat /\ restored[t] \in Nat
                /\ \A w \in {"before", "after", "restored"} : prints[w][t] \in Nat
<1>1. /\ tables \in Rows /\ archive \in Rows /\ digest \in Rows
      /\ restored \in Rows /\ snapshot \in Rows
      /\ \A w \in {"before", "after", "restored"} : prints[w] \in Rows
  BY DEF RestoreTypeOK
<1>2. \A r \in Rows : \A t \in TABLES : r[t] \in Nat
  BY DrillAssumption DEF Rows
<1> QED
  BY <1>1, <1>2

\* The second table of a fingerprint is read after the first.
LEMMA FingerprintReads ==
    ASSUME RestoreTypeOK, NEW which \in {"before", "after", "restored"},
           NEW db \in Rows, NEW next, next \notin {which, "raised"},
           Fingerprint(which, db, next)
    PROVE  /\ pc = which /\ pc' \in {which, next, "raised"}
           /\ UNCHANGED <<report, tables, archive, digest, restored, snapshot>>
           /\ prints' \in [{"before", "after", "restored"} -> Rows]
           /\ \A w \in {"before", "after", "restored"} : w # which => prints'[w] = prints[w]
           /\ \A t \in TABLES : prints'[which][t] \in {prints[which][t], db[t]}
           /\ pc' = next => \A t \in TABLES : prints'[which][t] # 0
<1>1. PICK t \in TABLES :
        /\ prints[which][t] = 0
        /\ t = "jobs" => prints[which]["items"] # 0
        /\ prints' = [prints EXCEPT ![which][t] = db[t]]
        /\ Body(which, IF db[t] = 0 THEN "raised" ELSE IF t = "items" THEN which ELSE next)
  BY DEF Fingerprint
<1>2. pc = which /\ pc' \in {which, next, "raised"} /\ UNCHANGED report
  BY <1>1 DEF Body
<1>3. UNCHANGED <<tables, archive, digest, restored, snapshot>>
  BY DEF Fingerprint
<1>4. prints \in [{"before", "after", "restored"} -> [TABLES -> 0..MaxWrites]] /\ db[t] \in 0..MaxWrites
  BY DEF RestoreTypeOK, Rows
<1>5. prints' \in [{"before", "after", "restored"} -> Rows]
  BY <1>1, <1>4 DEF Rows
<1>6. /\ \A w \in {"before", "after", "restored"} : w # which => prints'[w] = prints[w]
      /\ \A u \in TABLES : u # t => prints'[which][u] = prints[which][u]
      /\ prints'[which][t] = db[t]
  BY <1>1, <1>4
<1>7. ASSUME pc' = next PROVE \A u \in TABLES : prints'[which][u] # 0
  <2>1. t = "jobs" /\ db[t] # 0
    BY <1>1, <1>7 DEF Body, TABLES
  <2> QED
    BY <1>1, <1>6, <2>1 DEF TABLES
<1> QED
  BY <1>2, <1>3, <1>5, <1>6, <1>7

\* Where the script is says all a step that reads nothing new has to keep.
LEMMA QuietStep ==
    ASSUME DumpInv, UNCHANGED <<tables, prints, restored, snapshot>>,
           RestoreTypeOK',
           \/ pc' \in {"raised", "ended"}
           \/ /\ pc \notin {"raised", "ended"}
              /\ pc' \in Dumped <=> pc \in Dumped
              /\ pc' \in Loaded <=> pc \in Loaded,
           pc' = "verify" => pc = "verify",
           pc' \in {"ready_after", "returned"} \/ Passed' => Same
    PROVE  DumpInv'
<1>1. FirstBounds' /\ SameOnceVerified'
  BY DEF DumpInv, FirstBounds, SameOnceVerified, Same
<1>2. NothingYet'
  BY DEF DumpInv, NothingYet, Dumped, Loaded
<1>3. SnapshotBetween'
  BY DEF DumpInv, SnapshotBetween, Dumped
<1>4. RestoredRead'
  BY DEF DumpInv, RestoredRead, Loaded
<1> QED
  BY <1>1, <1>2, <1>3, <1>4 DEF DumpInv

\* A reading of the application's rows, before the dump or after it.
LEMMA BeforePreserves ==
    ASSUME DumpInv, ReportRunning, Fingerprint("before", tables, "backup")
    PROVE  DumpInv'
<1>1. /\ pc = "before" /\ pc' \in {"before", "backup", "raised"}
      /\ UNCHANGED <<report, tables, archive, digest, restored, snapshot>>
      /\ prints' \in [{"before", "after", "restored"} -> Rows]
      /\ prints'["after"] = prints["after"] /\ prints'["restored"] = prints["restored"]
      /\ \A t \in TABLES : prints'["before"][t] \in {prints["before"][t], tables[t]}
  BY FingerprintReads, RowsOfTables DEF DumpInv
<1>2. RestoreTypeOK'
  BY <1>1 DEF DumpInv, RestoreTypeOK
<1>3. FirstBounds'
  BY <1>1, RowsOfTables DEF DumpInv, FirstBounds
<1>4. NothingYet'
  BY <1>1 DEF DumpInv, NothingYet, Dumped, Loaded
<1>5. SnapshotBetween' /\ RestoredRead'
  BY <1>1 DEF SnapshotBetween, RestoredRead, Dumped, Loaded
<1>6. ~Passed'
  BY <1>1 DEF ReportRunning, Passed
<1> QED
  BY <1>1, <1>2, <1>3, <1>4, <1>5, <1>6 DEF DumpInv, SameOnceVerified

LEMMA AfterPreserves ==
    ASSUME DumpInv, ReportRunning, Fingerprint("after", tables, "restored")
    PROVE  DumpInv'
<1>1. /\ pc = "after" /\ pc' \in {"after", "restored", "raised"}
      /\ UNCHANGED <<report, tables, archive, digest, restored, snapshot>>
      /\ prints' \in [{"before", "after", "restored"} -> Rows]
      /\ prints'["before"] = prints["before"] /\ prints'["restored"] = prints["restored"]
      /\ \A t \in TABLES : prints'["after"][t] \in {prints["after"][t], tables[t]}
      /\ pc' = "restored" => \A t \in TABLES : prints'["after"][t] # 0
  BY FingerprintReads, RowsOfTables DEF DumpInv
<1>2. RestoreTypeOK'
  BY <1>1 DEF DumpInv, RestoreTypeOK
<1>3. FirstBounds' /\ NothingYet'
  BY <1>1 DEF DumpInv, FirstBounds, NothingYet, Dumped, Loaded
<1>4. SnapshotBetween'
  BY <1>1, RowsOfTables DEF DumpInv, SnapshotBetween, Dumped
<1>5. RestoredRead'
  <2>1. prints["restored"] = Nothing
    BY <1>1 DEF DumpInv, NothingYet, Loaded
  <2> QED
    BY <1>1, <2>1 DEF RestoredRead, Loaded, Nothing
<1>6. ~Passed'
  BY <1>1 DEF ReportRunning, Passed
<1> QED
  BY <1>1, <1>2, <1>3, <1>4, <1>5, <1>6 DEF DumpInv, SameOnceVerified

LEMMA RestoredPreserves ==
    ASSUME DumpInv, ReportRunning, Fingerprint("restored", restored, "verify")
    PROVE  DumpInv'
<1>1. /\ pc = "restored" /\ pc' \in {"restored", "verify", "raised"}
      /\ UNCHANGED <<report, tables, archive, digest, restored, snapshot>>
      /\ prints' \in [{"before", "after", "restored"} -> Rows]
      /\ prints'["before"] = prints["before"] /\ prints'["after"] = prints["after"]
      /\ \A t \in TABLES : prints'["restored"][t] \in {prints["restored"][t], restored[t]}
      /\ pc' = "verify" => \A t \in TABLES : prints'["restored"][t] # 0
  BY FingerprintReads, RowsOfTables DEF DumpInv
<1>2. RestoreTypeOK'
  BY <1>1 DEF DumpInv, RestoreTypeOK
<1>3. FirstBounds' /\ NothingYet'
  BY <1>1 DEF DumpInv, FirstBounds, NothingYet, Dumped, Loaded
<1>4. SnapshotBetween'
  BY <1>1 DEF DumpInv, SnapshotBetween, Dumped
<1>5. RestoredRead'
  BY <1>1 DEF DumpInv, RestoredRead, Loaded
<1>6. ~Passed'
  BY <1>1 DEF ReportRunning, Passed
<1> QED
  BY <1>1, <1>2, <1>3, <1>4, <1>5, <1>6 DEF DumpInv, SameOnceVerified

\* The bounds meet: the first reading, the snapshot and the last are the same.
LEMMA VerifiedIsSame ==
    ASSUME DumpInv, pc = "verify", Equal
    PROVE  Same
<1>1. \A t \in TABLES :
        /\ prints["before"][t] <= snapshot[t] /\ snapshot[t] <= prints["after"][t]
        /\ prints["restored"][t] = restored[t]
        /\ prints["before"][t] = prints["after"][t] /\ prints["after"][t] = prints["restored"][t]
  BY DEF DumpInv, SnapshotBetween, RestoredRead, Dumped, Loaded, Equal
<1>2. \A t \in TABLES :
        /\ prints["before"][t] = snapshot[t] /\ prints["after"][t] = snapshot[t]
        /\ restored[t] = snapshot[t]
  BY <1>1, RowsOfTables DEF DumpInv
<1>3. /\ prints["before"] \in Rows /\ prints["after"] \in Rows
      /\ restored \in Rows /\ snapshot \in Rows
  BY RowsOfTables DEF DumpInv
<1> QED
  BY <1>2, <1>3 DEF Same, Rows

LEMMA RestoreNextPreserves ==
    ASSUME EvidenceInv, DumpInv, RestoreNext
    PROVE  EvidenceInv' /\ DumpInv'
<1>1. ASSUME NEW t \in TABLES, ApplicationWrites(t)
      PROVE  EvidenceInv' /\ DumpInv'
  <2>1. UNCHANGED <<report, pc, prints, archive, digest, restored, snapshot>>
    BY <1>1 DEF ApplicationWrites, evidenceVars
  <2>2. tables' \in Rows /\ \A u \in TABLES : tables'[u] \in Nat /\ tables[u] <= tables'[u]
    BY <1>1, RowsOfTables, DrillAssumption DEF ApplicationWrites, DumpInv, Rows
  <2>3. RestoreTypeOK'
    BY <2>1, <2>2 DEF DumpInv, RestoreTypeOK
  <2>4. FirstBounds' /\ SnapshotBetween'
    BY <2>1, <2>2, RowsOfTables DEF DumpInv, FirstBounds, SnapshotBetween
  <2>5. NothingYet' /\ RestoredRead' /\ SameOnceVerified'
    BY <2>1 DEF DumpInv, NothingYet, RestoredRead, SameOnceVerified, Passed, Same
  <2> QED
    BY <2>1, <2>3, <2>4, <2>5 DEF DumpInv, EvidenceInv, EvidenceTypeOK, ReportRunning
<1>2. CASE Corrupt
  <2>1. UNCHANGED <<report, pc, tables, prints, digest, restored, snapshot>> /\ archive' \in Rows
    BY <1>2 DEF Corrupt, evidenceVars
  <2>2. RestoreTypeOK'
    BY <2>1 DEF DumpInv, RestoreTypeOK
  <2> QED
    BY <2>1, <2>2 DEF DumpInv, FirstBounds, SnapshotBetween, NothingYet, RestoredRead,
                      SameOnceVerified, Passed, Same, EvidenceInv, EvidenceTypeOK, ReportRunning
<1>3. CASE EvidenceNext("ready") /\ UNCHANGED restoreVars
  <2>1. /\ EvidenceInv'
        /\ pc' \in {"write", "uid", "ready", "raised", "ended"}
        /\ pc' = "write" => pc = "open"
        /\ pc' = "uid" => pc = "write"
        /\ pc' = "ready" => pc = "uid"
        /\ Passed' => Passed \/ pc = "returned"
    BY <1>3, EvidencePreserves DEF EvidenceInv
  <2>2. UNCHANGED <<tables, prints, archive, digest, restored, snapshot>>
    BY <1>3 DEF restoreVars
  <2>3. RestoreTypeOK'
    BY <2>2 DEF DumpInv, RestoreTypeOK
  <2>4. pc' \in {"ready_after", "returned"} \/ Passed' => Same
    BY <2>1 DEF DumpInv, SameOnceVerified
  <2> QED
    BY <2>1, <2>2, <2>3, <2>4, QuietStep DEF Dumped, Loaded
<1>4. CASE Ready("ready", "before")
  <2>1. /\ pc = "ready" /\ pc' = "before" /\ UNCHANGED report
        /\ UNCHANGED <<tables, prints, archive, digest, restored, snapshot>>
    BY <1>4 DEF Ready, Body, restoreVars
  <2>2. EvidenceInv' /\ ~Passed'
    BY <2>1, BodyPreserves DEF EvidenceInv
  <2>3. RestoreTypeOK'
    BY <2>1 DEF DumpInv, RestoreTypeOK
  <2> QED
    BY <2>1, <2>2, <2>3, QuietStep DEF Dumped, Loaded
<1>5. CASE Fingerprint("before", tables, "backup")
  <2>1. pc = "before" /\ pc' \in {"before", "backup", "raised"} /\ UNCHANGED report
    BY <1>5, FingerprintReads, RowsOfTables DEF DumpInv
  <2> QED
    BY <1>5, <2>1, BodyPreserves, BeforePreserves DEF EvidenceInv
<1>6. CASE Backup
  <2>1. /\ pc = "backup" /\ pc' = "hash" /\ archive' = tables /\ snapshot' = tables
        /\ UNCHANGED <<report, tables, prints, digest, restored>>
    BY <1>6 DEF Backup, Body
  <2>2. EvidenceInv' /\ ~Passed'
    BY <2>1, BodyPreserves DEF EvidenceInv
  <2>3. RestoreTypeOK'
    BY <2>1 DEF DumpInv, RestoreTypeOK
  <2>4. FirstBounds' /\ NothingYet' /\ RestoredRead' /\ SameOnceVerified'
    BY <2>1, <2>2 DEF DumpInv, FirstBounds, NothingYet, RestoredRead, SameOnceVerified, Dumped, Loaded
  <2>5. SnapshotBetween'
    <3>1. prints["after"] = Nothing
      BY <2>1 DEF DumpInv, NothingYet, Dumped
    <3> QED
      BY <2>1, <3>1, RowsOfTables DEF DumpInv, FirstBounds, SnapshotBetween, Nothing
  <2> QED
    BY <2>2, <2>3, <2>4, <2>5 DEF DumpInv
<1>7. CASE Hash
  <2>1. /\ pc = "hash" /\ pc' = "checksum" /\ digest' = archive
        /\ UNCHANGED <<report, tables, prints, archive, restored, snapshot>>
    BY <1>7 DEF Hash, Body
  <2>2. EvidenceInv' /\ ~Passed'
    BY <2>1, BodyPreserves DEF EvidenceInv
  <2>3. RestoreTypeOK'
    BY <2>1 DEF DumpInv, RestoreTypeOK
  <2> QED
    BY <2>1, <2>2, <2>3, QuietStep DEF Dumped, Loaded
<1>8. CASE OpenArchive
  <2>1. /\ pc = "checksum" /\ pc' \in {"restore", "raised"} /\ UNCHANGED report
        /\ UNCHANGED <<tables, prints, archive, digest, restored, snapshot>>
    BY <1>8 DEF OpenArchive, Body, restoreVars
  <2>2. EvidenceInv' /\ ~Passed'
    BY <2>1, BodyPreserves DEF EvidenceInv
  <2>3. RestoreTypeOK'
    BY <2>1 DEF DumpInv, RestoreTypeOK
  <2> QED
    BY <2>1, <2>2, <2>3, QuietStep DEF Dumped, Loaded
<1>9. CASE Restore
  <2>1. /\ pc = "restore" /\ pc' = "after" /\ restored' = archive
        /\ UNCHANGED <<report, tables, prints, archive, digest, snapshot>>
    BY <1>9 DEF Restore, Body
  <2>2. EvidenceInv' /\ ~Passed'
    BY <2>1, BodyPreserves DEF EvidenceInv
  <2>3. RestoreTypeOK'
    BY <2>1 DEF DumpInv, RestoreTypeOK
  <2> QED
    BY <2>1, <2>2, <2>3 DEF DumpInv, FirstBounds, NothingYet, SnapshotBetween, RestoredRead,
                            SameOnceVerified, Dumped, Loaded
<1>10. CASE Fingerprint("after", tables, "restored")
  <2>1. pc = "after" /\ pc' \in {"after", "restored", "raised"} /\ UNCHANGED report
    BY <1>10, FingerprintReads, RowsOfTables DEF DumpInv
  <2> QED
    BY <1>10, <2>1, BodyPreserves, AfterPreserves DEF EvidenceInv
<1>11. CASE Fingerprint("restored", restored, "verify")
  <2>1. pc = "restored" /\ pc' \in {"restored", "verify", "raised"} /\ UNCHANGED report
    BY <1>11, FingerprintReads, RowsOfTables DEF DumpInv
  <2> QED
    BY <1>11, <2>1, BodyPreserves, RestoredPreserves DEF EvidenceInv
<1>12. CASE VerifyTables
  <2>1. /\ pc = "verify" /\ pc' = (IF Equal THEN "ready_after" ELSE "raised") /\ UNCHANGED report
        /\ UNCHANGED <<tables, prints, archive, digest, restored, snapshot>>
    BY <1>12 DEF VerifyTables, Body, restoreVars
  <2>2. EvidenceInv' /\ ~Passed'
    BY <2>1, BodyPreserves DEF EvidenceInv
  <2>3. RestoreTypeOK'
    BY <2>1 DEF DumpInv, RestoreTypeOK
  <2>4. pc' = "ready_after" => Same
    BY <2>1, VerifiedIsSame
  <2> QED
    BY <2>1, <2>2, <2>3, <2>4, QuietStep DEF Dumped, Loaded
<1>13. CASE Ready("ready_after", "returned")
  <2>1. /\ pc = "ready_after" /\ pc' = "returned" /\ UNCHANGED report
        /\ UNCHANGED <<tables, prints, archive, digest, restored, snapshot>>
    BY <1>13 DEF Ready, Body, restoreVars
  <2>2. EvidenceInv'
    BY <2>1, BodyPreserves DEF EvidenceInv
  <2>3. RestoreTypeOK'
    BY <2>1 DEF DumpInv, RestoreTypeOK
  <2>4. Same
    BY <2>1 DEF DumpInv, SameOnceVerified
  <2> QED
    BY <2>1, <2>2, <2>3, <2>4, QuietStep DEF Dumped, Loaded
<1> QED
  BY <1>1, <1>2, <1>3, <1>4, <1>5, <1>6, <1>7, <1>8, <1>9, <1>10, <1>11, <1>12, <1>13 DEF RestoreNext

-----------------------------------------------------------------------------
(* The exercises together *)

LEMMA Parts ==
    IndInv <=>
        /\ script \in {"backup", "promotion", "recovery", "wait"}
        /\ EvidenceInv /\ ClusterInv /\ DrillInv
        /\ PromotionTypeOK /\ PromotionInv
        /\ WaitTypeOK /\ OthersIdle /\ ConvergedHolds
        /\ RestoreTypeOK /\ BackupInv
  BY DEF IndInv, TypeOK, EvidenceInv, ClusterInv, DrillInv

LEMMA PartsAfter ==
    ASSUME script \in {"backup", "promotion", "recovery", "wait"}, UNCHANGED script,
           EvidenceInv', ClusterInv', DrillInv', PromotionTypeOK', PromotionInv',
           WaitTypeOK', OthersIdle', ConvergedHolds', RestoreTypeOK', BackupInv'
    PROVE  IndInv'
  BY DEF IndInv, TypeOK, EvidenceInv, ClusterInv, DrillInv

\* What an exercise leaves alone stays as it was.
LEMMA Untouched ==
    /\ EvidenceInv /\ UNCHANGED evidenceVars => EvidenceInv'
    /\ RestoreTypeOK /\ UNCHANGED restoreVars => RestoreTypeOK'
    /\ DrillInv /\ UNCHANGED <<drillVars, source, automated>> => DrillInv'
    /\ PromotionTypeOK /\ UNCHANGED promotionVars => PromotionTypeOK'
    /\ WaitTypeOK /\ UNCHANGED waitVars => WaitTypeOK'
<1>1. EvidenceInv /\ UNCHANGED evidenceVars => EvidenceInv'
  BY DEF evidenceVars, EvidenceInv, EvidenceTypeOK, ReportRunning
<1>2. RestoreTypeOK /\ UNCHANGED restoreVars => RestoreTypeOK'
  BY DEF restoreVars, RestoreTypeOK
<1>3. DrillInv /\ UNCHANGED <<drillVars, source, automated>> => DrillInv'
  BY DEF drillVars, DrillInv, DrillTypeOK, GoodRoot, SourceKnown, AutomationKnown
<1>4. PromotionTypeOK /\ UNCHANGED promotionVars => PromotionTypeOK'
  BY DEF promotionVars, PromotionTypeOK, Apps
<1>5. WaitTypeOK /\ UNCHANGED waitVars => WaitTypeOK'
  BY DEF waitVars, WaitTypeOK
<1> QED
  BY <1>1, <1>2, <1>3, <1>4, <1>5

LEMMA WhileBackup ==
    ASSUME IndInv, UNCHANGED script, script = "backup", RestoreNext,
           UNCHANGED <<gitopsVars, promotionVars, drillVars, waitVars>>
    PROVE  IndInv'
<1>1. ClusterInv' /\ UNCHANGED <<source, automated>>
  BY Parts, ClusterUnchanged
<1>2. DrillInv' /\ PromotionTypeOK' /\ PromotionInv' /\ WaitTypeOK'
  BY <1>1, Parts, Untouched DEF PromotionInv
<1>3. EvidenceInv' /\ DumpInv'
  BY Parts, RestoreNextPreserves DEF BackupInv, DumpInv
<1>4. OthersIdle' /\ ConvergedHolds'
  BY <1>1, Parts DEF OthersIdle, ConvergedHolds, At, drillVars, waitVars
<1> QED
  BY <1>1, <1>2, <1>3, <1>4, Parts, PartsAfter DEF BackupInv, DumpInv

\* While another exercise runs, the steps of the cluster are harmless to the rest.
LEMMA ClusterMoves ==
    ASSUME IndInv, UNCHANGED <<script, drillVars, waitVars>>, script = "promotion",
           \/ Controllers \/ \E d \in Deployments : Degrade(d)
           \/ \E r \in Revisions : Bootstrap(r)
    PROVE  ClusterInv' /\ DrillInv' /\ OthersIdle' /\ ConvergedHolds'
<1>1. /\ ClusterInv' /\ UNCHANGED automated /\ ~source'[Root].override
      /\ \A a \in Apps : source'[a] = source[a] \/ ~source'[a].override
  BY Parts, ControllersKeepGood, BootstrapKeepsGood DEF DrillInv
<1>2. DrillInv'
  BY <1>1, Parts, DrillSurvivesControllers
<1>3. \A a \in Apps : ~source'[a].override
  BY <1>1, Parts DEF OthersIdle
<1> QED
  BY <1>1, <1>2, <1>3, Parts DEF OthersIdle, ConvergedHolds, drillVars, waitVars

LEMMA WhilePromotion ==
    ASSUME IndInv, UNCHANGED script, script = "promotion", PromotionNext,
           UNCHANGED <<restoreVars, drillVars, waitVars>>
    PROVE  IndInv'
<1>1. RestoreTypeOK' /\ WaitTypeOK' /\ BackupInv'
  BY Parts, Untouched DEF BackupInv
<1>2. RoundInv /\ \A a \in Apps : ~source[a].override
  BY Parts DEF PromotionInv, OthersIdle
<1>3. CASE PromotionStep /\ UNCHANGED gitopsVars
  <2>1. EvidenceInv' /\ PromotionTypeOK' /\ PromotionInv'
    BY <1>2, <1>3, Parts, PromotionStepPreserves DEF PromotionInv
  <2>2. ClusterInv' /\ UNCHANGED <<source, automated>>
    BY <1>3, Parts, ClusterUnchanged
  <2>3. DrillInv'
    BY <2>2, Parts, Untouched
  <2>4. OthersIdle' /\ ConvergedHolds'
    BY <2>2, Parts DEF OthersIdle, ConvergedHolds, At, drillVars, waitVars
  <2> QED
    BY <1>1, <2>1, <2>2, <2>3, <2>4, Parts, PartsAfter
<1>4. CASE /\ Controllers \/ \E d \in Deployments : Degrade(d)
           /\ UNCHANGED <<evidenceVars, promotionVars>>
  <2>1. ClusterInv' /\ DrillInv' /\ OthersIdle' /\ ConvergedHolds'
    BY <1>4, ClusterMoves
  <2>2. EvidenceInv' /\ PromotionTypeOK'
    BY <1>4, Parts, Untouched
  <2>3. PromotionInv'
    BY <1>2, <1>4, Parts, ClusterKeepsRound DEF PromotionInv
  <2> QED
    BY <1>1, <2>1, <2>2, <2>3, Parts, PartsAfter
<1>5. CASE /\ \E r \in Revisions : Bootstrap(r)
           /\ repinned' = TRUE
           /\ UNCHANGED <<evidenceVars, commit, looked, matches, confirmed>>
  <2>1. ClusterInv' /\ DrillInv' /\ OthersIdle' /\ ConvergedHolds'
    BY <1>5, ClusterMoves
  <2>2. EvidenceInv' /\ PromotionTypeOK' /\ PromotionInv'
    BY <1>2, <1>5, Parts, BootstrapKeepsRound DEF PromotionInv
  <2> QED
    BY <1>1, <2>1, <2>2, Parts, PartsAfter
<1> QED
  BY <1>3, <1>4, <1>5 DEF PromotionNext

LEMMA WhileRecovery ==
    ASSUME IndInv, UNCHANGED script, script = "recovery", DrillNext,
           UNCHANGED <<evidenceVars, restoreVars, promotionVars, waitVars>>
    PROVE  IndInv'
<1>1. /\ EvidenceInv' /\ RestoreTypeOK' /\ PromotionTypeOK' /\ PromotionInv' /\ WaitTypeOK'
      /\ BackupInv'
  BY Parts, Untouched DEF BackupInv, PromotionInv
<1>2. OthersIdle' /\ ConvergedHolds'
  BY Parts DEF OthersIdle, ConvergedHolds, waitVars
<1>3. CASE DrillStep
  BY <1>1, <1>2, <1>3, Parts, PartsAfter, DrillStepPreserves
<1>4. CASE (Controllers \/ \E d \in Deployments : Degrade(d)) /\ UNCHANGED drillVars
  <2>1. /\ ClusterInv' /\ UNCHANGED automated /\ ~source'[Root].override
        /\ \A a \in Apps : source'[a] = source[a] \/ ~source'[a].override
    BY <1>4, Parts, ControllersKeepGood DEF DrillInv
  <2>2. DrillInv'
    BY <1>4, <2>1, Parts, DrillSurvivesControllers
  <2> QED
    BY <1>1, <1>2, <2>1, <2>2, Parts, PartsAfter
<1> QED
  BY <1>3, <1>4 DEF DrillNext

LEMMA WhileWait ==
    ASSUME IndInv, UNCHANGED script, script = "wait", WaitNext,
           UNCHANGED <<evidenceVars, restoreVars, promotionVars, drillVars>>
    PROVE  IndInv'
<1>1. EvidenceInv' /\ RestoreTypeOK' /\ PromotionTypeOK' /\ PromotionInv' /\ BackupInv'
  BY Parts, Untouched DEF BackupInv, PromotionInv
<1>2. \A a \in Apps : ~source[a].override
  BY Parts DEF OthersIdle
<1>3. /\ ClusterInv' /\ WaitTypeOK' /\ ConvergedHolds'
      /\ UNCHANGED automated /\ \A a \in Apps : ~source'[a].override
  BY <1>2, Parts, WaitNextPreserves DEF DrillInv
<1>4. DrillInv'
  BY <1>3, Parts, DrillSurvivesControllers, ShopIsAnApp
<1>5. OthersIdle'
  BY <1>3, Parts DEF OthersIdle, drillVars
<1> QED
  BY <1>1, <1>3, <1>4, <1>5, Parts, PartsAfter

LEMMA InitInv == Init => IndInv
<1> SUFFICES ASSUME Init PROVE IndInv
  OBVIOUS
<1>1. EvidenceInv /\ pc = "open" /\ ~Passed
  BY DEF Init, EvidenceInit, EvidenceInv, EvidenceTypeOK, ReportRunning, Passed
<1>2. ClusterInv /\ \A a \in Apps : source[a] \in Sources /\ ~source[a].override
  BY FirstAssumption
  DEF Init, GitOpsInit, ClusterInv, GitOpsTypeOK, SettledRunsTemplate, Sources, Images, At
<1>3. PromotionTypeOK /\ PromotionInv /\ WaitTypeOK /\ verdict = "polling"
  BY <1>1 DEF Init, PromotionInit, PromotionTypeOK, WaitInit, WaitTypeOK, PromotionInv, RoundInv,
              RootFirst, AppsFirst, RoundSound, VerdictSound
<1>4. DrillInv
  <2>1. /\ step = "healthy" /\ raised = FALSE /\ broken = {}
        /\ saved = [source |-> source["shop-dev"], automated |-> automated, image |-> image["api"]]
    BY DEF Init, DrillInit
  <2>2. source["shop-dev"] \in Sources /\ automated \in BOOLEAN /\ image["api"] \in Images
    BY <1>2, ShopIsAnApp, GitOpsAssumption DEF ClusterInv, GitOpsTypeOK
  <2> QED
    BY <1>2, <2>1, <2>2, ShopIsAnApp DEF DrillInv, DrillTypeOK, GoodRoot, SourceKnown, AutomationKnown
<1>5. RestoreTypeOK /\ BackupInv
  <2>1. /\ Nothing \in Rows
        /\ [t \in TABLES |-> IF MaxWrites > 0 THEN 1 ELSE 0] \in Rows
    BY DrillAssumption DEF Nothing, Rows
  <2>2. tables \in Rows /\ prints = [p \in {"before", "after", "restored"} |-> Nothing]
        /\ archive = Nothing /\ digest = Nothing /\ restored = Nothing /\ snapshot = Nothing
    BY <2>1 DEF Init, RestoreInit
  <2>3. RestoreTypeOK
    BY <2>1, <2>2 DEF RestoreTypeOK
  <2>4. FirstBounds /\ NothingYet
    BY <2>2, <2>3, RowsOfTables DEF FirstBounds, NothingYet, Nothing
  <2> QED
    BY <1>1, <2>3, <2>4
    DEF BackupInv, SnapshotBetween, RestoredRead, SameOnceVerified, Dumped, Loaded
<1>6. script \in {"backup", "promotion", "recovery", "wait"} /\ OthersIdle /\ ConvergedHolds
  BY <1>2, <1>3, <1>4 DEF Init, DrillInit, OthersIdle, ConvergedHolds
<1> QED
  BY <1>1, <1>2, <1>3, <1>4, <1>5, <1>6, Parts

LEMMA NextInv == IndInv /\ [Next]_vars => IndInv'
<1> SUFFICES ASSUME IndInv, [Next]_vars PROVE IndInv'
  OBVIOUS
<1>1. CASE Next
  BY <1>1, WhileBackup, WhilePromotion, WhileRecovery, WhileWait DEF Next
<1>2. CASE UNCHANGED vars
  <2>1. /\ UNCHANGED <<script, evidenceVars, restoreVars, gitopsVars, promotionVars, drillVars, waitVars>>
    BY <1>2 DEF vars
  <2>2. ClusterInv' /\ UNCHANGED <<source, automated>>
    BY <2>1, Parts, ClusterUnchanged
  <2>3. /\ EvidenceInv' /\ RestoreTypeOK' /\ DrillInv' /\ PromotionTypeOK' /\ WaitTypeOK'
    BY <2>1, <2>2, Parts, Untouched
  <2>6. PromotionInv'
    <3>1. UNCHANGED <<report, pc, commit, looked, matches, confirmed, repinned>>
      BY <2>1 DEF evidenceVars, promotionVars
    <3> QED
      BY <2>1, <3>1, Parts, BesidesReading DEF PromotionInv, Passed
  <2>4. OthersIdle' /\ ConvergedHolds'
    BY <2>1, <2>2, Parts DEF OthersIdle, ConvergedHolds, At, drillVars, waitVars
  <2>5. BackupInv'
    BY <2>1, Parts DEF BackupInv, FirstBounds, NothingYet, SnapshotBetween, RestoredRead,
                       SameOnceVerified, Passed, Same, evidenceVars, restoreVars
  <2> QED
    BY <2>1, <2>2, <2>3, <2>4, <2>5, <2>6, Parts, PartsAfter
<1> QED
  BY <1>1, <1>2

LEMMA Inductive == Spec => []IndInv
  BY InitInv, NextInv, PTL DEF Spec

-----------------------------------------------------------------------------
(* Theorems *)

\* The reports, readings and statuses of all four exercises are of their types.
THEOREM ExercisesTypeCorrect == Spec => []TypeOK
<1>1. IndInv => TypeOK
  BY DEF IndInv
<1> QED
  BY <1>1, Inductive, PTL

\* check-promotion.py writes "passed" only after a round in which every application
\* was at the commit and every Deployment ran nothing but its images, one by one
\* and, unless the root was pinned again since, all together.
THEOREM PassedIsPromoted == Spec => []PromotionEarned
<1>1. IndInv => PromotionEarned
  BY DEF IndInv, PromotionInv, RoundInv, VerdictSound, Everything, PromotionEarned
<1> QED
  BY <1>1, Inductive, PTL

\* After check-gitops.py says PASS every application stays at the revision until
\* the root is pinned again.
THEOREM ConvergedStays == Spec => []ConvergedHolds
<1>1. IndInv => ConvergedHolds
  BY DEF IndInv
<1> QED
  BY <1>1, Inductive, PTL

\* check-backup.py writes "passed" only if the restored rows, the dump and both
\* readings around it are the same.
THEOREM PassedIsRestored == Spec => []RestoreEarned
<1>1. IndInv => RestoreEarned
  BY DEF IndInv, BackupInv, SameOnceVerified, Same, RestoreEarned
<1> QED
  BY <1>1, Inductive, PTL

\* check-recovery.py ends with the good source in place, or with a root that will
\* restore it, unless both undoing patches failed.
THEOREM DrillLeavesAWayBack == Spec => []UndoneOrHealing
<1>1. IndInv => UndoneOrHealing
  BY DEF IndInv, TypeOK, DrillTypeOK, SourceKnown, AutomationKnown, UndoneOrHealing
<1> QED
  BY <1>1, Inductive, PTL

\* evidence() of proof.py never changes a report that is another exercise's or
\* has its verdict.
THEOREM VerdictsAreFinal == Spec => ReportFinal
<1>1. ASSUME IndInv, [Next]_vars, report.owner = "earlier" \/ report.status \in {"passed", "failed"}
      PROVE  report' = report
  <2>1. EvidenceTypeOK /\ ReportRunning
    BY <1>1 DEF IndInv, TypeOK
  <2>2. ASSUME NEW body, EvidenceNext(body) PROVE report' = report
    BY <1>1, <2>1, <2>2
    DEF EvidenceNext, Reserve, FirstWrite, Identify, Raise, Close, Kill, EvidenceTypeOK, ReportRunning
  <2>3. CASE RestoreNext
    BY <2>2, <2>3
    DEF RestoreNext, ApplicationWrites, Corrupt, Ready, Body, Fingerprint, Backup, Hash,
        OpenArchive, Restore, VerifyTables, evidenceVars
  <2>4. CASE PromotionNext
    BY <2>2, <2>4
    DEF PromotionNext, PromotionStep, ExpectedImages, GetApp, GetDeployment, Look, Decide,
        ReadyInside, evidenceVars
  <2> QED
    BY <1>1, <2>3, <2>4 DEF Next, vars, evidenceVars
<1>2. IndInv /\ [Next]_vars =>
        (report.owner = "earlier" \/ report.status \in {"passed", "failed"} => report' = report)
  BY <1>1
<1> QED
  BY <1>2, Inductive, PTL DEF Spec, ReportFinal
=============================================================================
