# A verification project for kube-foundry

kube-foundry is a small shop application (API, worker, web page, PostgreSQL, Redis)
with the delivery, recovery and backup tooling that runs it on a disposable
Kubernetes cluster. The code is `app/` and `scripts/`; the rest is configuration.
This directory models its behaviour in TLA+, checks the models with TLC and proves the
central facts with TLAPS.

## Inventory

| component | state | operations | what makes it hard |
|---|---|---|---|
| Job API, `app/api/main.py` | rows of `jobs` | `create_job`, `get_job` | commit and push are two steps in two stores |
| Outbox sweep, `main.py` | an open transaction per API process | `dispatch_pending_jobs` every 30 s in `dispatch_loop` | several replicas sweep the same rows; locks; pushes survive a rollback |
| Worker, `app/worker/worker.py` | lists `jobs`, `jobs:processing`; the job in hand | `run`, `claim`, `update_status`, `release`, `requeue_orphans`, `stop` | crashes and lost answers between any two calls; overlapping pods |
| Items API and page, `main.py`, `app/web/app.js` | `items`, the page's `lastId`, `shown` | `list_items`, `create_item`, `loadPage`, submit | ids are handed out before commit; overlapping requests |
| Heartbeat and probes | age of the heartbeat file | touch, startup and liveness probe | a slow iteration against a deadline |
| Schema bootstrap | tables | `ensure_schema` in every process | concurrent `CREATE TABLE IF NOT EXISTS` |
| Readiness, metrics | counters | `readyz`, middleware | nothing shared |
| Image delivery, `scripts/prepare-delivery.py`, `check-delivery.py`, `update-images.py`, two workflows | `main`, delivery branches, pull requests | prepare, gate, merge | `main` moves between check and use; retries |
| Promotion check, `check-promotion.py`, `check-gitops.py`, `bootstrap-gitops.py` | none; read a changing cluster | poll until all objects match | reads are not one snapshot, statuses are old |
| Recovery drill, `check-recovery.py` | two Argo CD applications | patch, wait, undo | undo may fail; self-heal reverts |
| Evidence, `proof.py` | the report file | reserve, run, finish | killed at any point |
| Backup drill, `database.py`, `check-backup.py` | dump, restored database | dump, restore, compare | the application keeps writing |
| SLO rules, scaling drill, policy and demo scripts, manifests | - | - | see "Not modelled" |

How they interact: a `POST /api/jobs` commits a `pending` row and then pushes its id
to the Redis list `jobs`; the worker moves ids to `jobs:processing`, sets the row to
`running`, works, sets it to `complete` and removes the entry. The sweep pushes again
every row that is still `pending` after thirty seconds. A client polls
`GET /api/jobs/{id}`. Readiness reads both stores. The delivery scripts decide which
images the cluster runs; the drills act on that cluster from outside.

What makes each correct: a job is never lost and its status only moves forward; no
second execution after completion; a sweep never undoes a claim; sweeps and claims do
not wait for each other for ever; the page shows no item twice and skips none; a worker
that gets on with its work is not killed and a hung one is; only a current promotion of
published images reaches `main`; a drill leaves the cluster as it found it, or a way back; a report
says "passed" only for an exercise that earned it.

## Modules

| module | models | code |
|---|---|---|
| `JobStore` | the table and the two lists, one operator per statement or command, the fault budget | SQL and Redis calls of both programs |
| `ApiJobs` | `CreateJob`, `EnqueueJob`, and the sweep as `SweepSelect`, `SweepPush`, `SweepTouch`, `SweepTimeout`, `SweepCommit`, `SweepAbort` | `main.py` 94-143, 259-296 |
| `WorkerLoop` | one process per element of `Workers`: startup, main loop, `release()`, signals, crashes | `worker.py` |
| `JobPipeline` | their composition, fairness, all properties | |
| `JobContract` | what a polling client is promised | `get_job` |
| `MCJobPipeline` | the instances TLC checks | |
| `ItemsStore` | the table `items`: ids at `INSERT`, visibility at `COMMIT`, keyset pages | `main.py` 47-52, 234-256 |
| `ItemsPage`, `MCItemsPage` | the page: `loadPage`, load more, submit, with overlapping calls | `app/web/app.js` |
| `WorkerProbe` | startup and main loop of the worker in seconds; startup and liveness probe | `worker.py` 88-196, `deployment-worker.yaml` |
| `Delivery`, `MCDelivery` | publication, `prepare`, branches, pull requests, the gate | `prepare-delivery.py`, `update-images.py`, `check-delivery.py`, the workflow |
| `GitOps` | the cluster the scripts read: Argo CD's applications, a Deployment | the fields the scripts use |
| `Evidence` | the report file of an exercise: its creation, its two writes, and what each leaves when it fails | `proof.py` |
| `PromotionCheck`, `GitOpsWait`, `RecoveryDrill`, `RestoreDrill` | one operational script each | `check-promotion.py`; `check-gitops.py`; `check-recovery.py`; `check-backup.py`, `database.py` |
| `Exercises` | one of the four at a time, in its environment, with all their properties | |
| `RedisListLemmas` | what the list operators do to the members of a list, proved | |
| `NatLemmas` | least and greatest elements of finite sets of naturals, counting, proved | |
| `JobPipelineProofs`, `SingleWorkerProofs`, `ItemsPageProofs`, `DeliveryProofs`, `WorkerProbeProofs`, `ExercisesProofs` | the theorems | |

Correspondence, in short. `status[j]` is the row's status ("none": no row), `aged` the
rows whose `updated_at` is past the sweep's threshold; any pending row may age at any
time, which also covers a sweep so slow that its `NOW()`, the start of its transaction,
is old on commit. `lock[j]` is the sweep whose uncommitted `UPDATE` holds the row.
`queue` and `processing` are the lists. `wpc[w]` names the call worker `w` is about to
make, `held[w]` is `job_id`, `stopping[w]` the flag, read only at the tops of the two
loops. `pushing` holds the requests between their commit and their push; `spc`, `rows`
and `current` are a sweep's position. `dropped` is a history variable: the ids
`release()` removed and failed to push.

Every statement and command is an action, so each pair of them interleaves. Each has
three outcomes: answered, refused, or executed with the answer lost. The last two, a
crash and a stop signal are taken from the budget `MaxFaults`. A failure that
leaves the caller where it was (connect and retry, a refused insert) changes nothing and
is a stutter. A command whose answer was lost takes effect before its client's next
step or not at all, and the client library does not repeat it by itself.

A replacement worker may start as soon as the old pod is terminating: the Deployment's
`Recreate` strategy orders rollouts, but a deleted or evicted pod is replaced while it
still runs to its end. With one element in `Workers` this cannot happen; the properties
checked there are those that need a single consumer.

*Items.* `lastSeq` is the sequence, `inserted` the ids of open transactions, `visible` the
committed ones. Each element of `Calls` is one activation of a handler, between whose
awaits (`stage`) anything may happen; code between two awaits is one action. `rows[i]`
counts the list elements that show item `i`; `shown`, `lastId` and `more` are the page's.
`after`, `answer` and `made` are the locals of a call. `overtaken`, `stale` and `outdated`
are history variables: ids committed after a larger one, an answer rendered into a later
list, and the calls whose answer would be that.

*Probe.* `pc` is the call the worker is in and `spent` the seconds it has taken; `Tick` may
not pass a call's timeout or the next probe, so a call takes any time up to its timeout.
`file` tells the heartbeat file of this container from the one an earlier container left
in the pod's volume, `age` is its age. `connected` tells whether the Redis client holds a
connection (`LoseConnection`: the server closed it), on which the time of the next command
depends. `troubled` is a history variable: since the last touch a Redis call had to connect
first, or a job was released after its work.

*Delivery.* A commit of `main` is its position; an overlay is the revision it names and,
per component, which of the images pushed under that tag it pins. `jpc` is the position
of the one workflow run the concurrency group admits, `delivery` the branches, `pulls` the
pull requests with what their heads change. A branch pushed by hand may be right or wrong.
`OpenRevert` is the pull request of a `git revert` of the latest digest update.

*Exercises.* `pc` and `step` name the next call of a script. `report` is the file. In
`GitOps`, `source` is what an application asks for, `compared` what its last comparison saw;
every field a script reads may be older than what it describes. The file of a report is
"unreadable" from its exclusive creation to its first write, and after a write that was cut
off. `broken`, `confirmed` and `repinned` are history variables: undoing patches that were
not applied; the objects that really were at the commit when this round read them, whatever
their statuses said; and that the root was pinned since this round read it.

## Runs

| run | instance | properties | shows |
|---|---|---|---|
| `single` | 2 jobs, 1 sweep, 1 worker, 2 faults | `TypeOK`, `HeldIsListed`, `NoWorkOnComplete`, `ProcessingAccounted`, `MovesKeepOrder` | what a single consumer guarantees: its job can be found again, duplicates are never worked on after completion, the processing list does not leak, order survives a restart |
| `overlap` | 2 jobs, 1 sweep, 2 workers, 2 faults | `OnlyReleaseStrands`, `AckedIsComplete`, `QueuedIsCommitted`, `StatusForward`, `ImplementsContract` | what survives overlapping pods |
| `sweeps` | 2 jobs, 2 sweeps, 1 worker, no faults | `SweepLocksPending`, `SweepsEnd` | sweeps racing claims, and each other in opposite orders |
| `live` | 2 jobs, 1 sweep with limit 1, 1 fault | `EveryJobSettles` | no job starves behind the limit |
| `live_faults` | 1 job, 3 faults | `EveryJobSettles`, `OrphansReturn` | enough faults to strand the job; restarts recover |
| `lost` (violation) | 1 job, 2 faults | `NoJobLost` | the first finding below |
| `items` | 3 calls, page of 1, 4 ids, 2 at the start, requests fail | `TypeOK`, `RowsDistinct`, `GapsExplained`, `ScreenIsCommitted`, `HidingIsHonest` | no item twice, none uncommitted; paging skips an item in two ways only |
| `items_gap` (violation) | 2 calls, page of 1, 3 items at the start, nothing fails | `EndMeansAll` | the second finding below |
| `probe` | one worker, seconds | `TypeOK`, `CalmNeverKilled`, `GraceToConnect`, `HungIsEnded` | the probes end every hung worker, and of the others only one that had to reach Redis anew or to release a job after its work |
| `delivery` | 2 components, 3 commits, 2 images per tag, 2 pull requests | `TypeOK`, `DeployedIsCurrent`, `OverlayAlone`, `DoneMeansPrepared`, `BranchesFixed` | what reaches `main` through races, reruns, reverts and hand-made branches |
| `rollback` (violation) | 1 component, 3 commits, 3 pull requests | `RollbackIsAccepted` | the third finding below |
| `exercises` | 2 revisions, 1 child application, 1 Deployment, 2 writes per table | `TypeOK`, `PromotionEarned`, `ConvergedHolds`, `RestoreEarned`, `UndoneOrHealing`, `ReportFinal`, `GoodImageReturns` | verdicts are earned, and the recovery drill leaves a way back that is taken |

Bounds. Two jobs give every order of two ids in a list and every cycle of two row
locks; two sweeps or two workers give every pairwise race; two faults reach a failure
of the recovery from a failure, and three strand a job in every way the code can.
`QueueBound` stops a sweep from starting on a long queue, which bounds duplicates; each
sweep may still push on top of it. `sweeps` has no faults, which would put its liveness
out of reach; that a failing sweep among several locks no claimed row is `LocksArePending`. `SweepLimit` stands for the 500 of the query.

*Items.* Three calls are two that race and one that resets the list under both. A page
of one item has the order, the cursor and the short page of a page of fifty. Four ids
leave room for items before, between and after the cursor.

*Probe.* The timeouts, pauses and periods are those of the code and of the chart, in seconds;
the 0.25 s of work are rounded up. A timeout holds for one thing at a time, and a call of
the worker is made of several: a Redis command on a new connection is the connect (3 s),
the replies of the handshake and its own reply (5 s each); a transaction is the connect
(3 s) and BEGIN, the statement, COMMIT or ROLLBACK (5 s each). Assumptions about the
libraries, which the repository does not contain: `Handshake` is 3 replies; the client made by
`from_url` repeats no command by itself; a connect goes to one address, and the name
lookup takes no time; `statement_timeout` covers a COMMIT; an error reply may keep the Redis
connection and a failed call may drop it. A server that vanishes is a `Hang`. With these
numbers an iteration that completes a job takes 47 s at most on a Redis connection that
lasts (`CompleteIteration`), and one that releases its job after a failed claim 35 s
(`ReleaseIteration`); a fresh file is `Patience` = 50 s old when its third failure kills.
`TuningAssumption` states these margins; TLC evaluates it with the numbers, and the theorems
hold for all numbers that keep it. The margins do not cover a new Redis connection (23 s
instead of 5) or the release of a job already worked on: see "Observations". `age` stops
counting at `Patience`.

*Delivery.* Three commits are a published one, a change that overtakes it, and a promotion;
two images under one tag are a rerun; two pull requests are a promotion and a change, two
promotions, or a promotion and its revert; `rollback` has a third, for the revert of the
second promotion. Assumed of GitHub: strict required checks (docs/gitops.md) and that the
concurrency group runs one workflow at a time.

*Exercises.* The run has the root, one child, `shop-dev`, and one Deployment, `api`: that is
every order in which the promotion check can read a root, what follows the root, and what
follows that. `PassedIsPromoted` holds for any number of them. Two revisions are the right
one and another; two writes are one before and one during a dump. Assumed of
Argo CD: a sync compares and writes one child (`SyncChild`) or one Deployment (`Apply`) in one
step. An operation that was started before a pin and writes the older revision after it
is not modelled; `ConvergedHolds`, and what `PromotionEarned` says of the present, hold
apart from that.

Fairness (`FairSpec`). Weak fairness of every step that is not a fault: threads run, a
dead pod is started again, the sweep loop keeps running, time passes. `Claim` is
strongly fair: a sweep leaves a row alone for thirty seconds after touching it, while a
claim is tried every few seconds, so a worker does not meet a locked row for ever.
Faults are never obliged, and finitely many happen.

`WorkerProbe!FairSpec`: time passes, the kubelet probes when a probe is due and restarts a
container that ended; the worker itself is under no obligation, which is the point of
`HungIsEnded`. `Exercises!FairSpec`: Argo CD's comparison and sync and the Deployment's
controller go on; the scripts may stop at any point.

Safety runs use symmetry over jobs, workers and sweeps; liveness runs use none.

### Findings

`lost`: `release()` is two commands, LREM and RPUSH, and gives up on a Redis error. In the
trace the commit of a claim is executed but its answer lost, so the row is `running` and
the worker releases the job; the LREM is executed but its answer lost too, and the RPUSH is
never attempted. The job is in no list, and the sweep looks at `pending` rows only, so nothing
brings it back. An error or a crash at the RPUSH itself has the same effect. The comment in
`run()` and the changelog say that an error after dequeue does not lose the job.
`OnlyReleaseStrands` shows that this gap is the only one.

`items_gap`: `loadPage()` does not ask whether the list was reset since its request was
sent. A "load more" that a submit overtakes is rendered into the new list: it appends rows
from behind its own cursor, moves `lastId` past what lies between, and when it is short it
hides the button. With pages of one and three items on screen: "load more" is clicked once
again, and before its empty answer arrives a submit creates item 4, resets the list and
shows 1 and 4; the old answer then hides the button over 2 and 3.
The page's test takes a hidden button for a complete list. `GapsExplained` shows that this
and a late commit are the only ways to skip an item.

`rollback`: docs/gitops.md says "To roll back an image, revert the digest-update commit and let
Argo reconcile it". `verify()` of `check-delivery.py` admits a change of the overlay only if it
is the rendering of the newest revision, and the overlay a revert brings back names an
earlier one: the pull request fails a required check. `DeployedIsCurrent` states the same
from the other side, for it holds only because such reverts are refused. What is left is to
roll forward: revert the source, publish, promote.

### Observations that contradict no statement of the repository

- A rerun that has rebuilt its images finds the branch of the first run, which differs,
  and refuses. The promotion of that revision is then the first one's or none, until
  `main` moves on. `prepare` says so ("do not overwrite it").
- The "no promotion is needed" path of `prepare` cannot be taken: a rendering names its
  revision, and the overlay at that revision names an earlier one.
- The heartbeat file outlives its container, so after a restart the startup probe is
  satisfied at once and a worker that cannot connect has the liveness probe's 20 s and not
  the startup probe's two minutes (`GraceToConnect` states both).
- A worker without a hung call can be killed all the same. A slow iteration takes up to 47 s
  of the 50 s; when its Redis connection was closed in between, or its last transaction
  fails late and the job is released, it is longer. The restart drain of the next process
  returns the job. `CalmNeverKilled` names the exceptions; a PostgreSQL that is slow, or
  down, alone is none of them.
- An exercise killed between the creation of its report and the first write, or whose write
  fails, leaves a report without a status. No
  later run overwrites it (`ReportFinal`), so the path stays taken.
- A recovery drill started after a killed one saves the paused automation and puts it back
  paused. `UndoneOrHealing` and `GoodImageReturns` except that start.

## Proofs

Every safety invariant and every action property that a passing run checks is also a
theorem, for every value of the constants: any sets of jobs, API processes and workers; any
page size, number of overlapping calls and bound on ids; any components, commits, images per
tag and pull requests; any timeouts and probe settings; any revisions, applications,
Deployments and writes; and any number of faults.

The theorems assume the named `ASSUME`s only. Most say that a size is a natural or a marker
no real value (`Nobody` is no sweeper, `NoneAssumption`: no overlay or branch is `None`). Two
say more. `TuningAssumption` is the margin between the worker's timeouts and the chart's
probes (see Bounds), for an iteration whose Redis connection lasts and in which no job is
released after its work. The numbers of the code keep it, with 3 s to spare; without it a
slow PostgreSQL would be enough to get the worker killed, so it is what a change of either
file must keep. `SingleConsumer`, a hypothesis of the three theorems of
`SingleWorkerProofs` and of nothing else, is the `replicas: 1` of the worker's Deployment.

Each proof module has one inductive invariant, defined at its top as a conjunction of named
parts; TLC found no violation of any of them on the instance of a run before it was proved.

`RedisListLemmas` proves what `Append`, `Head`/`Tail`, `Front`/`Last` and `RemoveFirst` do to
the members and the order of a list; the least index that `RemoveFirst` picks exists
because the naturals are well founded (`MinOfNats` in `NatLemmas`).

`JobPipelineProofs` proves, from one inductive invariant `IndInv`:

| theorem | property |
|---|---|
| `TypeCorrect` | `TypeOK` |
| `LossOnlyAtRelease` | `OnlyReleaseStrands` |
| `CommitBeforePush`, `AckAfterComplete`, `LocksArePending` | `QueuedIsCommitted`, `AckedIsComplete`, `SweepLocksPending` |
| `StatusNeverReturns` | `StatusForward` |
| `OrderSurvives` | `MovesKeepOrder` |
| `PipelineImplementsContract` | `ImplementsContract` |

Why a strengthening is needed. `OnlyReleaseStrands` speaks of running jobs; a claim makes
one of a pending job that a worker holds, so `HeldIsKept` says the same of every
unfinished job in anybody's hands. With overlapping workers the holder may not be the
one whose entry is in the list, which is why it speaks of any entry. Removing an entry
is harmless only because the job is complete (`AckedIsComplete`), which after a refused
claim needs the row to exist (`QueuedIsCommitted`, and `PushingIsCommitted` under it).
`StatusForward` needs that work is done on a claimed row (`WorkIsClaimed`). The types need
`HandsMatchPc`. `TypeStep` and `SafeStep` show preservation action by action.

`SingleWorkerProofs` adds to that invariant what holds of a worker that is alone
(`SoleInv`):

| theorem | property |
|---|---|
| `OrphanCanBeFound` | `HeldIsListed` |
| `NoSecondExecution` | `NoWorkOnComplete` |
| `ProcessingNeverLeaks` | `ProcessingAccounted` |

The last property counts the entry in hand for as long as there is a job in hand, and is
not inductive: an acknowledgement that executed and lost its answer has removed the entry,
and the release that follows finds nothing. The invariant counts an entry for the worker
only while it is on its way to acknowledge it, or to release one that is still listed
(`Owing`).

`ItemsPageProofs` proves, from another inductive invariant:

| theorem | property |
|---|---|
| `PageTypeCorrect` | `TypeOK` |
| `NoRowTwice` | `RowsDistinct` |
| `OnlyTwoGaps` | `GapsExplained` |
| `NothingUncommitted` | `ScreenIsCommitted` |
| `HiddenIsComplete` | `HidingIsHonest` |

`GapsExplained` speaks of the page's cursor, and rendering replaces that cursor by the end of
an answer, so the invariant says the same of the cursor each request of the present list was
sent with (`AfterExplained`). Between the cursor and the end of the answer lies what was
committed when the GET was answered, which the answer holds whole (`AnswersWhole`, from the
lemma `PageSkipsNothing` about keyset paging), and what was committed since, with an id
below one already committed, which makes it overtaken (`LateAreOvertaken`). That needs the
cursors and the answers to be committed ids (`CursorsCommitted`, `AnswersCommitted`).

`DeliveryProofs`:

| theorem | property |
|---|---|
| `DeliveryTypeCorrect` | `TypeOK` |
| `OnlyCurrentDeployed` | `DeployedIsCurrent` |
| `OverlayNeverMixed` | `OverlayAlone` |
| `DoneIsPrepared` | `DoneMeansPrepared` |
| `BranchesNeverOverwritten` | `BranchesFixed` |

The two invariants speak of `main`, which a merge changes long after the gate looked at the
head. `CheckedIsDeployable` carries the gate's finding across that time: a head that passed
at the tip still has what `verify()` found, because whatever changes the head, or moves
`main`, makes the check's commit differ from the tip (`HeadsBehind`), and images once pushed
and public stay so. A rendering is of that kind whatever is pushed meanwhile (`RenderEffect`).

`WorkerProbeProofs`:

| theorem | property |
|---|---|
| `ProbeTypeCorrect` | `TypeOK` |
| `CalmSurvives` | `CalmNeverKilled` |
| `ConnectingHasGrace` | `GraceToConnect` |

The property speaks of the moment of the kill, and two clocks lead there. One is the
worker's: `Start` bounds, for each call, the time from the last touch to its start, as long as
there was no trouble, so `AgeInTime` bounds the age of the file by `Start + spent`. That needs
a Redis call without trouble to be on a connection (`CalmIsConnected`); `IterationEnds` then
says that `Start` and the call's timeout stay below `Patience`, on either way through an
iteration, which is what `TuningAssumption` is for. The other clock is the kubelet's:
failures in a row are a period apart, the first of them on a stale file, so the last one
finds the file at `Patience` (`FailuresAreAge`). A failure from before the touch must not be
counted among them: the next probe finds the file fresh (`FailuresForgotten`, the reason
for `LivePeriod < MaxAge`). `GraceCounted` is the same argument for the time before the first
touch.

`ExercisesProofs`:

| theorem | property |
|---|---|
| `ExercisesTypeCorrect` | `TypeOK` |
| `PassedIsPromoted` | `PromotionEarned` |
| `ConvergedStays` | `ConvergedHolds` |
| `PassedIsRestored` | `RestoreEarned` |
| `DrillLeavesAWayBack` | `UndoneOrHealing` |
| `VerdictsAreFinal` | `ReportFinal` |

`PassedIsPromoted` has two parts, and one invariant for both. `RoundSound`: while everything
read in a round matches, each of these objects really was at the commit when it was read, and
still is, unless the root was pinned since. The first half rests on what the Deployment
controller's counters mean once they are all at the desired number
(`SettledRunsTemplate`). The second needs the order of the reads: children follow the root
and Deployments their applications, so what was read late cannot be moved by anything that
was not read before it (`RootFirst`, `AppsFirst`). `VerdictSound` carries the round to the
report. `PassedIsRestored` rests on rows being only added,
so that the dump lies between the two readings and equal readings leave it no room
(`FirstBounds`, `SnapshotBetween`). `SourceKnown` and `AutomationKnown` say what each call of
the recovery drill finds of its two patches. `VerdictsAreFinal` needs that a body runs
only while its own report says "running", and that the first write finds an empty file of
its own (`ReportRunning`); the theorems about one exercise need that the others are idle
(`OthersIdle`).

Only model-checked: liveness (`EveryJobSettles`, `OrphansReturn`, `SweepsEnd`,
`HungIsEnded`, `GoodImageReturns`), which depends on fairness and so on `ENABLED`, out of the
prover's reach. Of `ImplementsContract`, `PipelineImplementsContract` states the whole: the
contract promises safety only.

## Plan

What is modelled follows the plan of the inventory: the pipeline first, then items,
probe, delivery and exercises; their safety properties are proved. What is left, in this
order:

1. Safety facts the liveness properties rest on, as theorems: a job that is neither complete
   nor stranded is in a place from which a step leads on; a hung worker's file is not
   touched again.
2. Abstract specifications of delivery and of the evidence report, with their refinements,
   beside `JobContract`.
3. Where `SingleConsumer` is too strong: what the three properties become with two
   overlapping workers.

## Not modelled, and why

A Redis crash that loses the last second of its append-only file: the programs have no
step of their own for it, and its effect on a running job is the loss the run `lost`
shows. Concurrent `CREATE TABLE IF NOT EXISTS`: decided inside PostgreSQL, and the programs
only start again. The scaling drill: one polling loop over what the autoscaler decides, with
nothing to undo. Readiness and metrics: answers of one request, counters nobody in the
system reads back. The alert rules: expressions evaluated by Prometheus and tested there.

Kubernetes manifests, network and admission policies are configuration; the security,
observability and policy checks only read; log formatting, URL and environment handling
have no state; the demo and smoke scripts are straight lines of commands.
`PROJECT.json` lists each part with its status, and each hazard with the property that
covers it or the reason none does yet.
