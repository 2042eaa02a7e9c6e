------------------------------- MODULE JobStore -------------------------------
(***************************************************************************)
(* The two stores the job pipeline is built on, as the API and the worker  *)
(* use them: the PostgreSQL table "jobs" and the two Redis lists "jobs"    *)
(* and "jobs:processing".  Every operator below is one statement or one    *)
(* command; who issues it, and when, is in ApiJobs and WorkerLoop.         *)
(*                                                                         *)
(* A command can be answered, refused, or executed with its answer lost.   *)
(* The last two cost one unit of the disturbance budget MaxFaults.  An     *)
(* executed command takes effect before its client's next step.            *)
(***************************************************************************)
EXTENDS Naturals, FiniteSets, SequencesExt

CONSTANTS
    Jobs,           \* identifiers uuid4() may produce
    Sweepers,       \* API processes, each with its dispatch_loop
    Workers,        \* worker processes that may exist over time
    Nobody,         \* "no sweeper holds the row lock"
    NoJob,          \* "no job in hand"
    MaxFaults       \* bound on errors, crashes and stop signals

ASSUME StoreAssumption ==
    /\ Nobody \notin Sweepers
    /\ NoJob \notin Jobs
    /\ MaxFaults \in Nat

VARIABLES
    status,         \* jobs.status by id; "none": no such row
    aged,           \* rows whose updated_at is past the sweep's threshold
    lock,           \* sweep whose open transaction has updated the row
    queue,          \* Redis list "jobs", head first
    processing,     \* Redis list "jobs:processing", head first
    dropped,        \* history: LREMed by release() and not RPUSHed since
    faults          \* disturbances so far

pgVars == <<status, aged, lock>>
redisVars == <<queue, processing, dropped>>

\* The statuses of the CHECK constraint that the code ever writes.  'failed'
\* is allowed by the schema and written by nobody.
Statuses == {"none", "pending", "running", "complete"}

StoreTypeOK ==
    /\ status \in [Jobs -> Statuses]
    /\ aged \subseteq Jobs
    /\ lock \in [Jobs -> Sweepers \cup {Nobody}]
    /\ queue \in Seq(Jobs)
    /\ processing \in Seq(Jobs)
    /\ dropped \subseteq Jobs
    /\ faults \in 0..MaxFaults

StoreInit ==
    /\ status = [j \in Jobs |-> "none"]
    /\ aged = {}
    /\ lock = [j \in Jobs |-> Nobody]
    /\ queue = <<>>
    /\ processing = <<>>
    /\ dropped = {}
    /\ faults = 0

Disturb == faults < MaxFaults /\ faults' = faults + 1
Quiet == UNCHANGED faults

-----------------------------------------------------------------------------
(* PostgreSQL *)

\* An autocommitted INSERT or UPDATE of status: both set updated_at to now.
SetStatus(j, s) ==
    /\ status' = [status EXCEPT ![j] = s]
    /\ aged' = aged \ {j}
    /\ UNCHANGED lock

\* An UPDATE waits while another open transaction has updated the row.
Unlocked(j) == lock[j] = Nobody

\* Mutants of Claimable: the row is not looked at; 'running' is forgotten.
Claimable_AnyRow(j) == status[j] # "none"
Claimable_PendingOnly(j) == status[j] = "pending"

\* WHERE status IN ('pending', 'running') in claim().
Claimable(j) == status[j] \in {"pending", "running"}

\* Mutant of Overdue: the comparison the wrong way round.
Overdue_Fresh == {j \in Jobs \ aged : status[j] = "pending"}

\* WHERE status = 'pending' AND updated_at < NOW() - 30 s in the sweep.
Overdue == {j \in aged : status[j] = "pending"}

\* Thirty seconds pass without a write to a pending row.  (The age of other
\* rows is never read.)
Age(j) ==
    /\ status[j] = "pending"
    /\ j \notin aged
    /\ aged' = aged \cup {j}
    /\ UNCHANGED <<status, lock, queue, processing, dropped, faults>>

-----------------------------------------------------------------------------
(* Redis.  No operator touches both lists except the atomic moves. *)

RPush(j) ==
    /\ queue' = Append(queue, j)
    /\ dropped' = dropped \ {j}
    /\ UNCHANGED processing

\* Mutant of MoveToProcessing: a plain BLPOP.
MoveToProcessing_Popped ==
    /\ queue # <<>>
    /\ queue' = Tail(queue)
    /\ UNCHANGED <<processing, dropped>>

\* BLMOVE jobs jobs:processing LEFT RIGHT
MoveToProcessing ==
    /\ queue # <<>>
    /\ processing' = Append(processing, Head(queue))
    /\ queue' = Tail(queue)
    /\ UNCHANGED dropped

\* Mutant of MoveBack: src = LEFT.
MoveBack_FromHead ==
    /\ processing # <<>>
    /\ queue' = <<Head(processing)>> \o queue
    /\ processing' = Tail(processing)
    /\ UNCHANGED dropped

\* LMOVE jobs:processing jobs RIGHT LEFT
MoveBack ==
    /\ processing # <<>>
    /\ queue' = <<Last(processing)>> \o queue
    /\ processing' = Front(processing)
    /\ UNCHANGED dropped

\* LREM jobs:processing 1 j
LRem(j) ==
    /\ processing' = RemoveFirst(processing, j)
    /\ UNCHANGED <<queue, dropped>>

Listed(j) == Contains(queue, j) \/ Contains(processing, j)
=============================================================================
