-------------------------------- MODULE ApiJobs --------------------------------
(***************************************************************************)
(* The API's half of the job pipeline (app/api/main.py): POST /api/jobs    *)
(* inserts and commits a row and only then pushes its id, and the sweep    *)
(* dispatch_pending_jobs(), run by one dispatch_loop() per API process,    *)
(* pushes again what is still pending after thirty seconds.                *)
(***************************************************************************)
EXTENDS JobStore

CONSTANTS
    SweepLimit,     \* LIMIT 500 of the sweep's SELECT
    QueueBound      \* bound: no sweep starts on a queue this long

ASSUME ApiAssumption ==
    /\ SweepLimit \in Nat \ {0}
    /\ QueueBound \in Nat

VARIABLES
    pushing,        \* requests between their commit and their RPUSH
    spc,            \* where each sweep is
    rows,           \* rows it selected and has not pushed yet
    current         \* the row it pushed and has not updated yet

apiVars == <<pushing, spc, rows, current>>

ApiTypeOK ==
    /\ pushing \subseteq Jobs
    /\ spc \in [Sweepers -> {"sleep", "push", "touch"}]
    /\ rows \in [Sweepers -> SUBSET Jobs]
    /\ current \in [Sweepers -> Jobs \cup {NoJob}]

ApiInit ==
    /\ pushing = {}
    /\ spc = [s \in Sweepers |-> "sleep"]
    /\ rows = [s \in Sweepers |-> {}]
    /\ current = [s \in Sweepers |-> NoJob]

-----------------------------------------------------------------------------
(* POST /api/jobs *)

\* INSERT and COMMIT.  When the commit's answer is lost, or the process dies
\* right after it, the row is there and nobody goes on to push it.  A refused
\* commit changes nothing and is a stutter.
CreateJob(j) ==
    /\ status[j] = "none"
    /\ SetStatus(j, "pending")
    /\ \/ pushing' = pushing \cup {j} /\ Quiet
       \/ Disturb /\ UNCHANGED pushing
    /\ UNCHANGED <<redisVars, spc, rows, current>>

\* Mutants of EnqueueJob: an error marks the job failed; the push goes before
\* the commit.
EnqueueJob_MarksFailed(j) ==
    /\ j \in pushing
    /\ pushing' = pushing \ {j}
    /\ \/ RPush(j) /\ Quiet /\ UNCHANGED pgVars
       \/ SetStatus(j, "failed") /\ Disturb /\ UNCHANGED redisVars
    /\ UNCHANGED <<spc, rows, current>>
EnqueueJob_BeforeCommit(j) ==
    /\ status[j] = "none"
    /\ Len(queue) < QueueBound
    /\ RPush(j)
    /\ UNCHANGED <<pgVars, faults, apiVars>>

\* RPUSH.  The handler swallows every error, so the client gets its 202 whether
\* or not the id reached the list.
EnqueueJob(j) ==
    /\ j \in pushing
    /\ pushing' = pushing \ {j}
    /\ \/ RPush(j) /\ Quiet
       \/ RPush(j) /\ Disturb
       \/ Disturb /\ UNCHANGED redisVars
    /\ UNCHANGED <<pgVars, spc, rows, current>>

-----------------------------------------------------------------------------
(* dispatch_pending_jobs *)

\* The locks of a sweep's transaction go when it ends, either way.
EndSweep(s) ==
    /\ lock' = [j \in Jobs |-> IF lock[j] = s THEN Nobody ELSE lock[j]]
    /\ spc' = [spc EXCEPT ![s] = "sleep"]
    /\ rows' = [rows EXCEPT ![s] = {}]
    /\ current' = [current EXCEPT ![s] = NoJob]
    /\ UNCHANGED <<pushing, status>>

\* SELECT ... LIMIT: any SweepLimit of the overdue rows, or all of them.  A
\* sweep that finds none commits and sleeps again, a stutter.
SweepSelect(s) ==
    /\ spc[s] = "sleep"
    /\ Len(queue) < QueueBound
    /\ \E R \in SUBSET Overdue \ {{}} :
        /\ Cardinality(R) <= SweepLimit
        /\ R # Overdue => Cardinality(R) = SweepLimit
        /\ rows' = [rows EXCEPT ![s] = R]
    /\ spc' = [spc EXCEPT ![s] = "push"]
    /\ UNCHANGED <<pgVars, redisVars, faults, pushing, current>>

\* RPUSH of the next row.  The SELECT took no lock: the row may have been
\* claimed, or even completed, since.
SweepPush(s) ==
    /\ spc[s] = "push"
    /\ \E j \in rows[s] :
        /\ RPush(j)
        /\ rows' = [rows EXCEPT ![s] = @ \ {j}]
        /\ current' = [current EXCEPT ![s] = j]
    /\ spc' = [spc EXCEPT ![s] = "touch"]
    /\ UNCHANGED <<pgVars, faults, pushing>>

\* Mutant of SweepTouch: without AND status = 'pending'.
SweepTouch_AnyStatus(s) ==
    /\ spc[s] = "touch"
    /\ Unlocked(current[s])
    /\ lock' = [lock EXCEPT ![current[s]] = s]
    /\ spc' = [spc EXCEPT ![s] = "push"]
    /\ current' = [current EXCEPT ![s] = NoJob]
    /\ UNCHANGED <<status, aged, redisVars, faults, pushing, rows>>

\* UPDATE ... SET updated_at = NOW() WHERE id = ... AND status = 'pending'.
\* The new timestamp is visible, and the row lock released, only on commit.
SweepTouch(s) ==
    /\ spc[s] = "touch"
    /\ Unlocked(current[s])
    /\ lock' = IF status[current[s]] = "pending"
               THEN [lock EXCEPT ![current[s]] = s] ELSE lock
    /\ spc' = [spc EXCEPT ![s] = "push"]
    /\ current' = [current EXCEPT ![s] = NoJob]
    /\ UNCHANGED <<status, aged, redisVars, faults, pushing, rows>>

\* Mutant of SweepTimeout: neither a lock_timeout nor a deadlock detector.
SweepTimeout_Never(s) == FALSE /\ EndSweep(s) /\ UNCHANGED <<aged, redisVars, faults>>

\* The row is locked by another sweep past lock_timeout, or the two sweeps
\* wait for each other: the statement fails and the transaction rolls back.
SweepTimeout(s) ==
    /\ spc[s] = "touch"
    /\ ~ Unlocked(current[s])
    /\ EndSweep(s)
    /\ UNCHANGED <<aged, redisVars, faults>>

SweepCommit(s) ==
    /\ spc[s] = "push"
    /\ rows[s] = {}
    /\ aged' = {j \in aged : lock[j] # s}
    /\ EndSweep(s)
    /\ UNCHANGED <<redisVars, faults>>

\* A Redis or database error, or the end of the process: nothing of the
\* transaction survives, but every RPUSH already sent does, the failing one
\* included when only its answer was lost.
SweepAbort(s) ==
    /\ spc[s] # "sleep"
    /\ Disturb
    /\ \/ UNCHANGED redisVars
       \/ spc[s] = "push" /\ \E j \in rows[s] : RPush(j)
    /\ EndSweep(s)
    /\ UNCHANGED aged

SweepStep(s) == SweepPush(s) \/ SweepTouch(s) \/ SweepTimeout(s) \/ SweepCommit(s)

ApiNext ==
    \/ \E j \in Jobs : CreateJob(j) \/ EnqueueJob(j)
    \/ \E s \in Sweepers : SweepSelect(s) \/ SweepStep(s) \/ SweepAbort(s)
=============================================================================
