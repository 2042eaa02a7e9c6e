------------------------------ MODULE WorkerLoop ------------------------------
(***************************************************************************)
(* The worker (app/worker/worker.py): connect and drain the processing     *)
(* list, then move one id at a time to it, claim the row, work, complete   *)
(* the row and acknowledge.  One process is one w \in Workers; Replicas is *)
(* what the Deployment asks for.                                           *)
(*                                                                         *)
(* wpc names the call the process is about to make:                        *)
(*   down     there is no process        work     update_status()          *)
(*   connect  top of the startup loop    ack      LREM after the work or   *)
(*   drain    LMOVE in requeue_orphans            after a refused claim    *)
(*   loop     top of the main loop       release  LREM in release()        *)
(*   blmove   BLMOVE                     repush   RPUSH in release()       *)
(*   claim    claim()                                                      *)
(* The sleeps, the heartbeat and the log lines are left out.               *)
(***************************************************************************)
EXTENDS JobStore

CONSTANT Replicas

ASSUME WorkerAssumption == Replicas \in Nat \ {0}

VARIABLES
    wpc,
    held,           \* job_id of the current iteration
    stopping        \* the flag stop() sets on SIGTERM and SIGINT

workerVars == <<wpc, held, stopping>>

Pcs == {"down", "connect", "drain", "loop", "blmove", "claim", "work", "ack",
        "release", "repush"}

WorkerTypeOK ==
    /\ wpc \in [Workers -> Pcs]
    /\ held \in [Workers -> Jobs \cup {NoJob}]
    /\ stopping \in [Workers -> BOOLEAN]

WorkerInit ==
    /\ wpc = [w \in Workers |-> "down"]
    /\ held = [w \in Workers |-> NoJob]
    /\ stopping = [w \in Workers |-> FALSE]

GoTo(w, pc) == wpc' = [wpc EXCEPT ![w] = pc]
Hold(w, j) == held' = [held EXCEPT ![w] = j]
NextIteration(w) == GoTo(w, "loop") /\ Hold(w, NoJob)

-----------------------------------------------------------------------------
(* Process life cycle *)

\* A pod that is terminating no longer counts as a replica: after a deletion
\* or an eviction its replacement may start beside it.  With a single element
\* in Workers there is never a second process.
Start(w) ==
    /\ wpc[w] = "down"
    /\ Cardinality({v \in Workers : wpc[v] # "down" /\ ~ stopping[v]}) < Replicas
    /\ GoTo(w, "connect")
    /\ UNCHANGED <<pgVars, redisVars, faults, held, stopping>>

\* SIGTERM only sets the flag ...
Stop(w) ==
    /\ wpc[w] # "down"
    /\ ~ stopping[w]
    /\ Disturb
    /\ stopping' = [stopping EXCEPT ![w] = TRUE]
    /\ UNCHANGED <<pgVars, redisVars, wpc, held>>

\* ... which is read at the top of the two loops and nowhere else.
Exit(w) ==
    /\ wpc[w] \in {"connect", "loop"}
    /\ stopping[w]
    /\ GoTo(w, "down")
    /\ stopping' = [stopping EXCEPT ![w] = FALSE]
    /\ UNCHANGED <<pgVars, redisVars, faults, held>>

\* SIGKILL, node loss, or an exception the main loop does not catch.
Crash(w) ==
    /\ wpc[w] # "down"
    /\ Disturb
    /\ GoTo(w, "down")
    /\ Hold(w, NoJob)
    /\ stopping' = [stopping EXCEPT ![w] = FALSE]
    /\ dropped' = IF wpc[w] = "repush" THEN dropped \cup {held[w]} ELSE dropped
    /\ UNCHANGED <<pgVars, queue, processing>>

-----------------------------------------------------------------------------
(* Startup *)

\* Mutant of Connect: no requeue_orphans() before the main loop.
Connect_NoDrain(w) ==
    /\ wpc[w] = "connect"
    /\ ~ stopping[w]
    /\ GoTo(w, "loop")
    /\ UNCHANGED <<pgVars, redisVars, faults, held, stopping>>

\* ensure_schema() and PING.  A failure sleeps and retries: a stutter.
Connect(w) ==
    /\ wpc[w] = "connect"
    /\ ~ stopping[w]
    /\ GoTo(w, "drain")
    /\ UNCHANGED <<pgVars, redisVars, faults, held, stopping>>

\* requeue_orphans(): LMOVE until the processing list is empty.
Drain(w) ==
    /\ wpc[w] = "drain"
    /\ \/ MoveBack /\ UNCHANGED wpc
       \/ processing = <<>> /\ GoTo(w, "loop") /\ UNCHANGED redisVars
    /\ UNCHANGED <<pgVars, faults, held, stopping>>

\* An error in it goes back to the top of the startup loop.
DrainFail(w) ==
    /\ wpc[w] = "drain"
    /\ Disturb
    /\ MoveBack \/ UNCHANGED redisVars
    /\ GoTo(w, "connect")
    /\ UNCHANGED <<pgVars, held, stopping>>

-----------------------------------------------------------------------------
(* One iteration of the main loop *)

EnterLoop(w) ==
    /\ wpc[w] = "loop"
    /\ ~ stopping[w]
    /\ GoTo(w, "blmove")
    /\ UNCHANGED <<pgVars, redisVars, faults, held, stopping>>

\* BLMOVE, with its timeout when there is nothing to move.
Blmove(w) ==
    /\ wpc[w] = "blmove"
    /\ \/ MoveToProcessing /\ GoTo(w, "claim") /\ Hold(w, Head(queue))
       \/ queue = <<>> /\ NextIteration(w) /\ UNCHANGED redisVars
    /\ UNCHANGED <<pgVars, faults, stopping>>

\* An error leaves job_id None: what was moved without an answer is not
\* released and stays in the processing list.
BlmoveFail(w) ==
    /\ wpc[w] = "blmove"
    /\ Disturb
    /\ MoveToProcessing
    /\ NextIteration(w)
    /\ UNCHANGED <<pgVars, stopping>>

\* Mutants of Claim: rowcount is ignored; a refused claim is not acknowledged;
\* the final status is committed before the work.
Claim_NoRowcount(w) ==
    /\ wpc[w] = "claim"
    /\ Unlocked(held[w])
    /\ IF Claimable(held[w]) THEN SetStatus(held[w], "running") ELSE UNCHANGED pgVars
    /\ GoTo(w, "work")
    /\ UNCHANGED <<redisVars, faults, held, stopping>>
Claim_SkipUnacked(w) ==
    /\ wpc[w] = "claim"
    /\ Unlocked(held[w])
    /\ IF Claimable(held[w])
       THEN SetStatus(held[w], "running") /\ GoTo(w, "work") /\ UNCHANGED held
       ELSE UNCHANGED pgVars /\ NextIteration(w)
    /\ UNCHANGED <<redisVars, faults, stopping>>
Claim_CompletesEarly(w) ==
    /\ wpc[w] = "claim"
    /\ Unlocked(held[w])
    /\ IF Claimable(held[w])
       THEN SetStatus(held[w], "complete") /\ GoTo(w, "work")
       ELSE UNCHANGED pgVars /\ GoTo(w, "ack")
    /\ UNCHANGED <<redisVars, faults, held, stopping>>

\* claim(): the conditional UPDATE and its commit; rowcount decides.
Claim(w) ==
    /\ wpc[w] = "claim"
    /\ Unlocked(held[w])
    /\ IF Claimable(held[w])
       THEN SetStatus(held[w], "running") /\ GoTo(w, "work")
       ELSE UNCHANGED pgVars /\ GoTo(w, "ack")
    /\ UNCHANGED <<redisVars, faults, held, stopping>>

\* A sweep keeps the row locked past lock_timeout.
ClaimTimeout(w) ==
    /\ wpc[w] = "claim"
    /\ ~ Unlocked(held[w])
    /\ GoTo(w, "release")
    /\ UNCHANGED <<pgVars, redisVars, faults, held, stopping>>

ClaimFail(w) ==
    /\ wpc[w] = "claim"
    /\ Disturb
    /\ \/ UNCHANGED pgVars
       \/ /\ Unlocked(held[w])
          /\ Claimable(held[w])
          /\ SetStatus(held[w], "running")
    /\ GoTo(w, "release")
    /\ UNCHANGED <<redisVars, held, stopping>>

\* update_status(job_id, "complete"): no condition on the old status.  A
\* sweep locks pending rows only, so this UPDATE never has to wait for one.
Finish(w) ==
    /\ wpc[w] = "work"
    /\ Unlocked(held[w])
    /\ SetStatus(held[w], "complete")
    /\ GoTo(w, "ack")
    /\ UNCHANGED <<redisVars, faults, held, stopping>>

FinishFail(w) ==
    /\ wpc[w] = "work"
    /\ Disturb
    /\ \/ UNCHANGED pgVars
       \/ Unlocked(held[w]) /\ SetStatus(held[w], "complete")
    /\ GoTo(w, "release")
    /\ UNCHANGED <<redisVars, held, stopping>>

Ack(w) ==
    /\ wpc[w] = "ack"
    /\ LRem(held[w])
    /\ NextIteration(w)
    /\ UNCHANGED <<pgVars, faults, stopping>>

AckFail(w) ==
    /\ wpc[w] = "ack"
    /\ Disturb
    /\ LRem(held[w]) \/ UNCHANGED redisVars
    /\ GoTo(w, "release")
    /\ UNCHANGED <<pgVars, held, stopping>>

-----------------------------------------------------------------------------
(* release(): two commands, the second only if the first removed an entry *)

\* (Mutant of Release: the RPUSH is forgotten.)
Release_NoRepush(w) ==
    /\ wpc[w] = "release"
    /\ LRem(held[w])
    /\ NextIteration(w)
    /\ UNCHANGED <<pgVars, faults, stopping>>

Release(w) ==
    /\ wpc[w] = "release"
    /\ LRem(held[w])
    /\ IF Contains(processing, held[w])
       THEN GoTo(w, "repush") /\ UNCHANGED held
       ELSE NextIteration(w)
    /\ UNCHANGED <<pgVars, faults, stopping>>

\* An error is swallowed.  If LREM had been executed the entry is gone and
\* there is no RPUSH.
ReleaseFail(w) ==
    /\ wpc[w] = "release"
    /\ Disturb
    /\ \/ UNCHANGED redisVars
       \/ /\ Contains(processing, held[w])
          /\ processing' = RemoveFirst(processing, held[w])
          /\ dropped' = dropped \cup {held[w]}
          /\ UNCHANGED queue
    /\ NextIteration(w)
    /\ UNCHANGED <<pgVars, stopping>>

Repush(w) ==
    /\ wpc[w] = "repush"
    /\ RPush(held[w])
    /\ NextIteration(w)
    /\ UNCHANGED <<pgVars, faults, stopping>>

RepushFail(w) ==
    /\ wpc[w] = "repush"
    /\ Disturb
    /\ \/ RPush(held[w])
       \/ dropped' = dropped \cup {held[w]} /\ UNCHANGED <<queue, processing>>
    /\ NextIteration(w)
    /\ UNCHANGED <<pgVars, stopping>>

-----------------------------------------------------------------------------
\* What a process does as long as nothing goes wrong.
WorkerStep(w) ==
    \/ Connect(w) \/ Drain(w) \/ EnterLoop(w) \/ Blmove(w)
    \/ Claim(w) \/ ClaimTimeout(w) \/ Finish(w) \/ Ack(w)
    \/ Release(w) \/ Repush(w) \/ Exit(w)

WorkerFault(w) ==
    \/ Stop(w) \/ Crash(w) \/ DrainFail(w) \/ BlmoveFail(w) \/ ClaimFail(w)
    \/ FinishFail(w) \/ AckFail(w) \/ ReleaseFail(w) \/ RepushFail(w)

WorkerNext == \E w \in Workers : Start(w) \/ WorkerStep(w) \/ WorkerFault(w)
=============================================================================
