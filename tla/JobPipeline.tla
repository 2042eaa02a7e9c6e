------------------------------ MODULE JobPipeline ------------------------------
(***************************************************************************)
(* The job pipeline: the API processes and the worker over the shared      *)
(* table and lists, with every interleaving of their statements, commands, *)
(* crashes and restarts.                                                   *)
(***************************************************************************)
EXTENDS ApiJobs, WorkerLoop

vars == <<pgVars, redisVars, faults, apiVars, workerVars>>

Init == StoreInit /\ ApiInit /\ WorkerInit

Next ==
    \/ ApiNext /\ UNCHANGED workerVars
    \/ WorkerNext /\ UNCHANGED apiVars
    \/ \E j \in Jobs : Age(j) /\ UNCHANGED <<apiVars, workerVars>>

Spec == Init /\ [][Next]_vars

-----------------------------------------------------------------------------
(* Fairness.  Threads and processes that are not waiting are scheduled, a   *)
(* dead pod is started again, time passes, and each dispatch_loop keeps     *)
(* running.  Claim is strongly fair: a sweep that touched a row leaves it   *)
(* alone for thirty seconds, and a claim is retried every few seconds, so a *)
(* worker does not meet a locked row for ever.  Faults are never obliged.   *)

ApiFairness ==
    /\ \A j \in Jobs : WF_vars(EnqueueJob(j) /\ UNCHANGED workerVars)
    /\ \A s \in Sweepers :
        /\ WF_vars(SweepSelect(s) /\ UNCHANGED workerVars)
        /\ WF_vars(SweepStep(s) /\ UNCHANGED workerVars)

WorkerFairness ==
    \A w \in Workers :
        /\ WF_vars(Start(w) /\ UNCHANGED apiVars)
        /\ WF_vars(WorkerStep(w) /\ UNCHANGED apiVars)
        /\ SF_vars(Claim(w) /\ UNCHANGED apiVars)

FairSpec ==
    /\ Spec
    /\ ApiFairness
    /\ WorkerFairness
    /\ \A j \in Jobs : WF_vars(Age(j) /\ UNCHANGED <<apiVars, workerVars>>)

-----------------------------------------------------------------------------
(* Invariants *)

TypeOK == StoreTypeOK /\ ApiTypeOK /\ WorkerTypeOK

\* Between LREM and RPUSH of release() the id is in the worker's memory only.
InHand(j) == \E w \in Workers : wpc[w] = "repush" /\ held[w] = j

\* A claimed job is always where a worker will find it again, in one of the
\* two lists or in the hand of a worker about to push it, unless it was lost
\* between the two commands of release().  The sweep looks at pending rows
\* only, so nothing else would bring a running job back.
OnlyReleaseStrands ==
    \A j \in Jobs : status[j] = "running" => Listed(j) \/ InHand(j) \/ j \in dropped

\* An id is in the lists, or in anybody's hands, only after its row was
\* committed: claim() never sees rowcount 0 because it came too early.
QueuedIsCommitted ==
    \A j \in Jobs :
        \/ Listed(j)
        \/ \E w \in Workers : held[w] = j
        \/ \E s \in Sweepers : j \in rows[s] \/ current[s] = j
        => status[j] # "none"

\* An entry is acknowledged only for a job that is complete: neither a refused
\* claim nor a finished work removes one that still has to be done.
AckedIsComplete ==
    \A w \in Workers : wpc[w] = "ack" => status[held[w]] = "complete"

\* A row stays locked only by a sweep under way, and stays pending while it
\* is: a sweep can delay a claim, never overwrite or outlast one.
SweepLocksPending ==
    \A j \in Jobs : lock[j] # Nobody => status[j] = "pending" /\ spc[lock[j]] # "sleep"

-----------------------------------------------------------------------------
(* Properties of the single consumer the Deployment asks for: they need     *)
(* Workers to be a singleton, and fail while a replacement pod overlaps.    *)

\* The job a worker is claiming or working on is in the processing list, so
\* that the next startup finds it if this process dies.
HeldIsListed ==
    \A w \in Workers : wpc[w] \in {"claim", "work"} => Contains(processing, held[w])

\* Work is done on a running job only: no second execution after completion,
\* whatever duplicates the sweep and release() put in the queue.
NoWorkOnComplete ==
    \A w \in Workers : wpc[w] = "work" => status[held[w]] = "running"

\* The processing list does not leak: every entry beyond the one in hand is
\* the trace of one error or crash.
ProcessingAccounted ==
    Len(processing) <= faults + Cardinality({w \in Workers : held[w] # NoJob})

-----------------------------------------------------------------------------
(* Action properties *)

\* The status a client polls only moves forward: a completed job is never
\* claimed again, a claimed one never returns to pending, and no job is complete
\* without having been seen running.
Forward ==
    [none |-> {"none", "pending"},
     pending |-> {"pending", "running"},
     running |-> {"running", "complete"},
     complete |-> {"complete"}]

StatusForward == [][\A j \in Jobs : status'[j] \in Forward[status[j]]]_vars

\* Moving an entry between the lists, either way, keeps the order of delivery:
\* what was taken out first comes out first again after a restart.
MovesKeepOrder ==
    [][Len(queue') + Len(processing') = Len(queue) + Len(processing)
       => processing' \o queue' = processing \o queue]_vars

-----------------------------------------------------------------------------
(* Liveness *)

\* A running job nobody will touch before the next startup: release() dropped
\* it, or a failing release() or BLMOVE left it parked in the processing list.
Stranded(j) ==
    /\ status[j] = "running"
    /\ ~ Contains(queue, j)
    /\ Contains(processing, j) \/ j \in dropped
    /\ \A w \in Workers : held[w] # j

\* Every accepted job is completed, whatever failed meanwhile, unless it ends
\* up stranded for good; a job that is only pending never does.
EveryJobSettles ==
    \A j \in Jobs : status[j] = "pending" ~> (status[j] = "complete" \/ []Stranded(j))

\* What a dead worker left in the processing list is put back on the queue by
\* the next startup, unless the job was complete and is discarded instead.
OrphansReturn ==
    \A j \in Jobs :
        Contains(processing, j) /\ (\A w \in Workers : wpc[w] = "down")
        ~> (Contains(queue, j) \/ status[j] = "complete")

\* Every sweep ends: sweeps that update each other's rows do not wait for ever.
SweepsEnd == \A s \in Sweepers : spc[s] # "sleep" ~> spc[s] = "sleep"

-----------------------------------------------------------------------------
(* What a client sees of the pipeline implements the contract. *)

Executing == [w \in Workers |-> IF wpc[w] = "work" THEN held[w] ELSE NoJob]

Contract == INSTANCE JobContract WITH seen <- status, exec <- Executing

ImplementsContract == Contract!ContractSpec

-----------------------------------------------------------------------------
\* What the comment in run() (app/worker/worker.py) says of a dequeued job: a
\* crash or an error does not lose it, it leaves the list only after its final
\* status is committed.
NoJobLost == \A j \in Jobs : status[j] = "running" => Listed(j) \/ InHand(j)
=============================================================================
