-------------------------- MODULE SingleWorkerProofs --------------------------
(***************************************************************************)
(* Theorems about the pipeline with the single consumer the worker's         *)
(* Deployment asks for (replicas: 1), for any jobs, sweeps and faults.        *)
(***************************************************************************)
EXTENDS JobPipelineProofs

\* There is one worker process at a time, restarted as often as it dies.
SingleConsumer == \E w \in Workers : Workers = {w}

-----------------------------------------------------------------------------
(* The inductive invariant.  An entry of the processing list is accounted    *)
(* for by a fault unless the worker is on its way to acknowledge or release  *)
(* it; a release that follows an acknowledgement whose answer was lost finds  *)
(* nothing to release.                                                       *)

Minding(w) == wpc[w] \in {"claim", "work", "ack"}
Owing(w) == Minding(w) \/ (wpc[w] = "release" /\ Contains(processing, held[w]))

SoleInv(w) ==
    /\ Minding(w) => Contains(processing, held[w])
    /\ wpc[w] = "work" => status[held[w]] = "running"
    /\ Len(processing) <= faults + (IF Owing(w) THEN 1 ELSE 0)

-----------------------------------------------------------------------------
(* What the commands do to the length of the processing list *)

LEMMA LengthsAreNat ==
    ASSUME TypeInv
    PROVE  Len(processing) \in Nat /\ faults \in Nat
  BY LenProperties, StoreAssumption DEF TypeInv, TypeOK, StoreTypeOK

LEMMA MovedIn ==
    ASSUME TypeInv, MoveToProcessing
    PROVE  Contains(processing', Head(queue)) /\ Len(processing') = Len(processing) + 1
<1>1. Head(queue) \in Jobs /\ processing \in Seq(Jobs)
  BY HeadTailMembers DEF TypeInv, TypeOK, StoreTypeOK, MoveToProcessing
<1>2. processing' = Append(processing, Head(queue))
  BY DEF MoveToProcessing
<1> QED
  BY <1>1, <1>2, AppendMembers, AppendProperties

LEMMA MovedOut ==
    ASSUME TypeInv, MoveBack
    PROVE  Len(processing') = Len(processing) - 1
  BY FrontLastMembers DEF TypeInv, TypeOK, StoreTypeOK, MoveBack

LEMMA Removed ==
    ASSUME TypeInv, NEW j, processing' = RemoveFirst(processing, j)
    PROVE  /\ Contains(processing, j) => Len(processing') = Len(processing) - 1
           /\ ~Contains(processing, j) => processing' = processing
  BY RemoveFirstMembers DEF TypeInv, TypeOK, StoreTypeOK

-----------------------------------------------------------------------------
(* The steps *)

\* A process other than the worker, or the worker before it takes a job.
LEMMA Bystander ==
    ASSUME TypeInv, TypeInv', NEW w \in Workers, SoleInv(w),
           processing' = processing, faults <= faults',
           wpc'[w] = wpc[w], held'[w] = held[w],
           wpc[w] = "work" /\ status[held[w]] = "running" => status'[held[w]] = "running"
    PROVE  SoleInv(w)'
<1>1. Owing(w)' = Owing(w) /\ Minding(w)' = Minding(w)
  BY DEF Owing, Minding
<1>2. Len(processing) \in Nat /\ faults \in Nat /\ faults' \in Nat
  BY LengthsAreNat, StoreAssumption DEF TypeInv, TypeOK, StoreTypeOK
<1> QED
  BY <1>1, <1>2 DEF SoleInv

LEMMA ApiBystander ==
    ASSUME IndInv, TypeInv', NEW w \in Workers, SoleInv(w),
           (ApiNext /\ UNCHANGED workerVars) \/ \E j \in Jobs : Age(j) /\ UNCHANGED workerVars
    PROVE  SoleInv(w)'
<1>1. processing' = processing
  BY DEF ApiNext, CreateJob, EnqueueJob, SweepSelect, SweepStep, SweepPush, SweepTouch,
         SweepTimeout, SweepCommit, SweepAbort, RPush, Age, redisVars
<1>2. faults' = faults \/ faults' = faults + 1
  BY DEF ApiNext, CreateJob, EnqueueJob, SweepSelect, SweepStep, SweepPush, SweepTouch,
         SweepTimeout, SweepCommit, SweepAbort, Age, Disturb, Quiet
<1>3. faults <= faults'
  BY <1>2, LengthsAreNat DEF IndInv
<1>4. wpc' = wpc /\ held' = held
  BY DEF workerVars
<1>5. status[held[w]] = "running" => status'[held[w]] = "running"
  <2>1. ASSUME NEW j \in Jobs, CreateJob(j)
        PROVE  status[held[w]] = "running" => status'[held[w]] = "running"
    BY <2>1 DEF CreateJob, SetStatus, IndInv, TypeInv, TypeOK, StoreTypeOK
  <2>2. (\E j \in Jobs : CreateJob(j)) \/ UNCHANGED status
    BY DEF ApiNext, EnqueueJob, SweepSelect, SweepStep, SweepPush, SweepTouch, SweepTimeout,
           SweepCommit, SweepAbort, EndSweep, Age, pgVars
  <2> QED
    BY <2>1, <2>2
<1> QED
  BY <1>1, <1>3, <1>4, <1>5, Bystander DEF IndInv

LEMMA WorkerPreserves ==
    ASSUME IndInv, TypeInv', NEW w \in Workers, SoleInv(w),
           Start(w) \/ WorkerStep(w) \/ WorkerFault(w)
    PROVE  SoleInv(w)'
<1>1. /\ wpc \in [Workers -> Pcs] /\ held \in [Workers -> Jobs \cup {NoJob}]
      /\ status \in [Jobs -> Statuses]
      /\ held[w] \in Jobs <=> wpc[w] \in InHandPcs
  BY DEF IndInv, TypeInv, TypeOK, WorkerTypeOK, StoreTypeOK, HandsMatchPc
<1>2. Len(processing) \in Nat /\ faults \in Nat /\ Len(processing') \in Nat /\ faults' \in Nat
  BY LengthsAreNat, LenProperties, StoreAssumption DEF IndInv, TypeInv, TypeOK, StoreTypeOK
\* With nothing in hand before and after, or an entry for it.
<1>3. ASSUME wpc'[w] \notin {"claim", "work", "ack", "release"},
             Len(processing') <= faults'
      PROVE  SoleInv(w)'
  BY <1>2, <1>3 DEF SoleInv, Owing, Minding
<1>4. ASSUME wpc'[w] \in {"claim", "work", "ack", "release"},
             wpc'[w] = "work" => status'[held'[w]] = "running",
             Contains(processing', held'[w]), Len(processing') <= faults' + 1
      PROVE  SoleInv(w)'
  BY <1>2, <1>4 DEF SoleInv, Owing, Minding
<1>5. ASSUME wpc[w] \notin {"claim", "work", "ack", "release"}
      PROVE  Len(processing) <= faults
  BY <1>2, <1>5 DEF SoleInv, Owing, Minding
<1>6. ASSUME Minding(w)
      PROVE  Contains(processing, held[w]) /\ Len(processing) <= faults + 1
  BY <1>2, <1>6 DEF SoleInv, Owing
<1>7. Len(processing) <= faults + 1
  BY <1>2 DEF SoleInv
<1>8. CASE Start(w) \/ Exit(w) \/ Connect(w) \/ EnterLoop(w)
  <2>1. /\ wpc[w] \in {"down", "connect", "loop"} /\ UNCHANGED <<processing, faults>>
        /\ wpc'[w] \in {"connect", "down", "drain", "blmove"}
    BY <1>1, <1>8 DEF Start, Exit, Connect, EnterLoop, GoTo, redisVars
  <2>2. Len(processing) <= faults
    BY <1>5, <2>1
  <2> QED
    BY <1>3, <2>1, <2>2
<1>9. CASE Drain(w) \/ DrainFail(w)
  <2>1. /\ wpc[w] = "drain" /\ wpc'[w] \in {"drain", "connect", "loop"}
        /\ MoveBack \/ UNCHANGED processing
        /\ faults' \in {faults, faults + 1}
    BY <1>1, <1>9 DEF Drain, DrainFail, GoTo, redisVars, Disturb
  <2>2. Len(processing) <= faults
    BY <1>5, <2>1
  <2>3. Len(processing') <= faults'
    BY <1>2, <2>1, <2>2, MovedOut DEF IndInv
  <2> QED
    BY <1>3, <2>1, <2>3
<1>10. CASE Blmove(w)
  <2>1. CASE MoveToProcessing /\ GoTo(w, "claim") /\ Hold(w, Head(queue))
    <3>1. wpc[w] = "blmove" /\ UNCHANGED faults /\ wpc'[w] = "claim" /\ held'[w] = Head(queue)
      BY <1>1, <1>10, <2>1 DEF Blmove, GoTo, Hold
    <3>2. Contains(processing', held'[w]) /\ Len(processing') = Len(processing) + 1
      BY <2>1, <3>1, MovedIn DEF IndInv
    <3>3. Len(processing) <= faults
      BY <1>5, <3>1
    <3>4. Len(processing') <= faults' + 1
      BY <1>2, <3>1, <3>2, <3>3
    <3> QED
      BY <1>4, <3>1, <3>2, <3>4
  <2>2. CASE queue = <<>> /\ NextIteration(w) /\ UNCHANGED redisVars
    <3>1. wpc[w] = "blmove" /\ UNCHANGED <<faults, processing>> /\ wpc'[w] = "loop"
      BY <1>1, <1>10, <2>2 DEF Blmove, NextIteration, GoTo, redisVars
    <3>2. Len(processing) <= faults
      BY <1>5, <3>1
    <3> QED
      BY <1>3, <3>1, <3>2
  <2> QED
    BY <1>10, <2>1, <2>2 DEF Blmove
<1>11. CASE BlmoveFail(w)
  <2>1. wpc[w] = "blmove" /\ faults' = faults + 1 /\ wpc'[w] = "loop" /\ MoveToProcessing
    BY <1>1, <1>11 DEF BlmoveFail, NextIteration, GoTo, Disturb
  <2>2. Len(processing') = Len(processing) + 1 /\ Len(processing) <= faults
    BY <1>5, <2>1, MovedIn DEF IndInv
  <2>3. Len(processing') <= faults'
    BY <1>2, <2>1, <2>2
  <2> QED
    BY <1>3, <2>1, <2>3
<1>12. CASE Claim(w) \/ ClaimTimeout(w) \/ ClaimFail(w) \/ Finish(w) \/ FinishFail(w)
  <2>1. /\ wpc[w] \in {"claim", "work"} /\ UNCHANGED <<processing, held>>
        /\ wpc'[w] \in {"work", "ack", "release"}
        /\ faults' \in {faults, faults + 1}
    BY <1>1, <1>12 DEF Claim, ClaimTimeout, ClaimFail, Finish, FinishFail, GoTo, redisVars, Disturb
  <2>2. wpc'[w] = "work" => status'[held[w]] = "running"
    <3>1. ASSUME wpc'[w] = "work" PROVE Claim(w) /\ Claimable(held[w])
      BY <1>1, <1>12, <3>1 DEF Claim, ClaimTimeout, ClaimFail, Finish, FinishFail, GoTo
    <3>2. held[w] \in Jobs
      BY <1>1, <2>1 DEF InHandPcs
    <3> QED
      BY <1>1, <3>1, <3>2 DEF Claim, SetStatus
  <2>3. Contains(processing, held[w])
    BY <1>6, <2>1 DEF Minding
  <2>4. Len(processing') <= faults' + 1
    BY <1>2, <1>7, <2>1
  <2> QED
    BY <1>4, <2>1, <2>2, <2>3, <2>4
<1>13. CASE Ack(w)
  <2>1. /\ wpc[w] = "ack" /\ wpc'[w] = "loop" /\ UNCHANGED faults
        /\ processing' = RemoveFirst(processing, held[w])
    BY <1>1, <1>13 DEF Ack, LRem, NextIteration, GoTo
  <2>2. Contains(processing, held[w])
    BY <1>6, <2>1 DEF Minding
  <2>3. Len(processing') = Len(processing) - 1
    BY <2>1, <2>2, Removed DEF IndInv
  <2>4. Len(processing') <= faults'
    BY <1>2, <1>7, <2>1, <2>3
  <2> QED
    BY <1>3, <2>1, <2>4
<1>14. CASE AckFail(w)
  <2>1. /\ wpc[w] = "ack" /\ wpc'[w] = "release" /\ faults' = faults + 1 /\ UNCHANGED held
        /\ processing' \in {RemoveFirst(processing, held[w]), processing}
    BY <1>1, <1>14 DEF AckFail, LRem, GoTo, Disturb, redisVars
  <2>2. Contains(processing, held[w])
    BY <1>6, <2>1 DEF Minding
  <2>3. Len(processing') \in {Len(processing), Len(processing) - 1}
    BY <2>1, <2>2, Removed DEF IndInv
  <2>4. Len(processing') <= faults'
    BY <1>2, <1>7, <2>1, <2>3
  <2> QED
    BY <1>2, <2>1, <2>4 DEF SoleInv, Owing, Minding
<1>15. CASE Release(w)
  <2>1. /\ wpc[w] = "release" /\ wpc'[w] \in {"repush", "loop"} /\ UNCHANGED faults
        /\ processing' = RemoveFirst(processing, held[w])
    BY <1>1, <1>15 DEF Release, LRem, NextIteration, GoTo
  <2>2. CASE Contains(processing, held[w])
    <3>1. Len(processing') = Len(processing) - 1
      BY <2>1, <2>2, Removed DEF IndInv
    <3>2. Len(processing') <= faults'
      BY <1>2, <1>7, <2>1, <3>1
    <3> QED
      BY <1>3, <2>1, <3>2
  <2>3. CASE ~Contains(processing, held[w])
    <3>1. processing' = processing
      BY <2>1, <2>3, Removed DEF IndInv
    <3>2. Len(processing) <= faults
      BY <1>2, <2>1, <2>3 DEF SoleInv, Owing, Minding
    <3> QED
      BY <1>3, <2>1, <3>1, <3>2
  <2> QED
    BY <2>2, <2>3
<1>16. CASE ReleaseFail(w)
  <2>1. /\ wpc[w] = "release" /\ wpc'[w] = "loop" /\ faults' = faults + 1
        /\ \/ processing' = processing
           \/ Contains(processing, held[w]) /\ processing' = RemoveFirst(processing, held[w])
    BY <1>1, <1>16 DEF ReleaseFail, NextIteration, GoTo, Disturb, redisVars
  <2>2. Len(processing') \in {Len(processing), Len(processing) - 1}
    BY <2>1, Removed DEF IndInv
  <2>3. Len(processing') <= faults'
    BY <1>2, <1>7, <2>1, <2>2
  <2> QED
    BY <1>3, <2>1, <2>3
<1>17. CASE Repush(w) \/ RepushFail(w)
  <2>1. /\ wpc[w] = "repush" /\ wpc'[w] = "loop" /\ faults' \in {faults, faults + 1}
        /\ UNCHANGED processing
    BY <1>1, <1>17 DEF Repush, RepushFail, RPush, NextIteration, GoTo, Disturb
  <2>2. Len(processing) <= faults
    BY <1>5, <2>1
  <2>3. Len(processing') <= faults'
    BY <1>2, <2>1, <2>2
  <2> QED
    BY <1>3, <2>1, <2>3
<1>18. CASE Stop(w)
  <2>1. UNCHANGED <<processing, wpc, held, status>> /\ faults' = faults + 1
    BY <1>18 DEF Stop, Disturb, redisVars, pgVars
  <2>2. faults <= faults'
    BY <1>2, <2>1
  <2> QED
    BY <2>1, <2>2, Bystander DEF IndInv
<1>19. CASE Crash(w)
  <2>1. wpc'[w] = "down" /\ UNCHANGED processing /\ faults' = faults + 1
    BY <1>1, <1>19 DEF Crash, GoTo, Disturb
  <2>2. Len(processing') <= faults'
    BY <1>2, <1>7, <2>1
  <2> QED
    BY <1>3, <2>1, <2>2
<1> QED
  BY <1>8, <1>9, <1>10, <1>11, <1>12, <1>13, <1>14, <1>15, <1>16, <1>17, <1>18, <1>19
  DEF WorkerStep, WorkerFault

-----------------------------------------------------------------------------
(* The theorems *)

SingleInv == \A w \in Workers : SoleInv(w)

LEMMA SingleInit == Init => SingleInv
<1> SUFFICES ASSUME Init, NEW w \in Workers PROVE SoleInv(w)
  BY DEF SingleInv
<1>1. wpc[w] = "down" /\ processing = <<>> /\ faults = 0
  BY DEF Init, StoreInit, WorkerInit
<1>2. Len(processing) = 0
  BY <1>1, EmptySeq
<1> QED
  BY <1>1, <1>2 DEF SoleInv, Owing, Minding

LEMMA SingleStep ==
    ASSUME SingleConsumer, IndInv, SingleInv, [Next]_vars
    PROVE  SingleInv'
<1> SUFFICES ASSUME NEW w \in Workers PROVE SoleInv(w)'
  BY DEF SingleInv
<1>1. SoleInv(w) /\ \A v \in Workers : v = w
  BY DEF SingleInv, SingleConsumer
<1>2. TypeInv'
  BY TypeStep DEF IndInv
<1>3. CASE UNCHANGED vars
  <2>1. UNCHANGED <<processing, faults, wpc, held, status>>
    BY <1>3 DEF vars, pgVars, redisVars, workerVars
  <2> QED
    BY <2>1, <1>1 DEF SoleInv, Owing, Minding
<1>4. CASE WorkerNext /\ UNCHANGED apiVars
  BY <1>1, <1>2, <1>4, WorkerPreserves DEF WorkerNext
<1>5. CASE ApiNext /\ UNCHANGED workerVars
  BY <1>1, <1>2, <1>5, ApiBystander
<1>6. CASE \E j \in Jobs : Age(j) /\ UNCHANGED <<apiVars, workerVars>>
  BY <1>1, <1>2, <1>6, ApiBystander
<1> QED
  BY <1>3, <1>4, <1>5, <1>6 DEF Next

LEMMA SingleInvariance ==
    ASSUME SingleConsumer
    PROVE  Spec => [](IndInv /\ SingleInv)
<1>1. IndInv /\ SingleInv /\ [Next]_vars => SingleInv'
  BY SingleConsumer, SingleStep
<1> QED
  BY <1>1, SingleInit, Invariance, PTL DEF Spec

\* The job the only worker is claiming or working on is in the processing list,
\* where requeue_orphans() of the next process finds it.
THEOREM OrphanCanBeFound ==
    ASSUME SingleConsumer
    PROVE  Spec => []HeldIsListed
<1>1. SingleInv => HeldIsListed
  BY DEF SingleInv, SoleInv, Minding, HeldIsListed
<1> QED
  BY <1>1, SingleInvariance, PTL

\* The only worker works on running jobs only: claim() refuses the duplicates of
\* a completed job, and nobody else completes it meanwhile.
THEOREM NoSecondExecution ==
    ASSUME SingleConsumer
    PROVE  Spec => []NoWorkOnComplete
<1>1. SingleInv => NoWorkOnComplete
  BY DEF SingleInv, SoleInv, NoWorkOnComplete
<1> QED
  BY <1>1, SingleInvariance, PTL

\* Every entry of the processing list but the one in hand is the trace of a fault.
THEOREM ProcessingNeverLeaks ==
    ASSUME SingleConsumer
    PROVE  Spec => []ProcessingAccounted
<1>1. IndInv /\ SingleInv => ProcessingAccounted
  <2> SUFFICES ASSUME IndInv, SingleInv PROVE ProcessingAccounted
    OBVIOUS
  <2>1. PICK w \in Workers : Workers = {w}
    BY SingleConsumer DEF SingleConsumer
  <2>2. /\ Len(processing) <= faults + (IF Owing(w) THEN 1 ELSE 0)
        /\ Len(processing) \in Nat /\ faults \in Nat
    BY LengthsAreNat DEF IndInv, SingleInv, SoleInv
  <2>3. CASE held[w] # NoJob
    <3>1. {v \in Workers : held[v] # NoJob} = {w}
      BY <2>1, <2>3
    <3>2. Cardinality({v \in Workers : held[v] # NoJob}) = 1
      BY <3>1, FS_Singleton
    <3> QED
      BY <2>2, <3>2 DEF ProcessingAccounted
  <2>4. CASE held[w] = NoJob
    <3>1. {v \in Workers : held[v] # NoJob} = {}
      BY <2>1, <2>4
    <3>2. Cardinality({v \in Workers : held[v] # NoJob}) = 0
      BY <3>1, FS_EmptySet
    <3>3. ~Owing(w)
      BY <2>4, StoreAssumption DEF IndInv, TypeInv, HandsMatchPc, InHandPcs, Owing, Minding
    <3> QED
      BY <2>2, <3>2, <3>3 DEF ProcessingAccounted
  <2> QED
    BY <2>3, <2>4
<1> QED
  BY <1>1, SingleInvariance, PTL
=============================================================================
