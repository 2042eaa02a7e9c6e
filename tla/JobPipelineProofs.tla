--------------------------- MODULE JobPipelineProofs ---------------------------
(***************************************************************************)
(* Theorems about the job pipeline, for any sets of jobs, API processes and *)
(* workers and any number of faults, overlapping workers included.         *)
(***************************************************************************)
EXTENDS JobPipeline, RedisListLemmas

-----------------------------------------------------------------------------
(* What each Redis command does to the members of the two lists *)

LEMMA RPushEffect ==
    ASSUME StoreTypeOK, NEW j \in Jobs, RPush(j)
    PROVE  /\ queue' \in Seq(Jobs) /\ processing' \in Seq(Jobs)
           /\ dropped' = dropped \ {j}
           /\ \A k : Listed(k)' <=> Listed(k) \/ k = j
  BY AppendMembers DEF StoreTypeOK, RPush, Listed

LEMMA MoveToProcessingEffect ==
    ASSUME StoreTypeOK, MoveToProcessing
    PROVE  /\ queue' \in Seq(Jobs) /\ processing' \in Seq(Jobs)
           /\ dropped' = dropped
           /\ Head(queue) \in Jobs /\ Listed(Head(queue))
           /\ \A k : Listed(k)' <=> Listed(k)
<1>1. /\ Head(queue) \in Jobs /\ Contains(queue, Head(queue))
      /\ Tail(queue) \in Seq(Jobs)
      /\ \A k : Contains(queue, k) <=> Contains(Tail(queue), k) \/ k = Head(queue)
  BY HeadTailMembers DEF StoreTypeOK, MoveToProcessing
<1>2. /\ Append(processing, Head(queue)) \in Seq(Jobs)
      /\ \A k : Contains(Append(processing, Head(queue)), k)
                <=> Contains(processing, k) \/ k = Head(queue)
  BY <1>1, AppendMembers DEF StoreTypeOK
<1> QED
  BY <1>1, <1>2 DEF MoveToProcessing, Listed

LEMMA MoveBackEffect ==
    ASSUME StoreTypeOK, MoveBack
    PROVE  /\ queue' \in Seq(Jobs) /\ processing' \in Seq(Jobs)
           /\ dropped' = dropped
           /\ \A k : Listed(k)' <=> Listed(k)
<1>1. /\ Last(processing) \in Jobs
      /\ Front(processing) \in Seq(Jobs)
      /\ \A k : Contains(processing, k) <=> Contains(Front(processing), k) \/ k = Last(processing)
  BY FrontLastMembers DEF StoreTypeOK, MoveBack
<1>2. /\ <<Last(processing)>> \o queue \in Seq(Jobs)
      /\ \A k : Contains(<<Last(processing)>> \o queue, k)
                <=> Contains(queue, k) \/ k = Last(processing)
  BY <1>1, PrependMembers DEF StoreTypeOK
<1> QED
  BY <1>1, <1>2 DEF MoveBack, Listed

LEMMA LRemEffect ==
    ASSUME StoreTypeOK, NEW j
    PROVE  /\ RemoveFirst(processing, j) \in Seq(Jobs)
           /\ ~ Contains(processing, j) => RemoveFirst(processing, j) = processing
           /\ \A k : Contains(RemoveFirst(processing, j), k) => Contains(processing, k)
           /\ \A k : k # j /\ Contains(processing, k)
                     => Contains(RemoveFirst(processing, j), k)
  BY RemoveFirstMembers DEF StoreTypeOK

-----------------------------------------------------------------------------
(* Type correctness.  It is inductive only together with the fact that a    *)
(* process between a BLMOVE and the end of its iteration has a job in hand. *)

InHandPcs == {"claim", "work", "ack", "release", "repush"}

HandsMatchPc == \A w \in Workers : held[w] \in Jobs <=> wpc[w] \in InHandPcs

TypeInv == TypeOK /\ HandsMatchPc

LEMMA TypeStep ==
    ASSUME TypeInv, [Next]_vars
    PROVE  TypeInv'
<1> USE DEF TypeInv, HandsMatchPc, InHandPcs, TypeOK, StoreTypeOK, ApiTypeOK, WorkerTypeOK,
            Statuses, Pcs
<1>1. CASE UNCHANGED vars
  BY <1>1 DEF vars, pgVars, redisVars, apiVars, workerVars
<1>2. ASSUME NEW j \in Jobs, CreateJob(j), UNCHANGED workerVars
      PROVE  TypeInv'
  BY <1>2, StoreAssumption
  DEF CreateJob, SetStatus, Disturb, Quiet, redisVars, workerVars
<1>3. ASSUME NEW j \in Jobs, EnqueueJob(j), UNCHANGED workerVars
      PROVE  TypeInv'
  BY <1>3, RPushEffect, StoreAssumption
  DEF EnqueueJob, Disturb, Quiet, pgVars, redisVars, workerVars
<1>4. ASSUME NEW s \in Sweepers, SweepSelect(s), UNCHANGED workerVars
      PROVE  TypeInv'
  BY <1>4
  DEF SweepSelect, Overdue, pgVars, redisVars, workerVars
<1>5. ASSUME NEW s \in Sweepers, SweepPush(s), UNCHANGED workerVars
      PROVE  TypeInv'
  BY <1>5, RPushEffect, StoreAssumption
  DEF SweepPush, pgVars, workerVars
<1>6. ASSUME NEW s \in Sweepers, SweepTouch(s), UNCHANGED workerVars
      PROVE  TypeInv'
  BY <1>6, StoreAssumption
  DEF SweepTouch, redisVars, workerVars
<1>7. ASSUME NEW s \in Sweepers, SweepTimeout(s), UNCHANGED workerVars
      PROVE  TypeInv'
  BY <1>7, StoreAssumption
  DEF SweepTimeout, EndSweep, redisVars, workerVars
<1>8. ASSUME NEW s \in Sweepers, SweepCommit(s), UNCHANGED workerVars
      PROVE  TypeInv'
  BY <1>8, StoreAssumption
  DEF SweepCommit, EndSweep, redisVars, workerVars
<1>9. ASSUME NEW s \in Sweepers, SweepAbort(s), UNCHANGED workerVars
      PROVE  TypeInv'
  BY <1>9, RPushEffect, StoreAssumption
  DEF SweepAbort, EndSweep, Disturb, redisVars, workerVars
<1>10. ASSUME NEW w \in Workers, Start(w), UNCHANGED apiVars
      PROVE  TypeInv'
  BY <1>10
  DEF Start, GoTo, pgVars, redisVars, apiVars
<1>11. ASSUME NEW w \in Workers, Stop(w), UNCHANGED apiVars
      PROVE  TypeInv'
  BY <1>11, StoreAssumption
  DEF Stop, Disturb, pgVars, redisVars, apiVars
<1>12. ASSUME NEW w \in Workers, Exit(w), UNCHANGED apiVars
      PROVE  TypeInv'
  BY <1>12
  DEF Exit, GoTo, pgVars, redisVars, apiVars
<1>13. ASSUME NEW w \in Workers, Crash(w), UNCHANGED apiVars
      PROVE  TypeInv'
  BY <1>13, StoreAssumption
  DEF Crash, Disturb, GoTo, Hold, pgVars, apiVars
<1>14. ASSUME NEW w \in Workers, Connect(w), UNCHANGED apiVars
      PROVE  TypeInv'
  BY <1>14
  DEF Connect, GoTo, pgVars, redisVars, apiVars
<1>15. ASSUME NEW w \in Workers, Drain(w), UNCHANGED apiVars
      PROVE  TypeInv'
  BY <1>15, MoveBackEffect
  DEF Drain, GoTo, pgVars, redisVars, apiVars
<1>16. ASSUME NEW w \in Workers, DrainFail(w), UNCHANGED apiVars
      PROVE  TypeInv'
  BY <1>16, MoveBackEffect, StoreAssumption
  DEF DrainFail, Disturb, GoTo, pgVars, redisVars, apiVars
<1>17. ASSUME NEW w \in Workers, EnterLoop(w), UNCHANGED apiVars
      PROVE  TypeInv'
  BY <1>17
  DEF EnterLoop, GoTo, pgVars, redisVars, apiVars
<1>18. ASSUME NEW w \in Workers, Blmove(w), UNCHANGED apiVars
      PROVE  TypeInv'
  <2>1. CASE MoveToProcessing /\ GoTo(w, "claim") /\ Hold(w, Head(queue))
    BY <1>18, <2>1, MoveToProcessingEffect, StoreAssumption
    DEF Blmove, GoTo, Hold, pgVars, apiVars
  <2>2. CASE queue = <<>> /\ NextIteration(w) /\ UNCHANGED redisVars
    BY <1>18, <2>2, StoreAssumption
    DEF Blmove, NextIteration, GoTo, Hold, pgVars, redisVars, apiVars
  <2> QED
    BY <1>18, <2>1, <2>2 DEF Blmove
<1>19. ASSUME NEW w \in Workers, BlmoveFail(w), UNCHANGED apiVars
      PROVE  TypeInv'
  BY <1>19, MoveToProcessingEffect, StoreAssumption
  DEF BlmoveFail, Disturb, GoTo, Hold, NextIteration, pgVars, apiVars
<1>20. ASSUME NEW w \in Workers, Claim(w), UNCHANGED apiVars
      PROVE  TypeInv'
  BY <1>20
  DEF Claim, SetStatus, GoTo, pgVars, redisVars, apiVars
<1>21. ASSUME NEW w \in Workers, ClaimTimeout(w), UNCHANGED apiVars
      PROVE  TypeInv'
  BY <1>21
  DEF ClaimTimeout, GoTo, pgVars, redisVars, apiVars
<1>22. ASSUME NEW w \in Workers, ClaimFail(w), UNCHANGED apiVars
      PROVE  TypeInv'
  BY <1>22, StoreAssumption
  DEF ClaimFail, SetStatus, Disturb, GoTo, pgVars, redisVars, apiVars
<1>23. ASSUME NEW w \in Workers, Finish(w), UNCHANGED apiVars
      PROVE  TypeInv'
  BY <1>23
  DEF Finish, SetStatus, GoTo, redisVars, apiVars
<1>24. ASSUME NEW w \in Workers, FinishFail(w), UNCHANGED apiVars
      PROVE  TypeInv'
  <2>1. faults' \in 0..MaxFaults
    BY <1>24, StoreAssumption DEF FinishFail, Disturb
  <2>2. /\ status' \in [Jobs -> Statuses]
        /\ aged' \subseteq Jobs
        /\ lock' \in [Jobs -> Sweepers \cup {Nobody}]
    BY <1>24 DEF FinishFail, SetStatus, pgVars
  <2> QED
    BY <1>24, <2>1, <2>2, StoreAssumption DEF FinishFail, GoTo, redisVars, apiVars
<1>25. ASSUME NEW w \in Workers, Ack(w), UNCHANGED apiVars
      PROVE  TypeInv'
  BY <1>25, LRemEffect, StoreAssumption
  DEF Ack, LRem, GoTo, Hold, NextIteration, pgVars, apiVars
<1>26. ASSUME NEW w \in Workers, AckFail(w), UNCHANGED apiVars
      PROVE  TypeInv'
  BY <1>26, LRemEffect, StoreAssumption
  DEF AckFail, LRem, Disturb, GoTo, pgVars, redisVars, apiVars
<1>27. ASSUME NEW w \in Workers, Release(w), UNCHANGED apiVars
      PROVE  TypeInv'
  <2>1. processing' \in Seq(Jobs)
    BY <1>27, LRemEffect DEF Release, LRem
  <2>2. CASE Contains(processing, held[w])
    BY <1>27, <2>1, <2>2 DEF Release, LRem, GoTo, pgVars, apiVars
  <2>3. CASE ~ Contains(processing, held[w])
    BY <1>27, <2>1, <2>3, StoreAssumption
    DEF Release, LRem, GoTo, Hold, NextIteration, pgVars, apiVars
  <2> QED
    BY <2>2, <2>3
<1>28. ASSUME NEW w \in Workers, ReleaseFail(w), UNCHANGED apiVars
      PROVE  TypeInv'
  BY <1>28, LRemEffect, StoreAssumption
  DEF ReleaseFail, Disturb, GoTo, Hold, NextIteration, pgVars, redisVars, apiVars
<1>29. ASSUME NEW w \in Workers, Repush(w), UNCHANGED apiVars
      PROVE  TypeInv'
  BY <1>29, RPushEffect, StoreAssumption
  DEF Repush, GoTo, Hold, NextIteration, pgVars, apiVars
<1>30. ASSUME NEW w \in Workers, RepushFail(w), UNCHANGED apiVars
      PROVE  TypeInv'
  BY <1>30, RPushEffect, StoreAssumption
  DEF RepushFail, Disturb, GoTo, Hold, NextIteration, pgVars, apiVars
<1>31. ASSUME NEW j \in Jobs, Age(j), UNCHANGED <<apiVars, workerVars>>
      PROVE  TypeInv'
  BY <1>31
  DEF Age, apiVars, workerVars
<1> QED
  BY <1>1, <1>2, <1>3, <1>4, <1>5, <1>6, <1>7, <1>8, <1>9, <1>10, <1>11, <1>12, <1>13, <1>14, <1>15, <1>16, <1>17, <1>18, <1>19, <1>20, <1>21, <1>22, <1>23, <1>24, <1>25, <1>26, <1>27, <1>28, <1>29, <1>30, <1>31
  DEF Next, ApiNext, SweepStep, WorkerNext, WorkerStep, WorkerFault

LEMMA TypeInit == Init => TypeInv
  BY EmptySeq, StoreAssumption
  DEF Init, StoreInit, ApiInit, WorkerInit, TypeInv, HandsMatchPc, InHandPcs,
      TypeOK, StoreTypeOK, ApiTypeOK, WorkerTypeOK, Statuses, Pcs

\* Every reachable state is type correct.
THEOREM TypeCorrect == Spec => []TypeOK
<1>1. Spec => []TypeInv
  BY TypeInit, TypeStep, PTL DEF Spec
<1> QED
  BY <1>1, PTL DEF TypeInv

-----------------------------------------------------------------------------
(* The inductive invariant.  Beyond the invariants themselves it says that a *)
(* request about to push has committed, that work is done on a row claimed   *)
(* before, and, the point of it, that not only a running job but also one in *)
(* anybody's hands is kept somewhere: a claim turns the latter into the      *)
(* former.                                                                   *)

PushingIsCommitted == \A j \in pushing : status[j] # "none"

WorkIsClaimed ==
    \A w \in Workers : wpc[w] = "work" => status[held[w]] \in {"running", "complete"}

Kept(j) == Listed(j) \/ InHand(j) \/ j \in dropped

HeldIsKept ==
    \A j \in Jobs :
        status[j] = "running" \/ (status[j] # "complete" /\ \E w \in Workers : held[w] = j)
        => Kept(j)

SafeInv ==
    /\ QueuedIsCommitted
    /\ PushingIsCommitted
    /\ WorkIsClaimed
    /\ AckedIsComplete
    /\ SweepLocksPending
    /\ HeldIsKept

IndInv == TypeInv /\ SafeInv

LEMMA SafeStep ==
    ASSUME IndInv, [Next]_vars
    PROVE  SafeInv'
<1> USE DEF IndInv, SafeInv, QueuedIsCommitted, PushingIsCommitted, WorkIsClaimed,
            AckedIsComplete, SweepLocksPending, HeldIsKept, Kept, InHand,
            TypeInv, HandsMatchPc, InHandPcs, TypeOK, StoreTypeOK, ApiTypeOK, WorkerTypeOK,
            Statuses, Pcs
<1>1. CASE UNCHANGED vars
  BY <1>1 DEF vars, pgVars, redisVars, apiVars, workerVars, Listed
<1>2. ASSUME NEW j \in Jobs, CreateJob(j), UNCHANGED workerVars
      PROVE  SafeInv'
  BY <1>2, StoreAssumption
  DEF CreateJob, SetStatus, redisVars, Listed, workerVars
<1>3. ASSUME NEW j \in Jobs, EnqueueJob(j), UNCHANGED workerVars
      PROVE  SafeInv'
  BY <1>3, RPushEffect, StoreAssumption
  DEF EnqueueJob, pgVars, redisVars, Listed, workerVars
<1>4. ASSUME NEW s \in Sweepers, SweepSelect(s), UNCHANGED workerVars
      PROVE  SafeInv'
  BY <1>4, StoreAssumption
  DEF SweepSelect, Overdue, pgVars, redisVars, Listed, workerVars
<1>5. ASSUME NEW s \in Sweepers, SweepPush(s), UNCHANGED workerVars
      PROVE  SafeInv'
  BY <1>5, RPushEffect, StoreAssumption
  DEF SweepPush, pgVars, workerVars
<1>6. ASSUME NEW s \in Sweepers, SweepTouch(s), UNCHANGED workerVars
      PROVE  SafeInv'
  BY <1>6, StoreAssumption
  DEF SweepTouch, redisVars, Unlocked, Listed, workerVars
<1>7. ASSUME NEW s \in Sweepers, SweepTimeout(s), UNCHANGED workerVars
      PROVE  SafeInv'
  BY <1>7, StoreAssumption
  DEF SweepTimeout, EndSweep, redisVars, Listed, workerVars
<1>8. ASSUME NEW s \in Sweepers, SweepCommit(s), UNCHANGED workerVars
      PROVE  SafeInv'
  BY <1>8, StoreAssumption
  DEF SweepCommit, EndSweep, redisVars, Listed, workerVars
<1>9. ASSUME NEW s \in Sweepers, SweepAbort(s), UNCHANGED workerVars
      PROVE  SafeInv'
  BY <1>9, RPushEffect, StoreAssumption
  DEF SweepAbort, EndSweep, redisVars, Listed, workerVars
<1>10. ASSUME NEW w \in Workers, Start(w), UNCHANGED apiVars
      PROVE  SafeInv'
  BY <1>10, StoreAssumption
  DEF Start, GoTo, pgVars, redisVars, Listed, apiVars
<1>11. ASSUME NEW w \in Workers, Stop(w), UNCHANGED apiVars
      PROVE  SafeInv'
  BY <1>11, StoreAssumption
  DEF Stop, pgVars, redisVars, Listed, apiVars
<1>12. ASSUME NEW w \in Workers, Exit(w), UNCHANGED apiVars
      PROVE  SafeInv'
  BY <1>12, StoreAssumption
  DEF Exit, GoTo, pgVars, redisVars, Listed, apiVars
<1>13. ASSUME NEW w \in Workers, Crash(w), UNCHANGED apiVars
      PROVE  SafeInv'
  BY <1>13, StoreAssumption
  DEF Crash, GoTo, Hold, pgVars, Listed, apiVars
<1>14. ASSUME NEW w \in Workers, Connect(w), UNCHANGED apiVars
      PROVE  SafeInv'
  BY <1>14, StoreAssumption
  DEF Connect, GoTo, pgVars, redisVars, Listed, apiVars
<1>15. ASSUME NEW w \in Workers, Drain(w), UNCHANGED apiVars
      PROVE  SafeInv'
  <2>1. CASE MoveBack /\ UNCHANGED wpc
    <3>1. (\A k : Listed(k)' <=> Listed(k)) /\ dropped' = dropped
      BY <2>1, MoveBackEffect
    <3> QED
      BY <1>15, <2>1, <3>1 DEF Drain, pgVars, apiVars
  <2>2. CASE processing = <<>> /\ GoTo(w, "loop") /\ UNCHANGED redisVars
    BY <1>15, <2>2 DEF Drain, GoTo, pgVars, redisVars, apiVars, Listed
  <2> QED
    BY <1>15, <2>1, <2>2 DEF Drain
<1>16. ASSUME NEW w \in Workers, DrainFail(w), UNCHANGED apiVars
      PROVE  SafeInv'
  <2>1. CASE MoveBack
    <3>1. (\A k : Listed(k)' <=> Listed(k)) /\ dropped' = dropped
      BY <2>1, MoveBackEffect
    <3> QED
      BY <1>16, <3>1 DEF DrainFail, GoTo, pgVars, apiVars
  <2>2. CASE UNCHANGED redisVars
    BY <1>16, <2>2 DEF DrainFail, GoTo, pgVars, redisVars, apiVars, Listed
  <2> QED
    BY <1>16, <2>1, <2>2 DEF DrainFail
<1>17. ASSUME NEW w \in Workers, EnterLoop(w), UNCHANGED apiVars
      PROVE  SafeInv'
  BY <1>17, StoreAssumption
  DEF EnterLoop, GoTo, pgVars, redisVars, Listed, apiVars
<1>18. ASSUME NEW w \in Workers, Blmove(w), UNCHANGED apiVars
      PROVE  SafeInv'
  <2>1. CASE MoveToProcessing /\ GoTo(w, "claim") /\ Hold(w, Head(queue))
    BY <1>18, <2>1, MoveToProcessingEffect, StoreAssumption
    DEF Blmove, GoTo, Hold, pgVars, apiVars
  <2>2. CASE queue = <<>> /\ NextIteration(w) /\ UNCHANGED redisVars
    BY <1>18, <2>2, StoreAssumption
    DEF Blmove, NextIteration, GoTo, Hold, pgVars, redisVars, apiVars, Listed
  <2> QED
    BY <1>18, <2>1, <2>2 DEF Blmove
<1>19. ASSUME NEW w \in Workers, BlmoveFail(w), UNCHANGED apiVars
      PROVE  SafeInv'
  BY <1>19, MoveToProcessingEffect, StoreAssumption
  DEF BlmoveFail, GoTo, Hold, NextIteration, pgVars, apiVars
<1>20. ASSUME NEW w \in Workers, Claim(w), UNCHANGED apiVars
      PROVE  SafeInv'
  <2>1. held[w] \in Jobs /\ status[held[w]] # "none"
    BY <1>20 DEF Claim
  <2>2. \A k : Listed(k)' <=> Listed(k)
    BY <1>20 DEF Claim, Listed, redisVars
  <2>3. CASE Claimable(held[w])
    BY <1>20, <2>1, <2>2, <2>3 DEF Claim, Claimable, Unlocked, SetStatus, GoTo, redisVars, apiVars
  <2>4. CASE ~ Claimable(held[w])
    BY <1>20, <2>1, <2>2, <2>4 DEF Claim, Claimable, GoTo, pgVars, redisVars, apiVars
  <2> QED
    BY <2>3, <2>4
<1>21. ASSUME NEW w \in Workers, ClaimTimeout(w), UNCHANGED apiVars
      PROVE  SafeInv'
  BY <1>21, StoreAssumption
  DEF ClaimTimeout, GoTo, pgVars, redisVars, Listed, apiVars
<1>22. ASSUME NEW w \in Workers, ClaimFail(w), UNCHANGED apiVars
      PROVE  SafeInv'
  <2>1. held[w] \in Jobs
    BY <1>22 DEF ClaimFail
  <2>2. \A k : Listed(k)' <=> Listed(k)
    BY <1>22 DEF ClaimFail, Listed, redisVars
  <2>3. CASE UNCHANGED pgVars
    BY <1>22, <2>1, <2>2, <2>3 DEF ClaimFail, GoTo, pgVars, redisVars, apiVars
  <2>4. CASE Unlocked(held[w]) /\ Claimable(held[w]) /\ SetStatus(held[w], "running")
    BY <1>22, <2>1, <2>2, <2>4
    DEF ClaimFail, Claimable, Unlocked, SetStatus, GoTo, redisVars, apiVars
  <2> QED
    BY <1>22, <2>3, <2>4 DEF ClaimFail
<1>23. ASSUME NEW w \in Workers, Finish(w), UNCHANGED apiVars
      PROVE  SafeInv'
  BY <1>23, StoreAssumption
  DEF Finish, SetStatus, GoTo, redisVars, Unlocked, Listed, apiVars
<1>24. ASSUME NEW w \in Workers, FinishFail(w), UNCHANGED apiVars
      PROVE  SafeInv'
  BY <1>24, StoreAssumption
  DEF FinishFail, SetStatus, GoTo, pgVars, redisVars, Unlocked, Listed, apiVars
<1>25. ASSUME NEW w \in Workers, Ack(w), UNCHANGED apiVars
      PROVE  SafeInv'
  <2>1. held[w] \in Jobs /\ status[held[w]] = "complete"
    BY <1>25 DEF Ack
  <2>2. /\ \A k : Listed(k)' => Listed(k)
        /\ \A k : k # held[w] /\ Listed(k) => Listed(k)'
    BY <1>25, LRemEffect DEF Ack, LRem, Listed
  <2>3. /\ wpc' = [wpc EXCEPT ![w] = "loop"]
        /\ held' = [held EXCEPT ![w] = NoJob]
        /\ UNCHANGED <<status, aged, lock, dropped, pushing, spc, rows, current>>
    BY <1>25 DEF Ack, LRem, GoTo, Hold, NextIteration, pgVars, apiVars
  <2>4. HeldIsKept'
    <3> SUFFICES ASSUME NEW j \in Jobs,
                        status[j] = "running"
                          \/ (status[j] # "complete" /\ \E v \in Workers : held'[v] = j)
                 PROVE  Kept(j)'
      BY <2>3
    <3>1. j # held[w] /\ Kept(j)
      BY <2>1, <2>3, StoreAssumption
    <3> QED
      BY <1>25, <2>2, <2>3, <3>1 DEF Ack
  <2>5. (QueuedIsCommitted /\ PushingIsCommitted)'
    BY <2>2, <2>3, StoreAssumption
  <2> QED
    BY <2>3, <2>4, <2>5
<1>26. ASSUME NEW w \in Workers, AckFail(w), UNCHANGED apiVars
      PROVE  SafeInv'
  BY <1>26, LRemEffect, StoreAssumption
  DEF AckFail, LRem, GoTo, pgVars, redisVars, Listed, apiVars
<1>27. ASSUME NEW w \in Workers, Release(w), UNCHANGED apiVars
      PROVE  SafeInv'
  <2>1. held[w] \in Jobs
    BY <1>27 DEF Release
  <2>2. /\ \A k : Listed(k)' => Listed(k)
        /\ \A k : k # held[w] /\ Listed(k) => Listed(k)'
        /\ ~ Contains(processing, held[w]) => processing' = processing
    BY <1>27, LRemEffect DEF Release, LRem, Listed
  <2>3. CASE Contains(processing, held[w])
    BY <1>27, <2>1, <2>2, <2>3 DEF Release, LRem, GoTo, pgVars, apiVars
  <2>4. CASE ~ Contains(processing, held[w])
    <3>1. \A k : Listed(k)' <=> Listed(k)
      BY <1>27, <2>2, <2>4 DEF Release, LRem, Listed
    <3> QED
      BY <1>27, <2>1, <2>4, <3>1, StoreAssumption
      DEF Release, LRem, GoTo, Hold, NextIteration, pgVars, apiVars
  <2> QED
    BY <2>3, <2>4
<1>28. ASSUME NEW w \in Workers, ReleaseFail(w), UNCHANGED apiVars
      PROVE  SafeInv'
  BY <1>28, LRemEffect, StoreAssumption
  DEF ReleaseFail, GoTo, Hold, NextIteration, pgVars, redisVars, Listed, apiVars
<1>29. ASSUME NEW w \in Workers, Repush(w), UNCHANGED apiVars
      PROVE  SafeInv'
  <2>1. held[w] \in Jobs /\ RPush(held[w])
    BY <1>29 DEF Repush
  <2>2. /\ \A k : Listed(k)' <=> Listed(k) \/ k = held[w]
        /\ dropped' = dropped \ {held[w]}
    BY <2>1, RPushEffect
  <2> QED
    BY <1>29, <2>1, <2>2, StoreAssumption
    DEF Repush, GoTo, Hold, NextIteration, pgVars, apiVars
<1>30. ASSUME NEW w \in Workers, RepushFail(w), UNCHANGED apiVars
      PROVE  SafeInv'
  <2>1. held[w] \in Jobs
    BY <1>30 DEF RepushFail
  <2>2. CASE RPush(held[w])
    <3>1. /\ \A k : Listed(k)' <=> Listed(k) \/ k = held[w]
          /\ dropped' = dropped \ {held[w]}
      BY <2>1, <2>2, RPushEffect
    <3> QED
      BY <1>30, <2>1, <3>1, StoreAssumption
      DEF RepushFail, GoTo, Hold, NextIteration, pgVars, apiVars
  <2>3. CASE dropped' = dropped \cup {held[w]} /\ UNCHANGED <<queue, processing>>
    <3>1. \A k : Listed(k)' <=> Listed(k)
      BY <2>3 DEF Listed
    <3> QED
      BY <1>30, <2>1, <2>3, <3>1, StoreAssumption
      DEF RepushFail, GoTo, Hold, NextIteration, pgVars, apiVars
  <2> QED
    BY <1>30, <2>2, <2>3 DEF RepushFail
<1>31. ASSUME NEW j \in Jobs, Age(j), UNCHANGED <<apiVars, workerVars>>
      PROVE  SafeInv'
  BY <1>31, StoreAssumption
  DEF Age, Listed, apiVars, workerVars
<1> QED
  BY <1>1, <1>2, <1>3, <1>4, <1>5, <1>6, <1>7, <1>8, <1>9, <1>10, <1>11, <1>12, <1>13, <1>14, <1>15, <1>16, <1>17, <1>18, <1>19, <1>20, <1>21, <1>22, <1>23, <1>24, <1>25, <1>26, <1>27, <1>28, <1>29, <1>30, <1>31
  DEF Next, ApiNext, SweepStep, WorkerNext, WorkerStep, WorkerFault

LEMMA SafeInit == Init => SafeInv
  BY EmptySeq, StoreAssumption
  DEF Init, StoreInit, ApiInit, WorkerInit, SafeInv, QueuedIsCommitted, PushingIsCommitted,
      WorkIsClaimed, AckedIsComplete, SweepLocksPending, HeldIsKept, Listed, Contains

LEMMA Invariance == Spec => []IndInv
<1>1. Init => IndInv
  BY TypeInit, SafeInit DEF IndInv
<1>2. IndInv /\ [Next]_vars => IndInv'
  BY TypeStep, SafeStep DEF IndInv
<1> QED
  BY <1>1, <1>2, PTL DEF Spec

-----------------------------------------------------------------------------
(* The invariants *)

\* A claimed job is in one of the lists or about to be pushed to one, unless
\* release() removed it and failed to push it: no other code loses a job, with
\* any number of workers draining and sharing the processing list.
THEOREM LossOnlyAtRelease == Spec => []OnlyReleaseStrands
<1>1. IndInv => OnlyReleaseStrands
  BY DEF IndInv, SafeInv, HeldIsKept, Kept, OnlyReleaseStrands
<1> QED
  BY <1>1, Invariance, PTL

\* Ids travel only after their rows were committed.
THEOREM CommitBeforePush == Spec => []QueuedIsCommitted
<1>1. IndInv => QueuedIsCommitted
  BY DEF IndInv, SafeInv
<1> QED
  BY <1>1, Invariance, PTL

\* Entries are acknowledged for complete jobs only.
THEOREM AckAfterComplete == Spec => []AckedIsComplete
<1>1. IndInv => AckedIsComplete
  BY DEF IndInv, SafeInv
<1> QED
  BY <1>1, Invariance, PTL

\* A sweep under way keeps the rows it locked pending.
THEOREM LocksArePending == Spec => []SweepLocksPending
<1>1. IndInv => SweepLocksPending
  BY DEF IndInv, SafeInv
<1> QED
  BY <1>1, Invariance, PTL

-----------------------------------------------------------------------------
(* What a step may do to the status of a job *)

LEMMA ForwardStep ==
    ASSUME IndInv, [Next]_vars
    PROVE  \A j \in Jobs : status'[j] \in Forward[status[j]]
<1> USE DEF IndInv, TypeInv, TypeOK, StoreTypeOK, Statuses, Forward
<1>1. CASE UNCHANGED status
  BY <1>1
<1>2. ASSUME NEW j \in Jobs, CreateJob(j)
      PROVE  \A k \in Jobs : status'[k] \in Forward[status[k]]
  BY <1>2 DEF CreateJob, SetStatus
<1>3. ASSUME NEW w \in Workers, Claim(w) \/ ClaimFail(w)
      PROVE  \A k \in Jobs : status'[k] \in Forward[status[k]]
  <2>1. \/ UNCHANGED status
        \/ /\ status[held[w]] \in {"pending", "running"}
           /\ status' = [status EXCEPT ![held[w]] = "running"]
    BY <1>3 DEF Claim, ClaimFail, Claimable, SetStatus, pgVars
  <2> QED
    BY <1>1, <2>1
<1>4. ASSUME NEW w \in Workers, Finish(w) \/ FinishFail(w)
      PROVE  \A k \in Jobs : status'[k] \in Forward[status[k]]
  <2>1. status[held[w]] \in {"running", "complete"}
    BY <1>4 DEF SafeInv, WorkIsClaimed, Finish, FinishFail
  <2>2. UNCHANGED status \/ status' = [status EXCEPT ![held[w]] = "complete"]
    BY <1>4 DEF Finish, FinishFail, SetStatus, pgVars
  <2> QED
    BY <1>1, <2>1, <2>2
<1>5. ASSUME NEW w \in Workers,
             \/ Start(w) \/ Stop(w) \/ Exit(w) \/ Crash(w) \/ Connect(w) \/ Drain(w)
             \/ DrainFail(w) \/ EnterLoop(w) \/ Blmove(w) \/ BlmoveFail(w)
             \/ ClaimTimeout(w) \/ Ack(w) \/ AckFail(w) \/ Release(w)
             \/ ReleaseFail(w) \/ Repush(w) \/ RepushFail(w)
      PROVE  UNCHANGED status
  BY <1>5 DEF Start, Stop, Exit, Crash, Connect, Drain, DrainFail, EnterLoop, Blmove, BlmoveFail,
              ClaimTimeout, Ack, AckFail, Release, ReleaseFail, Repush, RepushFail, pgVars
<1>6. ASSUME NEW s \in Sweepers, SweepSelect(s) \/ SweepStep(s) \/ SweepAbort(s)
      PROVE  UNCHANGED status
  BY <1>6 DEF SweepSelect, SweepStep, SweepPush, SweepTouch, SweepTimeout, SweepCommit,
              SweepAbort, EndSweep, pgVars
<1>7. ASSUME NEW j \in Jobs, EnqueueJob(j) \/ Age(j)
      PROVE  UNCHANGED status
  BY <1>7 DEF EnqueueJob, Age, pgVars
<1>8. CASE UNCHANGED vars
  BY <1>8 DEF vars, pgVars
<1> QED
  BY <1>1, <1>2, <1>3, <1>4, <1>5, <1>6, <1>7, <1>8
  DEF Next, ApiNext, WorkerNext, WorkerStep, WorkerFault

\* No step takes a job backwards, and none completes a job not yet running.
THEOREM StatusNeverReturns == Spec => StatusForward
<1>1. IndInv /\ [Next]_vars => [\A j \in Jobs : status'[j] \in Forward[status[j]]]_vars
  BY ForwardStep
<1> QED
  BY <1>1, Invariance, PTL DEF Spec, StatusForward

-----------------------------------------------------------------------------
(* What a step may do to the order of delivery *)

LEMMA OrderStep ==
    ASSUME TypeInv, [Next]_vars,
           Len(queue') + Len(processing') = Len(queue) + Len(processing)
    PROVE  processing' \o queue' = processing \o queue
<1> USE DEF TypeInv, TypeOK, StoreTypeOK
<1>1. Len(queue) \in Nat /\ Len(processing) \in Nat
  BY LenProperties
<1>2. CASE UNCHANGED <<queue, processing>>
  BY <1>2
<1>3. CASE MoveToProcessing
  BY <1>3, MoveForwardKeepsOrder DEF MoveToProcessing
<1>4. CASE MoveBack
  BY <1>4, MoveBackKeepsOrder DEF MoveBack
<1>5. ASSUME NEW j \in Jobs, RPush(j)
      PROVE  FALSE
  <2>1. Len(queue') = Len(queue) + 1 /\ processing' = processing
    BY <1>5, AppendProperties DEF RPush
  <2> QED
    BY <1>1, <2>1
<1>6. ASSUME NEW j \in Jobs, processing' = RemoveFirst(processing, j), UNCHANGED queue
      PROVE  UNCHANGED <<queue, processing>>
  <2>1. CASE Contains(processing, j)
    <3>1. Len(processing') = Len(processing) - 1
      BY <1>6, <2>1, RemoveFirstMembers
    <3> QED
      BY <1>1, <1>6, <3>1
  <2>2. CASE ~ Contains(processing, j)
    BY <1>6, <2>2, RemoveFirstMembers
  <2> QED
    BY <2>1, <2>2
<1>7. ASSUME NEW w \in Workers, Start(w) \/ WorkerStep(w) \/ WorkerFault(w)
      PROVE  \/ UNCHANGED <<queue, processing>>
             \/ MoveToProcessing \/ MoveBack
             \/ held[w] \in Jobs /\ RPush(held[w])
             \/ held[w] \in Jobs /\ UNCHANGED queue
                  /\ processing' = RemoveFirst(processing, held[w])
  BY <1>7
  DEF HandsMatchPc, InHandPcs, WorkerStep, WorkerFault, Start, Stop, Exit, Crash, Connect, Drain,
      DrainFail, EnterLoop, Blmove, BlmoveFail, Claim, ClaimTimeout, ClaimFail, Finish, FinishFail,
      Ack, AckFail, Release, ReleaseFail, Repush, RepushFail, LRem, redisVars
<1>8. ASSUME ApiNext
      PROVE  UNCHANGED <<queue, processing>> \/ \E j \in Jobs : RPush(j)
  BY <1>8
  DEF ApiTypeOK, ApiNext, CreateJob, EnqueueJob, SweepSelect, SweepStep, SweepPush, SweepTouch,
      SweepTimeout, SweepCommit, SweepAbort, redisVars
<1>9. ASSUME NEW j \in Jobs, Age(j)
      PROVE  UNCHANGED <<queue, processing>>
  BY <1>9 DEF Age
<1>10. CASE UNCHANGED vars
  BY <1>10 DEF vars, redisVars
<1> QED
  BY <1>2, <1>3, <1>4, <1>5, <1>6, <1>7, <1>8, <1>9, <1>10 DEF Next, WorkerNext

\* Whatever is moved between the lists is delivered in the order it was queued.
THEOREM OrderSurvives == Spec => MovesKeepOrder
<1>1. /\ IndInv /\ [Next]_vars
      => [Len(queue') + Len(processing') = Len(queue) + Len(processing)
          => processing' \o queue' = processing \o queue]_vars
  BY OrderStep DEF IndInv
<1> QED
  BY <1>1, Invariance, PTL DEF Spec, MovesKeepOrder

-----------------------------------------------------------------------------
(* The refinement of the contract *)

LEMMA ContractInitial == Init => Contract!ContractInit
  BY DEF Init, StoreInit, WorkerInit, Executing, Contract!ContractInit

\* Steps that neither write a status nor begin or end an execution.
LEMMA ExecutingUnchanged ==
    ASSUME WorkerTypeOK, NEW w \in Workers, NEW pc, NEW h,
           wpc' = [wpc EXCEPT ![w] = pc], held' = [held EXCEPT ![w] = h],
           wpc[w] # "work", pc # "work"
    PROVE  Executing' = Executing
  BY DEF WorkerTypeOK, Executing

LEMMA ContractStep ==
    ASSUME IndInv, [Next]_vars
    PROVE  [Contract!ContractNext]_(Contract!contractVars)
<1> USE DEF IndInv, TypeInv, TypeOK
<1>1. CASE UNCHANGED <<status, wpc, held>>
  BY <1>1 DEF Contract!contractVars, Executing
<1>2. ASSUME NEW j \in Jobs, CreateJob(j), UNCHANGED workerVars
      PROVE  Contract!Accept(j)
  BY <1>2 DEF CreateJob, SetStatus, workerVars, Executing, Contract!Accept
<1>3. ASSUME NEW w \in Workers, Claim(w)
      PROVE  \/ Contract!Begin(w, held[w])
             \/ UNCHANGED <<status, Executing>>
  <2>1. held[w] \in Jobs /\ Executing[w] = NoJob
    BY <1>3 DEF Claim, HandsMatchPc, InHandPcs, Executing
  <2>2. CASE Claimable(held[w])
    <3>1. Executing' = [Executing EXCEPT ![w] = held[w]]
      BY <1>3, <2>2 DEF Claim, GoTo, Executing, WorkerTypeOK
    <3> QED
      BY <1>3, <2>1, <2>2, <3>1 DEF Claim, Claimable, SetStatus, Contract!Begin
  <2>3. CASE ~ Claimable(held[w])
    BY <1>3, <2>3 DEF Claim, GoTo, Executing, WorkerTypeOK, pgVars
  <2> QED
    BY <2>2, <2>3
<1>4. ASSUME NEW w \in Workers, ClaimFail(w)
      PROVE  \/ Contract!Begin(w, held[w])
             \/ UNCHANGED <<status, Executing>>
  <2>1. Executing[w] = NoJob /\ UNCHANGED Executing
    BY <1>4 DEF ClaimFail, GoTo, Executing, WorkerTypeOK
  <2> QED
    BY <1>4, <2>1 DEF ClaimFail, Claimable, SetStatus, pgVars, Contract!Begin
<1>5. ASSUME NEW w \in Workers, Finish(w) \/ FinishFail(w)
      PROVE  Contract!Complete(w) \/ Contract!Abandon(w)
  <2>1. Executing[w] = held[w] /\ held[w] # NoJob
    BY <1>5, StoreAssumption DEF Finish, FinishFail, HandsMatchPc, InHandPcs, Executing
  <2>2. Executing' = [Executing EXCEPT ![w] = NoJob]
    BY <1>5 DEF Finish, FinishFail, GoTo, Executing, WorkerTypeOK
  <2> QED
    BY <1>5, <2>1, <2>2
    DEF Finish, FinishFail, SetStatus, pgVars, Contract!Complete, Contract!Abandon
<1>6. ASSUME NEW w \in Workers, Crash(w)
      PROVE  Contract!Abandon(w) \/ UNCHANGED <<status, Executing>>
  <2>1. CASE wpc[w] = "work"
    <3>1. Executing[w] = held[w] /\ held[w] # NoJob
      BY <2>1, StoreAssumption DEF HandsMatchPc, InHandPcs, Executing
    <3>2. Executing' = [Executing EXCEPT ![w] = NoJob]
      BY <1>6 DEF Crash, GoTo, Hold, Executing, WorkerTypeOK
    <3> QED
      BY <1>6, <3>1, <3>2 DEF Crash, pgVars, Contract!Abandon
  <2>2. CASE wpc[w] # "work"
    BY <1>6, <2>2, ExecutingUnchanged DEF Crash, GoTo, Hold, pgVars
  <2> QED
    BY <2>1, <2>2
<1>7. ASSUME NEW w \in Workers,
             \/ Start(w) \/ Stop(w) \/ Exit(w) \/ Connect(w) \/ Drain(w)
             \/ DrainFail(w) \/ EnterLoop(w) \/ Blmove(w) \/ BlmoveFail(w)
             \/ ClaimTimeout(w) \/ Ack(w) \/ AckFail(w) \/ Release(w)
             \/ ReleaseFail(w) \/ Repush(w) \/ RepushFail(w)
      PROVE  UNCHANGED <<status, Executing>>
  <2>1. UNCHANGED status
    BY <1>7 DEF Start, Stop, Exit, Connect, Drain, DrainFail, EnterLoop, Blmove, BlmoveFail,
                ClaimTimeout, Ack, AckFail, Release, ReleaseFail, Repush, RepushFail, pgVars
  <2>2. \/ UNCHANGED <<wpc, held>>
        \/ /\ wpc[w] # "work"
           /\ \E pc \in Pcs \ {"work"} : wpc' = [wpc EXCEPT ![w] = pc]
           /\ \E h : held' = [held EXCEPT ![w] = h]
    <3>1. held = [held EXCEPT ![w] = held[w]]
      BY DEF WorkerTypeOK
    <3> QED
      BY <1>7, <3>1
      DEF Start, Stop, Exit, Connect, Drain, DrainFail, EnterLoop, Blmove, BlmoveFail,
          ClaimTimeout, Ack, AckFail, Release, ReleaseFail, Repush, RepushFail,
          GoTo, Hold, NextIteration, Pcs
  <2>3. UNCHANGED Executing
    BY <2>2, ExecutingUnchanged DEF Executing
  <2> QED
    BY <2>1, <2>3
<1>8. ASSUME UNCHANGED workerVars,
             \/ \E s \in Sweepers : SweepSelect(s) \/ SweepStep(s) \/ SweepAbort(s)
             \/ \E j \in Jobs : EnqueueJob(j) \/ Age(j)
      PROVE  UNCHANGED <<status, wpc, held>>
  BY <1>8 DEF SweepSelect, SweepStep, SweepPush, SweepTouch, SweepTimeout, SweepCommit,
              SweepAbort, EndSweep, EnqueueJob, Age, pgVars, workerVars
<1>9. CASE UNCHANGED vars
  BY <1>1, <1>9 DEF vars, pgVars, workerVars
<1>10. CASE ApiNext /\ UNCHANGED workerVars
  BY <1>1, <1>2, <1>8, <1>10 DEF ApiNext, Contract!ContractNext
<1>11. CASE \E j \in Jobs : Age(j) /\ UNCHANGED <<apiVars, workerVars>>
  BY <1>1, <1>8, <1>11
<1>12. ASSUME NEW w \in Workers, Start(w) \/ WorkerStep(w) \/ WorkerFault(w)
       PROVE  [Contract!ContractNext]_(Contract!contractVars)
  <2>1. held[w] \in Jobs \/ wpc[w] # "claim"
    BY DEF HandsMatchPc, InHandPcs
  <2> QED
    BY <1>3, <1>4, <1>5, <1>6, <1>7, <1>12, <2>1
    DEF WorkerStep, WorkerFault, Claim, ClaimFail, Contract!ContractNext, Contract!contractVars
<1> QED
  BY <1>9, <1>10, <1>11, <1>12 DEF Next, WorkerNext

\* The pipeline, whatever fails, implements the contract of the job service.
THEOREM PipelineImplementsContract == Spec => ImplementsContract
<1>1. IndInv /\ [Next]_vars => [Contract!ContractNext]_(Contract!contractVars)
  BY ContractStep
<1> QED
  BY <1>1, ContractInitial, Invariance, PTL DEF Spec, ImplementsContract, Contract!ContractSpec
=============================================================================
