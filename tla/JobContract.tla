------------------------------ MODULE JobContract ------------------------------
(***************************************************************************)
(* What the job service promises to a client that only reads               *)
(* GET /api/jobs/{id}, and to whoever runs the jobs: an accepted job moves  *)
(* forward only, it is complete only because some execution of it finished, *)
(* and no execution begins once it is complete.  An execution may be        *)
(* abandoned and begun again any number of times.                           *)
(***************************************************************************)
CONSTANTS Jobs, Workers, NoJob

VARIABLES
    seen,           \* the status a GET would answer
    exec            \* the job each worker is executing, or NoJob

contractVars == <<seen, exec>>

ContractInit ==
    /\ seen = [j \in Jobs |-> "none"]
    /\ exec = [w \in Workers |-> NoJob]

Accept(j) ==
    /\ seen[j] = "none"
    /\ seen' = [seen EXCEPT ![j] = "pending"]
    /\ UNCHANGED exec

\* The job is claimed; the claimant may fail to learn that it was.
Begin(w, j) ==
    /\ seen[j] \in {"pending", "running"}
    /\ exec[w] = NoJob
    /\ seen' = [seen EXCEPT ![j] = "running"]
    /\ exec' \in {exec, [exec EXCEPT ![w] = j]}

Complete(w) ==
    /\ exec[w] # NoJob
    /\ seen' = [seen EXCEPT ![exec[w]] = "complete"]
    /\ exec' = [exec EXCEPT ![w] = NoJob]

Abandon(w) ==
    /\ exec[w] # NoJob
    /\ exec' = [exec EXCEPT ![w] = NoJob]
    /\ UNCHANGED seen

ContractNext ==
    \/ \E j \in Jobs : Accept(j)
    \/ \E w \in Workers : Complete(w) \/ Abandon(w) \/ \E j \in Jobs : Begin(w, j)

ContractSpec == ContractInit /\ [][ContractNext]_contractVars
=============================================================================
