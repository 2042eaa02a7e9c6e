------------------------------ MODULE WorkerProbe ------------------------------
(***************************************************************************)
(* The worker's heartbeat (app/worker/worker.py) and the kubelet's probes   *)
(* of it (charts/shop/templates/deployment-worker.yaml), with time.  The     *)
(* file is touched once per iteration, so an iteration whose calls all run   *)
(* into their timeouts races the age at which the container is killed.       *)
(* /tmp is a volume of the pod: the file outlives the container.             *)
(***************************************************************************)
EXTENDS Naturals

CONSTANTS               \* all in seconds, but the two counts
    RedisConnect,       \* socket_connect_timeout
    RedisReply,         \* socket_timeout, of every single reply
    Handshake,          \* replies to a new connection before the command's own
    PgConnect,          \* connect_timeout
    PgStatement,        \* statement_timeout, of every single statement
    WorkMax,            \* the time.sleep(0.25) of the work, rounded up
    ErrorPause,         \* time.sleep(2) after an error
    ConnectPause,       \* time.sleep(3) after a failed start
    StartupPeriod, StartupFailures,
    LivePeriod, LiveFailures,
    MaxAge              \* the liveness command's -lt 30

ASSUME ProbeAssumption ==
    /\ {RedisConnect, RedisReply, PgConnect, PgStatement} \subseteq Nat \ {0}
    /\ {WorkMax, ErrorPause, ConnectPause} \subseteq Nat \ {0}
    /\ {StartupPeriod, StartupFailures, LivePeriod, LiveFailures, MaxAge} \subseteq Nat \ {0}
    /\ Handshake \in Nat

VARIABLES
    pc,             \* the call the worker is in
    spent,          \* how long it has been in it; not counted when it hangs
    connected,      \* the Redis client holds an open connection
    hung,           \* the call will never return
    age,            \* age of the heartbeat file, counted up to Patience
    file,           \* "none", "old" (an earlier container's) or "own"
    started,        \* the startup probe has succeeded
    wait,           \* time to the next probe
    fails,          \* failures in a row
    up,             \* history: age of the container, until its first touch
    troubled        \* history: since the last touch, a Redis call without a
                    \* connection, or the release of a job already worked on

workerVars == <<pc, spent, connected, hung>>
fileVars == <<age, file>>
kubeletVars == <<started, wait, fails>>
vars == <<workerVars, fileVars, kubeletVars, up, troubled>>

Connecting == {"schema", "ping", "orphans", "retry"}
Looping == {"touch", "blmove", "claim", "work", "complete", "ack", "lrem", "rpush", "pause"}
RedisCalls == {"ping", "orphans", "blmove", "ack", "lrem", "rpush"}

\* The time from the first to the last failure of a probe.
StartupGrace == (StartupFailures - 1) * StartupPeriod
LiveGrace == (LiveFailures - 1) * LivePeriod

\* How old a file the probe has found fresh can be when the probe kills.
Patience == MaxAge + LiveGrace

\* The longest each kind of call can take, every reply and every statement with a
\* timeout of its own: BEGIN, UPDATE and COMMIT or ROLLBACK; BEGIN, the two
\* CREATE TABLE, COMMIT.
Reconnection == RedisConnect + (Handshake + 1) * RedisReply
Transaction == PgConnect + 3 * PgStatement
SchemaTransaction == PgConnect + 4 * PgStatement

\* From one touch to the next with a Redis connection that lasts: a job that is
\* completed, and a claim that fails and whose job is released.
CompleteIteration == RedisReply + Transaction + WorkMax + Transaction + RedisReply
ReleaseIteration == RedisReply + Transaction + RedisReply + RedisReply + ErrorPause

\* What the timeouts of the worker and the numbers of the chart owe each other.
ASSUME TuningAssumption ==
    /\ CompleteIteration < Patience
    /\ ReleaseIteration < Patience
    /\ LivePeriod < MaxAge
    /\ LiveGrace <= StartupGrace

TypeOK ==
    /\ pc \in Connecting \cup Looping \cup {"down"}
    /\ spent \in 0..(Reconnection + SchemaTransaction + WorkMax + ErrorPause + ConnectPause)
    /\ connected \in BOOLEAN /\ hung \in BOOLEAN
    /\ started \in BOOLEAN /\ troubled \in BOOLEAN
    /\ age \in 0..Patience
    /\ file \in {"none", "old", "own"}
    /\ wait \in 0..(StartupPeriod + LivePeriod)
    /\ fails \in 0..((IF started THEN LiveFailures ELSE StartupFailures) - 1)
    /\ up \in 0..StartupGrace

Init ==
    /\ pc = "schema" /\ spent = 0 /\ connected = FALSE /\ hung = FALSE
    /\ age = 0 /\ file = "none"
    /\ started = FALSE /\ wait \in 0..StartupPeriod /\ fails = 0
    /\ up = 0 /\ troubled = FALSE

-----------------------------------------------------------------------------
(* The worker *)

\* The longest the call can take before it returns or raises.
Timeout ==
    CASE pc \in RedisCalls -> IF connected THEN RedisReply ELSE Reconnection
      [] pc = "schema" -> SchemaTransaction
      [] pc \in {"claim", "complete"} -> Transaction
      [] pc = "work" -> WorkMax
      [] pc = "pause" -> ErrorPause
      [] pc = "retry" -> ConnectPause
      [] OTHER -> 0

\* What the numbers leave no time for, besides a hung call.
Troubles(to, connects) ==
    \/ to \in RedisCalls /\ ~connects
    \/ pc \in {"complete", "ack"} /\ to = "lrem"

\* A call returns at any moment up to its timeout, a sleep at its end.
Go(to, connects) ==
    /\ ~hung
    /\ pc \in {"pause", "retry"} => spent = Timeout
    /\ pc' = to
    /\ spent' = 0
    /\ connected' = connects
    /\ troubled' = (pc \in Looping /\ (troubled \/ Troubles(to, connects)))
    /\ UNCHANGED <<hung, fileVars, kubeletVars, up>>

\* Redis answers; or the client drops its connection, or has an error reply on it.
Answered(to) == Go(to, connected \/ pc \in RedisCalls)
Failed(to) ==
    IF pc \in RedisCalls THEN Go(to, TRUE) \/ Go(to, FALSE) ELSE Go(to, connected)

\* The server closes an idle connection; the next command opens another.
LoseConnection ==
    /\ connected /\ ~hung
    /\ pc \in RedisCalls => spent = 0
    /\ connected' = FALSE
    /\ troubled' = (troubled \/ pc \in RedisCalls \cap Looping)
    /\ UNCHANGED <<pc, spent, hung, fileVars, kubeletVars, up>>

\* ensure_schema(), ping(), requeue_orphans(): one LMOVE per orphan and one more.
Connect ==
    \/ pc = "schema" /\ Answered("ping")
    \/ pc = "ping" /\ Answered("orphans")
    \/ pc = "orphans" /\ (Answered("orphans") \/ Answered("touch"))
    \/ pc \in Connecting \ {"retry"} /\ Failed("retry")
    \/ pc = "retry" /\ Answered("schema")

\* The mutant of Touch: an existing file is left alone.
Touch_Once ==
    /\ pc = "touch"
    /\ pc' = "blmove"
    /\ file' = "own" /\ up' = 0
    /\ age' = IF file = "own" THEN age ELSE 0
    /\ troubled' = ~connected
    /\ UNCHANGED <<spent, connected, hung, kubeletVars>>

\* HEARTBEAT.touch().
Touch ==
    /\ pc = "touch"
    /\ pc' = "blmove"
    /\ file' = "own" /\ age' = 0 /\ up' = 0
    /\ troubled' = ~connected
    /\ UNCHANGED <<spent, connected, hung, kubeletVars>>

\* The rest of an iteration: nothing queued, a job, or a refused claim; and the
\* except branch, which releases only a job that is in hand.
Iterate ==
    \/ pc = "blmove" /\ (Answered("touch") \/ Answered("claim") \/ Failed("pause"))
    \/ pc = "claim" /\ (Answered("work") \/ Answered("ack"))
    \/ pc = "work" /\ Answered("complete")
    \/ pc = "complete" /\ Answered("ack")
    \/ pc = "ack" /\ Answered("touch")
    \/ pc \in {"claim", "complete", "ack"} /\ Failed("lrem")
    \/ pc = "lrem" /\ (Answered("rpush") \/ Answered("pause") \/ Failed("pause"))
    \/ pc = "rpush" /\ (Answered("pause") \/ Failed("pause"))
    \/ pc = "pause" /\ Answered("touch")

\* No timeout covers a call: a host that vanishes in the middle of a statement.
Hang ==
    /\ pc \notin {"down", "touch", "work", "pause", "retry"}
    /\ hung' = TRUE /\ spent' = 0
    /\ UNCHANGED <<pc, connected, fileVars, kubeletVars, up, troubled>>

-----------------------------------------------------------------------------
(* The kubelet *)

\* A crash ends the process as a kill does.
Down ==
    /\ pc' = "down" /\ spent' = 0 /\ connected' = FALSE /\ hung' = FALSE
    /\ troubled' = FALSE

Crash ==
    /\ pc # "down"
    /\ Down
    /\ UNCHANGED <<fileVars, kubeletVars, up>>

\* The mutant of FailedProbe: it takes one failure more than the threshold.
FailedProbe_OneMore(limit, period) ==
    /\ IF fails + 1 > limit
         THEN Down /\ fails' = 0
         ELSE UNCHANGED <<workerVars, troubled>> /\ fails' = fails + 1
    /\ wait' = period
    /\ UNCHANGED <<fileVars, started, up>>

\* One more failure; the last one kills the container.
FailedProbe(limit, period) ==
    /\ IF fails + 1 = limit
         THEN Down /\ fails' = 0
         ELSE UNCHANGED <<workerVars, troubled>> /\ fails' = fails + 1
    /\ wait' = period
    /\ UNCHANGED <<fileVars, started, up>>

\* test -f.  The liveness probe has a rhythm of its own.
StartupProbe ==
    /\ pc # "down" /\ ~started /\ wait = 0
    /\ \/ /\ file = "none"
          /\ FailedProbe(StartupFailures, StartupPeriod)
       \/ /\ file # "none"
          /\ started' = TRUE /\ fails' = 0 /\ wait' \in 0..LivePeriod
          /\ UNCHANGED <<workerVars, fileVars, up, troubled>>

\* The mutant of Fresh: the file only has to exist.
Fresh_Exists == file # "none"

\* test $(( now - mtime )) -lt 30.
Fresh == age < MaxAge

LivenessProbe ==
    /\ pc # "down" /\ started /\ wait = 0
    /\ \/ ~Fresh /\ FailedProbe(LiveFailures, LivePeriod)
       \/ /\ Fresh
          /\ fails' = 0 /\ wait' = LivePeriod
          /\ UNCHANGED <<workerVars, fileVars, started, up, troubled>>

\* The mutant of Restart: the failures of the last container are counted on.
Restart_KeepsFails ==
    /\ pc = "down"
    /\ pc' = "schema"
    /\ \/ file' = "none" /\ age' = 0
       \/ file' = (IF file = "none" THEN "none" ELSE "old") /\ UNCHANGED age
    /\ started' = FALSE /\ wait' \in 0..StartupPeriod /\ up' = 0
    /\ UNCHANGED <<spent, connected, hung, fails, troubled>>

\* A new container in the same pod, with the file of the last one, or a new pod.
Restart ==
    /\ pc = "down"
    /\ pc' = "schema"
    /\ \/ file' = "none" /\ age' = 0
       \/ file' = (IF file = "none" THEN "none" ELSE "old") /\ UNCHANGED age
    /\ started' = FALSE /\ wait' \in 0..StartupPeriod /\ fails' = 0 /\ up' = 0
    /\ UNCHANGED <<spent, connected, hung, troubled>>

-----------------------------------------------------------------------------
\* A second passes: not past the timeout of a call, nor past a probe.
Tick ==
    /\ pc # "down" => wait > 0 /\ (hung \/ spent < Timeout)
    /\ spent' = IF hung \/ pc = "down" THEN spent ELSE spent + 1
    /\ age' = IF file = "none" \/ age = Patience THEN age ELSE age + 1
    /\ wait' = IF pc = "down" THEN wait ELSE wait - 1
    /\ up' = IF pc = "down" \/ file = "own" \/ up = StartupGrace THEN up ELSE up + 1
    /\ UNCHANGED <<pc, connected, hung, file, started, fails, troubled>>

Next ==
    \/ Connect \/ Touch \/ Iterate \/ LoseConnection \/ Hang
    \/ Crash \/ StartupProbe \/ LivenessProbe \/ Restart
    \/ Tick

Spec == Init /\ [][Next]_vars

\* Time passes, and the kubelet probes and restarts.
FairSpec == Spec /\ WF_vars(Tick) /\ WF_vars(StartupProbe \/ LivenessProbe) /\ WF_vars(Restart)

-----------------------------------------------------------------------------
(* Properties *)

Kill == (StartupProbe \/ LivenessProbe) /\ pc' = "down"

\* A worker that has touched its heartbeat is not killed before Patience, whatever
\* failures were counted before; and if it has not touched it for that long, a call
\* hangs, or Redis was reached anew since, or a job released after its work.  A
\* PostgreSQL that is slow, or down, does not get the worker killed.
CalmNeverKilled == [][Kill /\ file = "own" => age = Patience /\ (hung \/ troubled)]_vars

\* A worker that cannot reach its loop has the two minutes of the startup probe in
\* a new pod; a restarted container, whose startup probe is satisfied by the file
\* of the last one, still has the liveness probe's twenty seconds.
GraceToConnect ==
    [][Kill /\ file # "own" => up >= IF file = "none" THEN StartupGrace ELSE LiveGrace]_vars

\* A hung worker is ended, whichever call it hangs in.
HungIsEnded == hung ~> ~hung
=============================================================================
