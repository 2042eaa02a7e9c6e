--------------------------- MODULE WorkerProbeProofs ---------------------------
(***************************************************************************)
(* Theorems about the heartbeat and the probes, for all timeouts and probe   *)
(* settings that satisfy TuningAssumption.                                  *)
(***************************************************************************)
EXTENDS WorkerProbe, TLAPS

-----------------------------------------------------------------------------
(* The inductive invariant *)

\* The time from the last touch to the start of the present call, at most, as long
\* as there was no trouble.
Start ==
    CASE pc = "touch" -> Patience - 1
      [] pc = "blmove" -> 0
      [] pc = "claim" -> RedisReply
      [] pc \in {"work", "lrem"} -> RedisReply + Transaction
      [] pc = "complete" -> RedisReply + Transaction + WorkMax
      [] pc = "ack" -> RedisReply + Transaction + WorkMax + Transaction
      [] pc = "rpush" -> RedisReply + Transaction + RedisReply
      [] pc = "pause" -> RedisReply + Transaction + RedisReply + RedisReply
      [] OTHER -> 0

\* No call outlives its timeout; a hung one is not counted.
SpentInTime == spent <= Timeout

\* A Redis call without a connection is trouble.
CalmIsConnected == pc \in RedisCalls \cap Looping /\ ~troubled => connected

ConnectingIsUntouched == pc \in Connecting => file # "own"
StartedHasFile == started => file # "none"
WaitInPeriod == wait <= (IF started THEN LivePeriod ELSE StartupPeriod)

\* A failure counted before the touch is forgotten before the file can be stale.
FailuresForgotten ==
    started /\ pc # "down" /\ fails > 0 /\ age < MaxAge => age + wait <= LivePeriod

\* The others were a period apart, the first of them on a stale file.
FailuresAreAge ==
    started /\ pc # "down" /\ fails > 0 /\ age >= MaxAge =>
        age = Patience \/ MaxAge + fails * LivePeriod <= age + wait

AgeInTime ==
    file = "own" /\ pc # "down" /\ ~hung /\ ~troubled => age <= Start + spent

\* Failures before the first touch take their time.
GraceCounted ==
    pc # "down" /\ file # "own" /\ up < StartupGrace =>
        fails * (IF started THEN LivePeriod ELSE StartupPeriod) <= up + wait

IndInv ==
    /\ TypeOK
    /\ SpentInTime /\ CalmIsConnected /\ ConnectingIsUntouched
    /\ StartedHasFile /\ WaitInPeriod /\ FailuresForgotten
    /\ FailuresAreAge /\ AgeInTime /\ GraceCounted

-----------------------------------------------------------------------------
(* Numbers *)

LEMMA ProductInNat ==
    ASSUME NEW m \in Nat, NEW n \in Nat
    PROVE  m * n \in Nat /\ 0 * n = 0 /\ (m + 1) * n = m * n + n
  OBVIOUS

LEMMA SumInNat ==
    ASSUME NEW m \in Nat, NEW n \in Nat
    PROVE  0 <= m + n
  OBVIOUS

LEMMA Durations ==
    /\ RedisReply \in Nat \ {0} /\ Reconnection \in Nat \ {0}
    /\ Transaction \in Nat \ {0} /\ SchemaTransaction \in Nat \ {0}
    /\ WorkMax \in Nat \ {0} /\ ErrorPause \in Nat \ {0} /\ ConnectPause \in Nat \ {0}
    /\ StartupPeriod \in Nat \ {0} /\ StartupFailures \in Nat \ {0}
    /\ LivePeriod \in Nat \ {0} /\ LiveFailures \in Nat \ {0} /\ MaxAge \in Nat \ {0}
<1>1. (Handshake + 1) * RedisReply \in Nat
  <2>1. Handshake + 1 \in Nat /\ RedisReply \in Nat
    BY ProbeAssumption
  <2> QED
    BY <2>1, ProductInNat
<1>2. Reconnection \in Nat \ {0}
  BY <1>1, ProbeAssumption DEF Reconnection
<1>3. Transaction \in Nat \ {0} /\ SchemaTransaction \in Nat \ {0}
  BY ProbeAssumption DEF Transaction, SchemaTransaction
<1> QED
  BY <1>2, <1>3, ProbeAssumption

LEMMA Graces ==
    /\ StartupGrace \in Nat /\ LiveGrace \in Nat
    /\ Patience \in Nat /\ MaxAge <= Patience
<1>1. StartupFailures - 1 \in Nat /\ StartupPeriod \in Nat
  BY Durations
<1>2. LiveFailures - 1 \in Nat /\ LivePeriod \in Nat
  BY Durations
<1>3. StartupGrace \in Nat /\ LiveGrace \in Nat
  BY <1>1, <1>2, ProductInNat DEF StartupGrace, LiveGrace
<1> QED
  BY <1>3, Durations DEF Patience

LEMMA Clocks ==
    ASSUME TypeOK
    PROVE  /\ spent \in Nat /\ age \in Nat /\ age <= Patience /\ wait \in Nat
           /\ fails \in Nat /\ up \in Nat /\ up <= StartupGrace
           /\ fails * LivePeriod \in Nat /\ fails * StartupPeriod \in Nat
           /\ started => fails + 1 <= LiveFailures
           /\ ~started => fails + 1 <= StartupFailures
<1>1. spent \in Nat /\ wait \in Nat
  BY Durations DEF TypeOK
<1>2. age \in Nat /\ age <= Patience /\ up \in Nat /\ up <= StartupGrace
  BY Durations, Graces DEF TypeOK
<1>3. /\ fails \in Nat
      /\ started => fails + 1 <= LiveFailures
      /\ ~started => fails + 1 <= StartupFailures
  BY Durations DEF TypeOK
<1>4. fails * LivePeriod \in Nat /\ fails * StartupPeriod \in Nat
  BY <1>3, Durations, ProductInNat
<1> QED
  BY <1>1, <1>2, <1>3, <1>4

LEMMA Timeouts ==
    /\ Timeout \in 0..(Reconnection + SchemaTransaction + WorkMax + ErrorPause + ConnectPause)
    /\ Start \in Nat
<1>1. Timeout \in 0..(Reconnection + SchemaTransaction + WorkMax + ErrorPause + ConnectPause)
  <2>1. RedisReply <= Reconnection
    <3>1. /\ Handshake * RedisReply \in Nat
          /\ (Handshake + 1) * RedisReply = Handshake * RedisReply + RedisReply
      BY ProbeAssumption, ProductInNat
    <3> QED
      BY <3>1, ProbeAssumption DEF Reconnection
  <2>2. Transaction <= SchemaTransaction
    BY ProbeAssumption DEF Transaction, SchemaTransaction
  <2>3. Timeout \in {0, RedisReply, Reconnection, SchemaTransaction, Transaction, WorkMax,
                     ErrorPause, ConnectPause}
    BY DEF Timeout
  <2> QED
    BY <2>1, <2>2, <2>3, Durations
<1>2. Start \in Nat
  BY Durations, Graces DEF Start
<1> QED
  BY <1>1, <1>2

\* Both kinds of iteration end in time.
LEMMA IterationEnds ==
    ASSUME pc \in Looping, ~troubled, CalmIsConnected
    PROVE  Start + Timeout < Patience
<1> USE Durations, Graces, TuningAssumption
    DEF Start, Timeout, CompleteIteration, ReleaseIteration, RedisCalls, CalmIsConnected, Looping
<1>1. CASE pc \in {"touch", "blmove", "claim", "work", "complete", "ack"}
  BY <1>1
<1>2. CASE pc \in {"lrem", "rpush", "pause"}
  BY <1>2
<1> QED
  BY <1>1, <1>2

-----------------------------------------------------------------------------
(* The worker *)

\* A call returns, and the next one is later than it by no more than its timeout.
LEMMA GoPreserves ==
    ASSUME IndInv, NEW to \in Connecting \cup Looping, NEW connects \in BOOLEAN, Go(to, connects),
           pc # "down", to \in Connecting => pc \in Connecting,
           pc \in Connecting => to \in Connecting \cup {"touch"},
           pc \notin Connecting /\ ~troubled' => Start + Timeout <= Start'
    PROVE  IndInv'
<1>1. /\ pc' = to /\ spent' = 0 /\ ~hung /\ connected' = connects
      /\ troubled' = (pc \in Looping /\ (troubled \/ Troubles(to, connects)))
      /\ UNCHANGED <<hung, age, file, started, wait, fails, up>>
  BY DEF Go, fileVars, kubeletVars
<1>2. TypeOK'
  <2>1. troubled' \in BOOLEAN
    BY <1>1
  <2> QED
    BY <1>1, <2>1, Durations DEF IndInv, TypeOK
<1>3. /\ spent \in Nat /\ Start \in Nat /\ Timeout \in Nat
      /\ age \in Nat /\ spent <= Timeout
  BY Clocks, Timeouts, Durations DEF IndInv, SpentInTime
<1>4. Timeout' \in Nat /\ Start' \in Nat
  BY Durations, Graces DEF Timeout, Start
<1>5. SpentInTime' /\ ConnectingIsUntouched' /\ StartedHasFile' /\ WaitInPeriod'
  BY <1>1, <1>4 DEF IndInv, SpentInTime, ConnectingIsUntouched, StartedHasFile, WaitInPeriod
<1>6. CalmIsConnected'
  <2>1. pc \in Connecting \cup Looping
    BY DEF IndInv, TypeOK
  <2>2. pc \in Connecting => to \notin RedisCalls \cap Looping
    BY DEF Connecting, Looping, RedisCalls
  <2> QED
    BY <1>1, <2>1, <2>2 DEF CalmIsConnected, Troubles
<1>7. FailuresForgotten' /\ FailuresAreAge' /\ GraceCounted'
  BY <1>1 DEF IndInv, FailuresForgotten, FailuresAreAge, GraceCounted
<1>8. AgeInTime'
  <2> SUFFICES ASSUME file = "own", ~troubled'
               PROVE  age <= Start'
    BY <1>1, <1>4 DEF AgeInTime
  <2>1. pc \in Looping /\ pc \notin Connecting
    BY DEF IndInv, TypeOK, ConnectingIsUntouched
  <2>2. ~troubled
    BY <1>1, <2>1
  <2>3. Start + spent <= Start'
    BY <1>3, <1>4, <2>1
  <2>4. age <= Start + spent
    BY <1>1, <2>2 DEF IndInv, AgeInTime
  <2> QED
    BY <1>3, <1>4, <2>3, <2>4
<1> QED
  BY <1>2, <1>5, <1>6, <1>7, <1>8 DEF IndInv

LEMMA ConnectPreserves ==
    ASSUME IndInv, Connect
    PROVE  IndInv'
<1>1. PICK to \in Connecting \cup {"touch"} : Answered(to) \/ Failed(to)
  BY DEF Connect, Connecting
<1>2. pc \in Connecting
  BY DEF Connect, Connecting
<1>3. PICK connects \in BOOLEAN : Go(to, connects)
  BY <1>1 DEF Answered, Failed, IndInv, TypeOK
<1>4. to \in Connecting \cup Looping
  BY DEF Looping
<1>5. pc # "down"
  BY <1>2 DEF Connecting
<1> QED
  BY <1>2, <1>3, <1>4, <1>5, GoPreserves

\* Each way through the iteration and its except branch leaves the time of one
\* more call, unless it is trouble.
LEMMA IteratePreserves ==
    ASSUME IndInv, Iterate
    PROVE  IndInv'
<1>1. PICK to \in Looping : Answered(to) \/ Failed(to)
  BY DEF Iterate, Looping
<1>2. PICK connects \in BOOLEAN : Go(to, connects)
  BY <1>1 DEF Answered, Failed, IndInv, TypeOK
<1>3. pc \in Looping /\ pc # "down" /\ pc \notin Connecting /\ pc' = to
  BY <1>2 DEF Iterate, Go, Looping, Connecting
<1>4. to \notin Connecting
  BY DEF Looping, Connecting
<1>5. ASSUME ~troubled' PROVE Start + Timeout <= Start'
  <2>1. ~troubled /\ ~(pc \in {"complete", "ack"} /\ pc' = "lrem")
    BY <1>2, <1>3, <1>5 DEF Go, Troubles
  <2>2. pc \in RedisCalls => connected
    BY <1>3, <2>1 DEF IndInv, CalmIsConnected
  <2>3. Start + Timeout < Patience
    BY <1>3, <2>1, IterationEnds DEF IndInv
  <2>4. CASE pc' = "touch"
    BY <2>3, <2>4, Timeouts, Graces DEF Start
  <2>5. CASE pc' # "touch"
    <3> USE Durations, <2>5 DEF Start, Timeout, RedisCalls
    <3>1. CASE pc = "blmove" /\ pc' \in {"claim", "pause"}
      BY <2>2, <3>1
    <3>2. CASE pc = "claim" /\ pc' \in {"work", "ack", "lrem"}
      BY <3>2
    <3>3. CASE pc = "work" /\ pc' = "complete"
      BY <3>3
    <3>4. CASE pc = "complete" /\ pc' = "ack"
      BY <3>4
    <3>5. CASE pc = "lrem" /\ pc' \in {"rpush", "pause"}
      BY <2>2, <3>5
    <3>6. CASE pc = "rpush" /\ pc' = "pause"
      BY <2>2, <3>6
    <3> QED
      BY <2>1, <3>1, <3>2, <3>3, <3>4, <3>5, <3>6 DEF Iterate, Answered, Failed, Go
  <2> QED
    BY <2>4, <2>5
<1> QED
  BY <1>2, <1>3, <1>4, <1>5, GoPreserves

LEMMA TouchPreserves ==
    ASSUME IndInv, Touch
    PROVE  IndInv'
<1>1. /\ pc = "touch" /\ pc' = "blmove" /\ file' = "own" /\ age' = 0 /\ up' = 0
      /\ troubled' = ~connected
      /\ UNCHANGED <<spent, connected, hung, started, wait, fails>>
  BY DEF Touch, kubeletVars
<1>2. TypeOK'
  BY <1>1, Durations, Graces DEF IndInv, TypeOK, Looping
<1>3. spent = 0 /\ Timeout' \in Nat /\ Start' = 0
  <2>1. Timeout = 0
    BY <1>1 DEF Timeout, RedisCalls
  <2>2. Timeout' \in Nat /\ Start' = 0
    BY <1>1, Durations DEF Timeout, Start
  <2> QED
    BY <2>1, <2>2, Clocks DEF IndInv, SpentInTime
<1>4. SpentInTime' /\ CalmIsConnected' /\ ConnectingIsUntouched' /\ StartedHasFile' /\ WaitInPeriod'
  <2>1. SpentInTime'
    BY <1>1, <1>3 DEF SpentInTime
  <2>2. CalmIsConnected'
    <3>1. ~troubled' => connected'
      BY <1>1
    <3> QED
      BY <3>1 DEF CalmIsConnected
  <2>3. ConnectingIsUntouched' /\ StartedHasFile' /\ WaitInPeriod'
    BY <1>1 DEF IndInv, ConnectingIsUntouched, StartedHasFile, WaitInPeriod, Connecting
  <2> QED
    BY <2>1, <2>2, <2>3
<1>5. FailuresForgotten' /\ GraceCounted'
  BY <1>1, Clocks DEF IndInv, FailuresForgotten, GraceCounted, WaitInPeriod
<1>6. FailuresAreAge'
  <2>1. ~(age' >= MaxAge)
    BY <1>1, Durations
  <2> QED
    BY <2>1 DEF FailuresAreAge
<1>7. AgeInTime'
  BY <1>1, <1>3 DEF AgeInTime
<1> QED
  BY <1>2, <1>4, <1>5, <1>6, <1>7 DEF IndInv

LEMMA LoseConnectionPreserves ==
    ASSUME IndInv, LoseConnection
    PROVE  IndInv'
<1>1. /\ connected' = FALSE
      /\ pc \in RedisCalls => spent = 0
      /\ troubled' = (troubled \/ pc \in RedisCalls \cap Looping)
      /\ UNCHANGED <<pc, spent, hung, age, file, started, wait, fails, up>>
  BY DEF LoseConnection, fileVars, kubeletVars
<1>2. troubled' \in BOOLEAN
  BY <1>1
<1>3. TypeOK'
  BY <1>1, <1>2 DEF IndInv, TypeOK
<1>4. SpentInTime'
  <2>1. CASE pc \in RedisCalls
    BY <1>1, <2>1, Durations DEF SpentInTime, Timeout
  <2>2. CASE pc \notin RedisCalls
    BY <1>1, <2>2 DEF IndInv, SpentInTime, Timeout
  <2> QED
    BY <2>1, <2>2
<1>5. CalmIsConnected' /\ ConnectingIsUntouched' /\ StartedHasFile' /\ WaitInPeriod'
  BY <1>1 DEF IndInv, CalmIsConnected, ConnectingIsUntouched, StartedHasFile, WaitInPeriod
<1>6. FailuresForgotten' /\ FailuresAreAge' /\ GraceCounted'
  BY <1>1 DEF IndInv, FailuresForgotten, FailuresAreAge, GraceCounted
<1>7. AgeInTime'
  <2>1. Start' = Start
    BY <1>1 DEF Start
  <2> QED
    BY <1>1, <2>1 DEF IndInv, AgeInTime
<1> QED
  BY <1>3, <1>4, <1>5, <1>6, <1>7 DEF IndInv

LEMMA HangPreserves ==
    ASSUME IndInv, Hang
    PROVE  IndInv'
<1>1. /\ hung' = TRUE /\ spent' = 0
      /\ UNCHANGED <<pc, connected, age, file, started, wait, fails, up, troubled>>
  BY DEF Hang, fileVars, kubeletVars
<1>2. Timeout' \in Nat
  BY Durations DEF Timeout
<1>3. TypeOK'
  BY <1>1, Durations DEF IndInv, TypeOK
<1> QED
  BY <1>1, <1>2, <1>3
  DEF IndInv, SpentInTime, CalmIsConnected, ConnectingIsUntouched, StartedHasFile, WaitInPeriod,
      FailuresForgotten, FailuresAreAge, AgeInTime, GraceCounted

-----------------------------------------------------------------------------
(* The kubelet and the clock *)

\* A container that has ended asks for little.
LEMMA DownPreserves ==
    ASSUME IndInv, Down, UNCHANGED <<age, file, started, up>>,
           fails' \in {fails, 0},
           wait' \in Nat, wait' <= (IF started THEN LivePeriod ELSE StartupPeriod)
    PROVE  IndInv'
<1>1. pc' = "down" /\ spent' = 0 /\ connected' = FALSE /\ hung' = FALSE /\ troubled' = FALSE
  BY DEF Down
<1>2. wait' \in 0..(StartupPeriod + LivePeriod)
  BY Durations
<1>3. fails' \in 0..((IF started THEN LiveFailures ELSE StartupFailures) - 1)
  BY Durations DEF IndInv, TypeOK
<1>4. spent' \in 0..(Reconnection + SchemaTransaction + WorkMax + ErrorPause + ConnectPause)
  BY <1>1, Durations
<1>5. TypeOK'
  BY <1>1, <1>2, <1>3, <1>4 DEF IndInv, TypeOK
<1>6. Timeout' \in Nat
  BY Durations DEF Timeout
<1> QED
  BY <1>1, <1>5, <1>6
  DEF IndInv, SpentInTime, CalmIsConnected, ConnectingIsUntouched, StartedHasFile, WaitInPeriod,
      FailuresForgotten, FailuresAreAge, AgeInTime, GraceCounted, Connecting, Looping

LEMMA CrashPreserves ==
    ASSUME IndInv, Crash
    PROVE  IndInv'
<1>1. Down /\ UNCHANGED <<age, file, started, wait, fails, up>>
  BY DEF Crash, fileVars, kubeletVars
<1> QED
  BY <1>1, DownPreserves, Clocks DEF IndInv, WaitInPeriod

LEMMA RestartPreserves ==
    ASSUME IndInv, Restart
    PROVE  IndInv'
<1>1. /\ pc = "down" /\ pc' = "schema"
      /\ file' \in {"none", "old"} /\ age' \in {age, 0}
      /\ started' = FALSE /\ wait' \in 0..StartupPeriod /\ fails' = 0 /\ up' = 0
      /\ UNCHANGED <<spent, connected, hung, troubled>>
  BY DEF Restart
<1>2. TypeOK'
  <2>1. /\ wait' \in 0..(StartupPeriod + LivePeriod)
        /\ fails' \in 0..(StartupFailures - 1)
        /\ up' \in 0..StartupGrace
        /\ age' \in 0..Patience
    BY <1>1, Durations, Graces DEF IndInv, TypeOK
  <2> QED
    BY <1>1, <2>1 DEF IndInv, TypeOK, Connecting
<1>3. spent = 0 /\ Timeout' \in Nat /\ wait' \in Nat /\ wait' <= StartupPeriod
  <2>1. Timeout = 0
    BY <1>1 DEF Timeout, RedisCalls
  <2>2. Timeout' \in Nat
    BY Durations DEF Timeout
  <2> QED
    BY <1>1, <2>1, <2>2, Clocks, Durations DEF IndInv, SpentInTime
<1>4. GraceCounted'
  <2>1. 0 * StartupPeriod = 0
    BY Durations, ProductInNat
  <2>2. fails' * StartupPeriod = 0
    BY <1>1, <2>1
  <2>3. 0 <= up' + wait'
    <3>1. up' \in Nat /\ wait' \in Nat
      BY <1>1, <1>3
    <3> QED
      BY <3>1, SumInNat
  <2> QED
    BY <1>1, <2>2, <2>3 DEF GraceCounted
<1> QED
  BY <1>1, <1>2, <1>3, <1>4
  DEF IndInv, SpentInTime, CalmIsConnected, ConnectingIsUntouched, StartedHasFile, WaitInPeriod,
      FailuresForgotten, FailuresAreAge, AgeInTime, RedisCalls

LEMMA StartupProbePreserves ==
    ASSUME IndInv, StartupProbe
    PROVE  IndInv'
<1>1. pc # "down" /\ ~started /\ wait = 0
  BY DEF StartupProbe
<1>2. CASE file = "none" /\ FailedProbe(StartupFailures, StartupPeriod) /\ fails + 1 = StartupFailures
  BY <1>1, <1>2, DownPreserves, Durations DEF FailedProbe, fileVars
<1>3. CASE file = "none" /\ FailedProbe(StartupFailures, StartupPeriod) /\ fails + 1 # StartupFailures
  <2>1. /\ fails' = fails + 1 /\ wait' = StartupPeriod
        /\ UNCHANGED <<pc, spent, connected, hung, age, file, started, up, troubled>>
    BY <1>3 DEF FailedProbe, fileVars, workerVars
  <2>2. fails' \in 0..(StartupFailures - 1) /\ wait' \in 0..(StartupPeriod + LivePeriod)
    BY <1>1, <1>3, <2>1, Clocks, Durations DEF IndInv
  <2>3. TypeOK'
    BY <1>1, <2>1, <2>2 DEF IndInv, TypeOK
  <2>4. GraceCounted'
    <3> SUFFICES ASSUME up < StartupGrace
                 PROVE  (fails + 1) * StartupPeriod <= up + StartupPeriod
      BY <1>1, <2>1 DEF GraceCounted
    <3>1. fails * StartupPeriod <= up + wait
      BY <1>1, <1>3 DEF IndInv, GraceCounted
    <3>2. (fails + 1) * StartupPeriod = fails * StartupPeriod + StartupPeriod
      BY Clocks, Durations, ProductInNat DEF IndInv
    <3> QED
      BY <1>1, <3>1, <3>2, Clocks, Durations DEF IndInv
  <2>5. SpentInTime' /\ CalmIsConnected' /\ ConnectingIsUntouched' /\ StartedHasFile'
    BY <2>1 DEF IndInv, SpentInTime, Timeout, CalmIsConnected, ConnectingIsUntouched, StartedHasFile
  <2>6. WaitInPeriod' /\ FailuresForgotten' /\ FailuresAreAge' /\ AgeInTime'
    BY <1>1, <1>3, <2>1, Durations DEF WaitInPeriod, FailuresForgotten, FailuresAreAge, AgeInTime
  <2> QED
    BY <2>3, <2>4, <2>5, <2>6 DEF IndInv
<1>4. CASE file # "none"
  <2>1. /\ started' = TRUE /\ fails' = 0 /\ wait' \in 0..LivePeriod
        /\ UNCHANGED <<pc, spent, connected, hung, age, file, up, troubled>>
    BY <1>4 DEF StartupProbe, fileVars, workerVars
  <2>2. wait' \in Nat /\ wait' <= LivePeriod
    BY <2>1, Durations
  <2>3. TypeOK'
    BY <2>1, <2>2, Durations DEF IndInv, TypeOK
  <2>4. GraceCounted'
    BY <2>1, <2>2, Clocks, Durations, ProductInNat DEF IndInv, GraceCounted
  <2>5. SpentInTime' /\ CalmIsConnected' /\ ConnectingIsUntouched' /\ StartedHasFile'
    BY <1>4, <2>1
    DEF IndInv, SpentInTime, Timeout, CalmIsConnected, ConnectingIsUntouched, StartedHasFile
  <2>6. WaitInPeriod' /\ FailuresForgotten' /\ FailuresAreAge'
    BY <2>1, <2>2 DEF WaitInPeriod, FailuresForgotten, FailuresAreAge
  <2>7. AgeInTime'
    BY <2>1 DEF IndInv, AgeInTime, Start
  <2> QED
    BY <2>3, <2>4, <2>5, <2>6, <2>7 DEF IndInv
<1> QED
  BY <1>2, <1>3, <1>4 DEF StartupProbe

LEMMA LivenessProbePreserves ==
    ASSUME IndInv, LivenessProbe
    PROVE  IndInv'
<1>1. pc # "down" /\ started /\ wait = 0
  BY DEF LivenessProbe
<1>2. CASE FailedProbe(LiveFailures, LivePeriod) /\ fails + 1 = LiveFailures
  BY <1>1, <1>2, DownPreserves, Durations DEF FailedProbe, fileVars
<1>3. CASE ~Fresh /\ FailedProbe(LiveFailures, LivePeriod) /\ fails + 1 # LiveFailures
  <2>1. /\ fails' = fails + 1 /\ wait' = LivePeriod
        /\ UNCHANGED <<pc, spent, connected, hung, age, file, started, up, troubled>>
    BY <1>3 DEF FailedProbe, fileVars, workerVars
  <2>2. age >= MaxAge
    BY <1>3, Clocks, Durations DEF IndInv, Fresh
  <2>3. fails' \in 0..(LiveFailures - 1) /\ wait' \in 0..(StartupPeriod + LivePeriod)
    BY <1>1, <1>3, <2>1, Clocks, Durations DEF IndInv
  <2>4. TypeOK'
    BY <1>1, <2>1, <2>3 DEF IndInv, TypeOK
  <2>5. (fails + 1) * LivePeriod = fails * LivePeriod + LivePeriod
    BY Clocks, Durations, ProductInNat DEF IndInv
  <2>6. GraceCounted'
    <3> SUFFICES ASSUME file # "own", up < StartupGrace
                 PROVE  (fails + 1) * LivePeriod <= up + LivePeriod
      BY <1>1, <2>1 DEF GraceCounted
    <3>1. fails * LivePeriod <= up + wait
      BY <1>1 DEF IndInv, GraceCounted
    <3> QED
      BY <1>1, <2>5, <3>1, Clocks, Durations DEF IndInv
  <2>7. FailuresAreAge'
    <3> SUFFICES ASSUME age # Patience
                 PROVE  MaxAge + (fails + 1) * LivePeriod <= age + LivePeriod
      BY <1>1, <2>1 DEF FailuresAreAge
    <3>1. CASE fails > 0
      <4>1. MaxAge + fails * LivePeriod <= age + wait
        BY <1>1, <2>2, <3>1 DEF IndInv, FailuresAreAge
      <4> QED
        BY <1>1, <2>5, <4>1, Clocks, Durations DEF IndInv
    <3>2. CASE fails = 0
      <4>1. fails * LivePeriod = 0
        BY <3>2, Durations, ProductInNat
      <4> QED
        BY <2>2, <2>5, <4>1, Clocks, Durations DEF IndInv
    <3> QED
      BY <3>1, <3>2, Clocks DEF IndInv
  <2>8. SpentInTime' /\ CalmIsConnected' /\ ConnectingIsUntouched' /\ StartedHasFile'
    BY <2>1 DEF IndInv, SpentInTime, Timeout, CalmIsConnected, ConnectingIsUntouched, StartedHasFile
  <2>9. WaitInPeriod' /\ FailuresForgotten' /\ AgeInTime'
    <3>1. WaitInPeriod'
      BY <1>1, <2>1, Durations DEF WaitInPeriod
    <3>2. FailuresForgotten'
      BY <2>1, <2>2, Clocks, Durations DEF IndInv, FailuresForgotten
    <3>3. AgeInTime'
      BY <2>1 DEF IndInv, AgeInTime, Start
    <3> QED
      BY <3>1, <3>2, <3>3
  <2> QED
    BY <2>4, <2>6, <2>7, <2>8, <2>9 DEF IndInv
<1>4. CASE Fresh /\ fails' = 0 /\ wait' = LivePeriod /\ UNCHANGED <<workerVars, fileVars, started, up, troubled>>
  <2>1. UNCHANGED <<pc, spent, connected, hung, age, file, started, up, troubled>>
    BY <1>4 DEF fileVars, workerVars
  <2>2. wait' \in 0..(StartupPeriod + LivePeriod) /\ fails' \in 0..(LiveFailures - 1)
    BY <1>4, Durations
  <2>3. TypeOK'
    BY <1>1, <2>1, <2>2 DEF IndInv, TypeOK
  <2>4. GraceCounted'
    <3>1. 0 * LivePeriod = 0
      BY Durations, ProductInNat
    <3>2. fails' * LivePeriod = 0
      BY <1>4, <3>1
    <3>3. 0 <= up' + wait'
      BY <1>4, <2>1, Clocks, Durations DEF IndInv
    <3> QED
      BY <1>1, <2>1, <3>2, <3>3 DEF GraceCounted
  <2>5. SpentInTime' /\ CalmIsConnected' /\ ConnectingIsUntouched' /\ StartedHasFile'
    BY <2>1 DEF IndInv, SpentInTime, Timeout, CalmIsConnected, ConnectingIsUntouched, StartedHasFile
  <2>6. WaitInPeriod' /\ FailuresForgotten' /\ FailuresAreAge'
    BY <1>1, <1>4, <2>1, Durations DEF WaitInPeriod, FailuresForgotten, FailuresAreAge
  <2>7. AgeInTime'
    BY <1>4, <2>1 DEF IndInv, AgeInTime, Start
  <2> QED
    BY <2>3, <2>4, <2>5, <2>6, <2>7 DEF IndInv
<1> QED
  BY <1>2, <1>3, <1>4 DEF LivenessProbe

\* A second is at most one more for the file, and exactly one less to the probe.
LEMMA TickPreserves ==
    ASSUME IndInv, Tick
    PROVE  IndInv'
<1>1. CASE pc = "down"
  <2>1. /\ age' \in {age, age + 1} /\ age' \in 0..Patience
        /\ UNCHANGED <<pc, spent, connected, hung, file, started, wait, fails, up, troubled>>
    <3>1. age \in Nat /\ age <= Patience /\ Patience \in Nat
      BY Clocks, Graces DEF IndInv
    <3> QED
      BY <1>1, <3>1 DEF Tick
  <2>2. TypeOK'
    BY <2>1 DEF IndInv, TypeOK
  <2>3. SpentInTime' /\ CalmIsConnected' /\ ConnectingIsUntouched' /\ StartedHasFile' /\ WaitInPeriod'
    BY <2>1 DEF IndInv, SpentInTime, Timeout, CalmIsConnected, ConnectingIsUntouched, StartedHasFile,
                WaitInPeriod
  <2>4. FailuresForgotten' /\ FailuresAreAge' /\ AgeInTime' /\ GraceCounted'
    BY <1>1, <2>1 DEF FailuresForgotten, FailuresAreAge, AgeInTime, GraceCounted
  <2> QED
    BY <2>2, <2>3, <2>4 DEF IndInv
<1>2. CASE pc # "down"
  <2>1. /\ wait > 0 /\ wait' = wait - 1
        /\ hung \/ spent < Timeout
        /\ spent' = IF hung THEN spent ELSE spent + 1
        /\ age' = IF file = "none" \/ age = Patience THEN age ELSE age + 1
        /\ up' = IF file = "own" \/ up = StartupGrace THEN up ELSE up + 1
        /\ UNCHANGED <<pc, connected, hung, file, started, fails, troubled>>
    BY <1>2 DEF Tick
  <2>2. /\ spent' \in Nat /\ spent' <= Timeout
        /\ age' \in 0..Patience /\ up' \in 0..StartupGrace
        /\ wait' \in 0..(StartupPeriod + LivePeriod) /\ wait' < wait
    <3>1. spent' \in Nat /\ spent' <= Timeout
      BY <2>1, Clocks, Timeouts, Durations DEF IndInv, SpentInTime
    <3>2. age' \in 0..Patience
      <4>1. age \in Nat /\ age <= Patience /\ Patience \in Nat
        BY Clocks, Graces DEF IndInv
      <4>2. age' = IF file = "none" \/ age = Patience THEN age ELSE age + 1
        BY <2>1
      <4> QED
        BY <4>1, <4>2
    <3>3. up' \in 0..StartupGrace
      BY <2>1, Clocks, Graces DEF IndInv
    <3>4. wait' \in 0..(StartupPeriod + LivePeriod) /\ wait' < wait
      BY <2>1, Durations DEF IndInv, TypeOK
    <3> QED
      BY <3>1, <3>2, <3>3, <3>4
  <2>3. spent' \in 0..(Reconnection + SchemaTransaction + WorkMax + ErrorPause + ConnectPause)
    BY <2>2, Timeouts, Durations
  <2>4. TypeOK'
    BY <2>1, <2>2, <2>3 DEF IndInv, TypeOK
  <2>5. Timeout' = Timeout /\ Start' = Start
    BY <2>1 DEF Timeout, Start
  <2>6. SpentInTime' /\ CalmIsConnected' /\ ConnectingIsUntouched' /\ StartedHasFile'
    BY <2>1, <2>2, <2>5 DEF IndInv, SpentInTime, CalmIsConnected, ConnectingIsUntouched, StartedHasFile
  <2>7. WaitInPeriod'
    BY <2>1, Clocks, Durations DEF IndInv, WaitInPeriod
  <2>8. FailuresForgotten'
    <3> SUFFICES ASSUME started, fails > 0, age' < MaxAge
                 PROVE  age' + wait' <= LivePeriod
      BY <2>1 DEF FailuresForgotten
    <3>1. file # "none"
      BY DEF IndInv, StartedHasFile
    <3>2. age < MaxAge /\ age' = age + 1
      BY <2>1, <3>1, Clocks, Durations, Graces DEF IndInv
    <3>3. age + wait <= LivePeriod
      BY <1>2, <3>2 DEF IndInv, FailuresForgotten
    <3> QED
      BY <2>1, <3>2, <3>3, Clocks, Durations DEF IndInv
  <2>9. GraceCounted'
    <3> SUFFICES ASSUME file # "own", up' < StartupGrace
                 PROVE  fails * (IF started THEN LivePeriod ELSE StartupPeriod) <= up' + wait'
      BY <2>1 DEF GraceCounted
    <3>1. up < StartupGrace /\ up' = up + 1
      BY <2>1, Clocks, Graces DEF IndInv
    <3>2. fails * (IF started THEN LivePeriod ELSE StartupPeriod) <= up + wait
      BY <1>2, <3>1 DEF IndInv, GraceCounted
    <3>3. up' + wait' = up + wait
      BY <2>1, <3>1, Clocks DEF IndInv
    <3> QED
      BY <3>2, <3>3
  <2>10. AgeInTime'
    <3> SUFFICES ASSUME file = "own", ~hung, ~troubled
                 PROVE  age' <= Start + spent'
      BY <2>1, <2>5 DEF AgeInTime
    <3>1. spent' = spent + 1 /\ age' <= age + 1
      BY <2>1, Clocks DEF IndInv
    <3>2. age <= Start + spent
      BY <1>2 DEF IndInv, AgeInTime
    <3> QED
      BY <2>2, <3>1, <3>2, Clocks, Timeouts, Graces DEF IndInv
  <2>11. FailuresAreAge'
    <3> SUFFICES ASSUME started, fails > 0, age' >= MaxAge, age' # Patience
                 PROVE  MaxAge + fails * LivePeriod <= age' + wait'
      BY <2>1 DEF FailuresAreAge
    <3>1. file # "none"
      BY DEF IndInv, StartedHasFile
    <3>2. age # Patience /\ age' = age + 1 /\ age' + wait' = age + wait
      BY <2>1, <3>1, Clocks, Graces DEF IndInv
    <3>3. CASE age >= MaxAge
      <4>1. MaxAge + fails * LivePeriod <= age + wait
        BY <1>2, <3>2, <3>3 DEF IndInv, FailuresAreAge
      <4> QED
        BY <3>2, <4>1
    <3>4. CASE age < MaxAge
      <4>1. age + wait <= LivePeriod
        BY <1>2, <3>4 DEF IndInv, FailuresForgotten
      <4>2. MaxAge <= age + wait
        BY <2>1, <3>2, Clocks, Durations DEF IndInv
      <4> QED
        BY <4>1, <4>2, TuningAssumption, Clocks, Durations DEF IndInv
    <3> QED
      BY <3>3, <3>4, Clocks, Durations DEF IndInv
  <2> QED
    BY <2>4, <2>6, <2>7, <2>8, <2>9, <2>10, <2>11 DEF IndInv
<1> QED
  BY <1>1, <1>2

-----------------------------------------------------------------------------
(* Theorems *)

LEMMA InitInv == Init => IndInv
<1> SUFFICES ASSUME Init PROVE IndInv
  OBVIOUS
<1>1. TypeOK
  <2>1. /\ spent \in 0..(Reconnection + SchemaTransaction + WorkMax + ErrorPause + ConnectPause)
        /\ age \in 0..Patience /\ wait \in 0..(StartupPeriod + LivePeriod)
    BY Durations, Graces DEF Init
  <2>2. up \in 0..StartupGrace /\ fails \in 0..(StartupFailures - 1)
    BY Durations, Graces DEF Init
  <2> QED
    BY <2>1, <2>2 DEF Init, TypeOK, Connecting
<1>2. SpentInTime
  BY Timeouts DEF Init, SpentInTime
<1>3. GraceCounted
  <2>1. 0 * StartupPeriod = 0
    BY Durations, ProductInNat
  <2> QED
    BY <1>1, <2>1, Clocks DEF Init, GraceCounted
<1>4. WaitInPeriod
  BY Durations DEF Init, WaitInPeriod
<1> QED
  BY <1>1, <1>2, <1>3, <1>4
  DEF Init, IndInv, CalmIsConnected, ConnectingIsUntouched, StartedHasFile, FailuresForgotten,
      FailuresAreAge, AgeInTime, RedisCalls

LEMMA NextInv == IndInv /\ [Next]_vars => IndInv'
<1> SUFFICES ASSUME IndInv, [Next]_vars PROVE IndInv'
  OBVIOUS
<1>1. CASE Connect
  BY <1>1, ConnectPreserves
<1>2. CASE Touch
  BY <1>2, TouchPreserves
<1>3. CASE Iterate
  BY <1>3, IteratePreserves
<1>4. CASE Hang
  BY <1>4, HangPreserves
<1>5. CASE Crash
  BY <1>5, CrashPreserves
<1>6. CASE StartupProbe
  BY <1>6, StartupProbePreserves
<1>7. CASE LivenessProbe
  BY <1>7, LivenessProbePreserves
<1>8. CASE Restart
  BY <1>8, RestartPreserves
<1>9. CASE Tick
  BY <1>9, TickPreserves
<1>10. CASE LoseConnection
  BY <1>10, LoseConnectionPreserves
<1>11. CASE UNCHANGED vars
  BY <1>11
  DEF vars, workerVars, fileVars, kubeletVars, IndInv, TypeOK, SpentInTime, Timeout, CalmIsConnected,
      ConnectingIsUntouched, StartedHasFile, WaitInPeriod, FailuresForgotten, FailuresAreAge,
      AgeInTime, Start, GraceCounted
<1> QED
  BY <1>1, <1>2, <1>3, <1>4, <1>5, <1>6, <1>7, <1>8, <1>9, <1>10, <1>11 DEF Next

LEMMA Inductive == Spec => []IndInv
  BY InitInv, NextInv, PTL DEF Spec

\* The clocks and counters of worker.py and the kubelet stay in their ranges.
THEOREM ProbeTypeCorrect == Spec => []TypeOK
<1>1. IndInv => TypeOK
  BY DEF IndInv
<1> QED
  BY <1>1, Inductive, PTL

\* The liveness probe kills no worker before Patience since its last touch, and then
\* only one with a hung call, or that had to reach Redis anew or to release a job
\* already worked on (the loop of worker.py; the livenessProbe of
\* deployment-worker.yaml).
THEOREM CalmSurvives == Spec => CalmNeverKilled
<1>1. ASSUME IndInv, Kill, file = "own"
      PROVE  age = Patience /\ (hung \/ troubled)
  <2> USE <1>1
  <2>1. pc # "down" /\ started /\ wait = 0 /\ age >= MaxAge /\ fails + 1 = LiveFailures
    <3>1. pc # "down" /\ pc' = "down"
      BY DEF Kill, StartupProbe, LivenessProbe
    <3>2. ~StartupProbe
      BY <3>1 DEF StartupProbe, FailedProbe, workerVars
    <3>3. LivenessProbe /\ ~Fresh /\ fails + 1 = LiveFailures
      BY <3>1, <3>2 DEF Kill, LivenessProbe, FailedProbe, workerVars
    <3>4. started /\ wait = 0
      BY <3>3 DEF LivenessProbe
    <3>5. age >= MaxAge
      BY <3>3, Clocks, Durations DEF IndInv, Fresh
    <3> QED
      BY <3>1, <3>3, <3>4, <3>5
  <2>2. LiveGrace = fails * LivePeriod
    <3>1. LiveFailures - 1 = fails
      BY <2>1, Clocks, Durations DEF IndInv
    <3> QED
      BY <3>1 DEF LiveGrace
  <2>3. age = Patience
    <3>1. CASE fails > 0
      <4>1. age = Patience \/ MaxAge + fails * LivePeriod <= age
        <5>1. age = Patience \/ MaxAge + fails * LivePeriod <= age + wait
          BY <2>1, <3>1 DEF IndInv, FailuresAreAge
        <5> QED
          BY <2>1, <5>1, Clocks DEF IndInv
      <4> QED
        BY <2>2, <4>1, Clocks, Graces, Durations DEF IndInv, Patience
    <3>2. CASE fails = 0
      <4>1. LiveGrace = 0
        BY <2>2, <3>2, Durations, ProductInNat
      <4> QED
        BY <2>1, <4>1, Clocks, Graces, Durations DEF IndInv, Patience
    <3> QED
      BY <3>1, <3>2, Clocks DEF IndInv
  <2>4. SUFFICES ASSUME ~hung, ~troubled PROVE FALSE
    BY <2>3
  <2>5. age <= Start + spent
    BY <2>1, <2>4 DEF IndInv, AgeInTime
  <2>6. Start + Timeout < Patience
    <3>1. pc \in Looping
      BY <2>1 DEF IndInv, TypeOK, ConnectingIsUntouched
    <3> QED
      BY <2>4, <3>1, IterationEnds DEF IndInv
  <2>7. spent <= Timeout
    BY DEF IndInv, SpentInTime
  <2> QED
    BY <2>3, <2>5, <2>6, <2>7, Clocks, Timeouts, Graces DEF IndInv
<1>2. IndInv => (Kill /\ file = "own" => age = Patience /\ (hung \/ troubled))
  BY <1>1
<1> QED
  BY <1>2, Inductive, PTL DEF CalmNeverKilled

\* Before its first touch a container is killed no sooner than the startup probe
\* allows a new pod, or the liveness probe a container with an earlier one's file
\* (connect() of worker.py; the probes of deployment-worker.yaml).
THEOREM ConnectingHasGrace == Spec => GraceToConnect
<1>1. ASSUME IndInv, Kill, file # "own"
      PROVE  up >= IF file = "none" THEN StartupGrace ELSE LiveGrace
  <2> USE <1>1
  <2> SUFFICES ASSUME up < StartupGrace
               PROVE  up >= IF file = "none" THEN StartupGrace ELSE LiveGrace
    BY TuningAssumption, Clocks, Graces DEF IndInv
  <2>1. pc # "down" /\ pc' = "down" /\ wait = 0
    BY DEF Kill, StartupProbe, LivenessProbe
  <2>2. fails * (IF started THEN LivePeriod ELSE StartupPeriod) <= up + wait
    BY <2>1 DEF IndInv, GraceCounted
  <2>3. CASE StartupProbe
    <3>1. file = "none" /\ fails + 1 = StartupFailures /\ ~started
      BY <2>1, <2>3 DEF StartupProbe, FailedProbe, workerVars
    <3>2. StartupFailures - 1 = fails
      BY <3>1, Clocks, Durations DEF IndInv
    <3>3. StartupGrace <= up + wait
      BY <2>2, <3>1, <3>2 DEF StartupGrace
    <3> QED
      BY <2>1, <3>1, <3>3, Clocks, Graces DEF IndInv
  <2>4. CASE LivenessProbe
    <3>1. started /\ fails + 1 = LiveFailures
      BY <2>1, <2>4 DEF LivenessProbe, FailedProbe, workerVars
    <3>2. LiveFailures - 1 = fails /\ file # "none"
      BY <3>1, Clocks, Durations DEF IndInv, StartedHasFile
    <3>3. LiveGrace <= up + wait
      BY <2>2, <3>1, <3>2 DEF LiveGrace
    <3> QED
      BY <2>1, <3>2, <3>3, Clocks, Graces DEF IndInv
  <2> QED
    BY <2>3, <2>4 DEF Kill
<1>2. IndInv => (Kill /\ file # "own" => up >= IF file = "none" THEN StartupGrace ELSE LiveGrace)
  BY <1>1
<1> QED
  BY <1>2, Inductive, PTL DEF GraceToConnect
=============================================================================
