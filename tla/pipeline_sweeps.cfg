SPECIFICATION FairSpec
CONSTANTS
    Jobs = {j1, j2}
    Sweepers = {s1, s2}
    Workers = {w1}
    Nobody = Nobody
    NoJob = NoJob
    MaxFaults = 0
    SweepLimit = 2
    QueueBound = 1
    Replicas = 1
INVARIANTS
    SweepLocksPending
PROPERTIES
    SweepsEnd
