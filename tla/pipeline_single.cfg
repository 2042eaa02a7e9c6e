SPECIFICATION Spec
CONSTANTS
    Jobs = {j1, j2}
    Sweepers = {s1}
    Workers = {w1}
    Nobody = Nobody
    NoJob = NoJob
    MaxFaults = 2
    SweepLimit = 1
    QueueBound = 1
    Replicas = 1
SYMMETRY Symmetry
INVARIANTS
    TypeOK
    HeldIsListed
    NoWorkOnComplete
    ProcessingAccounted
PROPERTIES
    MovesKeepOrder
