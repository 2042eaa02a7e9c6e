SPECIFICATION Spec
CONSTANTS
    Jobs = {j1, j2}
    Sweepers = {s1}
    Workers = {w1, w2}
    Nobody = Nobody
    NoJob = NoJob
    MaxFaults = 2
    SweepLimit = 2
    QueueBound = 1
    Replicas = 1
SYMMETRY Symmetry
INVARIANTS
    OnlyReleaseStrands
    AckedIsComplete
    QueuedIsCommitted
PROPERTIES
    StatusForward
    ImplementsContract
