SPECIFICATION Spec
CONSTANTS
    COMPONENTS = {api}
    Pulls = {p1, p2, p3}
    MaxMain = 3
    MaxBuilds = 1
    None = None
SYMMETRY Symmetry
INVARIANT RollbackIsAccepted
CHECK_DEADLOCK FALSE
