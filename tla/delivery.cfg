SPECIFICATION Spec
CONSTANTS
    COMPONENTS = {api, web}
    Pulls = {p1, p2}
    MaxMain = 3
    MaxBuilds = 2
    None = None
SYMMETRY Symmetry
INVARIANTS
    TypeOK
    DeployedIsCurrent
    OverlayAlone
PROPERTIES
    DoneMeansPrepared
    BranchesFixed
CHECK_DEADLOCK FALSE
