SPECIFICATION Spec
CONSTANTS
    Calls = {c1, c2}
    PAGE_SIZE = 1
    CanFail = FALSE
    MaxId = 4
    Preloaded = 3
SYMMETRY Symmetry
PROPERTIES
    EndMeansAll
CHECK_DEADLOCK FALSE
