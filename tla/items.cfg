SPECIFICATION Spec
CONSTANTS
    Calls = {c1, c2, c3}
    PAGE_SIZE = 1
    CanFail = TRUE
    MaxId = 4
    Preloaded = 2
SYMMETRY Symmetry
INVARIANTS
    TypeOK
    RowsDistinct
    GapsExplained
    ScreenIsCommitted
PROPERTIES
    HidingIsHonest
