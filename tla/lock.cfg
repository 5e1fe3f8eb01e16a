SPECIFICATION Spec
CONSTANTS
    Proc = {p1, p2, p3}
    Gen = {g1, g2, g3}
    Dead = dead
    Missing = missing
    None = none
    Claims = 2
    Attempts = 2
    MayCrash = {p1}
    Strains = 1
    HardLinks = TRUE
SYMMETRY Symmetry
INVARIANTS
    MutualExclusion
    OverlapIsReported
    NothingLeftBehind
PROPERTIES
    MovesOnlyObserved
CHECK_DEADLOCK FALSE
