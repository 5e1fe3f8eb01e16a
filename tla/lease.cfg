SPECIFICATION Spec
CONSTANTS
    Proc = {p1, p2, p3, p4}
    Gen = {g1, g2, g3, g4}
    None = none
    Claims = 2
    MayCrash = {p1, p2, p3, p4}
    Quarantines = TRUE
    Lapses = FALSE
SYMMETRY Symmetry
INVARIANTS
    Exclusive
    NoneBeneathAChild
    ReclaimerRebuilds
PROPERTIES
    VacatesOnlyItsOwn
CHECK_DEADLOCK FALSE
