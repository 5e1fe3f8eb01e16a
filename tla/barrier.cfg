SPECIFICATION Spec
CONSTANTS
    Call = {t1, t2}
    Subject = {a, b}
    Resetter = {r1, r2}
    None = none
    MayCrash = {t1, r1}
INVARIANTS
    TypeOK
    WorksAlone
    RunsCovered
PROPERTIES
    CallsEnd
CHECK_DEADLOCK FALSE
