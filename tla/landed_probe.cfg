SPECIFICATION Spec
CONSTANTS
    Proc = {p1}
    Txn = {t1}
    Foreign = {}
    Base = base
    None = none
    Kind = "story"
    Modes = {"required"}
    LateLanding = FALSE
    ProbeMayFail = TRUE
INVARIANTS
    LandedIsReconcilable
CHECK_DEADLOCK FALSE
