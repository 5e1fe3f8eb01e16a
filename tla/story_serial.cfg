SPECIFICATION Spec
CONSTANTS
    Proc = {p1}
    Txn = {t1, t2}
    Foreign = {f1}
    Base = base
    None = none
    Kind = "story"
    Modes = {"required", "off"}
    LateLanding = TRUE
    ProbeMayFail = TRUE
SYMMETRY Symmetry
INVARIANTS
    DirtyIsJournaled
    NoLostCommit
PROPERTIES
    RemoteNeverRewinds
CHECK_DEADLOCK FALSE
