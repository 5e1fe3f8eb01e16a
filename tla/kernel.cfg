SPECIFICATION Spec
CONSTANTS
    Proc = {p1, p2}
    Txn = {t1, t2}
    Foreign = {f1, f2}
    Base = base
    None = none
    Kind = "kernel"
    Modes = {"required", "off"}
    LateLanding = TRUE
    ProbeMayFail = TRUE
SYMMETRY Symmetry
INVARIANTS
    DirtyIsJournaled
    CommitCarriesOneEvent
    NoLostCommit
    OnlyInterruptedIsPromoted
    OneHolder
PROPERTIES
    RemoteNeverRewinds
    KeepsContract
CHECK_DEADLOCK FALSE
