SPECIFICATION FairSpec
CONSTANTS
    Proc = {p1}
    Txn = {t1, t2}
    Foreign = {f1}
    Base = base
    None = none
    Kind = "initiative"
    Modes = {"required", "off"}
    LateLanding = TRUE
    ProbeMayFail = TRUE
INVARIANTS
    NoLostCommit
PROPERTIES
    AbandonedIsUndone
    RetainedIsPublished
CHECK_DEADLOCK FALSE
