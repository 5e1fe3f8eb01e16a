SPECIFICATION FairSpec
CONSTANTS
    i1 = i1
    c1 = c1
    c2 = c2
    Intent = {i1}
    Commit = {c1, c2}
    None = none
    Source <- SourceOne
    Budget = 2
    LateLanding = TRUE
    ProbeMayFail = TRUE
INVARIANTS
    ReceiptPrecedesPush
    SucceededWasPushed
    OnlyInstalledIsPushed
    RetriesAreBounded
PROPERTIES
    Settles
CHECK_DEADLOCK FALSE
