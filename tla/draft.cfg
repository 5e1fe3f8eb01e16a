SPECIFICATION Spec
CONSTANTS
    Drafter = {d1, d2, d3}
    Syncer = {s}
    Manual = {m}
    None = none
    MayCrash = {d1, d2, d3, s}
SYMMETRY Symmetry
INVARIANTS
    TypeOK
    UncommittedIsJournaled
    AcceptedStays
    CommittedIsOwed
    StuckIsExplained
PROPERTIES
    RollbackBelowNoCommit
CHECK_DEADLOCK FALSE
