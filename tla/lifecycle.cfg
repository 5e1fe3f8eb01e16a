SPECIFICATION Spec
CONSTANTS
    Last = 3
    Person = {a, b}
    Plans <- MCPlans
    NoUpstream = none
    MaxGen = 2
    MaxRework = 2
SYMMETRY Persons
INVARIANTS
    NoPhaseLeftBehind
    ApprovalStands
    EnoughApproved
    AllocatedOnce
CHECK_DEADLOCK FALSE
