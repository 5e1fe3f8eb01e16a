SPECIFICATION Spec
CONSTANTS
    Last = 3
    Person = {a, b}
    Plans <- MCPlans
    NoUpstream = none
    MaxGen = 2
    MaxRework = 1
INVARIANTS
    FinishedIsVerified
CHECK_DEADLOCK FALSE
