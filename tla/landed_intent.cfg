SPECIFICATION Spec
CONSTANTS
    i1 = i1
    c1 = c1
    c2 = c2
    Intent = {i1}
    Commit = {c1}
    None = none
    Source <- SourceOne
    Budget = 1
    LateLanding = FALSE
    ProbeMayFail = TRUE
PROPERTIES
    LandedCompletes
CHECK_DEADLOCK FALSE
