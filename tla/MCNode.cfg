SPECIFICATION Spec
CONSTANTS
    Requests = {q1, q2}
    Scenarios <- MCScenarios
    FallbackCycles = 2
    MaxVerdicts = 1
INVARIANTS
    Wired
    ConfAgrees
    RevokedIsCut
PROPERTIES
    ReloadEnds
    DialsAgain
CHECK_DEADLOCK FALSE
