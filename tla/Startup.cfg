CONSTANTS
    p1 = p1
    p2 = p2
    None = None
    Psm <- MCPsm
    QueryMayFail = FALSE
    MaxToggles = 4
    MaxFailures = 2
SPECIFICATION Spec
INVARIANTS
    TypeOK
    StartedIsRunning
    WaitsExactlyWhenOff
PROPERTIES
    EventuallyUp
CHECK_DEADLOCK FALSE
