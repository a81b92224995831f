CONSTANTS
    c1 = c1
    c2 = c2
    None = None
    Caller <- MCCaller
    WithSink <- MCWithSink
    Local <- MCLocal
    Received <- MCReceived
    InflightMax = 1
    AttemptsMax = 2
    MaxFrames = 2
    MaxEvents = 1
SPECIFICATION Spec
INVARIANTS
    TypeOK
    OneService
PROPERTIES
    AbandonedStops
    RelayResolved
CHECK_DEADLOCK FALSE
