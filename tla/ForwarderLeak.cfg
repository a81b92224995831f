CONSTANTS
    c1 = c1
    c2 = c2
    None = None
    Caller <- MCCaller
    WithSink <- MCWithSink
    Local <- MCLocal
    Received <- MCReceived
    InflightMax = 1
    AttemptsMax = 2
    MaxFrames = 0
    MaxEvents = 1
SPECIFICATION Spec
PROPERTIES
    ForwarderExits
CHECK_DEADLOCK FALSE
