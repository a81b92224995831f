CONSTANTS
    a = a
    b = b
    PayloadsOfA = 3
    PayloadsOfB = 3
    Side <- MCSide
    Peer <- MCPeer
    Payloads <- MCPayloads
    OutboundCapacity = 1
    EventCapacity = 1
    WireCapacity = 1
    LinkMayFail = TRUE
SPECIFICATION Spec
PROPERTIES
    WriteDeadDowngraded
CHECK_DEADLOCK FALSE
