CONSTANTS
    a = a
    b = b
    PayloadsOfA = 5
    PayloadsOfB = 1
    Side <- MCSide
    Peer <- MCPeer
    Payloads <- MCPayloads
    OutboundCapacity = 1
    EventCapacity = 3
    WireCapacity = 1
    LinkMayFail = TRUE
SPECIFICATION Spec
INVARIANTS
    TypeOK
    DeliveredInOrder
PROPERTIES
    DispatchReturns
    WriteDeadDowngraded
CHECK_DEADLOCK FALSE
