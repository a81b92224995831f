CONSTANTS
    MaxEvents = 2
    MaxSends = 2
    MaxWork = 1
    MailboxCapacity = 2
    InboundCapacity = 1
    DispatchCapacity = 2
    RuntimeCapacity = 1
    DrainMax = 1
SPECIFICATION Spec
INVARIANTS
    TypeOK
    IngressAccounted
    ReceiptMeansHandedOver
    HandedOnceInOrder
PROPERTIES
    IngressTaken
    SendAnswered
    ShutdownStops
CHECK_DEADLOCK FALSE
