CONSTANTS
    n1 = n1
    n2 = n2
    d1 = d1
    d2 = d2
    None = None
    Node <- MCNode
    Device <- MCDevice
    PrefixOf <- MCPrefixOf
    MaxChannels = 2
    Rotating <- MCRotatingOne
    HintReplacesResolved = FALSE
    LinuxNotify = FALSE
SPECIFICATION Spec
INVARIANTS
    TypeOK
    SessionsBacked
    ChannelsBacked
    EmitsBacked
    UniqueEgress
    NoDanglingChannel
    ResolvedReachable
    UnicastReportAccurate
    NotifyReportAccurate
PROPERTIES
    StableFallbackHonoured
    NotifyOnlyReceivers
SYMMETRY MCDeviceSymmetry
VIEW MCView
