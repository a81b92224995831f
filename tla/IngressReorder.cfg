CONSTANTS
    n1 = n1
    d1 = d1
    None = None
    Node <- MCNode
    Device <- MCDevice
    PrefixOf <- MCPrefixOf
    MaxChannels = 1
    Rotating = {}
    HintReplacesResolved = FALSE
    LinuxNotify = FALSE
    IngressCapacity = 1
    MaxDeferred = 4
SPECIFICATION RuntimeSpec
INVARIANTS
    RouterCurrent
CHECK_DEADLOCK FALSE
