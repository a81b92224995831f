CONSTANTS
    n1 = n1
    n2 = n2
    d1 = d1
    d2 = d2
    None = None
    Node <- MCNode
    Device <- MCDevice
    PrefixOf <- MCPrefixOf
    MaxChannels = 2
    Rotating <- MCNode
    HintReplacesResolved = FALSE
    LinuxNotify = FALSE
SPECIFICATION Spec
PROPERTIES
    FallbackHonoured
SYMMETRY MCDeviceSymmetry
