CONSTANTS
    self = self
    n1 = n1
    n2 = n2
    None = None
    Self = self
    Peers <- MCPeers
    Neighbours <- MCNeighbours
    Seeds <- MCSeeds
    Routes <- MCRoutes
    MaxTick = 3
    MaxChanges = 3
    DispatchCapacity = 1
    FanoutLimit = 1
    FeedCapacity = 1
SPECIFICATION Spec
INVARIANTS
    TypeOK
    RefusalsExact
    PublicCurrent
    DerivedFresh
    RoutesLive
    ReaderCatchesUp
    AdmissionExact
