SPECIFICATION FairSpec

CONSTANTS
    Providers = {p1}
    NoProvider = NoProvider
    MaxFaults = 2
    MaxCalls = 2
    MaxSends = 1
    MayDestroy = TRUE

INVARIANTS
    SocketIsSound

PROPERTIES
    WantedIsEstablished

CHECK_DEADLOCK FALSE
