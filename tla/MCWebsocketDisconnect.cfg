SPECIFICATION Spec
CONSTANTS
    Providers = {p1}
    NoProvider = NoProvider
    MaxFaults = 2
    MaxCalls = 2
    MaxSends = 0
    MayDestroy = FALSE
PROPERTIES
    DisconnectIsKept
CHECK_DEADLOCK FALSE
