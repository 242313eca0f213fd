SPECIFICATION Spec
CONSTANTS
    Providers = {p1}
    NoProvider = NoProvider
    MaxFaults = 2
    MaxCalls = 2
    MaxSends = 0
    MayDestroy = TRUE
INVARIANTS
    DestroyedIsClosed
CHECK_DEADLOCK FALSE
