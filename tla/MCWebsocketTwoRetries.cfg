SPECIFICATION Spec
CONSTANTS
    Providers = {p1}
    NoProvider = NoProvider
    MaxFaults = 2
    MaxCalls = 0
    MaxSends = 0
    MayDestroy = FALSE
INVARIANTS
    OneRetryer
CHECK_DEADLOCK FALSE
