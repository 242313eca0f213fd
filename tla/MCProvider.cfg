SPECIFICATION FairSpec

CONSTANTS
    OwnUpdates = {u1, u2}
    OtherUpdates = {o1}
    Busy = FALSE
    MaxUpdates = 2
    MaxEvents = 1

INVARIANTS
    ServedIsSynced
    ServedIsAuthenticated
    ReadOnlyIsHonest

PROPERTIES
    EditArrives

CHECK_DEADLOCK FALSE
