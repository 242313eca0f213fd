SPECIFICATION FairSpec
CONSTANTS
    RoomSlots = {r1, r2}
    Props <- MCProps
    MaxProviders = 4
    OwnSockets = {w1}
    External = ext
    None = None
    Batched = TRUE
    Reused = FALSE
    Dropped = FALSE
INVARIANTS
    MountedIsAttached
    NothingIsLeft
CHECK_DEADLOCK FALSE
