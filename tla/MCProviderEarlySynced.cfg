SPECIFICATION Spec
CONSTANTS
    OwnUpdates = {u1}
    OtherUpdates = {o1}
    Busy = FALSE
    MaxUpdates = 3
    MaxEvents = 1
SYMMETRY Symmetry
INVARIANTS
    SyncedIsHandshake
CHECK_DEADLOCK FALSE
