SPECIFICATION Spec
CONSTANTS
    OwnUpdates = {u1}
    OtherUpdates = {}
    Busy = FALSE
    MaxUpdates = 3
    MaxEvents = 1
SYMMETRY Symmetry
INVARIANTS
    ReadOnlyKeepsUnsynced
CHECK_DEADLOCK FALSE
