SPECIFICATION Spec
CONSTANTS
    OwnUpdates = {u1, u2}
    OtherUpdates = {}
    Busy = FALSE
    MaxUpdates = 3
    MaxEvents = 1
SYMMETRY Symmetry
INVARIANTS
    NoUnsyncedMeansSent
CHECK_DEADLOCK FALSE
