SPECIFICATION Spec
CONSTANTS
    OwnUpdates = {}
    OtherUpdates = {}
    Busy = FALSE
    MaxUpdates = 3
    MaxEvents = 1
SYMMETRY Symmetry
INVARIANTS
    AttachedIsServed
CHECK_DEADLOCK FALSE
