SPECIFICATION Spec
CONSTANTS
    Instances = {i1, i2}
    NoInstance = NoInstance
    Updates = {u1, u2}
    OtherHooks = FALSE
    MaxLoads = 3
    MaxFailures = 0
    MaxExpiries = 0
INVARIANTS
    IdleIsStored
CHECK_DEADLOCK FALSE
