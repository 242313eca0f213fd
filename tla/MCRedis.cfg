SPECIFICATION FairSpec

CONSTANTS
    Instances = {i1, i2}
    NoInstance = NoInstance
    Updates = {u1, u2}
    OtherHooks = TRUE
    MaxLoads = 3
    MaxFailures = 1
    MaxExpiries = 1

INVARIANTS
    QuietAgree
    EditsAreStored

PROPERTIES
    StorageKeeps

CHECK_DEADLOCK FALSE
