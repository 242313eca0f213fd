SPECIFICATION FairSpec

CONSTANTS
    Keys <- Mixed
    i1 = i1
    i2 = i2
    Instances = {i1, i2}
    Aware = {1}
    At <- Together
    Identifier <- Identifiers
    MaxEvents = 0
    MaxInTransit = 2

INVARIANTS
    UnderstoodAsMeant

CHECK_DEADLOCK FALSE
