SPECIFICATION FairSpec

CONSTANTS
    Keys <- Sessions
    i1 = i1
    i2 = i2
    Instances = {i1, i2}
    Aware = {1}
    At <- Together
    Identifier <- Identifiers
    MaxEvents = 1
    MaxInTransit = 2

INVARIANTS
    UnderstoodAsMeant
    QuietAgree

PROPERTIES
    ConversationEnds

CHECK_DEADLOCK FALSE
