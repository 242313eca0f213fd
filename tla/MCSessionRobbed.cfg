SPECIFICATION Spec
CONSTANTS
    Keys = {k1}
    Plain <- OwnName
    k1 = k1
    k2 = k2
    Undefined = Undefined
    DocumentAwareness = FALSE
    ConnectedMayReject = TRUE
    MaxSessions = 3
    MaxMessages = 3
INVARIANT ClosedIsAlwaysDetached
CHECK_DEADLOCK FALSE
