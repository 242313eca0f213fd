SPECIFICATION Spec
CONSTANTS
    Keys = {k1}
    Plain <- OwnName
    k1 = k1
    k2 = k2
    Undefined = Undefined
    DocumentAwareness = FALSE
    ConnectedMayReject = TRUE
    MaxSessions = 1
    MaxMessages = 2
INVARIANT DeniedIsFresh
CHECK_DEADLOCK FALSE
