SPECIFICATION Spec
CONSTANTS
    Keys = {k1}
    Plain <- OwnName
    k1 = k1
    k2 = k2
    Undefined = Undefined
    DocumentAwareness = TRUE
    ConnectedMayReject = FALSE
    MaxSessions = 1
    MaxMessages = 1
INVARIANT FastCloseCleansUp
CHECK_DEADLOCK FALSE
