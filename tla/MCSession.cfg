SPECIFICATION FairSpec

CONSTANTS
    Keys = {k1}
    Plain <- OwnName
    k1 = k1
    k2 = k2
    Undefined = Undefined
    DocumentAwareness = FALSE
    ConnectedMayReject = TRUE
    MaxSessions = 2
    MaxMessages = 4
INVARIANT AttachedIsCurrent
INVARIANT ClosedIsDetached
INVARIANT HandledBeforeDisconnect
PROPERTY ChannelSpec
PROPERTY ClosedIsDisconnected

CHECK_DEADLOCK FALSE
