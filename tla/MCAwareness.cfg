SPECIFICATION Spec

CONSTANTS
    Users = {u, v}
    Reconnecting = TRUE
    MaxConnections = 3
    MaxChanges = 2

SYMMETRY Symmetry

INVARIANTS
    ViewsAgree
    StatesAreOwned
    ClosedIsCalledBack

CHECK_DEADLOCK FALSE
