SPECIFICATION Spec
CONSTANTS
    Docs = {A, B}
    Runs = {r1, r2, r3}
    NoDoc = NoDoc
    NoRun = NoRun
    MaxOrphans = 1
    Clients = {}
    Directs = {x1}
    Updates = {u1, u2}
    UnloadImmediately = FALSE
    SkippingExtension = FALSE
    MaxFailures = 0
SYMMETRY Symmetry
INVARIANTS
    NoLostWakeup
    DeadEntryIsDeleted
PROPERTIES
    StoresDoNotGoBack
    DisconnectIsStored
    StoreLosesNothing
