SPECIFICATION ServerFairSpec
CONSTANTS
    Docs = {A, B}
    Runs = {r1, r2}
    NoDoc = NoDoc
    NoRun = NoRun
    MaxOrphans = 1
    Clients = {c1}
    Directs = {}
    Updates = {u1}
    UnloadImmediately = FALSE
    SkippingExtension = FALSE
    MaxFailures = 0
    Destroys = {k1}
PROPERTIES
    ExitIsStored
CHECK_DEADLOCK FALSE
