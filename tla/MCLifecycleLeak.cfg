SPECIFICATION FairSpec
CONSTANTS
    Docs = {A, B}
    Runs = {r1, r2}
    NoDoc = NoDoc
    NoRun = NoRun
    MaxOrphans = 1
    Clients = {}
    Directs = {x1}
    Updates = {u1}
    UnloadImmediately = FALSE
    SkippingExtension = FALSE
    MaxFailures = 0
PROPERTY IdleIsUnloaded
