SPECIFICATION Spec
CONSTANTS
    Docs = {A, B}
    Runs = {r1, r2}
    NoDoc = NoDoc
    NoRun = NoRun
    MaxOrphans = 1
    Clients = {c1}
    Directs = {}
    Updates = {u1, u2, u3}
    UnloadImmediately = FALSE
    SkippingExtension = FALSE
    MaxFailures = 0
SYMMETRY Symmetry
PROPERTY PendingSaveIsNotUnloaded
