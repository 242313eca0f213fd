SPECIFICATION Spec
CONSTANTS
    Docs = {A, B}
    Runs = {r1, r2}
    NoDoc = NoDoc
    NoRun = NoRun
    MaxOrphans = 1
    Clients = {c1, c2}
    Directs = {}
    Updates = {u1}
    UnloadImmediately = TRUE
    SkippingExtension = FALSE
    MaxFailures = 0
SYMMETRY Symmetry
INVARIANT AttachedIsMapped
