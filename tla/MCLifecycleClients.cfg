SPECIFICATION Spec
CONSTANTS
    Docs = {A, B}
    Runs = {r1, r2}
    NoDoc = NoDoc
    NoRun = NoRun
    MaxOrphans = 1
    Clients = {c1, c2}
    Directs = {}
    Updates = {u1, u2}
    UnloadImmediately = TRUE
    SkippingExtension = TRUE
    MaxFailures = 1
SYMMETRY Symmetry
INVARIANTS
    TypeOK
    AttachedIsReady
    AttachedIsMappedUntilEviction
    UnsavedIsScheduled
PROPERTIES
    UnloadedIsSaved
    DebounceSpec
