\* Two batches compete for two stories that are edited meanwhile, through a
\* revision after synthesis and a render; last writes may fail.
CONSTANTS
    Stories = {s1, s2}
    Batches = {b1, b2}
    NoBatch = NoBatch
    Tasks = {t1, t2}
    MaxVersion = 10
    MaxRevision = 2
    DatabaseFaults = TRUE
SPECIFICATION Spec
SYMMETRY Symmetry
CHECK_DEADLOCK FALSE
INVARIANTS
    RenderedAsApproved
    WorkerOwnsBatch
    ClaimsAreExact
