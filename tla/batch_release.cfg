\* One batch; last writes succeed, so only a crash or a cancellation interrupts.
CONSTANTS
    Stories = {s1}
    Batches = {b1}
    NoBatch = NoBatch
    Tasks = {t1, t2}
    MaxVersion = 10
    MaxRevision = 2
    DatabaseFaults = FALSE
SPECIFICATION FairSpec
CHECK_DEADLOCK FALSE
PROPERTIES
    UnrenderedIsReleasable
