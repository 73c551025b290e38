\* An operator and the loop, one run of one item; a start and a read of
\* the switch may fail, runs and cancellations find a database that answers. No
\* symmetry, for the liveness.
CONSTANTS
    Runs = {r1}
    Sources = {s1}
    Items = {i1}
    Excluded = {}
    Callers = {c1, loop}
    Loop = loop
    None = None
    MaxPending = 1
    DatabaseFaults = {"start", "loop"}
SPECIFICATION FairScheduleSpec
CHECK_DEADLOCK FALSE
PROPERTIES
    CancelIsAnswered
    WorkEnds
    ScheduledOnlyWhileEnabled
    LoopStops
    ContainerCloses
