\* Two runs side by side on one source, two callers, two items of which one
\* is excluded, a failing database.
CONSTANTS
    Runs = {r1, r2}
    Sources = {s1}
    Items = {i1, i2}
    Excluded = {i2}
    Callers = {c1, c2}
    None = None
    MaxPending = 2
    DatabaseFaults = {"start", "run", "cancel"}
SPECIFICATION Spec
SYMMETRY Symmetry
CHECK_DEADLOCK FALSE
INVARIANTS
    IngestedOnce
    ReportIsTrue
PROPERTIES
    ReasonIsTrue
    ScheduledNeverOverlaps
