\* One operator, a database that answers: is an enabled schedule polled?
CONSTANTS
    Runs = {r1}
    Sources = {s1}
    Items = {}
    Excluded = {}
    Callers = {c1, loop}
    Loop = loop
    None = None
    MaxPending = 1
    DatabaseFaults = {}
SPECIFICATION ScheduleSpec
INVARIANTS
    EnabledIsPolled
CHECK_DEADLOCK FALSE
