\* One thread, whose transfers and commands are nested, beside a task.
SPECIFICATION FairSpec
CONSTANTS
    NULL = NULL
    Threads = {main}
    Tasks = {k1}
    Transfers = {x1}
    Commands = {c1, c2}
    Nested = TRUE
    Serialised = TRUE
    MaxStarts = 2
INVARIANTS TypeOK NoOrphanRange ClosesItsOwn
PROPERTY FairTraceSpec
CHECK_DEADLOCK FALSE
