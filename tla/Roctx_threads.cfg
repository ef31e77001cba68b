\* Two threads with properly nested commands, one call at a time.
SPECIFICATION Spec
CONSTANTS
    NULL = NULL
    Threads = {main, worker}
    Tasks = {}
    Transfers = {}
    Commands = {c1, c2}
    Nested = TRUE
    Serialised = TRUE
    MaxStarts = 0
INVARIANT ClosesItsOwn
CHECK_DEADLOCK FALSE
