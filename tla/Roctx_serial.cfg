\* Two threads, in any order of starts and stops, one call at a time.
SPECIFICATION Spec
CONSTANTS
    NULL = NULL
    Threads = {main, worker}
    Tasks = {k1}
    Transfers = {x1, x2}
    Commands = {c1, c2}
    Nested = FALSE
    Serialised = TRUE
    MaxStarts = 2
INVARIANTS Defined StackMatches
SYMMETRY Symmetry
CHECK_DEADLOCK FALSE
