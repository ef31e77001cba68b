\* Every acyclic graph of up to four tasks.
SPECIFICATION Spec
CONSTANTS
    NULL = NULL
    Size = 4
    Durations = {1, 3}
    Projects <- AllProjects
INVARIANTS TypeOK PassInv FloatNotNegative Feasible CompletionIsLongest LongestIsReported OneLastTaskExact
CHECK_DEADLOCK FALSE
