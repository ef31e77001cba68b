\* Projects with several last tasks.
SPECIFICATION Spec
CONSTANTS
    NULL = NULL
    Size = 3
    Durations = {1, 3}
    Projects <- AllProjects
INVARIANT ReportedIsLongest
CHECK_DEADLOCK FALSE
