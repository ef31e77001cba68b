\* Every trace of up to four events, analysed from task 0.
SPECIFICATION FairSpec
CONSTANTS
    NULL = NULL
    MainTask = 0
    Length = 4
    Traces <- AllTraces
INVARIANTS TypeOK SuccessorsAttributed HandsOnProject FoundIsReachable
PROPERTY Terminates
CHECK_DEADLOCK FALSE
