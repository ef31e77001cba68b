\* The application waits for tasktimer_initialize, as the examples do.
SPECIFICATION FairSpec
CONSTANTS
    tool = tool
    other = other
    NULL = NULL
    NoTimer = NoTimer
    Threads = {main, worker}
    Initialisers = {main}
    Tasks = {k1}
    Tools = {tool, other}
    Environments <- SteadyFull
    AppWaits = TRUE
INVARIANTS TimerFromSameTool CompleteOnReturn
PROPERTY FairTableSpec
