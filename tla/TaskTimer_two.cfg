\* Two threads initialise at the same time, wherever loading the library
\* always ends alike.
SPECIFICATION Spec
CONSTANTS
    tool = tool
    other = other
    NULL = NULL
    NoTimer = NoTimer
    Threads = {main, worker}
    Initialisers = {main, worker}
    Tasks = {k1}
    Tools = {tool, other}
    Environments <- SteadyEnvs
    AppWaits = FALSE
INVARIANTS LoaderInv ToolFirst
PROPERTY StableBinding
