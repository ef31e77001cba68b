\* One thread initialises, again and again, in every environment; both run
\* a task at any time, before, during and after.
SPECIFICATION Spec
CONSTANTS
    tool = tool
    other = other
    NULL = NULL
    NoTimer = NoTimer
    Threads = {main, worker}
    Initialisers = {main}
    Tasks = {k1}
    Tools = {tool, other}
    Environments <- AllEnvs
    AppWaits = FALSE
INVARIANTS TypeOK NoNullCall BoundAsResolved OneToolInitializedFirst
PROPERTIES StableBinding TableSpec
