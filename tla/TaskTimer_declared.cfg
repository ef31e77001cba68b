\* A tool that exports the functions under the names tool_api.h declares.
SPECIFICATION Spec
CONSTANTS
    tool = tool
    other = other
    NULL = NULL
    NoTimer = NoTimer
    Threads = {main}
    Initialisers = {main}
    Tasks = {k1}
    Tools = {tool, other}
    Environments <- DeclaredEnvs
    AppWaits = TRUE
INVARIANT AllImplemented
