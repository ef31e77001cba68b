------------------------------- MODULE Plugin -------------------------------
(***************************************************************************)
(* The plugin loader, timer_plugin/plugin.c: get_symbol and get_library.   *)
(*                                                                         *)
(* A thread that needs the tool's function for one of the API's pointers   *)
(* runs get_symbol: it asks the global scope (dlsym on RTLD_DEFAULT), then *)
(* the library that the environment variable names, which get_library      *)
(* opens the first time and the static library_handle remembers.  The      *)
(* static is read and written without a lock, so every access to it is a   *)
(* step of its own.  The module has no Init or Next: TaskTimer composes    *)
(* these steps with the callers of get_symbol.                             *)
(***************************************************************************)
CONSTANTS
    Threads,       \* the threads of the instrumented process
    Tools,         \* the tool libraries that may be in the process
    Environments,  \* the environments the process may be started in
    NULL           \* the null pointer

VARIABLES
    env,             \* where the process runs: never changes
    resident,        \* env.library is mapped in the process (dlopen's RTLD_NOLOAD)
    library_handle,  \* the static variable of get_symbol
    pc,              \* what each thread is doing
    slot,            \* the API pointer the thread resolves, or calls through
    ret              \* the value in the thread's hands: a handle, then a symbol

loaderVars == <<env, resident, library_handle, pc, slot, ret>>

\* The order in which tasktimer_initialize resolves the pointers, by the
\* name of the API function; the symbol it looks up is <name>_impl.
NextSlot == [
    initialize          |-> "finalize",
    finalize            |-> "create",
    create              |-> "schedule",
    schedule            |-> "start",
    start               |-> "yield",
    yield               |-> "resume",
    resume              |-> "stop",
    stop                |-> "destroy",
    destroy             |-> "add_parents",
    add_parents         |-> "add_children",
    add_children        |-> "data_transfer_start",
    data_transfer_start |-> "data_transfer_stop",
    data_transfer_stop  |-> "command_start",
    command_start       |-> "command_stop",
    command_stop        |-> "sample_value",
    sample_value        |-> "mark",
    mark                |-> "done"]

Pointers == DOMAIN NextSlot

(***************************************************************************)
(* What the dynamic linker knows of a process.                             *)
(*   global    what dlsym(RTLD_DEFAULT, name) finds: the first preloaded   *)
(*             or linked library that exports the name, or NULL            *)
(*   library   the library TASKTIMER_EXTERNAL_TOOL_LIBRARY names, or NULL  *)
(*   exports   the names that library exports                              *)
(*   resident  that library is already mapped when the process starts      *)
(*   loads     how an attempt to dlopen it may end                         *)
(***************************************************************************)
Environment == [
    global   : [Pointers -> Tools \cup {NULL}],
    library  : Tools \cup {NULL},
    exports  : SUBSET Pointers,
    resident : BOOLEAN,
    loads    : SUBSET BOOLEAN \ {{}}]

\* The function the documented search order gives pointer s.
Resolve(s) ==
    IF env.global[s] # NULL THEN env.global[s]
    ELSE IF s \in env.exports THEN env.library
    ELSE NULL

Resolving == {"lookup", "check", "open", "publish", "scan", "store"}

LoaderInit ==
    /\ env \in Environments
    /\ resident = env.resident
    /\ library_handle = NULL
    /\ slot = [t \in Threads |-> "initialize"]
    /\ ret = [t \in Threads |-> NULL]

Goto(t, label) == pc' = [pc EXCEPT ![t] = label]

\* A bug to plant: the global scope is not searched.
SkipGlobal(t) ==
    /\ pc[t] = "lookup"
    /\ Goto(t, "check")
    /\ UNCHANGED <<env, resident, library_handle, slot, ret>>

\* get_symbol asks the global scope first: a hit is the answer.
LookupGlobal(t) ==
    /\ pc[t] = "lookup"
    /\ IF env.global[slot[t]] # NULL
       THEN /\ ret' = [ret EXCEPT ![t] = env.global[slot[t]]]
            /\ Goto(t, "store")
       ELSE /\ Goto(t, "check")
            /\ UNCHANGED ret
    /\ UNCHANGED <<env, resident, library_handle, slot>>

\* get_symbol opens the library only if no handle has been stored yet.
CheckHandle(t) ==
    /\ pc[t] = "check"
    /\ Goto(t, IF library_handle = NULL THEN "open" ELSE "scan")
    /\ UNCHANGED <<env, resident, library_handle, slot, ret>>

\* get_library: no library named, or a mapped library, needs no dlopen that
\* could fail; otherwise the library is opened, with one of env's outcomes.
GetLibrary(t) ==
    /\ pc[t] = "open"
    /\ IF env.library = NULL \/ resident
       THEN /\ ret' = [ret EXCEPT ![t] = env.library]
            /\ UNCHANGED resident
       ELSE \E opened \in env.loads :
            /\ ret' = [ret EXCEPT ![t] = IF opened THEN env.library ELSE NULL]
            /\ resident' = opened
    /\ Goto(t, "publish")
    /\ UNCHANGED <<env, library_handle, slot>>

\* library_handle = get_library(): a failure is stored as well.
StoreHandle(t) ==
    /\ pc[t] = "publish"
    /\ library_handle' = ret[t]
    /\ Goto(t, "scan")
    /\ UNCHANGED <<env, resident, slot, ret>>

\* The last step: dlsym in the library, if there is one.
LookupLibrary(t) ==
    /\ pc[t] = "scan"
    /\ ret' = [ret EXCEPT ![t] =
            IF slot[t] \in env.exports THEN library_handle ELSE NULL]
    /\ Goto(t, "store")
    /\ UNCHANGED <<env, resident, library_handle, slot>>

GetSymbol(t) ==
    \/ LookupGlobal(t)
    \/ CheckHandle(t)
    \/ GetLibrary(t)
    \/ StoreHandle(t)
    \/ LookupLibrary(t)
=============================================================================
