----------------------------- MODULE TaskTimer -----------------------------
(***************************************************************************)
(* The instrumentation API, timer_plugin/tasktimer.c, over the loader of   *)
(* module Plugin: seventeen global function pointers, tasktimer_initialize *)
(* which fills them one store at a time, and the wrappers, which test a    *)
(* pointer and then call through it, reading it twice.  Nothing is locked: *)
(* an initialiser and any number of threads that run instrumented tasks    *)
(* interleave at every access to a pointer or to the loader's handle.      *)
(*                                                                         *)
(* A tool is seen through what its functions do to the application: its    *)
(* initialize returns, and its create returns a timer which belongs to it. *)
(***************************************************************************)
EXTENDS Plugin

CONSTANTS
    Initialisers,  \* the threads that may call tasktimer_initialize
    Tasks,         \* the tasks of the application
    AppWaits,      \* TRUE: no API call before a tasktimer_initialize has returned
    NoTimer        \* what the application holds before create and after destroy

VARIABLES
    func,         \* func[s]: the tool whose function tasktimer_<s>_func points to
    initialized,  \* the tools whose initialize function has returned
    returned,     \* some call of tasktimer_initialize has returned
    timer,        \* timer[k]: the handle the application holds for task k, named
                  \* by the tool that made it
    arg           \* the task a thread passes to the wrapper it is in

vars == <<loaderVars, func, initialized, returned, timer, arg>>

ASSUME InitialisersAssumption == Initialisers \subseteq Threads
ASSUME NullAssumption == NULL \notin Tools \cup Tasks
ASSUME TimerAssumption == NoTimer \notin Tools \cup {NULL}
ASSUME WaitsAssumption == AppWaits \in BOOLEAN
\* The static handle is only safe from a lost update when one thread
\* initialises, or when every attempt to open the library ends alike.
ASSUME LoadAssumption ==
    /\ Environments \subseteq Environment
    /\ \/ \A t, u \in Initialisers : t = u
       \/ \A e \in Environments : \A a, b \in e.loads : a = b

\* The calls that are given a timer.
TimerOps == {"schedule", "start", "yield", "resume", "stop", "destroy",
             "add_parents", "add_children"}

\* The calls about transfers and commands, and those that note something.
RegionOps == {"data_transfer_start", "data_transfer_stop",
              "command_start", "command_stop"}
SampleOps == {"sample_value", "mark"}

Init ==
    /\ LoaderInit
    /\ pc = [t \in Threads |-> "idle"]
    /\ func = [s \in Pointers |-> NULL]
    /\ initialized = {}
    /\ returned = FALSE
    /\ timer = [k \in Tasks |-> NoTimer]
    /\ arg = [t \in Threads |-> NULL]

(***************************************************************************)
(* tasktimer_initialize.                                                   *)
(***************************************************************************)

\* A bug to plant: the pointers are cleared first.
InitializeAfresh(t) ==
    /\ t \in Initialisers
    /\ pc[t] = "idle"
    /\ Goto(t, "lookup")
    /\ slot' = [slot EXCEPT ![t] = "initialize"]
    /\ func' = [s \in Pointers |-> NULL]
    /\ UNCHANGED <<env, resident, library_handle, ret>>
    /\ UNCHANGED <<initialized, returned, timer, arg>>

Initialize(t) ==
    /\ t \in Initialisers
    /\ pc[t] = "idle"
    /\ Goto(t, "lookup")
    /\ slot' = [slot EXCEPT ![t] = "initialize"]
    /\ UNCHANGED <<env, resident, library_handle, ret>>
    /\ UNCHANGED <<func, initialized, returned, timer, arg>>

LoadSymbol(t) ==
    /\ GetSymbol(t)
    /\ UNCHANGED <<func, initialized, returned, timer, arg>>

\* A bug to plant: the tool's initialize is called last, after the stores.
StoreBeforeInit(t) ==
    /\ pc[t] = "store"
    /\ func' = [func EXCEPT ![slot[t]] = ret[t]]
    /\ IF slot[t] = "initialize" /\ ret[t] = NULL
       THEN Goto(t, "idle") /\ returned' = TRUE /\ UNCHANGED slot
       ELSE IF NextSlot[slot[t]] = "done"
       THEN Goto(t, "init") /\ UNCHANGED <<slot, returned>>
       ELSE /\ slot' = [slot EXCEPT ![t] = NextSlot[slot[t]]]
            /\ Goto(t, "lookup")
            /\ UNCHANGED returned
    /\ UNCHANGED <<env, resident, library_handle, ret>>
    /\ UNCHANGED <<initialized, timer, arg>>

\* A bug to plant: no early return when no initialize was found.
StoreWithoutReturn(t) ==
    /\ pc[t] = "store"
    /\ func' = [func EXCEPT ![slot[t]] = ret[t]]
    /\ IF slot[t] = "initialize"
       THEN Goto(t, "init") /\ UNCHANGED <<slot, returned>>
       ELSE IF NextSlot[slot[t]] = "done"
       THEN Goto(t, "idle") /\ returned' = TRUE /\ UNCHANGED slot
       ELSE /\ slot' = [slot EXCEPT ![t] = NextSlot[slot[t]]]
            /\ Goto(t, "lookup")
            /\ UNCHANGED returned
    /\ UNCHANGED <<env, resident, library_handle, ret>>
    /\ UNCHANGED <<initialized, timer, arg>>

\* A bug to plant: the last pointer is skipped.
StoreAllButLast(t) ==
    /\ pc[t] = "store"
    /\ func' = [func EXCEPT ![slot[t]] = ret[t]]
    /\ IF slot[t] = "initialize"
       THEN /\ Goto(t, IF ret[t] = NULL THEN "idle" ELSE "init")
            /\ returned' = (returned \/ ret[t] = NULL)
            /\ UNCHANGED slot
       ELSE IF NextSlot[slot[t]] = "mark"
       THEN Goto(t, "idle") /\ returned' = TRUE /\ UNCHANGED slot
       ELSE /\ slot' = [slot EXCEPT ![t] = NextSlot[slot[t]]]
            /\ Goto(t, "lookup")
            /\ UNCHANGED returned
    /\ UNCHANGED <<env, resident, library_handle, ret>>
    /\ UNCHANGED <<initialized, timer, arg>>

\* The symbol is assigned to its pointer, found or not.  Without an
\* initialize the call returns; with one, the tool's is called next; after
\* mark, the last pointer, the call returns.
StoreFunc(t) ==
    /\ pc[t] = "store"
    /\ func' = [func EXCEPT ![slot[t]] = ret[t]]
    /\ IF slot[t] = "initialize"
       THEN /\ Goto(t, IF ret[t] = NULL THEN "idle" ELSE "init")
            /\ returned' = (returned \/ ret[t] = NULL)
            /\ UNCHANGED slot
       ELSE IF NextSlot[slot[t]] = "done"
       THEN Goto(t, "idle") /\ returned' = TRUE /\ UNCHANGED slot
       ELSE /\ slot' = [slot EXCEPT ![t] = NextSlot[slot[t]]]
            /\ Goto(t, "lookup")
            /\ UNCHANGED returned
    /\ UNCHANGED <<env, resident, library_handle, ret>>
    /\ UNCHANGED <<initialized, timer, arg>>

\* tasktimer_initialize_func(): the pointer is read again for the call.
RunToolInit(t) ==
    /\ pc[t] = "init"
    /\ initialized' = initialized \cup {func["initialize"]}
    /\ slot' = [slot EXCEPT ![t] = NextSlot["initialize"]]
    /\ Goto(t, "lookup")
    /\ UNCHANGED <<env, resident, library_handle, ret>>
    /\ UNCHANGED <<func, returned, timer, arg>>

InitializeStep(t) == LoadSymbol(t) \/ StoreFunc(t) \/ RunToolInit(t)

(***************************************************************************)
(* The wrappers, tasktimer_finalize to tasktimer_mark: all alike.          *)
(***************************************************************************)

\* When the application calls the wrapper of s about task k: a task is
\* created once, the other calls are given what create returned, and the
\* calls about one task do not overlap.  The others are about no task.
MayCall(t, s, k) ==
    /\ pc[t] = "idle"
    /\ AppWaits => returned
    /\ \/ s = "create"   /\ k \in Tasks /\ timer[k] = NoTimer
       \/ s \in TimerOps /\ k \in Tasks /\ timer[k] # NoTimer
       \/ s \in {"finalize"} \cup RegionOps \cup SampleOps /\ k = NULL
    /\ k # NULL => \A u \in Threads : arg[u] # k

\* What the call leaves the application with: create returns a timer, and
\* nobody uses a timer after destroy.
TimerAfter(s, k, result) ==
    CASE s = "create"  -> [timer EXCEPT ![k] = result]
      [] s = "destroy" -> [timer EXCEPT ![k] = NoTimer]
      [] OTHER         -> timer

\* The first read of the pointer finds no tool: the wrapper returns, and
\* tasktimer_create returns a null timer.
CallUnbound(t, s, k) ==
    /\ MayCall(t, s, k)
    /\ func[s] = NULL
    /\ timer' = TimerAfter(s, k, NULL)
    /\ UNCHANGED <<loaderVars, func, initialized, returned, arg>>

\* The first read of the pointer finds a tool: the wrapper goes on to call.
CallBound(t, s, k) ==
    /\ MayCall(t, s, k)
    /\ func[s] # NULL
    /\ slot' = [slot EXCEPT ![t] = s]
    /\ arg' = [arg EXCEPT ![t] = k]
    /\ Goto(t, "call")
    /\ UNCHANGED <<env, resident, library_handle, ret>>
    /\ UNCHANGED <<func, initialized, returned, timer>>

\* A bug to plant: tasktimer_create drops what the tool returned.
ReturnNoResult(t) ==
    /\ pc[t] = "call"
    /\ timer' = TimerAfter(slot[t], arg[t], NULL)
    /\ arg' = [arg EXCEPT ![t] = NULL]
    /\ Goto(t, "idle")
    /\ UNCHANGED <<env, resident, library_handle, slot, ret>>
    /\ UNCHANGED <<func, initialized, returned>>

\* The second read of the pointer: the tool is called and returns.
CallTool(t) ==
    /\ pc[t] = "call"
    /\ timer' = TimerAfter(slot[t], arg[t], func[slot[t]])
    /\ arg' = [arg EXCEPT ![t] = NULL]
    /\ Goto(t, "idle")
    /\ UNCHANGED <<env, resident, library_handle, slot, ret>>
    /\ UNCHANGED <<func, initialized, returned>>

Step(t) ==
    \/ Initialize(t)
    \/ InitializeStep(t)
    \/ \E s \in Pointers, k \in Tasks \cup {NULL} :
          CallUnbound(t, s, k) \/ CallBound(t, s, k)
    \/ CallTool(t)

Next == \E t \in Threads : Step(t)

Spec == Init /\ [][Next]_vars

\* A thread inside tasktimer_initialize waits for nobody: the scheduler of
\* the operating system takes it to the end of the call.
FairSpec == Spec /\ \A t \in Threads : WF_vars(InitializeStep(t))
-----------------------------------------------------------------------------
(***************************************************************************)
(* Properties.                                                             *)
(***************************************************************************)

\* Types of the state.
TypeOK ==
    /\ env \in Environments
    /\ resident \in BOOLEAN
    /\ library_handle \in Tools \cup {NULL}
    /\ pc \in [Threads -> Resolving \cup {"idle", "init", "call"}]
    /\ slot \in [Threads -> Pointers]
    /\ ret \in [Threads -> Tools \cup {NULL}]
    /\ func \in [Pointers -> Tools \cup {NULL}]
    /\ initialized \subseteq Tools
    /\ returned \in BOOLEAN
    /\ timer \in [Tasks -> Tools \cup {NULL, NoTimer}]
    /\ arg \in [Threads -> Tasks \cup {NULL}]

\* No call through a null pointer: the pointer a wrapper tested, and the
\* initialize pointer that was just stored, still point to a function when
\* they are read again for the call, although another thread, or a second
\* tasktimer_initialize, may be storing into them.
NoNullCall ==
    \A t \in Threads :
        /\ pc[t] = "call" => func[slot[t]] # NULL
        /\ pc[t] = "init" => func["initialize"] # NULL

\* A pointer only ever leads where the search order says: the global scope
\* before the library, whatever failed to load and however often.
BoundAsResolved ==
    \A s \in Pointers : func[s] \in {NULL, Resolve(s)}

\* A pointer that led to a tool leads to that tool for good, through every
\* later tasktimer_initialize.
StableBinding ==
    [][\A s \in Pointers : func[s] # NULL => func'[s] = func[s]]_vars

\* All the functions found come from one tool.
OneTool ==
    \A s, r \in Pointers :
        Resolve(s) # NULL /\ Resolve(r) # NULL => Resolve(s) = Resolve(r)

\* No tool is called before its own initialize has returned.
InitializedBeforeBound ==
    \A s \in Pointers \ {"initialize"} : func[s] # NULL => func[s] \in initialized

\* The same where the global scope and the library do not offer two tools.
OneToolInitializedFirst == OneTool => InitializedBeforeBound

\* A tool is handed the timers it made and nothing else.
TimerFromSameTool ==
    \A t \in Threads :
        pc[t] = "call" /\ slot[t] \in TimerOps
            => timer[arg[t]] = func[slot[t]]

\* When tasktimer_initialize has returned having found an initialize, every
\* API function the tool exports can be called.
CompleteOnReturn ==
    returned /\ func["initialize"] # NULL =>
        \A s \in Pointers : func[s] = Resolve(s)

\* All seventeen functions of tool_api.h can be called once
\* tasktimer_initialize has returned and found the tool.
AllImplemented ==
    returned /\ func["initialize"] # NULL => \A s \in Pointers : func[s] # NULL

(***************************************************************************)
(* Why a bound pointer stays bound.  A store of NULL can only undo a       *)
(* binding if a look-up fails that succeeded before.  It does not, because *)
(* what succeeded has left a handle behind (HandleBehindBinding), a handle *)
(* means a mapped library that opens without fail (HandleResident), and a  *)
(* thread whose opening failed has proof of it in the environment          *)
(* (FailureShown), which no other initialiser can have proof against.      *)
(***************************************************************************)

\* The library can be found missing, or opening it can fail.
MayFail == env.library = NULL \/ (~env.resident /\ FALSE \in env.loads)

OnlyInitialisersResolve ==
    \A t \in Threads : pc[t] \notin {"idle", "call"} => t \in Initialisers

HandleResident ==
    /\ library_handle \in {NULL, env.library}
    /\ library_handle # NULL => resident
    /\ env.resident => resident
    /\ resident => env.resident \/ TRUE \in env.loads

HandleBehindBinding ==
    \A s \in Pointers :
        func[s] # NULL /\ env.global[s] = NULL => library_handle # NULL

MissedGlobally ==
    \A t \in Threads :
        pc[t] \in {"check", "open", "publish", "scan"} => env.global[slot[t]] = NULL

FailureShown ==
    \A t \in Threads :
        /\ pc[t] = "publish" =>
              /\ ret[t] \in {NULL, env.library}
              /\ ret[t] # NULL => resident
              /\ ret[t] = NULL => MayFail /\ library_handle = NULL
        /\ pc[t] = "scan" /\ library_handle = NULL => MayFail

FoundAsResolved ==
    \A t \in Threads : pc[t] = "store" =>
        /\ ret[t] \in {NULL, Resolve(slot[t])}
        /\ ret[t] = NULL =>
              /\ env.global[slot[t]] = NULL
              /\ slot[t] \in env.exports => MayFail
              /\ func[slot[t]] = NULL
        /\ ret[t] # NULL /\ env.global[slot[t]] = NULL => library_handle # NULL

\* The inductive invariant of the loader: with TypeOK it is kept by every
\* step, and it holds up NoNullCall, BoundAsResolved and StableBinding.
LoaderInv ==
    /\ OnlyInitialisersResolve
    /\ HandleResident
    /\ HandleBehindBinding
    /\ MissedGlobally
    /\ FailureShown
    /\ FoundAsResolved
    /\ BoundAsResolved
    /\ NoNullCall

\* A tool is initialised before any other pointer is looked up, and it is
\* the one that initialize resolves to, whichever thread gets there first.
ToolFirst ==
    /\ initialized \subseteq {Resolve("initialize")} \ {NULL}
    /\ \A t \in Threads :
          pc[t] \in Resolving /\ slot[t] # "initialize" => initialized # {}
    /\ \A s \in Pointers \ {"initialize"} : func[s] # NULL => initialized # {}

\* The promise of the API to its callers, module DispatchTable.
Table == INSTANCE DispatchTable WITH
    Slots   <- Pointers \ {"initialize"},
    target  <- [s \in Pointers \ {"initialize"} |-> Resolve(s)],
    table   <- [s \in Pointers \ {"initialize"} |-> func[s]],
    running <- initialized # {}

TableSpec == Table!Spec
FairTableSpec == Table!FairSpec
=============================================================================
