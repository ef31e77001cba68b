-------------------------- MODULE InstrumentedTool --------------------------
(***************************************************************************)
(* An instrumented application, the API and the NVTX tool together.        *)
(*                                                                         *)
(* The API is the abstract DispatchTable, which timer_plugin/tasktimer.c   *)
(* implements (TaskTimer!TableSpec): a call reaches the tool if its        *)
(* function has been bound, and is dropped otherwise.  Here the functions  *)
(* are bound in the order of the code, and one thread may be inside        *)
(* tasktimer_initialize while others make calls: before the tool's own     *)
(* initialize function is called, and between any two functions bound.     *)
(*                                                                         *)
(* The application is either one of the example programs or any that       *)
(*   - uses a task from create to destroy, and destroys no running one;    *)
(*   - stops a transfer or command after it has started it;                *)
(*   - calls finalize when nothing runs, and then nothing until it has     *)
(*     entered initialize again, which it does MaxLives - 1 times at most; *)
(*   - does not let two calls overlap inside the tool, whose map and stack *)
(*     are not locked.                                                     *)
(* If waits is TRUE it calls nothing before tasktimer_initialize returns;  *)
(* otherwise its threads do not care, before and during the call.          *)
(***************************************************************************)
EXTENDS NvtxTool, ExampleProgram

CONSTANTS
    Tasks, Transfers, Commands, Labels,  \* what the calls may be about
    Programs,   \* the programs to run; <<>> stands for any application
    FreeCalls,  \* bound: the calls any application makes
    MaxLives,   \* bound: how often it calls initialize
    MaxTimers   \* bound: how many timers it asks for

Regions == Transfers \cup Commands

ASSUME SubjectAssumption ==
    /\ Tasks \cup Regions \cup Labels \subseteq STRING
    /\ Tasks \cap Regions = {}

StartFunction(r) == IF r \in Transfers THEN "data_transfer_start" ELSE "command_start"
StopFunction(r) == IF r \in Transfers THEN "data_transfer_stop" ELSE "command_stop"

\* As in C of the examples, a program stops a transfer or command before it
\* starts the next one.
OneAtATime(p) ==
    \A r, q \in Regions, m, n \in DOMAIN p :
        /\ m < n
        /\ p[m] = Call(StartFunction(r), r)
        /\ p[n] = Call(StartFunction(q), q)
        => \E l \in m .. n : p[l] = Call(StopFunction(r), r)

ASSUME ProgramAssumption ==
    /\ Programs \subseteq Seq([function : STRING, subject : STRING])
    /\ \A p \in Programs : OneAtATime(p)

\* The order in which tasktimer_initialize binds the functions.
BindOrder == <<
    "finalize", "create", "schedule", "start", "yield", "resume", "stop",
    "destroy", "add_parents", "add_children", "data_transfer_start",
    "data_transfer_stop", "command_start", "command_stop", "sample_value", "mark">>

Functions == ToSet(BindOrder)

VARIABLES
    target, table, ran,  \* the API: see DispatchTable, whose "running" is ran
    program, step,       \* the program, and how many of its calls it has made
    waits,               \* the application waits for tasktimer_initialize to return
    phase,               \* where it is between initialize and finalize
    lives,               \* how often initialize has looked for a tool, and run it
    handle,              \* the tasks that exist, with their timers, 0 for null
    running              \* the tasks, transfers and commands it runs

tableVars == <<target, table, ran>>
planVars == <<program, waits>>
workVars == <<handle, running>>
vars == <<toolVars, tableVars, planVars, step, phase, lives, workVars>>

Table == INSTANCE DispatchTable WITH
    Slots <- Functions, Tools <- {"nvtx"}, NULL <- "none", running <- ran

\* The process was started with the tool, or without any.
WithTool == [f \in Functions |-> "nvtx"]
WithoutTool == [f \in Functions |-> "none"]

Init ==
    /\ ToolInit
    /\ target \in {WithTool, WithoutTool}
    /\ Table!Init
    /\ program \in Programs
    /\ waits \in BOOLEAN
    /\ program # <<>> => waits
    /\ step = 0
    /\ phase = "outside"
    /\ lives = 0
    /\ handle = <<>>
    /\ running = {}

(***************************************************************************)
(* Calls.                                                                  *)
(***************************************************************************)

\* The next call of the program, or one that any application may make.
Due(function, subject) ==
    \/ /\ program = <<>>
       /\ Call(function, subject) \in FreeCalls
       /\ UNCHANGED step
    \/ /\ step < Len(program)
       /\ program[step + 1] = Call(function, subject)
       /\ step' = step + 1

MayWork ==
    \/ phase = "inside"
    \/ ~waits /\ (phase \in {"entering", "initializing"} \/ lives = 0)

MayMakeTimer == program = <<>> => Len(timers) < MaxTimers

\* A wrapper of tasktimer.c that finds no function returns at once.
Dropped ==
    /\ calls' = {}
    /\ UNCHANGED <<nvtxVars, tsDomain, registeredStrings, timerVars, undefined>>

Bound(function) == table[function] # "none"

\* What a call about a task, transfer, command or label leaves alone.
WorkFrame == UNCHANGED <<tableVars, planVars, phase, lives>>

(***************************************************************************)
(* tasktimer_initialize and tasktimer_finalize.                            *)
(***************************************************************************)

\* The pointers of the life before are still bound: nothing clears them.
Enter ==
    /\ phase = "outside"
    /\ Due("initialize", "")
    /\ program = <<>> => lives < MaxLives
    /\ phase' = "entering"
    /\ Dropped
    /\ UNCHANGED <<tableVars, planVars, lives, workVars>>

\* No tool has an initialize function: the call returns.
InitializeAlone ==
    /\ phase = "entering"
    /\ target = WithoutTool
    /\ phase' = "inside"
    /\ lives' = lives + 1
    /\ Dropped
    /\ UNCHANGED <<tableVars, planVars, step, workVars>>

\* A bug to plant: the tool's initialize function is not called.
InitializeBindsOnly ==
    /\ phase = "entering"
    /\ target = WithTool
    /\ Dropped
    /\ IF ran THEN UNCHANGED tableVars ELSE Table!Run
    /\ phase' = "initializing"
    /\ lives' = lives + 1
    /\ UNCHANGED <<planVars, step, workVars>>

\* The tool's initialize function is called before the others are bound.
Initialize ==
    /\ phase = "entering"
    /\ target = WithTool
    /\ InitializeImpl
    /\ IF ran THEN UNCHANGED tableVars ELSE Table!Run
    /\ phase' = "initializing"
    /\ lives' = lives + 1
    /\ UNCHANGED <<planVars, step, workVars>>

\* The next function is bound.
Bind ==
    /\ phase = "initializing"
    /\ \E n \in DOMAIN BindOrder :
          /\ \A m \in 1 .. n - 1 : Bound(BindOrder[m])
          /\ Table!Bind(BindOrder[n])
    /\ Dropped
    /\ UNCHANGED <<planVars, step, phase, lives, workVars>>

\* A bug to plant: tasktimer_initialize returns one function early.
ReturnEarly ==
    /\ phase = "initializing"
    /\ \A f \in Functions \ {"command_stop", "sample_value", "mark"} : Bound(f)
    /\ phase' = "inside"
    /\ Dropped
    /\ UNCHANGED <<tableVars, planVars, step, lives, workVars>>

\* tasktimer_initialize returns; in a later life there was nothing to bind.
Return ==
    /\ phase = "initializing"
    /\ \A f \in Functions : Bound(f)
    /\ phase' = "inside"
    /\ Dropped
    /\ UNCHANGED <<tableVars, planVars, step, lives, workVars>>

Finalize ==
    /\ phase = "inside"
    /\ running = {}
    /\ Due("finalize", "")
    /\ IF Bound("finalize") THEN FinalizeImpl ELSE Dropped
    /\ phase' = "outside"
    /\ UNCHANGED <<tableVars, planVars, lives, workVars>>

(***************************************************************************)
(* Calls about a task.                                                     *)
(***************************************************************************)

\* tasktimer_create returns a null timer if no tool is bound.
Create(k) ==
    /\ MayWork
    /\ MayMakeTimer
    /\ k \notin DOMAIN handle
    /\ Due("create", k)
    /\ IF Bound("create")
       THEN CreateImpl(k) /\ handle' = Added(handle, k, Len(timers) + 1)
       ELSE Dropped /\ handle' = Added(handle, k, 0)
    /\ UNCHANGED running
    /\ WorkFrame

Schedule(k) ==
    /\ MayWork
    /\ k \in DOMAIN handle
    /\ Due("schedule", k)
    /\ IF Bound("schedule") THEN ScheduleImpl ELSE Dropped
    /\ UNCHANGED workVars
    /\ WorkFrame

Start(k) ==
    /\ MayWork
    /\ k \in DOMAIN handle
    /\ \E f \in {"start", "resume"} :
          /\ Due(f, k)
          /\ IF Bound(f) THEN StartImpl(handle[k]) ELSE Dropped
    /\ running' = running \cup {k}
    /\ UNCHANGED handle
    /\ WorkFrame

Stop(k) ==
    /\ MayWork
    /\ k \in DOMAIN handle
    /\ \E f \in {"yield", "stop"} :
          /\ Due(f, k)
          /\ IF Bound(f) THEN StopImpl(handle[k]) ELSE Dropped
    /\ running' = running \ {k}
    /\ UNCHANGED handle
    /\ WorkFrame

Destroy(k) ==
    /\ MayWork
    /\ k \in DOMAIN handle \ running
    /\ Due("destroy", k)
    /\ IF Bound("destroy") THEN DestroyImpl(handle[k]) ELSE Dropped
    /\ handle' = Restrict(handle, DOMAIN handle \ {k})
    /\ UNCHANGED running
    /\ WorkFrame

\* add_parents and add_children.
AddRelatives(k) ==
    /\ MayWork
    /\ k \in DOMAIN handle
    /\ \/ /\ Due("add_parents", k)
          /\ IF Bound("add_parents") THEN AddParentsImpl ELSE Dropped
       \/ /\ Due("add_children", k)
          /\ IF Bound("add_children") THEN AddChildrenImpl ELSE Dropped
    /\ UNCHANGED workVars
    /\ WorkFrame

(***************************************************************************)
(* Calls about a transfer, a command, or the process.                      *)
(***************************************************************************)

RegionStart(r) ==
    /\ MayWork
    /\ MayMakeTimer
    /\ r \notin running
    /\ Due(StartFunction(r), r)
    /\ IF Bound(StartFunction(r)) THEN RegionStartImpl(r) ELSE Dropped
    /\ running' = running \cup {r}
    /\ UNCHANGED handle
    /\ WorkFrame

RegionStop(r) ==
    /\ MayWork
    /\ r \in running
    /\ Due(StopFunction(r), r)
    /\ IF Bound(StopFunction(r)) THEN RegionStopImpl ELSE Dropped
    /\ running' = running \ {r}
    /\ UNCHANGED handle
    /\ WorkFrame

Mark(label) ==
    /\ MayWork
    /\ \/ /\ Due("mark", label)
          /\ IF Bound("mark") THEN MarkImpl(label) ELSE Dropped
       \/ /\ Due("sample_value", label)
          /\ IF Bound("sample_value") THEN SampleValueImpl(label) ELSE Dropped
    /\ UNCHANGED workVars
    /\ WorkFrame

Work ==
    \/ \E k \in Tasks :
          \/ Create(k) \/ Schedule(k) \/ Start(k)
          \/ Stop(k) \/ Destroy(k) \/ AddRelatives(k)
    \/ \E r \in Regions : RegionStart(r) \/ RegionStop(r)
    \/ \E label \in Labels : Mark(label)

\* What follows something undefined is not described.
Next ==
    /\ ~undefined
    /\ Enter \/ InitializeAlone \/ Initialize \/ Bind \/ Return \/ Finalize \/ Work

Spec == Init /\ [][Next]_vars

\* The one thread of an example program waits for nobody.
FairSpec == Spec /\ WF_vars(program # <<>> /\ Next)
-----------------------------------------------------------------------------
(***************************************************************************)
(* Properties.                                                             *)
(***************************************************************************)

\* Types of the state.
TypeOK ==
    /\ ToolTypeOK
    /\ target \in {WithTool, WithoutTool}
    /\ table \in [Functions -> {"nvtx", "none"}]
    /\ ran \in BOOLEAN
    /\ program \in Programs
    /\ step \in 0 .. Len(program)
    /\ waits \in BOOLEAN
    /\ phase \in {"outside", "entering", "initializing", "inside"}
    /\ lives \in Nat
    /\ DOMAIN handle \subseteq Tasks
    /\ \A k \in DOMAIN handle : handle[k] \in {0} \cup DOMAIN timers
    /\ running \subseteq DOMAIN handle \cup Regions

\* tasktimer_initialize has been called again, and the tool's initialize
\* function has not: the functions are bound, and tsDomain is the domain
\* that finalize has destroyed.
BetweenLives == phase = "entering" /\ lives > 0

\* The tool uses no domain of NVTX that does not exist yet or any more: not
\* for an application that waits, and for one that does not, not before or
\* during its first tasktimer_initialize, nor while functions are bound in a
\* later one.  What is excepted does happen: a thread that does not wait,
\* and calls between lives, has the tool name the destroyed domain.
\* Until the second life the tool shows every text in the domain it was
\* registered in; after that, registeredStrings and the timers hold handles
\* of the first domain.  For an application that waits, a range is ended in
\* the domain it was begun in, whatever the life of its timer; for another
\* one a stop may be lost, and the range be ended in the next life.
OwnDomain ==
    [][\A c \in calls' :
          /\ (~waits /\ BetweenLives') \/ c.on \in live \cup live'
          /\ c.what = "text" /\ lives' <= 1 => c.from = c.on
          /\ c.what = "range" /\ waits => c.from = c.on]_vars

\* An application that waits never makes the tool do something undefined:
\* it has no null timers, and every stop finds a timer on the stack.
Defined == waits => ~undefined

\* For an application that waits, NVTX shows just what runs.  A task shows
\* exactly while it runs.  Transfers and commands may end each other's
\* ranges where they overlap, but as many show as run; the stack holds
\* those that show; and in the example programs, where nothing overlaps,
\* each shows exactly while it runs.
TraceExact ==
    waits /\ target = WithTool =>
        /\ \A k \in DOMAIN handle : handle[k] \in Showing <=> k \in running
        /\ ToSet(timerStack) = {i \in Showing : timers[i].of \in Regions}
        /\ Len(timerStack) = Cardinality(running \cap Regions)
        /\ DOMAIN ranges = {timers[i].rangeId : i \in Showing}
        /\ Cardinality(DOMAIN ranges) = Cardinality(running)
        /\ program # <<>> => running = {timers[i].of : i \in Showing}

\* An example program makes all its calls, with a tool or without: none of
\* them breaks the rules that an application has to keep.
ExampleEnds == program # <<>> => <>(step = Len(program) /\ phase = "outside")
=============================================================================
