------------------------------ MODULE NvtxTool ------------------------------
(***************************************************************************)
(* The example tool tool_examples/nvtx_tool.cpp: it shows tasks, data      *)
(* transfers and commands as ranges of a domain of NVTX, and everything    *)
(* else as markers there.                                                  *)
(*                                                                         *)
(* initialize creates the domain and finalize destroys it; the pointer to  *)
(* it, tsDomain, and all else in the tool outlive both.  Every text that   *)
(* is shown is first registered with the domain, and a global map,         *)
(* registeredStrings, remembers its handle.  The other state is that of    *)
(* the ROCTX tool: a timer per task, transfer or command, each with at     *)
(* most one range, and a global stack of the timers of transfers and       *)
(* commands.                                                               *)
(*                                                                         *)
(* Each function of the tool is an action, as long as no two calls         *)
(* overlap; the module has no Init or Next, which InstrumentedTool adds.   *)
(* A timer is known by its place in timers, the order in which they were   *)
(* made, with 0 for the null pointer.                                      *)
(***************************************************************************)
EXTENDS Naturals, SequencesExt

VARIABLES
    live,               \* NVTX: the domains created and not destroyed yet
    ranges,             \* NVTX: the domain of every open range, by the range's id
    tsDomain,           \* the domain in use, 0 before the first
    registeredStrings,  \* for every text registered, the domain of its handle
    timers,             \* the timers made so far
    timerStack,         \* the global stack, its top last
    calls,              \* what the last function of the tool called in NVTX
    undefined           \* a function did what C++ leaves undefined

nvtxVars == <<live, ranges>>
timerVars == <<timers, timerStack>>
toolVars == <<nvtxVars, tsDomain, registeredStrings, timerVars, calls, undefined>>

Timer == [of : STRING, message : Nat, rangeId : Nat]

ToolInit ==
    /\ live = {}
    /\ ranges = <<>>
    /\ tsDomain = 0
    /\ registeredStrings = <<>>
    /\ timers = <<>>
    /\ timerStack = <<>>
    /\ calls = {}
    /\ undefined = FALSE

\* f with y for x, if it has nothing for x yet, as a map that is added to.
Added(f, x, y) ==
    [z \in DOMAIN f \cup {x} |-> IF z \in DOMAIN f THEN f[z] ELSE y]

(***************************************************************************)
(* NVTX.  A call names a domain and, but for those about the domain        *)
(* itself, the handle of a text or the id of a range: both are known here  *)
(* by the domain they come from.                                           *)
(***************************************************************************)

Shows(d, handle) == [on |-> d, what |-> "text", from |-> handle]
Ends(d, id) == [on |-> d, what |-> "range", from |-> ranges[id]]

\* nvtxDomainRangeStartEx returns an id that no open range has, never 0.
FreeId ==
    CHOOSE id \in 1 .. Cardinality(DOMAIN ranges) + 1 : id \notin DOMAIN ranges

(***************************************************************************)
(* Texts and markers.                                                      *)
(***************************************************************************)

\* What registerString leaves in the map when domain d is in use: only a
\* text that is not in it is registered.
RegisterString(d, text) == Added(registeredStrings, text, d)

\* doMarker(text), without attributes or with those of the text itself.
DoMarker(d, text) ==
    /\ registeredStrings' = RegisterString(d, text)
    /\ calls' = {Shows(d, registeredStrings'[text])}

(***************************************************************************)
(* Initialization and finalization.                                        *)
(***************************************************************************)

\* A bug to plant: a domain is created the first time only.
InitializeOnce ==
    /\ tsDomain' = 1
    /\ live' = IF tsDomain = 0 THEN {1} ELSE live
    /\ DoMarker(tsDomain', <<"TaskStubs Initialize">>)
    /\ UNCHANGED <<ranges, timerVars, undefined>>

\* tasktimer_initialize_impl.
InitializeImpl ==
    /\ tsDomain' = tsDomain + 1
    /\ live' = live \cup {tsDomain'}
    /\ DoMarker(tsDomain', <<"TaskStubs Initialize">>)
    /\ UNCHANGED <<ranges, timerVars, undefined>>

\* tasktimer_finalize_impl: the domain goes, all else stays as it is.
FinalizeImpl ==
    /\ DoMarker(tsDomain, <<"TaskStubs Finalize">>)
    /\ live' = live \ {tsDomain}
    /\ UNCHANGED <<ranges, tsDomain, timerVars, undefined>>

(***************************************************************************)
(* The class nvtxTimer.                                                    *)
(***************************************************************************)

\* The constructor, after registerString(name): the handle is kept for
\* every range and marker of the timer.
NewTimer(x) ==
    [of |-> x, message |-> RegisterString(tsDomain, <<x>>)[<<x>>], rangeId |-> 0]

\* start and resume are the same code: a running timer is left alone.
StartTimer(i) ==
    IF timers[i].rangeId = 0
    THEN /\ ranges' = Added(ranges, FreeId, tsDomain)
         /\ timers' = [timers EXCEPT ![i].rangeId = FreeId]
         /\ calls' = {Shows(tsDomain, timers[i].message)}
    ELSE /\ calls' = {}
         /\ UNCHANGED <<ranges, timers>>

\* yield and stop are the same code: a timer at rest is left alone.
StopTimer(i) ==
    IF timers[i].rangeId > 0
    THEN /\ ranges' = Restrict(ranges, DOMAIN ranges \ {timers[i].rangeId})
         /\ timers' = [timers EXCEPT ![i].rangeId = 0]
         /\ calls' = {Ends(tsDomain, timers[i].rangeId)}
    ELSE /\ calls' = {}
         /\ UNCHANGED <<ranges, timers>>

\* A method that reads a timer through the null pointer.
NullTimer ==
    /\ undefined' = TRUE
    /\ calls' = {}
    /\ UNCHANGED <<ranges, timers>>

(***************************************************************************)
(* The functions about a task, given its timer.                            *)
(***************************************************************************)

\* tasktimer_create_impl: the marker is given the attributes of the timer,
\* so it shows the task's name; "Timer Create:<name>" is only registered.
CreateImpl(k) ==
    /\ registeredStrings' =
          Added(RegisterString(tsDomain, <<k>>), <<"Timer Create", k>>, tsDomain)
    /\ timers' = Append(timers, NewTimer(k))
    /\ calls' = {Shows(tsDomain, NewTimer(k).message)}
    /\ UNCHANGED <<nvtxVars, tsDomain, timerStack, undefined>>

\* tasktimer_destroy_impl: deleting a null pointer does nothing.
DestroyImpl(i) ==
    /\ IF i = 0
       THEN calls' = {} /\ UNCHANGED registeredStrings
       ELSE DoMarker(tsDomain, <<"Timer Destroy">>)
    /\ UNCHANGED <<nvtxVars, tsDomain, timerVars, undefined>>

\* tasktimer_start_impl and tasktimer_resume_impl.
StartImpl(i) ==
    /\ IF i = 0 THEN NullTimer ELSE StartTimer(i) /\ UNCHANGED undefined
    /\ UNCHANGED <<live, tsDomain, registeredStrings, timerStack>>

\* tasktimer_yield_impl and tasktimer_stop_impl.
StopImpl(i) ==
    /\ IF i = 0 THEN NullTimer ELSE StopTimer(i) /\ UNCHANGED undefined
    /\ UNCHANGED <<live, tsDomain, registeredStrings, timerStack>>

\* The functions that show a marker and do nothing else.  Those about a
\* task do not read its timer.
MarkerImpl(text) ==
    /\ DoMarker(tsDomain, text)
    /\ UNCHANGED <<nvtxVars, tsDomain, timerVars, undefined>>

ScheduleImpl == MarkerImpl(<<"Timer Schedule">>)
AddParentsImpl == MarkerImpl(<<"Timer Add Parents">>)
AddChildrenImpl == MarkerImpl(<<"Timer Add Children">>)
SampleValueImpl(name) == MarkerImpl(<<name>>)
MarkImpl(label) == MarkerImpl(<<label>>)

(***************************************************************************)
(* The functions about a transfer or a command.                            *)
(***************************************************************************)

\* A bug to plant: the timer is not pushed.
RegionStartUnpushed(r) ==
    /\ registeredStrings' = RegisterString(tsDomain, <<r>>)
    /\ timers' = Append(timers, [NewTimer(r) EXCEPT !.rangeId = FreeId])
    /\ ranges' = Added(ranges, FreeId, tsDomain)
    /\ calls' = {Shows(tsDomain, NewTimer(r).message)}
    /\ UNCHANGED <<live, tsDomain, timerStack, undefined>>

\* tasktimer_data_transfer_start_impl and tasktimer_command_start_impl: a
\* new timer is pushed and started.
RegionStartImpl(r) ==
    /\ registeredStrings' = RegisterString(tsDomain, <<r>>)
    /\ timers' = Append(timers, [NewTimer(r) EXCEPT !.rangeId = FreeId])
    /\ ranges' = Added(ranges, FreeId, tsDomain)
    /\ timerStack' = Append(timerStack, Len(timers) + 1)
    /\ calls' = {Shows(tsDomain, NewTimer(r).message)}
    /\ UNCHANGED <<live, tsDomain, undefined>>

\* tasktimer_data_transfer_stop_impl and tasktimer_command_stop_impl: the
\* timer on top is popped and stopped; an empty stack has no top.
RegionStopImpl ==
    /\ IF timerStack = <<>>
       THEN NullTimer /\ UNCHANGED timerStack
       ELSE /\ StopTimer(Last(timerStack))
            /\ timerStack' = Front(timerStack)
            /\ UNCHANGED undefined
    /\ UNCHANGED <<live, tsDomain, registeredStrings>>
-----------------------------------------------------------------------------
(***************************************************************************)
(* The state of the tool.                                                  *)
(***************************************************************************)

ToolTypeOK ==
    /\ tsDomain \in Nat
    /\ live \subseteq 1 .. tsDomain
    /\ DOMAIN ranges \subseteq Nat \ {0}
    /\ \A id \in DOMAIN ranges : ranges[id] \in 1 .. tsDomain
    /\ \A text \in DOMAIN registeredStrings : registeredStrings[text] \in 1 .. tsDomain
    /\ timers \in Seq(Timer)
    /\ timerStack \in Seq(DOMAIN timers)
    /\ calls \subseteq [on : Nat, what : {"text", "range"}, from : Nat]
    /\ undefined \in BOOLEAN

\* The timers that have a range open.
Showing == {i \in DOMAIN timers : timers[i].rangeId # 0}
=============================================================================
