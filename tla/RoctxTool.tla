----------------------------- MODULE RoctxTool -----------------------------
(***************************************************************************)
(* The example tool tool_examples/roctx_tool.cpp: it shows tasks, data     *)
(* transfers and commands as ranges of ROCTX.                              *)
(*                                                                         *)
(* A task has a timer of its own, which create returns and every later     *)
(* call names.  A transfer or a command (a region) gets a new timer when   *)
(* it starts, pushed on one global stack, timerStack; the stop function    *)
(* takes the timer on top of the stack, whoever pushed it.  The stack is   *)
(* not locked: Serialised says that the application does not let two calls *)
(* about regions overlap.  Without it std::stack itself is raced for; the  *)
(* model then takes the mildest outcome, in which every member function of *)
(* the stack and every method of a timer takes effect at once.             *)
(*                                                                         *)
(* The calls about one task do not overlap, as each hands over to the      *)
(* next, and no timer is destroyed while its task runs.  Markers and names *)
(* are left out.                                                           *)
(***************************************************************************)
EXTENDS Naturals, FiniteSets, SequencesExt

CONSTANTS
    Threads,     \* the threads of the application
    Tasks,       \* its tasks
    Transfers,   \* its data transfers, by guid: each is made once
    Commands,    \* its commands: each is run once
    Nested,      \* TRUE: a thread stops its regions in the opposite order of starting
    Serialised,  \* TRUE: the calls about regions do not overlap
    MaxStarts,   \* bound: how many ranges the tasks start in all
    NULL

Regions == Transfers \cup Commands
Timers == Tasks \cup Regions

ASSUME ActivityAssumption ==
    Tasks \cap Regions = {} /\ Transfers \cap Commands = {} /\ NULL \notin Timers
ASSUME ModeAssumption == Nested \in BOOLEAN /\ Serialised \in BOOLEAN
ASSUME BoundAssumption == MaxStarts \in Nat

VARIABLES
    alive,       \* the tasks whose timer exists
    rangeId,     \* _rangeId of every timer, 0 when it has no range
    ranges,      \* ROCTX: the ranges started so far, by id
    timerStack,  \* the global stack, its top last
    pc,          \* where a thread is in a call about a region
    timer,       \* the local variable of that call
    running,     \* the tasks and regions the application runs
    nest,        \* nest[t]: the regions thread t has started and not stopped
    asked        \* asked[t]: the region that t's stop call is about

taskVars == <<alive, running>>
rangeVars == <<rangeId, ranges>>
callVars == <<timerStack, pc, timer, nest, asked>>
vars == <<taskVars, rangeVars, callVars>>

Init ==
    /\ alive = {}
    /\ rangeId = [x \in Timers |-> 0]
    /\ ranges = <<>>
    /\ timerStack = <<>>
    /\ pc = [t \in Threads |-> "idle"]
    /\ timer = [t \in Threads |-> NULL]
    /\ running = {}
    /\ nest = [t \in Threads |-> <<>>]
    /\ asked = [t \in Threads |-> NULL]

(***************************************************************************)
(* The class roctxTimer and the library under it.                          *)
(***************************************************************************)

\* roctxRangeStartA: ids count up from 1, so that 0 is free for "no range".
RangeStart(x) ==
    /\ ranges' = Append(ranges, [of |-> x, open |-> TRUE])
    /\ rangeId' = [rangeId EXCEPT ![x] = Len(ranges) + 1]

\* roctxRangeStop, and the reset of _rangeId that follows it.
RangeStop(x) ==
    /\ ranges' = [ranges EXCEPT ![rangeId[x]].open = FALSE]
    /\ rangeId' = [rangeId EXCEPT ![x] = 0]

\* A bug to plant: the range is stopped but its id is kept.
StopKeepsId(x) ==
    IF rangeId[x] > 0
    THEN /\ ranges' = [ranges EXCEPT ![rangeId[x]].open = FALSE]
         /\ UNCHANGED rangeId
    ELSE UNCHANGED rangeVars

\* A bug to plant: a running timer is given a second range.
StartAlways(x) == RangeStart(x)

\* start and resume are the same code: a running timer is left alone.
StartTimer(x) == IF rangeId[x] = 0 THEN RangeStart(x) ELSE UNCHANGED rangeVars

\* yield and stop are the same code: a timer at rest is left alone.
StopTimer(x) == IF rangeId[x] > 0 THEN RangeStop(x) ELSE UNCHANGED rangeVars

(***************************************************************************)
(* The functions about a task, in any order the application likes.         *)
(***************************************************************************)

Create(k) ==
    /\ k \in Tasks \ alive
    /\ alive' = alive \cup {k}
    /\ rangeId' = [rangeId EXCEPT ![k] = 0]
    /\ UNCHANGED <<ranges, running, callVars>>

\* tasktimer_start_impl and tasktimer_resume_impl.
Start(k) ==
    /\ k \in alive
    /\ rangeId[k] = 0 =>
          Cardinality({i \in DOMAIN ranges : ranges[i].of \in Tasks}) < MaxStarts
    /\ StartTimer(k)
    /\ running' = running \cup {k}
    /\ UNCHANGED <<alive, callVars>>

\* tasktimer_yield_impl and tasktimer_stop_impl.
Stop(k) ==
    /\ k \in alive
    /\ StopTimer(k)
    /\ running' = running \ {k}
    /\ UNCHANGED <<alive, callVars>>

\* A bug to plant: a running timer is destroyed.
DestroyRunning(k) ==
    /\ k \in alive
    /\ alive' = alive \ {k}
    /\ UNCHANGED <<running, rangeVars, callVars>>

Destroy(k) ==
    /\ k \in alive \ running
    /\ alive' = alive \ {k}
    /\ UNCHANGED <<running, rangeVars, callVars>>

(***************************************************************************)
(* The functions about a region.                                           *)
(***************************************************************************)

MayCall(t) ==
    /\ pc[t] = "idle"
    /\ Serialised => \A u \in Threads : pc[u] = "idle"

\* No region is started twice, on whatever thread.
Fresh(r) ==
    /\ r \notin running
    /\ \A i \in DOMAIN ranges : ranges[i].of # r

\* tasktimer_data_transfer_start_impl(r) and tasktimer_command_start_impl:
\* a new timer is made, ...
RegionStart(t, r) ==
    /\ MayCall(t)
    /\ Fresh(r)
    /\ pc' = [pc EXCEPT ![t] = "push"]
    /\ timer' = [timer EXCEPT ![t] = r]
    /\ rangeId' = [rangeId EXCEPT ![r] = 0]
    /\ running' = running \cup {r}
    /\ nest' = [nest EXCEPT ![t] = Append(@, r)]
    /\ UNCHANGED <<alive, ranges, timerStack, asked>>

\* A bug to plant: the timer is not pushed.
PushNothing(t) ==
    /\ pc[t] = "push"
    /\ pc' = [pc EXCEPT ![t] = "begin"]
    /\ UNCHANGED <<taskVars, rangeVars, timerStack, timer, nest, asked>>

\* ... pushed on the stack, ...
Push(t) ==
    /\ pc[t] = "push"
    /\ timerStack' = Append(timerStack, timer[t])
    /\ pc' = [pc EXCEPT ![t] = "begin"]
    /\ UNCHANGED <<taskVars, rangeVars, timer, nest, asked>>

\* ... and started.
Begin(t) ==
    /\ pc[t] = "begin"
    /\ StartTimer(timer[t])
    /\ pc' = [pc EXCEPT ![t] = "idle"]
    /\ timer' = [timer EXCEPT ![t] = NULL]
    /\ UNCHANGED <<taskVars, timerStack, nest, asked>>

\* The regions that thread t may stop next, by their places in nest[t]:
\* command_stop is about the innermost command, data_transfer_stop names its
\* transfer.
Stoppable(t) ==
    {n \in DOMAIN nest[t] :
        IF Nested THEN n = Len(nest[t])
        ELSE \/ nest[t][n] \in Transfers
             \/ \A m \in n + 1 .. Len(nest[t]) : nest[t][m] \notin Commands}

RegionStop(t, r) ==
    /\ MayCall(t)
    /\ pc' = [pc EXCEPT ![t] = "top"]
    /\ running' = running \ {r}
    /\ \E n \in Stoppable(t) :
          /\ nest[t][n] = r
          /\ nest' = [nest EXCEPT ![t] = RemoveAt(@, n)]
    /\ asked' = [asked EXCEPT ![t] = r]
    /\ UNCHANGED <<alive, rangeVars, timerStack, timer>>

\* tasktimer_data_transfer_stop_impl and tasktimer_command_stop_impl read
\* the top of the stack; an empty stack is undefined behaviour.
Top(t) ==
    /\ pc[t] = "top"
    /\ IF timerStack = <<>>
       THEN pc' = [pc EXCEPT ![t] = "undefined"] /\ UNCHANGED timer
       ELSE /\ pc' = [pc EXCEPT ![t] = "pop"]
            /\ timer' = [timer EXCEPT ![t] = Last(timerStack)]
    /\ UNCHANGED <<taskVars, rangeVars, timerStack, nest, asked>>

\* A bug to plant: the timer is left on the stack.
PopNothing(t) ==
    /\ pc[t] = "pop"
    /\ pc' = [pc EXCEPT ![t] = "end"]
    /\ UNCHANGED <<taskVars, rangeVars, timerStack, timer, nest, asked>>

\* A bug to plant: the oldest timer goes, as from a queue.
PopOldest(t) ==
    /\ pc[t] = "pop"
    /\ timerStack' = Tail(timerStack)
    /\ pc' = [pc EXCEPT ![t] = "end"]
    /\ UNCHANGED <<taskVars, rangeVars, timer, nest, asked>>

Pop(t) ==
    /\ pc[t] = "pop"
    /\ IF timerStack = <<>>
       THEN pc' = [pc EXCEPT ![t] = "undefined"] /\ UNCHANGED timerStack
       ELSE /\ pc' = [pc EXCEPT ![t] = "end"]
            /\ timerStack' = Front(timerStack)
    /\ UNCHANGED <<taskVars, rangeVars, timer, nest, asked>>

End(t) ==
    /\ pc[t] = "end"
    /\ StopTimer(timer[t])
    /\ pc' = [pc EXCEPT ![t] = "idle"]
    /\ timer' = [timer EXCEPT ![t] = NULL]
    /\ asked' = [asked EXCEPT ![t] = NULL]
    /\ UNCHANGED <<taskVars, timerStack, nest>>

RegionStep(t) == Push(t) \/ Begin(t) \/ Top(t) \/ Pop(t) \/ End(t)

Next ==
    \/ \E k \in Tasks : Create(k) \/ Start(k) \/ Stop(k) \/ Destroy(k)
    \/ \E t \in Threads, r \in Regions : RegionStart(t, r) \/ RegionStop(t, r)
    \/ \E t \in Threads : RegionStep(t)

Spec == Init /\ [][Next]_vars

\* A thread that is inside a function of the tool reaches its end.
FairSpec == Spec /\ \A t \in Threads : WF_vars(RegionStep(t))
-----------------------------------------------------------------------------
(***************************************************************************)
(* Properties.                                                             *)
(***************************************************************************)

\* What has an open range in the trace.
Open == {ranges[i].of : i \in {j \in DOMAIN ranges : ranges[j].open}}

\* Types of the state.
TypeOK ==
    /\ alive \subseteq Tasks
    /\ ranges \in Seq([of : Timers, open : BOOLEAN])
    /\ rangeId \in [Timers -> 0 .. Len(ranges)]
    /\ timerStack \in Seq(Regions)
    /\ pc \in [Threads -> {"idle", "push", "begin", "top", "pop", "end", "undefined"}]
    /\ timer \in [Threads -> Regions \cup {NULL}]
    /\ running \subseteq alive \cup Regions
    /\ nest \in [Threads -> Seq(Regions)]
    /\ asked \in [Threads -> Regions \cup {NULL}]

\* Every open range is the one its timer knows of: whatever the order of
\* start, yield, resume, stop, destroy and create, no range is left behind
\* that no call could end any more.
NoOrphanRange ==
    \A i \in DOMAIN ranges : ranges[i].open => rangeId[ranges[i].of] = i

\* A stop call ends the range of the very region it is about.
ClosesItsOwn == \A t \in Threads : pc[t] = "end" => timer[t] = asked[t]

\* A stop call finds a timer on the stack: no top() or pop() of an empty one.
Defined == \A t \in Threads : pc[t] # "undefined"

\* Between calls the stack holds just the timers with an open range, and as
\* many as regions are running: calls that do not overlap may end each
\* other's ranges, but never lose one or end one twice.
StackMatches ==
    (\A t \in Threads : pc[t] = "idle") =>
        /\ ToSet(timerStack) = Open \cap Regions
        /\ Len(timerStack) = Cardinality(running \cap Regions)

\* What the application is promised, module TraceView.
View == INSTANCE TraceView WITH
    Activities <- Timers,
    traced     <- Open

TraceSpec == View!Spec
FairTraceSpec == View!FairSpec
=============================================================================
