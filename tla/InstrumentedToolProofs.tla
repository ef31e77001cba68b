----------------------- MODULE InstrumentedToolProofs -----------------------
(***************************************************************************)
(* Proofs about InstrumentedTool: its type invariant and the safety        *)
(* properties that TLC checks on the example programs hold for every set   *)
(* of tasks, transfers, commands and labels, for any application that      *)
(* keeps the rules, in any number of lives and with any number of timers.  *)
(***************************************************************************)
EXTENDS InstrumentedTool, NvtxToolProofs

(***************************************************************************)
(* The inductive invariant.                                                *)
(***************************************************************************)

\* The API.  Its functions are found once the tool has been initialised, all
\* of them before tasktimer_initialize returns, or none without a tool; and
\* every life has its domain, which exists until the life is over, and not
\* while the next one is entered.
ApiInv ==
    /\ target = WithoutTool =>
          /\ table = WithoutTool
          /\ phase # "initializing"
          /\ tsDomain = 0 /\ live = {}
    /\ target = WithTool =>
          /\ ran <=> lives > 0
          /\ tsDomain = lives
          /\ live = IF phase \in {"outside", "entering"} THEN {} ELSE {tsDomain}
          /\ phase = "inside" => \A f \in Functions : Bound(f)
    /\ \A f \in Functions : Bound(f) => ran
    /\ lives = 0 => phase \in {"outside", "entering"}

\* Every timer is of a task or of a transfer or command, the handle of a
\* task is its timer, and the stack holds the regions that show.
OwnersInv ==
    /\ \A i \in DOMAIN timers : timers[i].of \in Tasks \cup Regions
    /\ \A k \in DOMAIN handle : handle[k] # 0 => timers[handle[k]].of = k
    /\ ToSet(timerStack) = {i \in Showing : timers[i].of \in Regions}

\* An application that waits.
WaitsInv ==
    /\ ~undefined
    /\ IsFiniteSet(running)
    /\ phase # "inside" => running = {}
    /\ target = WithTool =>
          /\ \A k \in DOMAIN handle :
                handle[k] # 0 /\ (handle[k] \in Showing <=> k \in running)
          /\ \A i \in Showing : timers[i].of \in Tasks =>
                timers[i].of \in DOMAIN handle /\ handle[timers[i].of] = i
          /\ Len(timerStack) = Cardinality(running \cap Regions)
          /\ Cardinality(DOMAIN ranges) = Cardinality(running)
          /\ \A id \in DOMAIN ranges : ranges[id] = tsDomain

\* A program: the transfer or command that runs, one at most, has been
\* started by a call that no stop has followed yet.
ProgramInv ==
    /\ \A r \in running \cap Regions : \E m \in 1 .. step :
          /\ program[m] = Call(StartFunction(r), r)
          /\ \A l \in m .. step : program[l] # Call(StopFunction(r), r)
    /\ \A r, q \in running \cap Regions : r = q
    /\ target = WithTool =>
          \A i \in Showing : timers[i].of \in Regions => timers[i].of \in running

IInv ==
    /\ TypeOK
    /\ ToolInv
    /\ ApiInv
    /\ OwnersInv
    /\ waits => WaitsInv
    /\ program # <<>> => waits /\ ProgramInv

\* What OwnDomain says of a step.
Own ==
    \A c \in calls' :
        /\ (~waits /\ BetweenLives') \/ c.on \in live \cup live'
        /\ c.what = "text" /\ lives' <= 1 => c.from = c.on
        /\ c.what = "range" /\ waits => c.from = c.on

(***************************************************************************)
(* The functions of the API.                                               *)
(***************************************************************************)

LEMMA FunctionNames ==
    /\ \A f \in {"finalize", "create", "schedule", "start", "yield", "resume", "stop",
                  "destroy", "add_parents", "add_children", "sample_value", "mark"} :
          f \in Functions
    /\ \A r : StartFunction(r) \in Functions /\ StopFunction(r) \in Functions
  <1>1. DOMAIN BindOrder = 1 .. 16
    BY DEF BindOrder
  <1>2. \A n \in 1 .. 16 : BindOrder[n] \in Functions
    BY <1>1 DEF Functions, ToSet
  <1>3. /\ BindOrder[1] = "finalize" /\ BindOrder[2] = "create"
        /\ BindOrder[3] = "schedule" /\ BindOrder[4] = "start"
        /\ BindOrder[5] = "yield" /\ BindOrder[6] = "resume"
        /\ BindOrder[7] = "stop" /\ BindOrder[8] = "destroy"
        /\ BindOrder[9] = "add_parents" /\ BindOrder[10] = "add_children"
        /\ BindOrder[11] = "data_transfer_start" /\ BindOrder[12] = "data_transfer_stop"
        /\ BindOrder[13] = "command_start" /\ BindOrder[14] = "command_stop"
        /\ BindOrder[15] = "sample_value" /\ BindOrder[16] = "mark"
    BY DEF BindOrder
  <1>4. /\ \A f \in {"finalize", "create", "schedule", "start", "yield", "resume",
                      "stop", "destroy", "add_parents", "add_children",
                      "sample_value", "mark"} : f \in Functions
        /\ \A f \in {"data_transfer_start", "data_transfer_stop",
                      "command_start", "command_stop"} : f \in Functions
    BY <1>2, <1>3
  <1> QED
    BY <1>4 DEF StartFunction, StopFunction

LEMMA TwoTargets == WithTool # WithoutTool
  <1>1. "mark" \in Functions
    BY FunctionNames
  <1>2. WithTool["mark"] = "nvtx" /\ WithoutTool["mark"] = "none"
    BY <1>1 DEF WithTool, WithoutTool
  <1> QED
    BY <1>2

\* The domain in use exists, or the exception of OwnDomain holds.
HasDomain == tsDomain \in live \/ (~waits /\ BetweenLives)

\* A function that has been found is called in a life that has its domain, or
\* between lives.
LEMMA BoundMeans ==
    ASSUME IInv, MayWork, NEW f \in Functions, Bound(f)
    PROVE  /\ target = WithTool /\ HasDomain
           /\ tsDomain = lives /\ tsDomain \in Nat \ {0}
           /\ phase = "inside" => live = {tsDomain}
  <1>1. target = WithTool
    <2>1. CASE target = WithoutTool
      BY <2>1 DEF IInv, ApiInv, Bound, WithoutTool
    <2> QED
      BY <2>1 DEF IInv, TypeOK
  <1>2. tsDomain = lives /\ lives > 0 /\ lives \in Nat
    BY <1>1 DEF IInv, ApiInv, TypeOK
  <1>3. phase = "inside" \/ (~waits /\ phase \in {"entering", "initializing"})
    BY <1>2 DEF MayWork
  <1>4. live = IF phase \in {"outside", "entering"} THEN {} ELSE {tsDomain}
    BY <1>1 DEF IInv, ApiInv
  <1>5. HasDomain
    BY <1>2, <1>3, <1>4 DEF HasDomain, BetweenLives
  <1> QED
    BY <1>1, <1>2, <1>4, <1>5

\* An application that waits finds them all.
LEMMA WaitingIsBound ==
    ASSUME IInv, MayWork, waits
    PROVE  /\ phase = "inside"
           /\ target = WithTool => \A f \in Functions : Bound(f)
  BY DEF MayWork, IInv, ApiInv

\* The calls that the tool makes for the domain in use.
LEMMA OwnCalls ==
    ASSUME IInv, target = WithTool, tsDomain = lives, lives' = lives,
           HasDomain, tsDomain \in live \/ phase' = phase, CallsOn(tsDomain)
    PROVE  Own
  <1> SUFFICES ASSUME NEW c \in calls'
               PROVE  /\ (~waits /\ BetweenLives') \/ c.on \in live \cup live'
                      /\ c.what = "text" /\ lives' <= 1 => c.from = c.on
                      /\ c.what = "range" /\ waits => c.from = c.on
    BY DEF Own
  <1>1. c.on = tsDomain /\ c.from \in 1 .. tsDomain /\ lives \in Nat
    BY DEF CallsOn, IInv, TypeOK
  <1>2. lives <= 1 => c.from = c.on
    BY <1>1
  <1>3. c.what = "range" /\ waits => c.from = tsDomain
    BY DEF CallsOn, IInv, WaitsInv
  <1>4. (~waits /\ BetweenLives') \/ c.on \in live
    BY <1>1 DEF HasDomain, BetweenLives
  <1> QED
    BY <1>1, <1>2, <1>3, <1>4

LEMMA DroppedStep ==
    ASSUME ToolInv, Dropped
    PROVE  /\ ToolInv' /\ calls' = {}
           /\ UNCHANGED <<nvtxVars, tsDomain, timerVars, undefined>>
  <1>1. /\ calls' = {}
        /\ UNCHANGED <<nvtxVars, tsDomain, registeredStrings, timerVars, undefined>>
    BY DEF Dropped
  <1>2. ToolTypeOK'
    BY <1>1 DEF ToolInv, ToolTypeOK, nvtxVars, timerVars
  <1>3. RangesOwned' /\ StackShows' /\ MessagesRegistered'
    BY <1>1, TimersKept DEF ToolInv, MessagesRegistered, nvtxVars, timerVars
  <1> QED
    BY <1>1, <1>2, <1>3 DEF ToolInv

(***************************************************************************)
(* The program.                                                            *)
(***************************************************************************)

\* A call is the next one of the program, if there is a program.
LEMMA DueStep ==
    ASSUME TypeOK, UNCHANGED program, NEW f, NEW s, Due(f, s)
    PROVE  /\ step' \in 0 .. Len(program')
           /\ program # <<>> =>
                 step' = step + 1 /\ step' \in Nat /\ program[step'] = Call(f, s)
  <1>1. program \in Seq([function : STRING, subject : STRING]) /\ step \in 0 .. Len(program)
    BY ProgramAssumption DEF TypeOK
  <1>2. Len(program) \in Nat /\ Len(<<>>) = 0
    BY <1>1, LenProperties
  <1> QED
    BY <1>1, <1>2 DEF Due

\* A call that starts and stops no transfer or command.
LEMMA ProgramKept ==
    ASSUME TypeOK, ProgramInv, program # <<>>, UNCHANGED <<program, target>>,
           NEW f, NEW s, f \notin {"data_transfer_stop", "command_stop"},
           step' = step + 1, program[step'] = Call(f, s),
           running' \cap Regions = running \cap Regions,
           target = WithTool =>
              \A i \in Showing' : timers'[i].of \in Regions =>
                 i \in Showing /\ timers'[i].of = timers[i].of
    PROVE  ProgramInv'
  <1>1. step \in Nat
    BY DEF TypeOK
  <1>2. \A r : program[step'] # Call(StopFunction(r), r)
    BY DEF Call, StopFunction
  <1>3. \A r \in running' \cap Regions : \E m \in 1 .. step' :
           /\ program'[m] = Call(StartFunction(r), r)
           /\ \A l \in m .. step' : program'[l] # Call(StopFunction(r), r)
    <2> TAKE r \in running' \cap Regions
    <2>1. PICK m \in 1 .. step :
             /\ program[m] = Call(StartFunction(r), r)
             /\ \A l \in m .. step : program[l] # Call(StopFunction(r), r)
      BY DEF ProgramInv
    <2>2. m \in 1 .. step' /\ \A l \in m .. step' : l \in m .. step \/ l = step'
      BY <1>1, <2>1
    <2> QED
      BY <1>2, <2>1, <2>2
  <1>4. \A r, q \in running' \cap Regions : r = q
    BY DEF ProgramInv
  <1>5. target' = WithTool =>
          \A i \in Showing' : timers'[i].of \in Regions => timers'[i].of \in running'
    BY DEF ProgramInv
  <1> QED
    BY <1>3, <1>4, <1>5 DEF ProgramInv

(***************************************************************************)
(* What the actions have in common.                                        *)
(***************************************************************************)

\* The state of the API and of the plan keeps its type.
ControlTypeOK ==
    /\ target \in {WithTool, WithoutTool}
    /\ table \in [Functions -> {"nvtx", "none"}]
    /\ ran \in BOOLEAN
    /\ program \in Programs
    /\ step \in 0 .. Len(program)
    /\ waits \in BOOLEAN
    /\ phase \in {"outside", "entering", "initializing", "inside"}
    /\ lives \in Nat

WorkTypeOK ==
    /\ DOMAIN handle \subseteq Tasks
    /\ \A k \in DOMAIN handle : handle[k] \in {0} \cup DOMAIN timers
    /\ running \subseteq DOMAIN handle \cup Regions

LEMMA TypeParts == TypeOK <=> ToolTypeOK /\ ControlTypeOK /\ WorkTypeOK
  BY DEF TypeOK, ControlTypeOK, WorkTypeOK

LEMMA TypePartsNext == TypeOK' <=> ToolTypeOK' /\ ControlTypeOK' /\ WorkTypeOK'
  BY DEF TypeOK, ControlTypeOK, WorkTypeOK

\* A call about a task, transfer, command or label leaves the API alone.
LEMMA WorkStep ==
    ASSUME IInv, WorkFrame, NEW f, NEW s, Due(f, s), UNCHANGED <<live, tsDomain>>
    PROVE  /\ ControlTypeOK' /\ ApiInv'
           /\ UNCHANGED <<target, program, waits, phase, lives>>
           /\ program # <<>> =>
                 step' = step + 1 /\ step' \in Nat /\ program[step'] = Call(f, s)
  <1>1. UNCHANGED <<target, table, ran, program, waits, phase, lives>>
    BY DEF WorkFrame, tableVars, planVars
  <1>2. /\ step' \in 0 .. Len(program')
        /\ program # <<>> =>
              step' = step + 1 /\ step' \in Nat /\ program[step'] = Call(f, s)
    BY <1>1, DueStep DEF IInv
  <1>3. ControlTypeOK'
    BY <1>1, <1>2, TypeParts DEF IInv, ControlTypeOK
  <1>4. ApiInv'
    BY <1>1 DEF IInv, ApiInv, Bound
  <1> QED
    BY <1>1, <1>2, <1>3, <1>4

\* What speaks of timers, ranges and the work alone.
LEMMA QuietOwners ==
    ASSUME IInv, UNCHANGED <<ranges, timerVars, workVars>>
    PROVE  WorkTypeOK' /\ OwnersInv' /\ Showing' = Showing
  <1>1. /\ UNCHANGED <<ranges, timers, timerStack, handle, running>>
        /\ Showing' = Showing
    BY DEF timerVars, workVars, Showing
  <1>2. WorkTypeOK'
    BY <1>1, TypeParts DEF IInv, WorkTypeOK
  <1>3. OwnersInv'
    BY <1>1 DEF IInv, OwnersInv, ToSet
  <1> QED
    BY <1>1, <1>2, <1>3

LEMMA QuietWaits ==
    ASSUME IInv, waits, UNCHANGED <<target, ranges, timerVars, workVars, undefined>>,
           phase' = "inside" \/ running = {},
           target = WithTool => tsDomain' = tsDomain \/ running = {}
    PROVE  WaitsInv'
  <1>1. /\ UNCHANGED <<ranges, timers, timerStack, handle, running>>
        /\ Showing' = Showing
    BY DEF timerVars, workVars, Showing
  <1>2. WaitsInv
    BY DEF IInv
  <1>3. target = WithTool => \A id \in DOMAIN ranges' : ranges'[id] = tsDomain'
    <2>1. CASE target = WithTool /\ running = {}
      <3>1. Cardinality(DOMAIN ranges) = 0 /\ IsFiniteSet(DOMAIN ranges)
        BY <1>2, <2>1, FS_EmptySet DEF WaitsInv, IInv, ToolInv, RangesOwned
      <3>2. DOMAIN ranges = {}
        BY <3>1, FS_EmptySet
      <3> QED
        BY <1>1, <3>2
    <2>2. CASE target = WithTool /\ tsDomain' = tsDomain
      BY <1>1, <1>2, <2>2 DEF WaitsInv
    <2> QED
      BY <2>1, <2>2
  <1>4. target' = WithTool => running' \cap Regions = running \cap Regions
    BY <1>1
  <1> QED
    BY <1>1, <1>2, <1>3, <1>4 DEF WaitsInv

LEMMA QuietProgram ==
    ASSUME IInv, program # <<>>, NEW f, NEW s, f \notin {"data_transfer_stop", "command_stop"},
           UNCHANGED <<program, target, timerVars, workVars>>,
           step' = step + 1, program[step'] = Call(f, s)
    PROVE  ProgramInv'
  <1>1. UNCHANGED <<timers, running>> /\ Showing' = Showing
    BY DEF timerVars, workVars, Showing
  <1>2. running' \cap Regions = running \cap Regions
    BY <1>1
  <1> QED
    BY <1>1, <1>2, ProgramKept DEF IInv

\* A call that shows a marker at most.
LEMMA QuietStep ==
    ASSUME IInv, MayWork, WorkFrame,
           NEW f \in Functions \ {"data_transfer_stop", "command_stop"}, NEW s, NEW text,
           Due(f, s), IF Bound(f) THEN MarkerImpl(text) ELSE Dropped,
           UNCHANGED workVars
    PROVE  IInv' /\ Own
  <1>1. /\ ToolInv'
        /\ Own
        /\ UNCHANGED <<nvtxVars, tsDomain, timerVars, undefined>>
    <2>1. CASE Bound(f)
      <3>1. target = WithTool /\ tsDomain = lives /\ tsDomain # 0 /\ HasDomain
        BY <2>1, BoundMeans
      <3>2. /\ ToolInv' /\ CallsOn(tsDomain)
            /\ UNCHANGED <<nvtxVars, tsDomain, timerVars, undefined>>
        BY <2>1, <3>1, MarkerStep DEF IInv
      <3>3. lives' = lives /\ phase' = phase
        BY DEF WorkFrame
      <3> QED
        BY <3>1, <3>2, <3>3, OwnCalls
    <2>2. CASE ~Bound(f)
      <3>1. /\ ToolInv' /\ calls' = {}
            /\ UNCHANGED <<nvtxVars, tsDomain, timerVars, undefined>>
        BY <2>2, DroppedStep DEF IInv
      <3> QED
        BY <3>1 DEF Own
    <2> QED
      BY <2>1, <2>2
  <1>2. /\ ControlTypeOK' /\ ApiInv'
        /\ UNCHANGED <<target, program, waits, phase, lives>>
        /\ program # <<>> => step' = step + 1 /\ program[step'] = Call(f, s)
    BY <1>1, WorkStep DEF nvtxVars
  <1>3. WorkTypeOK' /\ OwnersInv'
    BY <1>1, QuietOwners DEF nvtxVars
  <1>4. waits' => WaitsInv'
    <2>1. waits => phase' = "inside"
      BY <1>2, WaitingIsBound
    <2> QED
      BY <1>1, <1>2, <2>1, QuietWaits DEF nvtxVars
  <1>5. program' # <<>> => waits' /\ ProgramInv'
    BY <1>1, <1>2, QuietProgram DEF IInv
  <1>6. TypeOK'
    BY <1>1, <1>2, <1>3, TypePartsNext DEF ToolInv
  <1> QED
    BY <1>1, <1>2, <1>3, <1>4, <1>5, <1>6 DEF IInv

(***************************************************************************)
(* Calls about a task.                                                     *)
(***************************************************************************)

LEMMA ScheduleKeeps ==
    ASSUME IInv, NEW k \in Tasks, Schedule(k)
    PROVE  IInv' /\ Own
  <1>1. "schedule" \in Functions \ {"data_transfer_stop", "command_stop"}
    BY FunctionNames
  <1> QED
    BY <1>1, QuietStep DEF Schedule, ScheduleImpl

LEMMA AddRelativesKeeps ==
    ASSUME IInv, NEW k \in Tasks, AddRelatives(k)
    PROVE  IInv' /\ Own
  <1>1. {"add_parents", "add_children"}
          \subseteq Functions \ {"data_transfer_stop", "command_stop"}
    BY FunctionNames
  <1> QED
    BY <1>1, QuietStep DEF AddRelatives, AddParentsImpl, AddChildrenImpl

LEMMA MarkKeeps ==
    ASSUME IInv, NEW label \in Labels, Mark(label)
    PROVE  IInv' /\ Own
  <1>1. {"mark", "sample_value"} \subseteq Functions \ {"data_transfer_stop", "command_stop"}
    BY FunctionNames
  <1> QED
    BY <1>1, QuietStep DEF Mark, MarkImpl, SampleValueImpl

\* A new task has a new timer, at rest, or the null timer.
LEMMA CreateKeeps ==
    ASSUME IInv, NEW k \in Tasks, Create(k)
    PROVE  IInv' /\ Own
  <1> DEFINE n == IF Bound("create") THEN Len(timers) + 1 ELSE 0
  <1>1. /\ MayWork /\ WorkFrame /\ Due("create", k)
        /\ k \notin DOMAIN handle /\ running' = running
        /\ handle' = Added(handle, k, n)
        /\ IF Bound("create") THEN CreateImpl(k) ELSE Dropped
    BY DEF Create
  <1>2. /\ ToolInv' /\ KeepsTimers /\ Rests /\ Own
        /\ n \in {0} \cup DOMAIN timers'
        /\ n \notin DOMAIN timers
        /\ \A i \in DOMAIN timers' : i \in DOMAIN timers \/ (i = n /\ timers'[n].of = k)
        /\ UNCHANGED <<live, tsDomain, timerStack, undefined>>
    <2>1. timers \in Seq(Timer) /\ DOMAIN timers = 1 .. Len(timers) /\ Len(timers) \in Nat
      BY LenProperties DEF IInv, ToolInv, ToolTypeOK
    <2>2. CASE Bound("create")
      <3>1. target = WithTool /\ tsDomain = lives /\ tsDomain # 0 /\ HasDomain
        BY <1>1, <2>2, BoundMeans, FunctionNames
      <3>2. k \in STRING
        BY SubjectAssumption
      <3>3. /\ ToolInv' /\ KeepsTimers /\ Rests
            /\ DOMAIN timers' = DOMAIN timers \cup {Len(timers) + 1}
            /\ timers'[Len(timers) + 1].of = k
            /\ CallsOn(tsDomain)
            /\ UNCHANGED <<live, tsDomain, timerStack, undefined>>
        BY <1>1, <2>2, <3>1, <3>2, CreateStep DEF IInv
      <3>4. Own
        BY <1>1, <3>1, <3>3, OwnCalls DEF WorkFrame
      <3>5. n = Len(timers) + 1 /\ n \notin DOMAIN timers
        BY <2>1, <2>2
      <3> QED
        BY <3>3, <3>4, <3>5
    <2>3. CASE ~Bound("create")
      <3>1. /\ ToolInv' /\ calls' = {}
            /\ UNCHANGED <<nvtxVars, tsDomain, timerVars, undefined>>
        BY <1>1, <2>3, DroppedStep DEF IInv
      <3>2. n = 0 /\ n \notin DOMAIN timers
        BY <2>1, <2>3
      <3> QED
        BY <3>1, <3>2 DEF Own, nvtxVars, timerVars, KeepsTimers, Rests, Showing
    <2> QED
      BY <2>2, <2>3
  <1>3. /\ ControlTypeOK' /\ ApiInv'
        /\ UNCHANGED <<target, program, waits, phase, lives>>
        /\ program # <<>> => step' = step + 1 /\ program[step'] = Call("create", k)
    BY <1>1, <1>2, WorkStep
  <1>4. n \notin Showing /\ Showing' = Showing
    BY <1>2 DEF Showing, Rests
  <1> HIDE DEF n
  <1>5. /\ DOMAIN handle' = DOMAIN handle \cup {k}
        /\ \A j \in DOMAIN handle : handle'[j] = handle[j]
        /\ handle'[k] = n
    BY <1>1 DEF Added
  <1>6. k \notin Regions /\ k \notin running
    BY <1>1, SubjectAssumption, TypeParts DEF IInv, WorkTypeOK
  <1>7. WorkTypeOK'
    BY <1>1, <1>2, <1>5, TypeParts DEF IInv, WorkTypeOK, KeepsTimers
  <1>8. OwnersInv'
    <2>1. \A i \in DOMAIN timers' : timers'[i].of \in Tasks \cup Regions
      BY <1>2 DEF IInv, OwnersInv, KeepsTimers
    <2>2. \A j \in DOMAIN handle' : handle'[j] # 0 => timers'[handle'[j]].of = j
      <3> TAKE j \in DOMAIN handle'
      <3>1. CASE j = k
        BY <1>2, <1>5, <3>1 DEF IInv, ToolInv, ToolTypeOK
      <3>2. CASE j # k
        BY <1>2, <1>5, <3>2, TypeParts DEF IInv, OwnersInv, WorkTypeOK, KeepsTimers
      <3> QED
        BY <3>1, <3>2
    <2>3. ToSet(timerStack') = {i \in Showing' : timers'[i].of \in Regions}
      BY <1>2, <1>4 DEF IInv, OwnersInv, ToSet, KeepsTimers, Showing
    <2> QED
      BY <2>1, <2>2, <2>3 DEF OwnersInv
  <1>9. ASSUME waits PROVE WaitsInv'
    <2>1. WaitsInv /\ phase = "inside"
      BY <1>1, <1>9, WaitingIsBound DEF IInv
    <2>2. target = WithTool => n # 0
      <3>1. target = WithTool => Bound("create")
        BY <1>1, <1>9, WaitingIsBound, FunctionNames
      <3>2. Len(timers) \in Nat
        BY LenProperties DEF IInv, ToolInv, ToolTypeOK
      <3> QED
        BY <3>1, <3>2 DEF n
    <2>3. ASSUME target = WithTool
          PROVE  /\ \A j \in DOMAIN handle' :
                       handle'[j] # 0 /\ (handle'[j] \in Showing' <=> j \in running')
                 /\ \A i \in Showing' : timers'[i].of \in Tasks =>
                       timers'[i].of \in DOMAIN handle' /\ handle'[timers'[i].of] = i
      <3>1. \A j \in DOMAIN handle' :
               handle'[j] # 0 /\ (handle'[j] \in Showing' <=> j \in running')
        BY <1>1, <1>4, <1>5, <1>6, <2>1, <2>2, <2>3 DEF WaitsInv
      <3>2. \A i \in Showing' : timers'[i].of = timers[i].of
        BY <1>2, <1>4 DEF KeepsTimers, Showing
      <3> QED
        BY <1>4, <1>5, <2>1, <2>3, <3>1, <3>2 DEF WaitsInv
    <2> QED
      BY <1>1, <1>2, <1>3, <2>1, <2>3 DEF WaitsInv, Rests
  <1>10. ASSUME program # <<>> PROVE ProgramInv'
    <2>1. running' \cap Regions = running \cap Regions
      BY <1>1
    <2>2. \A i \in Showing' : i \in Showing /\ timers'[i].of = timers[i].of
      BY <1>2, <1>4 DEF KeepsTimers, Showing
    <2> QED
      BY <1>3, <1>10, <2>1, <2>2, ProgramKept DEF IInv
  <1>11. TypeOK'
    BY <1>2, <1>3, <1>7, TypePartsNext DEF ToolInv
  <1> QED
    BY <1>2, <1>3, <1>8, <1>9, <1>10, <1>11 DEF IInv

\* A task whose timer is no null timer has a timer of its own, off the stack.
LEMMA OwnTimer ==
    ASSUME IInv, NEW k \in DOMAIN handle, handle[k] # 0
    PROVE  /\ handle[k] \in DOMAIN timers
           /\ timers[handle[k]].of = k
           /\ handle[k] \notin ToSet(timerStack)
  <1>1. handle[k] \in DOMAIN timers /\ timers[handle[k]].of = k /\ k \in Tasks
    BY TypeParts DEF IInv, WorkTypeOK, OwnersInv
  <1>2. k \notin Regions
    BY <1>1, SubjectAssumption
  <1> QED
    BY <1>1, <1>2 DEF IInv, OwnersInv

\* What a task's start or stop leaves alone, if its timer and no other may
\* begin or cease to show.
LEMMA TaskOwners ==
    ASSUME IInv, NEW k \in DOMAIN handle, KeepsTimers, DOMAIN timers' = DOMAIN timers,
           UNCHANGED <<timerStack, handle>>,
           running' \subseteq running \cup {k},
           handle[k] = 0 => Showing' = Showing,
           \A i \in Showing \cup Showing' : i # handle[k] => i \in Showing /\ i \in Showing'
    PROVE  /\ WorkTypeOK' /\ OwnersInv'
           /\ \A i \in Showing' : timers'[i].of \in Regions =>
                 i \in Showing /\ timers'[i].of = timers[i].of
  <1>1. k \in Tasks /\ k \notin Regions
    BY TypeParts, SubjectAssumption DEF IInv, WorkTypeOK
  <1>2. WorkTypeOK'
    BY TypeParts DEF IInv, WorkTypeOK
  <1>3. \A i \in DOMAIN timers : timers'[i].of = timers[i].of
    BY DEF KeepsTimers
  <1>4. handle[k] \in DOMAIN timers => timers'[handle[k]].of = k
    BY <1>3, OwnTimer DEF IInv, ToolInv, ToolTypeOK, OwnersInv, Showing
  <1>5. \A i \in Showing \cup Showing' : i \in DOMAIN timers
    BY DEF Showing
  <1>6. {i \in Showing' : timers'[i].of \in Regions} = {i \in Showing : timers[i].of \in Regions}
    BY <1>1, <1>3, <1>4, <1>5
  <1>7. OwnersInv'
    <2>1. \A i \in DOMAIN timers' : timers'[i].of \in Tasks \cup Regions
      BY <1>3 DEF IInv, OwnersInv
    <2>2. \A j \in DOMAIN handle' : handle'[j] # 0 => timers'[handle'[j]].of = j
      BY <1>3, TypeParts DEF IInv, OwnersInv, WorkTypeOK
    <2> QED
      BY <1>6, <2>1, <2>2 DEF IInv, OwnersInv, ToSet
  <1> QED
    BY <1>2, <1>3, <1>5, <1>6, <1>7

\* A task starts or resumes, and with it shows.
LEMMA StartKeeps ==
    ASSUME IInv, NEW k \in Tasks, Start(k)
    PROVE  IInv' /\ Own
  <1>1. /\ MayWork /\ WorkFrame
        /\ k \in DOMAIN handle /\ handle' = handle
        /\ running' = running \cup {k}
    BY DEF Start
  <1>2. PICK f \in {"start", "resume"} :
           Due(f, k) /\ IF Bound(f) THEN StartImpl(handle[k]) ELSE Dropped
    BY DEF Start
  <1> DEFINE i == handle[k]
  <1>3. /\ ToolInv' /\ KeepsTimers /\ DOMAIN timers' = DOMAIN timers /\ Own
        /\ \/ Rests
           \/ Bound(f) /\ i # 0 /\ i \notin Showing /\ Opens(i)
        /\ Bound(f) /\ i # 0 => i \in Showing' /\ undefined' = undefined
        /\ ~Bound(f) => undefined' = undefined
        /\ UNCHANGED <<live, tsDomain, timerStack>>
    <2>1. CASE Bound(f)
      <3>1. target = WithTool /\ tsDomain = lives /\ tsDomain # 0 /\ HasDomain
        BY <1>1, <2>1, BoundMeans, FunctionNames
      <3>2. StartImpl(i) /\ UNCHANGED <<live, tsDomain, timerStack>>
        BY <1>2, <2>1 DEF StartImpl
      <3>3. CASE i = 0
        <4>1. NullTimer /\ UNCHANGED <<live, tsDomain, registeredStrings, timerStack>>
          BY <3>2, <3>3 DEF StartImpl
        <4>2. ToolInv' /\ Rests /\ timers' = timers /\ calls' = {}
          BY <4>1, NullStep DEF IInv
        <4> QED
          BY <2>1, <3>2, <3>3, <4>2 DEF Own, KeepsTimers
      <3>4. CASE i # 0
        <4>1. i \in DOMAIN timers
          BY <1>1, <3>4, OwnTimer
        <4>2. /\ ToolInv' /\ KeepsTimers /\ DOMAIN timers' = DOMAIN timers
              /\ IF i \in Showing THEN Rests ELSE Opens(i)
              /\ CallsOn(tsDomain) /\ undefined' = undefined
          BY <3>1, <3>2, <4>1, StartStep DEF IInv
        <4>3. Own
          BY <1>1, <3>1, <4>2, OwnCalls DEF WorkFrame
        <4> QED
          BY <2>1, <3>2, <3>4, <4>2, <4>3 DEF Rests, Opens
      <3> QED
        BY <3>3, <3>4
    <2>2. CASE ~Bound(f)
      <3>1. /\ ToolInv' /\ calls' = {}
            /\ UNCHANGED <<nvtxVars, tsDomain, timerVars, undefined>>
        BY <1>2, <2>2, DroppedStep DEF IInv
      <3> QED
        BY <2>2, <3>1 DEF Own, nvtxVars, timerVars, KeepsTimers, Rests, Showing
    <2> QED
      BY <2>1, <2>2
  <1>4. /\ ControlTypeOK' /\ ApiInv'
        /\ UNCHANGED <<target, program, waits, phase, lives>>
        /\ program # <<>> => step' = step + 1 /\ program[step'] = Call(f, k)
    BY <1>1, <1>2, <1>3, WorkStep
  <1>5. /\ WorkTypeOK' /\ OwnersInv'
        /\ \A j \in Showing' : timers'[j].of \in Regions =>
              j \in Showing /\ timers'[j].of = timers[j].of
    BY <1>1, <1>3, TaskOwners DEF Rests, Opens
  <1>6. k \notin Regions
    BY SubjectAssumption
  <1>7. running' \cap Regions = running \cap Regions
    BY <1>1, <1>6
  <1>8. ASSUME waits PROVE WaitsInv'
    <2>1. WaitsInv /\ phase' = "inside"
      BY <1>1, <1>4, <1>8, WaitingIsBound DEF IInv
    <2>2. /\ IsFiniteSet(running')
          /\ Cardinality(running')
                = IF k \in running THEN Cardinality(running) ELSE Cardinality(running) + 1
      <3>1. IsFiniteSet(running) /\ running' = running \cup {k}
        BY <1>1, <2>1 DEF WaitsInv
      <3>2. CASE k \in running
        <4>1. running' = running
          BY <3>1, <3>2
        <4> QED
          BY <3>1, <3>2, <4>1
      <3>3. CASE k \notin running
        BY <3>1, <3>3, OneMore
      <3> QED
        BY <3>2, <3>3
    <2>3. CASE target = WithTool
      <3>1. Bound(f) /\ i # 0
        BY <1>1, <1>8, <2>1, <2>3, WaitingIsBound, FunctionNames DEF WaitsInv
      <3>2. (i \in Showing <=> k \in running) /\ timers[i].of = k /\ i \in Showing'
            /\ i \in DOMAIN timers
        BY <1>1, <1>3, <2>1, <2>3, <3>1, OwnTimer DEF WaitsInv
      <3>3. \A j \in DOMAIN handle : j # k => handle[j] # i
        BY <2>1, <2>3, <3>2, OwnTimer DEF WaitsInv
      <3>4. Showing' = Showing \cup {i}
        BY <1>3, <3>2 DEF Rests, Opens
      <3>5. /\ \A j \in DOMAIN handle' :
                  handle'[j] # 0 /\ (handle'[j] \in Showing' <=> j \in running')
            /\ \A j \in Showing' : timers'[j].of \in Tasks =>
                  timers'[j].of \in DOMAIN handle' /\ handle'[timers'[j].of] = j
        <4>1. \A j \in Showing' : timers'[j].of = timers[j].of
          BY <1>3 DEF KeepsTimers, Showing
        <4> QED
          BY <1>1, <2>1, <2>3, <3>2, <3>3, <3>4, <4>1 DEF WaitsInv
      <3>6. Len(timerStack') = Cardinality(running' \cap Regions)
        BY <1>3, <1>7, <2>1, <2>3 DEF WaitsInv
      <3>7. /\ Cardinality(DOMAIN ranges') = Cardinality(running')
            /\ \A id \in DOMAIN ranges' : ranges'[id] = tsDomain'
        <4>1. CASE Rests
          BY <1>3, <2>1, <2>2, <2>3, <3>2, <4>1 DEF WaitsInv, Rests
        <4>2. CASE i \notin Showing /\ Opens(i)
          BY <1>3, <2>1, <2>2, <2>3, <3>2, <4>2 DEF WaitsInv, Opens
        <4> QED
          BY <1>3, <4>1, <4>2
      <3> QED
        BY <1>3, <2>1, <2>2, <3>1, <3>5, <3>6, <3>7 DEF WaitsInv
    <2>4. CASE target # WithTool
      <3>1. ~Bound(f)
        BY <1>1, <2>4, BoundMeans, FunctionNames
      <3> QED
        BY <1>3, <1>4, <2>1, <2>2, <2>4, <3>1 DEF WaitsInv
    <2> QED
      BY <2>3, <2>4
  <1>9. ASSUME program # <<>> PROVE ProgramInv'
    BY <1>4, <1>5, <1>7, <1>9, ProgramKept DEF IInv
  <1>10. TypeOK'
    BY <1>3, <1>4, <1>5, TypePartsNext DEF ToolInv
  <1> QED
    BY <1>3, <1>4, <1>5, <1>8, <1>9, <1>10 DEF IInv

\* A task yields or stops, and with it shows no more.
LEMMA StopKeeps ==
    ASSUME IInv, NEW k \in Tasks, Stop(k)
    PROVE  IInv' /\ Own
  <1>1. /\ MayWork /\ WorkFrame
        /\ k \in DOMAIN handle /\ handle' = handle
        /\ running' = running \ {k}
    BY DEF Stop
  <1>2. PICK f \in {"yield", "stop"} :
           Due(f, k) /\ IF Bound(f) THEN StopImpl(handle[k]) ELSE Dropped
    BY DEF Stop
  <1> DEFINE i == handle[k]
  <1>3. /\ ToolInv' /\ KeepsTimers /\ DOMAIN timers' = DOMAIN timers /\ Own
        /\ \/ Rests
           \/ Bound(f) /\ i # 0 /\ i \in Showing /\ Closes(i)
        /\ Bound(f) /\ i # 0 => i \notin Showing' /\ undefined' = undefined
        /\ ~Bound(f) => undefined' = undefined
        /\ UNCHANGED <<live, tsDomain, timerStack>>
    <2>1. CASE Bound(f)
      <3>1. target = WithTool /\ tsDomain = lives /\ tsDomain # 0 /\ HasDomain
        BY <1>1, <2>1, BoundMeans, FunctionNames
      <3>2. StopImpl(i) /\ UNCHANGED <<live, tsDomain, timerStack>>
        BY <1>2, <2>1 DEF StopImpl
      <3>3. CASE i = 0
        <4>1. NullTimer /\ UNCHANGED <<live, tsDomain, registeredStrings, timerStack>>
          BY <3>2, <3>3 DEF StopImpl
        <4>2. ToolInv' /\ Rests /\ timers' = timers /\ calls' = {}
          BY <4>1, NullStep DEF IInv
        <4> QED
          BY <2>1, <3>2, <3>3, <4>2 DEF Own, KeepsTimers
      <3>4. CASE i # 0
        <4>1. i \in DOMAIN timers /\ i \notin ToSet(timerStack)
          BY <1>1, <3>4, OwnTimer
        <4>2. /\ ToolInv' /\ KeepsTimers /\ DOMAIN timers' = DOMAIN timers
              /\ IF i \in Showing THEN Closes(i) ELSE Rests
              /\ CallsOn(tsDomain) /\ undefined' = undefined
          BY <3>1, <3>2, <4>1, StopStep DEF IInv
        <4>3. Own
          BY <1>1, <3>1, <4>2, OwnCalls DEF WorkFrame
        <4> QED
          BY <2>1, <3>2, <3>4, <4>2, <4>3 DEF Rests, Closes
      <3> QED
        BY <3>3, <3>4
    <2>2. CASE ~Bound(f)
      <3>1. /\ ToolInv' /\ calls' = {}
            /\ UNCHANGED <<nvtxVars, tsDomain, timerVars, undefined>>
        BY <1>2, <2>2, DroppedStep DEF IInv
      <3> QED
        BY <2>2, <3>1 DEF Own, nvtxVars, timerVars, KeepsTimers, Rests, Showing
    <2> QED
      BY <2>1, <2>2
  <1>4. /\ ControlTypeOK' /\ ApiInv'
        /\ UNCHANGED <<target, program, waits, phase, lives>>
        /\ program # <<>> => step' = step + 1 /\ program[step'] = Call(f, k)
    BY <1>1, <1>2, <1>3, WorkStep
  <1>5. /\ WorkTypeOK' /\ OwnersInv'
        /\ \A j \in Showing' : timers'[j].of \in Regions =>
              j \in Showing /\ timers'[j].of = timers[j].of
    BY <1>1, <1>3, TaskOwners DEF Rests, Closes
  <1>6. k \notin Regions
    BY SubjectAssumption
  <1>7. running' \cap Regions = running \cap Regions
    BY <1>1, <1>6
  <1>8. ASSUME waits PROVE WaitsInv'
    <2>1. WaitsInv /\ phase' = "inside"
      BY <1>1, <1>4, <1>8, WaitingIsBound DEF IInv
    <2>2. /\ IsFiniteSet(running')
          /\ Cardinality(running')
                = IF k \in running THEN Cardinality(running) - 1 ELSE Cardinality(running)
      <3>1. IsFiniteSet(running) /\ running' = running \ {k}
        BY <1>1, <2>1 DEF WaitsInv
      <3>2. CASE k \in running
        BY <3>1, <3>2, OneLess
      <3>3. CASE k \notin running
        <4>1. running' = running
          BY <3>1, <3>3
        <4> QED
          BY <3>1, <3>3, <4>1
      <3> QED
        BY <3>2, <3>3
    <2>3. CASE target = WithTool
      <3>1. Bound(f) /\ i # 0
        BY <1>1, <1>8, <2>1, <2>3, WaitingIsBound, FunctionNames DEF WaitsInv
      <3>2. (i \in Showing <=> k \in running) /\ timers[i].of = k /\ i \notin Showing'
            /\ i \in DOMAIN timers
        BY <1>1, <1>3, <2>1, <2>3, <3>1, OwnTimer DEF WaitsInv
      <3>3. \A j \in DOMAIN handle : j # k => handle[j] # i
        BY <2>1, <2>3, <3>2, OwnTimer DEF WaitsInv
      <3>4. Showing' = Showing \ {i}
        BY <1>3, <3>2 DEF Rests, Closes
      <3>5. /\ \A j \in DOMAIN handle' :
                  handle'[j] # 0 /\ (handle'[j] \in Showing' <=> j \in running')
            /\ \A j \in Showing' : timers'[j].of \in Tasks =>
                  timers'[j].of \in DOMAIN handle' /\ handle'[timers'[j].of] = j
        <4>1. \A j \in Showing' : timers'[j].of = timers[j].of
          BY <1>3, <3>4 DEF KeepsTimers, Showing
        <4> QED
          BY <1>1, <2>1, <2>3, <3>2, <3>3, <3>4, <4>1 DEF WaitsInv
      <3>6. Len(timerStack') = Cardinality(running' \cap Regions)
        BY <1>3, <1>7, <2>1, <2>3 DEF WaitsInv
      <3>7. /\ Cardinality(DOMAIN ranges') = Cardinality(running')
            /\ \A id \in DOMAIN ranges' : ranges'[id] = tsDomain'
        <4>1. CASE Rests
          BY <1>3, <2>1, <2>2, <2>3, <3>2, <4>1 DEF WaitsInv, Rests
        <4>2. CASE i \in Showing /\ Closes(i)
          BY <1>3, <2>1, <2>2, <2>3, <3>2, <4>2 DEF WaitsInv, Closes
        <4> QED
          BY <1>3, <4>1, <4>2
      <3> QED
        BY <1>3, <2>1, <2>2, <3>1, <3>5, <3>6, <3>7 DEF WaitsInv
    <2>4. CASE target # WithTool
      <3>1. ~Bound(f)
        BY <1>1, <2>4, BoundMeans, FunctionNames
      <3> QED
        BY <1>3, <1>4, <2>1, <2>2, <2>4, <3>1 DEF WaitsInv
    <2> QED
      BY <2>3, <2>4
  <1>9. ASSUME program # <<>> PROVE ProgramInv'
    BY <1>4, <1>5, <1>7, <1>9, ProgramKept DEF IInv
  <1>10. TypeOK'
    BY <1>3, <1>4, <1>5, TypePartsNext DEF ToolInv
  <1> QED
    BY <1>3, <1>4, <1>5, <1>8, <1>9, <1>10 DEF IInv

\* A task that is destroyed does not run, so its timer does not show.
LEMMA DestroyKeeps ==
    ASSUME IInv, NEW k \in Tasks, Destroy(k)
    PROVE  IInv' /\ Own
  <1>1. /\ MayWork /\ WorkFrame /\ Due("destroy", k)
        /\ k \in DOMAIN handle \ running /\ running' = running
        /\ handle' = Restrict(handle, DOMAIN handle \ {k})
        /\ IF Bound("destroy") THEN DestroyImpl(handle[k]) ELSE Dropped
    BY DEF Destroy
  <1>2. /\ ToolInv' /\ Own
        /\ UNCHANGED <<live, ranges, tsDomain, timers, timerStack, undefined>>
    <2>1. CASE Bound("destroy")
      <3>1. target = WithTool /\ tsDomain = lives /\ tsDomain # 0 /\ HasDomain
        BY <1>1, <2>1, BoundMeans, FunctionNames
      <3>2. /\ ToolInv' /\ CallsOn(tsDomain)
            /\ UNCHANGED <<nvtxVars, tsDomain, timerVars, undefined>>
        BY <1>1, <2>1, <3>1, DestroyStep DEF IInv
      <3>3. Own
        BY <1>1, <3>1, <3>2, OwnCalls DEF WorkFrame
      <3> QED
        BY <3>2, <3>3 DEF nvtxVars, timerVars
    <2>2. CASE ~Bound("destroy")
      <3>1. /\ ToolInv' /\ calls' = {}
            /\ UNCHANGED <<nvtxVars, tsDomain, timerVars, undefined>>
        BY <1>1, <2>2, DroppedStep DEF IInv
      <3> QED
        BY <3>1 DEF Own, nvtxVars, timerVars
    <2> QED
      BY <2>1, <2>2
  <1>3. /\ ControlTypeOK' /\ ApiInv'
        /\ UNCHANGED <<target, program, waits, phase, lives>>
        /\ program # <<>> => step' = step + 1 /\ program[step'] = Call("destroy", k)
    BY <1>1, <1>2, WorkStep
  <1>4. Showing' = Showing
    BY <1>2 DEF Showing
  <1>5. /\ DOMAIN handle' = DOMAIN handle \ {k}
        /\ \A j \in DOMAIN handle' : handle'[j] = handle[j]
    BY <1>1 DEF Restrict
  <1>6. WorkTypeOK'
    BY <1>1, <1>2, <1>5, TypeParts DEF IInv, WorkTypeOK
  <1>7. OwnersInv'
    BY <1>2, <1>4, <1>5 DEF IInv, OwnersInv, ToSet
  <1>8. ASSUME waits PROVE WaitsInv'
    <2>1. WaitsInv /\ phase' = "inside"
      BY <1>1, <1>3, <1>8, WaitingIsBound DEF IInv
    <2>2. ASSUME target = WithTool
          PROVE  \A i \in Showing : timers[i].of \in Tasks => timers[i].of # k
      BY <1>1, <2>1, <2>2 DEF WaitsInv
    <2> QED
      BY <1>1, <1>2, <1>3, <1>4, <1>5, <2>1, <2>2 DEF WaitsInv
  <1>9. ASSUME program # <<>> PROVE ProgramInv'
    <2>1. running' \cap Regions = running \cap Regions
      BY <1>1
    <2> QED
      BY <1>2, <1>3, <1>4, <1>9, <2>1, ProgramKept DEF IInv
  <1>10. TypeOK'
    BY <1>2, <1>3, <1>6, TypePartsNext DEF ToolInv
  <1> QED
    BY <1>2, <1>3, <1>7, <1>8, <1>9, <1>10 DEF IInv

(***************************************************************************)
(* Calls about a transfer or a command.                                    *)
(***************************************************************************)

LEMMA RegionNames ==
    ASSUME NEW r, NEW q
    PROVE  Call(StartFunction(r), r) # Call(StopFunction(q), q)
  <1>1. StartFunction(r) # StopFunction(q)
    BY DEF StartFunction, StopFunction
  <1> QED
    BY <1>1 DEF Call

\* While a program runs a transfer or command it starts no other.
LEMMA OneRuns ==
    ASSUME TypeOK, ProgramInv, program # <<>>, NEW r \in Regions,
           step' = step + 1, program[step'] = Call(StartFunction(r), r),
           step' \in 1 .. Len(program)
    PROVE  running \cap Regions = {}
  <1> SUFFICES ASSUME NEW q \in running \cap Regions PROVE FALSE
    OBVIOUS
  <1>1. PICK m \in 1 .. step :
           /\ program[m] = Call(StartFunction(q), q)
           /\ \A l \in m .. step : program[l] # Call(StopFunction(q), q)
    BY DEF ProgramInv
  <1>2. /\ program \in Programs /\ step \in Nat
        /\ DOMAIN program = 1 .. Len(program) /\ Len(program) \in Nat
    <2>1. program \in Programs /\ program \in Seq([function : STRING, subject : STRING])
      BY ProgramAssumption DEF TypeOK
    <2> QED
      BY <2>1, LenProperties DEF TypeOK
  <1>3. m \in DOMAIN program /\ step' \in DOMAIN program /\ m < step'
    BY <1>1, <1>2
  <1>4. PICK l \in m .. step' : program[l] = Call(StopFunction(q), q)
    <2>1. OneAtATime(program)
      BY <1>2, ProgramAssumption
    <2> QED
      BY <1>1, <1>3, <2>1 DEF OneAtATime
  <1>5. l # step'
    BY <1>4, RegionNames
  <1>6. l \in m .. step
    BY <1>1, <1>2, <1>4, <1>5
  <1> QED
    BY <1>1, <1>4, <1>6

LEMMA RegionStartKeeps ==
    ASSUME IInv, NEW r \in Regions, RegionStart(r)
    PROVE  IInv' /\ Own
  <1> DEFINE f == StartFunction(r)
             n == Len(timers) + 1
  <1>1. /\ MayWork /\ WorkFrame /\ Due(f, r)
        /\ r \notin running /\ handle' = handle
        /\ running' = running \cup {r}
        /\ IF Bound(f) THEN RegionStartImpl(r) ELSE Dropped
    BY DEF RegionStart
  <1>2. /\ ToolInv' /\ KeepsTimers /\ Own
        /\ \/ Bound(f) /\ Opens(n) /\ n \notin DOMAIN timers /\ n # 0
              /\ DOMAIN timers' = DOMAIN timers \cup {n} /\ timers'[n].of = r
              /\ ToSet(timerStack') = ToSet(timerStack) \cup {n}
              /\ Len(timerStack') = Len(timerStack) + 1
           \/ ~Bound(f) /\ UNCHANGED <<ranges, timerVars>>
        /\ UNCHANGED <<live, tsDomain, undefined>>
    <2>1. CASE Bound(f)
      <3>1. target = WithTool /\ tsDomain = lives /\ tsDomain # 0 /\ HasDomain
        BY <1>1, <2>1, BoundMeans, FunctionNames
      <3>2. r \in STRING
        BY SubjectAssumption
      <3>3. /\ ToolInv' /\ KeepsTimers /\ Opens(n) /\ n \in Nat \ DOMAIN timers
            /\ DOMAIN timers' = DOMAIN timers \cup {n} /\ timers'[n].of = r
            /\ ToSet(timerStack') = ToSet(timerStack) \cup {n}
            /\ Len(timerStack') = Len(timerStack) + 1
            /\ CallsOn(tsDomain)
            /\ UNCHANGED <<live, tsDomain, undefined>>
        BY <1>1, <2>1, <3>1, <3>2, RegionStartStep DEF IInv
      <3>4. Own
        BY <1>1, <3>1, <3>3, OwnCalls DEF WorkFrame
      <3>5. n # 0
        BY LenProperties DEF IInv, ToolInv, ToolTypeOK
      <3> QED
        BY <2>1, <3>3, <3>4, <3>5
    <2>2. CASE ~Bound(f)
      <3>1. /\ ToolInv' /\ calls' = {}
            /\ UNCHANGED <<nvtxVars, tsDomain, timerVars, undefined>>
        BY <1>1, <2>2, DroppedStep DEF IInv
      <3> QED
        BY <2>2, <3>1 DEF Own, nvtxVars, timerVars, KeepsTimers
    <2> QED
      BY <2>1, <2>2
  <1>3. /\ ControlTypeOK' /\ ApiInv'
        /\ UNCHANGED <<target, program, waits, phase, lives>>
        /\ program # <<>> => step' = step + 1 /\ program[step'] = Call(f, r)
    BY <1>1, <1>2, WorkStep
  <1>4. /\ Bound(f) => Showing' = Showing \cup {n}
        /\ ~Bound(f) => Showing' = Showing
    BY <1>2 DEF Opens, Showing, timerVars
  <1> HIDE DEF n
  <1>5. r \notin Tasks
    BY SubjectAssumption
  <1>6. \A i \in DOMAIN timers' :
           \/ i \in DOMAIN timers /\ timers'[i].of = timers[i].of
           \/ Bound(f) /\ i = n /\ timers'[i].of = r
    BY <1>2 DEF KeepsTimers, timerVars
  <1>7. /\ DOMAIN timers \subseteq DOMAIN timers'
        /\ \A i \in DOMAIN timers : timers'[i].of = timers[i].of
    BY <1>2 DEF KeepsTimers
  <1>8. WorkTypeOK'
    BY <1>1, <1>7, TypeParts DEF IInv, WorkTypeOK
  <1>9. OwnersInv'
    <2>1. \A i \in DOMAIN timers' : timers'[i].of \in Tasks \cup Regions
      BY <1>6 DEF IInv, OwnersInv
    <2>2. \A k \in DOMAIN handle' : handle'[k] # 0 => timers'[handle'[k]].of = k
      BY <1>1, <1>7, TypeParts DEF IInv, OwnersInv, WorkTypeOK
    <2>3. ToSet(timerStack') = {i \in Showing' : timers'[i].of \in Regions}
      <3>1. CASE Bound(f)
        BY <1>2, <1>4, <1>7, <3>1 DEF IInv, OwnersInv, Showing
      <3>2. CASE ~Bound(f)
        <4>1. UNCHANGED <<timers, timerStack>>
          BY <1>2, <3>2 DEF timerVars
        <4> QED
          BY <1>4, <3>2, <4>1 DEF IInv, OwnersInv, ToSet
      <3> QED
        BY <3>1, <3>2
    <2> QED
      BY <2>1, <2>2, <2>3 DEF OwnersInv
  <1>10. running' \cap Regions = (running \cap Regions) \cup {r}
    BY <1>1
  <1>11. ASSUME waits PROVE WaitsInv'
    <2>1. WaitsInv /\ phase' = "inside"
      BY <1>1, <1>3, <1>11, WaitingIsBound DEF IInv
    <2>2. /\ IsFiniteSet(running')
          /\ Cardinality(running') = Cardinality(running) + 1
          /\ Cardinality(running' \cap Regions) = Cardinality(running \cap Regions) + 1
      <3>1. IsFiniteSet(running \cap Regions)
        BY <2>1, FS_Subset DEF WaitsInv
      <3>2. IsFiniteSet(running) /\ running' = running \cup {r} /\ r \notin running
        BY <1>1, <2>1 DEF WaitsInv
      <3>3. /\ IsFiniteSet(running')
            /\ Cardinality(running') = Cardinality(running) + 1
        BY <3>2, OneMore
      <3>4. Cardinality(running' \cap Regions) = Cardinality(running \cap Regions) + 1
        BY <1>10, <3>1, <3>2, OneMore
      <3> QED
        BY <3>3, <3>4
    <2>3. CASE target = WithTool
      <3>1. Bound(f)
        BY <1>1, <1>11, <2>3, WaitingIsBound, FunctionNames
      <3>2. \A k \in DOMAIN handle :
               handle[k] # 0 /\ (handle[k] \in Showing <=> k \in running)
               /\ k # r /\ handle[k] # n
        BY <1>2, <1>5, <2>1, <2>3, <3>1, TypeParts DEF WaitsInv, IInv, WorkTypeOK
      <3>3. \A k \in DOMAIN handle' :
               handle'[k] # 0 /\ (handle'[k] \in Showing' <=> k \in running')
        BY <1>1, <1>4, <3>1, <3>2
      <3>4. \A i \in Showing' : timers'[i].of \in Tasks =>
               timers'[i].of \in DOMAIN handle' /\ handle'[timers'[i].of] = i
        BY <1>1, <1>2, <1>4, <1>5, <1>7, <2>1, <2>3, <3>1 DEF WaitsInv, Showing
      <3>5. Len(timerStack') = Cardinality(running' \cap Regions)
        BY <1>2, <2>1, <2>2, <2>3, <3>1 DEF WaitsInv
      <3>6. /\ Cardinality(DOMAIN ranges') = Cardinality(running')
            /\ \A id \in DOMAIN ranges' : ranges'[id] = tsDomain'
        BY <1>2, <2>1, <2>2, <2>3, <3>1 DEF WaitsInv, Opens
      <3> QED
        BY <1>2, <2>1, <2>2, <3>3, <3>4, <3>5, <3>6 DEF WaitsInv
    <2>4. CASE target # WithTool
      BY <1>2, <1>3, <2>1, <2>2, <2>4 DEF WaitsInv
    <2> QED
      BY <2>3, <2>4
  <1>12. ASSUME program # <<>> PROVE ProgramInv'
    <2>1. step \in Nat /\ step' = step + 1 /\ step' \in 1 .. Len(program)
      BY <1>3, <1>12 DEF IInv, TypeOK, ControlTypeOK
    <2>2. running \cap Regions = {}
      BY <1>3, <1>12, <2>1, OneRuns DEF IInv
    <2>3. running' \cap Regions = {r}
      BY <1>10, <2>2
    <2>4. \A q \in running' \cap Regions : \E m \in 1 .. step' :
             /\ program'[m] = Call(StartFunction(q), q)
             /\ \A l \in m .. step' : program'[l] # Call(StopFunction(q), q)
      <3>1. \A l \in step' .. step' : l = step'
        BY <2>1
      <3>2. program[step'] # Call(StopFunction(r), r)
        BY <1>3, <1>12, RegionNames
      <3> QED
        BY <1>3, <1>12, <2>1, <2>3, <3>1, <3>2
    <2>5. target = WithTool => \A i \in Showing' :
             timers'[i].of \in Regions => timers'[i].of \in running'
      BY <1>2, <1>4, <1>7, <1>12, <2>2, <2>3 DEF IInv, ProgramInv, Showing
    <2> QED
      BY <1>3, <2>3, <2>4, <2>5 DEF ProgramInv
  <1>13. TypeOK'
    BY <1>2, <1>3, <1>8, TypePartsNext DEF ToolInv
  <1> QED
    BY <1>2, <1>3, <1>9, <1>11, <1>12, <1>13 DEF IInv

\* Where one runs, one is on the stack.
LEMMA StackNotEmpty ==
    ASSUME WaitsInv, target = WithTool, running \cap Regions # {}
    PROVE  timerStack # <<>> /\ Cardinality(running \cap Regions) \in Nat \ {0}
  <1>1. IsFiniteSet(running \cap Regions)
    BY FS_Subset DEF WaitsInv
  <1>2. Cardinality(running \cap Regions) \in Nat \ {0}
    BY <1>1, FS_EmptySet, FS_CardinalityType
  <1>3. Len(<<>>) = 0
    OBVIOUS
  <1> QED
    BY <1>2, <1>3 DEF WaitsInv

LEMMA RegionStopKeeps ==
    ASSUME IInv, NEW r \in Regions, RegionStop(r)
    PROVE  IInv' /\ Own
  <1> DEFINE f == StopFunction(r)
             i == Last(timerStack)
  <1>1. /\ MayWork /\ WorkFrame /\ Due(f, r)
        /\ r \in running /\ handle' = handle
        /\ running' = running \ {r}
        /\ IF Bound(f) THEN RegionStopImpl ELSE Dropped
    BY DEF RegionStop
  <1>2. /\ ToolInv' /\ KeepsTimers /\ DOMAIN timers' = DOMAIN timers /\ Own
        /\ \/ Bound(f) /\ timerStack # <<>> /\ undefined' = undefined
              /\ Closes(i) /\ i \in ToSet(timerStack)
              /\ ToSet(timerStack') = ToSet(timerStack) \ {i}
              /\ Len(timerStack') = Len(timerStack) - 1
           \/ (Bound(f) => timerStack = <<>>) /\ UNCHANGED <<ranges, timerVars>>
              /\ (~Bound(f) => undefined' = undefined)
        /\ UNCHANGED <<live, tsDomain>>
    <2>1. CASE Bound(f) /\ timerStack # <<>>
      <3>1. target = WithTool /\ tsDomain = lives /\ tsDomain # 0 /\ HasDomain
        BY <1>1, <2>1, BoundMeans, FunctionNames
      <3>2. RegionStopImpl
        BY <1>1, <2>1
      <3>3. /\ ToolInv' /\ KeepsTimers /\ DOMAIN timers' = DOMAIN timers
            /\ i \in ToSet(timerStack) /\ Closes(i)
            /\ ToSet(timerStack') = ToSet(timerStack) \ {i}
            /\ Len(timerStack') = Len(timerStack) - 1
            /\ CallsOn(tsDomain)
            /\ UNCHANGED <<live, tsDomain, undefined>>
        BY <2>1, <3>2, RegionStopStep DEF IInv
      <3>4. Own
        BY <1>1, <3>1, <3>3, OwnCalls DEF WorkFrame
      <3> QED
        BY <2>1, <3>3, <3>4
    <2>2. CASE Bound(f) /\ timerStack = <<>>
      <3>1. NullTimer /\ UNCHANGED <<live, tsDomain, registeredStrings, timerStack>>
        BY <1>1, <2>2 DEF RegionStopImpl
      <3>2. ToolInv' /\ Rests /\ timers' = timers /\ calls' = {}
        BY <3>1, NullStep DEF IInv
      <3> QED
        BY <2>2, <3>1, <3>2 DEF Own, KeepsTimers, Rests, timerVars
    <2>3. CASE ~Bound(f)
      <3>1. /\ ToolInv' /\ calls' = {}
            /\ UNCHANGED <<nvtxVars, tsDomain, timerVars, undefined>>
        BY <1>1, <2>3, DroppedStep DEF IInv
      <3> QED
        BY <2>3, <3>1 DEF Own, nvtxVars, timerVars, KeepsTimers
    <2> QED
      BY <2>1, <2>2, <2>3
  <1>3. /\ ControlTypeOK' /\ ApiInv'
        /\ UNCHANGED <<target, program, waits, phase, lives>>
        /\ program # <<>> => step' = step + 1 /\ program[step'] = Call(f, r)
    BY <1>1, <1>2, WorkStep
  <1> HIDE DEF i
  <1>4. \A j \in DOMAIN timers : timers'[j].of = timers[j].of
    BY <1>2 DEF KeepsTimers
  <1>5. WorkTypeOK'
    <2>1. running' \subseteq DOMAIN handle' \cup Regions
      BY <1>1, TypeParts DEF IInv, WorkTypeOK
    <2> QED
      BY <1>1, <1>2, <2>1, TypeParts DEF IInv, WorkTypeOK
  <1>6. OwnersInv'
    <2>1. \A j \in DOMAIN timers' : timers'[j].of \in Tasks \cup Regions
      BY <1>2, <1>4 DEF IInv, OwnersInv
    <2>2. \A k \in DOMAIN handle' : handle'[k] # 0 => timers'[handle'[k]].of = k
      BY <1>1, <1>4, TypeParts DEF IInv, OwnersInv, WorkTypeOK
    <2>3. ToSet(timerStack') = {j \in Showing' : timers'[j].of \in Regions}
      <3>1. CASE Showing' = Showing \ {i} /\ ToSet(timerStack') = ToSet(timerStack) \ {i}
        BY <1>4, <3>1 DEF IInv, OwnersInv, Showing
      <3>2. CASE UNCHANGED <<ranges, timerVars>>
        <4>1. UNCHANGED <<timers, timerStack>> /\ Showing' = Showing
          BY <3>2 DEF timerVars, Showing
        <4> QED
          BY <4>1 DEF IInv, OwnersInv, ToSet
      <3> QED
        BY <1>2, <3>1, <3>2 DEF Closes
    <2> QED
      BY <2>1, <2>2, <2>3 DEF OwnersInv
  <1>7. /\ running' \cap Regions = (running \cap Regions) \ {r}
        /\ r \in running \cap Regions
    BY <1>1
  <1>8. ASSUME waits PROVE WaitsInv'
    <2>1. WaitsInv /\ phase' = "inside"
      BY <1>1, <1>3, <1>8, WaitingIsBound DEF IInv
    <2>2. /\ IsFiniteSet(running')
          /\ Cardinality(running') = Cardinality(running) - 1
          /\ Cardinality(running' \cap Regions) = Cardinality(running \cap Regions) - 1
      <3>1. IsFiniteSet(running \cap Regions)
        BY <2>1, FS_Subset DEF WaitsInv
      <3>2. IsFiniteSet(running) /\ running' = running \ {r} /\ r \in running
        BY <1>1, <1>7, <2>1 DEF WaitsInv
      <3>3. /\ IsFiniteSet(running')
            /\ Cardinality(running') = Cardinality(running) - 1
        BY <3>2, OneLess
      <3>4. Cardinality(running' \cap Regions) = Cardinality(running \cap Regions) - 1
        BY <1>7, <3>1, OneLess
      <3> QED
        BY <3>3, <3>4
    <2>3. CASE target = WithTool
      <3>1. Bound(f)
        BY <1>1, <1>8, <2>3, WaitingIsBound, FunctionNames
      <3>2. timerStack # <<>>
        BY <1>7, <2>1, <2>3, StackNotEmpty
      <3>3. i \in Showing /\ timers[i].of \in Regions
        BY <1>2, <3>1, <3>2 DEF IInv, OwnersInv
      <3>4. \A k \in DOMAIN handle : handle[k] # i /\ k # r
        <4>1. \A k \in DOMAIN handle : handle[k] # 0 /\ k \in Tasks
          BY <2>1, <2>3, TypeParts DEF WaitsInv, IInv, WorkTypeOK
        <4> QED
          BY <3>3, <4>1, OwnTimer, SubjectAssumption
      <3>5. Showing' = Showing \ {i}
        BY <1>2, <3>1, <3>2 DEF Closes
      <3>6. /\ \A k \in DOMAIN handle' :
                  handle'[k] # 0 /\ (handle'[k] \in Showing' <=> k \in running')
            /\ \A j \in Showing' : timers'[j].of \in Tasks =>
                  timers'[j].of \in DOMAIN handle' /\ handle'[timers'[j].of] = j
        <4>1. \A j \in Showing' : timers'[j].of = timers[j].of
          BY <1>4, <3>5 DEF Showing
        <4> QED
          BY <1>1, <2>1, <2>3, <3>4, <3>5, <4>1 DEF WaitsInv
      <3>7. Len(timerStack') = Cardinality(running' \cap Regions)
        BY <1>2, <2>1, <2>2, <2>3, <3>1, <3>2 DEF WaitsInv
      <3>8. /\ Cardinality(DOMAIN ranges') = Cardinality(running')
            /\ \A id \in DOMAIN ranges' : ranges'[id] = tsDomain'
        BY <1>2, <2>1, <2>2, <2>3, <3>1, <3>2 DEF WaitsInv, Closes
      <3> QED
        BY <1>2, <2>1, <2>2, <3>1, <3>2, <3>6, <3>7, <3>8 DEF WaitsInv
    <2>4. CASE target # WithTool
      <3>1. ~Bound(f)
        BY <1>1, <2>4, BoundMeans, FunctionNames
      <3> QED
        BY <1>2, <1>3, <2>1, <2>2, <2>4, <3>1 DEF WaitsInv
    <2> QED
      BY <2>3, <2>4
  <1>9. ASSUME program # <<>> PROVE ProgramInv'
    <2>1. running' \cap Regions = {}
      BY <1>7, <1>9 DEF IInv, ProgramInv
    <2>2. ASSUME target = WithTool
          PROVE  \A j \in Showing' : timers'[j].of \notin Regions
      <3>1. WaitsInv' /\ target' = WithTool
        BY <1>3, <1>8, <1>9, <2>2 DEF IInv
      <3>2. Len(timerStack') = 0
        BY <2>1, <3>1, FS_EmptySet DEF WaitsInv
      <3>3. timerStack' \in Seq(DOMAIN timers')
        BY <1>2 DEF ToolInv, ToolTypeOK
      <3>4. DOMAIN timerStack' = {}
        BY <3>2, <3>3, LenProperties
      <3>5. ToSet(timerStack') = {}
        BY <3>4 DEF ToSet
      <3> QED
        BY <1>6, <3>5 DEF OwnersInv
    <2> QED
      BY <1>3, <2>1, <2>2 DEF ProgramInv
  <1>10. TypeOK'
    BY <1>2, <1>3, <1>5, TypePartsNext DEF ToolInv
  <1> QED
    BY <1>2, <1>3, <1>6, <1>8, <1>9, <1>10 DEF IInv

(***************************************************************************)
(* tasktimer_initialize and tasktimer_finalize.                            *)
(***************************************************************************)

LEMMA InitKeeps == Init => IInv
  <1> SUFFICES ASSUME Init PROVE IInv
    OBVIOUS
  <1>1. /\ live = {} /\ ranges = <<>> /\ tsDomain = 0 /\ registeredStrings = <<>>
        /\ timers = <<>> /\ timerStack = <<>> /\ calls = {} /\ undefined = FALSE
        /\ target \in {WithTool, WithoutTool}
        /\ table = [f \in Functions |-> "none"] /\ ran = FALSE
        /\ program \in Programs /\ waits \in BOOLEAN /\ (program # <<>> => waits)
        /\ step = 0 /\ phase = "outside" /\ lives = 0
        /\ handle = <<>> /\ running = {}
    BY DEF Init, ToolInit, Table!Init
  <1>2. DOMAIN <<>> = {} /\ Len(<<>>) = 0
    OBVIOUS
  <1>3. ToolTypeOK
    BY <1>1, <1>2, EmptySeq DEF ToolTypeOK
  <1>4. Showing = {} /\ ToSet(timerStack) = {}
    BY <1>1, <1>2 DEF Showing, ToSet
  <1>5. ToolInv
    BY <1>1, <1>2, <1>3, <1>4, FS_EmptySet
    DEF ToolInv, RangesOwned, MessagesRegistered, StackShows
  <1>6. TypeOK
    <2>1. program \in Seq([function : STRING, subject : STRING])
      BY <1>1, ProgramAssumption
    <2>2. Len(program) \in Nat
      BY <2>1, LenProperties
    <2>3. ControlTypeOK
      <3>1. table \in [Functions -> {"nvtx", "none"}] /\ ran \in BOOLEAN
        BY <1>1
      <3>2. step \in 0 .. Len(program)
        BY <1>1, <2>2
      <3> QED
        BY <1>1, <3>1, <3>2 DEF ControlTypeOK
    <2>4. WorkTypeOK
      BY <1>1, <1>2 DEF WorkTypeOK
    <2> QED
      BY <1>3, <2>3, <2>4, TypeParts
  <1>7. ApiInv
    BY <1>1, TwoTargets DEF ApiInv, Bound, WithoutTool
  <1>8. OwnersInv
    BY <1>1, <1>2, <1>4 DEF OwnersInv
  <1>9. WaitsInv
    <2>1. running \cap Regions = {}
      BY <1>1
    <2> QED
      BY <1>1, <1>2, <1>4, <2>1, FS_EmptySet DEF WaitsInv
  <1>10. ProgramInv
    BY <1>1, <1>4 DEF ProgramInv
  <1> QED
    BY <1>1, <1>5, <1>6, <1>7, <1>8, <1>9, <1>10 DEF IInv

\* What a step inside tasktimer_initialize does to the program: nothing.
LEMMA ProgramStays ==
    ASSUME ProgramInv, UNCHANGED <<program, step, target, timerVars, workVars>>
    PROVE  ProgramInv'
  <1>1. UNCHANGED <<timers, running>> /\ Showing' = Showing
    BY DEF timerVars, workVars, Showing
  <1> QED
    BY <1>1 DEF ProgramInv

\* The functions of the life before stay bound, and its domain gone.
LEMMA EnterKeeps ==
    ASSUME IInv, Enter
    PROVE  IInv' /\ Own
  <1>1. /\ phase = "outside" /\ Due("initialize", "")
        /\ phase' = "entering" /\ Dropped
        /\ UNCHANGED <<target, table, ran, program, waits, lives, workVars>>
    BY DEF Enter, tableVars, planVars
  <1>2. /\ ToolInv' /\ calls' = {}
        /\ UNCHANGED <<live, tsDomain, ranges, timerVars, undefined>>
    BY <1>1, DroppedStep DEF IInv, nvtxVars
  <1>3. /\ ControlTypeOK'
        /\ program # <<>> => step' = step + 1 /\ program[step'] = Call("initialize", "")
    <2>1. /\ step' \in 0 .. Len(program')
          /\ program # <<>> => step' = step + 1 /\ program[step'] = Call("initialize", "")
      BY <1>1, DueStep DEF IInv
    <2> QED
      BY <1>1, <2>1, TypeParts DEF IInv, ControlTypeOK
  <1>4. ApiInv'
    BY <1>1, <1>2 DEF IInv, ApiInv, Bound
  <1>5. WorkTypeOK' /\ OwnersInv'
    BY <1>1, <1>2, QuietOwners
  <1>6. waits' => WaitsInv'
    <2>1. waits => running = {}
      BY <1>1 DEF IInv, WaitsInv
    <2> QED
      BY <1>1, <1>2, <2>1, QuietWaits
  <1>7. program' # <<>> => waits' /\ ProgramInv'
    <2>1. "initialize" \notin {"data_transfer_stop", "command_stop"}
      OBVIOUS
    <2> QED
      BY <1>1, <1>2, <1>3, <2>1, QuietProgram DEF IInv
  <1>8. TypeOK'
    BY <1>2, <1>3, <1>5, TypePartsNext DEF ToolInv
  <1> QED
    BY <1>2, <1>4, <1>5, <1>6, <1>7, <1>8 DEF IInv, Own

LEMMA InitializeAloneKeeps ==
    ASSUME IInv, InitializeAlone
    PROVE  IInv' /\ Own
  <1>1. /\ phase = "entering"
        /\ target = WithoutTool /\ phase' = "inside" /\ lives' = lives + 1
        /\ Dropped
        /\ UNCHANGED <<target, table, ran, program, waits, step, workVars>>
    BY DEF InitializeAlone, tableVars, planVars
  <1>2. /\ ToolInv' /\ calls' = {}
        /\ UNCHANGED <<live, tsDomain, ranges, timerVars, undefined>>
    BY <1>1, DroppedStep DEF IInv, nvtxVars
  <1>3. lives \in Nat /\ lives' = lives + 1 /\ lives' \in Nat \ {0}
    <2>1. lives \in Nat /\ lives' = lives + 1
      BY DEF IInv, TypeOK, InitializeAlone
    <2> QED
      BY <2>1
  <1>4. ControlTypeOK'
    <2>1. ControlTypeOK
      BY TypeParts DEF IInv
    <2> QED
      BY <1>1, <1>3, <2>1 DEF ControlTypeOK
  <1>5. ApiInv'
    <2>1. \A f \in Functions : Bound(f)' => ran'
      BY <1>1 DEF IInv, ApiInv, Bound
    <2>2. /\ table' = WithoutTool /\ tsDomain' = 0 /\ live' = {}
          /\ target' # WithTool /\ phase' # "initializing"
      BY <1>1, <1>2, TwoTargets DEF IInv, ApiInv
    <2> QED
      BY <1>3, <2>1, <2>2 DEF ApiInv
  <1>6. WorkTypeOK' /\ OwnersInv'
    BY <1>1, <1>2, QuietOwners
  <1>7. waits' => WaitsInv'
    BY <1>1, <1>2, QuietWaits
  <1>8. program' # <<>> => waits' /\ ProgramInv'
    BY <1>1, <1>2, ProgramStays DEF IInv
  <1>9. TypeOK'
    BY <1>2, <1>4, <1>6, TypePartsNext DEF ToolInv
  <1> QED
    BY <1>2, <1>5, <1>6, <1>7, <1>8, <1>9 DEF IInv, Own

\* A new life has a new domain, and no range of the life before is open
\* where the application waits.
LEMMA InitializeKeeps ==
    ASSUME IInv, Initialize
    PROVE  IInv' /\ Own
  <1>1. /\ phase = "entering"
        /\ target = WithTool /\ phase' = "initializing" /\ lives' = lives + 1
        /\ InitializeImpl
        /\ IF ran THEN UNCHANGED tableVars ELSE Table!Run
        /\ UNCHANGED <<program, waits, step, workVars>>
    BY DEF Initialize, planVars
  <1>2. UNCHANGED <<target, table>> /\ ran'
    BY <1>1 DEF tableVars, Table!Run
  <1>3. /\ ToolInv' /\ CallsOn(tsDomain') /\ \A c \in calls' : c.what = "text"
        /\ tsDomain' = tsDomain + 1 /\ live' = live \cup {tsDomain'}
        /\ UNCHANGED <<ranges, timerVars, undefined>>
    BY <1>1, InitializeStep DEF IInv
  <1>4. /\ lives' \in Nat \ {0} /\ (lives' <= 1 => lives' = 1)
        /\ tsDomain' = lives' /\ live' = {tsDomain'} /\ ran' \in BOOLEAN
    <2>1. ran' \in BOOLEAN
      BY <1>1 DEF tableVars, Table!Run, IInv, TypeOK
    <2>2. lives \in Nat /\ lives' = lives + 1
      BY DEF IInv, TypeOK, Initialize
    <2>3. tsDomain = lives /\ live = {}
      BY <1>1 DEF IInv, ApiInv
    <2>4. lives' \in Nat \ {0} /\ (lives' <= 1 => lives' = 1)
      BY <2>2
    <2> QED
      BY <1>3, <2>1, <2>2, <2>3, <2>4
  <1>5. Own
    <2>1. \A c \in calls' : c.on = lives' /\ c.on \in live' /\ c.from \in 1 .. lives'
      BY <1>1, <1>3, <1>4 DEF CallsOn
    <2>2. \A c \in calls' : lives' <= 1 => c.from = c.on
      <3>1. \A n \in 1 .. 1 : n = 1
        OBVIOUS
      <3> QED
        BY <1>4, <2>1, <3>1
    <2> QED
      BY <1>3, <2>1, <2>2 DEF Own
  <1>6. ControlTypeOK'
    <2>1. ControlTypeOK
      BY TypeParts DEF IInv
    <2> QED
      BY <1>1, <1>2, <1>4, <2>1 DEF ControlTypeOK
  <1>7. ApiInv'
    <2>1. lives' > 0 /\ lives' # 0
      BY <1>4
    <2> QED
      BY <1>1, <1>2, <1>4, <2>1, TwoTargets DEF ApiInv
  <1>8. WorkTypeOK' /\ OwnersInv'
    BY <1>1, <1>3, QuietOwners
  <1>9. waits' => WaitsInv'
    <2>1. waits => running = {}
      BY <1>1 DEF IInv, WaitsInv
    <2> QED
      BY <1>1, <1>2, <1>3, <2>1, QuietWaits
  <1>10. program' # <<>> => waits' /\ ProgramInv'
    BY <1>1, <1>2, <1>3, ProgramStays DEF IInv
  <1>11. TypeOK'
    BY <1>3, <1>6, <1>8, TypePartsNext DEF ToolInv
  <1> QED
    BY <1>3, <1>5, <1>7, <1>8, <1>9, <1>10, <1>11 DEF IInv

LEMMA BindKeeps ==
    ASSUME IInv, Bind
    PROVE  IInv' /\ Own
  <1>1. /\ phase = "initializing" /\ Dropped
        /\ UNCHANGED <<program, waits, step, phase, lives, workVars>>
    BY DEF Bind, planVars
  <1>2. PICK n \in DOMAIN BindOrder : Table!Bind(BindOrder[n])
    BY DEF Bind
  <1>3. /\ UNCHANGED <<target, ran>> /\ ran
        /\ table' = [table EXCEPT ![BindOrder[n]] = target[BindOrder[n]]]
        /\ BindOrder[n] \in Functions
    BY <1>2 DEF Table!Bind, Functions, ToSet
  <1>4. target = WithTool
    BY <1>1 DEF IInv, ApiInv, TypeOK
  <1>5. table' \in [Functions -> {"nvtx", "none"}]
    BY <1>3, <1>4 DEF IInv, TypeOK, WithTool
  <1>6. /\ ToolInv' /\ calls' = {}
        /\ UNCHANGED <<live, tsDomain, ranges, timerVars, undefined>>
    BY <1>1, DroppedStep DEF IInv, nvtxVars
  <1>7. ControlTypeOK'
    BY <1>1, <1>3, <1>5, TypeParts DEF IInv, ControlTypeOK
  <1>8. ApiInv'
    BY <1>1, <1>3, <1>4, <1>6, TwoTargets DEF IInv, ApiInv
  <1>9. WorkTypeOK' /\ OwnersInv'
    BY <1>1, <1>6, QuietOwners
  <1>10. waits' => WaitsInv'
    <2>1. waits => running = {}
      BY <1>1 DEF IInv, WaitsInv
    <2> QED
      BY <1>1, <1>3, <1>6, <2>1, QuietWaits
  <1>11. program' # <<>> => waits' /\ ProgramInv'
    BY <1>1, <1>3, <1>6, ProgramStays DEF IInv
  <1>12. TypeOK'
    BY <1>6, <1>7, <1>9, TypePartsNext DEF ToolInv
  <1> QED
    BY <1>6, <1>8, <1>9, <1>10, <1>11, <1>12 DEF IInv, Own

LEMMA ReturnKeeps ==
    ASSUME IInv, Return
    PROVE  IInv' /\ Own
  <1>1. /\ phase = "initializing" /\ phase' = "inside" /\ Dropped
        /\ \A f \in Functions : Bound(f)
        /\ UNCHANGED <<target, table, ran, program, waits, step, lives, workVars>>
    BY DEF Return, planVars, tableVars
  <1>2. /\ ToolInv' /\ calls' = {}
        /\ UNCHANGED <<live, tsDomain, ranges, timerVars, undefined>>
    BY <1>1, DroppedStep DEF IInv, nvtxVars
  <1>3. ControlTypeOK'
    BY <1>1, TypeParts DEF IInv, ControlTypeOK
  <1>4. ApiInv'
    BY <1>1, <1>2 DEF IInv, ApiInv, Bound
  <1>5. WorkTypeOK' /\ OwnersInv'
    BY <1>1, <1>2, QuietOwners
  <1>6. waits' => WaitsInv'
    BY <1>1, <1>2, QuietWaits
  <1>7. program' # <<>> => waits' /\ ProgramInv'
    BY <1>1, <1>2, ProgramStays DEF IInv
  <1>8. TypeOK'
    BY <1>2, <1>3, <1>5, TypePartsNext DEF ToolInv
  <1> QED
    BY <1>2, <1>4, <1>5, <1>6, <1>7, <1>8 DEF IInv, Own

\* The domain goes when nothing shows.
LEMMA FinalizeKeeps ==
    ASSUME IInv, Finalize
    PROVE  IInv' /\ Own
  <1>1. /\ phase = "inside" /\ running = {} /\ Due("finalize", "")
        /\ IF Bound("finalize") THEN FinalizeImpl ELSE Dropped
        /\ phase' = "outside"
        /\ UNCHANGED <<target, table, ran, program, waits, lives, workVars>>
    BY DEF Finalize, planVars, tableVars
  <1>2. "finalize" \in Functions /\ MayWork
    BY <1>1, FunctionNames DEF MayWork
  <1>3. /\ ToolInv' /\ Own
        /\ live' = IF target = WithTool THEN {} ELSE live
        /\ UNCHANGED <<tsDomain, ranges, timerVars, undefined>>
    <2>1. CASE Bound("finalize")
      <3>1. target = WithTool /\ tsDomain = lives /\ tsDomain # 0 /\ live = {tsDomain}
        BY <1>1, <1>2, <2>1, BoundMeans
      <3>2. /\ ToolInv' /\ CallsOn(tsDomain) /\ live' = live \ {tsDomain}
            /\ UNCHANGED <<tsDomain, ranges, timerVars, undefined>>
        BY <1>1, <2>1, <3>1, FinalizeStep DEF IInv
      <3>3. Own
        BY <1>1, <3>1, <3>2, OwnCalls DEF HasDomain
      <3> QED
        BY <3>1, <3>2, <3>3
    <2>2. CASE ~Bound("finalize")
      <3>1. /\ ToolInv' /\ calls' = {}
            /\ UNCHANGED <<live, tsDomain, ranges, timerVars, undefined>>
        BY <1>1, <2>2, DroppedStep DEF IInv, nvtxVars
      <3>2. target # WithTool
        BY <1>1, <1>2, <2>2 DEF IInv, ApiInv
      <3> QED
        BY <3>1, <3>2 DEF Own
    <2> QED
      BY <2>1, <2>2
  <1>4. /\ ControlTypeOK'
        /\ program # <<>> => step' = step + 1 /\ program[step'] = Call("finalize", "")
    <2>1. /\ step' \in 0 .. Len(program')
          /\ program # <<>> => step' = step + 1 /\ program[step'] = Call("finalize", "")
      BY <1>1, DueStep DEF IInv
    <2> QED
      BY <1>1, <2>1, TypeParts DEF IInv, ControlTypeOK
  <1>5. ApiInv'
    BY <1>1, <1>3, TwoTargets DEF IInv, ApiInv, Bound
  <1>6. WorkTypeOK' /\ OwnersInv'
    BY <1>1, <1>3, QuietOwners
  <1>7. waits' => WaitsInv'
    BY <1>1, <1>3, QuietWaits
  <1>8. program' # <<>> => waits' /\ ProgramInv'
    <2>1. "finalize" \notin {"data_transfer_stop", "command_stop"}
      OBVIOUS
    <2> QED
      BY <1>1, <1>3, <1>4, <2>1, QuietProgram DEF IInv
  <1>9. TypeOK'
    BY <1>3, <1>4, <1>6, TypePartsNext DEF ToolInv
  <1> QED
    BY <1>3, <1>5, <1>6, <1>7, <1>8, <1>9 DEF IInv

(***************************************************************************)
(* The theorems.                                                           *)
(***************************************************************************)

\* A step keeps the invariant, and calls NVTX as OwnDomain says.
LEMMA StepKeeps ==
    ASSUME IInv, Next
    PROVE  IInv' /\ Own
  <1>1. \/ Enter \/ InitializeAlone \/ Initialize \/ Bind \/ Return \/ Finalize
        \/ \E k \in Tasks :
              \/ Create(k) \/ Schedule(k) \/ Start(k)
              \/ Stop(k) \/ Destroy(k) \/ AddRelatives(k)
        \/ \E r \in Regions : RegionStart(r) \/ RegionStop(r)
        \/ \E label \in Labels : Mark(label)
    BY DEF Next, Work
  <1>2. CASE Enter \/ InitializeAlone \/ Initialize \/ Bind \/ Return \/ Finalize
    BY <1>2, EnterKeeps, InitializeAloneKeeps, InitializeKeeps, BindKeeps, ReturnKeeps, FinalizeKeeps
  <1>3. ASSUME NEW k \in Tasks,
               \/ Create(k) \/ Schedule(k) \/ Start(k)
               \/ Stop(k) \/ Destroy(k) \/ AddRelatives(k)
        PROVE  IInv' /\ Own
    BY <1>3, CreateKeeps, ScheduleKeeps, StartKeeps, StopKeeps, DestroyKeeps,
       AddRelativesKeeps
  <1>4. ASSUME NEW r \in Regions, RegionStart(r) \/ RegionStop(r)
        PROVE  IInv' /\ Own
    BY <1>4, RegionStartKeeps, RegionStopKeeps
  <1>5. ASSUME NEW label \in Labels, Mark(label)
        PROVE  IInv' /\ Own
    BY <1>5, MarkKeeps
  <1> QED
    BY <1>1, <1>2, <1>3, <1>4, <1>5

LEMMA StutterKeeps ==
    ASSUME IInv, UNCHANGED vars
    PROVE  IInv'
  <1>1. /\ UNCHANGED <<live, ranges, timers, timerStack, tsDomain, registeredStrings>>
        /\ UNCHANGED <<calls, undefined, target, table, ran, program, waits, step>>
        /\ UNCHANGED <<phase, lives, handle, running>>
    BY DEF vars, toolVars, nvtxVars, timerVars, tableVars, planVars, workVars
  <1>2. ToolTypeOK'
    BY <1>1 DEF IInv, ToolInv, ToolTypeOK
  <1>3. ToolInv'
    BY <1>1, <1>2, TimersKept DEF IInv, ToolInv, MessagesRegistered
  <1>4. ControlTypeOK'
    BY <1>1, TypeParts DEF IInv, ControlTypeOK
  <1>5. WorkTypeOK' /\ OwnersInv' /\ Showing' = Showing
    BY <1>1, QuietOwners DEF timerVars, workVars
  <1>6. ApiInv'
    BY <1>1 DEF IInv, ApiInv, Bound
  <1>7. waits' => WaitsInv'
    <2>1. waits => phase' = "inside" \/ running = {}
      BY <1>1 DEF IInv, WaitsInv
    <2> QED
      BY <1>1, <2>1, QuietWaits DEF timerVars, workVars
  <1>8. program' # <<>> => waits' /\ ProgramInv'
    BY <1>1, ProgramStays DEF IInv, timerVars, workVars
  <1> QED
    BY <1>2, <1>3, <1>4, <1>5, <1>6, <1>7, <1>8, TypePartsNext DEF IInv

LEMMA Invariance == Spec => []IInv
  <1>1. Init => IInv
    BY InitKeeps
  <1>2. IInv /\ [Next]_vars => IInv'
    BY StepKeeps, StutterKeeps
  <1> QED
    BY <1>1, <1>2, PTL DEF Spec

\* The state of tool, API and application keeps its type: above all, every
\* handle is a timer that was made, every timer on the stack exists, and
\* nothing refers to a domain that was never created.
THEOREM TypeCorrect == Spec => []TypeOK
  <1>1. IInv => TypeOK
    BY DEF IInv
  <1> QED
    BY <1>1, Invariance, PTL

\* The tool calls NVTX for a domain that exists, in every life and for every
\* application but one that does not wait and calls between lives; ranges and
\* texts come from that domain where OwnDomain says.
THEOREM DomainOwned == Spec => OwnDomain
  <1>1. IInv /\ [Next]_vars => [Own]_vars
    BY StepKeeps
  <1>2. Own => \A c \in calls' :
          /\ (~waits /\ BetweenLives') \/ c.on \in live \cup live'
          /\ c.what = "text" /\ lives' <= 1 => c.from = c.on
          /\ c.what = "range" /\ waits => c.from = c.on
    BY DEF Own
  <1> QED
    BY <1>1, <1>2, Invariance, PTL DEF Spec, OwnDomain, Own

\* An application that waits for tasktimer_initialize to return never makes
\* the tool read a null timer or the top of an empty stack.
THEOREM AlwaysDefined == Spec => []Defined
  <1>1. IInv => Defined
    BY DEF IInv, WaitsInv, Defined
  <1> QED
    BY <1>1, Invariance, PTL

\* The ranges of a program are those of what it runs.
LEMMA ShownRuns ==
    ASSUME IInv, program # <<>>, target = WithTool
    PROVE  running = {timers[i].of : i \in Showing}
  <1>1. waits /\ WaitsInv /\ ProgramInv /\ OwnersInv
    BY DEF IInv
  <1>2. ASSUME NEW i \in Showing PROVE timers[i].of \in running
    <2>1. i \in DOMAIN timers
      BY DEF Showing
    <2>2. CASE timers[i].of \in Tasks
      BY <1>1, <2>2 DEF WaitsInv
    <2>3. CASE timers[i].of \in Regions
      BY <1>1, <2>3 DEF ProgramInv
    <2> QED
      BY <1>1, <2>1, <2>2, <2>3 DEF OwnersInv
  <1>3. ASSUME NEW x \in running PROVE \E i \in Showing : timers[i].of = x
    <2>1. CASE x \in DOMAIN handle
      BY <1>1, <2>1 DEF WaitsInv, OwnersInv
    <2>2. CASE x \in Regions
      <3>1. timerStack # <<>>
        BY <1>1, <2>2, StackNotEmpty
      <3>2. timerStack \in Seq(DOMAIN timers)
        BY DEF IInv, ToolInv, ToolTypeOK
      <3>3. 1 \in DOMAIN timerStack
        BY <3>1, <3>2, EmptySeq, LenProperties
      <3>4. timerStack[1] \in Showing /\ timers[timerStack[1]].of \in Regions
        BY <1>1, <3>3 DEF OwnersInv, ToSet
      <3>5. timers[timerStack[1]].of \in running
        BY <1>2, <3>4
      <3> QED
        BY <1>1, <2>2, <3>4, <3>5 DEF ProgramInv
    <2> QED
      BY <2>1, <2>2, TypeParts DEF IInv, WorkTypeOK
  <1> QED
    BY <1>2, <1>3

\* For an application that waits, NVTX shows just what runs, however many
\* tasks, transfers and commands there are, and in every life.
THEOREM TraceIsExact == Spec => []TraceExact
  <1>1. ASSUME IInv, waits, target = WithTool
        PROVE  /\ \A k \in DOMAIN handle : handle[k] \in Showing <=> k \in running
               /\ ToSet(timerStack) = {i \in Showing : timers[i].of \in Regions}
               /\ Len(timerStack) = Cardinality(running \cap Regions)
               /\ DOMAIN ranges = {timers[i].rangeId : i \in Showing}
               /\ Cardinality(DOMAIN ranges) = Cardinality(running)
               /\ program # <<>> => running = {timers[i].of : i \in Showing}
    <2>1. WaitsInv /\ OwnersInv /\ RangesOwned
      BY <1>1 DEF IInv, ToolInv
    <2>2. DOMAIN ranges = {timers[i].rangeId : i \in Showing}
      <3>1. \A i \in Showing : timers[i].rangeId \in DOMAIN ranges
        BY <2>1 DEF RangesOwned
      <3>2. \A id \in DOMAIN ranges : \E i \in Showing : timers[i].rangeId = id
        BY <2>1 DEF RangesOwned
      <3> QED
        BY <3>1, <3>2
    <2>3. program # <<>> => running = {timers[i].of : i \in Showing}
      BY <1>1, ShownRuns
    <2> QED
      BY <1>1, <2>1, <2>2, <2>3 DEF WaitsInv, OwnersInv
  <1>2. IInv => TraceExact
    BY <1>1 DEF TraceExact
  <1> QED
    BY <1>2, Invariance, PTL
=============================================================================
