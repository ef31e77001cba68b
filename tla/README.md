# A verification project for taskStubs

taskStubs is an instrumentation API for task runtimes. An application calls
`tasktimer_*` functions; a small static library looks for a *tool*, a shared
library that implements them, and forwards the calls. Three example tools, two
example applications and a script that computes the critical path of a task
trace come with it. This directory holds TLA+ models of the parts that have
behaviour of their own, the TLC runs that check them, and proofs of the most
important results.

```
tlc -workers 2 -config TaskTimer_one.cfg MCTaskTimer      # any run below
tlapm TaskTimerProofs.tla                                 # the proofs
```

`PROJECT.json` lists the components, runs, mutants (a plausible bug for each
property, which the property's run must find), the source lines of every
definition, the hazards of the code and the theorems.

## Inventory

### The instrumentation API: `timer_plugin/tasktimer.c`, `tasktimer.h`

* State: seventeen global function pointers, all NULL at the start. Nothing is
  locked or atomic.
* Operations: `tasktimer_initialize` resolves `tasktimer_initialize_impl`, calls
  it if it exists and then resolves and stores the other sixteen pointers, one
  at a time, storing NULL for what is not found. Each of the sixteen wrappers
  tests its pointer and calls through it, which are two reads. Nothing ever
  clears a pointer, `tasktimer_finalize` included. The macros of `tasktimer.h`
  are other names of the wrappers.
* Interactions: calls the loader; called by any thread of the application; calls
  the tool. A timer that `create` returns travels through the application back
  to the tool.
* Hard: threads that call wrappers while another initialises; two initialisers;
  a second `tasktimer_initialize`; a library that cannot be loaded, or offers
  some of the functions only; a timer created before the tool was there.
* Correct means: no call through NULL; a pointer leads where the search order
  says and never leads back to nowhere; nothing of a tool is called before its
  `initialize` returned; when initialisation has returned, all is bound.

### The plugin loader: `timer_plugin/plugin.c`, `plugin.h`

* State: the static `library_handle`, and the dynamic linker behind it.
* Operations: `get_symbol` asks the global scope, then the library named by
  `TASKTIMER_EXTERNAL_TOOL_LIBRARY`; `get_library` opens that library.
* Hard: the handle is tested, computed and stored in separate steps without a
  lock; a failed attempt to open the library stores NULL and is repeated at the
  next look-up.
* Correct means: a look-up that succeeded once succeeds ever after.

### The tool interface: `timer_plugin/tool_api.h`

Types and declarations. The names it declares are what a tool implements, and
those the loader looks up should be the same.

### The tools: `tool_examples/`

* `roctx_tool.cpp`: a timer per task and per region (data transfer, command); a
  timer has the id of its open ROCTX range or 0. One global stack holds the
  timers of the regions; a stop takes the top. `start`/`resume` and
  `yield`/`stop` are pairwise the same. Hard: one stack for all threads, not
  locked; transfers are named by guid but stopped by position; calls in unusual
  orders. Correct means: what runs has a range and what has a range runs; a stop
  ends the range of its own region.
* `nvtx_tool.cpp`: the same over NVTX, and a domain, created by initialize and
  destroyed by finalize, with a global map of registered strings, which nothing
  clears. Hard: calls before the domain exists or after it is gone, calls
  delivered in part while the API is being bound, calls that come in a second
  `tasktimer_initialize` before the tool's own initialize does, and a second
  life after finalize, which finds the map, the timers and the stack as the first one left
  them. Correct means: no call names a domain that is not there; a range is
  ended where it was begun; what NVTX shows is what runs; the stack is never
  empty when a stop arrives.
* `my_tool.c`: prints every call. A timer is heap memory with a name, up to 32
  parents and up to 128 children; `merge_set` appends to those arrays. Hard: the
  limits, the child counter that nothing initialises, the names that nothing
  frees, and tasks without a name, for which the tool asks dladdr for a symbol
  and does not look whether there is one. Correct means: no store leaves its
  array; a task has its own name and parents; a task that has a name or a
  symbol does not end the process.

### The critical path script: `analysis/critical-path.py`

* `readGraph` turns the events of sorted trace files into a graph of tasks, in
  the order of the events; a parent may be named before its own span is read, or
  have none. `get_subgraph_from_node` keeps what the main task leads to.
  `critical_path_method` makes a forward and a backward pass in topological
  order and reports the tasks without float.
* One thread. Hard: nodes without attributes, parents in circles, the float of
  tasks that are not on the longest path, neighbours in any order.
* Correct means: the search ends with just the reachable tasks, each with its
  attributes; the schedules respect the edges; the completion time is that of a
  longest path, and the reported tasks are those of the longest paths.

### The rest

`examples/main.c` and `main.cpp` make one fixed sequence of calls on one thread:
a task that is yielded while others run and resumed after, transfers and
commands. They never call `destroy`, `add_parents` or `add_children`, although
both say that they test "all aspects of the API". Correct means: a complete
life, everything stopped before finalize, with or without a tool. The CMake and pkg-config files have no behaviour at run time.

## Modules

| module | models | role |
|---|---|---|
| `Plugin` | `plugin.c` | steps of the loader, one per access to the handle; no Init or Next |
| `TaskTimer` | `tasktimer.c`, macros and names of the headers | composes the loader's steps with initialisers and callers |
| `DispatchTable` | - | abstract specification of the API |
| `TaskTimerProofs` | - | proofs about `TaskTimer` |
| `MCTaskTimer` | - | environments for TLC |
| `RoctxTool` | `roctx_tool.cpp` | timers, ranges and the stack, driven by the application |
| `TraceView` | - | abstract specification of a timeline tool |
| `RoctxToolProofs` | - | proofs about `RoctxTool` |
| `MCRoctxTool` | - | symmetry for TLC |
| `NvtxTool` | `nvtx_tool.cpp` | domain, texts, timers and stack, one action per function; no Init or Next |
| `NvtxToolProofs` | - | lemmas about `NvtxTool`: what a function may do to timers, ranges and stack |
| `ExampleProgram` | `main.c`, `main.cpp`, macros of `tasktimer.h` | the examples as sequences of calls |
| `InstrumentedTool` | the wrappers of `tasktimer.c`, one by one | composes application, `DispatchTable` and `NvtxTool` |
| `InstrumentedToolProofs` | - | proofs about `InstrumentedTool` |
| `MCInstrumentedTool` | - | applications for TLC |
| `MyTool` | `my_tool.c` | the memory of the timers |
| `BoundedLists` | - | abstract specification of lists with limited room |
| `MyToolProofs` | - | proofs about `MyTool` |
| `MCMyTool` | - | arrays and symmetry for TLC |
| `TaskGraph` | - | what `readGraph` hands to the analysis |
| `TraceGraph` | `readGraph`, `get_subgraph_from_node` | events to graph, and the search |
| `TraceGraphProofs` | - | proofs about `TraceGraph` |
| `MCTraceGraph` | - | traces for TLC |
| `CriticalPath` | `critical_path_method` | the two passes and the floats, and what a longest path is |
| `CriticalPathProofs` | - | proofs about `CriticalPath`: the schedules |
| `LongestPathProofs` | - | proofs about `CriticalPath`: the results |
| `MCCriticalPath` | - | graphs for TLC |

Operators marked "A bug to plant" belong to no behaviour of the code: they are
the mutants of `PROJECT.json`.

### TaskTimer and Plugin

A thread `t` is at `pc[t]`. `idle` is outside the API. The labels of the loader
are `lookup` (dlsym in the global scope), `check` (`library_handle == NULL`),
`open` (`get_library`), `publish` (the store to the handle), `scan` (dlsym in
the library) and `store` (the assignment to the API's pointer, `func[s]`);
`init` is the call of the tool's initialize and `call` the time between a
wrapper's test and its call. The two reads of the handle after `check` (the
second NULL test and the argument of dlsym) are one step, `scan`: the handle
can only change from NULL to the library or the reverse, and the environments
in which the reverse can happen are excluded where two threads initialise.

The process runs in an `env`, chosen at the start: what the global scope offers
for every name, which library the environment variable names, what it exports,
whether it is mapped already and how opening it may end. `Tools` names
libraries; a symbol is represented by the tool it comes from, as its name is
that of the slot.

The application calls any wrapper at any time, also while it is being bound. It
creates a task once at a time, passes what `create` gave it, does not let two
calls about the same task overlap and uses no timer after `destroy`: that is
the life of a task, and the examples keep to it. With `AppWaits` it also waits
for the first `tasktimer_initialize` to return, as the examples do.

Every access to a pointer is taken as atomic. In C the race is undefined; the
builds the project describes use plain aligned loads and stores of words. A
compiler may merge the two reads of a wrapper into one, which gives a subset of
the behaviours modelled.

### RoctxTool

Calls about tasks are single steps, since each touches one timer and calls about
one task do not overlap. Calls about regions touch the shared stack and are cut
at each access: `push`, `begin`, `top`, `pop`, `end`. `std::stack` raced for
without a lock is undefined; the model gives the mildest outcome, atomic member
functions, and the runs set `Serialised`, so their results do not depend on it:
the disagreement of `roctx_two_threads` arises even then. `nest` and `asked`
belong to the application: the regions each thread has started, in order, and
the one it means to stop. `Stoppable` gives the places in `nest` it may stop
next: the last, if `Nested`; otherwise any transfer, as the call names it, or
the innermost command, as that call names none.

### NvtxTool, ExampleProgram and InstrumentedTool

`InstrumentedTool` puts a tool behind the API. The API is its abstract
specification, `DispatchTable`: `TaskTimerProofs` shows that `tasktimer.c`
implements it, so the loader need not be run again here. A call finds its
function bound, and becomes the action of `NvtxTool` of that name, or does not,
and is `Dropped`. `Bind` keeps the order of the code, one function per step, and
calls of other threads come between the steps. So do they between `Enter`, which
is the call of `tasktimer_initialize` and its first look-up, and `Initialize`,
the call of the tool's own initialize. The tool and the pointers outlive
finalize: in its second life the application finds everything bound from the
start, also between these two steps, and `tasktimer_initialize` does nothing to
the table.

NVTX is external: the set of `live` domains, and the open `ranges` with the
domain of each. A domain is a number, one more for each call of initialize. The
handle of a text and the id of a range are known by the domain they come from,
so that `calls`, what the last function asked of NVTX, shows when a handle is
used in a domain it does not belong to. A text is named by what distinguishes
it, as <<"Timer Create", k>>.

The application either runs a `program`, `step` by step, which starts no
transfer or command before it has stopped the one before (`OneAtATime`, as
`main.c` and `main.cpp` do), or makes any calls that
are in order: it does not destroy a running task or stop a region it has not
started, finalizes when nothing runs, and then calls nothing until it has
entered initialize again.
`handle` has what `create` returned to it. Calls do not overlap inside the tool:
its map and its stack are not locked, and what a race does to them is undefined.
`waits` says whether it keeps its threads from calling before
`tasktimer_initialize` returns, as the examples do; the threads of one that does
not may call before and during the first, and during a later one. A null timer that is read,
or the top of an empty stack, sets `undefined`, after which nothing is described.

### MyTool

`memory` holds the blocks that malloc may return, each with the contents of a
`my_timer_t`; a block keeps its contents from one timer to the next, except that
free and malloc may overwrite its first words, where the name pointer is. What a
fresh block counts as children is any number. `MergeSet` is `merge_set` as a
function of the old array and count: a store behind the array would add to the
array's domain, so that the type invariant sees it. `label`, which every
function that prints calls, may set the name, and is part of their actions.
What dladdr finds for a task's address is a symbol (`Resolvable`), an object but
no symbol (`Symbolless`), or nothing. Where it finds nothing to print, the
process may end, at the null pointer given to `strdup` or the unset one given to
`printf`: `Crash` records the task in `crashed`, and nothing follows. A name is
represented by the task it belongs to. `start` is a history variable,
the child count that a timer was born with. Each call is one step: calls about
one task do not overlap, and calls about two tasks share nothing but malloc.

### TraceGraph and CriticalPath

One step per event read, per node taken from the queue and per neighbour; one
step per node entered, per neighbour compared and per node left. Which node
comes next is any that networkx's topological sort may choose; the same for the
neighbours. Durations are integers, so sums and differences are exact.
`CriticalPath` starts from an `IsProject` of `TaskGraph`, and `TraceGraph`
shows that it hands one over (`HandsOnProject`). `critical_path_method` is
analysed on acyclic graphs, as its docstring demands. Task graphs are finite. A
missing attribute is `NULL`, which no record of attributes equals. What a
longest path is, is defined apart from the algorithm: the maximal sum of
durations (`Time`, a recursive function) along a path of at most as many tasks
as there are; an acyclic graph has no longer ones.

## Runs

| run | question | bounds |
|---|---|---|
| `one_initialiser` | is the API safe while one thread initialises, repeatedly, and all call? | 2 threads, 1 task, 8 environments |
| `two_initialisers` | and while two initialise? | 2 threads, 1 task, the 6 environments where loading always ends alike |
| `application_waits` | does a waiting application find the tool complete, and does initialisation end? | 2 threads, 4 environments |
| `declared_names` | are the names declared those looked up? (violated) | 1 thread |
| `roctx_one_thread` | does the tool implement the timeline when regions nest? | 1 thread, 1 task started twice, 1 transfer, 2 commands |
| `roctx_serialised` | what survives if two threads take turns with overlapping regions? | 2 threads, 1 task, 2 transfers, 2 commands |
| `roctx_two_threads` | does a stop end its own range? (violated) | 2 threads, 1 command each |
| `instrumented_tool` | does NVTX show what runs, in its own domain, from initialize to finalize and again? | the two examples and one program of the other calls; any application with 1 task, 1 transfer, 2 commands, 3 timers and 2 lives; with and without a tool; waiting or not |
| `memory_reused` | are the records of a task its own, within the limits, and which tasks crash the tool? | 4 tasks (a name but no symbol, a symbol only, neither inside an object and outside all), 2 blocks, limits 3 and 2 |
| `trace_to_graph` | is the graph handed on complete, and does the search end? | all sequences of up to 4 of 11 events |
| `critical_path` | do the passes compute longest paths? | all acyclic graphs of up to 4 tasks, durations 1 and 3 |
| `several_last_tasks` | are only tasks of longest paths reported? (violated) | up to 3 tasks |

Why the bounds are enough. `TaskTimer`: a pointer is shared by an initialiser
and a caller, the handle by two initialisers, and one task's timer passes
through both; pointers do not interact but through the loader's order, which is
kept whole (all seventeen). The proofs lift all bounds. `RoctxTool`: two regions
suffice for one to end the other's range, three or four for the stack to be
permuted; `MaxStarts` = 2 lets a task be yielded and resumed, or destroyed and
created again. `InstrumentedTool`: one task, whose calls touch only its own timer;
a transfer and two commands, so that regions of both kinds permute the stack;
three timers let all of them exist at once, or a task be created again; the
second life is the first that finds remains of another, and a third finds no
others. `MyTool`: limits of 3 and 2 with arrays of none or two let one call
and several together meet the limit, exceed it, and be cut in the middle of an
array; two blocks let two timers live at a time and every task find what another
left. `TraceGraph`: the events hold a late parent, an unseen one, a
self-loop, a circle, two parents, a repeated span and an implicit one; four of
them combine any three with the program's own span, without which nothing is
searched. `CriticalPath`: four tasks include the diamond and two last tasks
behind a common one; two durations make paths of different and of equal time.

`CHECK_DEADLOCK FALSE` stands in the runs where everything really may stop: a
tool whose regions have each been run once, an application that has ended, and a
script that ends.

`instrumented_tool` shows where the promises of the NVTX tool end. For an
application that waits, all is well: `TraceExact`, `Defined`, and `OwnDomain`
without exception. For one that does not, a null timer may reach the tool, the
stack may be empty when a stop arrives, and a stop may get lost, after which the
range stays open over finalize and may be ended in the domain of the next life.
`OwnDomain` says what is left. In the first life every domain named exists,
since no function is bound before the domain is there. In a later one the
pointers are bound from the start, and `tsDomain` is the domain that finalize
destroyed until the tool's initialize has run: a thread that calls in between
(`BetweenLives`) has the tool name that domain. This does happen, and without
the exception TLC finds it: initialize, finalize, `Enter`, and any call. Once
initialize has run, the domain exists again. In a second life texts carry
handles of the first domain, whether the application waits or not. No document
promises a second life or says that calls may come before initialize has
returned, so these cases are no findings.

`memory_reused` shows what a task without a name costs: if dladdr knows the
object of its address and no symbol in it, as for a static function, create ends
the process; if dladdr knows nothing, the tool prints whatever the memory of the
timer holds as a name. `CrashesOverNameless` says that no other task is struck.
`tool_api.h:92` calls the name optional. The examples are not struck: the one
task that they do not name, `C`, is a function whose symbol `-rdynamic` exports.

What the violated runs show:

* `declared_names`: `tool_api.h` declares the last six functions without
  `_impl`, `tasktimer.c` looks them up with it; a tool written from the header
  is found, initialised and loses those six.
* `roctx_two_threads`: a thread that stops its command ends the range of another
  thread's command that started later.
* `several_last_tasks`: with two last tasks the earlier one has float 0 too, so
  it and what leads to it are reported although no longest path passes there.

## Fairness

* `TaskTimer!FairSpec`: weak fairness of a thread's steps inside
  `tasktimer_initialize`. They wait for nobody, so the operating system's
  scheduler runs them to the end. There is none on callers: an application need
  not call.
* `RoctxTool!FairSpec`: the same for a thread inside a function of the tool.
* `InstrumentedTool!FairSpec`: weak fairness of an example program, one thread
  that waits for nobody. There is none on other applications.
* `TraceGraph!FairSpec`: one thread that waits for nothing.

`DispatchTable!FairSpec` asks that every function that exists is bound in the
end; it is checked where the library can be loaded and some thread does call
`tasktimer_initialize`. It follows because a slot's `Bind` is enabled only once
a tool is running, and the fair initialiser that ran it goes through all slots.

## Proofs

TLAPS checks the following for all values of the constants. Every invariant that
a passing run checks has a theorem, and so has every action property and every
refinement but for its fairness. Each invariant named below was first checked by
TLC on a small instance. A hypothesis that is not an assumption of the module is
stated in the theorem (`ASSUME ... PROVE`).

### `TaskTimerProofs`

From `InitialisersAssumption`, `NullAssumption`, `TimerAssumption`,
`WaitsAssumption` and `LoadAssumption`. The last one is the one that says
something of the world: only one thread initialises, *or* every attempt to open
the library ends alike. Without it one initialiser may find the library, bind a
pointer and have it undone by another whose attempt to open failed and stored
NULL after it.

* `LoaderInvariant`: `[](TypeOK /\ LoaderInv)`. `NoNullCall` is not inductive: a
  store of NULL over a bound pointer has to be excluded. That store needs a
  look-up that failed for a symbol that was found before. `LoaderInv` says why
  there is none: a binding that does not come from the global scope has left a
  handle behind (`HandleBehindBinding`); a handle means a library that is mapped
  and is the one named (`HandleResident`); whoever holds a failure holds proof
  that the library can fail to open (`FailureShown`), which contradicts the
  handle under `LoadAssumption`; so a NULL about to be stored finds its pointer
  NULL (`FoundAsResolved`).
* `TypeCorrect`, `NoNullCallEver`, `BoundAsResolvedEver` follow at once, and
  `BindingsAreStable`, `[][func[s] # NULL => func'[s] = func[s]]_vars`, with one
  more look at the store.
* `ToolRunsFirst`: `ToolFirst` is inductive over `LoaderInv`; from it,
  `OneToolIsInitializedFirst`: if all functions come from one tool, none can be
  reached before its `initialize` has returned. (With two tools that is false:
  see the hazards; only the one that offers `initialize` is initialised.)
* `ImplementsTable`: `Spec => TableSpec`. The refinement hides the loader; the
  step that stores a found symbol is `Bind`, the tool's initialize is `Run`, all
  other steps stutter, by `BindingsAreStable` and `ToolFirst`.
* `CompleteWhenReturned` assumes `LoadsSucceed`: the library named, if any, can
  be opened. Otherwise a return may leave pointers NULL that a later attempt
  binds. `CompleteInv` numbers the stores: what an initialiser has passed on its
  way is bound as the search order says, and after a return everything is,
  which a second initialiser does not undo since it finds the same.
* `ToolGetsItsOwnTimers` assumes that the application waits (`AppWaits`, as the
  examples do), `LoadsSucceed`, and `TimersFromOnePlace`: what has functions
  about timers is what has `create`. Without the last, a tool that was found for
  `start` only would get the timers of another's `create`. `CallInv` gives a
  call its task for itself and has every timer come from the `create` that has
  been bound ever since the first return.

### `InstrumentedToolProofs`, over the lemmas of `NvtxToolProofs`

From `SubjectAssumption` and `ProgramAssumption`, for any sets of tasks, regions
and labels, any programs, and any number of lives and timers. The inductive
invariant `IInv` is the conjunction of

* `ToolInv`, of the tool alone: every timer that shows has its own open range
  and every range its timer, every text is registered, and the stack holds no
  timer twice and only such as show;
* `ApiInv`: the number of the domain in use is the number of the life, the
  domain exists from initialize to finalize, and inside a life everything is
  bound;
* `OwnersInv`: the handle of a task is a timer of that task, and the stack holds
  exactly the timers of regions that show;
* `WaitsInv`, of an application that waits: a task runs if and only if its timer
  shows, the stack is as long as regions run, no range is left from an earlier
  life;
* `ProgramInv`, of a program: the region that runs, one at most, was started by a
  call that no stop has followed yet.

`NvtxToolProofs` reduces each function of the tool to one of a few effects on
timers, ranges and stack (a timer is made, opens, closes, nothing), so that the
steps of the composition need only those. `TypeCorrect`, `DomainOwned`
(`OwnDomain`, an action property), `AlwaysDefined` and `TraceIsExact` follow.
The stack is not a list of the running regions in their order: only as many and
only regions, which is why any application is promised matching numbers, and
only a program of one region at a time (`OneAtATime`) the very regions.
`DomainOwned` has to tell apart where a thread that does not wait may call: up to
the first initialize nothing is bound, so that its calls are dropped; while
functions are bound, and after, the domain exists; what is left is
`BetweenLives`, which `OwnDomain` excepts.

### `RoctxToolProofs`

For any threads, tasks, transfers and commands; three layers.

* Always: `TypeCorrect` and `NoRangeIsOrphaned`. `TimersInv` has a timer's range
  id name an open range of its own. Overlapping calls are included as far as the
  model describes them, with a `std::stack` whose functions are atomic.
* `Alone`, calls about regions do not overlap (`Serialised`, or one thread makes
  them): `NeverUndefined` and `StackIsExact`. `StackInv` says at each point of a
  call how far the stack is ahead of or behind what shows and what runs; that the
  two numbers agree needs that no thread's region is in two nests (`NestInv`).
* `OneNest`, one thread stops its regions in the opposite order of starting, as
  the examples do: `EachClosesItsOwn` and `TraceIsKept`, the refinement of
  `TraceView` (without its fairness, which the run checks in `FairTraceSpec`). `OrderInv`
  has stack and nest equal but for the region that a call is about. The run
  `roctx_two_threads` shows that `Alone` is not enough.

### `TraceGraphProofs`

From the assumptions of `TraceGraph`, for all traces and any main task.
`GraphInv` carries `SuccessorsAttributed` through the reading
(`DependentsAreAttributed`): whenever an edge is added its end gets attributes
in the same step. `SearchInv` is the argument of a breadth-first search: all that
is found, queued or about to be queued (`Reached`) lies in every closed set with
the main task in it, and no edge leaves what is found but into `Reached`. At the
end `Reached` is what is found, so it is the smallest closed set
(`SearchIsExact`), and all of it but the main task is the end of an edge, so
`HandsOnProjects`, which is about task 0 as the main task (`MainTask = 0`), the
default of the script: to no other does readGraph give attributes if the trace
has no span of it.

### `MyToolProofs`

From the assumptions of `MyTool` on tasks, blocks, inputs and limits, none of
which restricts the code.

* `TimersAreSound`: `[](TypeOK /\ OwnBlocks /\ LabelOwn)`. `LabelOwn` needs
  `OwnBlocks`, or a call about one task might rename another. `TypeCorrect`, a
  part of it, says that no array is written behind its end.
* `NamesAreSafe`: `[]CrashesOverNameless`. A timer without a name goes with a
  task without one (`HasNames`), whatever has happened to its memory, and only
  such a task can make `label` fail. One of an object without a symbol never
  gets a timer, as create prints it.
* `ParentsAreKept`: `Spec => ParentsSpec`. It rests on `MergeSetAppends`, the
  lemma that what an array holds after `merge_set` is the old list with the new
  one behind it, cut at the limit, and on one lemma per action that says what it
  does to the lists of its own task and of the others.
* `ChildrenAreKept`: `Spec => ChildrenSpec`. The count starts at whatever the
  memory held; `StartInv` says that it never falls below that and never passes
  the limit unless it began beyond it, and `MergeSetExtends` is the lemma for
  arrays of which only the part behind the start counts.

### `CriticalPathProofs` and `LongestPathProofs`

From `ProjectsAssumption` (the graphs are finite, edges lead from node to node,
durations are natural numbers) and `NullAssumption`. The graphs need not be
acyclic: a circle stops the forward pass, as networkx stops it with an exception,
and nothing is reported.

* `PassInvariant`: `[](TypeOK /\ PassInv)`. `best` bounds the neighbours that
  have been gone through (`ForwardLoop`, `BackwardLoop`), `Finishes` ties starts
  to finishes, and `EndsLast` has `endtime`, which the time of the whole trace is
  printed from, be when the last of the tasks gone through ended. `TypeCorrect` is a part of it.
* `FloatsAreNotNegative`: the latest start is never before the earliest. In the
  backward pass this needs that each successor's latest start is no smaller than
  its earliest, which is no smaller than the node's finish.
* `SchedulesAreFeasible`: both schedules respect every edge (`Feasible`).
* `ResultInvariant`: `[]ResultInv`, which adds what makes the times right and not
  just feasible. Every earliest finish is attained by a path that ends there
  (`Attained`); the nodes gone through can be ranked so that edges go upwards
  (`Ranked`), so a path has no node twice and is one of `Paths`; every latest
  finish is the latest start of a successor or, at a last task, its earliest
  finish (`LatestAttained`), and none is behind all earliest finishes
  (`LatestBounded`).
* `CompletionTimeIsLongest`: along any path the sum of durations is at most the
  finish of its end (`AlongPath`), and the largest finish is attained.
* `LongestPathsAreReported`: from a task of a path to its end the latest
  finishes fall short by no less than the path takes (`AlongPath`), and on a
  longest path that leaves no float.
* `OneLastTaskIsExact`: the path that attains the finish of a task without float
  goes on through successors without float to a last task (`CriticalReachesLast`);
  if there is only one, it ends with the project.

`Time` is a recursive function over the places of a path. What it computes is
obtained without an induction rule: the places where it differs from a given
sum would have a least element (`LeastElement`, from the theorems on
well-founded relations), and there is none.

### Only model-checked

Liveness: `FairTableSpec`, the fairness of `FairTraceSpec`, `Terminates`
of `TraceGraph`, and `ExampleEnds`. What the three violated runs show is their counterexamples.

## Not modelled

* Argument structures, names and how they are demangled, printing, the colours
  of NVTX.
* Markers and samples of the ROCTX tool; they keep no state.
* The outcome of a race inside `std::stack` or `std::map`, so calls that overlap
  inside the NVTX tool, or inside a region call of the ROCTX tool.
* Rounding of binary fractions in the script; file discovery, decompression,
  drawing, and the unused `dummy`.
* What `my_tool.c` prints, with the buffer of `printSet` in which it puts the
  sets together, its calls that name no timer, and the heap of its strings (a
  name is copied for every task and never freed).
* That the passes of the script end: they are loops over finite lists. For the
  search before them, which queues nodes, it is a property.
* The CMake and pkg-config files.

## Plan

Done, in this order: `Plugin`, `TaskTimer`, `DispatchTable` and their proofs;
`RoctxTool` and `TraceView`; `CriticalPath` and its proofs; `TraceGraph`;
`MyTool`, `BoundedLists` and their proofs; `NvtxTool`, `ExampleProgram` and
`InstrumentedTool`; then the proofs about `InstrumentedTool` over `NvtxTool`,
`RoctxTool` and `TraceGraph`, `CompleteOnReturn` and `TimerFromSameTool` of
`TaskTimer`, the children of `MyTool`, and the results of `CriticalPath`.

Every invariant and every action property of a passing run now has a theorem.
What is left:

1. `InstrumentedTool`: the safety half of `ExampleEnds`, that no call of an
   example breaks the rules of an application.
2. `CriticalPath`: that a node which is reported although it is on no longest
   path lies on a path to another last task that ends earlier, as a theorem about
   what `several_last_tasks` shows.
3. Shorter proofs where several actions are treated alike, above all in
   `RoctxToolProofs` and `InstrumentedToolProofs`.
