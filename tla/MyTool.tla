------------------------------- MODULE MyTool -------------------------------
(***************************************************************************)
(* The example tool tool_examples/my_tool.c.  It prints what it is told,   *)
(* and keeps a timer in heap memory for every task: a name, the parents    *)
(* and the children of the task in arrays of a fixed size.                 *)
(*                                                                         *)
(* Memory comes from malloc, so that a timer finds in it what an earlier   *)
(* one left there; free and malloc may scramble the first words, where the *)
(* name is.  Array elements are counted from 1.  The application makes one *)
(* call about a task at a time and uses no timer after destroy.            *)
(*                                                                         *)
(* A task without a name is printed under the symbol of its address.  The  *)
(* address may have none, in an object that dladdr knows or outside all of *)
(* them: then the tool reads through a pointer that is null, or never was  *)
(* set, which may end the process.                                         *)
(***************************************************************************)
EXTENDS Naturals, Sequences

CONSTANTS
    Tasks,         \* the tasks of the application
    Named,         \* those that create is given a name for
    Resolvable,    \* those whose address dladdr knows a symbol of
    Symbolless,    \* those of which it knows the object only, and no symbol
    Blocks,        \* the memory blocks malloc may return
    GUIDs,         \* the identifiers of tasks
    Inputs,        \* the arrays of identifiers a call may pass
    MAX_PARENTS,
    MAX_CHILDREN,
    NULL,          \* no memory
    Junk           \* what memory holds that the program never wrote

VARIABLES
    timer,   \* timer[k]: the block of task k's timer, or NULL
    memory,  \* the contents of every block, as a my_timer_t
    start,   \* start[k]: the child count that k's timer came with, 0 without one
    crashed  \* the task whose timer was printed when the process ended, or NULL

vars == <<timer, memory, start, crashed>>

ASSUME TasksAssumption ==
    /\ Named \cup Resolvable \cup Symbolless \subseteq Tasks
    /\ Resolvable \cap Symbolless = {}
    /\ Junk \notin Tasks /\ NULL \notin Tasks
ASSUME BlocksAssumption == NULL \notin Blocks
ASSUME InputsAssumption == Inputs \subseteq Seq(GUIDs)
ASSUME LimitsAssumption == MAX_PARENTS \in Nat /\ MAX_CHILDREN \in Nat

\* A counter nobody has set: all values above the limit behave alike.
Counters == 0 .. MAX_CHILDREN + 1

Untouched(count) == [
    mName        |-> Junk,
    hasName      |-> FALSE,
    mParents     |-> [i \in 1 .. MAX_PARENTS |-> Junk],
    mParentCount |-> 0,
    mChildren    |-> [i \in 1 .. MAX_CHILDREN |-> Junk],
    mChildCount  |-> count]

Init ==
    /\ timer = [k \in Tasks |-> NULL]
    /\ \E count \in [Blocks -> Counters] :
          memory = [b \in Blocks |-> Untouched(count[b])]
    /\ start = [k \in Tasks |-> 0]
    /\ crashed = NULL

\* A bug to plant: the limit is tested after the store.
MergeSetLate(old_set, old_count, new_set, max_count) ==
    LET room   == IF old_count > max_count THEN 0 ELSE max_count + 1 - old_count
        copied == IF Len(new_set) <= room THEN Len(new_set) ELSE room
    IN  [set   |-> [i \in DOMAIN old_set \cup (old_count + 1 .. old_count + copied) |->
                       IF i > old_count /\ i <= old_count + copied
                       THEN new_set[i - old_count] ELSE old_set[i]],
         count |-> old_count + copied]

\* A bug to plant: an array that is full counts from the start again.
MergeSetOver(old_set, old_count, new_set, max_count) ==
    LET room   == IF old_count >= max_count THEN 0 ELSE max_count - old_count
        copied == IF Len(new_set) <= room THEN Len(new_set) ELSE room
    IN  [set   |-> [i \in DOMAIN old_set \cup (old_count + 1 .. old_count + copied) |->
                       IF i > old_count /\ i <= old_count + copied
                       THEN new_set[i - old_count] ELSE old_set[i]],
         count |-> IF room = 0 THEN 0 ELSE old_count + copied]

\* merge_set: elements are copied behind the old ones until the limit is
\* reached; a store behind the array would add to its domain.
MergeSet(old_set, old_count, new_set, max_count) ==
    LET room   == IF old_count >= max_count THEN 0 ELSE max_count - old_count
        copied == IF Len(new_set) <= room THEN Len(new_set) ELSE room
    IN  [set   |-> [i \in DOMAIN old_set \cup (old_count + 1 .. old_count + copied) |->
                       IF i > old_count /\ i <= old_count + copied
                       THEN new_set[i - old_count] ELSE old_set[i]],
         count |-> old_count + copied]

\* label, which every function that prints a timer calls, returns if there
\* is a name or a symbol to copy, or dladdr knows nothing of the address.
LabelReturns(k, t) == t.hasName \/ k \notin Symbolless

\* A timer without a name gets that of its symbol, if there is one.
Labelled(k, t) ==
    IF ~t.hasName /\ k \in Resolvable
    THEN [t EXCEPT !.mName = k, !.hasName = TRUE]
    ELSE t

\* strdup copies from the null pointer of a symbol that dladdr did not find,
\* or printf from an mName that nobody has set: no more is known of either
\* than that the process may end there, and its memory with it.
Crash(k, t) ==
    /\ ~t.hasName /\ k \notin Resolvable
    /\ crashed' = k
    /\ UNCHANGED <<timer, memory, start>>

\* A function has made t of the timer of task k, and prints it.
PrintTimer(k, t) ==
    \/ /\ LabelReturns(k, t)
       /\ memory' = [memory EXCEPT ![timer[k]] = Labelled(k, t)]
       /\ UNCHANGED <<timer, start, crashed>>
    \/ Crash(k, t)

\* A bug to plant: hasName is not set with the name.
NameUnmarked(k, t, scrambled) ==
    [t EXCEPT !.mName = IF k \in Named THEN k ELSE scrambled, !.hasName = FALSE]

\* A bug to plant: hasName is left as malloc returned it.
NamedOnlyIfGiven(k, t, scrambled) ==
    IF k \in Named
    THEN [t EXCEPT !.mName = k, !.hasName = TRUE]
    ELSE [t EXCEPT !.mName = scrambled]

\* The name that create_mytimer is given, if any, is copied.
NamedTimer(k, t, scrambled) ==
    IF k \in Named
    THEN [t EXCEPT !.mName = k, !.hasName = TRUE]
    ELSE [t EXCEPT !.mName = scrambled, !.hasName = FALSE]

\* A bug to plant: the parents are appended to what the memory holds.
WithOldParents(t, parents) ==
    LET merged == MergeSet(t.mParents, t.mParentCount, parents, MAX_PARENTS) IN
        [t EXCEPT !.mParents = merged.set, !.mParentCount = merged.count]

WithParents(t, parents) ==
    LET merged == MergeSet(t.mParents, 0, parents, MAX_PARENTS) IN
        [t EXCEPT !.mParents = merged.set, !.mParentCount = merged.count]

\* tasktimer_create_impl: nothing sets the child count.
Create(k) ==
    /\ timer[k] = NULL
    /\ \E b \in {c \in Blocks : \A u \in Tasks : timer[u] # c},
         parents \in Inputs,
         scrambled \in Tasks \cup {Junk} :
          LET t == WithParents(NamedTimer(k, memory[b], scrambled), parents) IN
          /\ scrambled \in {memory[b].mName, Junk}
          /\ \/ /\ LabelReturns(k, t)
                /\ timer' = [timer EXCEPT ![k] = b]
                /\ memory' = [memory EXCEPT ![b] = Labelled(k, t)]
                /\ start' = [start EXCEPT ![k] = memory[b].mChildCount]
                /\ UNCHANGED crashed
             \/ Crash(k, t)

\* schedule, start, yield, resume and stop only print.
Mention(k) ==
    /\ timer[k] # NULL
    /\ PrintTimer(k, memory[timer[k]])

AddParents(k) ==
    /\ timer[k] # NULL
    /\ \E parents \in Inputs :
          LET t      == memory[timer[k]]
              merged == MergeSet(t.mParents, t.mParentCount, parents, MAX_PARENTS)
          IN  PrintTimer(k, [t EXCEPT !.mParents = merged.set, !.mParentCount = merged.count])

AddChildren(k) ==
    /\ timer[k] # NULL
    /\ \E children \in Inputs :
          LET t      == memory[timer[k]]
              merged == MergeSet(t.mChildren, t.mChildCount, children, MAX_CHILDREN)
          IN  PrintTimer(k, [t EXCEPT !.mChildren = merged.set, !.mChildCount = merged.count])

Destroy(k) ==
    /\ timer[k] # NULL
    /\ timer' = [timer EXCEPT ![k] = NULL]
    /\ start' = [start EXCEPT ![k] = 0]
    /\ UNCHANGED <<memory, crashed>>

Next ==
    /\ crashed = NULL
    /\ \E k \in Tasks :
          Create(k) \/ Mention(k) \/ AddParents(k) \/ AddChildren(k) \/ Destroy(k)

Spec == Init /\ [][Next]_vars
-----------------------------------------------------------------------------
(***************************************************************************)
(* Properties.                                                             *)
(***************************************************************************)

Timer == [
    mName        : Tasks \cup {Junk},
    hasName      : BOOLEAN,
    mParents     : [1 .. MAX_PARENTS -> GUIDs \cup {Junk}],
    mParentCount : 0 .. MAX_PARENTS,
    mChildren    : [1 .. MAX_CHILDREN -> GUIDs \cup {Junk}],
    mChildCount  : Counters]

\* Types of the state; in particular, no array is written behind its end,
\* also where the number of its elements was never set.
TypeOK ==
    /\ timer \in [Tasks -> Blocks \cup {NULL}]
    /\ memory \in [Blocks -> Timer]
    /\ start \in [Tasks -> Counters]
    /\ crashed \in Tasks \cup {NULL}

\* No memory is used for two timers.
OwnBlocks ==
    \A k, j \in Tasks : timer[k] # NULL /\ timer[k] = timer[j] => k = j

\* A timer is printed under the name of its own task, whatever name its
\* memory had before, unless the task has neither name nor symbol.
LabelOwn ==
    \A k \in Named \cup Resolvable :
        timer[k] # NULL => memory[timer[k]].mName = k

\* The tool crashes over no task that has a name or a symbol, whatever memory
\* its timer got and whatever has happened to it since; in particular, not
\* over a named task whose address has no symbol.  Without a name, such a
\* task does not survive create, so that no timer of one is ever used.
Nameless == Tasks \ (Named \cup Resolvable)
CrashesOverNameless ==
    /\ crashed # NULL => crashed \in Nameless
    /\ \A k \in Nameless \cap Symbolless : timer[k] = NULL

\* The parents of a task are those given to create and to add_parents, in
\* that order, up to the limit: the calls about other tasks, and those that
\* used the same memory before, leave no trace.
Live == {k \in Tasks : timer[k] # NULL}
ParentsOf(k) ==
    IF k \notin Live THEN <<>>
    ELSE SubSeq(memory[timer[k]].mParents, 1, memory[timer[k]].mParentCount)

Parents == INSTANCE BoundedLists WITH
    Owners <- Tasks,
    First  <- Inputs,
    Rooms  <- {MAX_PARENTS},
    open   <- Live,
    list   <- [k \in Tasks |-> ParentsOf(k)],
    room   <- [k \in Tasks |-> MAX_PARENTS]

ParentsSpec == Parents!Spec

\* So are the children, but behind as many elements as the memory happened
\* to count when the timer was created.
ChildrenOf(k) ==
    IF k \notin Live THEN <<>>
    ELSE SubSeq(memory[timer[k]].mChildren, start[k] + 1, memory[timer[k]].mChildCount)

Children == INSTANCE BoundedLists WITH
    Owners <- Tasks,
    First  <- {<<>>},
    Rooms  <- 0 .. MAX_CHILDREN,
    open   <- Live,
    list   <- [k \in Tasks |-> ChildrenOf(k)],
    room   <- [k \in Tasks |->
                 IF start[k] > MAX_CHILDREN THEN 0 ELSE MAX_CHILDREN - start[k]]

ChildrenSpec == Children!Spec
=============================================================================
