----------------------------- MODULE TraceGraph -----------------------------
(***************************************************************************)
(* readGraph and get_subgraph_from_node of analysis/critical-path.py: the  *)
(* events of the trace files, in the order they are read, become a graph   *)
(* of tasks; the part of it that the main task leads to is what            *)
(* critical_path_method analyses.                                          *)
(*                                                                         *)
(* An event of the trace is a span (something that ran), a creation, a     *)
(* destruction or something else.  A span names its task, the task's       *)
(* parents, whether the parent is implicit, and whether it is the span of  *)
(* apex_preload_main, the whole program.                                   *)
(***************************************************************************)
EXTENDS TaskGraph, SequencesExt

CONSTANTS
    Traces,    \* the traces that may be read
    MainTask,  \* the option --main-task
    NULL       \* no attributes, or a variable that is not bound

Event ==
    [kind : {"create", "destroy", "other"}, ts : Nat]
    \cup
    [kind : {"span"}, ts : Nat, dur : Nat, guid : Nat, parents : SUBSET Int,
     implicit : BOOLEAN, main : BOOLEAN]

ASSUME TracesAssumption == Traces \subseteq Seq(Event)
ASSUME MainTaskAssumption == MainTask \in Nat
ASSUME NullAssumption == NULL \notin [dur : Nat, ts : Nat]

VARIABLES
    trace,        \* the events
    next,         \* the index of the event that is read next
    phase,        \* "read", "search", "done", or "failed" with an exception
    attr,         \* the nodes of the graph, each with its attributes or NULL
    edge,         \* its edges
    duration,     \* of apex_preload_main, NULL until one was read
    firstCreate,
    lastDestroy,
    queue, found, \* the local variables of get_subgraph_from_node
    todo          \* the neighbours its inner loop has left to go through

graphVars == <<attr, edge>>
timeVars == <<duration, firstCreate, lastDestroy>>
searchVars == <<queue, found, todo>>
vars == <<trace, next, phase, graphVars, timeVars, searchVars>>

Nodes == DOMAIN attr

Init ==
    /\ trace \in Traces
    /\ next = 1
    /\ phase = "read"
    /\ attr = <<>>
    /\ edge = {}
    /\ duration = NULL
    /\ firstCreate = 0
    /\ lastDestroy = 0
    /\ queue = <<>>
    /\ found = {}
    /\ todo = {}

(***************************************************************************)
(* readGraph.                                                              *)
(***************************************************************************)

Read(kind) ==
    /\ phase = "read"
    /\ next <= Len(trace)
    /\ trace[next].kind = kind
    /\ next' = next + 1
    /\ UNCHANGED <<trace, phase, searchVars>>

\* The first creation is remembered, all others are passed over.
ReadCreation ==
    /\ Read("create")
    /\ firstCreate' = IF firstCreate = 0 THEN trace[next].ts ELSE firstCreate
    /\ UNCHANGED <<graphVars, duration, lastDestroy>>

ReadDestruction ==
    /\ Read("destroy")
    /\ lastDestroy' = trace[next].ts
    /\ UNCHANGED <<graphVars, duration, firstCreate>>

ReadOther ==
    /\ Read("other")
    /\ UNCHANGED <<graphVars, timeVars>>

\* The parents that become predecessors.
Dependencies(e) == {p \in e.parents : p >= MainTask}

\* A bug to plant: a task that is in the graph already keeps what it has.
AttributedOnce(e) ==
    [g \in Nodes \cup {e.guid} \cup Dependencies(e) |->
        IF g \in Nodes THEN attr[g]
        ELSE IF g = e.guid THEN [dur |-> IF e.main THEN 0 ELSE e.dur, ts |-> e.ts]
        ELSE NULL]

\* A bug to plant: parents that are not in the graph are not added to it.
AttributedAlone(e) ==
    [g \in Nodes \cup {e.guid} |->
        IF g = e.guid THEN [dur |-> IF e.main THEN 0 ELSE e.dur, ts |-> e.ts]
        ELSE attr[g]]

\* add_node sets the attributes of the span's task, and add_edge makes nodes
\* without attributes of parents that are not in the graph.
Attributed(e) ==
    [g \in Nodes \cup {e.guid} \cup Dependencies(e) |->
        IF g = e.guid THEN [dur |-> IF e.main THEN 0 ELSE e.dur, ts |-> e.ts]
        ELSE IF g \in Nodes THEN attr[g] ELSE NULL]

\* A span with an implicit parent is passed over, unless it is the program's.
ReadSpan ==
    /\ Read("span")
    /\ LET e == trace[next] IN
          IF e.implicit /\ ~e.main
          THEN UNCHANGED <<graphVars, duration>>
          ELSE /\ attr' = Attributed(e)
               /\ edge' = edge \cup (Dependencies(e) \X {e.guid})
               /\ duration' = IF e.main THEN e.dur ELSE duration
    /\ UNCHANGED <<firstCreate, lastDestroy>>

\* A bug to plant: task 0 gets no attributes of its own.
EndOfTraceBare ==
    /\ phase = "read"
    /\ next > Len(trace)
    /\ IF duration = NULL \/ MainTask \notin Nodes
       THEN phase' = "failed" /\ UNCHANGED queue
       ELSE phase' = "search" /\ queue' = <<MainTask>>
    /\ UNCHANGED <<trace, next, graphVars, timeVars, found, todo>>

\* Task 0 is given attributes if it has none.  Without a span of the program
\* the local duration is not bound, and without the main task there is
\* nothing to search: both raise an exception.
EndOfTrace ==
    /\ phase = "read"
    /\ next > Len(trace)
    /\ attr' = IF 0 \in Nodes /\ attr[0] = NULL
               THEN [attr EXCEPT ![0] = [dur |-> 0, ts |-> firstCreate]]
               ELSE attr
    /\ IF duration = NULL \/ MainTask \notin Nodes
       THEN phase' = "failed" /\ UNCHANGED queue
       ELSE phase' = "search" /\ queue' = <<MainTask>>
    /\ UNCHANGED <<trace, next, edge, timeVars, found, todo>>

(***************************************************************************)
(* get_subgraph_from_node: breadth first, marking a node when it leaves    *)
(* the queue, so that it may be queued several times.                      *)
(***************************************************************************)

Neighbours(n) == {s \in Nodes : <<n, s>> \in edge}

Visit ==
    /\ phase = "search"
    /\ todo = {}
    /\ queue # <<>>
    /\ found' = found \cup {Head(queue)}
    /\ queue' = Tail(queue)
    /\ todo' = Neighbours(Head(queue))
    /\ UNCHANGED <<trace, next, phase, graphVars, timeVars>>

\* A bug to plant: a neighbour is marked when it should enter the queue.
EnqueueMarked(s) ==
    /\ phase = "search"
    /\ s \in todo
    /\ todo' = todo \ {s}
    /\ found' = found \cup {s}
    /\ queue' = IF s \in found' THEN queue ELSE Append(queue, s)
    /\ UNCHANGED <<trace, next, phase, graphVars, timeVars>>

Enqueue(s) ==
    /\ phase = "search"
    /\ s \in todo
    /\ todo' = todo \ {s}
    /\ queue' = IF s \in found THEN queue ELSE Append(queue, s)
    /\ UNCHANGED <<trace, next, phase, graphVars, timeVars, found>>

\* A bug to plant: the search goes on until every node is found.
FoundAll ==
    /\ phase = "search"
    /\ queue = <<>> /\ todo = {}
    /\ found = Nodes
    /\ phase' = "done"
    /\ UNCHANGED <<trace, next, graphVars, timeVars, searchVars>>

Found ==
    /\ phase = "search"
    /\ queue = <<>> /\ todo = {}
    /\ phase' = "done"
    /\ UNCHANGED <<trace, next, graphVars, timeVars, searchVars>>

Next ==
    \/ ReadCreation
    \/ ReadDestruction
    \/ ReadOther
    \/ ReadSpan
    \/ EndOfTrace
    \/ Visit
    \/ \E s \in Nodes : Enqueue(s)
    \/ Found

Spec == Init /\ [][Next]_vars

\* The program runs on one thread and waits for nothing.
FairSpec == Spec /\ WF_vars(Next)
-----------------------------------------------------------------------------
(***************************************************************************)
(* Properties.                                                             *)
(***************************************************************************)

Attributes == [dur : Nat, ts : Nat]

\* Types of the state.
TypeOK ==
    /\ trace \in Seq(Event)
    /\ next \in 1 .. Len(trace) + 1
    /\ phase \in {"read", "search", "done", "failed"}
    /\ Nodes \subseteq Nat
    /\ \A g \in Nodes : attr[g] \in Attributes \cup {NULL}
    /\ edge \subseteq Nodes \X Nodes
    /\ duration \in Nat \cup {NULL}
    /\ firstCreate \in Nat /\ lastDestroy \in Nat
    /\ ToSet(queue) \cup found \cup todo \subseteq Nodes

\* Whatever depends on something has run and has its attributes: only a task
\* that nothing precedes may be a node without attributes.
SuccessorsAttributed == \A e \in edge : attr[e[2]] # NULL

\* What is handed on to critical_path_method.
Subgraph ==
    [node |-> found,
     edge |-> {e \in edge : {e[1], e[2]} \subseteq found},
     root |-> MainTask,
     dur  |-> [g \in found |-> attr[g].dur],
     ts   |-> [g \in found |-> attr[g].ts]]

\* Analysed from task 0, it is a task graph: critical_path_method never asks
\* for an attribute that is not there, although the trace may name parents
\* that it never shows.
HandsOnProject ==
    phase = "done" /\ MainTask = 0 =>
        (\A g \in found : attr[g] # NULL) /\ IsProject(Subgraph)

\* What the search finds is the smallest set with the main task in it that
\* no edge leads out of.
Closed(S) == MainTask \in S /\ \A e \in edge : e[1] \in S => e[2] \in S
FoundIsReachable ==
    phase = "done" => Closed(found) /\ \A S \in SUBSET found : Closed(S) => S = found

\* The program ends, even if the parents in the trace go round in circles.
Terminates == <>(phase \in {"done", "failed"})
=============================================================================
