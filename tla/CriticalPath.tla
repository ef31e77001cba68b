---------------------------- MODULE CriticalPath ----------------------------
(***************************************************************************)
(* critical_path_method of analysis/critical-path.py: a forward pass gives *)
(* every task its earliest start and finish, a backward pass its latest,   *)
(* and the tasks whose two starts agree are reported as the critical path. *)
(* The passes go through the graph in topological order; networkx may      *)
(* choose any, and may give the neighbours of a node in any order.         *)
(* Durations are exact here, whole units of the trace's clock.             *)
(***************************************************************************)
EXTENDS TaskGraph, Sequences, FiniteSets, FiniteSetsExt

CONSTANTS
    Projects,  \* the task graphs that may be analysed
    NULL       \* an attribute that is not set, and the infinity of the code

ASSUME ProjectsAssumption == \A g \in Projects : IsProject(g) /\ IsFiniteSet(g.node)
ASSUME NullAssumption == NULL \notin Int \cup UNION {g.node : g \in Projects}

VARIABLES
    graph,              \* the argument of the method
    phase,              \* "forward", "backward", "float" or "done"
    node,               \* the node of the loop, NULL between two nodes
    todo,               \* the neighbours, or the nodes, left to go through
    best,               \* the local est or lft
    est, eft, lst, lft, \* the attributes of the nodes
    endtime,            \* when the last task of the trace ended
    critical_path,      \* the result, as a set
    completion          \* project_completion_time

vars == <<graph, phase, node, todo, best, est, eft, lst, lft, endtime,
          critical_path, completion>>

Preds(n) == {p \in graph.node : <<p, n>> \in graph.edge}
Succs(n) == {s \in graph.node : <<n, s>> \in graph.edge}

MaxOf(a, b) == IF a > b THEN a ELSE b

Init ==
    /\ graph \in Projects
    /\ phase = "forward"
    /\ node = NULL
    /\ todo = {}
    /\ best = NULL
    /\ \E unset \in {[n \in graph.node |-> NULL]} :
          est = unset /\ eft = unset /\ lst = unset /\ lft = unset
    /\ endtime = graph.ts[graph.root] + graph.dur[graph.root]
    /\ critical_path = {}
    /\ completion = 0

\* A bug to plant: the topological order is not kept.
EnterForwardAnyOrder(n) ==
    /\ phase = "forward"
    /\ node = NULL
    /\ n \in graph.node
    /\ eft[n] = NULL
    /\ node' = n
    /\ todo' = {p \in Preds(n) : eft[p] # NULL}
    /\ best' = 0
    /\ UNCHANGED <<graph, phase, est, eft, lst, lft, endtime, critical_path, completion>>

\* The next node of the forward pass.
EnterForward(n) ==
    /\ phase = "forward"
    /\ node = NULL
    /\ n \in graph.node
    /\ eft[n] = NULL
    /\ \A p \in Preds(n) : eft[p] # NULL
    /\ node' = n
    /\ todo' = Preds(n)
    /\ best' = 0
    /\ UNCHANGED <<graph, phase, est, eft, lst, lft, endtime, critical_path, completion>>

\* est = max(est, eft of a predecessor)
Latest(p) ==
    /\ phase = "forward"
    /\ p \in todo
    /\ best' = MaxOf(best, eft[p])
    /\ todo' = todo \ {p}
    /\ UNCHANGED <<graph, phase, node, est, eft, lst, lft, endtime, critical_path, completion>>

LeaveForward ==
    /\ phase = "forward"
    /\ node # NULL
    /\ todo = {}
    /\ est' = [est EXCEPT ![node] = best]
    /\ eft' = [eft EXCEPT ![node] = best + graph.dur[node]]
    /\ endtime' = MaxOf(endtime, graph.ts[node] + graph.dur[node])
    /\ node' = NULL
    /\ UNCHANGED <<graph, phase, todo, best, lst, lft, critical_path, completion>>

TurnBack ==
    /\ phase = "forward"
    /\ node = NULL
    /\ \A n \in graph.node : eft[n] # NULL
    /\ phase' = "backward"
    /\ UNCHANGED <<graph, node, todo, best, est, eft, lst, lft, endtime, critical_path, completion>>

\* A bug to plant: a last node may finish no later than it starts.
EnterBackwardFromStart(n) ==
    /\ phase = "backward"
    /\ node = NULL
    /\ n \in graph.node
    /\ lst[n] = NULL
    /\ \A s \in Succs(n) : lst[s] # NULL
    /\ node' = n
    /\ todo' = Succs(n)
    /\ best' = IF Succs(n) = {} THEN est[n] ELSE NULL
    /\ UNCHANGED <<graph, phase, est, eft, lst, lft, endtime, critical_path, completion>>

\* A bug to plant: every node starts from its own finish.
EnterBackwardFromFinish(n) ==
    /\ phase = "backward"
    /\ node = NULL
    /\ n \in graph.node
    /\ lst[n] = NULL
    /\ \A s \in Succs(n) : lst[s] # NULL
    /\ node' = n
    /\ todo' = Succs(n)
    /\ best' = eft[n]
    /\ UNCHANGED <<graph, phase, est, eft, lst, lft, endtime, critical_path, completion>>

\* The next node of the backward pass: a node without successors may finish
\* as late as it does, any other node starts from infinity.
EnterBackward(n) ==
    /\ phase = "backward"
    /\ node = NULL
    /\ n \in graph.node
    /\ lst[n] = NULL
    /\ \A s \in Succs(n) : lst[s] # NULL
    /\ node' = n
    /\ todo' = Succs(n)
    /\ best' = IF Succs(n) = {} THEN eft[n] ELSE NULL
    /\ UNCHANGED <<graph, phase, est, eft, lst, lft, endtime, critical_path, completion>>

\* A bug to plant: the latest start of the successors is taken.
EarliestMax(s) ==
    /\ phase = "backward"
    /\ s \in todo
    /\ best' = IF best = NULL THEN lst[s] ELSE MaxOf(best, lst[s])
    /\ todo' = todo \ {s}
    /\ UNCHANGED <<graph, phase, node, est, eft, lst, lft, endtime, critical_path, completion>>

\* lft = min(lft, lst of a successor)
Earliest(s) ==
    /\ phase = "backward"
    /\ s \in todo
    /\ best' = IF best = NULL \/ lst[s] < best THEN lst[s] ELSE best
    /\ todo' = todo \ {s}
    /\ UNCHANGED <<graph, phase, node, est, eft, lst, lft, endtime, critical_path, completion>>

LeaveBackward ==
    /\ phase = "backward"
    /\ node # NULL
    /\ todo = {}
    /\ lft' = [lft EXCEPT ![node] = best]
    /\ lst' = [lst EXCEPT ![node] = best - graph.dur[node]]
    /\ node' = NULL
    /\ UNCHANGED <<graph, phase, todo, best, est, eft, endtime, critical_path, completion>>

TurnToFloats ==
    /\ phase = "backward"
    /\ node = NULL
    /\ \A n \in graph.node : lst[n] # NULL
    /\ phase' = "float"
    /\ todo' = graph.node
    /\ UNCHANGED <<graph, node, best, est, eft, lst, lft, endtime, critical_path, completion>>

\* A node without float is critical; the project ends with its last node.
Float(n) ==
    /\ phase = "float"
    /\ n \in todo
    /\ todo' = todo \ {n}
    /\ critical_path' =
          IF lst[n] - est[n] = 0 THEN critical_path \cup {n} ELSE critical_path
    /\ completion' = MaxOf(completion, eft[n])
    /\ UNCHANGED <<graph, phase, node, best, est, eft, lst, lft, endtime>>

Return ==
    /\ phase = "float"
    /\ todo = {}
    /\ phase' = "done"
    /\ UNCHANGED <<graph, node, todo, best, est, eft, lst, lft, endtime, critical_path, completion>>

Visit(n) ==
    \/ EnterForward(n)
    \/ Latest(n)
    \/ EnterBackward(n)
    \/ Earliest(n)
    \/ Float(n)

Next ==
    \/ \E n \in graph.node : Visit(n)
    \/ LeaveForward
    \/ TurnBack
    \/ LeaveBackward
    \/ TurnToFloats
    \/ Return

Spec == Init /\ [][Next]_vars
-----------------------------------------------------------------------------
(***************************************************************************)
(* Properties.                                                             *)
(***************************************************************************)

Attribute(S) == [graph.node -> S \cup {NULL}]

\* Types of the state.
TypeOK ==
    /\ graph \in Projects
    /\ phase \in {"forward", "backward", "float", "done"}
    /\ node \in graph.node \cup {NULL}
    /\ todo \subseteq graph.node
    /\ best \in Nat \cup {NULL}
    /\ est \in Attribute(Nat) /\ eft \in Attribute(Nat)
    /\ lst \in Attribute(Nat) /\ lft \in Attribute(Nat)
    /\ endtime \in Nat
    /\ critical_path \subseteq graph.node
    /\ completion \in Nat

\* No task has to start before it can: the backward pass never asks for a
\* start earlier than the one the forward pass found, whatever the graph.
FloatNotNegative ==
    \A n \in graph.node : lst[n] # NULL => est[n] # NULL /\ est[n] <= lst[n]

\* The schedule of the forward pass can be kept: nobody starts before all it
\* depends on has finished.
EarliestFeasible ==
    \A p, n \in graph.node :
        <<p, n>> \in graph.edge /\ est[n] # NULL
            => eft[p] # NULL /\ eft[p] <= est[n]

\* So can that of the backward pass.
LatestFeasible ==
    \A n, s \in graph.node :
        <<n, s>> \in graph.edge /\ lft[n] # NULL
            => lst[s] # NULL /\ lft[n] <= lst[s]

\* Both schedules of critical_path_method keep the order of the graph, in
\* whatever order its nodes are gone through.
Feasible == EarliestFeasible /\ LatestFeasible

(***************************************************************************)
(* What a critical path is: the tasks of the paths that take the longest.  *)
(***************************************************************************)

\* The paths of the graph that visit no more tasks than there are, and how
\* long all tasks of one take.
IsPath(s) == \A i \in 1 .. Len(s) - 1 : <<s[i], s[i + 1]>> \in graph.edge
Paths == UNION {{s \in [1 .. k -> graph.node] : IsPath(s)} : k \in 1 .. Cardinality(graph.node)}
Time(s) ==
    LET total[i \in DOMAIN s] == graph.dur[s[i]] + (IF i = 1 THEN 0 ELSE total[i - 1])
    IN  total[Len(s)]

Longest == Max({Time(s) : s \in Paths})
OnLongest(n) ==
    \E s \in Paths : Time(s) = Longest /\ \E i \in DOMAIN s : s[i] = n

\* The completion time that critical_path_method reports is the time of the
\* longest path, whatever order the nodes were gone through in.
CompletionIsLongest == phase = "done" => completion = Longest

\* No task of a longest path is missing from the reported critical path.
LongestIsReported ==
    phase = "done" => \A n \in graph.node : OnLongest(n) => n \in critical_path

\* The reported critical path is made of the tasks of the longest paths only.
ReportedIsLongest ==
    phase = "done" => \A n \in critical_path : OnLongest(n)

\* It is where the project has a single last task.
OneLastTask == Cardinality({n \in graph.node : Succs(n) = {}}) = 1
OneLastTaskExact == OneLastTask => ReportedIsLongest

(***************************************************************************)
(* Why the floats are not negative.  In the forward pass, best bounds the  *)
(* finishes of the predecessors gone through; in the backward pass it is   *)
(* bounded by the starts of the successors gone through, and is itself no  *)
(* smaller than the node's own earliest finish, since that was a lower     *)
(* bound of every successor's earliest start.                              *)
(***************************************************************************)

ForwardLoop ==
    phase = "forward" =>
        /\ \A n \in graph.node : lst[n] = NULL /\ lft[n] = NULL
        /\ node = NULL => todo = {}
        /\ node # NULL =>
              /\ best # NULL /\ eft[node] = NULL /\ todo \subseteq Preds(node)
              /\ \A p \in Preds(node) :
                    eft[p] # NULL /\ (p \in todo \/ eft[p] <= best)

BackwardLoop ==
    phase = "backward" =>
        /\ node = NULL => todo = {}
        /\ node # NULL =>
              /\ lst[node] = NULL /\ todo \subseteq Succs(node)
              /\ best = NULL => todo # {}
              /\ best # NULL => eft[node] <= best
              /\ \A s \in Succs(node) :
                    /\ lst[s] # NULL
                    /\ s \in todo \/ (best # NULL /\ best <= lst[s])

Finishes ==
    /\ phase # "forward" => \A n \in graph.node : eft[n] # NULL
    /\ \A n \in graph.node :
          /\ est[n] = NULL <=> eft[n] = NULL
          /\ est[n] # NULL => eft[n] = est[n] + graph.dur[n]
          /\ lst[n] = NULL <=> lft[n] = NULL
          /\ lft[n] # NULL => /\ eft[n] # NULL /\ eft[n] <= lft[n]
                             /\ lst[n] = lft[n] - graph.dur[n]

\* When node n ended in the trace, and the nodes that endtime accounts for.
EndOf(n) == graph.ts[n] + graph.dur[n]
Seen == {n \in graph.node : n = graph.root \/ eft[n] # NULL}

EndsLast ==
    /\ \A n \in Seen : EndOf(n) <= endtime
    /\ \E n \in Seen : EndOf(n) = endtime

\* The forward and the backward loop, what they leave behind, and that
\* endtime, which the time that the trace took is reported from, is when the
\* last of the nodes gone through ended, in whatever order they come.
PassInv ==
    /\ ForwardLoop
    /\ BackwardLoop
    /\ Finishes
    /\ EndsLast
    /\ EarliestFeasible
    /\ LatestFeasible
=============================================================================
