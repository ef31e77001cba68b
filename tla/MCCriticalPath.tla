--------------------------- MODULE MCCriticalPath ---------------------------
(***************************************************************************)
(* CriticalPath for TLC: all acyclic graphs of up to Size tasks that start *)
(* in the main task.                                                       *)
(***************************************************************************)
EXTENDS CriticalPath

CONSTANTS Size, Durations

\* Edges lead from smaller to larger numbers; every task but the main task
\* has one that leads to it, as get_subgraph_from_node keeps no other.
Dags(m) ==
    {E \in SUBSET {e \in (1 .. m) \X (1 .. m) : e[1] < e[2]} :
        \A n \in 2 .. m : \E p \in 1 .. m : <<p, n>> \in E}

\* The main task has no duration, as readGraph sets it.
AllProjects ==
    UNION {{[node |-> 1 .. m, edge |-> E, root |-> 1, ts |-> [n \in 1 .. m |-> n],
             dur |-> [n \in 1 .. m |-> IF n = 1 THEN 0 ELSE d[n]]] :
               E \in Dags(m), d \in [2 .. m -> Durations]} : m \in 1 .. Size}
=============================================================================
