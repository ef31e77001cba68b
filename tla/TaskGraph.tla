----------------------------- MODULE TaskGraph -----------------------------
(***************************************************************************)
(* The graph that analysis/critical-path.py hands from the reading of a    *)
(* trace to the analysis: tasks by GUID, each with a duration and a time   *)
(* stamp, an edge from a task to each task that depends on it, and the     *)
(* main task, where the analysis starts.                                   *)
(***************************************************************************)
EXTENDS Integers

IsProject(g) ==
    /\ g.edge \subseteq g.node \X g.node
    /\ g.root \in g.node
    /\ g.dur \in [g.node -> Nat]
    /\ g.ts \in [g.node -> Nat]
=============================================================================
