----------------------------- MODULE TraceView -----------------------------
(***************************************************************************)
(* What a timeline tool promises to the application: the trace shows an    *)
(* activity (a task, a data transfer, a command) only while the            *)
(* application runs it, apart from the moment the tool takes to catch up.  *)
(***************************************************************************)
CONSTANT Activities

VARIABLES
    running,  \* what the application has started and not stopped
    traced    \* what has an open range in the trace

vars == <<running, traced>>

Init == running = {} /\ traced = {}

Start(x) ==
    /\ x \notin running
    /\ running' = running \cup {x}
    /\ traced' \in {traced, traced \cup {x}}

Show(x) ==
    /\ x \in running \ traced
    /\ traced' = traced \cup {x}
    /\ UNCHANGED running

Stop(x) ==
    /\ x \in running
    /\ running' = running \ {x}
    /\ traced' \in {traced, traced \ {x}}

Hide(x) ==
    /\ x \in traced \ running
    /\ traced' = traced \ {x}
    /\ UNCHANGED running

Next == \E x \in Activities : Start(x) \/ Show(x) \/ Stop(x) \/ Hide(x)

Spec == Init /\ [][Next]_vars

\* The tool does catch up: the trace neither misses an activity that keeps
\* running nor keeps one that has ended.
FairSpec == Spec /\ \A x \in Activities : WF_vars(Show(x)) /\ WF_vars(Hide(x))
=============================================================================
