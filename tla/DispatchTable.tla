--------------------------- MODULE DispatchTable ---------------------------
(***************************************************************************)
(* What the API promises to the threads that call it, whatever the order   *)
(* in which tasktimer_initialize finds and stores the tool's functions: a  *)
(* call leads nowhere or to its one target, it starts to lead there only   *)
(* once a tool is running, and from then on it always does.                *)
(***************************************************************************)
CONSTANTS Slots, Tools, NULL

VARIABLES
    target,   \* target[s]: the tool that function s should reach, or NULL
    table,    \* table[s]: the tool it reaches now, or NULL
    running   \* a tool has been initialised

vars == <<target, table, running>>

Init ==
    /\ target \in [Slots -> Tools \cup {NULL}]
    /\ table = [s \in Slots |-> NULL]
    /\ running = FALSE

Run ==
    /\ ~running
    /\ running' = TRUE
    /\ UNCHANGED <<target, table>>

Bind(s) ==
    /\ running
    /\ table[s] # target[s]
    /\ table' = [table EXCEPT ![s] = target[s]]
    /\ UNCHANGED <<target, running>>

Next == Run \/ \E s \in Slots : Bind(s)

Spec == Init /\ [][Next]_vars

\* Where every function that exists can be loaded, they are all bound in
\* the end.
FairSpec == Spec /\ \A s \in Slots : WF_vars(Bind(s))
=============================================================================
