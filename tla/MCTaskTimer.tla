---------------------------- MODULE MCTaskTimer ----------------------------
(***************************************************************************)
(* Instances of TaskTimer for TLC: the environments the process can be     *)
(* started in, made of a tool (tool) and of a second one (other).          *)
(***************************************************************************)
EXTENDS TaskTimer

CONSTANTS tool, other

Nothing == [s \in Pointers |-> NULL]
Preloaded(t, names) == [s \in Pointers |-> IF s \in names THEN t ELSE NULL]

NoTool      == [global |-> Nothing, library |-> NULL, exports |-> {},
                resident |-> FALSE, loads |-> {TRUE}]
Library     == [global |-> Nothing, library |-> tool, exports |-> Pointers,
                resident |-> FALSE, loads |-> {TRUE}]
CannotLoad  == [Library EXCEPT !.loads = {FALSE}]
MayNotLoad  == [Library EXCEPT !.loads = BOOLEAN]
\* The tool implements no data transfer, as its author did not need it.
Partial     == [Library EXCEPT !.exports = @ \ {"data_transfer_start",
                                               "data_transfer_stop"}]
\* The tool is preloaded, and named in the environment variable too.
InBoth      == [Library EXCEPT !.global = Preloaded(tool, Pointers),
                               !.resident = TRUE]
\* A preloaded tool that implements the timers of tasks only, and the
\* environment variable naming another tool.
TaskPointers == {"initialize", "finalize", "create"} \cup TimerOps
TwoTools    == [Library EXCEPT !.global = Preloaded(other, TaskPointers)]
TwoMayFail  == [TwoTools EXCEPT !.loads = BOOLEAN]
\* A tool that exports what tool_api.h declares: the last six functions are
\* declared without the _impl the loader looks for.
Declared    == [Library EXCEPT !.exports = TaskPointers]

SteadyEnvs  == {NoTool, Library, CannotLoad, Partial, InBoth, TwoTools}
AllEnvs     == SteadyEnvs \cup {MayNotLoad, TwoMayFail}
DeclaredEnvs == {Declared}
SteadyFull  == {NoTool, Library, InBoth, Partial}
=============================================================================
