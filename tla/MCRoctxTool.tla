---------------------------- MODULE MCRoctxTool ----------------------------
(***************************************************************************)
(* RoctxTool for TLC: tasks, transfers and commands are interchangeable    *)
(* among themselves, and so are the threads.                               *)
(***************************************************************************)
EXTENDS RoctxTool

Symmetry ==
    Permutations(Tasks) \cup Permutations(Transfers) \cup
    Permutations(Commands) \cup Permutations(Threads)
=============================================================================
