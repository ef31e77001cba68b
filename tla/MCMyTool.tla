------------------------------ MODULE MCMyTool ------------------------------
(***************************************************************************)
(* MyTool for TLC: a task with a name and no symbol, one with a symbol     *)
(* only, and two with neither, at an address in an object that dladdr      *)
(* knows and outside all of them.  Each may find what another has left in  *)
(* memory.                                                                 *)
(***************************************************************************)
EXTENDS MyTool, TLC

CONSTANTS g, h

Arrays == {<<>>, <<h, g>>}

Symmetry == Permutations(Blocks)
=============================================================================
