------------------------- MODULE MCInstrumentedTool -------------------------
(***************************************************************************)
(* InstrumentedTool for TLC: the example programs, one that uses the rest  *)
(* of the API, and applications with one task, one transfer and two        *)
(* commands.                                                               *)
(***************************************************************************)
EXTENDS InstrumentedTool

MCTasks == {"main", "A", "B", "C"}
MCTransfers == {"100"}
MCCommands == {"D", "E", "F"}
MCLabels == {"marker event", "sample"}

\* The calls about a task that the examples do not make.
relatives ==
    <<Call("initialize", ""), Call("create", "A"), Call("add_parents", "A"),
      Call("add_children", "A"), Call("start", "A"), Call("stop", "A"),
      Call("destroy", "A"), Call("finalize", "")>>

MCPrograms == {<<>>, main, mainCpp, relatives}

MCFreeCalls ==
    {Call("initialize", ""), Call("finalize", "")}
        \cup {Call(f, "A") : f \in {"create", "start", "stop", "destroy", "add_parents"}}
        \cup {Call(f, "100") : f \in {"data_transfer_start", "data_transfer_stop"}}
        \cup [function : {"command_start", "command_stop"}, subject : {"D", "E"}]
=============================================================================
