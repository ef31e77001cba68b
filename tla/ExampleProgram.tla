--------------------------- MODULE ExampleProgram ---------------------------
(***************************************************************************)
(* The example applications, examples/main.c and examples/main.cpp: one    *)
(* thread that makes a fixed sequence of calls of the API.  The program is *)
(* that sequence; guids, arguments and resources are left out.             *)
(***************************************************************************)
EXTENDS Sequences

\* One macro of tasktimer.h: the function it calls, and the task, transfer,
\* command or label the call is about ("" for none).
Call(function, subject) == [function |-> function, subject |-> subject]

\* A bug to plant: a function returns early, and its task is not stopped.
TaskLeftRunning(k, body) ==
    <<Call("create", k), Call("schedule", k), Call("start", k)>> \o body

\* How A, B and C begin and end; the body is what they call in between.
Task(k, body) ==
    <<Call("create", k), Call("schedule", k), Call("start", k)>>
        \o body \o <<Call("stop", k)>>

\* D, E and F.
Command(c) == <<Call("command_start", c), Call("command_stop", c)>>

\* Every transfer has the guid 100, and the same end points.
xfer == <<Call("data_transfer_start", "100"), Call("data_transfer_stop", "100")>>

B == Task("B", <<>>)
C == Task("C", Command("D") \o xfer \o Command("E") \o xfer \o Command("F"))
A == Task("A", B \o C)

main ==
    <<Call("initialize", ""),
      Call("create", "main"), Call("schedule", "main"),
      Call("start", "main"), Call("yield", "main")>>
    \o A \o
    <<Call("mark", "marker event"), Call("sample_value", "sample"),
      Call("resume", "main"), Call("stop", "main"),
      Call("finalize", "")>>

\* main.cpp makes the same calls, with pauses between some of them.
mainCpp == main
=============================================================================
