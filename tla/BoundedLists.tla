---------------------------- MODULE BoundedLists ----------------------------
(***************************************************************************)
(* Lists that are only appended to and have limited room: what a tool that *)
(* keeps the parents or the children of a task promises.  A list gets its  *)
(* room when it is opened; what does not fit is dropped.                   *)
(***************************************************************************)
EXTENDS Naturals, Sequences

CONSTANTS
    Owners,
    First,   \* the sequences a list may be opened with
    Inputs,  \* the sequences that may be appended later
    Rooms    \* how much room a list may have

VARIABLES
    open,    \* the owners that have a list
    list,    \* the lists, empty where there is none
    room

vars == <<open, list, room>>

Cut(s, n) == SubSeq(s, 1, IF Len(s) < n THEN Len(s) ELSE n)

Init ==
    /\ open = {}
    /\ list = [o \in Owners |-> <<>>]
    /\ room \in [Owners -> Rooms]

Open(o) ==
    /\ o \notin open
    /\ open' = open \cup {o}
    /\ \E s \in First, n \in Rooms :
          /\ list' = [list EXCEPT ![o] = Cut(s, n)]
          /\ room' = [room EXCEPT ![o] = n]

Extend(o) ==
    /\ o \in open
    /\ \E s \in Inputs : list' = [list EXCEPT ![o] = Cut(@ \o s, room[o])]
    /\ UNCHANGED <<open, room>>

Close(o) ==
    /\ o \in open
    /\ open' = open \ {o}
    /\ list' = [list EXCEPT ![o] = <<>>]
    /\ \E n \in Rooms : room' = [room EXCEPT ![o] = n]

Next == \E o \in Owners : Open(o) \/ Extend(o) \/ Close(o)

Spec == Init /\ [][Next]_vars
=============================================================================
