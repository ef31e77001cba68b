-------------------------- MODULE TraceGraphProofs --------------------------
(***************************************************************************)
(* Proofs about TraceGraph, for all traces and every main task.            *)
(*                                                                         *)
(* While a trace is read, whatever an edge leads to has attributes.  While *)
(* the graph is searched, what is found, queued or still to be queued can  *)
(* be reached from the main task, and an edge out of what is found leads   *)
(* to what is found, queued or still to be queued.                         *)
(***************************************************************************)
EXTENDS TraceGraph, SequenceTheorems, TLAPS

(***************************************************************************)
(* The queue.                                                              *)
(***************************************************************************)

LEMMA FirstAndRest ==
    ASSUME NEW S, NEW s \in Seq(S), s # <<>>
    PROVE  /\ Head(s) \in S /\ Tail(s) \in Seq(S)
           /\ ToSet(s) = {Head(s)} \cup ToSet(Tail(s))
  <1> DEFINE r == Tail(s)
             n == Len(s)
  <1>1. n \in Nat \ {0} /\ DOMAIN s = 1 .. n /\ \A i \in 1 .. n : s[i] \in S
    BY EmptySeq, LenProperties, ElementOfSeq
  <1>2. /\ Head(s) \in S /\ Head(s) = s[1] /\ 1 \in DOMAIN s
        /\ r \in Seq(S) /\ Len(r) = n - 1
        /\ \A i \in 1 .. n - 1 : r[i] = s[i + 1]
    BY <1>1, HeadTailProperties
  <1>3. DOMAIN r = 1 .. n - 1
    BY <1>2, LenProperties
  <1> HIDE DEF r, n
  <1>4. \A i \in 1 .. n : i = 1 \/ i - 1 \in 1 .. n - 1
    BY <1>1
  <1>5. \A i \in 1 .. n - 1 : i + 1 \in 1 .. n
    BY <1>1
  <1>6. \A i \in DOMAIN s : s[i] \in {Head(s)} \cup ToSet(r)
    <2> TAKE i \in DOMAIN s
    <2>1. CASE i = 1
      BY <1>2, <2>1
    <2>2. CASE i # 1
      <3>1. i - 1 \in DOMAIN r /\ i - 1 + 1 = i
        BY <1>1, <1>3, <1>4, <2>2
      <3>2. r[i - 1] = s[i]
        BY <1>2, <1>3, <3>1
      <3> QED
        BY <3>1, <3>2 DEF ToSet
    <2> QED
      BY <2>1, <2>2
  <1>7. \A i \in DOMAIN r : r[i] \in ToSet(s)
    BY <1>1, <1>2, <1>3, <1>5 DEF ToSet
  <1>8. ToSet(s) = {Head(s)} \cup ToSet(r)
    BY <1>2, <1>6, <1>7 DEF ToSet
  <1> QED
    BY <1>2, <1>8 DEF r

LEMMA Queued ==
    ASSUME NEW S, NEW s \in Seq(S), NEW e \in S
    PROVE  Append(s, e) \in Seq(S) /\ ToSet(Append(s, e)) = ToSet(s) \cup {e}
  <1> DEFINE a == Append(s, e)
  <1>1. Len(s) \in Nat /\ DOMAIN s = 1 .. Len(s)
    BY LenProperties
  <1>2. /\ a \in Seq(S) /\ Len(a) = Len(s) + 1
        /\ \A i \in 1 .. Len(s) : a[i] = s[i]
        /\ a[Len(s) + 1] = e
    BY <1>1, AppendProperties
  <1> HIDE DEF a
  <1>3. DOMAIN a = DOMAIN s \cup {Len(s) + 1}
    BY <1>1, <1>2, LenProperties
  <1>4. ToSet(a) = ToSet(s) \cup {e}
    BY <1>1, <1>2, <1>3 DEF ToSet
  <1> QED
    BY <1>2, <1>4 DEF a

LEMMA NothingQueued == ToSet(<<>>) = {} /\ DOMAIN <<>> = {}
  BY DEF ToSet

(***************************************************************************)
(* The invariant.                                                          *)
(***************************************************************************)

\* The graph has the types of the trace it was made from.
GraphInv ==
    /\ trace \in Seq(Event)
    /\ next \in 1 .. Len(trace) + 1
    /\ phase \in {"read", "search", "done", "failed"}
    /\ Nodes \subseteq Nat
    /\ \A g \in Nodes : attr[g] \in Attributes \cup {NULL}
    /\ edge \subseteq Nodes \X Nodes
    /\ duration \in Nat \cup {NULL}
    /\ firstCreate \in Nat /\ lastDestroy \in Nat
    /\ SuccessorsAttributed
    /\ phase # "read" /\ 0 \in Nodes => attr[0] # NULL

\* What the search has in its hands.
Reached == found \cup ToSet(queue) \cup todo

SearchInv ==
    /\ queue \in Seq(Nat)
    /\ Reached \subseteq Nodes
    /\ phase = "read" => Reached = {}
    /\ phase = "done" => queue = <<>> /\ todo = {}
    /\ phase \in {"search", "done"} => MainTask \in found \cup ToSet(queue)
    /\ \A e \in edge : e[1] \in found => e[2] \in Reached
    /\ \A S \in SUBSET Nodes : Closed(S) => Reached \subseteq S
    /\ \A n \in Reached : n = MainTask \/ \E e \in edge : e[2] = n

Inv == GraphInv /\ SearchInv

LEMMA InvType == Inv => TypeOK
  <1> SUFFICES ASSUME Inv PROVE TypeOK
    OBVIOUS
  <1>1. ToSet(queue) \cup found \cup todo \subseteq Nodes
    BY DEF Inv, SearchInv, Reached
  <1> QED
    BY <1>1 DEF Inv, GraphInv, TypeOK

LEMMA InitInv == Init => Inv
  <1> SUFFICES ASSUME Init PROVE Inv
    OBVIOUS
  <1>1. /\ trace \in Seq(Event) /\ next = 1 /\ phase = "read" /\ edge = {}
        /\ duration = NULL /\ firstCreate = 0 /\ lastDestroy = 0
        /\ attr = <<>> /\ queue = <<>> /\ found = {} /\ todo = {}
    BY TracesAssumption DEF Init
  <1>2. Nodes = {} /\ Reached = {}
    BY <1>1, NothingQueued DEF Nodes, Reached
  <1>3. next \in 1 .. Len(trace) + 1
    <2>1. Len(trace) \in Nat
      BY <1>1, LenProperties
    <2> QED
      BY <1>1, <2>1
  <1>4. GraphInv
    BY <1>1, <1>2, <1>3 DEF GraphInv, SuccessorsAttributed
  <1>5. SearchInv
    BY <1>1, <1>2, EmptySeq DEF SearchInv
  <1> QED
    BY <1>4, <1>5 DEF Inv

(***************************************************************************)
(* Reading.                                                                *)
(***************************************************************************)

\* The event that is read.
LEMMA ReadFacts ==
    ASSUME Inv, NEW kind, Read(kind)
    PROVE  /\ phase = "read" /\ trace[next] \in Event /\ trace[next].kind = kind
           /\ next' \in 1 .. Len(trace) + 1
           /\ UNCHANGED <<trace, phase, queue, found, todo>>
  <1>1. /\ phase = "read" /\ next <= Len(trace) /\ next' = next + 1
        /\ trace[next].kind = kind
        /\ UNCHANGED <<trace, phase, queue, found, todo>>
    BY DEF Read, searchVars
  <1>2. trace \in Seq(Event) /\ next \in 1 .. Len(trace) + 1 /\ Len(trace) \in Nat
    BY LenProperties DEF Inv, GraphInv
  <1>3. next \in 1 .. Len(trace) /\ next + 1 \in 1 .. Len(trace) + 1
    BY <1>1, <1>2
  <1>4. trace[next] \in Event
    BY <1>2, <1>3, ElementOfSeq
  <1> QED
    BY <1>1, <1>3, <1>4

\* Nothing is searched for while the trace is read.
LEMMA ReadSearchInv ==
    ASSUME Inv, phase = "read", UNCHANGED <<phase, queue, found, todo>>
    PROVE  SearchInv'
  <1>1. Reached' = {} /\ phase' = "read" /\ found' = {} /\ queue' \in Seq(Nat)
    BY DEF Inv, SearchInv, Reached
  <1> QED
    BY <1>1 DEF SearchInv

LEMMA PlainRead ==
    ASSUME Inv, ReadCreation \/ ReadDestruction \/ ReadOther
    PROVE  Inv'
  <1>1. PICK kind \in {"create", "destroy", "other"} : Read(kind)
    BY DEF ReadCreation, ReadDestruction, ReadOther
  <1>2. /\ phase = "read" /\ trace[next] \in Event /\ trace[next].kind = kind
        /\ next' \in 1 .. Len(trace) + 1
        /\ UNCHANGED <<trace, phase, queue, found, todo>>
    BY <1>1, ReadFacts
  <1>3. trace[next].ts \in Nat
    BY <1>2 DEF Event
  <1>4. UNCHANGED <<attr, edge, duration>> /\ firstCreate' \in Nat /\ lastDestroy' \in Nat
    BY <1>3 DEF ReadCreation, ReadDestruction, ReadOther, graphVars, timeVars,
                Inv, GraphInv
  <1>5. GraphInv'
    BY <1>2, <1>4 DEF Inv, GraphInv, Nodes, SuccessorsAttributed
  <1>6. SearchInv'
    BY <1>2, ReadSearchInv
  <1> QED
    BY <1>5, <1>6 DEF Inv

LEMMA SpanRead ==
    ASSUME Inv, ReadSpan
    PROVE  Inv'
  <1> DEFINE e == trace[next]
  <1>1. /\ phase = "read" /\ e \in Event /\ e.kind = "span"
        /\ next' \in 1 .. Len(trace) + 1
        /\ UNCHANGED <<trace, phase, queue, found, todo>>
    BY ReadFacts DEF ReadSpan
  <1>2. /\ e.ts \in Nat /\ e.dur \in Nat /\ e.guid \in Nat /\ e.parents \subseteq Int
    BY <1>1 DEF Event
  <1> HIDE DEF e
  <1>3. UNCHANGED <<firstCreate, lastDestroy>>
    BY DEF ReadSpan
  <1>4. SearchInv'
    BY <1>1, ReadSearchInv
  <1>5. CASE e.implicit /\ ~e.main
    <2>1. UNCHANGED <<attr, edge, duration>>
      BY <1>5 DEF ReadSpan, graphVars, e
    <2>2. GraphInv'
      BY <1>1, <1>3, <2>1 DEF Inv, GraphInv, Nodes, SuccessorsAttributed
    <2> QED
      BY <1>4, <2>2 DEF Inv
  <1>6. CASE ~(e.implicit /\ ~e.main)
    <2> DEFINE D == Dependencies(e)
               a == [dur |-> IF e.main THEN 0 ELSE e.dur, ts |-> e.ts]
    <2>1. /\ attr' = Attributed(e)
          /\ edge' = edge \cup (D \X {e.guid})
          /\ duration' = IF e.main THEN e.dur ELSE duration
      BY <1>6 DEF ReadSpan, e
    <2>2. D \subseteq Nat
      BY <1>2, MainTaskAssumption DEF Dependencies
    <2>3. a \in Attributes /\ a # NULL
      BY <1>2, NullAssumption DEF Attributes
    <2> HIDE DEF D, a
    <2>4. /\ Nodes' = Nodes \cup {e.guid} \cup D
          /\ attr'[e.guid] = a
          /\ \A g \in Nodes : g # e.guid => attr'[g] = attr[g]
          /\ \A g \in D : g # e.guid /\ g \notin Nodes => attr'[g] = NULL
      BY <2>1 DEF Nodes, Attributed, D, a
    <2>5. Nodes' \subseteq Nat /\ \A g \in Nodes' : attr'[g] \in Attributes \cup {NULL}
      BY <1>2, <2>2, <2>3, <2>4 DEF Inv, GraphInv
    <2>6. edge' \subseteq Nodes' \X Nodes'
      BY <2>1, <2>4 DEF Inv, GraphInv
    <2>7. SuccessorsAttributed'
      <3> SUFFICES ASSUME NEW d \in edge' PROVE attr'[d[2]] # NULL
        BY DEF SuccessorsAttributed
      <3>1. CASE d \in edge
        <4>1. d[2] \in Nodes /\ attr[d[2]] # NULL
          BY <3>1 DEF Inv, GraphInv, SuccessorsAttributed
        <4> QED
          BY <2>3, <2>4, <4>1
      <3>2. CASE d \in D \X {e.guid}
        <4>1. d[2] = e.guid
          BY <3>2
        <4> QED
          BY <2>3, <2>4, <4>1
      <3> QED
        BY <2>1, <3>1, <3>2
    <2>8. duration' \in Nat \cup {NULL}
      BY <1>2, <2>1 DEF Inv, GraphInv
    <2>9. GraphInv'
      BY <1>1, <1>3, <2>5, <2>6, <2>7, <2>8 DEF Inv, GraphInv
    <2> QED
      BY <1>4, <2>9 DEF Inv
  <1> QED
    BY <1>5, <1>6

\* The search starts with the main task in the queue.
LEMMA SearchStarts ==
    ASSUME Inv, EndOfTrace
    PROVE  Inv'
  <1>1. /\ phase = "read" /\ UNCHANGED <<trace, next, edge, found, todo>>
        /\ UNCHANGED <<duration, firstCreate, lastDestroy>>
        /\ attr' = IF 0 \in Nodes /\ attr[0] = NULL
                   THEN [attr EXCEPT ![0] = [dur |-> 0, ts |-> firstCreate]]
                   ELSE attr
        /\ \/ phase' = "failed" /\ queue' = queue
           \/ MainTask \in Nodes /\ phase' = "search" /\ queue' = <<MainTask>>
    BY DEF EndOfTrace, timeVars
  <1>2. /\ Nodes' = Nodes
        /\ \A g \in Nodes : g # 0 => attr'[g] = attr[g]
        /\ 0 \in Nodes => attr'[0] # NULL /\ attr'[0] \in Attributes \cup {NULL}
    <2> DEFINE a == [dur |-> 0, ts |-> firstCreate]
    <2>1. a \in Attributes /\ a # NULL
      BY NullAssumption DEF Attributes, Inv, GraphInv
    <2> HIDE DEF a
    <2>2. CASE 0 \in Nodes /\ attr[0] = NULL
      <3>1. attr' = [attr EXCEPT ![0] = a]
        BY <1>1, <2>2 DEF a
      <3> QED
        BY <2>1, <2>2, <3>1 DEF Nodes
    <2>3. CASE ~(0 \in Nodes /\ attr[0] = NULL)
      BY <1>1, <2>3 DEF Nodes, Inv, GraphInv
    <2> QED
      BY <2>2, <2>3
  <1>3. SuccessorsAttributed'
    <2> SUFFICES ASSUME NEW d \in edge PROVE attr'[d[2]] # NULL
      BY <1>1 DEF SuccessorsAttributed
    <2>1. d[2] \in Nodes /\ attr[d[2]] # NULL
      BY DEF Inv, GraphInv, SuccessorsAttributed
    <2> QED
      BY <1>2, <2>1
  <1>4. GraphInv'
    BY <1>1, <1>2, <1>3 DEF Inv, GraphInv
  <1>5. found = {} /\ ToSet(queue) = {} /\ todo = {} /\ queue \in Seq(Nat)
    BY <1>1 DEF Inv, SearchInv, Reached
  <1>6. CASE phase' = "failed" /\ queue' = queue
    <2>1. Reached' = {} /\ found' = {}
      BY <1>1, <1>5, <1>6 DEF Reached
    <2> QED
      BY <1>4, <1>5, <1>6, <2>1 DEF Inv, SearchInv
  <1>7. CASE MainTask \in Nodes /\ phase' = "search" /\ queue' = <<MainTask>>
    <2>1. queue' \in Seq(Nat) /\ ToSet(queue') = {MainTask}
      BY <1>7, MainTaskAssumption DEF ToSet
    <2>2. Reached' = {MainTask} /\ found' = {}
      BY <1>1, <1>5, <2>1 DEF Reached
    <2>3. SearchInv'
      BY <1>1, <1>2, <1>7, <2>1, <2>2 DEF SearchInv, Closed
    <2> QED
      BY <1>4, <2>3 DEF Inv
  <1> QED
    BY <1>1, <1>6, <1>7

(***************************************************************************)
(* Searching.                                                              *)
(***************************************************************************)

\* The search leaves the graph alone.
LEMMA GraphKept ==
    ASSUME Inv, phase # "read", phase' \in {"search", "done", "failed"},
           UNCHANGED <<trace, next, attr, edge, duration, firstCreate, lastDestroy>>
    PROVE  GraphInv' /\ Nodes' = Nodes
  BY DEF Inv, GraphInv, Nodes, SuccessorsAttributed

LEMMA VisitStep ==
    ASSUME Inv, Visit
    PROVE  Inv'
  <1> DEFINE n == Head(queue)
  <1>1. /\ phase = "search" /\ phase' = phase /\ todo = {} /\ queue # <<>>
        /\ found' = found \cup {n} /\ queue' = Tail(queue) /\ todo' = Neighbours(n)
        /\ UNCHANGED <<trace, next, attr, edge, duration, firstCreate, lastDestroy>>
    BY DEF Visit, graphVars, timeVars
  <1>2. GraphInv' /\ Nodes' = Nodes
    BY <1>1, GraphKept
  <1>3. queue' \in Seq(Nat) /\ ToSet(queue) = {n} \cup ToSet(queue')
    BY <1>1, FirstAndRest DEF Inv, SearchInv
  <1> HIDE DEF n
  <1>4. Reached' = Reached \cup Neighbours(n) /\ n \in Reached
    BY <1>1, <1>3 DEF Reached
  <1>5. /\ Neighbours(n) \subseteq Nodes
        /\ \A e \in edge : e[1] = n => e[2] \in Neighbours(n)
        /\ \A s \in Neighbours(n) : <<n, s>> \in edge
    BY DEF Neighbours, Inv, GraphInv
  <1>6. Reached' \subseteq Nodes
    BY <1>4, <1>5 DEF Inv, SearchInv
  <1>7. MainTask \in found' \cup ToSet(queue')
    BY <1>1, <1>3 DEF Inv, SearchInv
  <1>8. \A e \in edge : e[1] \in found' => e[2] \in Reached'
    BY <1>1, <1>4, <1>5 DEF Inv, SearchInv
  <1>9. \A S \in SUBSET Nodes : Closed(S) => Reached' \subseteq S
    <2> SUFFICES ASSUME NEW S \in SUBSET Nodes, Closed(S) PROVE Reached' \subseteq S
      OBVIOUS
    <2>1. Reached \subseteq S
      BY DEF Inv, SearchInv
    <2>2. \A s \in Neighbours(n) : s \in S
      <3> TAKE s \in Neighbours(n)
      <3>1. <<n, s>> \in edge /\ n \in S
        BY <1>4, <1>5, <2>1
      <3>2. <<n, s>>[1] \in S => <<n, s>>[2] \in S
        BY <3>1 DEF Closed
      <3> QED
        BY <3>1, <3>2
    <2> QED
      BY <1>4, <2>1, <2>2
  <1>10. \A m \in Reached' : m = MainTask \/ \E e \in edge : e[2] = m
    <2> SUFFICES ASSUME NEW m \in Neighbours(n) PROVE \E e \in edge : e[2] = m
      BY <1>4 DEF Inv, SearchInv
    <2>1. <<n, m>> \in edge /\ <<n, m>>[2] = m
      BY <1>5
    <2> QED
      BY <2>1
  <1>11. \A S : Closed(S)' <=> Closed(S)
    BY <1>1 DEF Closed
  <1>12. SearchInv'
    BY <1>1, <1>2, <1>3, <1>6, <1>7, <1>8, <1>9, <1>10, <1>11 DEF SearchInv
  <1> QED
    BY <1>2, <1>12 DEF Inv

LEMMA EnqueueStep ==
    ASSUME Inv, NEW s \in Nodes, Enqueue(s)
    PROVE  Inv'
  <1>1. /\ phase = "search" /\ phase' = phase /\ s \in todo
        /\ todo' = todo \ {s} /\ found' = found
        /\ queue' = IF s \in found THEN queue ELSE Append(queue, s)
        /\ UNCHANGED <<trace, next, attr, edge, duration, firstCreate, lastDestroy>>
    BY DEF Enqueue, graphVars, timeVars
  <1>2. GraphInv' /\ Nodes' = Nodes
    BY <1>1, GraphKept
  <1>3. /\ queue' \in Seq(Nat)
        /\ s \in found \cup ToSet(queue')
        /\ ToSet(queue) \subseteq ToSet(queue')
        /\ ToSet(queue') \subseteq ToSet(queue) \cup {s}
    <2>1. queue \in Seq(Nat) /\ s \in Nat
      BY DEF Inv, SearchInv, GraphInv
    <2>2. Append(queue, s) \in Seq(Nat) /\ ToSet(Append(queue, s)) = ToSet(queue) \cup {s}
      BY <2>1, Queued
    <2> QED
      BY <1>1, <2>1, <2>2
  <1>4. Reached' = Reached
    BY <1>1, <1>3 DEF Reached
  <1>5. MainTask \in found' \cup ToSet(queue')
    BY <1>1, <1>3 DEF Inv, SearchInv
  <1>6. \A S : Closed(S)' <=> Closed(S)
    BY <1>1 DEF Closed
  <1>7. SearchInv'
    BY <1>1, <1>2, <1>3, <1>4, <1>5, <1>6 DEF Inv, SearchInv
  <1> QED
    BY <1>2, <1>7 DEF Inv

LEMMA FoundStep ==
    ASSUME Inv, Found
    PROVE  Inv'
  <1>1. /\ phase = "search" /\ phase' = "done" /\ queue = <<>> /\ todo = {}
        /\ UNCHANGED <<trace, next, attr, edge, duration, firstCreate, lastDestroy>>
        /\ UNCHANGED <<queue, found, todo>>
    BY DEF Found, graphVars, timeVars, searchVars
  <1>2. GraphInv' /\ Nodes' = Nodes
    BY <1>1, GraphKept
  <1>3. Reached' = Reached /\ \A S : Closed(S)' <=> Closed(S)
    BY <1>1 DEF Reached, Closed
  <1>4. SearchInv'
    BY <1>1, <1>2, <1>3 DEF Inv, SearchInv
  <1> QED
    BY <1>2, <1>4 DEF Inv

LEMMA Invariance == Spec => []Inv
  <1>1. Init => Inv
    BY InitInv
  <1>2. Inv /\ Next => Inv'
    BY PlainRead, SpanRead, SearchStarts, VisitStep, EnqueueStep, FoundStep DEF Next
  <1>3. Inv /\ UNCHANGED vars => Inv'
    <2> SUFFICES ASSUME Inv, UNCHANGED vars PROVE Inv'
      OBVIOUS
    <2>1. UNCHANGED <<trace, next, phase, attr, edge, duration, firstCreate, lastDestroy>>
          /\ UNCHANGED <<queue, found, todo>>
      BY DEF vars, graphVars, timeVars, searchVars
    <2>2. Nodes' = Nodes /\ Reached' = Reached /\ \A S : Closed(S)' <=> Closed(S)
      BY <2>1 DEF Nodes, Reached, Closed
    <2>3. GraphInv' /\ SearchInv'
      BY <2>1, <2>2 DEF Inv, GraphInv, SearchInv, SuccessorsAttributed
    <2> QED
      BY <2>3 DEF Inv
  <1> QED
    BY <1>1, <1>2, <1>3, PTL DEF Spec

(***************************************************************************)
(* The theorems.                                                           *)
(***************************************************************************)

\* The graph, the variables of readGraph and those of the search keep their
\* types, whatever trace is read.
THEOREM TypeCorrect == Spec => []TypeOK
  BY InvType, Invariance, PTL

\* In every trace, a task that depends on something has attributes: only a
\* parent that the trace never shows is left without.
THEOREM DependentsAreAttributed == Spec => []SuccessorsAttributed
  <1>1. Inv => SuccessorsAttributed
    BY DEF Inv, GraphInv
  <1> QED
    BY <1>1, Invariance, PTL

\* The search finds the smallest set with the main task in it that no edge
\* leads out of, also in a graph with cycles.
THEOREM SearchIsExact == Spec => []FoundIsReachable
  <1>1. Inv => FoundIsReachable
    <2> SUFFICES ASSUME Inv, phase = "done"
                 PROVE  Closed(found) /\ \A S \in SUBSET found : Closed(S) => S = found
      BY DEF FoundIsReachable
    <2>1. Reached = found
      BY NothingQueued DEF Inv, SearchInv, Reached
    <2>2. Closed(found)
      BY <2>1, NothingQueued DEF Inv, SearchInv, Closed
    <2>3. \A S \in SUBSET found : Closed(S) => S = found
      BY <2>1 DEF Inv, SearchInv
    <2> QED
      BY <2>2, <2>3
  <1> QED
    BY <1>1, Invariance, PTL

\* From task 0 the analysis is always handed a task graph with all the
\* attributes it will ask for.
THEOREM HandsOnProjects == Spec => []HandsOnProject
  <1>1. Inv => HandsOnProject
    <2> SUFFICES ASSUME Inv, phase = "done", MainTask = 0
                 PROVE  (\A g \in found : attr[g] # NULL) /\ IsProject(Subgraph)
      BY DEF HandsOnProject
    <2>1. found \subseteq Nodes /\ MainTask \in found
          /\ \A n \in found : n = MainTask \/ \E e \in edge : e[2] = n
      BY NothingQueued DEF Inv, SearchInv, Reached
    <2>2. \A g \in found : attr[g] # NULL
      <3> TAKE g \in found
      <3>1. CASE g = 0
        BY <2>1, <3>1 DEF Inv, GraphInv
      <3>2. CASE g # 0
        BY <2>1, <3>2 DEF Inv, GraphInv, SuccessorsAttributed
      <3> QED
        BY <3>1, <3>2
    <2>3. \A g \in found : attr[g].dur \in Nat /\ attr[g].ts \in Nat
      <3>1. \A g \in found : attr[g] \in Attributes
        BY <2>1, <2>2 DEF Inv, GraphInv
      <3> QED
        BY <3>1 DEF Attributes
    <2>4. {e \in edge : {e[1], e[2]} \subseteq found} \subseteq found \X found
      <3>1. \A e \in edge : e = <<e[1], e[2]>>
        BY DEF Inv, GraphInv
      <3> QED
        BY <3>1
    <2>5. IsProject(Subgraph)
      BY <2>1, <2>3, <2>4 DEF IsProject, Subgraph
    <2> QED
      BY <2>2, <2>5
  <1> QED
    BY <1>1, Invariance, PTL
=============================================================================
