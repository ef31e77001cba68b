------------------------- MODULE CriticalPathProofs -------------------------
(***************************************************************************)
(* Proofs about CriticalPath, for every set of task graphs.                *)
(***************************************************************************)
EXTENDS CriticalPath, TLAPS

LEMMA GraphFacts ==
    ASSUME TypeOK
    PROVE  /\ graph.edge \subseteq graph.node \X graph.node
           /\ graph.root \in graph.node
           /\ graph.dur \in [graph.node -> Nat]
           /\ graph.ts \in [graph.node -> Nat]
           /\ NULL \notin graph.node /\ NULL \notin Int
  BY ProjectsAssumption, NullAssumption DEF TypeOK, IsProject

\* A node's float is what its latest finish has over its earliest.
LEMMA FloatFromFinishes ==
    ASSUME TypeOK, Finishes
    PROVE  FloatNotNegative
  <1> SUFFICES ASSUME NEW n \in graph.node, lst[n] # NULL
               PROVE  est[n] # NULL /\ est[n] <= lst[n]
    BY DEF FloatNotNegative
  <1>1. /\ lft[n] # NULL /\ eft[n] # NULL /\ est[n] # NULL
        /\ eft[n] <= lft[n]
        /\ lst[n] = lft[n] - graph.dur[n] /\ eft[n] = est[n] + graph.dur[n]
    BY DEF Finishes
  <1>2. /\ lft[n] \in Nat /\ eft[n] \in Nat /\ est[n] \in Nat
        /\ graph.dur[n] \in Nat
    BY <1>1, GraphFacts DEF TypeOK, Attribute
  <1> QED
    BY <1>1, <1>2

\* Steps that give no node its earliest finish see no more ends.
LEMMA SeenStays ==
    ASSUME PassInv, UNCHANGED <<graph, eft, endtime>>
    PROVE  EndsLast'
  BY DEF PassInv, EndsLast, Seen, EndOf

LEMMA InitPass == Init => TypeOK /\ PassInv
  <1> SUFFICES ASSUME Init PROVE TypeOK /\ PassInv
    OBVIOUS
  <1>1. graph \in Projects /\ IsProject(graph)
    BY ProjectsAssumption DEF Init
  <1>2. /\ est = [n \in graph.node |-> NULL] /\ eft = est
        /\ lst = est /\ lft = est
    BY DEF Init
  <1>3. TypeOK
    BY <1>1, <1>2 DEF Init, TypeOK, IsProject, Attribute
  <1>4. ForwardLoop /\ BackwardLoop /\ Finishes /\ EarliestFeasible /\ LatestFeasible
    BY <1>2 DEF Init, ForwardLoop, BackwardLoop, Finishes,
                EarliestFeasible, LatestFeasible
  <1>5. EndsLast
    <2>1. graph.root \in graph.node /\ EndOf(graph.root) \in Nat
      BY <1>3, GraphFacts DEF EndOf
    <2>2. Seen = {graph.root} /\ endtime = EndOf(graph.root)
      BY <1>2, <2>1 DEF Init, Seen, EndOf
    <2> QED
      BY <2>1, <2>2 DEF EndsLast
  <1> QED
    BY <1>3, <1>4, <1>5 DEF PassInv

-----------------------------------------------------------------------------
(***************************************************************************)
(* The forward pass.                                                       *)
(***************************************************************************)

LEMMA EnterForwardPass ==
    ASSUME TypeOK, PassInv, NEW n \in graph.node, EnterForward(n)
    PROVE  TypeOK' /\ PassInv'
  <1>1. TypeOK'
    BY DEF EnterForward, TypeOK, Preds, Attribute
  <1>2. ForwardLoop'
    BY GraphFacts DEF EnterForward, PassInv, ForwardLoop, Preds
  <1>3. BackwardLoop' /\ Finishes' /\ EarliestFeasible' /\ LatestFeasible'
    BY DEF EnterForward, PassInv, BackwardLoop, Finishes, EarliestFeasible,
           LatestFeasible
  <1>4. EndsLast'
    BY SeenStays DEF EnterForward
  <1> QED
    BY <1>1, <1>2, <1>3, <1>4 DEF PassInv

LEMMA LatestPass ==
    ASSUME TypeOK, PassInv, NEW p \in graph.node, Latest(p)
    PROVE  TypeOK' /\ PassInv'
  <1>1. /\ node # NULL /\ node \in graph.node
        /\ best \in Nat /\ eft[p] \in Nat /\ p \in Preds(node)
    BY DEF Latest, PassInv, ForwardLoop, TypeOK, Attribute
  <1>2. best' \in Nat /\ best <= best' /\ eft[p] <= best'
    BY <1>1 DEF Latest, MaxOf
  <1>3. TypeOK'
    BY <1>2 DEF Latest, TypeOK, Attribute
  <1>4. ForwardLoop'
    <2>1. \A q \in Preds(node) : q \in todo' \/ eft[q] <= best'
      <3> SUFFICES ASSUME NEW q \in Preds(node), q \notin todo
                   PROVE  eft[q] <= best'
        BY <1>2 DEF Latest
      <3>1. eft[q] <= best /\ eft[q] \in Nat
        BY <1>1 DEF Latest, PassInv, ForwardLoop, TypeOK, Attribute, Preds
      <3> QED
        BY <1>1, <1>2, <3>1
    <2>2. best' # NULL
      BY <1>2, GraphFacts
    <2> QED
      BY <1>1, <2>1, <2>2 DEF Latest, PassInv, ForwardLoop, Preds
  <1>5. BackwardLoop' /\ Finishes' /\ EarliestFeasible' /\ LatestFeasible'
    BY DEF Latest, PassInv, BackwardLoop, Finishes, EarliestFeasible,
           LatestFeasible
  <1>6. EndsLast'
    BY SeenStays DEF Latest
  <1> QED
    BY <1>3, <1>4, <1>5, <1>6 DEF PassInv

LEMMA LeaveForwardPass ==
    ASSUME TypeOK, PassInv, LeaveForward
    PROVE  TypeOK' /\ PassInv'
  <1>1. /\ node \in graph.node /\ best \in Nat /\ eft[node] = NULL
        /\ \A p \in Preds(node) : eft[p] # NULL /\ eft[p] <= best
        /\ graph.dur[node] \in Nat /\ graph.ts[node] \in Nat
        /\ NULL \notin Int
    BY GraphFacts DEF LeaveForward, PassInv, ForwardLoop, TypeOK
  <1>2. /\ graph' = graph /\ phase' = "forward" /\ phase = "forward"
        /\ node' = NULL /\ todo' = {} /\ lst' = lst /\ lft' = lft
        /\ est' = [est EXCEPT ![node] = best]
        /\ eft' = [eft EXCEPT ![node] = best + graph.dur[node]]
    BY DEF LeaveForward
  <1>3. est \in Attribute(Nat) /\ eft \in Attribute(Nat)
    BY DEF TypeOK
  <1>4. est'[node] = best /\ eft'[node] = best + graph.dur[node]
    BY <1>1, <1>2, <1>3 DEF Attribute
  <1>5. \A n \in graph.node : n # node => est'[n] = est[n] /\ eft'[n] = eft[n]
    BY <1>2, <1>3 DEF Attribute
  <1>6. TypeOK'
    <2>1. est' \in Attribute(Nat)' /\ eft' \in Attribute(Nat)'
      BY <1>1, <1>2, <1>3 DEF Attribute
    <2>2. endtime' \in Nat
      BY <1>1 DEF LeaveForward, MaxOf, TypeOK
    <2> QED
      BY <2>1, <2>2 DEF LeaveForward, TypeOK, Attribute
  <1>7. ForwardLoop' /\ BackwardLoop'
    BY <1>2 DEF PassInv, ForwardLoop, BackwardLoop
  <1>8. Finishes'
    <2>1. \A n \in graph.node : lft[n] = NULL /\ lst[n] = NULL
      BY <1>2 DEF PassInv, ForwardLoop
    <2>2. \A n \in graph.node :
             /\ est'[n] = NULL <=> eft'[n] = NULL
             /\ est'[n] # NULL => eft'[n] = est'[n] + graph.dur[n]
      <3> TAKE n \in graph.node
      <3>1. CASE n = node
        <4>1. best # NULL /\ best + graph.dur[node] # NULL
          BY <1>1
        <4> QED
          BY <1>4, <3>1, <4>1
      <3>2. CASE n # node
        BY <1>5, <3>2 DEF PassInv, Finishes
      <3> QED
        BY <3>1, <3>2
    <2> QED
      BY <1>2, <2>1, <2>2 DEF Finishes
  <1>9. EarliestFeasible'
    <2> SUFFICES ASSUME NEW p \in graph.node, NEW n \in graph.node,
                        <<p, n>> \in graph.edge, est'[n] # NULL
                 PROVE  eft'[p] # NULL /\ eft'[p] <= est'[n]
      BY <1>2 DEF EarliestFeasible
    <2>1. CASE n = node
      <3>1. eft[p] # NULL /\ eft[p] <= best
        BY <1>1, <2>1 DEF Preds
      <3> QED
        BY <1>1, <1>4, <1>5, <2>1, <3>1
    <2>2. CASE n # node
      <3>1. eft[p] # NULL /\ eft[p] <= est[n]
        BY <1>5, <2>2 DEF PassInv, EarliestFeasible
      <3> QED
        BY <1>1, <1>5, <2>2, <3>1
    <2> QED
      BY <2>1, <2>2
  <1>10. LatestFeasible'
    BY <1>2 DEF PassInv, LatestFeasible
  <1>11. EndsLast'
    <2>1. endtime' = MaxOf(endtime, EndOf(node)) /\ \A n : EndOf(n)' = EndOf(n)
      BY <1>2 DEF LeaveForward, EndOf
    <2>2. Seen' = Seen \cup {node}
      <3>1. best + graph.dur[node] # NULL
        BY <1>1
      <3> QED
        BY <1>1, <1>2, <1>4, <1>5, <3>1 DEF Seen
    <2>3. endtime \in Nat /\ \A n \in graph.node : EndOf(n) \in Nat
      BY GraphFacts DEF TypeOK, EndOf
    <2>4. /\ \A n \in Seen : EndOf(n) <= endtime
          /\ \E n \in Seen : EndOf(n) = endtime
          /\ Seen \subseteq graph.node
      BY DEF PassInv, EndsLast, Seen
    <2>5. /\ endtime <= endtime' /\ EndOf(node) <= endtime'
          /\ endtime' \in {endtime, EndOf(node)}
      BY <1>1, <2>1, <2>3 DEF MaxOf
    <2>6. endtime' \in Nat
      BY <1>1, <2>3, <2>5
    <2>7. \A n \in Seen' : EndOf(n) <= endtime'
      <3> TAKE n \in Seen'
      <3>1. CASE n = node
        BY <2>5, <3>1
      <3>2. CASE n # node
        <4>1. EndOf(n) <= endtime /\ EndOf(n) \in Nat
          BY <2>2, <2>3, <2>4, <3>2
        <4> QED
          BY <2>3, <2>5, <2>6, <4>1
      <3> QED
        BY <3>1, <3>2
    <2>8. \E n \in Seen' : EndOf(n) = endtime'
      BY <2>2, <2>4, <2>5
    <2> QED
      BY <2>1, <2>7, <2>8 DEF EndsLast
  <1> QED
    BY <1>6, <1>7, <1>8, <1>9, <1>10, <1>11 DEF PassInv

LEMMA TurnBackPass ==
    ASSUME TypeOK, PassInv, TurnBack
    PROVE  TypeOK' /\ PassInv'
  <1>1. EndsLast'
    BY SeenStays DEF TurnBack
  <1> QED
    BY <1>1 DEF TurnBack, TypeOK, Attribute, PassInv, ForwardLoop, BackwardLoop,
                Finishes, EarliestFeasible, LatestFeasible

-----------------------------------------------------------------------------
(***************************************************************************)
(* The backward pass.                                                      *)
(***************************************************************************)

LEMMA EnterBackwardPass ==
    ASSUME TypeOK, PassInv, NEW n \in graph.node, EnterBackward(n)
    PROVE  TypeOK' /\ PassInv'
  <1>1. eft[n] \in Nat /\ n # NULL
    BY GraphFacts DEF EnterBackward, PassInv, Finishes, TypeOK, Attribute
  <1>2. TypeOK'
    BY <1>1 DEF EnterBackward, TypeOK, Succs, Attribute
  <1>3. BackwardLoop'
    <2>1. /\ graph' = graph /\ lst' = lst /\ eft' = eft /\ node' = n
          /\ todo' = Succs(n) /\ lst[n] = NULL
          /\ best' = IF Succs(n) = {} THEN eft[n] ELSE NULL
          /\ \A s \in Succs(n) : lst[s] # NULL
      BY DEF EnterBackward
    <2>2. best' = NULL => todo' # {}
      BY <1>1, <2>1, GraphFacts
    <2>3. best' # NULL => eft[n] <= best' /\ todo' = {}
      BY <1>1, <2>1
    <2> QED
      BY <1>1, <2>1, <2>2, <2>3 DEF BackwardLoop, Succs
  <1>4. ForwardLoop' /\ Finishes' /\ EarliestFeasible' /\ LatestFeasible'
    BY DEF EnterBackward, PassInv, ForwardLoop, Finishes, EarliestFeasible,
           LatestFeasible
  <1>5. EndsLast'
    BY SeenStays DEF EnterBackward
  <1> QED
    BY <1>2, <1>3, <1>4, <1>5 DEF PassInv

LEMMA EarliestPass ==
    ASSUME TypeOK, PassInv, NEW s \in graph.node, Earliest(s)
    PROVE  TypeOK' /\ PassInv'
  <1>1. /\ node \in graph.node /\ node # NULL /\ s \in Succs(node)
        /\ lst[s] # NULL /\ lst[s] \in Nat
        /\ best # NULL => best \in Nat /\ eft[node] <= best
        /\ eft[node] \in Nat
    BY DEF Earliest, PassInv, BackwardLoop, Finishes, TypeOK, Attribute
  <1>2. eft[node] <= lst[s]
    <2>1. est[s] # NULL /\ est[s] <= lst[s] /\ est[s] \in Nat
      BY <1>1, FloatFromFinishes DEF PassInv, FloatNotNegative, TypeOK, Attribute
    <2>2. eft[node] <= est[s]
      BY <1>1, <2>1 DEF PassInv, EarliestFeasible, Succs
    <2> QED
      BY <1>1, <2>1, <2>2
  <1>3. /\ best' \in Nat /\ best' <= lst[s] /\ eft[node] <= best'
        /\ best # NULL => best' <= best
    BY <1>1, <1>2 DEF Earliest
  <1>4. /\ graph' = graph /\ node' = node /\ todo' = todo \ {s}
        /\ lst' = lst /\ lft' = lft /\ est' = est /\ eft' = eft
        /\ phase' = phase
    BY DEF Earliest
  <1>5. TypeOK'
    BY <1>3 DEF Earliest, TypeOK, Attribute
  <1>6. BackwardLoop'
    <2>1. best' # NULL
      BY <1>3, GraphFacts
    <2>2. \A q \in Succs(node) : q \in todo' \/ best' <= lst[q]
      <3> SUFFICES ASSUME NEW q \in Succs(node), q # s, q \notin todo
                   PROVE  best' <= lst[q]
        BY <1>3, <1>4
      <3>1. best # NULL /\ best <= lst[q] /\ lst[q] \in Nat
        BY <1>1 DEF Earliest, PassInv, BackwardLoop, TypeOK, Attribute, Succs
      <3> QED
        BY <1>1, <1>3, <3>1
    <2> QED
      BY <1>1, <1>3, <1>4, <2>1, <2>2
      DEF Earliest, PassInv, BackwardLoop, Succs
  <1>7. ForwardLoop' /\ Finishes' /\ EarliestFeasible' /\ LatestFeasible'
    BY DEF Earliest, PassInv, ForwardLoop, Finishes, EarliestFeasible,
           LatestFeasible
  <1>8. EndsLast'
    BY SeenStays DEF Earliest
  <1> QED
    BY <1>5, <1>6, <1>7, <1>8 DEF PassInv

LEMMA LeaveBackwardPass ==
    ASSUME TypeOK, PassInv, LeaveBackward
    PROVE  TypeOK' /\ PassInv'
  <1>1. /\ node \in graph.node /\ best \in Nat /\ best # NULL
        /\ lst[node] = NULL /\ eft[node] <= best
        /\ \A s \in Succs(node) : lst[s] # NULL /\ best <= lst[s]
    BY GraphFacts DEF LeaveBackward, PassInv, BackwardLoop, TypeOK
  <1>2. /\ graph' = graph /\ phase' = "backward" /\ phase = "backward"
        /\ node' = NULL /\ todo' = {} /\ est' = est /\ eft' = eft
        /\ lft' = [lft EXCEPT ![node] = best]
        /\ lst' = [lst EXCEPT ![node] = best - graph.dur[node]]
    BY DEF LeaveBackward
  <1>3. /\ est[node] \in Nat /\ graph.dur[node] \in Nat /\ eft[node] # NULL
        /\ eft[node] = est[node] + graph.dur[node]
    BY <1>1, <1>2, GraphFacts DEF PassInv, Finishes, TypeOK, Attribute
  <1>4. best - graph.dur[node] \in Nat /\ best - graph.dur[node] # NULL
    <2>1. best - graph.dur[node] \in Nat
      BY <1>1, <1>3
    <2> QED
      BY <2>1, GraphFacts
  <1>5. lst \in Attribute(Nat) /\ lft \in Attribute(Nat)
    BY DEF TypeOK
  <1>6. lft'[node] = best /\ lst'[node] = best - graph.dur[node]
    BY <1>1, <1>2, <1>5 DEF Attribute
  <1>7. \A n \in graph.node : n # node => lst'[n] = lst[n] /\ lft'[n] = lft[n]
    BY <1>2, <1>5 DEF Attribute
  <1>8. TypeOK'
    <2>1. lst' \in Attribute(Nat)' /\ lft' \in Attribute(Nat)'
      BY <1>1, <1>2, <1>4, <1>5 DEF Attribute
    <2> QED
      BY <2>1 DEF LeaveBackward, TypeOK, Attribute
  <1>9. ForwardLoop' /\ BackwardLoop' /\ EarliestFeasible'
    BY <1>2 DEF PassInv, ForwardLoop, BackwardLoop, EarliestFeasible
  <1>10. Finishes'
    <2>1. \A n \in graph.node :
             /\ lst'[n] = NULL <=> lft'[n] = NULL
             /\ lft'[n] # NULL => /\ eft[n] # NULL /\ eft[n] <= lft'[n]
                                  /\ lst'[n] = lft'[n] - graph.dur[n]
      <3> TAKE n \in graph.node
      <3>1. CASE n = node
        BY <1>1, <1>3, <1>4, <1>6, <3>1
      <3>2. CASE n # node
        BY <1>7, <3>2 DEF PassInv, Finishes
      <3> QED
        BY <3>1, <3>2
    <2> QED
      BY <1>2, <2>1 DEF PassInv, Finishes
  <1>11. LatestFeasible'
    <2> SUFFICES ASSUME NEW n \in graph.node, NEW s \in graph.node,
                        <<n, s>> \in graph.edge, lft'[n] # NULL
                 PROVE  lst'[s] # NULL /\ lft'[n] <= lst'[s]
      BY <1>2 DEF LatestFeasible
    <2>1. CASE n = node
      <3>1. lst[s] # NULL /\ best <= lst[s]
        BY <1>1, <2>1 DEF Succs
      <3> QED
        BY <1>1, <1>6, <1>7, <2>1, <3>1
    <2>2. CASE n # node
      <3>1. lst[s] # NULL /\ lft[n] <= lst[s]
        BY <1>7, <2>2 DEF PassInv, LatestFeasible
      <3> QED
        BY <1>1, <1>7, <2>2, <3>1
    <2> QED
      BY <2>1, <2>2
  <1>12. EndsLast'
    BY SeenStays DEF LeaveBackward
  <1> QED
    BY <1>8, <1>9, <1>10, <1>11, <1>12 DEF PassInv

LEMMA TurnToFloatsPass ==
    ASSUME TypeOK, PassInv, TurnToFloats \/ Return
    PROVE  TypeOK' /\ PassInv'
  <1>1. EndsLast'
    BY SeenStays DEF TurnToFloats, Return
  <1> QED
    BY <1>1 DEF TurnToFloats, Return, TypeOK, Attribute, PassInv, ForwardLoop,
                BackwardLoop, Finishes, EarliestFeasible, LatestFeasible

LEMMA FloatPass ==
    ASSUME TypeOK, PassInv, NEW n \in graph.node, Float(n)
    PROVE  TypeOK' /\ PassInv'
  <1>1. eft[n] \in Nat
    BY DEF Float, PassInv, Finishes, TypeOK, Attribute
  <1>2. completion' \in Nat
    BY <1>1 DEF Float, MaxOf, TypeOK
  <1>3. TypeOK'
    BY <1>2 DEF Float, TypeOK, Attribute
  <1>4. EndsLast'
    BY SeenStays DEF Float
  <1>5. PassInv'
    BY <1>4 DEF Float, PassInv, ForwardLoop, BackwardLoop, Finishes,
                EarliestFeasible, LatestFeasible
  <1> QED
    BY <1>3, <1>5

LEMMA NextPass == TypeOK /\ PassInv /\ [Next]_vars => (TypeOK /\ PassInv)'
  <1> SUFFICES ASSUME TypeOK, PassInv, [Next]_vars PROVE TypeOK' /\ PassInv'
    OBVIOUS
  <1>1. CASE UNCHANGED vars
    BY <1>1, SeenStays DEF vars, TypeOK, Attribute, PassInv, ForwardLoop, BackwardLoop,
                Finishes, EarliestFeasible, LatestFeasible, Preds, Succs
  <1>2. CASE Next
    BY <1>2, EnterForwardPass, LatestPass, LeaveForwardPass, TurnBackPass,
       EnterBackwardPass, EarliestPass, LeaveBackwardPass, TurnToFloatsPass,
       FloatPass DEF Next, Visit
  <1> QED
    BY <1>1, <1>2

-----------------------------------------------------------------------------
(***************************************************************************)
(* The theorems.                                                           *)
(***************************************************************************)

\* The inductive invariant of both passes.
THEOREM PassInvariant == Spec => [](TypeOK /\ PassInv)
  BY InitPass, NextPass, PTL DEF Spec

\* No task gets a latest start before its earliest one, in any graph.
THEOREM FloatsAreNotNegative == Spec => []FloatNotNegative
  <1>1. TypeOK /\ PassInv => FloatNotNegative
    BY FloatFromFinishes DEF PassInv
  <1> QED
    BY <1>1, PassInvariant, PTL

\* Both schedules the analysis computes keep the order of the tasks.
THEOREM SchedulesAreFeasible == Spec => []Feasible
  <1>1. PassInv => Feasible
    BY DEF PassInv, Feasible
  <1> QED
    BY <1>1, PassInvariant, PTL

\* The attributes of a task are never negative and never taken for unset:
\* every subtraction of the backward pass has room.
THEOREM TypeCorrect == Spec => []TypeOK
  BY PassInvariant, PTL
=============================================================================
