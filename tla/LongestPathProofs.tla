------------------------- MODULE LongestPathProofs --------------------------
(***************************************************************************)
(* The result of critical_path_method is what it should be, for every set  *)
(* of task graphs: its completion time is the time of a longest path, all  *)
(* tasks of the longest paths are reported, and no others where there is   *)
(* one last task.                                                          *)
(***************************************************************************)
EXTENDS CriticalPathProofs, FiniteSetTheorems

(***************************************************************************)
(* Induction over sets of numbers.                                         *)
(***************************************************************************)

LEMMA LeastElement ==
    ASSUME NEW T \in SUBSET Nat, T # {}
    PROVE  \E m \in T : \A n \in T : m <= n
  <1> DEFINE R == {p \in Nat \X Nat : p[1] < p[2]}
  <1>1. IsWellFoundedOn(R, Nat)
    BY NatLessThanWellFounded DEF OpToRel
  <1> HIDE DEF R
  <1>2. PICK m \in T : \A n \in T : ~(<<n, m>> \in R)
    BY <1>1, WFMin
  <1>3. \A n \in T : ~(n < m)
    BY <1>2 DEF R
  <1> QED
    BY <1>3

\* A sequence of numbers that never falls ends no lower than it was.
LEMMA NeverFalls ==
    ASSUME NEW k \in Nat, NEW f \in [1 .. k -> Int],
           \A i \in 1 .. k - 1 : f[i] <= f[i + 1],
           NEW a \in 1 .. k, NEW b \in a .. k
    PROVE  f[a] <= f[b]
  <1> SUFFICES ASSUME ~(f[a] <= f[b]) PROVE FALSE
    OBVIOUS
  <1> DEFINE T == {i \in Nat : i \in a .. k /\ ~(f[a] <= f[i])}
  <1>1. T \in SUBSET Nat /\ b \in T
    OBVIOUS
  <1>2. PICK m \in T : \A n \in T : m <= n
    BY <1>1, LeastElement
  <1>3. m \in a .. k /\ ~(f[a] <= f[m]) /\ m # a
    OBVIOUS
  <1>4. m - 1 \in a .. k /\ m - 1 \in 1 .. k - 1 /\ (m - 1) + 1 = m /\ m \in 1 .. k
    BY <1>3
  <1>5. m - 1 \notin T
    BY <1>2, <1>3
  <1>6. f[a] <= f[m - 1]
    BY <1>4, <1>5
  <1>7. f[m - 1] <= f[m]
    BY <1>4
  <1> QED
    BY <1>3, <1>4, <1>6, <1>7


(***************************************************************************)
(* The time of a path: the running totals that Time adds up exist, and     *)
(* there is one way to add them up.                                        *)
(***************************************************************************)

\* t is the sum of the first durations, for each prefix of a path.
Totals(t, d, k) ==
    /\ t \in [1 .. k -> Nat]
    /\ \A i \in 1 .. k : t[i] = d[i] + (IF i = 1 THEN 0 ELSE t[i - 1])

LEMMA TotalsExist ==
    ASSUME NEW k \in Nat, NEW d \in [1 .. k -> Nat]
    PROVE  \E t : Totals(t, d, k)
  <1> SUFFICES ASSUME ~ \E t : Totals(t, d, k) PROVE FALSE
    OBVIOUS
  <1> DEFINE T == {j \in Nat : j <= k /\ ~ \E t : Totals(t, d, j)}
  <1>1. T \in SUBSET Nat /\ k \in T
    OBVIOUS
  <1>2. PICK m \in T : \A n \in T : m <= n
    BY <1>1, LeastElement
  <1>3. m \in Nat /\ m <= k /\ ~ \E t : Totals(t, d, m)
    OBVIOUS
  <1>4. CASE m = 0
    <2>1. Totals([i \in 1 .. 0 |-> 0], d, 0)
      BY DEF Totals
    <2> QED
      BY <1>3, <1>4, <2>1
  <1>5. CASE m # 0
    <2>1. m - 1 \in Nat /\ m - 1 <= k /\ m - 1 \notin T
      BY <1>2, <1>3, <1>5
    <2>2. PICK t : Totals(t, d, m - 1)
      BY <2>1
    <2> DEFINE last == d[m] + (IF m = 1 THEN 0 ELSE t[m - 1])
               u == [i \in 1 .. m |-> IF i = m THEN last ELSE t[i]]
    <2>3. t \in [1 .. m - 1 -> Nat]
          /\ \A i \in 1 .. m - 1 : t[i] = d[i] + (IF i = 1 THEN 0 ELSE t[i - 1])
      BY <2>2 DEF Totals
    <2>4. d[m] \in Nat /\ (m # 1 => t[m - 1] \in Nat)
      BY <1>3, <1>5, <2>3
    <2>5. last \in Nat
      BY <2>4
    <2> HIDE DEF last
    <2>6. u \in [1 .. m -> Nat]
      BY <1>3, <2>3, <2>5
    <2>7. ASSUME NEW i \in 1 .. m PROVE u[i] = d[i] + (IF i = 1 THEN 0 ELSE u[i - 1])
      <3>1. i # 1 => u[i - 1] = t[i - 1]
        BY <1>3
      <3>2. CASE i = m
        BY <3>1, <3>2 DEF last
      <3>3. CASE i # m
        <4>1. i \in 1 .. m - 1 /\ u[i] = t[i]
          BY <1>3, <3>3
        <4> QED
          BY <2>3, <3>1, <4>1
      <3> QED
        BY <3>2, <3>3
    <2>8. Totals(u, d, m)
      BY <2>6, <2>7 DEF Totals
    <2> QED
      BY <1>3, <2>8
  <1> QED
    BY <1>4, <1>5

\* The durations of the tasks of a path.
Durs(s) == [i \in DOMAIN s |-> graph.dur[s[i]]]

LEMMA TimeIsTotal ==
    ASSUME TypeOK, NEW k \in Nat \ {0}, NEW s \in [1 .. k -> graph.node]
    PROVE  \E t : Totals(t, Durs(s), k) /\ Time(s) = t[k]
  <1>1. Durs(s) \in [1 .. k -> Nat]
    BY GraphFacts DEF Durs
  <1>2. PICK u : Totals(u, Durs(s), k)
    BY <1>1, TotalsExist
  <1> DEFINE Sum(f) == [i \in DOMAIN s |-> graph.dur[s[i]] + (IF i = 1 THEN 0 ELSE f[i - 1])]
             total  == CHOOSE f : f = Sum(f)
  <1>3. DOMAIN s = 1 .. k /\ Len(s) = k
    OBVIOUS
  <1>4. u = Sum(u)
    <2>1. u = [i \in 1 .. k |-> u[i]]
      BY <1>2 DEF Totals
    <2>2. \A i \in 1 .. k : u[i] = Durs(s)[i] + (IF i = 1 THEN 0 ELSE u[i - 1])
      BY <1>2 DEF Totals
    <2>3. \A i \in 1 .. k : Durs(s)[i] = graph.dur[s[i]]
      BY <1>3 DEF Durs
    <2>4. \A i \in 1 .. k : u[i] = graph.dur[s[i]] + (IF i = 1 THEN 0 ELSE u[i - 1])
      BY <2>2, <2>3
    <2>5. Sum(u) = [i \in 1 .. k |-> graph.dur[s[i]] + (IF i = 1 THEN 0 ELSE u[i - 1])]
      BY <1>3
    <2> HIDE DEF Sum
    <2>6. [i \in 1 .. k |-> u[i]]
            = [i \in 1 .. k |-> graph.dur[s[i]] + (IF i = 1 THEN 0 ELSE u[i - 1])]
      BY <2>4, Zenon
    <2> QED
      BY <2>1, <2>5, <2>6
  <1>5. total = Sum(total)
    BY <1>4
  <1>6. Time(s) = total[k]
    BY <1>3 DEF Time
  <1> HIDE DEF total
  <1>7. total = [i \in 1 .. k |-> total[i]]
    BY <1>3, <1>5
  <1>8. \A i \in 1 .. k : total[i] = Durs(s)[i] + (IF i = 1 THEN 0 ELSE total[i - 1])
    BY <1>3, <1>5 DEF Durs
  <1>9. \A i \in 1 .. k : total[i] \in Nat
    <2> SUFFICES ASSUME NEW b \in 1 .. k, total[b] \notin Nat PROVE FALSE
      OBVIOUS
    <2> DEFINE T == {j \in Nat : j \in 1 .. k /\ total[j] \notin Nat}
    <2>1. T \in SUBSET Nat /\ b \in T
      OBVIOUS
    <2>2. PICK m \in T : \A n \in T : m <= n
      BY <2>1, LeastElement
    <2>3. m \in 1 .. k /\ total[m] \notin Nat /\ m - 1 \notin T
      BY <2>2
    <2>4. m = 1 \/ (m - 1 \in 1 .. k /\ total[m - 1] \in Nat)
      BY <2>3
    <2>5. Durs(s)[m] \in Nat
      BY <1>1, <2>3
    <2>6. total[m] = Durs(s)[m] + (IF m = 1 THEN 0 ELSE total[m - 1])
      BY <1>8, <2>3
    <2> QED
      BY <2>3, <2>4, <2>5, <2>6
  <1>10. Totals(total, Durs(s), k)
    BY <1>7, <1>8, <1>9 DEF Totals
  <1> QED
    BY <1>6, <1>10

LEMMA TotalsAgree ==
    ASSUME NEW k \in Nat \ {0}, NEW d \in [1 .. k -> Nat], NEW t, NEW u,
           Totals(t, d, k), Totals(u, d, k)
    PROVE  t[k] = u[k]
  <1>1. /\ t \in [1 .. k -> Nat] /\ u \in [1 .. k -> Nat]
        /\ \A i \in 1 .. k : t[i] = d[i] + (IF i = 1 THEN 0 ELSE t[i - 1])
        /\ \A i \in 1 .. k : u[i] = d[i] + (IF i = 1 THEN 0 ELSE u[i - 1])
    BY DEF Totals
  <1> SUFFICES ASSUME t[k] # u[k] PROVE FALSE
    OBVIOUS
  <1> DEFINE T == {j \in Nat : j \in 1 .. k /\ t[j] # u[j]}
  <1>2. T \in SUBSET Nat /\ k \in T
    OBVIOUS
  <1>3. PICK m \in T : \A n \in T : m <= n
    BY <1>2, LeastElement
  <1>4. m \in 1 .. k /\ t[m] # u[m] /\ m - 1 \notin T
    BY <1>3
  <1>5. m = 1 \/ (m - 1 \in 1 .. k /\ t[m - 1] = u[m - 1])
    BY <1>4
  <1> QED
    BY <1>1, <1>4, <1>5


(***************************************************************************)
(* The inductive invariant.                                                *)
(***************************************************************************)

Finished == {n \in graph.node : eft[n] # NULL}

\* s is a path of k tasks, t their running totals.
PathOf(s, k, t) ==
    /\ s \in [1 .. k -> graph.node]
    /\ \A i \in 1 .. k - 1 : <<s[i], s[i + 1]>> \in graph.edge
    /\ Totals(t, Durs(s), k)

\* A path through n takes until the earliest finish of m, where it ends.
Through(n, m) ==
    \E k \in Nat \ {0} : \E s, t :
        /\ PathOf(s, k, t) /\ s[k] = m /\ t[k] = eft[m]
        /\ \E i \in 1 .. k : s[i] = n

\* Each earliest finish is the time of a path that ends in the task; in the
\* loop, the local est is nothing or the finish of a predecessor.
Attained == \A n \in Finished : Through(n, n)
BestAttained ==
    phase = "forward" /\ node # NULL =>
        best = 0 \/ \E p \in Finished : <<p, node>> \in graph.edge /\ best = eft[p]

\* The order in which the tasks are gone through shows that there is no
\* cycle, and no path of more tasks than there are.
Ranks(rank, S) ==
    /\ rank \in [S -> Nat]
    /\ \A n \in S : rank[n] < Cardinality(S)
    /\ \A p \in graph.node, n \in S :
          <<p, n>> \in graph.edge => p \in S /\ rank[p] < rank[n]
Ranked == \E rank : Ranks(rank, Finished)

\* Each latest finish is the latest start of a successor, or the earliest
\* finish of a last task, and none is behind all earliest finishes.
LatestFrom(n, latest) ==
    IF Succs(n) = {} THEN latest = eft[n]
    ELSE \E s \in Succs(n) : lst[s] # NULL /\ latest = lst[s]
LatestAttained ==
    /\ \A n \in graph.node : lft[n] # NULL => LatestFrom(n, lft[n])
    /\ phase = "backward" /\ node # NULL /\ best # NULL => LatestFrom(node, best)
NotBehind(latest) == \E m \in graph.node : latest <= eft[m]
LatestBounded ==
    /\ \A n \in graph.node : lft[n] # NULL => NotBehind(lft[n])
    /\ phase = "backward" /\ node # NULL /\ best # NULL => NotBehind(best)

\* The last loop has seen the nodes that are not in todo.
FloatLoop ==
    /\ phase \in {"forward", "backward"} => completion = 0 /\ critical_path = {}
    /\ phase \in {"float", "done"} =>
          /\ \A n \in graph.node : lst[n] # NULL
          /\ \A n \in graph.node \ todo :
                eft[n] <= completion /\ (lst[n] = est[n] => n \in critical_path)
          /\ completion = 0 \/ \E m \in graph.node : completion = eft[m]
    /\ \A n \in critical_path : lst[n] = est[n]
    /\ phase = "done" => todo = {}

ForwardResult  == Attained /\ BestAttained /\ Ranked
BackwardResult == LatestAttained /\ LatestBounded
ResultInv      == ForwardResult /\ BackwardResult /\ FloatLoop

LEMMA FiniteGraph ==
    ASSUME TypeOK
    PROVE  /\ IsFiniteSet(graph.node) /\ Cardinality(graph.node) \in Nat
           /\ IsFiniteSet(Finished) /\ Cardinality(Finished) \in Nat
  <1>1. IsFiniteSet(graph.node)
    BY ProjectsAssumption DEF TypeOK
  <1>2. IsFiniteSet(Finished)
    BY <1>1, FS_Subset DEF Finished
  <1> QED
    BY <1>1, <1>2, FS_CardinalityType

LEMMA InitResult == Init => ResultInv
  <1> SUFFICES ASSUME Init PROVE ResultInv
    OBVIOUS
  <1>1. Finished = {}
    BY DEF Init, Finished
  <1>2. Ranks([n \in {} |-> 0], {})
    BY DEF Ranks
  <1>3. ForwardResult
    BY <1>1, <1>2 DEF Init, ForwardResult, Attained, BestAttained, Ranked
  <1> QED
    BY <1>3 DEF Init, ResultInv, BackwardResult, LatestAttained, LatestBounded, FloatLoop

\* A path may be followed by a successor of its last task.
LEMMA PathGrows ==
    ASSUME TypeOK, NEW k \in Nat \ {0}, NEW s, NEW t, PathOf(s, k, t),
           NEW n \in graph.node, <<s[k], n>> \in graph.edge
    PROVE  \E u, v :
              /\ PathOf(u, k + 1, v)
              /\ u[k + 1] = n /\ v[k + 1] = t[k] + graph.dur[n]
              /\ \A i \in 1 .. k : u[i] = s[i]
  <1> DEFINE l == k + 1
             longer(f, x) == [i \in 1 .. l |-> IF i = l THEN x ELSE f[i]]
             total == t[k] + graph.dur[n]
  <1>1. /\ s \in [1 .. k -> graph.node] /\ t \in [1 .. k -> Nat]
        /\ \A i \in 1 .. k - 1 : <<s[i], s[i + 1]>> \in graph.edge
        /\ \A i \in 1 .. k : t[i] = Durs(s)[i] + (IF i = 1 THEN 0 ELSE t[i - 1])
    BY DEF PathOf, Totals
  <1>2. /\ l \in Nat \ {0} /\ l # 1 /\ l - 1 = k /\ k \in 1 .. k
        /\ \A i \in 1 .. l : i = l \/ i \in 1 .. k
        /\ \A i \in 1 .. k : i \in 1 .. l /\ i # l
    OBVIOUS
  <1>3. graph.dur[n] \in Nat /\ t[k] \in Nat
    BY <1>1, <1>2, GraphFacts
  <1>4. total \in Nat
    BY <1>3
  <1> HIDE DEF total
  <1>5. PICK u \in [1 .. l -> graph.node] : u = longer(s, n)
    BY <1>1, <1>2
  <1>6. PICK v \in [1 .. l -> Nat] : v = longer(t, total)
    BY <1>1, <1>2, <1>4
  <1>7. /\ \A i \in 1 .. k : u[i] = s[i] /\ v[i] = t[i]
        /\ u[l] = n /\ v[l] = total
    BY <1>2, <1>5, <1>6
  <1>8. ASSUME NEW i \in 1 .. l - 1 PROVE <<u[i], u[i + 1]>> \in graph.edge
    <2>1. CASE i = k
      BY <1>2, <1>7, <2>1
    <2>2. CASE i # k
      <3>1. i \in 1 .. k /\ i \in 1 .. k - 1 /\ i + 1 \in 1 .. k
        BY <1>2, <2>2
      <3> QED
        BY <1>1, <1>7, <3>1
    <2> QED
      BY <2>1, <2>2
  <1>9. \A i \in 1 .. l : v[i] = Durs(u)[i] + (IF i = 1 THEN 0 ELSE v[i - 1])
    <2>1. \A i \in 1 .. l : Durs(u)[i] = graph.dur[u[i]]
      BY <1>5 DEF Durs
    <2>2. \A i \in 1 .. k : Durs(s)[i] = graph.dur[s[i]]
      BY <1>1 DEF Durs
    <2>3. v[l] = Durs(u)[l] + v[l - 1]
      <3>1. Durs(u)[l] = graph.dur[n] /\ v[l - 1] = t[k]
        BY <1>2, <1>7, <2>1
      <3> QED
        BY <1>3, <1>7, <3>1 DEF total
    <2>4. ASSUME NEW i \in 1 .. k
          PROVE  v[i] = Durs(u)[i] + (IF i = 1 THEN 0 ELSE v[i - 1])
      <3>1. i = 1 \/ i - 1 \in 1 .. k
        OBVIOUS
      <3>2. i = 1 \/ v[i - 1] = t[i - 1]
        BY <1>7, <3>1
      <3>3. Durs(u)[i] = Durs(s)[i]
        <4>1. i \in 1 .. l /\ u[i] = s[i]
          BY <1>2, <1>7
        <4> QED
          BY <2>1, <2>2, <4>1
      <3>4. v[i] = t[i] /\ t[i] = Durs(s)[i] + (IF i = 1 THEN 0 ELSE t[i - 1])
        BY <1>1, <1>7
      <3> QED
        BY <3>2, <3>3, <3>4
    <2> QED
      BY <1>2, <2>3, <2>4
  <1>10. PathOf(u, l, v)
    BY <1>5, <1>6, <1>8, <1>9 DEF PathOf, Totals
  <1> QED
    BY <1>7, <1>10 DEF total

\* A task is a path of its own.
LEMMA PathAlone ==
    ASSUME TypeOK, NEW n \in graph.node
    PROVE  \E s, t : PathOf(s, 1, t) /\ s[1] = n /\ t[1] = graph.dur[n]
  <1> DEFINE s == [i \in 1 .. 1 |-> n]
             t == [i \in 1 .. 1 |-> graph.dur[n]]
  <1>1. graph.dur[n] \in Nat
    BY GraphFacts
  <1>2. Durs(s) = [i \in 1 .. 1 |-> graph.dur[n]]
    BY DEF Durs
  <1>3. Totals(t, Durs(s), 1)
    BY <1>1, <1>2 DEF Totals
  <1>4. PathOf(s, 1, t)
    BY <1>3 DEF PathOf
  <1> QED
    BY <1>4

\* A path stays one as long as the graph does.
LEMMA PathStays ==
    ASSUME graph' = graph, NEW k, NEW s, NEW t, PathOf(s, k, t)
    PROVE  PathOf(s, k, t)'
  BY DEF PathOf, Totals, Durs

LEMMA ThroughStays ==
    ASSUME graph' = graph, NEW n, NEW m, Through(n, m), eft'[m] = eft[m]
    PROVE  Through(n, m)'
  <1>1. PICK k \in Nat \ {0} : \E s, t :
           /\ PathOf(s, k, t) /\ s[k] = m /\ t[k] = eft[m]
           /\ \E i \in 1 .. k : s[i] = n
    BY DEF Through
  <1>2. PICK s, t :
           /\ PathOf(s, k, t) /\ s[k] = m /\ t[k] = eft[m]
           /\ \E i \in 1 .. k : s[i] = n
    BY <1>1
  <1>3. PathOf(s, k, t)'
    BY <1>2, PathStays
  <1> QED
    BY <1>2, <1>3 DEF Through


(***************************************************************************)
(* The steps of the two passes and of the last loop.                       *)
(***************************************************************************)

LEMMA ForwardKept ==
    ASSUME ForwardResult, graph' = graph, eft' = eft,
           \/ node' = node /\ best' = best /\ phase' = phase
           \/ node' = NULL \/ best' = 0 \/ phase' # "forward"
    PROVE  ForwardResult'
  <1>1. Finished' = Finished
    BY DEF Finished
  <1>2. Attained'
    BY <1>1, ThroughStays DEF ForwardResult, Attained, Finished
  <1>3. Ranked'
    BY <1>1 DEF ForwardResult, Ranked, Ranks
  <1>4. BestAttained'
    BY <1>1 DEF ForwardResult, BestAttained
  <1> QED
    BY <1>2, <1>3, <1>4 DEF ForwardResult

LEMMA BackwardKept ==
    ASSUME BackwardResult, graph' = graph, eft' = eft, lst' = lst, lft' = lft,
           \/ node' = node /\ best' = best /\ phase' = phase
           \/ node' = NULL \/ best' = NULL \/ phase' # "backward"
    PROVE  BackwardResult'
  <1>1. LatestAttained'
    BY DEF BackwardResult, LatestAttained, LatestFrom, Succs
  <1>2. LatestBounded'
    BY DEF BackwardResult, LatestBounded, NotBehind
  <1> QED
    BY <1>1, <1>2 DEF BackwardResult

LEMMA EnterForwardResult ==
    ASSUME ResultInv, NEW n \in graph.node, EnterForward(n)
    PROVE  ResultInv'
  <1>1. ForwardResult' /\ BackwardResult'
    BY ForwardKept, BackwardKept DEF ResultInv, EnterForward
  <1> QED
    BY <1>1 DEF ResultInv, EnterForward, FloatLoop

LEMMA LatestResult ==
    ASSUME TypeOK, PassInv, ResultInv, NEW p \in graph.node, Latest(p)
    PROVE  ResultInv'
  <1>1. BackwardResult' /\ FloatLoop'
    BY BackwardKept DEF ResultInv, Latest, FloatLoop
  <1>2. BestAttained'
    <2>1. /\ node # NULL /\ p \in Preds(node) /\ eft[p] # NULL
          /\ phase = "forward"
      BY DEF Latest, PassInv, ForwardLoop
    <2>2. p \in Finished /\ <<p, node>> \in graph.edge
      BY <2>1 DEF Finished, Preds
    <2>3. /\ best' = best \/ best' = eft[p]
          /\ node' = node /\ graph' = graph /\ eft' = eft /\ Finished' = Finished
      BY DEF Latest, MaxOf, Finished
    <2> QED
      BY <2>1, <2>2, <2>3 DEF ResultInv, ForwardResult, BestAttained
  <1>3. Finished' = Finished
    BY DEF Latest, Finished
  <1>4. Attained' /\ Ranked'
    BY <1>3, ThroughStays DEF Latest, ResultInv, ForwardResult, Attained, Finished, Ranked, Ranks
  <1> QED
    BY <1>1, <1>2, <1>4 DEF ResultInv, ForwardResult

\* The next task of the order comes behind all others.
LEMMA NextRank ==
    ASSUME TypeOK, PassInv, Ranked, graph' = graph,
           NEW n \in graph.node, n \notin Finished, Finished' = Finished \cup {n},
           \A p \in graph.node : <<p, n>> \in graph.edge => p \in Finished
    PROVE  Ranked'
  <1>1. PICK rank : Ranks(rank, Finished)
    BY DEF Ranked
  <1> DEFINE N == Cardinality(Finished)
             S == Finished \cup {n}
             r == [m \in S |-> IF m = n THEN N ELSE rank[m]]
  <1>2. N \in Nat /\ Cardinality(S) = N + 1
    BY FiniteGraph, FS_AddElement
  <1>3. /\ rank \in [Finished -> Nat]
        /\ \A m \in Finished : rank[m] < N
        /\ \A p \in graph.node, m \in Finished :
              <<p, m>> \in graph.edge => p \in Finished /\ rank[p] < rank[m]
    BY <1>1 DEF Ranks
  <1> HIDE DEF N
  <1>4. r \in [S -> Nat]
    BY <1>2, <1>3
  <1>5. r[n] = N /\ \A m \in Finished : r[m] = rank[m]
    OBVIOUS
  <1>6. \A m \in S : r[m] < N + 1
    <2>1. \A m \in Finished : rank[m] \in Nat
      BY <1>3
    <2>2. N < N + 1 /\ \A m \in Finished : rank[m] < N + 1
      BY <1>2, <1>3, <2>1
    <2> QED
      BY <1>5, <2>2
  <1>7. ASSUME NEW p \in graph.node, NEW m \in S, <<p, m>> \in graph.edge
        PROVE  p \in S /\ r[p] < r[m]
    <2>1. CASE m = n
      BY <1>3, <1>5, <1>7, <2>1
    <2>2. CASE m # n
      BY <1>3, <1>5, <1>7, <2>2
    <2> QED
      BY <2>1, <2>2
  <1> HIDE DEF r
  <1>8. /\ r \in [Finished' -> Nat]
        /\ \A m \in Finished' : r[m] < Cardinality(Finished')
        /\ \A p \in graph'.node, m \in Finished' :
              <<p, m>> \in graph'.edge => p \in Finished' /\ r[p] < r[m]
    BY <1>2, <1>4, <1>6, <1>7
  <1>9. \E f :
           /\ f \in [Finished' -> Nat]
           /\ \A m \in Finished' : f[m] < Cardinality(Finished')
           /\ \A p \in graph'.node, m \in Finished' :
                 <<p, m>> \in graph'.edge => p \in Finished' /\ f[p] < f[m]
    BY <1>8
  <1> QED
    BY <1>9 DEF Ranked, Ranks

LEMMA LeaveForwardResult ==
    ASSUME TypeOK, PassInv, ResultInv, LeaveForward
    PROVE  ResultInv'
  <1>1. PICK left \in graph.node : left = node
    BY DEF LeaveForward, TypeOK
  <1>2. /\ best \in Nat /\ eft[left] = NULL /\ graph.dur[left] \in Nat
        /\ phase = "forward" /\ node # NULL
        /\ \A p \in Preds(left) : eft[p] # NULL
        /\ \A n \in graph.node : lft[n] = NULL
    BY <1>1, GraphFacts DEF LeaveForward, PassInv, ForwardLoop, TypeOK
  <1>3. /\ graph' = graph /\ phase' = phase /\ node' = NULL
        /\ eft' = [eft EXCEPT ![left] = best + graph.dur[left]]
        /\ lst' = lst /\ lft' = lft /\ todo' = todo
        /\ completion' = completion /\ critical_path' = critical_path
    BY <1>1 DEF LeaveForward
  <1>4. /\ eft'[left] = best + graph.dur[left] /\ eft'[left] # NULL
        /\ \A n \in graph.node \ {left} : eft'[n] = eft[n]
    BY <1>2, <1>3, NullAssumption DEF TypeOK, Attribute
  <1>5. Finished' = Finished \cup {left} /\ left \notin Finished
    BY <1>2, <1>3, <1>4 DEF Finished
  <1>6. Ranked'
    <2>1. \A p \in graph.node : <<p, left>> \in graph.edge => p \in Finished
      BY <1>2 DEF Preds, Finished
    <2> QED
      BY <1>3, <1>5, <2>1, NextRank DEF ResultInv, ForwardResult
  <1>7. Through(left, left)'
    <2>1. \E k \in Nat \ {0} : \E s, t :
             PathOf(s, k, t) /\ s[k] = left /\ t[k] = best + graph.dur[left]
      <3>1. CASE best = 0
        <4>1. graph.dur[left] = best + graph.dur[left]
          BY <1>2, <3>1
        <4> QED
          BY <4>1, PathAlone
      <3>2. CASE \E p \in Finished : <<p, node>> \in graph.edge /\ best = eft[p]
        <4>1. PICK p \in Finished : <<p, left>> \in graph.edge /\ best = eft[p]
          BY <1>1, <3>2
        <4>2. PICK k \in Nat \ {0} : \E s, t : PathOf(s, k, t) /\ s[k] = p /\ t[k] = eft[p]
          BY <4>1 DEF ResultInv, ForwardResult, Attained, Through
        <4>3. PICK s, t : PathOf(s, k, t) /\ s[k] = p /\ t[k] = eft[p]
          BY <4>2
        <4>4. PICK u, v :
                 /\ PathOf(u, k + 1, v)
                 /\ u[k + 1] = left /\ v[k + 1] = t[k] + graph.dur[left]
                 /\ \A i \in 1 .. k : u[i] = s[i]
          <5>1. PathOf(s, k, t) /\ <<s[k], left>> \in graph.edge
            BY <4>1, <4>3
          <5> QED
            BY <5>1, PathGrows
        <4>5. k + 1 \in Nat \ {0} /\ t[k] = best
          BY <4>1, <4>3
        <4> QED
          BY <4>4, <4>5
      <3> QED
        BY <1>1, <1>2, <3>1, <3>2 DEF ResultInv, ForwardResult, BestAttained
    <2>2. PICK k \in Nat \ {0} : \E s, t :
             PathOf(s, k, t) /\ s[k] = left /\ t[k] = best + graph.dur[left]
      BY <2>1
    <2>3. PICK s, t : PathOf(s, k, t) /\ s[k] = left /\ t[k] = best + graph.dur[left]
      BY <2>2
    <2>4. PathOf(s, k, t)' /\ t[k] = eft'[left] /\ k \in 1 .. k
      BY <1>3, <1>4, <2>3, PathStays
    <2> QED
      BY <2>3, <2>4 DEF Through
  <1>8. Attained'
    <2>1. ASSUME NEW n \in Finished PROVE Through(n, n)'
      <3>1. eft'[n] = eft[n]
        BY <1>4, <1>5 DEF Finished
      <3> QED
        BY <1>3, <3>1, ThroughStays DEF ResultInv, ForwardResult, Attained
    <2> QED
      BY <1>5, <1>7, <2>1 DEF Attained
  <1>9. BestAttained' /\ BackwardResult' /\ FloatLoop'
    BY <1>2, <1>3 DEF BestAttained, BackwardResult, LatestAttained, LatestBounded,
                      ResultInv, FloatLoop
  <1> QED
    BY <1>6, <1>8, <1>9 DEF ResultInv, ForwardResult


LEMMA TurnBackResult ==
    ASSUME PassInv, ResultInv, TurnBack
    PROVE  ResultInv'
  <1>1. ForwardResult'
    BY ForwardKept DEF ResultInv, TurnBack
  <1>2. BackwardResult'
    BY BackwardKept DEF ResultInv, TurnBack
  <1> QED
    BY <1>1, <1>2 DEF ResultInv, TurnBack, FloatLoop

LEMMA EnterBackwardResult ==
    ASSUME TypeOK, PassInv, ResultInv, NEW n \in graph.node, EnterBackward(n)
    PROVE  ResultInv'
  <1>1. ForwardResult' /\ FloatLoop'
    BY ForwardKept DEF ResultInv, EnterBackward, FloatLoop
  <1>2. /\ graph' = graph /\ eft' = eft /\ lst' = lst /\ lft' = lft /\ node' = n
        /\ best' = IF Succs(n) = {} THEN eft[n] ELSE NULL
    BY DEF EnterBackward
  <1>3. LatestAttained'
    BY <1>2 DEF ResultInv, BackwardResult, LatestAttained, LatestFrom, Succs
  <1>4. eft[n] \in Nat
    BY DEF EnterBackward, PassInv, Finishes, TypeOK, Attribute
  <1>5. NotBehind(eft[n])
    BY <1>4 DEF NotBehind
  <1>6. LatestBounded'
    BY <1>2, <1>5 DEF ResultInv, BackwardResult, LatestBounded, NotBehind
  <1> QED
    BY <1>1, <1>3, <1>6 DEF ResultInv, BackwardResult

LEMMA EarliestResult ==
    ASSUME TypeOK, PassInv, ResultInv, NEW s \in graph.node, Earliest(s)
    PROVE  ResultInv'
  <1>1. ForwardResult' /\ FloatLoop'
    BY ForwardKept DEF ResultInv, Earliest, FloatLoop
  <1>2. /\ phase = "backward" /\ node # NULL /\ s \in Succs(node) /\ lst[s] # NULL
        /\ graph' = graph /\ eft' = eft /\ lst' = lst /\ lft' = lft /\ node' = node
        /\ best' = lst[s] \/ (best # NULL /\ best' = best)
    BY DEF Earliest, PassInv, BackwardLoop, TypeOK
  <1>3. LatestAttained'
    <2>1. LatestFrom(node, best')
      BY <1>2 DEF ResultInv, BackwardResult, LatestAttained, LatestFrom
    <2>2. LatestFrom(node, best)'
      BY <1>2, <2>1 DEF LatestFrom, Succs
    <2>3. \A n \in graph.node : lft[n] # NULL => LatestFrom(n, lft[n])'
      BY <1>2 DEF ResultInv, BackwardResult, LatestAttained, LatestFrom, Succs
    <2> QED
      BY <1>2, <2>2, <2>3 DEF LatestAttained
  <1>4. NotBehind(lst[s])
    <2>1. /\ lft[s] # NULL /\ lst[s] = lft[s] - graph.dur[s]
          /\ lst[s] \in Nat /\ lft[s] \in Nat /\ graph.dur[s] \in Nat
      BY <1>2, GraphFacts DEF PassInv, Finishes, TypeOK, Attribute
    <2>2. PICK m \in graph.node : lft[s] <= eft[m]
      BY <2>1 DEF ResultInv, BackwardResult, LatestBounded, NotBehind
    <2>3. eft[m] \in Nat
      BY <1>2 DEF PassInv, Finishes, TypeOK, Attribute
    <2>4. lst[s] <= eft[m]
      BY <2>1, <2>2, <2>3
    <2> QED
      BY <2>4 DEF NotBehind
  <1>5. LatestBounded'
    BY <1>2, <1>4 DEF ResultInv, BackwardResult, LatestBounded, NotBehind
  <1> QED
    BY <1>1, <1>3, <1>5 DEF ResultInv, BackwardResult

LEMMA LeaveBackwardResult ==
    ASSUME TypeOK, PassInv, ResultInv, LeaveBackward
    PROVE  ResultInv'
  <1>1. ForwardResult' /\ FloatLoop'
    BY ForwardKept DEF ResultInv, LeaveBackward, FloatLoop
  <1>2. PICK left \in graph.node : left = node
    BY DEF LeaveBackward, TypeOK
  <1>3. /\ phase = "backward" /\ best # NULL /\ best \in Nat
        /\ lst[left] = NULL /\ graph.dur[left] \in Nat
        /\ lft' = [lft EXCEPT ![left] = best]
        /\ lst' = [lst EXCEPT ![left] = best - graph.dur[left]]
        /\ node' = NULL /\ eft' = eft /\ graph' = graph
    BY <1>2, GraphFacts DEF LeaveBackward, PassInv, BackwardLoop, TypeOK
  <1>4. /\ \A n \in graph.node : lft'[n] = IF n = left THEN best ELSE lft[n]
        /\ \A n \in graph.node : lst[n] # NULL => lst'[n] = lst[n]
    BY <1>3 DEF TypeOK, Attribute
  <1>5. NotBehind(best) /\ LatestFrom(left, best)
    BY <1>2, <1>3, GraphFacts DEF ResultInv, BackwardResult, LatestBounded, LatestAttained
  <1>6. ASSUME NEW n \in graph.node, NEW latest, LatestFrom(n, latest)
        PROVE  LatestFrom(n, latest)'
    <2>1. \A s \in Succs(n) : lst[s] # NULL => lst'[s] = lst[s]
      BY <1>4 DEF Succs
    <2> QED
      BY <1>3, <1>6, <2>1 DEF LatestFrom, Succs
  <1>7. LatestAttained'
    <2> SUFFICES ASSUME NEW n \in graph.node, lft'[n] # NULL
                 PROVE  LatestFrom(n, lft[n])'
      BY <1>3 DEF LatestAttained
    <2>1. LatestFrom(n, lft'[n])
      BY <1>4, <1>5 DEF ResultInv, BackwardResult, LatestAttained
    <2>2. PICK latest : latest = lft'[n]
      OBVIOUS
    <2>3. LatestFrom(n, latest)'
      BY <1>6, <2>1, <2>2
    <2> QED
      BY <2>2, <2>3 DEF LatestFrom
  <1>8. LatestBounded'
    BY <1>3, <1>4, <1>5 DEF ResultInv, BackwardResult, LatestBounded, NotBehind
  <1> QED
    BY <1>1, <1>7, <1>8 DEF ResultInv, BackwardResult

LEMMA TurnToFloatsResult ==
    ASSUME ResultInv, TurnToFloats \/ Return
    PROVE  ResultInv'
  <1>1. ForwardResult' /\ BackwardResult'
    BY ForwardKept, BackwardKept DEF ResultInv, TurnToFloats, Return
  <1> QED
    BY <1>1 DEF ResultInv, TurnToFloats, Return, FloatLoop

LEMMA FloatResult ==
    ASSUME TypeOK, PassInv, ResultInv, NEW n \in graph.node, Float(n)
    PROVE  ResultInv'
  <1>1. ForwardResult' /\ BackwardResult'
    BY ForwardKept, BackwardKept DEF ResultInv, Float
  <1>2. /\ phase = "float" /\ phase' = "float" /\ todo' = todo \ {n}
        /\ completion' = MaxOf(completion, eft[n])
        /\ critical_path' =
              IF lst[n] - est[n] = 0 THEN critical_path \cup {n} ELSE critical_path
        /\ graph' = graph /\ est' = est /\ eft' = eft /\ lst' = lst
    BY DEF Float
  <1>3. \A m \in graph.node : eft[m] \in Nat /\ est[m] \in Nat /\ lst[m] \in Nat
    BY <1>2 DEF PassInv, Finishes, ResultInv, FloatLoop, TypeOK, Attribute
  <1>4. /\ completion \in Nat /\ completion <= completion' /\ eft[n] <= completion'
        /\ completion' \in {completion, eft[n]} /\ completion' \in Nat
    BY <1>2, <1>3 DEF MaxOf, TypeOK
  <1>5. lst[n] - est[n] = 0 <=> lst[n] = est[n]
    BY <1>3
  <1>6. FloatLoop'
    <2>1. ASSUME NEW m \in graph.node \ todo'
          PROVE  eft[m] <= completion' /\ (lst[m] = est[m] => m \in critical_path')
      <3>1. CASE m = n
        BY <1>2, <1>4, <1>5, <3>1
      <3>2. CASE m # n
        <4>1. eft[m] <= completion /\ (lst[m] = est[m] => m \in critical_path)
          BY <1>2, <3>2 DEF ResultInv, FloatLoop
        <4> QED
          BY <1>2, <1>3, <1>4, <4>1
      <3> QED
        BY <3>1, <3>2
    <2>2. completion' = 0 \/ \E m \in graph.node : completion' = eft[m]
      BY <1>2, <1>4 DEF ResultInv, FloatLoop
    <2>3. \A m \in critical_path' : lst[m] = est[m]
      BY <1>2, <1>5 DEF ResultInv, FloatLoop
    <2>4. \A m \in graph.node : lst[m] # NULL
      BY <1>2 DEF ResultInv, FloatLoop
    <2> QED
      BY <1>2, <2>1, <2>2, <2>3, <2>4 DEF FloatLoop
  <1> QED
    BY <1>1, <1>6 DEF ResultInv

LEMMA NextResult ==
    ASSUME TypeOK, PassInv, ResultInv, [Next]_vars
    PROVE  ResultInv'
  <1>1. CASE UNCHANGED vars
    <2>1. ForwardResult' /\ BackwardResult'
      BY <1>1, ForwardKept, BackwardKept DEF ResultInv, vars
    <2> QED
      BY <1>1, <2>1 DEF vars, ResultInv, FloatLoop
  <1>2. ASSUME NEW n \in graph.node, Visit(n) PROVE ResultInv'
    BY <1>2, EnterForwardResult, LatestResult, EnterBackwardResult,
       EarliestResult, FloatResult DEF Visit
  <1> QED
    BY <1>1, <1>2, LeaveForwardResult, TurnBackResult, LeaveBackwardResult,
       TurnToFloatsResult DEF Next

\* Every earliest finish is the time of a path, every latest finish is set
\* by a successor or by the last task of a path, and the last loop misses no
\* task.
THEOREM ResultInvariant == Spec => []ResultInv
  BY InitResult, NextResult, PassInvariant, PTL DEF Spec


(***************************************************************************)
(* The result.                                                             *)
(***************************************************************************)

\* What the attributes are when all loops are through.
LEMMA AttributesSet ==
    ASSUME TypeOK, PassInv, ResultInv, phase = "done"
    PROVE  /\ \A n \in graph.node :
                 /\ est[n] \in Nat /\ eft[n] \in Nat /\ lst[n] \in Nat /\ lft[n] \in Nat
                 /\ graph.dur[n] \in Nat
                 /\ eft[n] = est[n] + graph.dur[n] /\ lst[n] = lft[n] - graph.dur[n]
                 /\ eft[n] <= lft[n] /\ eft[n] <= completion /\ lft[n] <= completion
                 /\ lst[n] = est[n] <=> n \in critical_path
           /\ \A p, n \in graph.node :
                 <<p, n>> \in graph.edge => eft[p] <= est[n] /\ lft[p] <= lst[n]
           /\ completion \in Nat
           /\ \E m \in graph.node : completion = eft[m]
  <1>1. ASSUME NEW n \in graph.node
        PROVE  /\ est[n] \in Nat /\ eft[n] \in Nat /\ lst[n] \in Nat /\ lft[n] \in Nat
               /\ graph.dur[n] \in Nat
               /\ eft[n] = est[n] + graph.dur[n] /\ lst[n] = lft[n] - graph.dur[n]
               /\ eft[n] <= lft[n]
    <2>1. lst[n] # NULL /\ eft[n] # NULL
      BY DEF ResultInv, FloatLoop, PassInv, Finishes
    <2>2. est[n] # NULL /\ lft[n] # NULL
      BY <2>1 DEF PassInv, Finishes
    <2> QED
      BY <2>1, <2>2, GraphFacts DEF PassInv, Finishes, TypeOK, Attribute
  <1>2. \A n \in graph.node :
           eft[n] <= completion /\ (lst[n] = est[n] <=> n \in critical_path)
    BY DEF ResultInv, FloatLoop
  <1>3. completion \in Nat
    BY DEF TypeOK
  <1>4. ASSUME NEW n \in graph.node PROVE lft[n] <= completion
    <2>1. lft[n] # NULL
      BY <1>1, GraphFacts
    <2>2. PICK m \in graph.node : lft[n] <= eft[m]
      BY <2>1 DEF ResultInv, BackwardResult, LatestBounded, NotBehind
    <2>3. eft[m] <= completion /\ eft[m] \in Nat /\ lft[n] \in Nat
      BY <1>1, <1>2
    <2> QED
      BY <1>3, <2>2, <2>3
  <1>5. \A p, n \in graph.node :
           <<p, n>> \in graph.edge => eft[p] <= est[n] /\ lft[p] <= lst[n]
    BY <1>1, GraphFacts DEF PassInv, EarliestFeasible, LatestFeasible
  <1>6. \E m \in graph.node : completion = eft[m]
    <2>1. CASE completion = 0
      <3>1. graph.root \in graph.node
        BY GraphFacts
      <3>2. eft[graph.root] \in Nat /\ eft[graph.root] <= completion
        BY <1>1, <1>2, <3>1
      <3>3. eft[graph.root] = completion
        BY <2>1, <3>2
      <3> QED
        BY <3>1, <3>3
    <2>2. CASE \E m \in graph.node : completion = eft[m]
      BY <2>2
    <2> QED
      BY <2>1, <2>2 DEF ResultInv, FloatLoop
  <1> QED
    BY <1>1, <1>2, <1>3, <1>4, <1>5, <1>6

\* Along a path the totals stay below the earliest finishes, and the latest
\* finishes leave time for what is still to come.
LEMMA AlongPath ==
    ASSUME TypeOK, PassInv, ResultInv, phase = "done",
           NEW k \in Nat \ {0}, NEW s, NEW t, PathOf(s, k, t), NEW i \in 1 .. k
    PROVE  /\ t[i] \in Nat /\ t[k] \in Nat
           /\ t[i] <= eft[s[i]]
           /\ lft[s[i]] - t[i] <= lft[s[k]] - t[k]
  <1>1. t \in [1 .. k -> Nat]
        /\ \A j \in 1 .. k : t[j] = graph.dur[s[j]] + (IF j = 1 THEN 0 ELSE t[j - 1])
    BY DEF PathOf, Totals, Durs
  <1>0. /\ s \in [1 .. k -> graph.node]
        /\ \A j \in 1 .. k - 1 : <<s[j], s[j + 1]>> \in graph.edge
    BY DEF PathOf
  <1> DEFINE f == [j \in 1 .. k |-> eft[s[j]] - t[j]]
             g == [j \in 1 .. k |-> lft[s[j]] - t[j]]
  <1>2. \A j \in 1 .. k :
           /\ t[j] \in Nat /\ eft[s[j]] \in Nat /\ lft[s[j]] \in Nat
           /\ est[s[j]] \in Nat /\ lst[s[j]] \in Nat /\ graph.dur[s[j]] \in Nat
           /\ eft[s[j]] = est[s[j]] + graph.dur[s[j]]
           /\ lst[s[j]] = lft[s[j]] - graph.dur[s[j]]
    BY <1>0, <1>1, AttributesSet
  <1>3. f \in [1 .. k -> Int] /\ g \in [1 .. k -> Int]
    <2>1. ASSUME NEW j \in 1 .. k
          PROVE  eft[s[j]] - t[j] \in Int /\ lft[s[j]] - t[j] \in Int
      <3>1. t[j] \in Nat /\ eft[s[j]] \in Nat /\ lft[s[j]] \in Nat
        BY <1>2
      <3> QED
        BY <3>1
    <2> QED
      BY <2>1
  <1>4. ASSUME NEW j \in 1 .. k - 1 PROVE f[j] <= f[j + 1] /\ g[j] <= g[j + 1]
    <2>1. j \in 1 .. k /\ j + 1 \in 1 .. k /\ j + 1 # 1 /\ (j + 1) - 1 = j
      OBVIOUS
    <2>2. eft[s[j]] <= est[s[j + 1]] /\ lft[s[j]] <= lst[s[j + 1]]
      BY <1>0, <2>1, AttributesSet
    <2>3. t[j + 1] = graph.dur[s[j + 1]] + t[j]
      BY <1>1, <2>1
    <2>4. t[j] \in Nat /\ eft[s[j]] \in Nat /\ lft[s[j]] \in Nat
      BY <1>2, <2>1
    <2>5. /\ est[s[j + 1]] \in Nat /\ lft[s[j + 1]] \in Nat /\ graph.dur[s[j + 1]] \in Nat
          /\ eft[s[j + 1]] = est[s[j + 1]] + graph.dur[s[j + 1]]
          /\ lst[s[j + 1]] = lft[s[j + 1]] - graph.dur[s[j + 1]]
      BY <1>2, <2>1
    <2>6. eft[s[j]] - t[j] <= eft[s[j + 1]] - t[j + 1]
      BY <2>2, <2>3, <2>4, <2>5
    <2>7. lft[s[j]] - t[j] <= lft[s[j + 1]] - t[j + 1]
      BY <2>2, <2>3, <2>4, <2>5
    <2> QED
      BY <2>1, <2>6, <2>7
  <1>5. 1 \in 1 .. k /\ k \in 1 .. k /\ i \in 1 .. k /\ k \in i .. k
    OBVIOUS
  <1>6. f[1] = eft[s[1]] - t[1] /\ f[i] = eft[s[i]] - t[i]
        /\ g[i] = lft[s[i]] - t[i] /\ g[k] = lft[s[k]] - t[k]
    BY <1>5
  <1> HIDE DEF f, g
  <1>7. f[1] <= f[i]
    BY <1>3, <1>4, <1>5, NeverFalls
  <1>8. g[i] <= g[k]
    <2>1. \A j \in 1 .. k - 1 : g[j] <= g[j + 1]
      BY <1>4
    <2>2. k \in Nat
      OBVIOUS
    <2>3. \A b \in i .. k : g[i] <= g[b]
      BY <1>3, <2>1, <2>2, NeverFalls
    <2> QED
      BY <1>5, <2>3
  <1>9. f[1] = est[s[1]]
    <2>1. t[1] = graph.dur[s[1]] + 0
      BY <1>1, <1>5
    <2>2. /\ est[s[1]] \in Nat /\ graph.dur[s[1]] \in Nat
          /\ eft[s[1]] = est[s[1]] + graph.dur[s[1]]
      BY <1>2, <1>5
    <2> QED
      BY <1>6, <2>1, <2>2
  <1>10. t[i] <= eft[s[i]]
    BY <1>2, <1>5, <1>6, <1>7, <1>9
  <1> QED
    BY <1>2, <1>5, <1>6, <1>8, <1>10


\* What the order of the tasks is when all have finished.
LEMMA TasksRanked ==
    ASSUME TypeOK, PassInv, ResultInv, phase = "done"
    PROVE  \E rank \in [graph.node -> Nat] :
              /\ \A n \in graph.node : rank[n] < Cardinality(graph.node)
              /\ \A p, n \in graph.node : <<p, n>> \in graph.edge => rank[p] < rank[n]
  <1>1. Finished = graph.node
    BY AttributesSet, GraphFacts DEF Finished
  <1>2. PICK rank : Ranks(rank, graph.node)
    BY <1>1 DEF ResultInv, ForwardResult, Ranked
  <1> QED
    BY <1>2 DEF Ranks

\* Going on to some successor within a set of tasks ends in a last task.
LEMMA LastTaskIn ==
    ASSUME TypeOK, PassInv, ResultInv, phase = "done",
           NEW A \in SUBSET graph.node, A # {},
           \A a \in A : Succs(a) # {} => \E s \in Succs(a) : s \in A
    PROVE  \E a \in A : Succs(a) = {}
  <1>1. PICK rank \in [graph.node -> Nat] :
           /\ \A n \in graph.node : rank[n] < Cardinality(graph.node)
           /\ \A p, n \in graph.node : <<p, n>> \in graph.edge => rank[p] < rank[n]
    BY TasksRanked
  <1> DEFINE N == Cardinality(graph.node)
             T == {N - rank[a] : a \in A}
  <1>2. N \in Nat
    BY FiniteGraph
  <1>3. \A n \in graph.node : rank[n] \in Nat /\ rank[n] < N
    BY <1>1
  <1> HIDE DEF N
  <1>4. T \in SUBSET Nat /\ T # {}
    <2>1. ASSUME NEW a \in A PROVE N - rank[a] \in Nat
      <3>1. rank[a] \in Nat /\ rank[a] < N
        BY <1>3
      <3> QED
        BY <1>2, <3>1
    <2> QED
      BY <2>1
  <1>5. PICK m \in T : \A n \in T : m <= n
    BY <1>4, LeastElement
  <1>6. PICK a \in A : m = N - rank[a]
    BY <1>5
  <1>7. ASSUME NEW s \in Succs(a), s \in A PROVE FALSE
    <2>1. s \in graph.node /\ a \in graph.node /\ rank[a] < rank[s]
      BY <1>1, <1>7 DEF Succs
    <2>2. rank[a] \in Nat /\ rank[s] \in Nat /\ N - rank[s] \in T
      BY <1>3, <1>7, <2>1
    <2>3. N - rank[a] <= N - rank[s]
      BY <1>5, <1>6, <2>2
    <2> QED
      BY <1>2, <2>1, <2>2, <2>3
  <1> QED
    BY <1>7

\* The members of Paths are the paths, and Time is their last total.
LEMMA PathTotals ==
    ASSUME TypeOK, NEW s \in Paths
    PROVE  \E k \in Nat \ {0} : \E t : PathOf(s, k, t) /\ Time(s) = t[k]
  <1>1. PICK k \in 1 .. Cardinality(graph.node) : s \in [1 .. k -> graph.node] /\ IsPath(s)
    BY DEF Paths
  <1>2. k \in Nat \ {0}
    BY FiniteGraph
  <1>3. Len(s) = k
    BY <1>1, <1>2
  <1>4. \A i \in 1 .. k - 1 : <<s[i], s[i + 1]>> \in graph.edge
    BY <1>1, <1>3 DEF IsPath
  <1>5. PICK t : Totals(t, Durs(s), k) /\ Time(s) = t[k]
    BY <1>1, <1>2, TimeIsTotal
  <1> QED
    BY <1>1, <1>2, <1>4, <1>5 DEF PathOf

LEMMA PathIsCounted ==
    ASSUME TypeOK, PassInv, ResultInv, phase = "done",
           NEW k \in Nat \ {0}, NEW s, NEW t, PathOf(s, k, t)
    PROVE  s \in Paths /\ Time(s) = t[k]
  <1>1. /\ s \in [1 .. k -> graph.node]
        /\ \A i \in 1 .. k - 1 : <<s[i], s[i + 1]>> \in graph.edge
        /\ Totals(t, Durs(s), k)
    BY DEF PathOf
  <1>2. PICK rank \in [graph.node -> Nat] :
           /\ \A n \in graph.node : rank[n] < Cardinality(graph.node)
           /\ \A p, n \in graph.node : <<p, n>> \in graph.edge => rank[p] < rank[n]
    BY TasksRanked
  <1> DEFINE f == [i \in 1 .. k |-> rank[s[i]] - i]
  <1>3. \A i \in 1 .. k : s[i] \in graph.node /\ rank[s[i]] \in Nat
    BY <1>1, <1>2
  <1>4. f \in [1 .. k -> Int]
    BY <1>3
  <1>5. ASSUME NEW i \in 1 .. k - 1 PROVE f[i] <= f[i + 1]
    <2>1. i \in 1 .. k /\ i + 1 \in 1 .. k
      OBVIOUS
    <2>2. rank[s[i]] < rank[s[i + 1]]
      BY <1>1, <1>2, <1>3, <2>1
    <2>3. rank[s[i]] \in Nat /\ rank[s[i + 1]] \in Nat
      BY <1>3, <2>1
    <2>4. rank[s[i]] - i <= rank[s[i + 1]] - (i + 1)
      BY <2>2, <2>3
    <2> QED
      BY <2>1, <2>4
  <1>6. 1 \in 1 .. k /\ k \in 1 .. k /\ f[1] = rank[s[1]] - 1 /\ f[k] = rank[s[k]] - k
    OBVIOUS
  <1> HIDE DEF f
  <1>7. f[1] <= f[k]
    <2>1. \A b \in 1 .. k : f[1] <= f[b]
      BY <1>4, <1>5, <1>6, NeverFalls
    <2> QED
      BY <1>6, <2>1
  <1>8. k \in 1 .. Cardinality(graph.node)
    <2>1. /\ rank[s[1]] \in Nat /\ rank[s[k]] \in Nat
          /\ rank[s[k]] < Cardinality(graph.node) /\ Cardinality(graph.node) \in Nat
      BY <1>2, <1>3, <1>6, FiniteGraph
    <2> QED
      BY <1>6, <1>7, <2>1
  <1>9. Len(s) = k
    BY <1>1
  <1>10. s \in Paths
    <2>1. IsPath(s)
      BY <1>1, <1>9 DEF IsPath
    <2>2. s \in {x \in [1 .. k -> graph.node] : IsPath(x)}
      BY <1>1, <2>1
    <2> QED
      BY <1>8, <2>2 DEF Paths
  <1>11. PICK u : Totals(u, Durs(s), k) /\ Time(s) = u[k]
    BY <1>1, TimeIsTotal
  <1>12. Durs(s) \in [1 .. k -> Nat]
    BY <1>1, GraphFacts DEF Durs
  <1>13. u[k] = t[k]
    BY <1>1, <1>11, <1>12, TotalsAgree
  <1> QED
    BY <1>10, <1>11, <1>13

LEMMA LongestIsCompletion ==
    ASSUME TypeOK, PassInv, ResultInv, phase = "done"
    PROVE  Longest = completion
  <1> DEFINE S == {Time(s) : s \in Paths}
  <1>1. ASSUME NEW s \in Paths PROVE Time(s) \in Nat /\ Time(s) <= completion
    <2>1. PICK k \in Nat \ {0} : \E t : PathOf(s, k, t) /\ Time(s) = t[k]
      BY PathTotals
    <2>2. PICK t : PathOf(s, k, t) /\ Time(s) = t[k]
      BY <2>1
    <2>3. k \in 1 .. k /\ s[k] \in graph.node
      BY <2>2 DEF PathOf
    <2>4. t[k] \in Nat /\ t[k] <= eft[s[k]]
      BY <2>2, <2>3, AlongPath
    <2>5. eft[s[k]] \in Nat /\ eft[s[k]] <= completion /\ completion \in Nat
      BY <2>3, AttributesSet
    <2> QED
      BY <2>2, <2>4, <2>5
  <1>2. \E s \in Paths : Time(s) = completion
    <2>1. PICK m \in graph.node : completion = eft[m]
      BY AttributesSet
    <2>2. m \in Finished
      BY <2>1, AttributesSet, GraphFacts DEF Finished
    <2>3. PICK k \in Nat \ {0} : \E s, t : PathOf(s, k, t) /\ t[k] = eft[m]
      BY <2>2 DEF ResultInv, ForwardResult, Attained, Through
    <2>4. PICK s, t : PathOf(s, k, t) /\ t[k] = eft[m]
      BY <2>3
    <2> QED
      BY <2>1, <2>4, PathIsCounted
  <1>3. completion \in S /\ \A y \in S : y \in Nat /\ completion >= y
    BY <1>1, <1>2, AttributesSet
  <1> HIDE DEF S
  <1>4. Max(S) \in S /\ \A y \in S : Max(S) >= y
    BY <1>3 DEF Max
  <1>5. Max(S) = completion
    BY <1>3, <1>4
  <1> QED
    BY <1>5 DEF Longest, S

\* critical_path_method reports the time of a longest path as completion
\* time: of every task graph, in whatever order it goes through the nodes.
THEOREM CompletionTimeIsLongest == Spec => []CompletionIsLongest
  <1>1. TypeOK /\ PassInv /\ ResultInv => CompletionIsLongest
    BY LongestIsCompletion DEF CompletionIsLongest
  <1> QED
    BY <1>1, PassInvariant, ResultInvariant, PTL

\* It reports every task of every longest path as critical: along such a
\* path no task has float, since the latest finishes leave no more time
\* than the path takes.
THEOREM LongestPathsAreReported == Spec => []LongestIsReported
  <1>1. ASSUME TypeOK, PassInv, ResultInv PROVE LongestIsReported
    <2> SUFFICES ASSUME phase = "done", NEW n \in graph.node, OnLongest(n)
                 PROVE  n \in critical_path
      BY DEF LongestIsReported
    <2>1. PICK s \in Paths : Time(s) = Longest /\ \E i \in DOMAIN s : s[i] = n
      BY DEF OnLongest
    <2>2. PICK k \in Nat \ {0} : \E t : PathOf(s, k, t) /\ Time(s) = t[k]
      BY <1>1, PathTotals
    <2>3. PICK t : PathOf(s, k, t) /\ Time(s) = t[k]
      BY <2>2
    <2>4. PICK i \in 1 .. k : s[i] = n
      BY <2>1, <2>3 DEF PathOf
    <2>5. t[k] = completion
      BY <1>1, <2>1, <2>3, LongestIsCompletion
    <2>6. /\ t[i] \in Nat /\ t[k] \in Nat /\ t[i] <= eft[n]
          /\ lft[n] - t[i] <= lft[s[k]] - t[k]
      BY <1>1, <2>3, <2>4, AlongPath
    <2>7. /\ est[n] \in Nat /\ eft[n] \in Nat /\ lst[n] \in Nat /\ lft[n] \in Nat
          /\ graph.dur[n] \in Nat
          /\ eft[n] = est[n] + graph.dur[n] /\ lst[n] = lft[n] - graph.dur[n]
          /\ eft[n] <= lft[n]
          /\ lst[n] = est[n] => n \in critical_path
      BY <1>1, AttributesSet
    <2>8. s[k] \in graph.node
      BY <2>3 DEF PathOf
    <2>9. lft[s[k]] \in Nat /\ lft[s[k]] <= completion
      BY <1>1, <2>8, AttributesSet
    <2>10. lst[n] = est[n]
      BY <2>5, <2>6, <2>7, <2>9
    <2> QED
      BY <2>7, <2>10
  <1> QED
    BY <1>1, PassInvariant, ResultInvariant, PTL


\* A task without float hands its finish on to a successor without float.
LEMMA CriticalGoesOn ==
    ASSUME TypeOK, PassInv, ResultInv, phase = "done",
           NEW n \in critical_path, Succs(n) # {}
    PROVE  \E s \in Succs(n) : s \in critical_path /\ est[s] = eft[n]
  <1>1. n \in graph.node
    BY DEF TypeOK
  <1>2. /\ est[n] \in Nat /\ eft[n] \in Nat /\ lst[n] \in Nat /\ lft[n] \in Nat
        /\ graph.dur[n] \in Nat /\ lst[n] = est[n]
        /\ eft[n] = est[n] + graph.dur[n] /\ lst[n] = lft[n] - graph.dur[n]
    BY <1>1, AttributesSet
  <1>3. PICK s \in Succs(n) : lft[n] = lst[s]
    BY <1>1, <1>2, GraphFacts DEF ResultInv, BackwardResult, LatestAttained, LatestFrom
  <1>4. s \in graph.node /\ <<n, s>> \in graph.edge
    BY <1>3 DEF Succs
  <1>5. /\ est[s] \in Nat /\ eft[s] \in Nat /\ lst[s] \in Nat /\ lft[s] \in Nat
        /\ graph.dur[s] \in Nat
        /\ eft[s] = est[s] + graph.dur[s] /\ lst[s] = lft[s] - graph.dur[s]
        /\ eft[s] <= lft[s] /\ (lst[s] = est[s] <=> s \in critical_path)
    BY <1>4, AttributesSet
  <1>6. eft[n] <= est[s]
    BY <1>1, <1>4, AttributesSet
  <1>7. est[s] <= lst[s] /\ lft[n] = eft[n]
    BY <1>2, <1>5
  <1>8. est[s] = lst[s] /\ est[s] = eft[n]
    BY <1>2, <1>3, <1>5, <1>6, <1>7
  <1> QED
    BY <1>3, <1>5, <1>8

LEMMA CriticalReachesLast ==
    ASSUME TypeOK, PassInv, ResultInv, phase = "done", NEW n \in critical_path
    PROVE  \E m \in graph.node : Succs(m) = {} /\ Through(n, m)
  <1> DEFINE A == {m \in critical_path : Through(n, m)}
  <1>1. A \in SUBSET graph.node
    BY DEF TypeOK
  <1>2. n \in A
    <2>1. n \in Finished
      BY AttributesSet, GraphFacts DEF TypeOK, Finished
    <2> QED
      BY <2>1 DEF ResultInv, ForwardResult, Attained
  <1>3. ASSUME NEW a \in A, Succs(a) # {} PROVE \E s \in Succs(a) : s \in A
    <2>1. PICK s \in Succs(a) : s \in critical_path /\ est[s] = eft[a]
      BY <1>3, CriticalGoesOn
    <2>2. s \in graph.node /\ <<a, s>> \in graph.edge
      BY <2>1 DEF Succs
    <2>3. PICK k \in Nat \ {0} : \E p, t :
             /\ PathOf(p, k, t) /\ p[k] = a /\ t[k] = eft[a]
             /\ \E i \in 1 .. k : p[i] = n
      BY DEF Through
    <2>4. PICK p, t :
             /\ PathOf(p, k, t) /\ p[k] = a /\ t[k] = eft[a]
             /\ \E i \in 1 .. k : p[i] = n
      BY <2>3
    <2>5. PICK u, v :
             /\ PathOf(u, k + 1, v)
             /\ u[k + 1] = s /\ v[k + 1] = t[k] + graph.dur[s]
             /\ \A i \in 1 .. k : u[i] = p[i]
      <3>1. PathOf(p, k, t) /\ <<p[k], s>> \in graph.edge
        BY <2>2, <2>4
      <3> QED
        BY <2>2, <3>1, PathGrows
    <2>6. v[k + 1] = eft[s]
      BY <2>1, <2>2, <2>4, <2>5, AttributesSet
    <2>7. PICK i \in 1 .. k + 1 : u[i] = n
      <3>1. PICK i \in 1 .. k : p[i] = n
        BY <2>4
      <3> QED
        BY <2>5, <3>1
    <2>8. k + 1 \in Nat \ {0}
      OBVIOUS
    <2>9. Through(n, s)
      BY <2>5, <2>6, <2>7, <2>8 DEF Through
    <2> QED
      BY <2>1, <2>9
  <1> HIDE DEF A
  <1>4. PICK m \in A : Succs(m) = {}
    BY <1>1, <1>2, <1>3, LastTaskIn
  <1> QED
    BY <1>1, <1>4 DEF A

LEMMA LastTaskCompletes ==
    ASSUME TypeOK, PassInv, ResultInv, phase = "done"
    PROVE  \E m \in graph.node : Succs(m) = {} /\ eft[m] = completion
  <1> DEFINE A == {m \in graph.node : eft[m] = completion}
  <1>1. A \in SUBSET graph.node /\ A # {}
    BY AttributesSet
  <1>2. ASSUME NEW a \in A, NEW s \in Succs(a) PROVE s \in A
    <2>1. a \in graph.node /\ s \in graph.node /\ <<a, s>> \in graph.edge
      BY DEF Succs
    <2>2. /\ est[s] \in Nat /\ eft[s] \in Nat /\ graph.dur[s] \in Nat
          /\ eft[s] = est[s] + graph.dur[s] /\ eft[s] <= completion
          /\ eft[a] = completion /\ completion \in Nat
      BY <2>1, AttributesSet
    <2>3. eft[a] <= est[s]
      BY <2>1, AttributesSet
    <2>4. eft[s] = completion
      BY <2>2, <2>3
    <2> QED
      BY <2>1, <2>4
  <1> HIDE DEF A
  <1>3. PICK m \in A : Succs(m) = {}
    BY <1>1, <1>2, LastTaskIn
  <1> QED
    BY <1>3 DEF A

\* Where a project has a single last task, only tasks of longest paths are
\* reported: without float a task hands its finish on, from task to task, to
\* the last one, which ends the project.
THEOREM OneLastTaskIsExact == Spec => []OneLastTaskExact
  <1>1. ASSUME TypeOK, PassInv, ResultInv PROVE OneLastTaskExact
    <2> SUFFICES ASSUME OneLastTask, phase = "done", NEW n \in critical_path
                 PROVE  OnLongest(n)
      BY DEF OneLastTaskExact, ReportedIsLongest
    <2> DEFINE Last == {m \in graph.node : Succs(m) = {}}
    <2>1. PICK x : Last = {x}
      <3>1. IsFiniteSet(Last)
        BY <1>1, FiniteGraph, FS_Subset
      <3> QED
        BY <3>1, FS_Singleton DEF OneLastTask
    <2>2. PICK m \in graph.node : Succs(m) = {} /\ Through(n, m)
      BY <1>1, CriticalReachesLast
    <2>3. eft[m] = completion
      <3>1. PICK y \in graph.node : Succs(y) = {} /\ eft[y] = completion
        BY <1>1, LastTaskCompletes
      <3>2. y \in Last /\ m \in Last
        BY <2>2, <3>1
      <3>3. y = m
        BY <2>1, <3>2
      <3> QED
        BY <3>1, <3>3
    <2>4. PICK k \in Nat \ {0} : \E s, t :
             /\ PathOf(s, k, t) /\ s[k] = m /\ t[k] = eft[m]
             /\ \E i \in 1 .. k : s[i] = n
      BY <2>2 DEF Through
    <2>5. PICK s, t :
             /\ PathOf(s, k, t) /\ s[k] = m /\ t[k] = eft[m]
             /\ \E i \in 1 .. k : s[i] = n
      BY <2>4
    <2>6. s \in Paths /\ Time(s) = t[k]
      BY <1>1, <2>5, PathIsCounted
    <2>7. Time(s) = Longest
      BY <1>1, <2>3, <2>5, <2>6, LongestIsCompletion
    <2>8. \E i \in DOMAIN s : s[i] = n
      BY <2>5 DEF PathOf
    <2> QED
      BY <2>6, <2>7, <2>8 DEF OnLongest
  <1> QED
    BY <1>1, PassInvariant, ResultInvariant, PTL
=============================================================================
