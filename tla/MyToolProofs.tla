---------------------------- MODULE MyToolProofs ----------------------------
(***************************************************************************)
(* Proofs about MyTool, for every number of tasks and blocks, all limits   *)
(* and all arrays of identifiers.                                          *)
(***************************************************************************)
EXTENDS MyTool, SequenceTheorems, TLAPS

\* merge_set stays inside the array and behind the limit, whatever count it
\* is given.
LEMMA MergeSetType ==
    ASSUME NEW max \in Nat, NEW c \in Nat, NEW new \in Inputs,
           NEW set \in [1 .. max -> GUIDs \cup {Junk}]
    PROVE  LET merged == MergeSet(set, c, new, max) IN
           /\ merged.set \in [1 .. max -> GUIDs \cup {Junk}]
           /\ merged.count \in Nat
           /\ c <= max => merged.count <= max
           /\ c > max => merged.count = c
  <1>1. new \in Seq(GUIDs) /\ Len(new) \in Nat
    BY InputsAssumption
  <1> DEFINE room   == IF c >= max THEN 0 ELSE max - c
             copied == IF Len(new) <= room THEN Len(new) ELSE room
  <1>2. copied \in Nat /\ copied <= Len(new)
        /\ (c <= max => c + copied <= max) /\ (c >= max => copied = 0)
    BY <1>1
  <1>3. (1 .. max) \cup (c + 1 .. c + copied) = 1 .. max
    BY <1>2
  <1>4. \A i \in 1 .. max : i > c /\ i <= c + copied => new[i - c] \in GUIDs
    BY <1>1, <1>2
  <1> HIDE DEF copied
  <1>5. DOMAIN set = 1 .. max
    OBVIOUS
  <1>6. MergeSet(set, c, new, max).set =
          [i \in 1 .. max |-> IF i > c /\ i <= c + copied THEN new[i - c] ELSE set[i]]
    BY <1>3, <1>5 DEF MergeSet, copied
  <1>7. MergeSet(set, c, new, max).count = c + copied
    BY DEF MergeSet, copied
  <1>8. [i \in 1 .. max |-> IF i > c /\ i <= c + copied THEN new[i - c] ELSE set[i]]
          \in [1 .. max -> GUIDs \cup {Junk}]
    BY <1>4
  <1>9. /\ c + copied \in Nat
        /\ c <= max => c + copied <= max
        /\ c > max => c + copied = c
    BY <1>2
  <1> QED
    BY <1>6, <1>7, <1>8, <1>9

\* The list that an array holds after merge_set is the list it held before,
\* with the new elements behind it, cut at the limit.
LEMMA MergeSetAppends ==
    ASSUME NEW max \in Nat, NEW c \in 0 .. max, NEW new \in Inputs,
           NEW set \in [1 .. max -> GUIDs \cup {Junk}]
    PROVE  LET merged == MergeSet(set, c, new, max) IN
           SubSeq(merged.set, 1, merged.count)
             = Parents!Cut(SubSeq(set, 1, c) \o new, max)
  <1>1. new \in Seq(GUIDs) /\ Len(new) \in Nat
    BY InputsAssumption
  <1> DEFINE room   == IF c >= max THEN 0 ELSE max - c
             copied == IF Len(new) <= room THEN Len(new) ELSE room
             all    == SubSeq(set, 1, c) \o new
  <1>2. copied \in Nat /\ copied <= Len(new) /\ c + copied <= max
        /\ c + copied = (IF c + Len(new) < max THEN c + Len(new) ELSE max)
    BY <1>1
  <1>3. (1 .. max) \cup (c + 1 .. c + copied) = 1 .. max
    BY <1>2
  <1>4. set \in Seq(GUIDs \cup {Junk}) /\ Len(set) = max
    OBVIOUS
  <1>5. /\ SubSeq(set, 1, c) \in Seq(GUIDs \cup {Junk}) /\ Len(SubSeq(set, 1, c)) = c
        /\ \A i \in 1 .. c : SubSeq(set, 1, c)[i] = set[i]
    BY <1>4
  <1>6. /\ all \in Seq(GUIDs \cup {Junk}) /\ Len(all) = c + Len(new)
        /\ \A i \in 1 .. c : all[i] = set[i]
        /\ \A i \in c + 1 .. c + Len(new) : all[i] = new[i - c]
    BY <1>1, <1>5
  <1> HIDE DEF copied, all
  <1>7. MergeSet(set, c, new, max).set =
          [i \in 1 .. max |-> IF i > c /\ i <= c + copied THEN new[i - c] ELSE set[i]]
    BY <1>3, <1>4 DEF MergeSet, copied
  <1>8. MergeSet(set, c, new, max).count = c + copied
    BY DEF MergeSet, copied
  <1> DEFINE merged == MergeSet(set, c, new, max)
  <1> HIDE DEF merged
  <1>9. merged.set \in [1 .. max -> GUIDs \cup {Junk}]
    BY MergeSetType DEF merged
  <1>10. merged.set \in Seq(GUIDs \cup {Junk}) /\ Len(merged.set) = max
    BY <1>9
  <1>11. Parents!Cut(all, max) = SubSeq(all, 1, c + copied)
    BY <1>2, <1>6 DEF Parents!Cut
  <1>12. \A i \in 1 .. c + copied : merged.set[i] = all[i]
    <2> SUFFICES ASSUME NEW i \in 1 .. c + copied
                 PROVE  merged.set[i] = all[i]
      OBVIOUS
    <2>1. i \in 1 .. max /\ i \in Nat
      BY <1>2
    <2>2. merged.set[i] = IF i > c /\ i <= c + copied THEN new[i - c] ELSE set[i]
      BY <1>7, <2>1 DEF merged
    <2>3. CASE i > c
      <3>1. i \in c + 1 .. c + Len(new)
        BY <1>1, <1>2, <2>3
      <3>2. i <= c + copied
        BY <1>2
      <3>3. merged.set[i] = new[i - c]
        BY <2>2, <2>3, <3>2
      <3>4. all[i] = new[i - c]
        BY <1>6, <3>1
      <3> QED
        BY <3>3, <3>4
    <2>4. CASE ~(i > c)
      BY <1>6, <2>1, <2>2, <2>4
    <2> QED
      BY <2>3, <2>4
  <1>13. SubSeq(merged.set, 1, c + copied) = SubSeq(all, 1, c + copied)
    BY <1>2, <1>6, <1>10, <1>12
  <1> QED
    BY <1>8, <1>11, <1>13 DEF merged, all

(***************************************************************************)
(* What the functions make of a timer.                                     *)
(***************************************************************************)

LEMMA LabelledTimer ==
    ASSUME NEW k \in Tasks, NEW t \in Timer
    PROVE  /\ Labelled(k, t) \in Timer
           /\ Labelled(k, t).mParents = t.mParents
           /\ Labelled(k, t).mParentCount = t.mParentCount
           /\ Labelled(k, t).mName = t.mName \/ Labelled(k, t).mName = k
           /\ k \in Resolvable /\ ~t.hasName => Labelled(k, t).mName = k
           /\ t.hasName => Labelled(k, t).hasName
           /\ k \in Resolvable => Labelled(k, t).hasName
  BY DEF Labelled, Timer

LEMMA NamedTimerType ==
    ASSUME NEW k \in Tasks, NEW t \in Timer, NEW scrambled \in Tasks \cup {Junk}
    PROVE  /\ NamedTimer(k, t, scrambled) \in Timer
           /\ k \in Named =>
                 NamedTimer(k, t, scrambled).mName = k /\ NamedTimer(k, t, scrambled).hasName
           /\ k \notin Named => ~NamedTimer(k, t, scrambled).hasName
  BY DEF NamedTimer, Timer

LEMMA WithParentsTimer ==
    ASSUME NEW t \in Timer, NEW parents \in Inputs
    PROVE  LET n == WithParents(t, parents) IN
           /\ n \in Timer
           /\ n.mName = t.mName /\ n.hasName = t.hasName
           /\ SubSeq(n.mParents, 1, n.mParentCount) = Parents!Cut(parents, MAX_PARENTS)
  <1> DEFINE merged == MergeSet(t.mParents, 0, parents, MAX_PARENTS)
             n      == WithParents(t, parents)
  <1>1. t.mParents \in [1 .. MAX_PARENTS -> GUIDs \cup {Junk}] /\ MAX_PARENTS \in Nat
    BY LimitsAssumption DEF Timer
  <1>2. /\ merged.set \in [1 .. MAX_PARENTS -> GUIDs \cup {Junk}]
        /\ merged.count \in 0 .. MAX_PARENTS
    BY <1>1, MergeSetType
  <1>3. SubSeq(merged.set, 1, merged.count)
          = Parents!Cut(SubSeq(t.mParents, 1, 0) \o parents, MAX_PARENTS)
    BY <1>1, MergeSetAppends
  <1>4. SubSeq(t.mParents, 1, 0) \o parents = parents
    <2>1. parents \in Seq(GUIDs)
      BY InputsAssumption
    <2>2. SubSeq(t.mParents, 1, 0) = <<>>
      BY <1>1
    <2> QED
      BY <2>1, <2>2
  <1> HIDE DEF merged
  <1>5. n = [t EXCEPT !.mParents = merged.set, !.mParentCount = merged.count]
    BY DEF WithParents, merged
  <1>6. n \in Timer /\ n.mName = t.mName /\ n.hasName = t.hasName
        /\ n.mParents = merged.set /\ n.mParentCount = merged.count
    BY <1>2, <1>5 DEF Timer
  <1> QED
    BY <1>3, <1>4, <1>6

\* The timer that create leaves behind.
LEMMA CreatedTimer ==
    ASSUME NEW k \in Tasks, NEW t \in Timer, NEW parents \in Inputs,
           NEW scrambled \in Tasks \cup {Junk}
    PROVE  LET c == WithParents(NamedTimer(k, t, scrambled), parents)
               n == Labelled(k, c) IN
           /\ n \in Timer
           /\ k \in Named \cup Resolvable => n.mName = k /\ n.hasName
           /\ k \in Named <=> c.hasName
           /\ SubSeq(n.mParents, 1, n.mParentCount) = Parents!Cut(parents, MAX_PARENTS)
  <1> DEFINE a == NamedTimer(k, t, scrambled)
             b == WithParents(a, parents)
             n == Labelled(k, b)
  <1>1. /\ a \in Timer
        /\ k \in Named => a.mName = k /\ a.hasName
        /\ k \notin Named => ~a.hasName
    BY NamedTimerType
  <1>2. /\ b \in Timer /\ b.mName = a.mName /\ b.hasName = a.hasName
        /\ SubSeq(b.mParents, 1, b.mParentCount) = Parents!Cut(parents, MAX_PARENTS)
    BY <1>1, WithParentsTimer
  <1> HIDE DEF a, b
  <1>3. /\ n \in Timer
        /\ n.mParents = b.mParents /\ n.mParentCount = b.mParentCount
        /\ n.mName = b.mName \/ n.mName = k
        /\ k \in Resolvable /\ ~b.hasName => n.mName = k
        /\ b.hasName \/ k \in Resolvable => n.hasName
    BY <1>2, LabelledTimer
  <1> QED
    BY <1>1, <1>2, <1>3 DEF a, b

\* The timer that add_parents leaves behind.
LEMMA ExtendedTimer ==
    ASSUME NEW t \in Timer, NEW parents \in Inputs
    PROVE  LET merged == MergeSet(t.mParents, t.mParentCount, parents, MAX_PARENTS)
               n == [t EXCEPT !.mParents = merged.set, !.mParentCount = merged.count]
           IN  /\ n \in Timer
               /\ n.mName = t.mName /\ n.hasName = t.hasName
               /\ SubSeq(n.mParents, 1, n.mParentCount)
                     = Parents!Cut(SubSeq(t.mParents, 1, t.mParentCount) \o parents,
                                   MAX_PARENTS)
  <1> DEFINE merged == MergeSet(t.mParents, t.mParentCount, parents, MAX_PARENTS)
  <1>1. /\ t.mParents \in [1 .. MAX_PARENTS -> GUIDs \cup {Junk}]
        /\ MAX_PARENTS \in Nat /\ t.mParentCount \in 0 .. MAX_PARENTS
    BY LimitsAssumption DEF Timer
  <1>2. /\ merged.set \in [1 .. MAX_PARENTS -> GUIDs \cup {Junk}]
        /\ merged.count \in 0 .. MAX_PARENTS
    BY <1>1, MergeSetType
  <1>3. SubSeq(merged.set, 1, merged.count)
          = Parents!Cut(SubSeq(t.mParents, 1, t.mParentCount) \o parents, MAX_PARENTS)
    BY <1>1, MergeSetAppends
  <1> HIDE DEF merged
  <1> DEFINE n == [t EXCEPT !.mParents = merged.set, !.mParentCount = merged.count]
  <1>4. n \in Timer /\ n.mName = t.mName /\ n.hasName = t.hasName
        /\ n.mParents = merged.set /\ n.mParentCount = merged.count
    BY <1>2 DEF Timer
  <1> QED
    BY <1>3, <1>4 DEF merged

\* The timer that add_children leaves behind.
LEMMA WithChildrenTimer ==
    ASSUME NEW t \in Timer, NEW children \in Inputs
    PROVE  LET merged == MergeSet(t.mChildren, t.mChildCount, children, MAX_CHILDREN)
               n == [t EXCEPT !.mChildren = merged.set, !.mChildCount = merged.count]
           IN  /\ n \in Timer
               /\ n.mName = t.mName /\ n.hasName = t.hasName
               /\ n.mParents = t.mParents /\ n.mParentCount = t.mParentCount
  <1> DEFINE merged == MergeSet(t.mChildren, t.mChildCount, children, MAX_CHILDREN)
  <1>1. /\ t.mChildren \in [1 .. MAX_CHILDREN -> GUIDs \cup {Junk}]
        /\ MAX_CHILDREN \in Nat /\ t.mChildCount \in 0 .. MAX_CHILDREN + 1
    BY LimitsAssumption DEF Timer, Counters
  <1>2. /\ merged.set \in [1 .. MAX_CHILDREN -> GUIDs \cup {Junk}]
        /\ merged.count \in 0 .. MAX_CHILDREN + 1
    BY <1>1, MergeSetType
  <1> HIDE DEF merged
  <1> DEFINE n == [t EXCEPT !.mChildren = merged.set, !.mChildCount = merged.count]
  <1>3. n \in Timer /\ n.mName = t.mName /\ n.hasName = t.hasName
        /\ n.mParents = t.mParents /\ n.mParentCount = t.mParentCount
    BY <1>2 DEF Timer, Counters
  <1> QED
    BY <1>3 DEF merged

(***************************************************************************)
(* The inductive invariant.                                                *)
(***************************************************************************)

\* A task that has a name or a symbol has a timer that knows its name.
HasNames ==
    \A k \in Named \cup Resolvable : timer[k] # NULL => memory[timer[k]].hasName

Inv == TypeOK /\ OwnBlocks /\ LabelOwn /\ HasNames /\ CrashesOverNameless

LEMMA InitInv == Init => Inv
  <1> SUFFICES ASSUME Init PROVE Inv
    OBVIOUS
  <1>1. PICK count \in [Blocks -> Counters] : memory = [b \in Blocks |-> Untouched(count[b])]
    BY DEF Init
  <1>2. \A c \in Counters : Untouched(c) \in Timer
    BY LimitsAssumption DEF Untouched, Timer, Counters
  <1>3. TypeOK
    BY <1>1, <1>2, LimitsAssumption DEF Init, TypeOK, Counters
  <1> QED
    BY <1>3, TasksAssumption
    DEF Init, Inv, OwnBlocks, LabelOwn, HasNames, CrashesOverNameless, Nameless

\* A function that does not end the process prints.
LEMMA NoCrash ==
    ASSUME crashed' = NULL, NEW k \in Tasks, NEW t
    PROVE  /\ ~Crash(k, t)
           /\ PrintTimer(k, t) =>
                 /\ memory' = [memory EXCEPT ![timer[k]] = Labelled(k, t)]
                 /\ UNCHANGED <<timer, start, crashed>>
  BY TasksAssumption DEF Crash, PrintTimer

\* One that ends it has found neither a name nor a symbol.
LEMMA CrashStep ==
    ASSUME Inv, crashed = NULL, crashed' # NULL, NEW k \in Tasks,
           Create(k) \/ Mention(k) \/ AddParents(k) \/ AddChildren(k) \/ Destroy(k)
    PROVE  Inv' /\ UNCHANGED <<timer, memory, start>>
  <1>1. PICK t : /\ Crash(k, t)
                 /\ timer[k] = NULL /\ k \in Named => t.hasName
                 /\ timer[k] # NULL => t.hasName = memory[timer[k]].hasName
    <2>1. CASE Create(k)
      <3>1. PICK b \in Blocks, parents \in Inputs, scrambled \in Tasks \cup {Junk} :
               Crash(k, WithParents(NamedTimer(k, memory[b], scrambled), parents))
        BY <2>1 DEF Create
      <3>2. memory[b] \in Timer
        BY DEF Inv, TypeOK
      <3> QED
        BY <2>1, <3>1, <3>2, CreatedTimer DEF Create
    <2>2. CASE Mention(k)
      BY <2>2 DEF Mention, PrintTimer
    <2>3. CASE AddParents(k) \/ AddChildren(k)
      <3>1. timer[k] # NULL /\ memory[timer[k]] \in Timer
        BY <2>3 DEF AddParents, AddChildren, Inv, TypeOK
      <3>2. CASE AddParents(k)
        <4>1. PICK parents \in Inputs :
                 LET t      == memory[timer[k]]
                     merged == MergeSet(t.mParents, t.mParentCount, parents, MAX_PARENTS)
                 IN  Crash(k, [t EXCEPT !.mParents = merged.set,
                                        !.mParentCount = merged.count])
          BY <3>2 DEF AddParents, PrintTimer
        <4> QED
          BY <3>1, <4>1, ExtendedTimer
      <3>3. CASE AddChildren(k)
        <4>1. PICK children \in Inputs :
                 LET t      == memory[timer[k]]
                     merged == MergeSet(t.mChildren, t.mChildCount, children, MAX_CHILDREN)
                 IN  Crash(k, [t EXCEPT !.mChildren = merged.set,
                                        !.mChildCount = merged.count])
          BY <3>3 DEF AddChildren, PrintTimer
        <4> QED
          BY <3>1, <4>1, WithChildrenTimer
      <3> QED
        BY <2>3, <3>2, <3>3
    <2>4. CASE Destroy(k)
      BY <2>4 DEF Destroy
    <2> QED
      BY <2>1, <2>2, <2>3, <2>4
  <1>2. ~t.hasName /\ k \notin Resolvable /\ crashed' = k
        /\ UNCHANGED <<timer, memory, start>>
    BY <1>1 DEF Crash
  <1>3. k \in Nameless
    BY <1>1, <1>2 DEF Inv, HasNames, Nameless
  <1>4. TypeOK' /\ OwnBlocks' /\ LabelOwn' /\ HasNames'
    BY <1>2 DEF Inv, TypeOK, OwnBlocks, LabelOwn, HasNames
  <1>5. CrashesOverNameless'
    BY <1>2, <1>3 DEF Inv, CrashesOverNameless, Nameless
  <1> QED
    BY <1>2, <1>4, <1>5 DEF Inv

\* Replacing the timer of one task by one of the same name keeps the
\* invariant and the parents of all others.
LEMMA TimerReplaced ==
    ASSUME Inv, NEW k \in Live, NEW n \in Timer,
           n.mName = memory[timer[k]].mName \/ n.mName = k,
           memory[timer[k]].hasName => n.hasName,
           timer' = timer, start' = start, crashed' = crashed,
           memory' = [memory EXCEPT ![timer[k]] = n]
    PROVE  /\ Inv'
           /\ \A j \in Tasks : j # k => ParentsOf(j)' = ParentsOf(j)
           /\ ParentsOf(k)' = SubSeq(n.mParents, 1, n.mParentCount)
           /\ Live' = Live
  <1>1. k \in Tasks /\ timer[k] \in Blocks
    BY DEF Live, Inv, TypeOK
  <1>2. TypeOK' /\ OwnBlocks'
    BY <1>1 DEF Inv, TypeOK, OwnBlocks
  <1>3. memory'[timer[k]] = n
    BY <1>1 DEF Inv, TypeOK
  <1>4. \A j \in Live : j # k => timer[j] # timer[k] /\ memory'[timer[j]] = memory[timer[j]]
    BY <1>1 DEF Inv, TypeOK, OwnBlocks, Live
  <1>5. LabelOwn' /\ HasNames' /\ CrashesOverNameless'
    BY <1>3, <1>4, TasksAssumption
    DEF Inv, LabelOwn, HasNames, CrashesOverNameless, Nameless, Live
  <1>6. Live' = Live
    BY DEF Live
  <1>7. \A j \in Tasks : j # k => ParentsOf(j)' = ParentsOf(j)
    BY <1>4, <1>6 DEF ParentsOf
  <1>8. ParentsOf(k)' = SubSeq(n.mParents, 1, n.mParentCount)
    BY <1>3, <1>6 DEF ParentsOf
  <1> QED
    BY <1>2, <1>5, <1>6, <1>7, <1>8 DEF Inv

\* What create does to the other tasks, and to its own.
LEMMA CreateStep ==
    ASSUME Inv, crashed = NULL, crashed' = NULL, NEW k \in Tasks, Create(k)
    PROVE  /\ Inv'
           /\ k \notin Live /\ Live' = Live \cup {k}
           /\ \A j \in Tasks : j # k => ParentsOf(j)' = ParentsOf(j)
           /\ \E s \in Inputs : ParentsOf(k)' = Parents!Cut(s, MAX_PARENTS)
  <1>1. PICK b \in {c \in Blocks : \A u \in Tasks : timer[u] # c},
             parents \in Inputs, scrambled \in Tasks \cup {Junk} :
          LET t == WithParents(NamedTimer(k, memory[b], scrambled), parents) IN
          /\ LabelReturns(k, t)
          /\ timer' = [timer EXCEPT ![k] = b]
          /\ memory' = [memory EXCEPT ![b] = Labelled(k, t)]
          /\ start' = [start EXCEPT ![k] = memory[b].mChildCount]
    BY NoCrash DEF Create
  <1> DEFINE n == Labelled(k, WithParents(NamedTimer(k, memory[b], scrambled), parents))
  <1>2. memory[b] \in Timer /\ b # NULL /\ b \in Blocks
    BY BlocksAssumption DEF Inv, TypeOK
  <1>3. /\ n \in Timer
        /\ k \in Named \cup Resolvable => n.mName = k /\ n.hasName
        /\ k \in Named \/ k \notin Symbolless
        /\ SubSeq(n.mParents, 1, n.mParentCount) = Parents!Cut(parents, MAX_PARENTS)
    BY <1>1, <1>2, CreatedTimer DEF LabelReturns
  <1>4. memory' = [memory EXCEPT ![b] = n]
    BY <1>1
  <1> HIDE DEF n
  <1>5. memory[b].mChildCount \in Counters
    BY <1>2 DEF Timer
  <1>6. TypeOK'
    BY <1>1, <1>2, <1>3, <1>4, <1>5 DEF Inv, TypeOK
  <1>7. timer'[k] = b /\ memory'[b] = n
    BY <1>1, <1>2, <1>4 DEF Inv, TypeOK
  <1>8. \A j \in Tasks : j # k => timer'[j] = timer[j] /\ timer[j] # b
    BY <1>1 DEF Inv, TypeOK
  <1>9. k \notin Live /\ Live' = Live \cup {k}
    BY <1>2, <1>7, <1>8 DEF Live, Create
  <1>10. \A j \in Tasks : j # k /\ timer[j] # NULL => memory'[timer[j]] = memory[timer[j]]
    BY <1>4, <1>8 DEF Inv, TypeOK
  <1>11. OwnBlocks'
    BY <1>7, <1>8 DEF Inv, OwnBlocks
  <1>12. LabelOwn' /\ HasNames'
    BY <1>3, <1>7, <1>8, <1>10, TasksAssumption DEF Inv, LabelOwn, HasNames
  <1>13. \A j \in Tasks : j # k => ParentsOf(j)' = ParentsOf(j)
    BY <1>8, <1>9, <1>10 DEF ParentsOf, Live
  <1>14. ParentsOf(k)' = Parents!Cut(parents, MAX_PARENTS)
    BY <1>3, <1>7, <1>9 DEF ParentsOf
  <1>15. CrashesOverNameless'
    BY <1>3, <1>8 DEF Inv, CrashesOverNameless, Nameless
  <1> QED
    BY <1>6, <1>9, <1>11, <1>12, <1>13, <1>14, <1>15 DEF Inv

LEMMA MentionStep ==
    ASSUME Inv, crashed = NULL, crashed' = NULL, NEW k \in Tasks, Mention(k)
    PROVE  Inv' /\ Live' = Live /\ \A j \in Tasks : ParentsOf(j)' = ParentsOf(j)
  <1> DEFINE t == memory[timer[k]]
  <1>1. k \in Live /\ t \in Timer
    BY DEF Mention, Live, Inv, TypeOK
  <1>2. Labelled(k, t) \in Timer
        /\ Labelled(k, t).mParents = t.mParents
        /\ Labelled(k, t).mParentCount = t.mParentCount
        /\ (Labelled(k, t).mName = t.mName \/ Labelled(k, t).mName = k)
        /\ (t.hasName => Labelled(k, t).hasName)
    BY <1>1, LabelledTimer
  <1>3. /\ memory' = [memory EXCEPT ![timer[k]] = Labelled(k, t)]
        /\ timer' = timer /\ start' = start /\ crashed' = crashed
    BY NoCrash DEF Mention
  <1>4. /\ Inv' /\ Live' = Live
        /\ \A j \in Tasks : j # k => ParentsOf(j)' = ParentsOf(j)
        /\ ParentsOf(k)' = SubSeq(Labelled(k, t).mParents, 1, Labelled(k, t).mParentCount)
    BY <1>1, <1>2, <1>3, TimerReplaced
  <1>5. ParentsOf(k) = SubSeq(t.mParents, 1, t.mParentCount)
    BY <1>1 DEF ParentsOf
  <1> QED
    BY <1>2, <1>4, <1>5

LEMMA AddParentsStep ==
    ASSUME Inv, crashed = NULL, crashed' = NULL, NEW k \in Tasks, AddParents(k)
    PROVE  /\ Inv'
           /\ k \in Live /\ Live' = Live
           /\ \A j \in Tasks : j # k => ParentsOf(j)' = ParentsOf(j)
           /\ \E s \in Inputs :
                 ParentsOf(k)' = Parents!Cut(ParentsOf(k) \o s, MAX_PARENTS)
  <1> DEFINE t == memory[timer[k]]
  <1>1. k \in Live /\ t \in Timer
    BY DEF AddParents, Live, Inv, TypeOK
  <1>2. PICK parents \in Inputs :
          LET merged == MergeSet(t.mParents, t.mParentCount, parents, MAX_PARENTS)
          IN  PrintTimer(k, [t EXCEPT !.mParents = merged.set, !.mParentCount = merged.count])
    BY DEF AddParents
  <1> DEFINE merged == MergeSet(t.mParents, t.mParentCount, parents, MAX_PARENTS)
             a == [t EXCEPT !.mParents = merged.set, !.mParentCount = merged.count]
             n == Labelled(k, a)
  <1>3. /\ a \in Timer
        /\ a.mName = t.mName /\ a.hasName = t.hasName
        /\ SubSeq(a.mParents, 1, a.mParentCount)
              = Parents!Cut(SubSeq(t.mParents, 1, t.mParentCount) \o parents, MAX_PARENTS)
    BY <1>1, ExtendedTimer
  <1>4. memory' = [memory EXCEPT ![timer[k]] = n]
        /\ timer' = timer /\ start' = start /\ crashed' = crashed
    BY <1>2, NoCrash
  <1> HIDE DEF a
  <1>5. /\ n \in Timer
        /\ n.mParents = a.mParents /\ n.mParentCount = a.mParentCount
        /\ n.mName = t.mName \/ n.mName = k
        /\ t.hasName => n.hasName
    BY <1>3, LabelledTimer
  <1> HIDE DEF n
  <1>6. /\ Inv' /\ Live' = Live
        /\ \A j \in Tasks : j # k => ParentsOf(j)' = ParentsOf(j)
        /\ ParentsOf(k)' = SubSeq(n.mParents, 1, n.mParentCount)
    BY <1>1, <1>4, <1>5, TimerReplaced
  <1>7. ParentsOf(k) = SubSeq(t.mParents, 1, t.mParentCount)
    BY <1>1 DEF ParentsOf
  <1> QED
    BY <1>1, <1>3, <1>5, <1>6, <1>7

LEMMA AddChildrenStep ==
    ASSUME Inv, crashed = NULL, crashed' = NULL, NEW k \in Tasks, AddChildren(k)
    PROVE  Inv' /\ Live' = Live /\ \A j \in Tasks : ParentsOf(j)' = ParentsOf(j)
  <1> DEFINE t == memory[timer[k]]
  <1>1. k \in Live /\ t \in Timer
    BY DEF AddChildren, Live, Inv, TypeOK
  <1>2. PICK children \in Inputs :
          LET merged == MergeSet(t.mChildren, t.mChildCount, children, MAX_CHILDREN)
          IN  PrintTimer(k, [t EXCEPT !.mChildren = merged.set, !.mChildCount = merged.count])
    BY DEF AddChildren
  <1> DEFINE merged == MergeSet(t.mChildren, t.mChildCount, children, MAX_CHILDREN)
             a == [t EXCEPT !.mChildren = merged.set, !.mChildCount = merged.count]
             n == Labelled(k, a)
  <1>3. /\ a \in Timer
        /\ a.mName = t.mName /\ a.hasName = t.hasName
        /\ a.mParents = t.mParents /\ a.mParentCount = t.mParentCount
    BY <1>1, WithChildrenTimer
  <1>4. memory' = [memory EXCEPT ![timer[k]] = n]
        /\ timer' = timer /\ start' = start /\ crashed' = crashed
    BY <1>2, NoCrash
  <1> HIDE DEF a
  <1>5. /\ n \in Timer
        /\ n.mParents = a.mParents /\ n.mParentCount = a.mParentCount
        /\ n.mName = t.mName \/ n.mName = k
        /\ t.hasName => n.hasName
    BY <1>3, LabelledTimer
  <1> HIDE DEF n
  <1>6. /\ Inv' /\ Live' = Live
        /\ \A j \in Tasks : j # k => ParentsOf(j)' = ParentsOf(j)
        /\ ParentsOf(k)' = SubSeq(n.mParents, 1, n.mParentCount)
    BY <1>1, <1>4, <1>5, TimerReplaced
  <1>7. ParentsOf(k) = SubSeq(t.mParents, 1, t.mParentCount)
    BY <1>1 DEF ParentsOf
  <1> QED
    BY <1>3, <1>5, <1>6, <1>7

LEMMA DestroyStep ==
    ASSUME Inv, NEW k \in Tasks, Destroy(k)
    PROVE  /\ Inv'
           /\ k \in Live /\ Live' = Live \ {k}
           /\ \A j \in Tasks : j # k => ParentsOf(j)' = ParentsOf(j)
           /\ ParentsOf(k)' = <<>>
  <1>1. /\ k \in Live
        /\ timer' = [timer EXCEPT ![k] = NULL]
        /\ start' = [start EXCEPT ![k] = 0]
        /\ memory' = memory /\ crashed' = crashed
    BY DEF Destroy, Live
  <1>2. timer'[k] = NULL /\ \A j \in Tasks : j # k => timer'[j] = timer[j]
    BY <1>1 DEF Inv, TypeOK
  <1>3. 0 \in Counters
    BY LimitsAssumption DEF Counters
  <1>4. TypeOK'
    BY <1>1, <1>3 DEF Inv, TypeOK
  <1>5. Live' = Live \ {k}
    BY <1>2 DEF Live
  <1>6. OwnBlocks' /\ LabelOwn' /\ HasNames' /\ CrashesOverNameless'
    BY <1>1, <1>2, TasksAssumption
    DEF Inv, OwnBlocks, LabelOwn, HasNames, CrashesOverNameless, Nameless
  <1>7. \A j \in Tasks : j # k => ParentsOf(j)' = ParentsOf(j)
    BY <1>1, <1>2, <1>5 DEF ParentsOf
  <1>8. ParentsOf(k)' = <<>>
    BY <1>5 DEF ParentsOf
  <1> QED
    BY <1>1, <1>4, <1>5, <1>6, <1>7, <1>8 DEF Inv

LEMMA NextInv == Inv /\ [Next]_vars => Inv'
  <1> SUFFICES ASSUME Inv, [Next]_vars PROVE Inv'
    OBVIOUS
  <1>1. CASE Next /\ crashed' # NULL
    BY <1>1, CrashStep DEF Next
  <1>2. CASE Next /\ crashed' = NULL
    BY <1>2, CreateStep, MentionStep, AddParentsStep, AddChildrenStep, DestroyStep DEF Next
  <1>3. CASE UNCHANGED vars
    BY <1>3 DEF vars, Inv, TypeOK, OwnBlocks, LabelOwn, HasNames, CrashesOverNameless
  <1> QED
    BY <1>1, <1>2, <1>3

\* The state is well typed, so that no array is written behind its end, no
\* block of memory serves two timers, and every task that has a name or a
\* symbol keeps its own, whatever the memory of its timer held before.
THEOREM TimersAreSound == Spec => [](TypeOK /\ OwnBlocks /\ LabelOwn)
  <1>1. Spec => []Inv
    BY InitInv, NextInv, PTL DEF Spec
  <1> QED
    BY <1>1, PTL DEF Inv

\* The tool crashes over nothing but tasks that have neither name nor symbol,
\* whatever the memory of their timers held; of those, one that dladdr finds
\* an object for and no symbol has no timer, as create does not return.
THEOREM NamesAreSafe == Spec => []CrashesOverNameless
  <1>1. Spec => []Inv
    BY InitInv, NextInv, PTL DEF Spec
  <1> QED
    BY <1>1, PTL DEF Inv

\* The types alone: no array is written behind its end, also where create
\* left the number of its elements as malloc returned it.
THEOREM TypeCorrect == Spec => []TypeOK
  BY TimersAreSound, PTL

(***************************************************************************)
(* The parents of the tasks implement bounded lists.                       *)
(***************************************************************************)

\* The lists that the refinement is about.
Lists == [k \in Tasks |-> ParentsOf(k)]

LEMMA ListChanges ==
    ASSUME NEW k \in Tasks, NEW s, ParentsOf(k)' = s,
           \A j \in Tasks : j # k => ParentsOf(j)' = ParentsOf(j)
    PROVE  Lists' = [Lists EXCEPT ![k] = s]
  <1>1. \A j \in Tasks : ParentsOf(j)' = IF j = k THEN s ELSE ParentsOf(j)
    OBVIOUS
  <1>2. Lists' = [j \in Tasks |-> ParentsOf(j)']
    BY DEF Lists
  <1>3. [Lists EXCEPT ![k] = s] = [j \in Tasks |-> IF j = k THEN s ELSE ParentsOf(j)]
    BY DEF Lists
  <1> QED
    BY <1>1, <1>2, <1>3

LEMMA NoListChanges ==
    ASSUME \A j \in Tasks : ParentsOf(j)' = ParentsOf(j)
    PROVE  Lists' = Lists
  BY DEF Lists

LEMMA NextIsListStep ==
    ASSUME Inv, [Next]_vars
    PROVE  [Parents!Next]_(Parents!vars)
  <1> DEFINE room == [k \in Tasks |-> MAX_PARENTS]
  <1>1. ASSUME crashed = NULL, crashed' = NULL, NEW k \in Tasks, Create(k) PROVE Parents!Open(k)
    <2>1. /\ k \notin Live /\ Live' = Live \cup {k}
          /\ \A j \in Tasks : j # k => ParentsOf(j)' = ParentsOf(j)
      BY <1>1, CreateStep
    <2>2. PICK s \in Inputs : ParentsOf(k)' = Parents!Cut(s, MAX_PARENTS)
      BY <1>1, CreateStep
    <2>3. Lists' = [Lists EXCEPT ![k] = Parents!Cut(s, MAX_PARENTS)]
      BY <2>1, <2>2, ListChanges
    <2>4. room = [room EXCEPT ![k] = MAX_PARENTS]
      OBVIOUS
    <2> QED
      BY <2>1, <2>3, <2>4 DEF Parents!Open, Lists
  <1>2. ASSUME crashed = NULL, crashed' = NULL, NEW k \in Tasks, AddParents(k) PROVE Parents!Extend(k)
    <2>1. /\ k \in Live /\ Live' = Live
          /\ \A j \in Tasks : j # k => ParentsOf(j)' = ParentsOf(j)
      BY <1>2, AddParentsStep
    <2>2. PICK s \in Inputs : ParentsOf(k)' = Parents!Cut(ParentsOf(k) \o s, MAX_PARENTS)
      BY <1>2, AddParentsStep
    <2>3. Lists' = [Lists EXCEPT ![k] = Parents!Cut(ParentsOf(k) \o s, MAX_PARENTS)]
      BY <2>1, <2>2, ListChanges
    <2>4. Lists[k] = ParentsOf(k) /\ room[k] = MAX_PARENTS
      BY DEF Lists
    <2> QED
      BY <2>1, <2>3, <2>4 DEF Parents!Extend, Lists
  <1>3. ASSUME NEW k \in Tasks, Destroy(k) PROVE Parents!Close(k)
    <2>1. /\ k \in Live /\ Live' = Live \ {k}
          /\ \A j \in Tasks : j # k => ParentsOf(j)' = ParentsOf(j)
          /\ ParentsOf(k)' = <<>>
      BY <1>3, DestroyStep
    <2>2. Lists' = [Lists EXCEPT ![k] = <<>>]
      BY <2>1, ListChanges
    <2>3. room = [room EXCEPT ![k] = MAX_PARENTS]
      OBVIOUS
    <2> QED
      BY <2>1, <2>2, <2>3 DEF Parents!Close, Lists
  <1>4. ASSUME crashed = NULL, crashed' = NULL, NEW k \in Tasks, Mention(k) \/ AddChildren(k)
        PROVE  UNCHANGED Parents!vars
    <2>1. Live' = Live /\ \A j \in Tasks : ParentsOf(j)' = ParentsOf(j)
      BY <1>4, MentionStep, AddChildrenStep
    <2>2. Lists' = Lists
      BY <2>1, NoListChanges
    <2> QED
      BY <2>1, <2>2 DEF Parents!vars, Lists
  <1>5. CASE UNCHANGED vars
    <2>1. Live' = Live /\ \A j \in Tasks : ParentsOf(j)' = ParentsOf(j)
      BY <1>5 DEF vars, Live, ParentsOf
    <2>2. Lists' = Lists
      BY <2>1, NoListChanges
    <2> QED
      BY <2>1, <2>2 DEF Parents!vars, Lists
  <1>6. CASE Next /\ crashed' # NULL
    <2>1. UNCHANGED <<timer, memory, start>>
      BY <1>6, CrashStep DEF Next
    <2>2. Live' = Live /\ \A j \in Tasks : ParentsOf(j)' = ParentsOf(j)
      BY <2>1 DEF Live, ParentsOf
    <2>3. Lists' = Lists
      BY <2>2, NoListChanges
    <2> QED
      BY <2>2, <2>3 DEF Parents!vars, Lists
  <1> QED
    BY <1>1, <1>2, <1>3, <1>4, <1>5, <1>6 DEF Next, Parents!Next

\* The parents of a task are those given to create and to add_parents, in
\* that order, up to the limit, whatever memory its timer was given and
\* whatever happens to other tasks.
THEOREM ParentsAreKept == Spec => ParentsSpec
  <1>1. Init => Parents!Init
    BY DEF Init, Parents!Init, Live, ParentsOf
  <1>2. Inv /\ [Next]_vars => [Parents!Next]_(Parents!vars)
    BY NextIsListStep
  <1>3. Spec => []Inv
    BY InitInv, NextInv, PTL DEF Spec
  <1> QED
    BY <1>1, <1>2, <1>3, PTL DEF Spec, ParentsSpec, Parents!Spec

(***************************************************************************)
(* The children of the tasks implement bounded lists, behind as many       *)
(* elements as the memory of the timer happened to count.                  *)
(***************************************************************************)

\* How much room the children of a task have.
Room(k) == IF start[k] > MAX_CHILDREN THEN 0 ELSE MAX_CHILDREN - start[k]

\* The count starts at start[k] and stays within the limit, unless it was
\* over the limit from the start; then it stays there.
Counted(first, count) ==
    IF first > MAX_CHILDREN THEN count = first ELSE count \in first .. MAX_CHILDREN

StartInv == \A k \in Live : Counted(start[k], memory[timer[k]].mChildCount)

\* The list of children that an array holds after merge_set is the list it
\* held before with the new ones behind it, cut at the room there is.
LEMMA MergeSetExtends ==
    ASSUME NEW first \in Nat, NEW c \in Nat, Counted(first, c), NEW new \in Inputs,
           NEW set \in [1 .. MAX_CHILDREN -> GUIDs \cup {Junk}]
    PROVE  LET merged == MergeSet(set, c, new, MAX_CHILDREN) IN
           /\ Counted(first, merged.count)
           /\ SubSeq(merged.set, first + 1, merged.count)
                = Children!Cut(SubSeq(set, first + 1, c) \o new,
                      IF first > MAX_CHILDREN THEN 0 ELSE MAX_CHILDREN - first)
  <1> DEFINE max    == MAX_CHILDREN
             merged == MergeSet(set, c, new, max)
             G      == GUIDs \cup {Junk}
             old    == SubSeq(set, first + 1, c)
             room   == IF first > max THEN 0 ELSE max - first
  <1>1. max \in Nat /\ new \in Seq(GUIDs) /\ new \in Seq(G) /\ Len(new) \in Nat
    BY InputsAssumption, LimitsAssumption
  <1>2. /\ merged.set \in [1 .. max -> G] /\ merged.count \in Nat
        /\ c <= max => merged.count <= max
        /\ c > max => merged.count = c
    BY <1>1, MergeSetType
  <1>3. CASE first > max
    <2>1. c = first /\ merged.count = first /\ room = 0
      BY <1>1, <1>2, <1>3 DEF Counted
    <2>2. old = <<>> /\ SubSeq(merged.set, first + 1, merged.count) = <<>>
      BY <2>1 DEF old
    <2>3. Children!Cut(<<>> \o new, 0) = <<>>
      <3>1. <<>> \o new = new
        BY <1>1
      <3>2. (IF Len(new) < 0 THEN Len(new) ELSE 0) = 0
        BY <1>1
      <3>3. SubSeq(new, 1, 0) = <<>>
        BY <1>1
      <3> QED
        BY <3>1, <3>2, <3>3 DEF Children!Cut
    <2> QED
      BY <1>3, <2>1, <2>2, <2>3 DEF Counted
  <1>4. CASE ~(first > max)
    <2> DEFINE copied == IF Len(new) <= max - c THEN Len(new) ELSE max - c
               r      == c - first
               n      == r + copied
               all    == old \o new
    <2>1. /\ c \in first .. max /\ first <= max /\ room = max - first
          /\ copied \in Nat /\ copied <= Len(new) /\ c + copied <= max
          /\ r \in Nat /\ n \in Nat
      BY <1>1, <1>4 DEF Counted
    <2>2. merged.count = c + copied
          /\ \A i \in 1 .. max :
                merged.set[i] = IF i > c /\ i <= c + copied THEN new[i - c] ELSE set[i]
      <3>1. (IF c >= max THEN 0 ELSE max - c) = max - c
        BY <1>1, <2>1
      <3>2. DOMAIN set \cup (c + 1 .. c + copied) = 1 .. max
        BY <1>1, <2>1
      <3> HIDE DEF copied
      <3>3. merged = [set   |-> [i \in 1 .. max |->
                                   IF i > c /\ i <= c + copied THEN new[i - c] ELSE set[i]],
                      count |-> c + copied]
        BY <3>1, <3>2 DEF MergeSet, copied
      <3> HIDE DEF merged
      <3> QED
        BY <3>3
    <2>3. old \in Seq(G) /\ Len(old) = r /\ \A i \in 1 .. r : old[i] = set[first + i]
      <3>1. \A i \in first + 1 .. c : set[i] \in G
        BY <1>1, <2>1
      <3>2. first + 1 \in Int /\ c \in Int
        BY <2>1
      <3>3. /\ old \in Seq(G)
            /\ Len(old) = IF first + 1 <= c THEN c - (first + 1) + 1 ELSE 0
            /\ \A i \in 1 .. c - (first + 1) + 1 : old[i] = set[first + 1 + i - 1]
        BY <3>1, <3>2, SubSeqProperties
      <3> QED
        BY <2>1, <3>3
    <2> HIDE DEF old, copied, merged
    <2>4. /\ all \in Seq(G) /\ Len(all) = r + Len(new)
          /\ \A i \in 1 .. r : all[i] = set[first + i]
          /\ \A i \in r + 1 .. r + Len(new) : all[i] = new[i - r]
      <3>1. old \in Seq(G) /\ new \in Seq(G) /\ r \in Nat /\ Len(old) = r
        BY <1>1, <2>1, <2>3
      <3> HIDE DEF r, G
      <3>2. /\ all \in Seq(G) /\ Len(all) = r + Len(new)
            /\ \A i \in 1 .. r + Len(new) :
                  all[i] = IF i <= r THEN old[i] ELSE new[i - r]
        BY <3>1, ConcatProperties
      <3>3. Len(new) \in Nat
        BY <3>1, LenProperties
      <3> HIDE DEF all
      <3>4. /\ \A i \in 1 .. r : all[i] = old[i]
            /\ \A i \in r + 1 .. r + Len(new) : all[i] = new[i - r]
        BY <3>1, <3>2, <3>3
      <3> QED
        BY <2>3, <3>2, <3>4
    <2> HIDE DEF all
    <2>5. Children!Cut(all, room) = SubSeq(all, 1, n)
      <3>1. (IF Len(all) < room THEN Len(all) ELSE room) = n
        BY <1>1, <2>1, <2>4 DEF copied
      <3> QED
        BY <3>1 DEF Children!Cut
    <2> DEFINE cut == SubSeq(all, 1, n)
               got == SubSeq(merged.set, first + 1, merged.count)
    <2>6. cut \in Seq(G) /\ Len(cut) = n /\ \A i \in 1 .. n : cut[i] = all[i]
      <3>1. n <= Len(all)
        BY <1>1, <2>1, <2>4
      <3>2. \A i \in 1 .. n : all[i] \in G
        BY <2>1, <2>4, <3>1
      <3> HIDE DEF n, G
      <3>3. n \in Nat /\ 1 \in Int /\ n \in Int
        BY <2>1
      <3>4. /\ cut \in Seq(G)
            /\ Len(cut) = IF 1 <= n THEN n - 1 + 1 ELSE 0
            /\ \A i \in 1 .. n - 1 + 1 : cut[i] = all[1 + i - 1]
        BY <3>2, <3>3, SubSeqProperties
      <3> HIDE DEF cut
      <3> QED
        BY <3>3, <3>4
    <2>7. got \in Seq(G) /\ Len(got) = n /\ \A i \in 1 .. n : got[i] = merged.set[first + i]
      <3> DEFINE m == c + copied
      <3>1. \A i \in first + 1 .. m : merged.set[i] \in G
        BY <1>1, <1>2, <2>1
      <3>2. first + 1 \in Int /\ m \in Int
        BY <2>1
      <3> HIDE DEF m
      <3>3. /\ SubSeq(merged.set, first + 1, m) \in Seq(G)
            /\ Len(SubSeq(merged.set, first + 1, m))
                  = IF first + 1 <= m THEN m - (first + 1) + 1 ELSE 0
            /\ \A i \in 1 .. m - (first + 1) + 1 :
                  SubSeq(merged.set, first + 1, m)[i] = merged.set[first + 1 + i - 1]
        BY <3>1, <3>2, SubSeqProperties
      <3>4. m - (first + 1) + 1 = n /\ (first + 1 <= m \/ n = 0)
            /\ \A i \in 1 .. n : first + 1 + i - 1 = first + i
        BY <2>1 DEF m
      <3>5. got = SubSeq(merged.set, first + 1, m)
        BY <2>2 DEF m
      <3> HIDE DEF got, n
      <3> QED
        BY <3>3, <3>4, <3>5
    <2>8. \A i \in 1 .. n : cut[i] = got[i]
      <3> SUFFICES ASSUME NEW i \in 1 .. n PROVE all[i] = merged.set[first + i]
        BY <2>6, <2>7
      <3>1. first + i \in 1 .. max
        BY <1>1, <2>1
      <3>2. CASE i <= r
        <4>1. i \in 1 .. r /\ ~(first + i > c)
          BY <2>1, <3>2
        <4> QED
          BY <2>2, <2>4, <3>1, <4>1
      <3>3. CASE ~(i <= r)
        <4>1. /\ i \in r + 1 .. r + Len(new) /\ first + i > c /\ first + i <= c + copied
              /\ first + i - c = i - r
          BY <1>1, <2>1, <3>3
        <4> QED
          BY <2>2, <2>4, <3>1, <4>1
      <3> QED
        BY <3>2, <3>3
    <2> HIDE DEF cut, got
    <2>9. cut = got
      BY <2>6, <2>7, <2>8
    <2>10. Counted(first, merged.count)
      BY <1>4, <2>1, <2>2 DEF Counted
    <2> QED
      BY <2>5, <2>9, <2>10 DEF merged, all, old, cut, got
  <1> QED
    BY <1>3, <1>4


\* What the functions about names and parents leave of the children.
LEMMA SameChildren ==
    ASSUME NEW k \in Tasks, NEW t \in Timer, NEW scrambled, NEW parents
    PROVE  /\ Labelled(k, t).mChildren = t.mChildren
           /\ Labelled(k, t).mChildCount = t.mChildCount
           /\ NamedTimer(k, t, scrambled).mChildren = t.mChildren
           /\ NamedTimer(k, t, scrambled).mChildCount = t.mChildCount
           /\ WithParents(t, parents).mChildren = t.mChildren
           /\ WithParents(t, parents).mChildCount = t.mChildCount
  BY DEF Labelled, NamedTimer, WithParents, Timer

\* Replacing the timer of one task leaves the children of all others.
LEMMA ChildrenReplaced ==
    ASSUME Inv, StartInv, NEW k \in Live, NEW n \in Timer,
           Counted(start[k], n.mChildCount),
           timer' = timer, start' = start,
           memory' = [memory EXCEPT ![timer[k]] = n]
    PROVE  /\ StartInv'
           /\ Live' = Live
           /\ \A j \in Tasks : j # k => ChildrenOf(j)' = ChildrenOf(j)
           /\ ChildrenOf(k)' = SubSeq(n.mChildren, start[k] + 1, n.mChildCount)
  <1>1. k \in Tasks /\ timer[k] \in Blocks
    BY DEF Live, Inv, TypeOK
  <1>2. memory'[timer[k]] = n
    BY <1>1 DEF Inv, TypeOK
  <1>3. \A j \in Live : j # k => memory'[timer[j]] = memory[timer[j]]
    BY <1>1 DEF Inv, TypeOK, OwnBlocks, Live
  <1>4. Live' = Live
    BY DEF Live
  <1>5. StartInv'
    BY <1>2, <1>3, <1>4 DEF StartInv
  <1>6. \A j \in Tasks : j # k => ChildrenOf(j)' = ChildrenOf(j)
    BY <1>3, <1>4 DEF ChildrenOf
  <1>7. ChildrenOf(k)' = SubSeq(n.mChildren, start[k] + 1, n.mChildCount)
    BY <1>2, <1>4 DEF ChildrenOf
  <1> QED
    BY <1>4, <1>5, <1>6, <1>7

LEMMA CreateChildren ==
    ASSUME Inv, StartInv, crashed = NULL, crashed' = NULL, NEW k \in Tasks, Create(k)
    PROVE  /\ StartInv'
           /\ \A j \in Tasks : j # k => ChildrenOf(j)' = ChildrenOf(j) /\ start'[j] = start[j]
           /\ ChildrenOf(k)' = <<>>
  <1>1. PICK b \in {c \in Blocks : \A u \in Tasks : timer[u] # c},
             parents \in Inputs, scrambled \in Tasks \cup {Junk} :
          LET t == WithParents(NamedTimer(k, memory[b], scrambled), parents) IN
          /\ LabelReturns(k, t)
          /\ timer' = [timer EXCEPT ![k] = b]
          /\ memory' = [memory EXCEPT ![b] = Labelled(k, t)]
          /\ start' = [start EXCEPT ![k] = memory[b].mChildCount]
    BY NoCrash DEF Create
  <1> DEFINE a == NamedTimer(k, memory[b], scrambled)
             c == WithParents(a, parents)
             n == Labelled(k, c)
  <1>2. memory[b] \in Timer /\ b \in Blocks
    BY DEF Inv, TypeOK
  <1>3. n.mChildCount = memory[b].mChildCount
    <2>1. a \in Timer
      BY <1>2, NamedTimerType
    <2>2. c \in Timer
      BY <2>1, WithParentsTimer
    <2>3. a.mChildCount = memory[b].mChildCount
      BY <1>2, SameChildren
    <2> HIDE DEF a
    <2>4. c.mChildCount = a.mChildCount
      BY <2>1, SameChildren
    <2> HIDE DEF c
    <2> QED
      BY <2>2, <2>3, <2>4, SameChildren
  <1>4. memory' = [memory EXCEPT ![b] = n]
    BY <1>1
  <1>5. memory[b].mChildCount \in Nat
    BY <1>2, LimitsAssumption DEF Timer, Counters
  <1> HIDE DEF n
  <1>6. /\ k \notin Live /\ Live' = Live \cup {k}
        /\ timer'[k] = b /\ memory'[b] = n /\ start'[k] = memory[b].mChildCount
    BY <1>1, <1>2, <1>4, CreateStep DEF Inv, TypeOK
  <1>7. \A j \in Tasks : j # k =>
          /\ timer'[j] = timer[j] /\ start'[j] = start[j]
          /\ timer[j] # b
    BY <1>1 DEF Inv, TypeOK
  <1>8. \A j \in Live : j # k => memory'[timer[j]] = memory[timer[j]]
    BY <1>4, <1>7 DEF Inv, TypeOK, Live
  <1>9. Counted(start'[k], memory'[timer'[k]].mChildCount)
    BY <1>3, <1>5, <1>6, LimitsAssumption DEF Counted
  <1>10. StartInv'
    <2> SUFFICES ASSUME NEW j \in Live'
                 PROVE  Counted(start'[j], memory'[timer'[j]].mChildCount)
      BY DEF StartInv
    <2>1. CASE j = k
      BY <1>9, <2>1
    <2>2. CASE j # k
      <3>1. j \in Live /\ j \in Tasks
        BY <1>6, <2>2 DEF Live
      <3> QED
        BY <1>7, <1>8, <2>2, <3>1 DEF StartInv
    <2> QED
      BY <2>1, <2>2
  <1>11. \A j \in Tasks : j # k => ChildrenOf(j)' = ChildrenOf(j)
    BY <1>6, <1>7, <1>8 DEF ChildrenOf
  <1>12. ChildrenOf(k)' = <<>>
    <2>1. ChildrenOf(k)' = SubSeq(n.mChildren, n.mChildCount + 1, n.mChildCount)
      BY <1>3, <1>6 DEF ChildrenOf
    <2> QED
      BY <1>3, <1>5, <2>1
  <1> QED
    BY <1>7, <1>10, <1>11, <1>12

LEMMA MentionChildren ==
    ASSUME Inv, StartInv, crashed = NULL, crashed' = NULL, NEW k \in Tasks, Mention(k)
    PROVE  StartInv' /\ start' = start /\ \A j \in Tasks : ChildrenOf(j)' = ChildrenOf(j)
  <1> DEFINE t == memory[timer[k]]
             n == Labelled(k, t)
  <1>1. k \in Live /\ t \in Timer
    BY DEF Mention, Live, Inv, TypeOK
  <1>2. n \in Timer /\ n.mChildren = t.mChildren /\ n.mChildCount = t.mChildCount
    BY <1>1, LabelledTimer, SameChildren
  <1>3. /\ memory' = [memory EXCEPT ![timer[k]] = n]
        /\ timer' = timer /\ start' = start
    BY NoCrash DEF Mention
  <1> HIDE DEF n
  <1>4. Counted(start[k], n.mChildCount)
    BY <1>1, <1>2 DEF StartInv
  <1>5. /\ StartInv'
        /\ \A j \in Tasks : j # k => ChildrenOf(j)' = ChildrenOf(j)
        /\ ChildrenOf(k)' = SubSeq(n.mChildren, start[k] + 1, n.mChildCount)
    BY <1>1, <1>2, <1>3, <1>4, ChildrenReplaced
  <1>6. ChildrenOf(k) = SubSeq(t.mChildren, start[k] + 1, t.mChildCount)
    BY <1>1 DEF ChildrenOf
  <1> QED
    BY <1>2, <1>3, <1>5, <1>6

LEMMA AddParentsChildren ==
    ASSUME Inv, StartInv, crashed = NULL, crashed' = NULL, NEW k \in Tasks, AddParents(k)
    PROVE  StartInv' /\ start' = start /\ \A j \in Tasks : ChildrenOf(j)' = ChildrenOf(j)
  <1> DEFINE t == memory[timer[k]]
  <1>1. k \in Live /\ t \in Timer
    BY DEF AddParents, Live, Inv, TypeOK
  <1>2. PICK parents \in Inputs :
          LET merged == MergeSet(t.mParents, t.mParentCount, parents, MAX_PARENTS)
          IN  PrintTimer(k, [t EXCEPT !.mParents = merged.set, !.mParentCount = merged.count])
    BY DEF AddParents
  <1> DEFINE merged == MergeSet(t.mParents, t.mParentCount, parents, MAX_PARENTS)
             a == [t EXCEPT !.mParents = merged.set, !.mParentCount = merged.count]
             n == Labelled(k, a)
  <1>3. a \in Timer
    BY <1>1, ExtendedTimer
  <1>4. a.mChildren = t.mChildren /\ a.mChildCount = t.mChildCount
    BY <1>1 DEF Timer
  <1>5. memory' = [memory EXCEPT ![timer[k]] = n]
        /\ timer' = timer /\ start' = start /\ crashed' = crashed
    BY <1>2, NoCrash
  <1> HIDE DEF a
  <1>6. n \in Timer /\ n.mChildren = t.mChildren /\ n.mChildCount = t.mChildCount
    BY <1>3, <1>4, LabelledTimer, SameChildren
  <1> HIDE DEF n
  <1>7. Counted(start[k], n.mChildCount)
    BY <1>1, <1>6 DEF StartInv
  <1>8. /\ StartInv'
        /\ \A j \in Tasks : j # k => ChildrenOf(j)' = ChildrenOf(j)
        /\ ChildrenOf(k)' = SubSeq(n.mChildren, start[k] + 1, n.mChildCount)
    BY <1>1, <1>5, <1>6, <1>7, ChildrenReplaced
  <1>9. ChildrenOf(k) = SubSeq(t.mChildren, start[k] + 1, t.mChildCount)
    BY <1>1 DEF ChildrenOf
  <1> QED
    BY <1>5, <1>6, <1>8, <1>9

LEMMA AddChildrenChildren ==
    ASSUME Inv, StartInv, crashed = NULL, crashed' = NULL, NEW k \in Tasks, AddChildren(k)
    PROVE  /\ StartInv' /\ start' = start /\ k \in Live
           /\ \A j \in Tasks : j # k => ChildrenOf(j)' = ChildrenOf(j)
           /\ \E s \in Inputs : ChildrenOf(k)' = Children!Cut(ChildrenOf(k) \o s, Room(k))
  <1> DEFINE t == memory[timer[k]]
  <1>1. k \in Live /\ t \in Timer
    BY DEF AddChildren, Live, Inv, TypeOK
  <1>2. PICK children \in Inputs :
          LET merged == MergeSet(t.mChildren, t.mChildCount, children, MAX_CHILDREN)
          IN  PrintTimer(k, [t EXCEPT !.mChildren = merged.set, !.mChildCount = merged.count])
    BY DEF AddChildren
  <1> DEFINE merged == MergeSet(t.mChildren, t.mChildCount, children, MAX_CHILDREN)
             a == [t EXCEPT !.mChildren = merged.set, !.mChildCount = merged.count]
             n == Labelled(k, a)
  <1>3. a \in Timer
    BY <1>1, WithChildrenTimer
  <1>4. /\ start[k] \in Nat /\ t.mChildCount \in Nat
        /\ t.mChildren \in [1 .. MAX_CHILDREN -> GUIDs \cup {Junk}]
        /\ Counted(start[k], t.mChildCount)
    BY <1>1, LimitsAssumption DEF Inv, TypeOK, Live, StartInv, Timer, Counters
  <1>5. /\ Counted(start[k], merged.count)
        /\ SubSeq(merged.set, start[k] + 1, merged.count)
             = Children!Cut(SubSeq(t.mChildren, start[k] + 1, t.mChildCount) \o children,
                            Room(k))
    BY <1>4, MergeSetExtends DEF Room
  <1>6. memory' = [memory EXCEPT ![timer[k]] = n]
        /\ timer' = timer /\ start' = start /\ crashed' = crashed
    BY <1>2, NoCrash
  <1> HIDE DEF merged
  <1>7. a.mChildren = merged.set /\ a.mChildCount = merged.count
    BY <1>1 DEF Timer
  <1> HIDE DEF a
  <1>8. n \in Timer /\ n.mChildren = merged.set /\ n.mChildCount = merged.count
    BY <1>3, <1>7, LabelledTimer, SameChildren
  <1> HIDE DEF n
  <1>9. /\ StartInv'
        /\ \A j \in Tasks : j # k => ChildrenOf(j)' = ChildrenOf(j)
        /\ ChildrenOf(k)' = SubSeq(n.mChildren, start[k] + 1, n.mChildCount)
    BY <1>1, <1>5, <1>6, <1>8, ChildrenReplaced
  <1>10. ChildrenOf(k) = SubSeq(t.mChildren, start[k] + 1, t.mChildCount)
    BY <1>1 DEF ChildrenOf
  <1> QED
    BY <1>1, <1>5, <1>6, <1>8, <1>9, <1>10

LEMMA DestroyChildren ==
    ASSUME Inv, StartInv, NEW k \in Tasks, Destroy(k)
    PROVE  /\ StartInv'
           /\ \A j \in Tasks : j # k => ChildrenOf(j)' = ChildrenOf(j) /\ start'[j] = start[j]
           /\ start'[k] = 0 /\ ChildrenOf(k)' = <<>>
  <1>1. /\ timer' = [timer EXCEPT ![k] = NULL]
        /\ start' = [start EXCEPT ![k] = 0]
        /\ memory' = memory
    BY DEF Destroy
  <1>2. /\ \A j \in Tasks : j # k => timer'[j] = timer[j] /\ start'[j] = start[j]
        /\ start'[k] = 0
    BY <1>1 DEF Inv, TypeOK
  <1>3. Live' = Live \ {k}
    BY DestroyStep
  <1>4. StartInv'
    BY <1>1, <1>2, <1>3 DEF StartInv, Live
  <1>5. \A j \in Tasks : j # k => ChildrenOf(j)' = ChildrenOf(j)
    BY <1>1, <1>2, <1>3 DEF ChildrenOf
  <1>6. ChildrenOf(k)' = <<>>
    BY <1>3 DEF ChildrenOf
  <1> QED
    BY <1>2, <1>4, <1>5, <1>6


\* The lists and the room that the refinement is about.
ChildLists == [k \in Tasks |-> ChildrenOf(k)]
ChildRooms == [k \in Tasks |-> Room(k)]

LEMMA ChildListChanges ==
    ASSUME NEW k \in Tasks, NEW s, ChildrenOf(k)' = s,
           \A j \in Tasks : j # k => ChildrenOf(j)' = ChildrenOf(j)
    PROVE  ChildLists' = [ChildLists EXCEPT ![k] = s]
  <1>1. \A j \in Tasks : ChildrenOf(j)' = IF j = k THEN s ELSE ChildrenOf(j)
    OBVIOUS
  <1>2. ChildLists' = [j \in Tasks |-> ChildrenOf(j)']
    BY DEF ChildLists
  <1>3. [ChildLists EXCEPT ![k] = s] = [j \in Tasks |-> IF j = k THEN s ELSE ChildrenOf(j)]
    BY DEF ChildLists
  <1> QED
    BY <1>1, <1>2, <1>3

LEMMA RoomChanges ==
    ASSUME TypeOK', NEW k \in Tasks, \A j \in Tasks : j # k => start'[j] = start[j]
    PROVE  /\ Room(k)' \in 0 .. MAX_CHILDREN
           /\ ChildRooms' = [ChildRooms EXCEPT ![k] = Room(k)']
  <1>1. start'[k] \in Nat
    BY LimitsAssumption DEF TypeOK, Counters
  <1>2. Room(k)' \in 0 .. MAX_CHILDREN
    BY <1>1, LimitsAssumption DEF Room
  <1>3. \A j \in Tasks : Room(j)' = IF j = k THEN Room(k)' ELSE Room(j)
    BY DEF Room
  <1>4. ChildRooms' = [j \in Tasks |-> Room(j)']
    BY DEF ChildRooms
  <1>5. [ChildRooms EXCEPT ![k] = Room(k)']
          = [j \in Tasks |-> IF j = k THEN Room(k)' ELSE Room(j)]
    BY DEF ChildRooms
  <1> QED
    BY <1>2, <1>3, <1>4, <1>5

LEMMA NothingChanges ==
    ASSUME start' = start, \A j \in Tasks : ChildrenOf(j)' = ChildrenOf(j)
    PROVE  ChildLists' = ChildLists /\ ChildRooms' = ChildRooms
  BY DEF ChildLists, ChildRooms, Room

LEMMA NextIsChildStep ==
    ASSUME Inv, StartInv, [Next]_vars
    PROVE  StartInv' /\ [Children!Next]_(Children!vars)
  <1>1. Inv'
    BY NextInv
  <1>2. ASSUME crashed = NULL, crashed' = NULL, NEW k \in Tasks, Create(k) PROVE StartInv' /\ Children!Open(k)
    <2>1. k \notin Live /\ Live' = Live \cup {k}
      BY <1>2, CreateStep
    <2>2. /\ StartInv'
          /\ \A j \in Tasks : j # k => ChildrenOf(j)' = ChildrenOf(j) /\ start'[j] = start[j]
          /\ ChildrenOf(k)' = <<>>
      BY <1>2, CreateChildren
    <2>3. /\ Room(k)' \in 0 .. MAX_CHILDREN
          /\ ChildRooms' = [ChildRooms EXCEPT ![k] = Room(k)']
      BY <1>1, <2>2, RoomChanges DEF Inv
    <2>4. PICK n \in 0 .. MAX_CHILDREN : ChildRooms' = [ChildRooms EXCEPT ![k] = n]
      BY <2>3
    <2>5. Children!Cut(<<>>, n) = <<>>
      BY LimitsAssumption DEF Children!Cut
    <2>6. ChildLists' = [ChildLists EXCEPT ![k] = Children!Cut(<<>>, n)]
      BY <2>2, <2>5, ChildListChanges
    <2> QED
      BY <2>1, <2>2, <2>4, <2>6 DEF Children!Open, ChildLists, ChildRooms, Room
  <1>3. ASSUME crashed = NULL, crashed' = NULL, NEW k \in Tasks, AddChildren(k) PROVE StartInv' /\ Children!Extend(k)
    <2>1. Live' = Live
      BY <1>3, AddChildrenStep
    <2>2. /\ StartInv' /\ start' = start /\ k \in Live
          /\ \A j \in Tasks : j # k => ChildrenOf(j)' = ChildrenOf(j)
      BY <1>3, AddChildrenChildren
    <2>3. PICK s \in Inputs : ChildrenOf(k)' = Children!Cut(ChildrenOf(k) \o s, Room(k))
      BY <1>3, AddChildrenChildren
    <2>4. ChildLists' = [ChildLists EXCEPT ![k] = Children!Cut(ChildrenOf(k) \o s, Room(k))]
      BY <2>2, <2>3, ChildListChanges
    <2>5. ChildLists[k] = ChildrenOf(k) /\ ChildRooms[k] = Room(k)
      BY DEF ChildLists, ChildRooms
    <2>6. ChildRooms' = ChildRooms
      BY <2>2 DEF ChildRooms, Room
    <2> QED
      BY <2>1, <2>2, <2>4, <2>5, <2>6 DEF Children!Extend, ChildLists, ChildRooms, Room
  <1>4. ASSUME NEW k \in Tasks, Destroy(k) PROVE StartInv' /\ Children!Close(k)
    <2>1. k \in Live /\ Live' = Live \ {k}
      BY <1>4, DestroyStep
    <2>2. /\ StartInv'
          /\ \A j \in Tasks : j # k => ChildrenOf(j)' = ChildrenOf(j) /\ start'[j] = start[j]
          /\ ChildrenOf(k)' = <<>>
      BY <1>4, DestroyChildren
    <2>3. PICK n \in 0 .. MAX_CHILDREN : ChildRooms' = [ChildRooms EXCEPT ![k] = n]
      BY <1>1, <2>2, RoomChanges DEF Inv
    <2>4. ChildLists' = [ChildLists EXCEPT ![k] = <<>>]
      BY <2>2, ChildListChanges
    <2> QED
      BY <2>1, <2>2, <2>3, <2>4 DEF Children!Close, ChildLists, ChildRooms, Room
  <1>5. ASSUME crashed = NULL, crashed' = NULL, NEW k \in Tasks, Mention(k) \/ AddParents(k)
        PROVE  StartInv' /\ UNCHANGED Children!vars
    <2>1. Live' = Live
      BY <1>5, MentionStep, AddParentsStep
    <2>2. StartInv' /\ start' = start /\ \A j \in Tasks : ChildrenOf(j)' = ChildrenOf(j)
      BY <1>5, MentionChildren, AddParentsChildren
    <2>3. ChildLists' = ChildLists /\ ChildRooms' = ChildRooms
      BY <2>2, NothingChanges
    <2> QED
      BY <2>1, <2>2, <2>3 DEF Children!vars, ChildLists, ChildRooms, Room
  <1>6. CASE UNCHANGED vars
    <2>1. /\ Live' = Live /\ start' = start /\ StartInv'
          /\ \A j \in Tasks : ChildrenOf(j)' = ChildrenOf(j)
      BY <1>6 DEF vars, Live, ChildrenOf, StartInv
    <2>2. ChildLists' = ChildLists /\ ChildRooms' = ChildRooms
      BY <2>1, NothingChanges
    <2> QED
      BY <2>1, <2>2 DEF Children!vars, ChildLists, ChildRooms, Room
  <1>7. CASE Next /\ crashed' # NULL
    <2>1. UNCHANGED <<timer, memory, start>>
      BY <1>7, CrashStep DEF Next
    <2>2. /\ Live' = Live /\ start' = start /\ StartInv'
          /\ \A j \in Tasks : ChildrenOf(j)' = ChildrenOf(j)
      BY <2>1 DEF Live, ChildrenOf, StartInv
    <2>3. ChildLists' = ChildLists /\ ChildRooms' = ChildRooms
      BY <2>2, NothingChanges
    <2> QED
      BY <2>2, <2>3 DEF Children!vars, ChildLists, ChildRooms, Room
  <1> QED
    BY <1>2, <1>3, <1>4, <1>5, <1>6, <1>7 DEF Next, Children!Next

\* The children of a task are those given to add_children, in that order,
\* behind as many elements as the memory of its timer happened to count and
\* up to the limit, whatever happens to other tasks.  That create leaves the
\* count alone costs a task room, and it reads what the memory held there
\* before as its first children; those given to it are in order and whole.
THEOREM ChildrenAreKept == Spec => ChildrenSpec
  <1>1. Init => StartInv /\ Children!Init
    <2> SUFFICES ASSUME Init PROVE StartInv /\ Children!Init
      OBVIOUS
    <2>1. Live = {} /\ \A k \in Tasks : start[k] = 0
      BY DEF Init, Live
    <2>2. ChildLists = [k \in Tasks |-> <<>>]
      BY <2>1 DEF ChildLists, ChildrenOf
    <2>3. ChildRooms \in [Tasks -> 0 .. MAX_CHILDREN]
      BY <2>1, LimitsAssumption DEF ChildRooms, Room
    <2> QED
      BY <2>1, <2>2, <2>3 DEF StartInv, Children!Init, ChildLists, ChildRooms, Room
  <1>2. Inv /\ StartInv /\ [Next]_vars => StartInv' /\ [Children!Next]_(Children!vars)
    BY NextIsChildStep
  <1>3. Spec => []Inv
    BY InitInv, NextInv, PTL DEF Spec
  <1> QED
    BY <1>1, <1>2, <1>3, PTL DEF Spec, ChildrenSpec, Children!Spec
=============================================================================
