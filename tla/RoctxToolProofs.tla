-------------------------- MODULE RoctxToolProofs --------------------------
(***************************************************************************)
(* Proofs about RoctxTool, for any threads, tasks, transfers and commands. *)
(*                                                                         *)
(* Whatever the threads do, no range is orphaned.  If the calls about      *)
(* regions do not overlap, the stack is never empty when it is read and    *)
(* holds what shows.  If one thread makes them all and nests its regions,  *)
(* each stop ends its own region, and the tool keeps the promise of        *)
(* TraceView.                                                              *)
(***************************************************************************)
EXTENDS RoctxTool, FiniteSetTheorems, SequenceTheorems, TLAPS

RangeRecord == [of : Timers, open : BOOLEAN]

(***************************************************************************)
(* Timers and ranges.                                                      *)
(***************************************************************************)

\* A timer that knows a range has it open, and no other range of it is open.
RangesInv ==
    /\ ranges \in Seq(RangeRecord)
    /\ rangeId \in [Timers -> 0 .. Len(ranges)]
    /\ \A x \in Timers : rangeId[x] # 0 =>
          ranges[rangeId[x]].of = x /\ ranges[rangeId[x]].open
    /\ NoOrphanRange

LEMMA OpenIsHeld ==
    ASSUME RangesInv
    PROVE  /\ Open \subseteq Timers
           /\ \A x \in Timers : x \in Open <=> rangeId[x] # 0
  <1>1. /\ ranges \in Seq(RangeRecord) /\ DOMAIN ranges = 1 .. Len(ranges) /\ Len(ranges) \in Nat
        /\ \A x \in Timers : rangeId[x] \in 0 .. Len(ranges)
    BY LenProperties DEF RangesInv
  <1>2. \A i \in DOMAIN ranges : ranges[i] \in RangeRecord
    BY <1>1, ElementOfSeq
  <1>3. Open \subseteq Timers
    BY <1>2 DEF Open, RangeRecord
  <1>4. ASSUME NEW x \in Timers, x \in Open PROVE rangeId[x] # 0
    <2>1. PICK i \in DOMAIN ranges : ranges[i].open /\ ranges[i].of = x
      BY <1>4 DEF Open
    <2>2. rangeId[x] = i
      BY <2>1 DEF RangesInv, NoOrphanRange
    <2> QED
      BY <1>1, <2>1, <2>2
  <1>5. ASSUME NEW x \in Timers, rangeId[x] # 0 PROVE x \in Open
    <2>1. rangeId[x] \in DOMAIN ranges
      BY <1>1, <1>5
    <2>2. ranges[rangeId[x]].of = x /\ ranges[rangeId[x]].open
      BY <1>5 DEF RangesInv
    <2> QED
      BY <2>1, <2>2 DEF Open
  <1> QED
    BY <1>3, <1>4, <1>5

\* A timer at rest is given a range, a running one keeps its own.
LEMMA StartTimerStep ==
    ASSUME RangesInv, NEW x \in Timers, StartTimer(x)
    PROVE  RangesInv' /\ Open' = Open \cup {x}
  <1>1. /\ ranges \in Seq(RangeRecord) /\ DOMAIN ranges = 1 .. Len(ranges) /\ Len(ranges) \in Nat
        /\ rangeId \in [Timers -> 0 .. Len(ranges)]
    BY LenProperties DEF RangesInv
  <1>2. CASE rangeId[x] # 0
    <2>1. ranges' = ranges /\ rangeId' = rangeId
      BY <1>2 DEF StartTimer, rangeVars
    <2>2. RangesInv'
      BY <2>1 DEF RangesInv, NoOrphanRange
    <2>3. Open' = Open /\ x \in Open
      BY <1>2, <2>1, OpenIsHeld DEF Open
    <2> QED
      BY <2>2, <2>3
  <1>3. CASE rangeId[x] = 0
    <2> DEFINE n == Len(ranges) + 1
               new == [of |-> x, open |-> TRUE]
    <2>1. ranges' = Append(ranges, new) /\ rangeId' = [rangeId EXCEPT ![x] = n]
      BY <1>3 DEF StartTimer, RangeStart
    <2>2. new \in RangeRecord /\ new.of = x /\ new.open
      BY DEF RangeRecord
    <2> HIDE DEF new
    <2>3. /\ ranges' \in Seq(RangeRecord) /\ Len(ranges') = n
          /\ \A i \in 1 .. Len(ranges) : ranges'[i] = ranges[i]
          /\ ranges'[n] = new
      BY <1>1, <2>1, <2>2, AppendProperties
    <2>4. DOMAIN ranges' = DOMAIN ranges \cup {n} /\ n \notin DOMAIN ranges /\ n \in Nat \ {0}
      <3>1. DOMAIN ranges' = 1 .. n
        BY <2>3, LenProperties
      <3> QED
        BY <1>1, <3>1
    <2>5. /\ rangeId'[x] = n
          /\ \A y \in Timers : y # x => rangeId'[y] = rangeId[y]
      BY <1>1, <2>1
    <2>6. rangeId' \in [Timers -> 0 .. Len(ranges')]
      <3>1. n \in 0 .. n /\ 0 .. Len(ranges) \subseteq 0 .. n
        BY <1>1
      <3>2. rangeId \in [Timers -> 0 .. n]
        BY <1>1, <3>1
      <3> HIDE DEF n
      <3> QED
        BY <2>1, <2>3, <3>1, <3>2
    <2>7. \A y \in Timers : rangeId[y] # 0 =>
             rangeId[y] \in DOMAIN ranges /\ ranges'[rangeId[y]] = ranges[rangeId[y]]
      BY <1>1, <2>3
    <2> HIDE DEF n
    <2>8. \A y \in Timers : rangeId'[y] # 0 =>
             ranges'[rangeId'[y]].of = y /\ ranges'[rangeId'[y]].open
      BY <2>2, <2>3, <2>5, <2>7 DEF RangesInv
    <2>9. \A i \in DOMAIN ranges : ranges[i].open => ranges[i].of # x
      <3> SUFFICES ASSUME NEW i \in DOMAIN ranges, ranges[i].open, ranges[i].of = x
                   PROVE  FALSE
        OBVIOUS
      <3>1. rangeId[x] = i
        BY DEF RangesInv, NoOrphanRange
      <3> QED
        BY <1>1, <1>3, <3>1
    <2>10. \A i \in DOMAIN ranges : ranges[i].of \in Timers
      <3>1. \A i \in DOMAIN ranges : ranges[i] \in RangeRecord
        BY <1>1, ElementOfSeq
      <3> QED
        BY <3>1 DEF RangeRecord
    <2>11. NoOrphanRange'
      BY <1>1, <2>2, <2>3, <2>4, <2>5, <2>9, <2>10 DEF RangesInv, NoOrphanRange
    <2>12. Open' = Open \cup {x}
      BY <1>1, <2>2, <2>3, <2>4 DEF Open
    <2> QED
      BY <2>3, <2>6, <2>8, <2>11, <2>12 DEF RangesInv
  <1> QED
    BY <1>2, <1>3

\* The range of a timer is stopped.
LEMMA StopTimerStep ==
    ASSUME RangesInv, NEW x \in Timers, StopTimer(x)
    PROVE  RangesInv' /\ Open' = Open \ {x} /\ Len(ranges') = Len(ranges)
  <1>1. /\ ranges \in Seq(RangeRecord) /\ DOMAIN ranges = 1 .. Len(ranges) /\ Len(ranges) \in Nat
        /\ rangeId \in [Timers -> 0 .. Len(ranges)]
    BY LenProperties DEF RangesInv
  <1>2. CASE rangeId[x] = 0
    <2>1. ranges' = ranges /\ rangeId' = rangeId
      BY <1>2 DEF StopTimer, rangeVars
    <2>2. RangesInv'
      BY <2>1 DEF RangesInv, NoOrphanRange
    <2>3. Open' = Open /\ x \notin Open
      BY <1>2, <2>1, OpenIsHeld DEF Open
    <2> QED
      BY <2>1, <2>2, <2>3
  <1>3. CASE rangeId[x] # 0
    <2> DEFINE n == rangeId[x]
               closed == [ranges[n] EXCEPT !.open = FALSE]
    <2>1. n \in DOMAIN ranges /\ n > 0
      BY <1>1, <1>3
    <2>2. /\ ranges' = [ranges EXCEPT ![n] = closed]
          /\ rangeId' = [rangeId EXCEPT ![x] = 0]
      BY <2>1 DEF StopTimer, RangeStop
    <2>3. ranges[n].of = x /\ ranges[n].open
      BY <1>3 DEF RangesInv
    <2>4. closed \in RangeRecord /\ closed.of = x /\ ~closed.open
      <3>1. ranges[n] \in RangeRecord
        BY <1>1, <2>1, ElementOfSeq
      <3> QED
        BY <2>3, <3>1 DEF RangeRecord
    <2> HIDE DEF closed
    <2>5. /\ ranges' \in Seq(RangeRecord) /\ Len(ranges') = Len(ranges)
          /\ \A i \in 1 .. Len(ranges) : ranges'[i] = IF i = n THEN closed ELSE ranges[i]
      BY <1>1, <2>1, <2>2, <2>4, ExceptSeq
    <2>6. DOMAIN ranges' = DOMAIN ranges
      BY <1>1, <2>5, LenProperties
    <2>7. /\ rangeId'[x] = 0
          /\ \A y \in Timers : y # x => rangeId'[y] = rangeId[y]
          /\ rangeId' \in [Timers -> 0 .. Len(ranges')]
      BY <1>1, <2>2, <2>5
    <2>8. \A y \in Timers : rangeId'[y] # 0 =>
             ranges'[rangeId'[y]].of = y /\ ranges'[rangeId'[y]].open
      <3> TAKE y \in Timers
      <3> HAVE rangeId'[y] # 0
      <3>1. y # x /\ rangeId'[y] = rangeId[y]
        BY <2>7
      <3>2. ranges[rangeId[y]].of = y /\ ranges[rangeId[y]].open
        BY <3>1 DEF RangesInv
      <3>3. rangeId[y] \in 1 .. Len(ranges) /\ rangeId[y] # n
        BY <1>1, <2>3, <3>1, <3>2
      <3> QED
        BY <2>5, <3>1, <3>2, <3>3
    <2>9. NoOrphanRange'
      <3> SUFFICES ASSUME NEW i \in DOMAIN ranges', ranges'[i].open
                   PROVE  rangeId'[ranges'[i].of] = i
        BY DEF NoOrphanRange
      <3>1. i \in DOMAIN ranges /\ i # n /\ ranges'[i] = ranges[i]
        BY <1>1, <2>4, <2>5, <2>6
      <3>2. rangeId[ranges[i].of] = i
        BY <3>1 DEF RangesInv, NoOrphanRange
      <3>3. ranges[i].of \in Timers /\ ranges[i].of # x
        <4>1. ranges[i] \in RangeRecord
          BY <1>1, <3>1, ElementOfSeq
        <4> QED
          BY <3>1, <3>2, <4>1 DEF RangeRecord
      <3> QED
        BY <2>7, <3>1, <3>2, <3>3
    <2>10. Open' = Open \ {x}
      <3>1. \A i \in DOMAIN ranges : i # n /\ ranges[i].open => ranges[i].of # x
        BY DEF RangesInv, NoOrphanRange
      <3>2. \A i \in DOMAIN ranges : ranges'[i] = IF i = n THEN closed ELSE ranges[i]
        BY <1>1, <2>5
      <3> QED
        BY <2>1, <2>3, <2>4, <2>6, <3>1, <3>2 DEF Open
    <2> QED
      BY <2>5, <2>7, <2>8, <2>9, <2>10 DEF RangesInv
  <1> QED
    BY <1>2, <1>3

(***************************************************************************)
(* Sequences: the nest of a thread, and the stack.                         *)
(***************************************************************************)

LEMMA RemoveAtProperties ==
    ASSUME NEW S, NEW s \in Seq(S), NEW n \in DOMAIN s
    PROVE  /\ RemoveAt(s, n) \in Seq(S)
           /\ Len(RemoveAt(s, n)) = Len(s) - 1
           /\ DOMAIN RemoveAt(s, n) = 1 .. Len(s) - 1
           /\ \A m \in 1 .. Len(s) - 1 :
                 RemoveAt(s, n)[m] = IF m < n THEN s[m] ELSE s[m + 1]
  <1> DEFINE L == Len(s)
             a == SubSeq(s, 1, n - 1)
             b == SubSeq(s, n + 1, L)
  <1>1. L \in Nat /\ n \in 1 .. L /\ \A i \in 1 .. L : s[i] \in S
    BY LenProperties, ElementOfSeq
  <1>2. a \in Seq(S) /\ Len(a) = n - 1 /\ \A i \in 1 .. n - 1 : a[i] = s[i]
    <2>1. \A i \in 1 .. n - 1 : s[i] \in S
      BY <1>1
    <2>2. 1 \in Int /\ n - 1 \in Int
      BY <1>1
    <2>3. /\ a \in Seq(S)
          /\ Len(a) = IF 1 <= n - 1 THEN (n - 1) - 1 + 1 ELSE 0
          /\ \A i \in 1 .. (n - 1) - 1 + 1 : a[i] = s[1 + i - 1]
      BY <2>1, <2>2, SubSeqProperties
    <2> QED
      BY <1>1, <2>3
  <1>3. b \in Seq(S) /\ Len(b) = L - n /\ \A i \in 1 .. L - n : b[i] = s[n + i]
    <2>1. \A i \in n + 1 .. L : s[i] \in S
      BY <1>1
    <2>2. n + 1 \in Int /\ L \in Int
      BY <1>1
    <2>3. /\ b \in Seq(S)
          /\ Len(b) = IF n + 1 <= L THEN L - (n + 1) + 1 ELSE 0
          /\ \A i \in 1 .. L - (n + 1) + 1 : b[i] = s[n + 1 + i - 1]
      BY <2>1, <2>2, SubSeqProperties
    <2> QED
      BY <1>1, <2>3
  <1> HIDE DEF a, b, L
  <1>4. /\ a \o b \in Seq(S)
        /\ Len(a \o b) = Len(a) + Len(b)
        /\ \A i \in 1 .. Len(a) + Len(b) :
              (a \o b)[i] = IF i <= Len(a) THEN a[i] ELSE b[i - Len(a)]
    BY <1>2, <1>3, ConcatProperties
  <1>5. Len(a) + Len(b) = L - 1
    BY <1>1, <1>2, <1>3
  <1>6. \A m \in 1 .. L - 1 : (a \o b)[m] = IF m < n THEN s[m] ELSE s[m + 1]
    <2> TAKE m \in 1 .. L - 1
    <2>1. CASE m < n
      BY <1>1, <1>2, <1>4, <1>5, <2>1
    <2>2. CASE ~(m < n)
      <3>1. ~(m <= Len(a)) /\ m - Len(a) \in 1 .. L - n /\ n + (m - Len(a)) = m + 1
        BY <1>1, <1>2, <2>2
      <3> QED
        BY <1>3, <1>4, <1>5, <2>2, <3>1
    <2> QED
      BY <2>1, <2>2
  <1>7. RemoveAt(s, n) = a \o b
    BY DEF RemoveAt, a, b, L
  <1>8. DOMAIN (a \o b) = 1 .. L - 1
    BY <1>4, <1>5, LenProperties
  <1> QED
    BY <1>4, <1>5, <1>6, <1>7, <1>8 DEF L

\* What is on top, and what is under it.
LEMMA TopAndRest ==
    ASSUME NEW S, NEW s \in Seq(S), s # <<>>
    PROVE  /\ Front(s) \in Seq(S) /\ Len(Front(s)) = Len(s) - 1
           /\ DOMAIN Front(s) = 1 .. Len(s) - 1
           /\ \A m \in 1 .. Len(s) - 1 : Front(s)[m] = s[m]
           /\ Last(s) \in S /\ Last(s) = s[Len(s)] /\ Len(s) \in DOMAIN s
           /\ s = Append(Front(s), Last(s))
  <1>1. Len(s) \in Nat \ {0} /\ DOMAIN s = 1 .. Len(s) /\ \A m \in DOMAIN s : s[m] \in S
    BY EmptySeq, LenProperties, ElementOfSeq
  <1> DEFINE n == Len(s)
  <1>2. Last(s) = s[n] /\ Last(s) \in S /\ n \in DOMAIN s
    BY <1>1 DEF Last
  <1>3. /\ Front(s) \in Seq(S) /\ Len(Front(s)) = n - 1
        /\ \A m \in 1 .. n - 1 : Front(s)[m] = s[m]
    <2>1. \A m \in 1 .. n - 1 : s[m] \in S
      BY <1>1
    <2>2. 1 \in Int /\ n - 1 \in Int
      BY <1>1
    <2>3. /\ SubSeq(s, 1, n - 1) \in Seq(S)
          /\ Len(SubSeq(s, 1, n - 1)) = IF 1 <= n - 1 THEN (n - 1) - 1 + 1 ELSE 0
          /\ \A m \in 1 .. (n - 1) - 1 + 1 : SubSeq(s, 1, n - 1)[m] = s[1 + m - 1]
      BY <2>1, <2>2, SubSeqProperties
    <2> QED
      BY <1>1, <2>3 DEF Front
  <1>4. DOMAIN Front(s) = 1 .. n - 1
    BY <1>3, LenProperties
  <1>5. s = Append(Front(s), Last(s))
    <2> DEFINE f == Front(s)
               e == Last(s)
    <2> HIDE DEF f, e
    <2>1. /\ f \in Seq(S) /\ Len(f) = n - 1 /\ e \in S /\ e = s[n]
          /\ \A m \in 1 .. n - 1 : f[m] = s[m]
      BY <1>2, <1>3 DEF f, e
    <2>2. /\ Append(f, e) \in Seq(S) /\ Len(Append(f, e)) = Len(f) + 1
          /\ \A m \in 1 .. Len(f) : Append(f, e)[m] = f[m]
          /\ Append(f, e)[Len(f) + 1] = e
      BY <2>1, AppendProperties
    <2>3. Len(f) + 1 = n
      BY <1>1, <2>1
    <2>4. \A m \in 1 .. n : m = n \/ m \in 1 .. n - 1
      <3>1. \A q \in Nat \ {0} : \A m \in 1 .. q : m = q \/ m \in 1 .. q - 1
        OBVIOUS
      <3> QED
        BY <1>1, <3>1
    <2>5. \A m \in 1 .. n : s[m] = Append(f, e)[m]
      BY <2>1, <2>2, <2>3, <2>4
    <2>6. s = Append(f, e)
      BY <2>2, <2>3, <2>5, SeqEqual
    <2> QED
      BY <2>6 DEF f, e
  <1> QED
    BY <1>2, <1>3, <1>4, <1>5

\* The elements of a sequence that is added to.
LEMMA Appended ==
    ASSUME NEW S, NEW s \in Seq(S), NEW e \in S
    PROVE  /\ Append(s, e) \in Seq(S) /\ Len(Append(s, e)) = Len(s) + 1
           /\ DOMAIN Append(s, e) = DOMAIN s \cup {Len(s) + 1}
           /\ Len(s) + 1 \notin DOMAIN s
           /\ \A m \in DOMAIN s : Append(s, e)[m] = s[m]
           /\ Append(s, e)[Len(s) + 1] = e
           /\ ToSet(Append(s, e)) = ToSet(s) \cup {e}
  <1> DEFINE a == Append(s, e)
  <1>1. Len(s) \in Nat /\ DOMAIN s = 1 .. Len(s)
    BY LenProperties
  <1>2. /\ a \in Seq(S) /\ Len(a) = Len(s) + 1
        /\ \A m \in 1 .. Len(s) : a[m] = s[m]
        /\ a[Len(s) + 1] = e
    BY AppendProperties
  <1> HIDE DEF a
  <1>3. DOMAIN a = 1 .. Len(s) + 1
    BY <1>2, LenProperties
  <1>4. DOMAIN a = DOMAIN s \cup {Len(s) + 1} /\ Len(s) + 1 \notin DOMAIN s
    BY <1>1, <1>3
  <1>5. ToSet(a) = ToSet(s) \cup {e}
    BY <1>1, <1>2, <1>4 DEF ToSet
  <1> QED
    BY <1>1, <1>2, <1>4, <1>5 DEF a

(***************************************************************************)
(* What holds whatever the threads do.                                     *)
(***************************************************************************)

TaskTypeOK == alive \subseteq Tasks /\ running \subseteq alive \cup Regions

CallTypeOK ==
    /\ timerStack \in Seq(Regions)
    /\ pc \in [Threads -> {"idle", "push", "begin", "top", "pop", "end", "undefined"}]
    /\ timer \in [Threads -> Regions \cup {NULL}]
    /\ nest \in [Threads -> Seq(Regions)]
    /\ asked \in [Threads -> Regions \cup {NULL}]

LEMMA TypeParts == RangesInv => (TypeOK <=> TaskTypeOK /\ CallTypeOK)
  BY DEF TypeOK, TaskTypeOK, CallTypeOK, RangesInv, RangeRecord

\* A task shows while it runs, and a call that starts or ends a range has
\* the timer of a region.
TasksInv == \A k \in Tasks : k \in Open <=> k \in running
TimerInv == \A t \in Threads : pc[t] \in {"push", "begin", "pop", "end"} => timer[t] \in Regions

TimersInv == RangesInv /\ TaskTypeOK /\ CallTypeOK /\ TasksInv /\ TimerInv

\* A timer at rest is reset.
LEMMA ResetStep ==
    ASSUME RangesInv, NEW x \in Timers, x \notin Open,
           rangeId' = [rangeId EXCEPT ![x] = 0], ranges' = ranges
    PROVE  RangesInv' /\ Open' = Open
  <1>1. rangeId[x] = 0 /\ rangeId \in [Timers -> 0 .. Len(ranges)]
    BY OpenIsHeld DEF RangesInv
  <1>2. rangeId' = rangeId
    BY <1>1
  <1> QED
    BY <1>2 DEF RangesInv, NoOrphanRange, Open

LEMMA RangesKept ==
    ASSUME RangesInv, UNCHANGED rangeVars
    PROVE  RangesInv' /\ Open' = Open
  BY DEF RangesInv, NoOrphanRange, Open, rangeVars

LEMMA CallsKept ==
    ASSUME CallTypeOK, TimerInv, UNCHANGED callVars
    PROVE  CallTypeOK' /\ TimerInv'
  BY DEF CallTypeOK, TimerInv, callVars

\* The functions about a task.
LEMMA TaskStep ==
    ASSUME TimersInv, NEW k \in Tasks, Create(k) \/ Start(k) \/ Stop(k) \/ Destroy(k)
    PROVE  /\ TimersInv'
           /\ Open' \cap Regions = Open \cap Regions
           /\ running' \cap Regions = running \cap Regions
           /\ UNCHANGED callVars
           /\ \/ Open' = Open /\ running' = running
              \/ Open' = Open \cup {k} /\ running' = running \cup {k}
              \/ Open' = Open \ {k} /\ running' = running \ {k}
  <1>1. k \in Timers /\ k \notin Regions
    BY ActivityAssumption DEF Timers
  <1>2. UNCHANGED callVars
    BY DEF Create, Start, Stop, Destroy
  <1>3. CASE Create(k)
    <2>1. k \in Tasks \ alive /\ alive' = alive \cup {k} /\ running' = running
          /\ rangeId' = [rangeId EXCEPT ![k] = 0] /\ ranges' = ranges
      BY <1>3 DEF Create
    <2>2. k \notin Open
      BY <1>1, <2>1 DEF TimersInv, TaskTypeOK, TasksInv
    <2>3. RangesInv' /\ Open' = Open
      BY <1>1, <2>1, <2>2, ResetStep DEF TimersInv
    <2>4. TaskTypeOK' /\ TasksInv'
      BY <2>1, <2>3 DEF TimersInv, TaskTypeOK, TasksInv
    <2> QED
      BY <1>2, <2>1, <2>3, <2>4, CallsKept DEF TimersInv
  <1>4. CASE Start(k)
    <2>1. k \in alive /\ alive' = alive /\ running' = running \cup {k} /\ StartTimer(k)
      BY <1>4 DEF Start
    <2>2. RangesInv' /\ Open' = Open \cup {k}
      BY <1>1, <2>1, StartTimerStep DEF TimersInv
    <2>3. TaskTypeOK' /\ TasksInv'
      BY <2>1, <2>2 DEF TimersInv, TaskTypeOK, TasksInv
    <2> QED
      BY <1>1, <1>2, <2>1, <2>2, <2>3, CallsKept DEF TimersInv
  <1>5. CASE Stop(k)
    <2>1. k \in alive /\ alive' = alive /\ running' = running \ {k} /\ StopTimer(k)
      BY <1>5 DEF Stop
    <2>2. RangesInv' /\ Open' = Open \ {k}
      BY <1>1, <2>1, StopTimerStep DEF TimersInv
    <2>3. TaskTypeOK' /\ TasksInv'
      BY <2>1, <2>2 DEF TimersInv, TaskTypeOK, TasksInv
    <2> QED
      BY <1>1, <1>2, <2>1, <2>2, <2>3, CallsKept DEF TimersInv
  <1>6. CASE Destroy(k)
    <2>1. k \in alive \ running /\ alive' = alive \ {k} /\ running' = running
          /\ UNCHANGED rangeVars
      BY <1>6 DEF Destroy
    <2>2. RangesInv' /\ Open' = Open
      BY <2>1, RangesKept DEF TimersInv
    <2>3. TaskTypeOK' /\ TasksInv'
      BY <2>1, <2>2 DEF TimersInv, TaskTypeOK, TasksInv
    <2> QED
      BY <1>2, <2>1, <2>2, <2>3, CallsKept DEF TimersInv
  <1> QED
    BY <1>3, <1>4, <1>5, <1>6

\* A region starts: a new timer, at rest and on no stack yet.
LEMMA RegionStartStep ==
    ASSUME TimersInv, NEW t \in Threads, NEW r \in Regions, RegionStart(t, r)
    PROVE  /\ TimersInv' /\ Open' = Open
           /\ r \notin running /\ r \notin Open /\ running' = running \cup {r}
           /\ pc' = [pc EXCEPT ![t] = "push"] /\ timer' = [timer EXCEPT ![t] = r]
           /\ nest' = [nest EXCEPT ![t] = Append(nest[t], r)]
           /\ UNCHANGED <<timerStack, asked>>
  <1>1. /\ r \notin running /\ r \notin Open
        /\ pc' = [pc EXCEPT ![t] = "push"] /\ timer' = [timer EXCEPT ![t] = r]
        /\ rangeId' = [rangeId EXCEPT ![r] = 0] /\ ranges' = ranges
        /\ running' = running \cup {r} /\ alive' = alive
        /\ nest' = [nest EXCEPT ![t] = Append(nest[t], r)]
        /\ UNCHANGED <<timerStack, asked>>
    BY DEF RegionStart, Fresh, Open
  <1>2. RangesInv' /\ Open' = Open
    BY <1>1, ResetStep DEF TimersInv, Timers
  <1>3. TaskTypeOK' /\ TasksInv'
    BY <1>1, <1>2, ActivityAssumption DEF TimersInv, TaskTypeOK, TasksInv
  <1>4. CallTypeOK' /\ TimerInv'
    <2>1. nest[t] \in Seq(Regions)
      BY DEF TimersInv, CallTypeOK
    <2>2. Append(nest[t], r) \in Seq(Regions)
      BY <2>1, Appended
    <2> QED
      BY <1>1, <2>2 DEF TimersInv, CallTypeOK, TimerInv
  <1> QED
    BY <1>1, <1>2, <1>3, <1>4 DEF TimersInv

LEMMA PushStep ==
    ASSUME TimersInv, NEW t \in Threads, Push(t)
    PROVE  /\ TimersInv' /\ Open' = Open
           /\ pc[t] = "push" /\ pc' = [pc EXCEPT ![t] = "begin"]
           /\ timerStack' = Append(timerStack, timer[t]) /\ timer[t] \in Regions
           /\ UNCHANGED <<running, timer, nest, asked>>
  <1>1. /\ pc[t] = "push" /\ pc' = [pc EXCEPT ![t] = "begin"]
        /\ timerStack' = Append(timerStack, timer[t])
        /\ UNCHANGED <<alive, running, rangeVars, timer, nest, asked>>
    BY DEF Push, taskVars
  <1>2. timer[t] \in Regions /\ timerStack \in Seq(Regions)
    BY <1>1 DEF TimersInv, TimerInv, CallTypeOK
  <1>3. timerStack' \in Seq(Regions)
    BY <1>1, <1>2, Appended
  <1>4. RangesInv' /\ Open' = Open
    BY <1>1, RangesKept DEF TimersInv
  <1>5. TaskTypeOK' /\ TasksInv'
    BY <1>1, <1>4 DEF TimersInv, TaskTypeOK, TasksInv
  <1>6. CallTypeOK' /\ TimerInv'
    BY <1>1, <1>2, <1>3 DEF TimersInv, CallTypeOK, TimerInv
  <1> QED
    BY <1>1, <1>2, <1>4, <1>5, <1>6 DEF TimersInv

LEMMA BeginStep ==
    ASSUME TimersInv, NEW t \in Threads, Begin(t)
    PROVE  /\ TimersInv' /\ Open' = Open \cup {timer[t]}
           /\ pc[t] = "begin" /\ pc' = [pc EXCEPT ![t] = "idle"]
           /\ timer[t] \in Regions /\ timer' = [timer EXCEPT ![t] = NULL]
           /\ UNCHANGED <<running, timerStack, nest, asked>>
  <1>1. /\ pc[t] = "begin" /\ pc' = [pc EXCEPT ![t] = "idle"]
        /\ StartTimer(timer[t]) /\ timer' = [timer EXCEPT ![t] = NULL]
        /\ UNCHANGED <<alive, running, timerStack, nest, asked>>
    BY DEF Begin, taskVars
  <1>2. timer[t] \in Regions /\ timer[t] \in Timers /\ timer[t] \notin Tasks
    BY <1>1, ActivityAssumption DEF TimersInv, TimerInv, Timers
  <1>3. RangesInv' /\ Open' = Open \cup {timer[t]}
    BY <1>1, <1>2, StartTimerStep DEF TimersInv
  <1>4. TaskTypeOK' /\ TasksInv'
    BY <1>1, <1>2, <1>3 DEF TimersInv, TaskTypeOK, TasksInv
  <1>5. CallTypeOK' /\ TimerInv'
    BY <1>1 DEF TimersInv, CallTypeOK, TimerInv
  <1> QED
    BY <1>1, <1>2, <1>3, <1>4, <1>5 DEF TimersInv

LEMMA RegionStopStep ==
    ASSUME TimersInv, NEW t \in Threads, NEW r \in Regions, RegionStop(t, r)
    PROVE  /\ TimersInv' /\ Open' = Open /\ running' = running \ {r}
           /\ pc' = [pc EXCEPT ![t] = "top"]
           /\ \E n \in Stoppable(t) :
                 nest[t][n] = r /\ nest' = [nest EXCEPT ![t] = RemoveAt(nest[t], n)]
           /\ asked' = [asked EXCEPT ![t] = r]
           /\ UNCHANGED <<timerStack, timer>>
  <1>1. /\ running' = running \ {r} /\ pc' = [pc EXCEPT ![t] = "top"]
        /\ asked' = [asked EXCEPT ![t] = r]
        /\ UNCHANGED <<alive, rangeVars, timerStack, timer>>
    BY DEF RegionStop
  <1>2. PICK n \in Stoppable(t) :
           nest[t][n] = r /\ nest' = [nest EXCEPT ![t] = RemoveAt(nest[t], n)]
    BY DEF RegionStop
  <1>3. RemoveAt(nest[t], n) \in Seq(Regions)
    <2>1. nest[t] \in Seq(Regions) /\ n \in DOMAIN nest[t]
      BY <1>2 DEF Stoppable, TimersInv, CallTypeOK
    <2> QED
      BY <2>1, RemoveAtProperties
  <1>4. RangesInv' /\ Open' = Open
    BY <1>1, RangesKept DEF TimersInv
  <1>5. TaskTypeOK' /\ TasksInv'
    BY <1>1, <1>4, ActivityAssumption DEF TimersInv, TaskTypeOK, TasksInv
  <1>6. CallTypeOK' /\ TimerInv'
    BY <1>1, <1>2, <1>3 DEF TimersInv, CallTypeOK, TimerInv
  <1> QED
    BY <1>1, <1>2, <1>4, <1>5, <1>6 DEF TimersInv

LEMMA TopStep ==
    ASSUME TimersInv, NEW t \in Threads, Top(t)
    PROVE  /\ TimersInv' /\ Open' = Open /\ pc[t] = "top"
           /\ \/ timerStack = <<>> /\ pc' = [pc EXCEPT ![t] = "undefined"]
                 /\ timer' = timer
              \/ timerStack # <<>> /\ pc' = [pc EXCEPT ![t] = "pop"]
                 /\ timer' = [timer EXCEPT ![t] = Last(timerStack)]
           /\ UNCHANGED <<running, timerStack, nest, asked>>
  <1>1. /\ pc[t] = "top"
        /\ UNCHANGED <<alive, running, rangeVars, timerStack, nest, asked>>
        /\ \/ timerStack = <<>> /\ pc' = [pc EXCEPT ![t] = "undefined"]
              /\ timer' = timer
           \/ timerStack # <<>> /\ pc' = [pc EXCEPT ![t] = "pop"]
              /\ timer' = [timer EXCEPT ![t] = Last(timerStack)]
    BY DEF Top, taskVars
  <1>2. timerStack # <<>> => Last(timerStack) \in Regions
    BY TopAndRest DEF TimersInv, CallTypeOK
  <1>3. RangesInv' /\ Open' = Open
    BY <1>1, RangesKept DEF TimersInv
  <1>4. TaskTypeOK' /\ TasksInv'
    BY <1>1, <1>3 DEF TimersInv, TaskTypeOK, TasksInv
  <1>5. CallTypeOK'
    BY <1>1, <1>2 DEF TimersInv, CallTypeOK
  <1>6. TimerInv'
    <2> SUFFICES ASSUME NEW u \in Threads, pc'[u] \in {"push", "begin", "pop", "end"}
                 PROVE  timer'[u] \in Regions
      BY DEF TimerInv
    <2>1. /\ pc \in [Threads -> {"idle", "push", "begin", "top", "pop", "end", "undefined"}]
          /\ timer \in [Threads -> Regions \cup {NULL}]
      BY DEF TimersInv, CallTypeOK
    <2>2. CASE u = t
      <3>1. timerStack # <<>>
        BY <1>1, <2>1, <2>2
      <3>2. timer'[u] = Last(timerStack)
        BY <1>1, <2>1, <2>2, <3>1
      <3> QED
        BY <1>2, <3>1, <3>2
    <2>3. CASE u # t
      <3>1. pc'[u] = pc[u] /\ timer'[u] = timer[u]
        BY <1>1, <2>1, <2>3
      <3> QED
        BY <3>1 DEF TimersInv, TimerInv
    <2> QED
      BY <2>2, <2>3
  <1> QED
    BY <1>1, <1>3, <1>4, <1>5, <1>6 DEF TimersInv

LEMMA PopStep ==
    ASSUME TimersInv, NEW t \in Threads, Pop(t)
    PROVE  /\ TimersInv' /\ Open' = Open /\ pc[t] = "pop"
           /\ \/ timerStack = <<>> /\ pc' = [pc EXCEPT ![t] = "undefined"]
                 /\ timerStack' = timerStack
              \/ timerStack # <<>> /\ pc' = [pc EXCEPT ![t] = "end"]
                 /\ timerStack' = Front(timerStack)
           /\ UNCHANGED <<running, timer, nest, asked>>
  <1>1. /\ pc[t] = "pop"
        /\ UNCHANGED <<alive, running, rangeVars, timer, nest, asked>>
        /\ \/ timerStack = <<>> /\ pc' = [pc EXCEPT ![t] = "undefined"]
              /\ timerStack' = timerStack
           \/ timerStack # <<>> /\ pc' = [pc EXCEPT ![t] = "end"]
              /\ timerStack' = Front(timerStack)
    BY DEF Pop, taskVars
  <1>2. timerStack' \in Seq(Regions)
    <2>1. timerStack \in Seq(Regions)
      BY DEF TimersInv, CallTypeOK
    <2>2. timerStack # <<>> => Front(timerStack) \in Seq(Regions)
      BY <2>1, TopAndRest
    <2> QED
      BY <1>1, <2>1, <2>2
  <1>3. RangesInv' /\ Open' = Open
    BY <1>1, RangesKept DEF TimersInv
  <1>4. TaskTypeOK' /\ TasksInv'
    BY <1>1, <1>3 DEF TimersInv, TaskTypeOK, TasksInv
  <1>5. CallTypeOK' /\ TimerInv'
    BY <1>1, <1>2 DEF TimersInv, CallTypeOK, TimerInv
  <1> QED
    BY <1>1, <1>3, <1>4, <1>5 DEF TimersInv

LEMMA EndStep ==
    ASSUME TimersInv, NEW t \in Threads, End(t)
    PROVE  /\ TimersInv' /\ Open' = Open \ {timer[t]}
           /\ pc[t] = "end" /\ pc' = [pc EXCEPT ![t] = "idle"]
           /\ timer[t] \in Regions /\ timer' = [timer EXCEPT ![t] = NULL]
           /\ asked' = [asked EXCEPT ![t] = NULL]
           /\ UNCHANGED <<running, timerStack, nest>>
  <1>1. /\ pc[t] = "end" /\ pc' = [pc EXCEPT ![t] = "idle"]
        /\ StopTimer(timer[t]) /\ timer' = [timer EXCEPT ![t] = NULL]
        /\ asked' = [asked EXCEPT ![t] = NULL]
        /\ UNCHANGED <<alive, running, timerStack, nest>>
    BY DEF End, taskVars
  <1>2. timer[t] \in Regions /\ timer[t] \in Timers /\ timer[t] \notin Tasks
    BY <1>1, ActivityAssumption DEF TimersInv, TimerInv, Timers
  <1>3. RangesInv' /\ Open' = Open \ {timer[t]}
    BY <1>1, <1>2, StopTimerStep DEF TimersInv
  <1>4. TaskTypeOK' /\ TasksInv'
    BY <1>1, <1>2, <1>3 DEF TimersInv, TaskTypeOK, TasksInv
  <1>5. CallTypeOK' /\ TimerInv'
    BY <1>1 DEF TimersInv, CallTypeOK, TimerInv
  <1> QED
    BY <1>1, <1>2, <1>3, <1>4, <1>5 DEF TimersInv

\* The state before any call.
LEMMA InitTimers == Init => TimersInv /\ Open = {}
  <1> SUFFICES ASSUME Init PROVE TimersInv /\ Open = {}
    OBVIOUS
  <1>1. ranges = <<>> /\ ranges \in Seq(RangeRecord) /\ Len(ranges) = 0 /\ DOMAIN ranges = {}
    BY EmptySeq DEF Init
  <1>2. rangeId = [x \in Timers |-> 0] /\ RangesInv
    BY <1>1 DEF Init, RangesInv, NoOrphanRange
  <1>3. Open = {}
    BY <1>1 DEF Open
  <1>4. TaskTypeOK /\ TasksInv
    BY <1>3 DEF Init, TaskTypeOK, TasksInv
  <1>5. CallTypeOK /\ TimerInv
    BY EmptySeq DEF Init, CallTypeOK, TimerInv
  <1> QED
    BY <1>2, <1>3, <1>4, <1>5 DEF TimersInv

LEMMA StutterStep ==
    ASSUME TimersInv, UNCHANGED vars
    PROVE  TimersInv' /\ Open' = Open
  <1>1. UNCHANGED <<alive, running, rangeVars, callVars>>
    BY DEF vars, taskVars
  <1>2. RangesInv' /\ Open' = Open
    BY <1>1, RangesKept DEF TimersInv
  <1>3. TaskTypeOK' /\ TasksInv'
    BY <1>1, <1>2 DEF TimersInv, TaskTypeOK, TasksInv
  <1> QED
    BY <1>1, <1>2, <1>3, CallsKept DEF TimersInv

LEMMA TimersInvariance == Spec => []TimersInv
  <1>1. Init => TimersInv
    BY InitTimers
  <1>2. TimersInv /\ Next => TimersInv'
    BY TaskStep, RegionStartStep, PushStep, BeginStep, RegionStopStep, TopStep, PopStep,
       EndStep DEF Next, RegionStep
  <1>3. TimersInv /\ [Next]_vars => TimersInv'
    BY <1>2, StutterStep
  <1> QED
    BY <1>1, <1>3, PTL DEF Spec

\* The state keeps its type, whatever the threads do.
THEOREM TypeCorrect == Spec => []TypeOK
  <1>1. TimersInv => TypeOK
    BY TypeParts DEF TimersInv
  <1> QED
    BY <1>1, TimersInvariance, PTL

\* No range is left behind, however the calls of any number of threads
\* interleave, and whether or not they overlap, as long as a push, top or
\* pop of the stack is one step.
THEOREM NoRangeIsOrphaned == Spec => []NoOrphanRange
  <1>1. TimersInv => NoOrphanRange
    BY DEF TimersInv, RangesInv
  <1> QED
    BY <1>1, TimersInvariance, PTL


(***************************************************************************)
(* What holds when the calls about regions do not overlap: because the     *)
(* application sees to it, or because one thread makes them all.           *)
(***************************************************************************)

Alone == Serialised \/ \A t, u \in Threads : t = u

\* No two threads are in calls about regions.
OneCallInv == \A t, u \in Threads : pc[t] # "idle" /\ pc[u] # "idle" => t = u

\* A region that a thread may stop runs, and is in one nest, once.
NestInv ==
    /\ \A t \in Threads : \A n \in DOMAIN nest[t] : nest[t][n] \in running
    /\ \A t, u \in Threads : \A m \in DOMAIN nest[t], n \in DOMAIN nest[u] :
          nest[t][m] = nest[u][n] => t = u /\ m = n

\* No timer is on the stack twice.
StackIsInjective ==
    \A m, n \in DOMAIN timerStack : timerStack[m] = timerStack[n] => m = n

\* Between calls the stack holds what shows, a timer for each region that
\* runs; inside a call it is ahead or behind by the region of that call.
Shown == Open \cap Regions
Count == Cardinality(running \cap Regions)

StackInv ==
    /\ (\A t \in Threads : pc[t] = "idle") =>
          ToSet(timerStack) = Shown /\ Len(timerStack) = Count
    /\ \A t \in Threads :
          /\ pc[t] = "push" =>
                /\ ToSet(timerStack) = Shown /\ timer[t] \notin Shown
                /\ Len(timerStack) + 1 = Count
          /\ pc[t] = "begin" =>
                /\ ToSet(timerStack) = Shown \cup {timer[t]} /\ timer[t] \notin Shown
                /\ Len(timerStack) = Count
          /\ pc[t] \in {"top", "pop"} =>
                ToSet(timerStack) = Shown /\ Len(timerStack) = Count + 1
          /\ pc[t] = "pop" => timer[t] = Last(timerStack)
          /\ pc[t] = "end" =>
                /\ ToSet(timerStack) = Shown \ {timer[t]} /\ timer[t] \in Shown
                /\ Len(timerStack) = Count
          /\ pc[t] # "undefined"

SerialInv ==
    /\ TimersInv /\ OneCallInv /\ NestInv /\ StackIsInjective /\ StackInv
    /\ IsFiniteSet(running \cap Regions)

\* A call starts when no other is under way.
LEMMA StartsAlone ==
    ASSUME Alone, NEW t \in Threads, MayCall(t)
    PROVE  \A u \in Threads : pc[u] = "idle"
  BY DEF Alone, MayCall

\* The only call under way takes a step.
LEMMA CallStep ==
    ASSUME CallTypeOK, NEW t \in Threads, NEW v,
           \A u \in Threads : u # t => pc[u] = "idle",
           pc' = [pc EXCEPT ![t] = v]
    PROVE  /\ OneCallInv' /\ pc'[t] = v
           /\ \A u \in Threads : u # t => pc'[u] = "idle"
  BY DEF CallTypeOK, OneCallInv

\* What the stack is to be once thread t is in a call.
LEMMA StackInCall ==
    ASSUME NEW t \in Threads, \A u \in Threads : u # t => pc'[u] = "idle",
           pc'[t] \notin {"idle", "undefined"},
           pc'[t] = "push" =>
              /\ ToSet(timerStack') = Shown' /\ timer'[t] \notin Shown'
              /\ Len(timerStack') + 1 = Count',
           pc'[t] = "begin" =>
              /\ ToSet(timerStack') = Shown' \cup {timer'[t]} /\ timer'[t] \notin Shown'
              /\ Len(timerStack') = Count',
           pc'[t] \in {"top", "pop"} =>
              ToSet(timerStack') = Shown' /\ Len(timerStack') = Count' + 1,
           pc'[t] = "pop" => timer'[t] = Last(timerStack'),
           pc'[t] = "end" =>
              /\ ToSet(timerStack') = Shown' \ {timer'[t]} /\ timer'[t] \in Shown'
              /\ Len(timerStack') = Count'
    PROVE  StackInv'
  <1>1. ~ \A u \in Threads : pc'[u] = "idle"
    OBVIOUS
  <1>2. ASSUME NEW u \in Threads
        PROVE  /\ pc'[u] = "push" =>
                     /\ ToSet(timerStack') = Shown' /\ timer'[u] \notin Shown'
                     /\ Len(timerStack') + 1 = Count'
               /\ pc'[u] = "begin" =>
                     /\ ToSet(timerStack') = Shown' \cup {timer'[u]} /\ timer'[u] \notin Shown'
                     /\ Len(timerStack') = Count'
               /\ pc'[u] \in {"top", "pop"} =>
                     ToSet(timerStack') = Shown' /\ Len(timerStack') = Count' + 1
               /\ pc'[u] = "pop" => timer'[u] = Last(timerStack')
               /\ pc'[u] = "end" =>
                     /\ ToSet(timerStack') = Shown' \ {timer'[u]} /\ timer'[u] \in Shown'
                     /\ Len(timerStack') = Count'
               /\ pc'[u] # "undefined"
    <2>1. CASE u = t
      BY <2>1
    <2>2. CASE u # t
      <3>1. pc'[u] = "idle"
        BY <2>2
      <3> QED BY <3>1
    <2> QED BY <2>1, <2>2
  <1> QED BY <1>1, <1>2 DEF StackInv

\* The stack without its top.
LEMMA Popped ==
    ASSUME timerStack \in Seq(Regions), timerStack # <<>>, StackIsInjective,
           timerStack' = Front(timerStack)
    PROVE  /\ StackIsInjective'
           /\ ToSet(timerStack') = ToSet(timerStack) \ {Last(timerStack)}
           /\ Last(timerStack) \in ToSet(timerStack)
           /\ Len(timerStack') = Len(timerStack) - 1
  <1> DEFINE n == Len(timerStack)
             f == Front(timerStack)
  <1>1. /\ n \in Nat \ {0} /\ DOMAIN timerStack = 1 .. n
        /\ DOMAIN f = 1 .. n - 1 /\ Len(f) = n - 1
        /\ \A m \in 1 .. n - 1 : f[m] = timerStack[m]
        /\ Last(timerStack) = timerStack[n]
    BY TopAndRest, EmptySeq, LenProperties
  <1> HIDE DEF n, f
  <1>2. \A q \in Nat \ {0} :
           q \in 1 .. q /\ q \notin 1 .. q - 1 /\ 1 .. q = 1 .. q - 1 \cup {q}
    OBVIOUS
  <1>3. n \in 1 .. n /\ n \notin 1 .. n - 1 /\ 1 .. n = 1 .. n - 1 \cup {n}
    BY <1>1, <1>2
  <1>4. timerStack' = f
    BY DEF f
  <1>5. StackIsInjective'
    BY <1>1, <1>3, <1>4 DEF StackIsInjective
  <1>6. ToSet(f) = ToSet(timerStack) \ {Last(timerStack)}
    <2>1. ASSUME NEW m \in DOMAIN f PROVE f[m] \in ToSet(timerStack) \ {Last(timerStack)}
      BY <1>1, <1>3 DEF ToSet, StackIsInjective
    <2>2. ASSUME NEW m \in DOMAIN timerStack, timerStack[m] # Last(timerStack)
          PROVE  timerStack[m] \in ToSet(f)
      <3>1. m \in DOMAIN f /\ timerStack[m] = f[m]
        BY <1>1, <1>3, <2>2
      <3> QED BY <3>1 DEF ToSet
    <2> QED BY <2>1, <2>2 DEF ToSet
  <1>7. Last(timerStack) \in ToSet(timerStack)
    BY <1>1, <1>3 DEF ToSet
  <1> QED BY <1>1, <1>4, <1>5, <1>6, <1>7 DEF n, f

LEMMA SerialStart ==
    ASSUME SerialInv, Alone, NEW t \in Threads, NEW r \in Regions, RegionStart(t, r)
    PROVE  SerialInv'
  <1>1. \A u \in Threads : pc[u] = "idle"
    BY StartsAlone DEF RegionStart
  <1>2. /\ TimersInv' /\ Open' = Open
        /\ r \notin running /\ r \notin Open /\ running' = running \cup {r}
        /\ pc' = [pc EXCEPT ![t] = "push"] /\ timer' = [timer EXCEPT ![t] = r]
        /\ nest' = [nest EXCEPT ![t] = Append(nest[t], r)]
        /\ timerStack' = timerStack
    BY RegionStartStep DEF SerialInv
  <1>3. OneCallInv' /\ pc'[t] = "push" /\ \A u \in Threads : u # t => pc'[u] = "idle"
    BY <1>1, <1>2, CallStep DEF SerialInv, TimersInv
  <1>4. NestInv'
    <2> DEFINE a == Append(nest[t], r)
               n == Len(nest[t]) + 1
    <2>1. nest \in [Threads -> Seq(Regions)]
      BY DEF SerialInv, TimersInv, CallTypeOK
    <2>2. /\ DOMAIN a = DOMAIN nest[t] \cup {n} /\ n \notin DOMAIN nest[t]
          /\ \A m \in DOMAIN nest[t] : a[m] = nest[t][m]
          /\ a[n] = r
      BY <2>1, Appended
    <2> HIDE DEF a, n
    <2>3. /\ nest'[t] = a
          /\ \A u \in Threads : u # t => nest'[u] = nest[u]
      BY <1>2, <2>1 DEF a
    <2>4. NestInv
      BY DEF SerialInv
    <2>5. ASSUME NEW u \in Threads, NEW m \in DOMAIN nest'[u]
          PROVE  \/ u = t /\ m = n /\ nest'[u][m] = r
                 \/ m \in DOMAIN nest[u] /\ nest'[u][m] = nest[u][m] /\ nest[u][m] \in running
      BY <2>2, <2>3, <2>4 DEF NestInv
    <2>6. \A u \in Threads : \A m \in DOMAIN nest'[u] : nest'[u][m] \in running'
      BY <1>2, <2>5
    <2>7. ASSUME NEW u \in Threads, NEW v \in Threads,
                 NEW m \in DOMAIN nest'[u], NEW k \in DOMAIN nest'[v],
                 nest'[u][m] = nest'[v][k]
          PROVE  u = v /\ m = k
      <3>1. CASE u = t /\ m = n /\ nest'[u][m] = r
        BY <1>2, <2>5, <2>7, <3>1
      <3>2. CASE m \in DOMAIN nest[u] /\ nest'[u][m] = nest[u][m] /\ nest[u][m] \in running
        BY <1>2, <2>4, <2>5, <2>7, <3>2 DEF NestInv
      <3> QED BY <2>5, <3>1, <3>2
    <2> QED BY <2>6, <2>7 DEF NestInv
  <1>5. StackIsInjective'
    BY <1>2 DEF SerialInv, StackIsInjective
  <1>6. running' \cap Regions = (running \cap Regions) \cup {r}
    BY <1>2
  <1>7. IsFiniteSet(running' \cap Regions) /\ Count' = Count + 1
    BY <1>2, <1>6, FS_AddElement DEF SerialInv, Count
  <1>8. StackInv'
    <2>1. Shown' = Shown /\ r \notin Shown /\ timer'[t] = r
      BY <1>2 DEF Shown, SerialInv, TimersInv, CallTypeOK
    <2>2. ToSet(timerStack') = Shown' /\ Len(timerStack') = Count
      BY <1>1, <1>2, <2>1 DEF SerialInv, StackInv
    <2> QED BY <1>3, <1>7, <2>1, <2>2, StackInCall
  <1> QED BY <1>2, <1>3, <1>4, <1>5, <1>7, <1>8 DEF SerialInv

LEMMA SerialPush ==
    ASSUME SerialInv, NEW t \in Threads, Push(t)
    PROVE  SerialInv'
  <1>1. /\ TimersInv' /\ Open' = Open
        /\ pc[t] = "push" /\ pc' = [pc EXCEPT ![t] = "begin"]
        /\ timerStack' = Append(timerStack, timer[t]) /\ timer[t] \in Regions
        /\ UNCHANGED <<running, timer, nest>>
    BY PushStep DEF SerialInv
  <1>2. OneCallInv' /\ pc'[t] = "begin" /\ \A u \in Threads : u # t => pc'[u] = "idle"
    <2>1. \A u \in Threads : u # t => pc[u] = "idle"
      BY <1>1 DEF SerialInv, OneCallInv
    <2> QED BY <1>1, <2>1, CallStep DEF SerialInv, TimersInv
  <1>3. NestInv' /\ IsFiniteSet(running' \cap Regions) /\ Count' = Count /\ Shown' = Shown
    BY <1>1 DEF SerialInv, NestInv, Count, Shown
  <1>4. /\ ToSet(timerStack) = Shown /\ timer[t] \notin Shown /\ Len(timerStack) + 1 = Count
    BY <1>1 DEF SerialInv, StackInv
  <1> DEFINE n == Len(timerStack) + 1
  <1>5. /\ Len(timerStack') = n
        /\ DOMAIN timerStack' = DOMAIN timerStack \cup {n} /\ n \notin DOMAIN timerStack
        /\ \A m \in DOMAIN timerStack : timerStack'[m] = timerStack[m]
        /\ timerStack'[n] = timer[t]
        /\ ToSet(timerStack') = ToSet(timerStack) \cup {timer[t]}
    <2>1. timerStack \in Seq(Regions)
      BY DEF SerialInv, TimersInv, CallTypeOK
    <2> QED BY <1>1, <2>1, Appended
  <1>6. StackIsInjective'
    <2>1. \A m \in DOMAIN timerStack : timerStack[m] # timer[t]
      BY <1>4 DEF ToSet
    <2> HIDE DEF n
    <2> QED BY <1>5, <2>1 DEF SerialInv, StackIsInjective
  <1>7. StackInv'
    <2>1. ToSet(timerStack') = Shown' \cup {timer'[t]} /\ timer'[t] \notin Shown'
      BY <1>1, <1>3, <1>4, <1>5
    <2>2. Len(timerStack') = Count'
      BY <1>3, <1>4, <1>5
    <2> QED BY <1>2, <2>1, <2>2, StackInCall
  <1> QED BY <1>1, <1>2, <1>3, <1>6, <1>7 DEF SerialInv

LEMMA SerialBegin ==
    ASSUME SerialInv, NEW t \in Threads, Begin(t)
    PROVE  SerialInv'
  <1>1. /\ TimersInv' /\ Open' = Open \cup {timer[t]}
        /\ pc[t] = "begin" /\ pc' = [pc EXCEPT ![t] = "idle"]
        /\ timer[t] \in Regions /\ timer' = [timer EXCEPT ![t] = NULL]
        /\ UNCHANGED <<running, timerStack, nest>>
    BY BeginStep DEF SerialInv
  <1>2. OneCallInv' /\ pc'[t] = "idle" /\ \A u \in Threads : u # t => pc'[u] = "idle"
    <2>1. \A u \in Threads : u # t => pc[u] = "idle"
      BY <1>1 DEF SerialInv, OneCallInv
    <2> QED BY <1>1, <2>1, CallStep DEF SerialInv, TimersInv
  <1>3. NestInv' /\ StackIsInjective' /\ IsFiniteSet(running' \cap Regions) /\ Count' = Count
    BY <1>1 DEF SerialInv, NestInv, StackIsInjective, Count
  <1>4. ToSet(timerStack') = Shown' /\ Len(timerStack') = Count'
    <2>1. Shown' = Shown \cup {timer[t]}
      BY <1>1 DEF Shown
    <2>2. ToSet(timerStack) = Shown \cup {timer[t]} /\ Len(timerStack) = Count
      BY <1>1 DEF SerialInv, StackInv
    <2> QED BY <1>1, <1>3, <2>1, <2>2
  <1>5. \A u \in Threads : pc'[u] = "idle"
    BY <1>2
  <1>6. StackInv'
    BY <1>4, <1>5 DEF StackInv
  <1> QED BY <1>1, <1>2, <1>3, <1>6 DEF SerialInv

LEMMA SerialStop ==
    ASSUME SerialInv, Alone, NEW t \in Threads, NEW r \in Regions, RegionStop(t, r)
    PROVE  SerialInv'
  <1>1. \A u \in Threads : pc[u] = "idle"
    BY StartsAlone DEF RegionStop
  <1>2. /\ TimersInv' /\ Open' = Open /\ running' = running \ {r}
        /\ pc' = [pc EXCEPT ![t] = "top"]
        /\ UNCHANGED <<timerStack, timer>>
    BY RegionStopStep DEF SerialInv
  <1>3. PICK n \in DOMAIN nest[t] :
           nest[t][n] = r /\ nest' = [nest EXCEPT ![t] = RemoveAt(nest[t], n)]
    BY RegionStopStep DEF SerialInv, Stoppable
  <1>4. OneCallInv' /\ pc'[t] = "top" /\ \A u \in Threads : u # t => pc'[u] = "idle"
    BY <1>1, <1>2, CallStep DEF SerialInv, TimersInv
  <1>5. NestInv /\ r \in running
    BY <1>3 DEF SerialInv, NestInv
  <1>6. NestInv'
    <2> DEFINE s == nest[t]
               a == RemoveAt(s, n)
    <2>1. nest \in [Threads -> Seq(Regions)] /\ s \in Seq(Regions)
      BY DEF SerialInv, TimersInv, CallTypeOK
    <2>2. /\ DOMAIN a = 1 .. Len(s) - 1
          /\ \A m \in 1 .. Len(s) - 1 : a[m] = IF m < n THEN s[m] ELSE s[m + 1]
      BY <1>3, <2>1, RemoveAtProperties
    <2>3. DOMAIN s = 1 .. Len(s) /\ Len(s) \in Nat /\ n \in 1 .. Len(s)
      BY <1>3, <2>1
    <2> HIDE DEF a, s
    \* where an element of the nest was before
    <2> DEFINE old(m) == IF m < n THEN m ELSE m + 1
    <2>4. ASSUME NEW m \in DOMAIN a
          PROVE  old(m) \in DOMAIN s /\ old(m) # n /\ a[m] = s[old(m)]
      BY <2>2, <2>3
    <2>5. ASSUME NEW m \in DOMAIN a, NEW k \in DOMAIN a, old(m) = old(k)
          PROVE  m = k
      BY <2>2, <2>3, <2>5
    <2> HIDE DEF old
    <2>6. /\ nest'[t] = a
          /\ \A u \in Threads : u # t => nest'[u] = nest[u]
      BY <1>3, <2>1 DEF a, s
    <2> DEFINE was(u, m) == IF u = t THEN old(m) ELSE m
    <2>7. ASSUME NEW u \in Threads, NEW m \in DOMAIN nest'[u]
          PROVE  was(u, m) \in DOMAIN nest[u] /\ nest'[u][m] = nest[u][was(u, m)]
      BY <2>4, <2>6 DEF s
    <2>8. \A u \in Threads : \A m \in DOMAIN nest'[u] : nest'[u][m] \in running'
      <3> SUFFICES ASSUME NEW u \in Threads, NEW m \in DOMAIN nest'[u]
                   PROVE  nest[u][was(u, m)] \in running /\ nest[u][was(u, m)] # r
        BY <1>2, <2>7
      <3>1. nest[u][was(u, m)] \in running
        BY <1>5, <2>7 DEF NestInv
      <3>2. nest[u][was(u, m)] # r
        <4> SUFFICES ASSUME nest[u][was(u, m)] = nest[t][n] PROVE FALSE
          BY <1>3
        <4>1. u = t /\ was(u, m) = n
          BY <1>3, <1>5, <2>7 DEF NestInv
        <4> QED BY <2>4, <2>6, <4>1
      <3> QED BY <3>1, <3>2
    <2>9. ASSUME NEW u \in Threads, NEW v \in Threads,
                 NEW m \in DOMAIN nest'[u], NEW k \in DOMAIN nest'[v],
                 nest'[u][m] = nest'[v][k]
          PROVE  u = v /\ m = k
      <3>1. nest[u][was(u, m)] = nest[v][was(v, k)]
        BY <2>7, <2>9
      <3>2. u = v /\ was(u, m) = was(v, k)
        BY <1>5, <2>7, <3>1 DEF NestInv
      <3>3. CASE u = t
        BY <2>5, <2>6, <3>2, <3>3
      <3>4. CASE u # t
        BY <3>2, <3>4
      <3> QED BY <3>3, <3>4
    <2> QED BY <2>8, <2>9 DEF NestInv
  <1>7. StackIsInjective'
    BY <1>2 DEF SerialInv, StackIsInjective
  <1>8. running' \cap Regions = (running \cap Regions) \ {r} /\ r \in running \cap Regions
    BY <1>2, <1>5
  <1>9. IsFiniteSet(running' \cap Regions) /\ Count = Count' + 1
    <2>1. Count \in Nat /\ IsFiniteSet(running \cap Regions)
      BY FS_CardinalityType DEF SerialInv, Count
    <2>2. IsFiniteSet(running' \cap Regions) /\ Count' = Count - 1
      BY <1>8, <2>1, FS_RemoveElement DEF Count
    <2> QED BY <2>1, <2>2
  <1>10. StackInv'
    <2>1. ToSet(timerStack') = Shown' /\ Len(timerStack') = Count
      BY <1>1, <1>2 DEF SerialInv, StackInv, Shown
    <2> QED BY <1>4, <1>9, <2>1, StackInCall
  <1> QED BY <1>2, <1>4, <1>6, <1>7, <1>9, <1>10 DEF SerialInv

LEMMA SerialTop ==
    ASSUME SerialInv, NEW t \in Threads, Top(t)
    PROVE  SerialInv' /\ pc'[t] = "pop"
  <1>1. /\ TimersInv' /\ Open' = Open /\ pc[t] = "top"
        /\ UNCHANGED <<running, timerStack, nest>>
    BY TopStep DEF SerialInv
  <1>2. ToSet(timerStack) = Shown /\ Len(timerStack) = Count + 1
    BY <1>1 DEF SerialInv, StackInv
  <1>3. timerStack # <<>>
    <2>1. Count \in Nat
      BY FS_CardinalityType DEF SerialInv, Count
    <2> QED BY <1>2, <2>1, EmptySeq
  <1>4. pc' = [pc EXCEPT ![t] = "pop"] /\ timer' = [timer EXCEPT ![t] = Last(timerStack)]
    BY <1>3, TopStep DEF SerialInv
  <1>5. OneCallInv' /\ pc'[t] = "pop" /\ \A u \in Threads : u # t => pc'[u] = "idle"
    <2>1. \A u \in Threads : u # t => pc[u] = "idle"
      BY <1>1 DEF SerialInv, OneCallInv
    <2> QED BY <1>4, <2>1, CallStep DEF SerialInv, TimersInv
  <1>6. /\ NestInv' /\ StackIsInjective' /\ IsFiniteSet(running' \cap Regions)
        /\ Count' = Count /\ Shown' = Shown
    BY <1>1 DEF SerialInv, NestInv, StackIsInjective, Count, Shown
  <1>7. timer'[t] = Last(timerStack')
    BY <1>1, <1>4 DEF SerialInv, TimersInv, CallTypeOK
  <1>8. ToSet(timerStack') = Shown' /\ Len(timerStack') = Count' + 1
    BY <1>1, <1>2, <1>6
  <1>9. StackInv'
    BY <1>5, <1>7, <1>8, StackInCall
  <1> QED BY <1>1, <1>5, <1>6, <1>9 DEF SerialInv

LEMMA SerialPop ==
    ASSUME SerialInv, NEW t \in Threads, Pop(t)
    PROVE  SerialInv' /\ pc'[t] = "end"
  <1>1. /\ TimersInv' /\ Open' = Open /\ pc[t] = "pop"
        /\ UNCHANGED <<running, timer, nest>>
    BY PopStep DEF SerialInv
  <1>2. /\ ToSet(timerStack) = Shown /\ Len(timerStack) = Count + 1
        /\ timer[t] = Last(timerStack)
    BY <1>1 DEF SerialInv, StackInv
  <1>3. Count \in Nat
    BY FS_CardinalityType DEF SerialInv, Count
  <1>4. timerStack # <<>>
    BY <1>2, <1>3, EmptySeq
  <1>5. pc' = [pc EXCEPT ![t] = "end"] /\ timerStack' = Front(timerStack)
    BY <1>4, PopStep DEF SerialInv
  <1>6. OneCallInv' /\ pc'[t] = "end" /\ \A u \in Threads : u # t => pc'[u] = "idle"
    <2>1. \A u \in Threads : u # t => pc[u] = "idle"
      BY <1>1 DEF SerialInv, OneCallInv
    <2> QED BY <1>5, <2>1, CallStep DEF SerialInv, TimersInv
  <1>7. /\ NestInv' /\ IsFiniteSet(running' \cap Regions)
        /\ Count' = Count /\ Shown' = Shown
    BY <1>1 DEF SerialInv, NestInv, Count, Shown
  <1>8. /\ StackIsInjective'
        /\ ToSet(timerStack') = ToSet(timerStack) \ {Last(timerStack)}
        /\ Last(timerStack) \in ToSet(timerStack)
        /\ Len(timerStack') = Len(timerStack) - 1
    <2>1. timerStack \in Seq(Regions) /\ StackIsInjective
      BY DEF SerialInv, TimersInv, CallTypeOK
    <2> QED BY <1>4, <1>5, <2>1, Popped
  <1>9. ToSet(timerStack') = Shown' \ {timer'[t]} /\ timer'[t] \in Shown'
    BY <1>1, <1>2, <1>7, <1>8
  <1>10. Len(timerStack') = Count'
    BY <1>2, <1>3, <1>7, <1>8
  <1>11. StackInv'
    BY <1>6, <1>9, <1>10, StackInCall
  <1> QED BY <1>1, <1>6, <1>7, <1>8, <1>11 DEF SerialInv

LEMMA SerialEnd ==
    ASSUME SerialInv, NEW t \in Threads, End(t)
    PROVE  SerialInv'
  <1>1. /\ TimersInv' /\ Open' = Open \ {timer[t]}
        /\ pc[t] = "end" /\ pc' = [pc EXCEPT ![t] = "idle"]
        /\ timer[t] \in Regions /\ timer' = [timer EXCEPT ![t] = NULL]
        /\ UNCHANGED <<running, timerStack, nest>>
    BY EndStep DEF SerialInv
  <1>2. OneCallInv' /\ pc'[t] = "idle" /\ \A u \in Threads : u # t => pc'[u] = "idle"
    <2>1. \A u \in Threads : u # t => pc[u] = "idle"
      BY <1>1 DEF SerialInv, OneCallInv
    <2> QED BY <1>1, <2>1, CallStep DEF SerialInv, TimersInv
  <1>3. NestInv' /\ StackIsInjective' /\ IsFiniteSet(running' \cap Regions) /\ Count' = Count
    BY <1>1 DEF SerialInv, NestInv, StackIsInjective, Count
  <1>4. ToSet(timerStack') = Shown' /\ Len(timerStack') = Count'
    <2>1. Shown' = Shown \ {timer[t]}
      BY <1>1 DEF Shown
    <2>2. ToSet(timerStack) = Shown \ {timer[t]} /\ Len(timerStack) = Count
      BY <1>1 DEF SerialInv, StackInv
    <2> QED BY <1>1, <1>3, <2>1, <2>2
  <1>5. \A u \in Threads : pc'[u] = "idle"
    BY <1>2
  <1>6. StackInv'
    BY <1>4, <1>5 DEF StackInv
  <1> QED BY <1>1, <1>2, <1>3, <1>6 DEF SerialInv

\* A step that leaves the regions and the calls about them alone.
LEMMA SerialKept ==
    ASSUME SerialInv, TimersInv', UNCHANGED callVars,
           Open' \cap Regions = Open \cap Regions,
           running' \cap Regions = running \cap Regions
    PROVE  SerialInv'
  <1>1. UNCHANGED <<timerStack, pc, timer, nest>>
    BY DEF callVars
  <1>2. OneCallInv' /\ StackIsInjective'
    BY <1>1 DEF SerialInv, OneCallInv, StackIsInjective
  <1>3. NestInv'
    <2>1. \A t \in Threads : \A n \in DOMAIN nest[t] : nest[t][n] \in Regions
      BY DEF SerialInv, TimersInv, CallTypeOK
    <2> QED BY <1>1, <2>1 DEF SerialInv, NestInv
  <1>4. Shown' = Shown /\ Count' = Count /\ IsFiniteSet(running' \cap Regions)
    BY DEF SerialInv, Shown, Count
  <1>5. StackInv'
    BY <1>1, <1>4 DEF SerialInv, StackInv
  <1> QED BY <1>2, <1>3, <1>4, <1>5 DEF SerialInv

LEMMA InitSerial == Init => SerialInv
  <1> SUFFICES ASSUME Init PROVE SerialInv
    OBVIOUS
  <1>1. TimersInv /\ Open = {}
    BY InitTimers
  <1>2. /\ timerStack = <<>> /\ DOMAIN timerStack = {} /\ Len(timerStack) = 0
        /\ pc = [t \in Threads |-> "idle"]
        /\ \A t \in Threads : DOMAIN nest[t] = {}
        /\ running = {}
    BY DEF Init
  <1>3. OneCallInv /\ NestInv /\ StackIsInjective
    BY <1>2 DEF OneCallInv, NestInv, StackIsInjective
  <1>4. IsFiniteSet(running \cap Regions) /\ Count = 0
    <2>1. running \cap Regions = {}
      BY <1>2
    <2> QED BY <2>1, FS_EmptySet DEF Count
  <1>5. ToSet(timerStack) = {} /\ Shown = {}
    BY <1>1, <1>2 DEF ToSet, Shown
  <1>6. StackInv
    BY <1>2, <1>4, <1>5 DEF StackInv
  <1> QED BY <1>1, <1>3, <1>4, <1>6 DEF SerialInv

LEMMA SerialInvariance ==
    ASSUME Alone
    PROVE  Spec => []SerialInv
  <1>1. Init => SerialInv
    BY InitSerial
  <1>2. ASSUME SerialInv, Next PROVE SerialInv'
    <2>1. ASSUME NEW k \in Tasks, Create(k) \/ Start(k) \/ Stop(k) \/ Destroy(k)
          PROVE  SerialInv'
      BY <1>2, <2>1, TaskStep, SerialKept DEF SerialInv
    <2>2. ASSUME NEW t \in Threads, NEW r \in Regions, RegionStart(t, r) \/ RegionStop(t, r)
          PROVE  SerialInv'
      BY <1>2, <2>2, SerialStart, SerialStop
    <2>3. ASSUME NEW t \in Threads, RegionStep(t)
          PROVE  SerialInv'
      BY <1>2, <2>3, SerialPush, SerialBegin, SerialTop, SerialPop, SerialEnd DEF RegionStep
    <2> QED BY <1>2, <2>1, <2>2, <2>3 DEF Next
  <1>3. ASSUME SerialInv, UNCHANGED vars PROVE SerialInv'
    BY <1>3, StutterStep, SerialKept DEF SerialInv, vars, taskVars
  <1> QED BY <1>1, <1>2, <1>3, PTL DEF Spec

\* When the calls about regions do not overlap, no call reads or takes the
\* top of an empty stack, in whatever order the threads stop the regions.
THEOREM NeverUndefined ==
    ASSUME Alone
    PROVE  Spec => []Defined
  <1>1. SerialInv => Defined
    BY DEF SerialInv, StackInv, Defined
  <1> QED BY <1>1, SerialInvariance, PTL

\* When they do not overlap, between calls the stack holds just the timers
\* that show, and as many as regions are running.
THEOREM StackIsExact ==
    ASSUME Alone
    PROVE  Spec => []StackMatches
  <1>1. SerialInv => StackMatches
    BY DEF SerialInv, StackInv, StackMatches, Shown, Count
  <1> QED BY <1>1, SerialInvariance, PTL

(***************************************************************************)
(* What holds when one thread makes all the calls about regions, and stops *)
(* them in the opposite order of starting.                                 *)
(***************************************************************************)

OneNest == Nested /\ \A t, u \in Threads : t = u

\* The nest of the thread and the stack are the same, but for the region
\* that a call is about.
OrderInv ==
    \A t \in Threads :
        /\ pc[t] \in {"idle", "begin", "end"} => timerStack = nest[t]
        /\ pc[t] = "push" => nest[t] = Append(timerStack, timer[t])
        /\ pc[t] \in {"top", "pop"} => timerStack = Append(nest[t], asked[t])
        /\ pc[t] \in {"pop", "end"} => timer[t] = asked[t]
        /\ pc[t] \in {"push", "begin"} => timer[t] \in running
        /\ pc[t] \in {"top", "pop", "end"} => asked[t] \in Regions \ running

LEMMA OneNestIsAlone == OneNest => Alone
  BY DEF OneNest, Alone

\* The last place of a sequence removed, or an element added and removed.
LEMMA LastRemoved ==
    ASSUME NEW S, NEW s \in Seq(S), s # <<>>
    PROVE  s = Append(RemoveAt(s, Len(s)), s[Len(s)])
  <1>1. Len(s) \in DOMAIN s /\ s = Append(Front(s), s[Len(s)])
    BY TopAndRest
  <1>2. /\ RemoveAt(s, Len(s)) \in Seq(S) /\ Len(RemoveAt(s, Len(s))) = Len(s) - 1
        /\ \A m \in 1 .. Len(s) - 1 : RemoveAt(s, Len(s))[m] = s[m]
    <2>1. \A m \in 1 .. Len(s) - 1 : m < Len(s)
      BY <1>1
    <2> QED BY <1>1, <2>1, RemoveAtProperties
  <1>3. /\ Front(s) \in Seq(S) /\ Len(Front(s)) = Len(s) - 1
        /\ \A m \in 1 .. Len(s) - 1 : Front(s)[m] = s[m]
    BY TopAndRest
  <1>4. RemoveAt(s, Len(s)) = Front(s)
    BY <1>2, <1>3, SeqEqual
  <1> QED BY <1>1, <1>4

LEMMA AddedOnTop ==
    ASSUME NEW S, NEW s \in Seq(S), NEW e \in S
    PROVE  /\ Append(s, e) # <<>>
           /\ Last(Append(s, e)) = e /\ Front(Append(s, e)) = s
  <1> DEFINE a == Append(s, e)
  <1>1. /\ a \in Seq(S) /\ Len(a) = Len(s) + 1 /\ a[Len(s) + 1] = e
        /\ \A m \in DOMAIN s : a[m] = s[m]
    BY Appended
  <1>2. Len(s) \in Nat /\ DOMAIN s = 1 .. Len(s)
    BY LenProperties
  <1> HIDE DEF a
  <1>3. a # <<>>
    BY <1>1, <1>2, EmptySeq
  <1>4. /\ Last(a) = e
        /\ Front(a) \in Seq(S) /\ Len(Front(a)) = Len(s)
        /\ \A m \in 1 .. Len(s) : Front(a)[m] = a[m]
    BY <1>1, <1>2, <1>3, TopAndRest
  <1>5. Front(a) = s
    BY <1>1, <1>2, <1>4, SeqEqual
  <1> QED BY <1>3, <1>4, <1>5 DEF a

LEMMA OrderStart ==
    ASSUME OneNest, SerialInv, OrderInv,
           NEW t \in Threads, NEW r \in Regions, RegionStart(t, r)
    PROVE  OrderInv'
  <1>1. /\ running' = running \cup {r}
        /\ pc' = [pc EXCEPT ![t] = "push"] /\ timer' = [timer EXCEPT ![t] = r]
        /\ nest' = [nest EXCEPT ![t] = Append(nest[t], r)]
        /\ timerStack' = timerStack
    BY RegionStartStep DEF SerialInv
  <1>2. timerStack = nest[t]
    BY DEF OrderInv, RegionStart, MayCall
  <1>3. pc'[t] = "push" /\ timer'[t] = r /\ nest'[t] = Append(nest[t], r)
    BY <1>1 DEF SerialInv, TimersInv, CallTypeOK
  <1>4. \A u \in Threads : u = t
    BY DEF OneNest
  <1> QED BY <1>1, <1>2, <1>3, <1>4 DEF OrderInv

LEMMA OrderPush ==
    ASSUME OneNest, SerialInv, OrderInv, NEW t \in Threads, Push(t)
    PROVE  OrderInv'
  <1>1. /\ pc[t] = "push" /\ pc' = [pc EXCEPT ![t] = "begin"]
        /\ timerStack' = Append(timerStack, timer[t])
        /\ UNCHANGED <<running, timer, nest>>
    BY PushStep DEF SerialInv
  <1>2. nest[t] = Append(timerStack, timer[t]) /\ timer[t] \in running
    BY <1>1 DEF OrderInv
  <1>3. pc'[t] = "begin"
    BY <1>1 DEF SerialInv, TimersInv, CallTypeOK
  <1>4. \A u \in Threads : u = t
    BY DEF OneNest
  <1> QED BY <1>1, <1>2, <1>3, <1>4 DEF OrderInv

LEMMA OrderBegin ==
    ASSUME OneNest, SerialInv, OrderInv, NEW t \in Threads, Begin(t)
    PROVE  OrderInv'
  <1>1. /\ pc[t] = "begin" /\ pc' = [pc EXCEPT ![t] = "idle"]
        /\ UNCHANGED <<timerStack, nest>>
    BY BeginStep DEF SerialInv
  <1>2. timerStack = nest[t]
    BY <1>1 DEF OrderInv
  <1>3. pc'[t] = "idle"
    BY <1>1 DEF SerialInv, TimersInv, CallTypeOK
  <1>4. \A u \in Threads : u = t
    BY DEF OneNest
  <1> QED BY <1>1, <1>2, <1>3, <1>4 DEF OrderInv

LEMMA OrderStop ==
    ASSUME OneNest, SerialInv, OrderInv,
           NEW t \in Threads, NEW r \in Regions, RegionStop(t, r)
    PROVE  OrderInv'
  <1>1. /\ running' = running \ {r} /\ pc' = [pc EXCEPT ![t] = "top"]
        /\ asked' = [asked EXCEPT ![t] = r]
        /\ timerStack' = timerStack
    BY RegionStopStep DEF SerialInv
  <1>2. PICK n \in Stoppable(t) :
           nest[t][n] = r /\ nest' = [nest EXCEPT ![t] = RemoveAt(nest[t], n)]
    BY RegionStopStep DEF SerialInv
  <1>3. timerStack = nest[t]
    BY DEF OrderInv, RegionStop, MayCall
  <1>4. n = Len(nest[t]) /\ n \in DOMAIN nest[t]
    BY DEF OneNest, Stoppable
  <1>5. nest[t] = Append(RemoveAt(nest[t], n), r)
    <2>1. nest[t] \in Seq(Regions)
      BY DEF SerialInv, TimersInv, CallTypeOK
    <2>2. nest[t] # <<>>
      BY <1>4
    <2> QED BY <1>2, <1>4, <2>1, <2>2, LastRemoved
  <1>6. pc'[t] = "top" /\ asked'[t] = r /\ nest'[t] = RemoveAt(nest[t], n)
    BY <1>1, <1>2 DEF SerialInv, TimersInv, CallTypeOK
  <1>7. \A u \in Threads : u = t
    BY DEF OneNest
  <1> QED BY <1>1, <1>3, <1>5, <1>6, <1>7 DEF OrderInv

LEMMA OrderTop ==
    ASSUME OneNest, SerialInv, OrderInv, NEW t \in Threads, Top(t)
    PROVE  OrderInv'
  <1>1. /\ pc[t] = "top" /\ pc'[t] = "pop"
        /\ UNCHANGED <<running, timerStack, nest, asked>>
    BY TopStep, SerialTop DEF SerialInv
  <1>2. timerStack = Append(nest[t], asked[t]) /\ asked[t] \in Regions \ running
    BY <1>1 DEF OrderInv
  <1>3. timer'[t] = asked[t]
    <2>1. nest[t] \in Seq(Regions)
      BY DEF SerialInv, TimersInv, CallTypeOK
    <2>2. timerStack # <<>> /\ Last(timerStack) = asked[t]
      BY <1>2, <2>1, AddedOnTop
    <2>3. timer' = [timer EXCEPT ![t] = Last(timerStack)]
      BY <2>2, TopStep DEF SerialInv
    <2> QED BY <2>2, <2>3 DEF SerialInv, TimersInv, CallTypeOK
  <1>4. \A u \in Threads : u = t
    BY DEF OneNest
  <1> QED BY <1>1, <1>2, <1>3, <1>4 DEF OrderInv

LEMMA OrderPop ==
    ASSUME OneNest, SerialInv, OrderInv, NEW t \in Threads, Pop(t)
    PROVE  OrderInv'
  <1>1. /\ pc[t] = "pop" /\ pc'[t] = "end"
        /\ UNCHANGED <<running, timer, nest, asked>>
    BY PopStep, SerialPop DEF SerialInv
  <1>2. /\ timerStack = Append(nest[t], asked[t]) /\ asked[t] \in Regions \ running
        /\ timer[t] = asked[t]
    BY <1>1 DEF OrderInv
  <1>3. timerStack' = nest[t]
    <2>1. nest[t] \in Seq(Regions)
      BY DEF SerialInv, TimersInv, CallTypeOK
    <2>2. timerStack # <<>> /\ Front(timerStack) = nest[t]
      BY <1>2, <2>1, AddedOnTop
    <2> QED BY <2>2, PopStep DEF SerialInv
  <1>4. \A u \in Threads : u = t
    BY DEF OneNest
  <1> QED BY <1>1, <1>2, <1>3, <1>4 DEF OrderInv

LEMMA OrderEnd ==
    ASSUME OneNest, SerialInv, OrderInv, NEW t \in Threads, End(t)
    PROVE  OrderInv'
  <1>1. /\ pc[t] = "end" /\ pc' = [pc EXCEPT ![t] = "idle"]
        /\ UNCHANGED <<timerStack, nest>>
    BY EndStep DEF SerialInv
  <1>2. timerStack = nest[t]
    BY <1>1 DEF OrderInv
  <1>3. pc'[t] = "idle"
    BY <1>1 DEF SerialInv, TimersInv, CallTypeOK
  <1>4. \A u \in Threads : u = t
    BY DEF OneNest
  <1> QED BY <1>1, <1>2, <1>3, <1>4 DEF OrderInv

LEMMA OrderKept ==
    ASSUME TimersInv, OrderInv, UNCHANGED callVars,
           running' \cap Regions = running \cap Regions
    PROVE  OrderInv'
  <1>1. UNCHANGED <<timerStack, pc, timer, nest, asked>>
    BY DEF callVars
  <1>2. \A t \in Threads : pc[t] \in {"push", "begin"} => timer[t] \in Regions
    BY DEF TimersInv, TimerInv
  <1> QED BY <1>1, <1>2 DEF OrderInv

NestedInv == SerialInv /\ OrderInv

LEMMA NestedInvariance ==
    ASSUME OneNest
    PROVE  Spec => []NestedInv
  <1>1. Init => OrderInv
    BY DEF Init, OrderInv
  <1>2. ASSUME SerialInv, OrderInv, Next PROVE OrderInv'
    <2>1. ASSUME NEW k \in Tasks, Create(k) \/ Start(k) \/ Stop(k) \/ Destroy(k)
          PROVE  OrderInv'
      BY <1>2, <2>1, TaskStep, OrderKept DEF SerialInv
    <2>2. ASSUME NEW t \in Threads, NEW r \in Regions, RegionStart(t, r) \/ RegionStop(t, r)
          PROVE  OrderInv'
      BY <1>2, <2>2, OrderStart, OrderStop
    <2>3. ASSUME NEW t \in Threads, RegionStep(t)
          PROVE  OrderInv'
      BY <1>2, <2>3, OrderPush, OrderBegin, OrderTop, OrderPop, OrderEnd DEF RegionStep
    <2> QED BY <1>2, <2>1, <2>2, <2>3 DEF Next
  <1>3. ASSUME SerialInv, OrderInv, UNCHANGED vars PROVE OrderInv'
    BY <1>3, OrderKept DEF SerialInv, vars, taskVars
  <1>4. Spec => []SerialInv
    BY SerialInvariance, OneNestIsAlone
  <1> QED BY <1>1, <1>2, <1>3, <1>4, PTL DEF Spec, NestedInv

\* A thread that nests its regions ends, with each stop call, the range of
\* the very region it is about.
THEOREM EachClosesItsOwn ==
    ASSUME OneNest
    PROVE  Spec => []ClosesItsOwn
  <1>1. NestedInv => ClosesItsOwn
    BY DEF NestedInv, OrderInv, ClosesItsOwn
  <1> QED BY <1>1, NestedInvariance, PTL

(***************************************************************************)
(* The tool keeps the promise of TraceView, but for the promise to catch   *)
(* up, which needs fairness.                                               *)
(***************************************************************************)

LEMMA ViewStep ==
    ASSUME NestedInv, Next
    PROVE  View!Next \/ UNCHANGED View!vars
  <1>1. TimersInv /\ SerialInv /\ OrderInv
    BY DEF NestedInv, SerialInv
  <1>2. ASSUME NEW k \in Tasks, Create(k) \/ Start(k) \/ Stop(k) \/ Destroy(k)
        PROVE  View!Next \/ UNCHANGED View!vars
    <2>1. k \in Timers /\ (k \in Open <=> k \in running)
      BY <1>1 DEF Timers, TimersInv, TasksInv
    <2>2. \/ Open' = Open /\ running' = running
          \/ Open' = Open \cup {k} /\ running' = running \cup {k}
          \/ Open' = Open \ {k} /\ running' = running \ {k}
      BY <1>1, <1>2, TaskStep
    <2>3. CASE Open' = Open \cup {k} /\ running' = running \cup {k}
      <3>1. CASE k \in running
        BY <2>1, <2>3, <3>1 DEF View!vars
      <3>2. CASE k \notin running
        BY <2>1, <2>3, <3>2 DEF View!Next, View!Start
      <3> QED BY <3>1, <3>2
    <2>4. CASE Open' = Open \ {k} /\ running' = running \ {k}
      <3>1. CASE k \in running
        BY <2>1, <2>4, <3>1 DEF View!Next, View!Stop
      <3>2. CASE k \notin running
        BY <2>1, <2>4, <3>2 DEF View!vars
      <3> QED BY <3>1, <3>2
    <2> QED BY <2>2, <2>3, <2>4 DEF View!vars
  <1>3. ASSUME NEW t \in Threads, NEW r \in Regions, RegionStart(t, r)
        PROVE  View!Next
    BY <1>1, <1>3, RegionStartStep DEF Timers, View!Next, View!Start
  <1>4. ASSUME NEW t \in Threads, NEW r \in Regions, RegionStop(t, r)
        PROVE  View!Next
    <2>1. Open' = Open /\ running' = running \ {r}
      BY <1>1, <1>4, RegionStopStep
    <2>2. r \in running
      BY <1>1, <1>4, RegionStopStep DEF SerialInv, NestInv, Stoppable
    <2> QED BY <2>1, <2>2 DEF Timers, View!Next, View!Stop
  <1>5. ASSUME NEW t \in Threads, RegionStep(t)
        PROVE  View!Next \/ UNCHANGED View!vars
    <2>1. CASE Push(t)
      BY <1>1, <2>1, PushStep DEF View!vars
    <2>2. CASE Begin(t)
      <3>1. /\ Open' = Open \cup {timer[t]} /\ running' = running
            /\ pc[t] = "begin" /\ timer[t] \in Regions
        BY <1>1, <2>2, BeginStep
      <3>2. timer[t] \in running \ Open
        BY <1>1, <3>1 DEF OrderInv, SerialInv, StackInv, Shown
      <3> QED BY <3>1, <3>2 DEF Timers, View!Next, View!Show
    <2>3. CASE Top(t)
      BY <1>1, <2>3, TopStep DEF View!vars
    <2>4. CASE Pop(t)
      BY <1>1, <2>4, PopStep DEF View!vars
    <2>5. CASE End(t)
      <3>1. /\ Open' = Open \ {timer[t]} /\ running' = running
            /\ pc[t] = "end" /\ timer[t] \in Regions
        BY <1>1, <2>5, EndStep
      <3>2. timer[t] \in Open \ running
        BY <1>1, <3>1 DEF OrderInv, SerialInv, StackInv, Shown
      <3> QED BY <3>1, <3>2 DEF Timers, View!Next, View!Hide
    <2> QED BY <1>5, <2>1, <2>2, <2>3, <2>4, <2>5 DEF RegionStep
  <1> QED BY <1>2, <1>3, <1>4, <1>5 DEF Next

\* For a thread that nests its regions, beside any tasks, the tool implements
\* the timeline that the application is promised: a range opens only for
\* what runs and closes only for what was stopped.
THEOREM TraceIsKept ==
    ASSUME OneNest
    PROVE  Spec => TraceSpec
  <1>1. Init => View!Init
    BY InitTimers DEF Init, View!Init
  <1>2. ASSUME NestedInv, [Next]_vars PROVE [View!Next]_View!vars
    <2>1. ASSUME UNCHANGED vars PROVE UNCHANGED View!vars
      BY <1>2, <2>1, StutterStep DEF NestedInv, SerialInv, vars, taskVars, View!vars
    <2> QED BY <1>2, <2>1, ViewStep
  <1> QED BY <1>1, <1>2, NestedInvariance, PTL DEF Spec, TraceSpec, View!Spec
=============================================================================
