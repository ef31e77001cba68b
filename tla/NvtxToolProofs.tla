--------------------------- MODULE NvtxToolProofs ---------------------------
(***************************************************************************)
(* Lemmas about the functions of NvtxTool, one for each: whatever calls    *)
(* them, in whatever order, the open ranges of NVTX are those that the     *)
(* timers know of, one for each timer that shows.                          *)
(***************************************************************************)
EXTENDS NvtxTool, FiniteSetTheorems, SequenceTheorems, TLAPS

\* A range for each timer that shows, and a timer for each range.
RangesOwned ==
    /\ IsFiniteSet(DOMAIN ranges)
    /\ \A i \in Showing : timers[i].rangeId \in DOMAIN ranges
    /\ \A i, j \in Showing : timers[i].rangeId = timers[j].rangeId => i = j
    /\ \A id \in DOMAIN ranges : \E i \in Showing : timers[i].rangeId = id

\* The text of every timer has been registered.
MessagesRegistered == \A i \in DOMAIN timers : timers[i].message \in 1 .. tsDomain

\* The stack holds no timer twice, and each has its range.
StackShows ==
    /\ \A m, n \in DOMAIN timerStack : timerStack[m] = timerStack[n] => m = n
    /\ ToSet(timerStack) \subseteq Showing

ToolInv == ToolTypeOK /\ RangesOwned /\ MessagesRegistered /\ StackShows

\* A set with one element more or less.
LEMMA OneMore ==
    ASSUME NEW S, IsFiniteSet(S), NEW x, x \notin S
    PROVE  IsFiniteSet(S \cup {x}) /\ Cardinality(S \cup {x}) = Cardinality(S) + 1
  BY FS_AddElement

LEMMA OneLess ==
    ASSUME NEW S, IsFiniteSet(S), NEW x \in S
    PROVE  IsFiniteSet(S \ {x}) /\ Cardinality(S \ {x}) = Cardinality(S) - 1
  BY FS_RemoveElement

(***************************************************************************)
(* What a function may do to the timers and ranges.                        *)
(***************************************************************************)

\* The timers there were are there still, and stand for what they did.
KeepsTimers ==
    /\ DOMAIN timers \subseteq DOMAIN timers'
    /\ \A i \in DOMAIN timers : timers'[i].of = timers[i].of

\* Timer i shows from now on, in the domain in use.
Opens(i) ==
    /\ i \notin Showing
    /\ Showing' = Showing \cup {i}
    /\ Cardinality(DOMAIN ranges') = Cardinality(DOMAIN ranges) + 1
    /\ \A id \in DOMAIN ranges' :
          ranges'[id] = tsDomain \/ (id \in DOMAIN ranges /\ ranges'[id] = ranges[id])

\* Timer i no longer shows.
Closes(i) ==
    /\ i \in Showing
    /\ Showing' = Showing \ {i}
    /\ Cardinality(DOMAIN ranges') = Cardinality(DOMAIN ranges) - 1
    /\ \A id \in DOMAIN ranges' : id \in DOMAIN ranges /\ ranges'[id] = ranges[id]

\* Nothing starts or stops to show.
Rests == Showing' = Showing /\ ranges' = ranges

\* NVTX is called for domain d, with texts that have been registered and
\* ranges that are open.
CallsOn(d) ==
    \A c \in calls' :
        /\ c.on = d
        /\ c.from \in 1 .. d
        /\ c.what = "range" => \E id \in DOMAIN ranges : c.from = ranges[id]

(***************************************************************************)
(* Data.                                                                   *)
(***************************************************************************)

\* There is always an id left.
LEMMA FreeIdIsFree ==
    ASSUME ToolInv
    PROVE  FreeId \in Nat \ {0} /\ FreeId \notin DOMAIN ranges
  <1> DEFINE n == Cardinality(DOMAIN ranges)
  <1>1. n \in Nat /\ IsFiniteSet(DOMAIN ranges)
    BY FS_CardinalityType DEF ToolInv, RangesOwned
  <1>2. \E id \in 1 .. n + 1 : id \notin DOMAIN ranges
    <2> SUFFICES ASSUME 1 .. n + 1 \subseteq DOMAIN ranges PROVE FALSE
      OBVIOUS
    <2>1. Cardinality(1 .. n + 1) <= n
      BY <1>1, FS_Subset
    <2>2. Cardinality(1 .. n + 1) = n + 1
      BY <1>1, FS_Interval
    <2> QED
      BY <1>1, <2>1, <2>2
  <1>3. FreeId \in 1 .. n + 1 /\ FreeId \notin DOMAIN ranges
    BY <1>2 DEF FreeId
  <1> QED
    BY <1>1, <1>3

LEMMA AddedDomain ==
    ASSUME NEW f, NEW x, NEW y
    PROVE  /\ DOMAIN Added(f, x, y) = DOMAIN f \cup {x}
           /\ \A z \in DOMAIN f : Added(f, x, y)[z] = f[z]
           /\ x \notin DOMAIN f => Added(f, x, y)[x] = y
           /\ Added(f, x, y)[x] = f[x] \/ Added(f, x, y)[x] = y
  BY DEF Added

\* A text that is registered, then or before, has a handle.
LEMMA Registered ==
    ASSUME ToolTypeOK, NEW d \in Nat \ {0}, tsDomain <= d, NEW text
    PROVE  /\ text \in DOMAIN RegisterString(d, text)
           /\ \A t \in DOMAIN RegisterString(d, text) :
                 RegisterString(d, text)[t] \in 1 .. d
  BY DEF ToolTypeOK, RegisterString, Added

\* A timer is given another range, or none.
LEMMA RangeIdSet ==
    ASSUME timers \in Seq(Timer), NEW i \in DOMAIN timers, NEW id \in Nat,
           timers' = [timers EXCEPT ![i].rangeId = id]
    PROVE  /\ timers' \in Seq(Timer)
           /\ DOMAIN timers' = DOMAIN timers
           /\ \A j \in DOMAIN timers :
                 /\ timers'[j].of = timers[j].of
                 /\ timers'[j].message = timers[j].message
                 /\ timers'[j].rangeId = IF j = i THEN id ELSE timers[j].rangeId
  <1> DEFINE t == [timers[i] EXCEPT !.rangeId = id]
  <1>1. timers[i] \in Timer /\ DOMAIN timers = 1 .. Len(timers)
    BY ElementOfSeq, LenProperties
  <1>2. t \in Timer /\ t.of = timers[i].of /\ t.message = timers[i].message
        /\ t.rangeId = id
    BY <1>1 DEF Timer
  <1>3. timers' = [timers EXCEPT ![i] = t]
    OBVIOUS
  <1> HIDE DEF t
  <1>4. /\ timers' \in Seq(Timer)
        /\ Len(timers') = Len(timers)
        /\ \A j \in 1 .. Len(timers) : timers'[j] = IF j = i THEN t ELSE timers[j]
    BY <1>1, <1>2, <1>3, ExceptSeq
  <1>5. DOMAIN timers' = DOMAIN timers
    BY <1>1, <1>4, LenProperties
  <1> QED
    BY <1>1, <1>2, <1>4, <1>5

(***************************************************************************)
(* The functions.  A tool whose tsDomain is 0 has not been initialised.    *)
(***************************************************************************)

LEMMA TypeOfCalls ==
    ASSUME NEW d \in Nat, CallsOn(d), NEW C, calls' = C,
           \A c \in C : \E h : c = Shows(d, h) \/ \E id : c = Ends(d, id)
    PROVE  calls' \subseteq [on : Nat, what : {"text", "range"}, from : Nat]
  <1> SUFFICES ASSUME NEW c \in calls'
               PROVE  c \in [on : Nat, what : {"text", "range"}, from : Nat]
    OBVIOUS
  <1>1. c.from \in Nat
    BY DEF CallsOn
  <1> QED
    BY <1>1 DEF Shows, Ends

\* What is not about texts or domains stays as it is with timers and ranges.
LEMMA TimersKept ==
    ASSUME RangesOwned, StackShows, ranges' = ranges, timers' = timers,
           timerStack' = timerStack
    PROVE  RangesOwned' /\ StackShows'
  <1>1. Showing' = Showing
    BY DEF Showing
  <1>2. RangesOwned'
    BY <1>1 DEF RangesOwned
  <1>3. StackShows'
    BY <1>1 DEF StackShows, ToSet
  <1> QED
    BY <1>2, <1>3

\* A marker shows in the domain in use.
LEMMA DoMarkerStep ==
    ASSUME ToolInv, NEW d \in Nat \ {0}, tsDomain <= d, NEW text,
           DoMarker(d, text)
    PROVE  /\ CallsOn(d)
           /\ \A c \in calls' : c.what = "text"
           /\ \A t \in DOMAIN registeredStrings' : registeredStrings'[t] \in 1 .. d
           /\ calls' \subseteq [on : Nat, what : {"text", "range"}, from : Nat]
  <1>1. \A t \in DOMAIN registeredStrings' : registeredStrings'[t] \in 1 .. d
    BY Registered DEF DoMarker, ToolInv
  <1>2. registeredStrings'[text] \in 1 .. d
    BY Registered DEF DoMarker, ToolInv
  <1>3. calls' = {Shows(d, registeredStrings'[text])}
    BY DEF DoMarker
  <1>4. CallsOn(d) /\ \A c \in calls' : c.what = "text"
    BY <1>2, <1>3 DEF CallsOn, Shows
  <1>5. \A c \in calls' : \E h : c = Shows(d, h)
    BY <1>3
  <1> QED
    BY <1>1, <1>4, <1>5, TypeOfCalls

LEMMA MarkerStep ==
    ASSUME ToolInv, tsDomain # 0, NEW text, MarkerImpl(text)
    PROVE  /\ ToolInv'
           /\ CallsOn(tsDomain) /\ \A c \in calls' : c.what = "text"
           /\ UNCHANGED <<nvtxVars, tsDomain, timerVars, undefined>>
  <1>1. tsDomain \in Nat \ {0} /\ tsDomain <= tsDomain
    BY DEF ToolInv, ToolTypeOK
  <1>2. DoMarker(tsDomain, text) /\ UNCHANGED <<nvtxVars, tsDomain, timerVars, undefined>>
    BY DEF MarkerImpl
  <1>3. /\ CallsOn(tsDomain) /\ \A c \in calls' : c.what = "text"
        /\ \A t \in DOMAIN registeredStrings' : registeredStrings'[t] \in 1 .. tsDomain
        /\ calls' \subseteq [on : Nat, what : {"text", "range"}, from : Nat]
    BY <1>1, <1>2, DoMarkerStep
  <1>4. ToolTypeOK'
    BY <1>2, <1>3 DEF ToolInv, ToolTypeOK, nvtxVars, timerVars
  <1>5. RangesOwned' /\ StackShows' /\ MessagesRegistered'
    BY <1>2, TimersKept DEF ToolInv, MessagesRegistered, nvtxVars, timerVars
  <1> QED
    BY <1>2, <1>3, <1>4, <1>5 DEF ToolInv

\* initialize changes nothing but the domain.
LEMMA InitializeStep ==
    ASSUME ToolInv, InitializeImpl
    PROVE  /\ ToolInv'
           /\ tsDomain' = tsDomain + 1 /\ live' = live \cup {tsDomain'}
           /\ CallsOn(tsDomain') /\ \A c \in calls' : c.what = "text"
           /\ UNCHANGED <<ranges, timerVars, undefined>>
  <1>1. tsDomain \in Nat /\ tsDomain' = tsDomain + 1
    BY DEF ToolInv, ToolTypeOK, InitializeImpl
  <1>2. /\ DoMarker(tsDomain', <<"TaskStubs Initialize">>)
        /\ live' = live \cup {tsDomain'}
        /\ UNCHANGED <<ranges, timerVars, undefined>>
    BY DEF InitializeImpl
  <1>3. /\ CallsOn(tsDomain') /\ \A c \in calls' : c.what = "text"
        /\ \A t \in DOMAIN registeredStrings' : registeredStrings'[t] \in 1 .. tsDomain'
        /\ calls' \subseteq [on : Nat, what : {"text", "range"}, from : Nat]
    <2>1. tsDomain' \in Nat \ {0} /\ tsDomain <= tsDomain'
      BY <1>1
    <2> HIDE <1>1
    <2> QED
      BY <1>2, <2>1, DoMarkerStep
  <1>4. \A n \in 1 .. tsDomain : n \in 1 .. tsDomain'
    BY <1>1
  <1>5. ToolTypeOK'
    <2>1. tsDomain' \in Nat /\ tsDomain' \in 1 .. tsDomain'
      BY <1>1
    <2>2. live' \subseteq 1 .. tsDomain'
      BY <1>2, <1>4, <2>1 DEF ToolInv, ToolTypeOK
    <2>3. \A id \in DOMAIN ranges' : ranges'[id] \in 1 .. tsDomain'
      BY <1>2, <1>4 DEF ToolInv, ToolTypeOK
    <2> QED
      BY <1>2, <1>3, <2>1, <2>2, <2>3 DEF ToolInv, ToolTypeOK, timerVars
  <1>6. RangesOwned' /\ StackShows'
    BY <1>2, TimersKept DEF ToolInv, timerVars
  <1>7. MessagesRegistered'
    BY <1>2, <1>4 DEF ToolInv, MessagesRegistered, timerVars
  <1> QED
    BY <1>1, <1>2, <1>3, <1>5, <1>6, <1>7 DEF ToolInv

LEMMA FinalizeStep ==
    ASSUME ToolInv, tsDomain # 0, FinalizeImpl
    PROVE  /\ ToolInv'
           /\ live' = live \ {tsDomain}
           /\ CallsOn(tsDomain) /\ \A c \in calls' : c.what = "text"
           /\ UNCHANGED <<ranges, tsDomain, timerVars, undefined>>
  <1>1. tsDomain \in Nat \ {0} /\ tsDomain <= tsDomain
    BY DEF ToolInv, ToolTypeOK
  <1>2. /\ DoMarker(tsDomain, <<"TaskStubs Finalize">>)
        /\ live' = live \ {tsDomain}
        /\ UNCHANGED <<ranges, tsDomain, timerVars, undefined>>
    BY DEF FinalizeImpl
  <1>3. /\ CallsOn(tsDomain) /\ \A c \in calls' : c.what = "text"
        /\ \A t \in DOMAIN registeredStrings' : registeredStrings'[t] \in 1 .. tsDomain
        /\ calls' \subseteq [on : Nat, what : {"text", "range"}, from : Nat]
    BY <1>1, <1>2, DoMarkerStep
  <1>4. ToolTypeOK'
    BY <1>2, <1>3 DEF ToolInv, ToolTypeOK, timerVars
  <1>5. RangesOwned' /\ StackShows' /\ MessagesRegistered'
    BY <1>2, TimersKept DEF ToolInv, MessagesRegistered, timerVars
  <1> QED
    BY <1>2, <1>3, <1>4, <1>5 DEF ToolInv

\* create makes a timer at rest.
LEMMA CreateStep ==
    ASSUME ToolInv, tsDomain # 0, NEW k \in STRING, CreateImpl(k)
    PROVE  /\ ToolInv'
           /\ KeepsTimers /\ Rests
           /\ Len(timers') = Len(timers) + 1
           /\ DOMAIN timers' = DOMAIN timers \cup {Len(timers) + 1}
           /\ timers'[Len(timers) + 1].of = k
           /\ CallsOn(tsDomain) /\ \A c \in calls' : c.what = "text"
           /\ UNCHANGED <<live, tsDomain, timerStack, undefined>>
  <1> DEFINE d == tsDomain
             n == Len(timers) + 1
             t == NewTimer(k)
  <1>1. d \in Nat \ {0} /\ d <= d /\ ToolTypeOK
    BY DEF ToolInv, ToolTypeOK
  <1>2. t \in Timer /\ t.of = k /\ t.message \in 1 .. d /\ t.rangeId = 0
    <2>1. RegisterString(d, <<k>>)[<<k>>] \in 1 .. d
      BY <1>1, Registered
    <2> QED
      BY <1>1, <2>1 DEF NewTimer, Timer
  <1>3. /\ timers' = Append(timers, t)
        /\ calls' = {Shows(d, t.message)}
        /\ UNCHANGED <<ranges, live, tsDomain, timerStack, undefined>>
    BY DEF CreateImpl, nvtxVars
  <1>4. \A x \in DOMAIN registeredStrings' : registeredStrings'[x] \in 1 .. d
    <2>1. registeredStrings' =
            Added(RegisterString(d, <<k>>), <<"Timer Create", k>>, d)
      BY DEF CreateImpl
    <2>2. d \in 1 .. d
      BY <1>1
    <2>3. \A x \in DOMAIN RegisterString(d, <<k>>) :
             RegisterString(d, <<k>>)[x] \in 1 .. d
      BY <1>1, Registered
    <2> QED
      BY <2>1, <2>2, <2>3 DEF Added
  <1> HIDE DEF t
  <1>5. /\ timers \in Seq(Timer) /\ Len(timers) \in Nat
        /\ DOMAIN timers = 1 .. Len(timers)
    BY <1>1, LenProperties DEF ToolTypeOK
  <1>6. /\ timers' \in Seq(Timer) /\ Len(timers') = n
        /\ \A i \in 1 .. Len(timers) : timers'[i] = timers[i]
        /\ timers'[n] = t
    BY <1>2, <1>3, <1>5, AppendProperties
  <1>7. DOMAIN timers' = DOMAIN timers \cup {n}
    BY <1>5, <1>6, LenProperties
  <1>8. Showing' = Showing
    BY <1>2, <1>5, <1>6, <1>7 DEF Showing
  <1>9. CallsOn(d) /\ \A c \in calls' : c.what = "text"
    BY <1>2, <1>3 DEF CallsOn, Shows
  <1>10. ToolTypeOK'
    <2>1. calls' \subseteq [on : Nat, what : {"text", "range"}, from : Nat]
      BY <1>1, <1>3, <1>9, TypeOfCalls
    <2>2. timerStack' \in Seq(DOMAIN timers')
      BY <1>1, <1>3, <1>7, SeqMonotonic DEF ToolTypeOK
    <2> QED
      BY <1>1, <1>3, <1>4, <1>6, <2>1, <2>2 DEF ToolTypeOK
  <1>11. RangesOwned'
    BY <1>3, <1>5, <1>6, <1>8 DEF ToolInv, RangesOwned, Showing
  <1>12. MessagesRegistered'
    BY <1>2, <1>3, <1>5, <1>6, <1>7 DEF ToolInv, MessagesRegistered
  <1>13. StackShows'
    BY <1>3, <1>8 DEF ToolInv, StackShows, ToSet
  <1>14. KeepsTimers /\ Rests
    BY <1>3, <1>5, <1>6, <1>7, <1>8 DEF KeepsTimers, Rests
  <1> QED
    BY <1>2, <1>3, <1>6, <1>7, <1>9, <1>10, <1>11, <1>12, <1>13, <1>14 DEF ToolInv

\* destroy shows a marker, or does nothing.
LEMMA DestroyStep ==
    ASSUME ToolInv, tsDomain # 0, NEW i, DestroyImpl(i)
    PROVE  /\ ToolInv'
           /\ CallsOn(tsDomain) /\ \A c \in calls' : c.what = "text"
           /\ UNCHANGED <<nvtxVars, tsDomain, timerVars, undefined>>
  <1>1. CASE i = 0
    <2>1. /\ calls' = {}
          /\ UNCHANGED <<nvtxVars, tsDomain, registeredStrings, timerVars, undefined>>
      BY <1>1 DEF DestroyImpl
    <2>2. ToolTypeOK'
      BY <2>1 DEF ToolInv, ToolTypeOK, nvtxVars, timerVars
    <2>3. RangesOwned' /\ StackShows' /\ MessagesRegistered'
      BY <2>1, TimersKept DEF ToolInv, MessagesRegistered, nvtxVars, timerVars
    <2> QED
      BY <2>1, <2>2, <2>3 DEF ToolInv, CallsOn
  <1>2. CASE i # 0
    <2>1. MarkerImpl(<<"Timer Destroy">>)
      BY <1>2 DEF DestroyImpl, MarkerImpl
    <2> QED
      BY <2>1, MarkerStep
  <1> QED
    BY <1>1, <1>2

\* A range is opened for timer i.
LEMMA RangeOpened ==
    ASSUME ToolInv, tsDomain # 0, NEW i, i \notin Showing,
           Showing' = Showing \cup {i},
           \A j \in Showing : timers'[j].rangeId = timers[j].rangeId,
           timers'[i].rangeId = FreeId,
           ranges' = Added(ranges, FreeId, tsDomain)
    PROVE  /\ RangesOwned' /\ Opens(i)
           /\ DOMAIN ranges' \subseteq Nat \ {0}
           /\ \A id \in DOMAIN ranges' : ranges'[id] \in 1 .. tsDomain
  <1> DEFINE new == FreeId
  <1>1. new \in Nat \ {0} /\ new \notin DOMAIN ranges
    BY FreeIdIsFree
  <1>2. /\ IsFiniteSet(DOMAIN ranges)
        /\ DOMAIN ranges \subseteq Nat \ {0}
        /\ \A id \in DOMAIN ranges : ranges[id] \in 1 .. tsDomain
        /\ tsDomain \in 1 .. tsDomain
    BY DEF ToolInv, ToolTypeOK, RangesOwned
  <1> HIDE DEF new
  <1>3. /\ DOMAIN ranges' = DOMAIN ranges \cup {new}
        /\ \A id \in DOMAIN ranges : ranges'[id] = ranges[id]
        /\ ranges'[new] = tsDomain
    <2>1. ranges' = Added(ranges, new, tsDomain)
      BY DEF new
    <2> QED
      BY <1>1, <2>1 DEF Added
  <1>4. /\ IsFiniteSet(DOMAIN ranges')
        /\ Cardinality(DOMAIN ranges') = Cardinality(DOMAIN ranges) + 1
    BY <1>1, <1>2, <1>3, OneMore
  <1>5. timers'[i].rangeId = new
    BY DEF new
  <1>6. RangesOwned'
    <2>1. \A j \in Showing' : timers'[j].rangeId \in DOMAIN ranges'
      BY <1>3, <1>5 DEF ToolInv, RangesOwned
    <2>2. \A j, l \in Showing' : timers'[j].rangeId = timers'[l].rangeId => j = l
      BY <1>1, <1>5 DEF ToolInv, RangesOwned
    <2>3. \A id \in DOMAIN ranges' : \E j \in Showing' : timers'[j].rangeId = id
      BY <1>3, <1>5 DEF ToolInv, RangesOwned
    <2> QED
      BY <1>4, <2>1, <2>2, <2>3 DEF RangesOwned
  <1> QED
    BY <1>1, <1>2, <1>3, <1>4, <1>6 DEF Opens

\* The range of timer i is closed.
LEMMA RangeClosed ==
    ASSUME ToolInv, NEW i \in Showing,
           Showing' = Showing \ {i},
           \A j \in Showing \ {i} : timers'[j].rangeId = timers[j].rangeId,
           ranges' = Restrict(ranges, DOMAIN ranges \ {timers[i].rangeId})
    PROVE  /\ RangesOwned' /\ Closes(i)
           /\ DOMAIN ranges' \subseteq Nat \ {0}
           /\ \A id \in DOMAIN ranges' : ranges'[id] \in 1 .. tsDomain
  <1> DEFINE old == timers[i].rangeId
  <1>1. /\ IsFiniteSet(DOMAIN ranges)
        /\ old \in DOMAIN ranges
        /\ DOMAIN ranges \subseteq Nat \ {0}
        /\ \A id \in DOMAIN ranges : ranges[id] \in 1 .. tsDomain
    BY DEF ToolInv, ToolTypeOK, RangesOwned
  <1>2. /\ DOMAIN ranges' = DOMAIN ranges \ {old}
        /\ \A id \in DOMAIN ranges' : ranges'[id] = ranges[id]
    BY DEF Restrict
  <1>3. /\ IsFiniteSet(DOMAIN ranges')
        /\ Cardinality(DOMAIN ranges') = Cardinality(DOMAIN ranges) - 1
    <2> HIDE DEF old
    <2> QED
      BY <1>1, <1>2, OneLess
  <1>4. RangesOwned'
    <2>1. \A j \in Showing' : timers'[j].rangeId \in DOMAIN ranges'
      BY <1>2 DEF ToolInv, RangesOwned
    <2>2. \A j, l \in Showing' : timers'[j].rangeId = timers'[l].rangeId => j = l
      BY DEF ToolInv, RangesOwned
    <2>3. \A id \in DOMAIN ranges' : \E j \in Showing' : timers'[j].rangeId = id
      BY <1>2 DEF ToolInv, RangesOwned
    <2> QED
      BY <1>3, <2>1, <2>2, <2>3 DEF RangesOwned
  <1> QED
    BY <1>1, <1>2, <1>3, <1>4 DEF Closes

\* The functions that do not touch texts, given what they do to the rest.
LEMMA TypeKept ==
    ASSUME ToolTypeOK, CallsOn(tsDomain),
           \A c \in calls' : \E h : c = Shows(tsDomain, h) \/ \E id : c = Ends(tsDomain, id),
           timers' \in Seq(Timer), timerStack' \in Seq(DOMAIN timers'),
           DOMAIN ranges' \subseteq Nat \ {0},
           \A id \in DOMAIN ranges' : ranges'[id] \in 1 .. tsDomain,
           UNCHANGED <<live, tsDomain, registeredStrings>>,
           undefined' \in BOOLEAN
    PROVE  ToolTypeOK'
  <1>1. calls' \subseteq [on : Nat, what : {"text", "range"}, from : Nat]
    BY TypeOfCalls DEF ToolTypeOK
  <1> QED
    BY <1>1 DEF ToolTypeOK

\* A method called through the null pointer.
LEMMA NullStep ==
    ASSUME ToolInv, NullTimer, UNCHANGED <<live, tsDomain, registeredStrings, timerStack>>
    PROVE  /\ ToolInv' /\ undefined' /\ Rests /\ timers' = timers
           /\ calls' = {}
  <1>1. calls' = {} /\ undefined' = TRUE /\ UNCHANGED <<ranges, timers>>
    BY DEF NullTimer
  <1>2. ToolTypeOK'
    BY <1>1 DEF ToolInv, ToolTypeOK
  <1>3. RangesOwned' /\ StackShows' /\ MessagesRegistered'
    BY <1>1, TimersKept DEF ToolInv, MessagesRegistered
  <1> QED
    BY <1>1, <1>2, <1>3 DEF ToolInv, Rests, Showing

\* start and resume of a timer, which opens a range if it has none.
LEMMA StartStep ==
    ASSUME ToolInv, tsDomain # 0, NEW i \in DOMAIN timers, StartImpl(i)
    PROVE  /\ ToolInv' /\ KeepsTimers /\ DOMAIN timers' = DOMAIN timers
           /\ IF i \in Showing THEN Rests ELSE Opens(i)
           /\ CallsOn(tsDomain) /\ \A c \in calls' : c.what = "text"
           /\ UNCHANGED <<live, tsDomain, timerStack, undefined>>
  <1>1. /\ timers \in Seq(Timer) /\ DOMAIN timers = 1 .. Len(timers)
        /\ timers[i] \in Timer /\ tsDomain \in Nat \ {0}
        /\ i # 0
    BY LenProperties, ElementOfSeq DEF ToolInv, ToolTypeOK
  <1>2. /\ StartTimer(i)
        /\ UNCHANGED <<live, tsDomain, registeredStrings, timerStack, undefined>>
    BY <1>1 DEF StartImpl
  <1>3. CASE i \in Showing
    <2>1. calls' = {} /\ UNCHANGED <<ranges, timers>>
      BY <1>2, <1>3 DEF StartTimer, Showing
    <2>2. ToolTypeOK'
      BY <1>2, <2>1 DEF ToolInv, ToolTypeOK
    <2>3. RangesOwned' /\ StackShows' /\ MessagesRegistered'
      BY <1>2, <2>1, TimersKept DEF ToolInv, MessagesRegistered
    <2> QED
      BY <1>2, <1>3, <2>1, <2>2, <2>3
      DEF ToolInv, KeepsTimers, Rests, Showing, CallsOn
  <1>4. CASE i \notin Showing
    <2>1. /\ ranges' = Added(ranges, FreeId, tsDomain)
          /\ timers' = [timers EXCEPT ![i].rangeId = FreeId]
          /\ calls' = {Shows(tsDomain, timers[i].message)}
      BY <1>2, <1>4 DEF StartTimer, Showing
    <2>2. FreeId \in Nat \ {0}
      BY FreeIdIsFree
    <2>3. /\ timers' \in Seq(Timer) /\ DOMAIN timers' = DOMAIN timers
          /\ \A j \in DOMAIN timers :
                /\ timers'[j].of = timers[j].of
                /\ timers'[j].message = timers[j].message
                /\ timers'[j].rangeId = IF j = i THEN FreeId ELSE timers[j].rangeId
      BY <1>1, <2>1, <2>2, RangeIdSet
    <2>4. Showing' = Showing \cup {i}
      BY <2>2, <2>3 DEF Showing
    <2>5. \A j \in Showing : timers'[j].rangeId = timers[j].rangeId
      BY <1>4, <2>3 DEF Showing
    <2>6. /\ RangesOwned' /\ Opens(i)
          /\ DOMAIN ranges' \subseteq Nat \ {0}
          /\ \A id \in DOMAIN ranges' : ranges'[id] \in 1 .. tsDomain
      BY <1>4, <2>1, <2>3, <2>4, <2>5, RangeOpened
    <2>7. CallsOn(tsDomain) /\ \A c \in calls' : c.what = "text"
      BY <2>1 DEF ToolInv, MessagesRegistered, CallsOn, Shows
    <2>8. ToolTypeOK'
      <3>1. timerStack' \in Seq(DOMAIN timers')
        BY <1>2, <2>3 DEF ToolInv, ToolTypeOK
      <3>2. undefined' \in BOOLEAN
        BY <1>2 DEF ToolInv, ToolTypeOK
      <3>3. \A c \in calls' : \E h : c = Shows(tsDomain, h)
        BY <2>1
      <3> QED
        BY <1>2, <2>3, <2>6, <2>7, <3>1, <3>2, <3>3, TypeKept DEF ToolInv
    <2>9. MessagesRegistered'
      BY <1>2, <2>3 DEF ToolInv, MessagesRegistered
    <2>10. StackShows'
      BY <1>2, <2>4 DEF ToolInv, StackShows, ToSet
    <2> QED
      BY <1>2, <1>4, <2>3, <2>6, <2>7, <2>8, <2>9, <2>10 DEF ToolInv, KeepsTimers
  <1> QED
    BY <1>3, <1>4

\* The stop of a timer that shows, here and when it has been popped.
LEMMA TimerStopped ==
    ASSUME ToolInv, NEW i \in Showing, StopTimer(i),
           UNCHANGED <<live, tsDomain, registeredStrings, undefined>>,
           timerStack' \in Seq(DOMAIN timers)
    PROVE  /\ ToolTypeOK' /\ RangesOwned' /\ MessagesRegistered' /\ Closes(i)
           /\ KeepsTimers /\ DOMAIN timers' = DOMAIN timers
           /\ CallsOn(tsDomain)
  <1>1. /\ timers \in Seq(Timer) /\ DOMAIN timers = 1 .. Len(timers)
        /\ i \in DOMAIN timers /\ timers[i] \in Timer
        /\ timers[i].rangeId \in Nat \ {0}
    <2>1. /\ timers \in Seq(Timer) /\ DOMAIN timers = 1 .. Len(timers)
          /\ i \in DOMAIN timers /\ timers[i].rangeId # 0
      BY LenProperties DEF ToolInv, ToolTypeOK, Showing
    <2>2. timers[i] \in Timer
      BY <2>1, ElementOfSeq
    <2> QED
      BY <2>1, <2>2 DEF Timer
  <1>2. /\ ranges' = Restrict(ranges, DOMAIN ranges \ {timers[i].rangeId})
        /\ timers' = [timers EXCEPT ![i].rangeId = 0]
        /\ calls' = {Ends(tsDomain, timers[i].rangeId)}
    BY <1>1 DEF StopTimer
  <1>3. /\ timers' \in Seq(Timer) /\ DOMAIN timers' = DOMAIN timers
        /\ \A j \in DOMAIN timers :
              /\ timers'[j].of = timers[j].of
              /\ timers'[j].message = timers[j].message
              /\ timers'[j].rangeId = IF j = i THEN 0 ELSE timers[j].rangeId
    BY <1>1, <1>2, RangeIdSet
  <1>4. Showing' = Showing \ {i}
    BY <1>3 DEF Showing
  <1>5. \A j \in Showing \ {i} : timers'[j].rangeId = timers[j].rangeId
    BY <1>3 DEF Showing
  <1>6. /\ RangesOwned' /\ Closes(i)
        /\ DOMAIN ranges' \subseteq Nat \ {0}
        /\ \A id \in DOMAIN ranges' : ranges'[id] \in 1 .. tsDomain
    BY <1>2, <1>4, <1>5, RangeClosed
  <1>7. timers[i].rangeId \in DOMAIN ranges
        /\ ranges[timers[i].rangeId] \in 1 .. tsDomain
    BY DEF ToolInv, ToolTypeOK, RangesOwned
  <1>8. CallsOn(tsDomain)
    BY <1>2, <1>7 DEF CallsOn, Ends
  <1>9. ToolTypeOK'
    <2>1. \A c \in calls' : \E id : c = Ends(tsDomain, id)
      BY <1>2
    <2>2. undefined' \in BOOLEAN
      BY DEF ToolInv, ToolTypeOK
    <2> QED
      BY <1>3, <1>6, <1>8, <2>1, <2>2, TypeKept DEF ToolInv
  <1>10. MessagesRegistered'
    BY <1>3 DEF ToolInv, MessagesRegistered
  <1> QED
    BY <1>3, <1>6, <1>8, <1>9, <1>10 DEF KeepsTimers

\* yield and stop of a timer that is not on the stack.
LEMMA StopStep ==
    ASSUME ToolInv, NEW i \in DOMAIN timers, i \notin ToSet(timerStack), StopImpl(i)
    PROVE  /\ ToolInv' /\ KeepsTimers /\ DOMAIN timers' = DOMAIN timers
           /\ IF i \in Showing THEN Closes(i) ELSE Rests
           /\ CallsOn(tsDomain)
           /\ UNCHANGED <<live, tsDomain, timerStack, undefined>>
  <1>1. /\ timers \in Seq(Timer) /\ DOMAIN timers = 1 .. Len(timers)
        /\ timers[i] \in Timer /\ i # 0
    BY LenProperties, ElementOfSeq DEF ToolInv, ToolTypeOK
  <1>2. /\ StopTimer(i)
        /\ UNCHANGED <<live, tsDomain, registeredStrings, timerStack, undefined>>
    BY <1>1 DEF StopImpl
  <1>3. CASE i \in Showing
    <2>1. timerStack' \in Seq(DOMAIN timers)
      BY <1>2 DEF ToolInv, ToolTypeOK
    <2>2. /\ ToolTypeOK' /\ RangesOwned' /\ MessagesRegistered' /\ Closes(i)
          /\ KeepsTimers /\ DOMAIN timers' = DOMAIN timers
          /\ CallsOn(tsDomain)
      BY <1>2, <1>3, <2>1, TimerStopped
    <2>3. StackShows'
      BY <1>2, <2>2 DEF ToolInv, StackShows, ToSet, Closes
    <2> QED
      BY <1>2, <1>3, <2>2, <2>3 DEF ToolInv
  <1>4. CASE i \notin Showing
    <2>1. calls' = {} /\ UNCHANGED <<ranges, timers>>
      BY <1>1, <1>2, <1>4 DEF StopTimer, Showing, Timer
    <2>2. ToolTypeOK'
      BY <1>2, <2>1 DEF ToolInv, ToolTypeOK
    <2>3. RangesOwned' /\ StackShows' /\ MessagesRegistered'
      BY <1>2, <2>1, TimersKept DEF ToolInv, MessagesRegistered
    <2> QED
      BY <1>2, <1>4, <2>1, <2>2, <2>3
      DEF ToolInv, KeepsTimers, Rests, Showing, CallsOn
  <1> QED
    BY <1>3, <1>4

\* A transfer or command starts: a new timer shows and is on top.
LEMMA RegionStartStep ==
    ASSUME ToolInv, tsDomain # 0, NEW r \in STRING, RegionStartImpl(r)
    PROVE  /\ ToolInv' /\ KeepsTimers /\ Opens(Len(timers) + 1)
           /\ Len(timers) + 1 \in Nat \ DOMAIN timers
           /\ DOMAIN timers' = DOMAIN timers \cup {Len(timers) + 1}
           /\ timers'[Len(timers) + 1].of = r
           /\ ToSet(timerStack') = ToSet(timerStack) \cup {Len(timers) + 1}
           /\ Len(timerStack') = Len(timerStack) + 1
           /\ CallsOn(tsDomain) /\ \A c \in calls' : c.what = "text"
           /\ UNCHANGED <<live, tsDomain, undefined>>
  <1> DEFINE d == tsDomain
             n == Len(timers) + 1
             new == FreeId
             t == [NewTimer(r) EXCEPT !.rangeId = new]
  <1>1. d \in Nat \ {0} /\ d <= d /\ ToolTypeOK
    BY DEF ToolInv, ToolTypeOK
  <1>2. new \in Nat \ {0}
    BY FreeIdIsFree
  <1>3. RegisterString(d, <<r>>)[<<r>>] \in 1 .. d
    BY <1>1, Registered
  <1>4. /\ t \in Timer /\ t.of = r /\ t.rangeId = new
        /\ t.message \in 1 .. d /\ t.message = NewTimer(r).message
    <2> HIDE DEF new
    <2> QED
      BY <1>1, <1>2, <1>3 DEF NewTimer, Timer
  <1>5. /\ timers' = Append(timers, t)
        /\ timerStack' = Append(timerStack, n)
        /\ ranges' = Added(ranges, FreeId, d)
        /\ calls' = {Shows(d, t.message)}
        /\ registeredStrings' = RegisterString(d, <<r>>)
        /\ UNCHANGED <<live, tsDomain, undefined>>
    BY <1>4 DEF RegionStartImpl
  <1> HIDE DEF t
  <1>6. /\ timers \in Seq(Timer) /\ Len(timers) \in Nat
        /\ DOMAIN timers = 1 .. Len(timers)
        /\ n \notin DOMAIN timers /\ n \in Nat
    BY <1>1, LenProperties DEF ToolTypeOK
  <1>7. /\ timers' \in Seq(Timer) /\ Len(timers') = n
        /\ \A i \in 1 .. Len(timers) : timers'[i] = timers[i]
        /\ timers'[n] = t
    BY <1>4, <1>5, <1>6, AppendProperties
  <1>8. DOMAIN timers' = DOMAIN timers \cup {n}
    BY <1>6, <1>7, LenProperties
  <1>9. /\ n \notin Showing /\ Showing' = Showing \cup {n}
        /\ \A j \in Showing : timers'[j].rangeId = timers[j].rangeId
    BY <1>2, <1>4, <1>6, <1>7, <1>8 DEF Showing
  <1>10. /\ RangesOwned' /\ Opens(n)
         /\ DOMAIN ranges' \subseteq Nat \ {0}
         /\ \A id \in DOMAIN ranges' : ranges'[id] \in 1 .. d
    <2>1. timers'[n].rangeId = FreeId
      BY <1>4, <1>7
    <2> QED
      BY <1>5, <1>9, <2>1, RangeOpened
  <1>11. CallsOn(d) /\ \A c \in calls' : c.what = "text"
    BY <1>4, <1>5 DEF CallsOn, Shows
  <1>12. /\ timerStack \in Seq(DOMAIN timers') /\ Len(timerStack) \in Nat
         /\ DOMAIN timerStack = 1 .. Len(timerStack)
    <2>1. timerStack \in Seq(DOMAIN timers)
      BY <1>1 DEF ToolTypeOK
    <2>2. timerStack \in Seq(DOMAIN timers')
      BY <1>8, <2>1, SeqMonotonic
    <2> QED
      BY <2>2, LenProperties
  <1>13. /\ timerStack' \in Seq(DOMAIN timers')
         /\ Len(timerStack') = Len(timerStack) + 1
         /\ \A m \in 1 .. Len(timerStack) : timerStack'[m] = timerStack[m]
         /\ timerStack'[Len(timerStack) + 1] = n
    BY <1>5, <1>8, <1>12, AppendProperties
  <1>14. DOMAIN timerStack' = 1 .. Len(timerStack) + 1
    BY <1>13, LenProperties
  <1>15. ToSet(timerStack') = ToSet(timerStack) \cup {n}
    <2>1. \A m \in DOMAIN timerStack' :
             m \in DOMAIN timerStack \/ m = Len(timerStack) + 1
      BY <1>12, <1>14
    <2>2. Len(timerStack) + 1 \in DOMAIN timerStack'
          /\ DOMAIN timerStack \subseteq DOMAIN timerStack'
      BY <1>12, <1>14
    <2> QED
      BY <1>12, <1>13, <2>1, <2>2 DEF ToSet
  <1>16. StackShows'
    <2>1. \A m \in DOMAIN timerStack : timerStack[m] \in DOMAIN timers
      BY DEF ToolInv, StackShows, ToSet, Showing
    <2>2. \A k, m \in DOMAIN timerStack' :
             timerStack'[k] = timerStack'[m] => k = m
      BY <1>6, <1>12, <1>13, <1>14, <2>1 DEF ToolInv, StackShows
    <2> QED
      BY <1>9, <1>15, <2>2 DEF ToolInv, StackShows
  <1>17. ToolTypeOK'
    <2>1. calls' \subseteq [on : Nat, what : {"text", "range"}, from : Nat]
      BY <1>1, <1>5, <1>11, TypeOfCalls
    <2>2. \A x \in DOMAIN registeredStrings' : registeredStrings'[x] \in 1 .. d
      BY <1>1, <1>5, Registered
    <2> QED
      BY <1>1, <1>5, <1>7, <1>10, <1>13, <2>1, <2>2 DEF ToolTypeOK
  <1>18. MessagesRegistered' /\ KeepsTimers
    BY <1>4, <1>5, <1>6, <1>7, <1>8 DEF ToolInv, MessagesRegistered, KeepsTimers
  <1> QED
    BY <1>4, <1>5, <1>6, <1>7, <1>8, <1>10, <1>11, <1>13, <1>15, <1>16, <1>17, <1>18
    DEF ToolInv

\* A transfer or command stops: the timer on top no longer shows.
LEMMA RegionStopStep ==
    ASSUME ToolInv, timerStack # <<>>, RegionStopImpl
    PROVE  /\ ToolInv' /\ KeepsTimers /\ DOMAIN timers' = DOMAIN timers
           /\ Last(timerStack) \in ToSet(timerStack) /\ Closes(Last(timerStack))
           /\ ToSet(timerStack') = ToSet(timerStack) \ {Last(timerStack)}
           /\ Len(timerStack') = Len(timerStack) - 1
           /\ CallsOn(tsDomain)
           /\ UNCHANGED <<live, tsDomain, undefined>>
  <1> DEFINE s == timerStack
             n == Len(s)
             i == Last(s)
  <1>1. s \in Seq(DOMAIN timers) /\ DOMAIN s = 1 .. n /\ n \in Nat \ {0}
    BY LenProperties, EmptySeq DEF ToolInv, ToolTypeOK
  <1>2. i = s[n] /\ n \in DOMAIN s
    BY <1>1 DEF Last
  <1>3. i \in ToSet(s) /\ i \in Showing
    BY <1>2 DEF ToSet, ToolInv, StackShows
  <1>4. /\ StopTimer(i)
        /\ s' = Front(s)
        /\ UNCHANGED <<live, tsDomain, registeredStrings, undefined>>
    BY DEF RegionStopImpl
  <1>5. /\ Front(s) \in Seq(DOMAIN timers)
        /\ Len(Front(s)) = n - 1
        /\ \A m \in 1 .. n - 1 : Front(s)[m] = s[m]
    <2>1. \A m \in 1 .. n - 1 : s[m] \in DOMAIN timers
      BY <1>1, ElementOfSeq
    <2>2. 1 \in Int /\ n - 1 \in Int
      BY <1>1
    <2>3. /\ SubSeq(s, 1, n - 1) \in Seq(DOMAIN timers)
          /\ Len(SubSeq(s, 1, n - 1)) = IF 1 <= n - 1 THEN (n - 1) - 1 + 1 ELSE 0
          /\ \A m \in 1 .. (n - 1) - 1 + 1 :
                SubSeq(s, 1, n - 1)[m] = s[1 + m - 1]
      BY <2>1, <2>2, SubSeqProperties
    <2> QED
      BY <1>1, <2>3 DEF Front
  <1>6. DOMAIN s' = 1 .. n - 1
    BY <1>4, <1>5, LenProperties
  <1>7. /\ ToolTypeOK' /\ RangesOwned' /\ MessagesRegistered' /\ Closes(i)
        /\ KeepsTimers /\ DOMAIN timers' = DOMAIN timers
        /\ CallsOn(tsDomain)
    <2>1. timerStack' \in Seq(DOMAIN timers)
      BY <1>4, <1>5
    <2> QED
      BY <1>3, <1>4, <2>1, TimerStopped
  <1>8. \A m \in 1 .. n - 1 : s'[m] = s[m] /\ s[m] # s[n]
    <2>1. \A m \in 1 .. n - 1 : m \in DOMAIN s /\ m # n
      <3> HIDE DEF n
      <3> QED
        BY <1>1
    <2>2. \A m \in DOMAIN s : s[m] = s[n] => m = n
      BY <1>2 DEF ToolInv, StackShows
    <2> QED
      BY <1>4, <1>5, <2>1, <2>2
  <1>9. ToSet(s') = ToSet(s) \ {i}
    <2>1. \A m \in DOMAIN s : m = n \/ m \in 1 .. n - 1
      BY <1>1
    <2>2. 1 .. n - 1 \subseteq DOMAIN s
      BY <1>1
    <2> QED
      BY <1>2, <1>6, <1>8, <2>1, <2>2 DEF ToSet
  <1>10. StackShows'
    <2>1. \A k, m \in DOMAIN s' : s'[k] = s'[m] => k = m
      BY <1>1, <1>6, <1>8 DEF ToolInv, StackShows
    <2> QED
      BY <1>7, <1>9, <2>1 DEF ToolInv, StackShows, Closes
  <1> QED
    BY <1>3, <1>4, <1>5, <1>7, <1>9, <1>10 DEF ToolInv
=============================================================================
