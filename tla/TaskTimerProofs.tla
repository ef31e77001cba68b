-------------------------- MODULE TaskTimerProofs --------------------------
(***************************************************************************)
(* Proofs about TaskTimer for every set of threads, tools, tasks and       *)
(* environments that satisfy its assumptions.                              *)
(***************************************************************************)
EXTENDS TaskTimer, Naturals, TLAPS

\* The chain of stores starts at initialize, stays among the pointers and
\* ends at done.
LEMMA SlotFacts ==
    /\ "initialize" \in Pointers
    /\ NextSlot["initialize"] \in Pointers
    /\ \A s \in Pointers : NextSlot[s] = "done" \/ NextSlot[s] \in Pointers
  BY DEF Pointers, NextSlot

\* What the dynamic linker knows is well typed.
LEMMA EnvFacts ==
    ASSUME TypeOK
    PROVE  /\ env.global \in [Pointers -> Tools \cup {NULL}]
           /\ env.library \in Tools \cup {NULL}
           /\ env.resident \in BOOLEAN
           /\ env.loads \subseteq BOOLEAN
  BY LoadAssumption DEF TypeOK, Environment

\* The search order gives a tool or nothing.
LEMMA ResolveFacts ==
    ASSUME TypeOK, NEW s \in Pointers
    PROVE  Resolve(s) \in Tools \cup {NULL}
  BY EnvFacts DEF Resolve

-----------------------------------------------------------------------------
(***************************************************************************)
(* Type correctness.                                                       *)
(***************************************************************************)

LEMMA InitTypeOK == Init => TypeOK
  <1> SUFFICES ASSUME Init PROVE TypeOK
    OBVIOUS
  <1>1. env \in Environments /\ resident \in BOOLEAN
    BY LoadAssumption DEF Init, LoaderInit, Environment
  <1> QED
    BY <1>1, SlotFacts DEF Init, LoaderInit, TypeOK, Resolving

\* A step of get_symbol keeps the types.
LEMMA GetSymbolTypeOK ==
    ASSUME TypeOK, NEW t \in Threads, LoadSymbol(t)
    PROVE  TypeOK'
  <1> USE EnvFacts DEF TypeOK, Resolving, Goto
  <1> UNCHANGED <<func, initialized, returned, timer, arg>>
    BY DEF LoadSymbol
  <1>1. CASE LookupGlobal(t)
    BY <1>1 DEF LookupGlobal
  <1>2. CASE CheckHandle(t)
    BY <1>2 DEF CheckHandle
  <1>3. CASE GetLibrary(t)
    <2>1. env' = env /\ library_handle' = library_handle /\ slot' = slot
      BY <1>3 DEF GetLibrary
    <2>2. pc' \in [Threads -> Resolving \cup {"idle", "init", "call"}]
      BY <1>3 DEF GetLibrary
    <2>3. ret' \in [Threads -> Tools \cup {NULL}] /\ resident' \in BOOLEAN
      BY <1>3 DEF GetLibrary
    <2> QED
      BY <2>1, <2>2, <2>3
  <1>4. CASE StoreHandle(t)
    BY <1>4 DEF StoreHandle
  <1>5. CASE LookupLibrary(t)
    BY <1>5 DEF LookupLibrary
  <1> QED
    BY <1>1, <1>2, <1>3, <1>4, <1>5 DEF LoadSymbol, GetSymbol

\* The timer the application is left with is a tool's, null or none.
LEMMA TimerAfterType ==
    ASSUME TypeOK, NEW s \in Pointers, NEW k \in Tasks \cup {NULL},
           NEW result \in Tools \cup {NULL}
    PROVE  TimerAfter(s, k, result) \in [Tasks -> Tools \cup {NULL, NoTimer}]
  BY DEF TypeOK, TimerAfter

\* A wrapper keeps the types.
LEMMA WrapperTypeOK ==
    ASSUME TypeOK, NEW t \in Threads, NEW s \in Pointers,
           NEW k \in Tasks \cup {NULL},
           CallUnbound(t, s, k) \/ CallBound(t, s, k)
    PROVE  TypeOK'
  <1>1. CASE CallUnbound(t, s, k)
    <2>1. timer' \in [Tasks -> Tools \cup {NULL, NoTimer}]
      BY <1>1, TimerAfterType DEF CallUnbound
    <2> QED
      BY <1>1, <2>1 DEF CallUnbound, TypeOK, loaderVars
  <1>2. CASE CallBound(t, s, k)
    BY <1>2 DEF CallBound, TypeOK, Goto
  <1> QED
    BY <1>1, <1>2

\* Only the tool's initialize being called through a null pointer could
\* spoil the types, and NoNullCall excludes that.
LEMMA NextTypeOK == TypeOK /\ NoNullCall /\ [Next]_vars => TypeOK'
  <1> SUFFICES ASSUME TypeOK, NoNullCall, [Next]_vars PROVE TypeOK'
    OBVIOUS
  <1>1. CASE UNCHANGED vars
    BY <1>1 DEF vars, loaderVars, TypeOK
  <1>2. ASSUME NEW t \in Threads, Step(t) PROVE TypeOK'
    <2>1. CASE Initialize(t)
      BY <2>1, SlotFacts DEF Initialize, TypeOK, Resolving, Goto
    <2>2. CASE LoadSymbol(t)
      BY <2>2, GetSymbolTypeOK
    <2>3. CASE StoreFunc(t)
      <3>1. func' \in [Pointers -> Tools \cup {NULL}]
        BY <2>3 DEF StoreFunc, TypeOK
      <3>2. pc' \in [Threads -> Resolving \cup {"idle", "init", "call"}]
        BY <2>3 DEF StoreFunc, TypeOK, Resolving, Goto
      <3>3. slot' \in [Threads -> Pointers] /\ returned' \in BOOLEAN
        BY <2>3, SlotFacts DEF StoreFunc, TypeOK
      <3> QED
        BY <2>3, <3>1, <3>2, <3>3 DEF StoreFunc, TypeOK
    <2>4. CASE RunToolInit(t)
      <3>1. func["initialize"] \in Tools
        BY <2>4, SlotFacts DEF RunToolInit, TypeOK, NoNullCall
      <3> QED
        BY <2>4, <3>1, SlotFacts DEF RunToolInit, TypeOK, Resolving, Goto
    <2>5. ASSUME NEW s \in Pointers, NEW k \in Tasks \cup {NULL},
                 CallUnbound(t, s, k) \/ CallBound(t, s, k)
          PROVE  TypeOK'
      BY <2>5, WrapperTypeOK
    <2>6. CASE CallTool(t)
      <3>1. timer' \in [Tasks -> Tools \cup {NULL, NoTimer}]
        BY <2>6, TimerAfterType DEF CallTool, TypeOK
      <3> QED
        BY <2>6, <3>1 DEF CallTool, TypeOK, Goto
    <2> QED
      BY <1>2, <2>1, <2>2, <2>3, <2>4, <2>5, <2>6
      DEF Step, InitializeStep
  <1> QED
    BY <1>1, <1>2 DEF Next
-----------------------------------------------------------------------------
(***************************************************************************)
(* The inductive invariant of the loader.                                  *)
(***************************************************************************)

LEMMA InitLoaderInv == Init => LoaderInv
  <1> SUFFICES ASSUME Init PROVE LoaderInv
    OBVIOUS
  <1>1. env \in Environment
    BY LoadAssumption DEF Init, LoaderInit
  <1>2. HandleResident
    BY <1>1 DEF Init, LoaderInit, HandleResident
  <1> QED
    BY <1>2 DEF Init, LoaderInit, LoaderInv, OnlyInitialisersResolve,
                HandleBehindBinding, MissedGlobally, FailureShown,
                FoundAsResolved, BoundAsResolved, NoNullCall

\* Two initialisers cannot disagree on whether the library can be opened:
\* what one of them proved of the environment the other cannot refute.
LEMMA OpeningAgrees ==
    ASSUME TypeOK, LoaderInv, MayFail, env.library # NULL, resident,
           NEW t \in Initialisers, NEW u \in Initialisers
    PROVE  t = u
  BY LoadAssumption DEF TypeOK, LoaderInv, HandleResident, MayFail

\* In get_symbol a thread changes its own locals only, a handle is never
\* lost once there is one, and a mapped library stays mapped.
LEMMA GetSymbolFrame ==
    ASSUME TypeOK, LoaderInv, NEW t \in Threads, LoadSymbol(t)
    PROVE  /\ UNCHANGED <<env, func, slot>>
           /\ \A u \in Threads \ {t} : pc'[u] = pc[u] /\ ret'[u] = ret[u]
           /\ pc[t] \in Resolving /\ pc'[t] \in Resolving
           /\ library_handle # NULL => library_handle' = library_handle
           /\ resident => resident'
  <1> USE DEF TypeOK, Goto, Resolving
  <1>1. CASE LookupGlobal(t)
    BY <1>1 DEF LookupGlobal, LoadSymbol
  <1>2. CASE CheckHandle(t)
    BY <1>2 DEF CheckHandle, LoadSymbol
  <1>3. CASE GetLibrary(t)
    BY <1>3 DEF GetLibrary, LoadSymbol
  <1>4. CASE StoreHandle(t)
    BY <1>4 DEF StoreHandle, LoadSymbol, LoaderInv, HandleResident, FailureShown
  <1>5. CASE LookupLibrary(t)
    BY <1>5 DEF LookupLibrary, LoadSymbol
  <1> QED
    BY <1>1, <1>2, <1>3, <1>4, <1>5 DEF LoadSymbol, GetSymbol

\* A thread that fails to open the library has seen why; nobody else can
\* have stored a handle in the meantime.
LEMMA GetSymbolFailureShown ==
    ASSUME TypeOK, LoaderInv, NEW t \in Threads, LoadSymbol(t)
    PROVE  FailureShown'
  <1> SUFFICES ASSUME NEW u \in Threads
               PROVE  /\ (pc[u] = "publish")' =>
                            /\ ret'[u] \in {NULL, env.library}
                            /\ ret'[u] # NULL => resident'
                            /\ ret'[u] = NULL => MayFail /\ library_handle' = NULL
                      /\ (pc[u] = "scan" /\ library_handle = NULL)' => MayFail
    BY GetSymbolFrame DEF FailureShown, MayFail
  <1> USE DEF TypeOK, Goto
  <1>1. CASE LookupGlobal(t)
    BY <1>1, GetSymbolFrame DEF LookupGlobal, LoaderInv, FailureShown
  <1>2. CASE CheckHandle(t)
    BY <1>2, GetSymbolFrame DEF CheckHandle, LoaderInv, FailureShown
  <1>3. CASE GetLibrary(t)
    <2>1. CASE env.library = NULL \/ resident
      BY <1>3, <2>1, EnvFacts, GetSymbolFrame
      DEF GetLibrary, LoaderInv, HandleResident, FailureShown, MayFail
    <2>2. CASE env.library # NULL /\ ~resident
      <3>1. PICK opened \in env.loads :
               /\ ret' = [ret EXCEPT ![t] = IF opened THEN env.library ELSE NULL]
               /\ resident' = opened
        BY <1>3, <2>2 DEF GetLibrary
      <3>2. library_handle' = NULL /\ ~env.resident
        BY <1>3, <2>2 DEF GetLibrary, LoaderInv, HandleResident
      <3>3. pc'[t] = "publish"
        BY <1>3 DEF GetLibrary
      <3>4. CASE u = t
        BY <2>2, <3>1, <3>2, <3>3, <3>4, EnvFacts DEF MayFail
      <3>5. CASE u # t
        BY <3>2, <3>5, GetSymbolFrame DEF LoaderInv, FailureShown, HandleResident
      <3> QED
        BY <3>4, <3>5
    <2> QED
      BY <2>1, <2>2
  <1>4. CASE StoreHandle(t)
    <2>1. ret[t] \in {NULL, env.library} /\ (ret[t] # NULL => resident)
      BY <1>4 DEF StoreHandle, LoaderInv, FailureShown
    <2>2. u # t /\ pc[u] = "publish" /\ ret[u] = NULL => ret[t] = NULL
      BY <1>4, <2>1, OpeningAgrees
      DEF StoreHandle, LoaderInv, FailureShown, OnlyInitialisersResolve
    <2> QED
      BY <1>4, <2>1, <2>2, GetSymbolFrame DEF StoreHandle, LoaderInv, FailureShown
  <1>5. CASE LookupLibrary(t)
    BY <1>5, GetSymbolFrame DEF LookupLibrary, LoaderInv, FailureShown
  <1> QED
    BY <1>1, <1>2, <1>3, <1>4, <1>5 DEF LoadSymbol, GetSymbol

\* What get_symbol is about to return is what the search order gives, and
\* it is NULL only for a pointer that is still null.
LEMMA GetSymbolFoundAsResolved ==
    ASSUME TypeOK, LoaderInv, NEW t \in Threads, LoadSymbol(t)
    PROVE  FoundAsResolved'
  <1> SUFFICES ASSUME NEW u \in Threads, pc'[u] = "store"
               PROVE  /\ ret'[u] \in {NULL, Resolve(slot[u])}
                      /\ ret'[u] = NULL =>
                            /\ env.global[slot[u]] = NULL
                            /\ slot[u] \in env.exports => MayFail
                            /\ func[slot[u]] = NULL
                      /\ ret'[u] # NULL /\ env.global[slot[u]] = NULL
                            => library_handle' # NULL
    BY GetSymbolFrame DEF FoundAsResolved, Resolve, MayFail
  <1> USE DEF TypeOK, Goto
  <1>1. CASE u # t
    BY <1>1, GetSymbolFrame DEF LoaderInv, FoundAsResolved
  <1>2. CASE u = t /\ LookupGlobal(t)
    BY <1>2 DEF LookupGlobal, Resolve
  <1>3. CASE u = t /\ LookupLibrary(t)
    <2>1. env.global[slot[t]] = NULL
      BY <1>3 DEF LookupLibrary, LoaderInv, MissedGlobally
    <2>2. library_handle \in {NULL, env.library}
      BY DEF LoaderInv, HandleResident
    <2>3. library_handle = NULL => MayFail /\ func[slot[t]] = NULL
      BY <1>3, <2>1
      DEF LookupLibrary, LoaderInv, FailureShown, HandleBehindBinding
    <2>4. slot[t] \notin env.exports => func[slot[t]] = NULL
      BY <2>1 DEF LoaderInv, BoundAsResolved, Resolve
    <2>5. ret'[t] = IF slot[t] \in env.exports THEN library_handle ELSE NULL
      BY <1>3 DEF LookupLibrary
    <2>6. library_handle' = library_handle
      BY <1>3 DEF LookupLibrary
    <2> QED
      BY <1>3, <2>1, <2>2, <2>3, <2>4, <2>5, <2>6 DEF Resolve
  <1>4. CASE u = t /\ (CheckHandle(t) \/ GetLibrary(t) \/ StoreHandle(t))
    BY <1>4 DEF CheckHandle, GetLibrary, StoreHandle
  <1> QED
    BY <1>1, <1>2, <1>3, <1>4 DEF LoadSymbol, GetSymbol

\* The steps of get_symbol keep the invariant.
LEMMA GetSymbolLoaderInv ==
    ASSUME TypeOK, LoaderInv, NEW t \in Threads, LoadSymbol(t)
    PROVE  LoaderInv'
  <1> USE GetSymbolFrame
  <1>1. OnlyInitialisersResolve'
    BY DEF LoaderInv, OnlyInitialisersResolve, Resolving
  <1>2. HandleResident'
    <2>1. CASE GetLibrary(t)
      <3>1. env.resident \/ resident => resident'
        BY <2>1 DEF GetLibrary, LoaderInv, HandleResident
      <3>2. resident' => resident \/ TRUE \in env.loads
        BY <2>1, EnvFacts DEF GetLibrary, TypeOK
      <3>3. library_handle' = library_handle
        BY <2>1 DEF GetLibrary
      <3> QED
        BY <3>1, <3>2, <3>3 DEF LoaderInv, HandleResident
    <2>2. CASE StoreHandle(t)
      <3>1. /\ ret[t] \in {NULL, env.library}
            /\ ret[t] # NULL => resident
        BY <2>2 DEF StoreHandle, LoaderInv, FailureShown
      <3>2. env' = env /\ resident' = resident /\ library_handle' = ret[t]
        BY <2>2 DEF StoreHandle
      <3> QED
        BY <3>1, <3>2 DEF LoaderInv, HandleResident
    <2>3. CASE LookupGlobal(t) \/ CheckHandle(t) \/ LookupLibrary(t)
      <3>1. env' = env /\ resident' = resident /\ library_handle' = library_handle
        BY <2>3 DEF LookupGlobal, CheckHandle, LookupLibrary
      <3> QED
        BY <3>1 DEF LoaderInv, HandleResident
    <2> QED
      BY <2>1, <2>2, <2>3 DEF LoadSymbol, GetSymbol
  <1>3. HandleBehindBinding'
    BY DEF LoaderInv, HandleBehindBinding
  <1>4. MissedGlobally'
    <2>1. env.global[slot[t]] = NULL \/ pc'[t] = "store"
      BY DEF LoadSymbol, GetSymbol, LookupGlobal, CheckHandle, GetLibrary,
             StoreHandle, LookupLibrary, LoaderInv, MissedGlobally, Goto, TypeOK
    <2> QED
      BY <2>1 DEF LoaderInv, MissedGlobally
  <1>5. BoundAsResolved' /\ NoNullCall'
    BY DEF LoaderInv, BoundAsResolved, NoNullCall, Resolve, Resolving
  <1> QED
    BY <1>1, <1>2, <1>3, <1>4, <1>5, GetSymbolFailureShown,
       GetSymbolFoundAsResolved DEF LoaderInv

\* The store of a symbol keeps the invariant: it never undoes a binding.
LEMMA StoreFuncKeepsBound ==
    ASSUME TypeOK, LoaderInv, NEW t \in Threads, StoreFunc(t)
    PROVE  /\ func[slot[t]] # NULL => func' = func
           /\ UNCHANGED <<env, resident, library_handle, ret>>
           /\ \A u \in Threads \ {t} : pc'[u] = pc[u] /\ slot'[u] = slot[u]
           /\ pc[t] = "store" /\ pc'[t] \in {"idle", "init", "lookup"}
           /\ func' = [func EXCEPT ![slot[t]] = ret[t]]
           /\ ret[t] \in {NULL, Resolve(slot[t])}
           /\ pc'[t] = "init" => slot[t] = "initialize" /\ ret[t] # NULL
  <1> USE DEF TypeOK, Goto
  <1>1. /\ UNCHANGED <<env, resident, library_handle, ret>>
        /\ \A u \in Threads \ {t} : pc'[u] = pc[u] /\ slot'[u] = slot[u]
        /\ pc[t] = "store" /\ pc'[t] \in {"idle", "init", "lookup"}
        /\ func' = [func EXCEPT ![slot[t]] = ret[t]]
        /\ pc'[t] = "init" => slot[t] = "initialize" /\ ret[t] # NULL
    BY DEF StoreFunc
  <1>2. /\ ret[t] \in {NULL, Resolve(slot[t])}
        /\ func[slot[t]] # NULL => ret[t] # NULL
    BY <1>1 DEF LoaderInv, FoundAsResolved
  <1>3. func[slot[t]] \in {NULL, Resolve(slot[t])}
    BY DEF LoaderInv, BoundAsResolved
  <1> QED
    BY <1>1, <1>2, <1>3

LEMMA StoreFuncLoaderInv ==
    ASSUME TypeOK, LoaderInv, NEW t \in Threads, StoreFunc(t)
    PROVE  LoaderInv'
  <1> /\ func[slot[t]] # NULL => func' = func
      /\ env' = env /\ resident' = resident
      /\ library_handle' = library_handle /\ ret' = ret
      /\ \A u \in Threads \ {t} : pc'[u] = pc[u] /\ slot'[u] = slot[u]
      /\ pc[t] = "store" /\ pc'[t] \in {"idle", "init", "lookup"}
      /\ func' = [func EXCEPT ![slot[t]] = ret[t]]
      /\ ret[t] \in {NULL, Resolve(slot[t])}
      /\ pc'[t] = "init" => slot[t] = "initialize" /\ ret[t] # NULL
    BY StoreFuncKeepsBound
  <1> /\ slot[t] \in Pointers /\ func \in [Pointers -> Tools \cup {NULL}]
      /\ \A u \in Threads : slot[u] \in Pointers
    BY DEF TypeOK
  <1>1. OnlyInitialisersResolve'
    BY DEF LoaderInv, OnlyInitialisersResolve
  <1>2. HandleResident'
    BY DEF LoaderInv, HandleResident
  <1>3. HandleBehindBinding'
    BY DEF LoaderInv, HandleBehindBinding, FoundAsResolved
  <1>4. MissedGlobally'
    BY DEF LoaderInv, MissedGlobally
  <1>5. FailureShown'
    BY DEF LoaderInv, FailureShown, MayFail
  <1>6. FoundAsResolved'
    <2> SUFFICES ASSUME NEW u \in Threads \ {t}, pc[u] = "store", ret[u] = NULL
                 PROVE  func'[slot[u]] = NULL
      BY DEF LoaderInv, FoundAsResolved, Resolve, MayFail
    <2>1. /\ env.global[slot[u]] = NULL
          /\ slot[u] \in env.exports => MayFail
          /\ func[slot[u]] = NULL
      BY DEF LoaderInv, FoundAsResolved
    <2>2. CASE slot[u] # slot[t] \/ ret[t] = NULL
      BY <2>1, <2>2
    <2>3. CASE slot[u] = slot[t] /\ ret[t] # NULL
      <3>1. ret[t] = env.library /\ env.library # NULL /\ slot[t] \in env.exports
        BY <2>1, <2>3 DEF Resolve
      <3>2. library_handle # NULL /\ resident
        BY <2>1, <2>3 DEF LoaderInv, FoundAsResolved, HandleResident
      <3>3. u = t
        BY <2>1, <2>3, <3>1, <3>2, OpeningAgrees
        DEF LoaderInv, OnlyInitialisersResolve
      <3> QED
        BY <3>3
    <2> QED
      BY <2>2, <2>3
  <1>7. BoundAsResolved'
    BY DEF LoaderInv, BoundAsResolved, Resolve
  <1>8. NoNullCall'
    BY SlotFacts DEF LoaderInv, NoNullCall
  <1> QED
    BY <1>1, <1>2, <1>3, <1>4, <1>5, <1>6, <1>7, <1>8 DEF LoaderInv

\* The other steps touch neither the pointers nor the handle, and enter the
\* loader only through the door of an initialiser.
LEMMA OtherLoaderInv ==
    ASSUME TypeOK, LoaderInv, NEW t \in Threads,
           env' = env, resident' = resident, func' = func,
           library_handle' = library_handle, ret' = ret,
           \A u \in Threads \ {t} : pc'[u] = pc[u] /\ slot'[u] = slot[u],
           \/ pc'[t] = "idle"
           \/ pc'[t] = "lookup" /\ t \in Initialisers
           \/ pc'[t] = "call" /\ func[slot'[t]] # NULL
           \/ pc'[t] = pc[t] /\ slot'[t] = slot[t]
    PROVE  LoaderInv'
  <1>1. OnlyInitialisersResolve'
    BY DEF LoaderInv, OnlyInitialisersResolve
  <1>2. HandleResident' /\ HandleBehindBinding'
    BY DEF LoaderInv, HandleResident, HandleBehindBinding
  <1>3. MissedGlobally'
    BY DEF LoaderInv, MissedGlobally
  <1>4. FailureShown'
    <2> SUFFICES ASSUME NEW u \in Threads, pc'[u] \in {"publish", "scan"}
                 PROVE  pc[u] = pc'[u]
      BY DEF LoaderInv, FailureShown, MayFail
    <2> QED
      OBVIOUS
  <1>5. FoundAsResolved'
    <2> SUFFICES ASSUME NEW u \in Threads, pc'[u] = "store"
                 PROVE  /\ ret[u] \in {NULL, Resolve(slot'[u])}
                        /\ ret[u] = NULL =>
                              /\ env.global[slot'[u]] = NULL
                              /\ slot'[u] \in env.exports => MayFail
                              /\ func[slot'[u]] = NULL
                        /\ ret[u] # NULL /\ env.global[slot'[u]] = NULL =>
                              library_handle # NULL
      BY DEF FoundAsResolved, Resolve, MayFail
    <2>1. pc[u] = "store" /\ slot'[u] = slot[u]
      OBVIOUS
    <2> QED
      BY <2>1 DEF LoaderInv, FoundAsResolved
  <1>6. BoundAsResolved'
    BY DEF LoaderInv, BoundAsResolved, Resolve
  <1>7. NoNullCall'
    BY DEF LoaderInv, NoNullCall
  <1> QED
    BY <1>1, <1>2, <1>3, <1>4, <1>5, <1>6, <1>7 DEF LoaderInv

LEMMA NextLoaderInv == TypeOK /\ LoaderInv /\ [Next]_vars => LoaderInv'
  <1> SUFFICES ASSUME TypeOK, LoaderInv, [Next]_vars PROVE LoaderInv'
    OBVIOUS
  <1>1. CASE UNCHANGED vars
    BY <1>1
    DEF vars, loaderVars, LoaderInv, OnlyInitialisersResolve, HandleResident,
        HandleBehindBinding, MissedGlobally, FailureShown, FoundAsResolved,
        BoundAsResolved, NoNullCall, Resolve, MayFail
  <1>2. ASSUME NEW t \in Threads, Step(t) PROVE LoaderInv'
    <2> USE DEF TypeOK, Goto
    <2>1. CASE Initialize(t)
      BY <2>1, OtherLoaderInv DEF Initialize
    <2>2. CASE LoadSymbol(t)
      BY <2>2, GetSymbolLoaderInv
    <2>3. CASE StoreFunc(t)
      BY <2>3, StoreFuncLoaderInv
    <2>4. CASE RunToolInit(t)
      <3>1. t \in Initialisers
        BY <2>4 DEF RunToolInit, LoaderInv, OnlyInitialisersResolve
      <3> QED
        BY <2>4, <3>1, OtherLoaderInv DEF RunToolInit
    <2>5. ASSUME NEW s \in Pointers, NEW k \in Tasks \cup {NULL},
                 CallUnbound(t, s, k) \/ CallBound(t, s, k)
          PROVE  LoaderInv'
      <3>1. CASE CallUnbound(t, s, k)
        BY <3>1, OtherLoaderInv DEF CallUnbound, loaderVars
      <3>2. CASE CallBound(t, s, k)
        BY <3>2, OtherLoaderInv DEF CallBound
      <3> QED
        BY <2>5, <3>1, <3>2
    <2>6. CASE CallTool(t)
      BY <2>6, OtherLoaderInv DEF CallTool
    <2> QED
      BY <1>2, <2>1, <2>2, <2>3, <2>4, <2>5, <2>6 DEF Step, InitializeStep
  <1> QED
    BY <1>1, <1>2 DEF Next
-----------------------------------------------------------------------------
(***************************************************************************)
(* The theorems.                                                           *)
(***************************************************************************)

\* The loader's invariant and the types hold in every reachable state:
\* tasktimer_initialize may run any number of times, beside any calls of the
\* wrappers, on one thread or, where opening always ends alike, on several.
THEOREM LoaderInvariant == Spec => [](TypeOK /\ LoaderInv)
  <1>1. Init => TypeOK /\ LoaderInv
    BY InitTypeOK, InitLoaderInv
  <1>2. TypeOK /\ LoaderInv /\ [Next]_vars => (TypeOK /\ LoaderInv)'
    <2>1. LoaderInv => NoNullCall
      BY DEF LoaderInv
    <2> QED
      BY <2>1, NextTypeOK, NextLoaderInv
  <1> QED
    BY <1>1, <1>2, PTL DEF Spec

\* The state is always well typed; in particular NULL is never taken for a
\* tool that was initialised.
THEOREM TypeCorrect == Spec => []TypeOK
  BY LoaderInvariant, PTL

\* The wrappers and tasktimer_initialize never call through a null pointer,
\* although they read the pointer again after they tested it.
THEOREM NoNullCallEver == Spec => []NoNullCall
  <1>1. LoaderInv => NoNullCall
    BY DEF LoaderInv
  <1> QED
    BY <1>1, LoaderInvariant, PTL

\* Every bound pointer leads to the tool that the search order names: the
\* global scope first, then the library of the environment variable.
THEOREM BoundAsResolvedEver == Spec => []BoundAsResolved
  <1>1. LoaderInv => BoundAsResolved
    BY DEF LoaderInv
  <1> QED
    BY <1>1, LoaderInvariant, PTL

\* A step keeps every binding there is.
LEMMA NextKeepsBindings ==
    TypeOK /\ LoaderInv /\ [Next]_vars =>
        \A s \in Pointers : func[s] # NULL => func'[s] = func[s]
  <1> SUFFICES ASSUME TypeOK, LoaderInv, [Next]_vars,
                      NEW s \in Pointers, func[s] # NULL
               PROVE  func'[s] = func[s]
    OBVIOUS
  <1>1. CASE UNCHANGED vars
    BY <1>1 DEF vars
  <1>2. ASSUME NEW t \in Threads, Step(t) PROVE func'[s] = func[s]
    <2>1. CASE StoreFunc(t)
      <3>1. /\ func[slot[t]] # NULL => func' = func
            /\ func' = [func EXCEPT ![slot[t]] = ret[t]]
        BY <2>1, StoreFuncKeepsBound
      <3> QED
        BY <3>1 DEF TypeOK
    <2>2. CASE ~StoreFunc(t)
      BY <1>2, <2>2
      DEF Step, InitializeStep, Initialize, LoadSymbol, RunToolInit,
          CallUnbound, CallBound, CallTool
    <2> QED
      BY <2>1, <2>2
  <1> QED
    BY <1>1, <1>2 DEF Next

\* A pointer that led to a tool leads to it for good: no store of a later
\* or concurrent tasktimer_initialize undoes or redirects it.
THEOREM BindingsAreStable == Spec => StableBinding
  <1>1. TypeOK /\ LoaderInv /\ [Next]_vars =>
            [\A s \in Pointers : func[s] # NULL => func'[s] = func[s]]_vars
    BY NextKeepsBindings
  <1> QED
    BY <1>1, LoaderInvariant, PTL DEF Spec, StableBinding

-----------------------------------------------------------------------------
(***************************************************************************)
(* The tool runs first.                                                    *)
(***************************************************************************)

LEMMA InitToolFirst == Init => ToolFirst
  BY SlotFacts DEF Init, LoaderInit, ToolFirst, Resolving

LEMMA NextToolFirst ==
    TypeOK /\ LoaderInv /\ ToolFirst /\ [Next]_vars => ToolFirst'
  <1> SUFFICES ASSUME TypeOK, LoaderInv, ToolFirst, [Next]_vars
               PROVE  ToolFirst'
    OBVIOUS
  <1>1. CASE UNCHANGED vars
    BY <1>1 DEF vars, loaderVars, ToolFirst, Resolve
  <1>2. ASSUME NEW t \in Threads, Step(t) PROVE ToolFirst'
    <2> USE DEF TypeOK, Goto, Resolving
    <2>1. CASE Initialize(t)
      BY <2>1 DEF Initialize, ToolFirst, Resolve
    <2>2. CASE LoadSymbol(t)
      <3>1. /\ env' = env /\ func' = func /\ slot' = slot
            /\ initialized' = initialized
            /\ \A u \in Threads \ {t} : pc'[u] = pc[u]
            /\ pc[t] \in Resolving
        BY <2>2, GetSymbolFrame DEF LoadSymbol
      <3> QED
        BY <3>1 DEF ToolFirst, Resolve
    <2>3. CASE StoreFunc(t)
      <3>1. /\ env' = env /\ initialized' = initialized
            /\ \A u \in Threads \ {t} : pc'[u] = pc[u] /\ slot'[u] = slot[u]
            /\ pc[t] = "store"
            /\ func' = [func EXCEPT ![slot[t]] = ret[t]]
        BY <2>3, StoreFuncKeepsBound DEF StoreFunc
      <3>2. pc'[t] \in Resolving => slot[t] # "initialize"
        BY <2>3 DEF StoreFunc
      <3>3. slot[t] # "initialize" => initialized # {}
        BY <3>1 DEF ToolFirst
      <3> QED
        BY <3>1, <3>2, <3>3 DEF ToolFirst, Resolve
    <2>4. CASE RunToolInit(t)
      <3>1. func["initialize"] = Resolve("initialize") /\ func["initialize"] # NULL
        BY <2>4, SlotFacts DEF RunToolInit, LoaderInv, BoundAsResolved, NoNullCall
      <3>2. env' = env /\ initialized' = initialized \cup {func["initialize"]}
        BY <2>4 DEF RunToolInit
      <3> QED
        BY <3>1, <3>2 DEF ToolFirst, Resolve
    <2>5. ASSUME NEW s \in Pointers, NEW k \in Tasks \cup {NULL},
                 CallUnbound(t, s, k) \/ CallBound(t, s, k)
          PROVE  ToolFirst'
      BY <2>5 DEF CallUnbound, CallBound, loaderVars, ToolFirst, Resolve
    <2>6. CASE CallTool(t)
      BY <2>6 DEF CallTool, ToolFirst, Resolve
    <2> QED
      BY <1>2, <2>1, <2>2, <2>3, <2>4, <2>5, <2>6 DEF Step, InitializeStep
  <1> QED
    BY <1>1, <1>2 DEF Next

\* No pointer but initialize is looked up, let alone bound, before the tool
\* that initialize resolves to has been initialised.
THEOREM ToolRunsFirst == Spec => []ToolFirst
  BY InitToolFirst, NextToolFirst, LoaderInvariant, PTL DEF Spec

\* Where the global scope and the library do not offer two tools, no tool
\* function can be reached before that tool was initialised.
THEOREM OneToolIsInitializedFirst == Spec => []OneToolInitializedFirst
  <1>1. LoaderInv /\ ToolFirst => OneToolInitializedFirst
    BY SlotFacts DEF LoaderInv, BoundAsResolved, ToolFirst,
                     OneToolInitializedFirst, OneTool, InitializedBeforeBound
  <1> QED
    BY <1>1, LoaderInvariant, ToolRunsFirst, PTL

-----------------------------------------------------------------------------
(***************************************************************************)
(* TaskTimer implements DispatchTable.                                     *)
(***************************************************************************)

LEMMA InitImplements == Init => Table!Init
  <1> SUFFICES ASSUME Init PROVE Table!Init
    OBVIOUS
  <1>1. TypeOK
    BY InitTypeOK
  <1>2. \A s \in Pointers : Resolve(s) \in Tools \cup {NULL}
    BY <1>1, ResolveFacts
  <1> QED
    BY <1>2 DEF Init, Table!Init

LEMMA NextImplements ==
    TypeOK /\ LoaderInv /\ ToolFirst /\ [Next]_vars => [Table!Next]_Table!vars
  <1> SUFFICES ASSUME TypeOK, LoaderInv, ToolFirst, [Next]_vars
               PROVE  Table!Next \/ Table!vars' = Table!vars
    OBVIOUS
  <1>1. ASSUME UNCHANGED <<env, func, initialized>>
        PROVE  Table!vars' = Table!vars
    BY <1>1 DEF Table!vars, Resolve
  <1>2. ASSUME NEW t \in Threads, StoreFunc(t)
        PROVE  Table!Next \/ Table!vars' = Table!vars
    <2>1. /\ env' = env /\ initialized' = initialized
          /\ func[slot[t]] # NULL => func' = func
          /\ func' = [func EXCEPT ![slot[t]] = ret[t]]
          /\ ret[t] \in {NULL, Resolve(slot[t])}
          /\ pc[t] = "store"
      BY <1>2, StoreFuncKeepsBound DEF StoreFunc
    <2>2. slot[t] \in Pointers /\ func \in [Pointers -> Tools \cup {NULL}]
      BY DEF TypeOK
    <2>3. CASE func' = func
      BY <1>1, <2>1, <2>3
    <2>4. CASE slot[t] = "initialize"
      BY <2>1, <2>2, <2>4 DEF Table!vars, Resolve
    <2>5. CASE func' # func /\ slot[t] # "initialize"
      <3>1. func[slot[t]] = NULL /\ ret[t] = Resolve(slot[t]) /\ ret[t] # NULL
        BY <2>1, <2>2, <2>5
      <3>2. initialized # {}
        BY <2>1, <2>5 DEF ToolFirst, Resolving
      <3>3. PICK s \in Pointers \ {"initialize"} : s = slot[t]
        BY <2>2, <2>5
      <3>4. Table!Bind(s)
        BY <2>1, <2>2, <3>1, <3>2, <3>3 DEF Table!Bind, Resolve
      <3> QED
        BY <3>4 DEF Table!Next
    <2> QED
      BY <2>3, <2>4, <2>5
  <1>3. ASSUME NEW t \in Threads, RunToolInit(t)
        PROVE  Table!Next \/ Table!vars' = Table!vars
    <2>1. /\ env' = env /\ func' = func
          /\ initialized' = initialized \cup {func["initialize"]}
      BY <1>3 DEF RunToolInit
    <2>2. CASE initialized = {}
      BY <2>1, <2>2 DEF Table!Next, Table!Run, Resolve
    <2>3. CASE initialized # {}
      BY <2>1, <2>3 DEF Table!vars, Resolve
    <2> QED
      BY <2>2, <2>3
  <1>4. ASSUME NEW t \in Threads, Step(t), ~StoreFunc(t), ~RunToolInit(t)
        PROVE  UNCHANGED <<env, func, initialized>>
    <2>1. CASE LoadSymbol(t)
      BY <2>1, GetSymbolFrame DEF LoadSymbol
    <2> QED
      BY <1>4, <2>1 DEF Step, InitializeStep, Initialize, CallUnbound,
                        CallBound, CallTool, loaderVars
  <1> QED
    BY <1>1, <1>2, <1>3, <1>4 DEF Next, vars, loaderVars

\* Every run of tasktimer.c over plugin.c is one of the abstract table: a
\* call leads nowhere or to its one target, to it only once a tool is
\* running, and from then on for good.
THEOREM ImplementsTable == Spec => TableSpec
  BY InitImplements, NextImplements, LoaderInvariant, ToolRunsFirst, PTL
  DEF Spec, TableSpec, Table!Spec

-----------------------------------------------------------------------------
(***************************************************************************)
(* Where every attempt to open the library succeeds: nothing that exists   *)
(* is missed, and the tool gets back the timers it made.                   *)
(***************************************************************************)

\* The library, if one is named, can always be opened.
LoadsSucceed ==
    \A e \in Environments : e.library = NULL \/ e.resident \/ FALSE \notin e.loads

\* The order of the stores.
Place == [
    initialize          |-> 1,
    finalize            |-> 2,
    create              |-> 3,
    schedule            |-> 4,
    start               |-> 5,
    yield               |-> 6,
    resume              |-> 7,
    stop                |-> 8,
    destroy             |-> 9,
    add_parents         |-> 10,
    add_children        |-> 11,
    data_transfer_start |-> 12,
    data_transfer_stop  |-> 13,
    command_start       |-> 14,
    command_stop        |-> 15,
    sample_value        |-> 16,
    mark                |-> 17]

LEMMA PlaceFacts ==
    /\ \A s \in Pointers : Place[s] \in 1 .. 17
    /\ \A r, s \in Pointers : Place[r] = Place[s] => r = s
    /\ \A s \in Pointers :
          IF NextSlot[s] = "done" THEN Place[s] = 17
                                  ELSE Place[NextSlot[s]] = Place[s] + 1
    /\ Place["initialize"] = 1 /\ Place[NextSlot["initialize"]] = 2
  <1>1. \A s \in Pointers : Place[s] \in 1 .. 17
    BY DEF Pointers, NextSlot, Place
  <1>2. \A r, s \in Pointers : Place[r] = Place[s] => r = s
    BY DEF Pointers, NextSlot, Place
  <1>3. \A s \in Pointers :
           IF NextSlot[s] = "done" THEN Place[s] = 17
                                   ELSE Place[NextSlot[s]] = Place[s] + 1
    BY DEF Pointers, NextSlot, Place
  <1>4. Place["initialize"] = 1 /\ Place[NextSlot["initialize"]] = 2
    BY DEF NextSlot, Place
  <1> QED
    BY <1>1, <1>2, <1>3, <1>4

\* One store further: what is behind a pointer's successor is the pointer and
\* what was behind it; behind the last pointer are all the others.
LEMMA PlaceOrder ==
    ASSUME NEW s \in Pointers, NEW r \in Pointers
    PROVE  /\ ~(Place[r] < Place["initialize"])
           /\ NextSlot[s] = "done" => r = s \/ Place[r] < Place[s]
           /\ NextSlot[s] # "done" /\ Place[r] < Place[NextSlot[s]]
                 => r = s \/ Place[r] < Place[s]
           /\ Place[r] < Place[NextSlot["initialize"]] => r = "initialize"
  <1>1. /\ Place[r] \in 1 .. 17 /\ Place[s] \in 1 .. 17
        /\ Place[r] = Place[s] => r = s
        /\ NextSlot[s] = "done" => Place[s] = 17
        /\ NextSlot[s] # "done" => Place[NextSlot[s]] = Place[s] + 1
        /\ Place["initialize"] = 1 /\ Place[NextSlot["initialize"]] = 2
        /\ Place[r] = Place["initialize"] => r = "initialize"
    BY PlaceFacts, SlotFacts
  <1> QED
    BY <1>1

\* What a thread has passed on its way is bound as it should be, and after a
\* return everything is, unless there is no tool at all.
CompleteInv ==
    /\ \A t \in Threads : pc[t] \in Resolving =>
          \A s \in Pointers : Place[s] < Place[slot[t]] => func[s] = Resolve(s)
    /\ returned =>
          Resolve("initialize") = NULL \/ \A s \in Pointers : func[s] = Resolve(s)

\* A look-up gives what the search order names, whenever it is made.
LEMMA StoresAsResolved ==
    ASSUME LoadsSucceed, TypeOK, LoaderInv, NEW t \in Threads, StoreFunc(t)
    PROVE  ret[t] = Resolve(slot[t])
  <1>1. pc[t] = "store" /\ slot[t] \in Pointers
    BY DEF StoreFunc, TypeOK
  <1>2. /\ ret[t] \in {NULL, Resolve(slot[t])}
        /\ ret[t] = NULL =>
              /\ env.global[slot[t]] = NULL
              /\ slot[t] \in env.exports => MayFail
    BY <1>1 DEF LoaderInv, FoundAsResolved
  <1>3. MayFail => env.library = NULL
    BY DEF TypeOK, LoadsSucceed, MayFail
  <1> QED
    BY <1>2, <1>3 DEF Resolve

\* After a return no store changes anything.
LEMMA ReturnFreezes ==
    ASSUME LoadsSucceed, TypeOK, LoaderInv, ToolFirst, CompleteInv, returned,
           [Next]_vars
    PROVE  func' = func
  <1>1. CASE UNCHANGED vars
    BY <1>1 DEF vars
  <1>2. ASSUME NEW t \in Threads, Step(t) PROVE func' = func
    <2>1. CASE StoreFunc(t)
      <3>1. /\ func' = [func EXCEPT ![slot[t]] = ret[t]] /\ pc[t] = "store"
            /\ func[slot[t]] # NULL => func' = func
        BY <2>1, StoreFuncKeepsBound
      <3>2. ret[t] = Resolve(slot[t]) /\ slot[t] \in Pointers
            /\ func \in [Pointers -> Tools \cup {NULL}]
        BY <2>1, StoresAsResolved DEF TypeOK
      <3>3. CASE \A s \in Pointers : func[s] = Resolve(s)
        BY <3>1, <3>2, <3>3
      <3>4. CASE Resolve("initialize") = NULL
        <4>1. slot[t] = "initialize"
          BY <3>1, <3>4 DEF ToolFirst, Resolving
        <4>2. func[slot[t]] = NULL
          BY <3>4, <4>1, SlotFacts DEF LoaderInv, BoundAsResolved
        <4> QED
          BY <3>1, <3>2, <3>4, <4>1, <4>2
      <3> QED
        BY <3>3, <3>4 DEF CompleteInv
    <2>2. CASE ~StoreFunc(t)
      BY <1>2, <2>2
      DEF Step, InitializeStep, Initialize, LoadSymbol, RunToolInit,
          CallUnbound, CallBound, CallTool
    <2> QED
      BY <2>1, <2>2
  <1> QED
    BY <1>1, <1>2 DEF Next

\* A step that binds nothing and takes no thread on in the loader.
LEMMA CompleteKept ==
    ASSUME CompleteInv, NEW t \in Threads,
           UNCHANGED <<env, func, returned>>,
           \A u \in Threads \ {t} : pc'[u] = pc[u] /\ slot'[u] = slot[u],
           pc'[t] \in Resolving =>
              \A s \in Pointers : Place[s] < Place[slot'[t]] => func[s] = Resolve(s)
    PROVE  CompleteInv'
  BY DEF CompleteInv, Resolve

LEMMA NextComplete ==
    ASSUME LoadsSucceed, TypeOK, LoaderInv, ToolFirst, CompleteInv, [Next]_vars
    PROVE  CompleteInv'
  <1>1. CASE UNCHANGED vars
    BY <1>1 DEF vars, loaderVars, CompleteInv, Resolve
  <1>2. ASSUME NEW t \in Threads, Step(t) PROVE CompleteInv'
    <2>1. CASE Initialize(t)
      <3>1. /\ UNCHANGED <<env, func, returned>>
            /\ \A u \in Threads \ {t} : pc'[u] = pc[u] /\ slot'[u] = slot[u]
            /\ slot'[t] = "initialize"
        BY <2>1 DEF Initialize, Goto, TypeOK
      <3> QED
        BY <3>1, CompleteKept, PlaceOrder, SlotFacts
    <2>2. CASE LoadSymbol(t)
      <3>1. /\ UNCHANGED <<env, func, returned, slot>> /\ pc[t] \in Resolving
            /\ \A u \in Threads \ {t} : pc'[u] = pc[u]
        BY <2>2, GetSymbolFrame DEF LoadSymbol
      <3> QED
        BY <3>1, CompleteKept DEF CompleteInv
    <2>3. CASE StoreFunc(t)
      <3>1. /\ env' = env /\ func' = [func EXCEPT ![slot[t]] = ret[t]]
            /\ \A u \in Threads \ {t} : pc'[u] = pc[u] /\ slot'[u] = slot[u]
            /\ pc[t] = "store" /\ pc[t] \in Resolving
        BY <2>3, StoreFuncKeepsBound DEF Resolving
      <3>2. ret[t] = Resolve(slot[t]) /\ slot[t] \in Pointers
            /\ func \in [Pointers -> Tools \cup {NULL}]
        BY <2>3, StoresAsResolved DEF TypeOK
      <3>3. \A s \in Pointers : Resolve(s)' = Resolve(s)
        BY <3>1 DEF Resolve
      <3>4. /\ func'[slot[t]] = Resolve(slot[t])
            /\ \A s \in Pointers : func[s] = Resolve(s) => func'[s] = Resolve(s)
        BY <3>1, <3>2
      <3>5. \A s \in Pointers : Place[s] < Place[slot[t]] => func[s] = Resolve(s)
        BY <3>1 DEF CompleteInv
      <3>6. \/ /\ pc'[t] = "idle" /\ slot[t] = "initialize" /\ ret[t] = NULL
               /\ slot'[t] = slot[t] /\ returned' = TRUE
            \/ /\ pc'[t] = "init" /\ slot'[t] = slot[t] /\ returned' = returned
            \/ /\ pc'[t] = "idle" /\ NextSlot[slot[t]] = "done" /\ returned' = TRUE
            \/ /\ pc'[t] = "lookup" /\ NextSlot[slot[t]] # "done"
               /\ slot'[t] = NextSlot[slot[t]] /\ returned' = returned
        <4>1. CASE slot[t] = "initialize" /\ ret[t] = NULL
          BY <2>3, <4>1 DEF StoreFunc, Goto, TypeOK
        <4>2. CASE slot[t] = "initialize" /\ ret[t] # NULL
          BY <2>3, <4>2 DEF StoreFunc, Goto, TypeOK
        <4>3. CASE slot[t] # "initialize" /\ NextSlot[slot[t]] = "done"
          BY <2>3, <4>3 DEF StoreFunc, Goto, TypeOK
        <4>4. CASE slot[t] # "initialize" /\ NextSlot[slot[t]] # "done"
          BY <2>3, <4>4 DEF StoreFunc, Goto, TypeOK
        <4> QED
          BY <4>1, <4>2, <4>3, <4>4
      <3>7. ASSUME NEW u \in Threads, pc'[u] \in Resolving, NEW s \in Pointers,
                   Place[s] < Place[slot'[u]]
            PROVE  func'[s] = Resolve(s)'
        <4>1. CASE u # t
          <5>1. func[s] = Resolve(s)
            BY <3>1, <3>7, <4>1 DEF CompleteInv
          <5> QED
            BY <3>3, <3>4, <5>1
        <4>2. CASE u = t
          <5>1. NextSlot[slot[t]] # "done" /\ slot'[t] = NextSlot[slot[t]]
            BY <3>6, <3>7, <4>2 DEF Resolving
          <5>2. s = slot[t] \/ Place[s] < Place[slot[t]]
            BY <3>2, <3>7, <4>2, <5>1, PlaceOrder
          <5> QED
            BY <3>3, <3>4, <3>5, <5>2
        <4> QED
          BY <4>1, <4>2
      <3>8. ASSUME returned', Resolve("initialize")' # NULL, NEW s \in Pointers
            PROVE  func'[s] = Resolve(s)'
        <4>1. Resolve("initialize") # NULL
          BY <3>3, <3>8, SlotFacts
        <4>2. CASE returned
          <5>1. func[s] = Resolve(s)
            BY <4>1, <4>2 DEF CompleteInv
          <5> QED
            BY <3>3, <3>4, <5>1
        <4>3. CASE ~returned
          <5>1. NextSlot[slot[t]] = "done"
            BY <3>2, <3>6, <3>8, <4>1, <4>3
          <5>2. s = slot[t] \/ Place[s] < Place[slot[t]]
            BY <3>2, <5>1, PlaceOrder
          <5> QED
            BY <3>3, <3>4, <3>5, <5>2
        <4> QED
          BY <4>2, <4>3
      <3> QED
        BY <3>7, <3>8 DEF CompleteInv
    <2>4. CASE RunToolInit(t)
      <3>1. /\ UNCHANGED <<env, func, returned>>
            /\ \A u \in Threads \ {t} : pc'[u] = pc[u] /\ slot'[u] = slot[u]
            /\ slot'[t] = NextSlot["initialize"]
        BY <2>4 DEF RunToolInit, Goto, TypeOK
      <3>2. func["initialize"] = Resolve("initialize")
        BY <2>4, SlotFacts DEF RunToolInit, LoaderInv, BoundAsResolved, NoNullCall
      <3>3. \A s \in Pointers : Place[s] < Place[slot'[t]] => s = "initialize"
        BY <3>1, PlaceOrder, SlotFacts
      <3> QED
        BY <3>1, <3>2, <3>3, CompleteKept
    <2>5. ASSUME NEW s \in Pointers, NEW k \in Tasks \cup {NULL}, CallUnbound(t, s, k)
          PROVE  CompleteInv'
      BY <2>5 DEF CallUnbound, loaderVars, CompleteInv, Resolve
    <2>6. ASSUME NEW s \in Pointers, NEW k \in Tasks \cup {NULL}, CallBound(t, s, k)
          PROVE  CompleteInv'
      <3>1. /\ UNCHANGED <<env, func, returned>>
            /\ \A u \in Threads \ {t} : pc'[u] = pc[u] /\ slot'[u] = slot[u]
            /\ pc'[t] = "call"
        BY <2>6 DEF CallBound, Goto, TypeOK
      <3> QED
        BY <3>1, CompleteKept DEF Resolving
    <2>7. CASE CallTool(t)
      <3>1. /\ UNCHANGED <<env, func, returned>>
            /\ \A u \in Threads \ {t} : pc'[u] = pc[u] /\ slot'[u] = slot[u]
            /\ pc'[t] = "idle"
        BY <2>7 DEF CallTool, Goto, TypeOK
      <3> QED
        BY <3>1, CompleteKept DEF Resolving
    <2> QED
      BY <1>2, <2>1, <2>2, <2>3, <2>4, <2>5, <2>6, <2>7 DEF Step, InitializeStep
  <1> QED
    BY <1>1, <1>2 DEF Next

LEMMA CompleteInvariance ==
    ASSUME LoadsSucceed
    PROVE  Spec => [](TypeOK /\ LoaderInv /\ ToolFirst /\ CompleteInv)
  <1>1. Init => CompleteInv
    BY DEF Init, CompleteInv, Resolving
  <1>2. TypeOK /\ LoaderInv /\ ToolFirst /\ CompleteInv /\ [Next]_vars => CompleteInv'
    BY NextComplete
  <1> QED
    BY <1>1, <1>2, LoaderInvariant, ToolRunsFirst, PTL DEF Spec

\* Once some call of tasktimer_initialize has returned and a tool was found,
\* every API function the tool exports is bound, on however many threads it
\* was called and whichever of them returned.
THEOREM CompleteWhenReturned ==
    ASSUME LoadsSucceed
    PROVE  Spec => []CompleteOnReturn
  <1>1. TypeOK /\ LoaderInv /\ CompleteInv => CompleteOnReturn
    BY SlotFacts DEF LoaderInv, BoundAsResolved, CompleteInv, CompleteOnReturn
  <1> QED
    BY <1>1, CompleteInvariance, PTL

\* A tool with functions about timers makes timers: they come from the place
\* that create comes from.
TimersFromOnePlace ==
    \A e \in Environments : \A s \in TimerOps :
        LET found(r) == IF e.global[r] # NULL THEN e.global[r]
                        ELSE IF r \in e.exports THEN e.library ELSE NULL
        IN  found(s) \in {NULL, found("create")}

LEMMA OpFacts ==
    /\ TimerOps \subseteq Pointers /\ "create" \in Pointers
    /\ "create" \notin TimerOps /\ "initialize" \notin TimerOps
    /\ "destroy" \in TimerOps
  BY DEF TimerOps, Pointers, NextSlot

\* A call about a task has that task to itself, the task has a timer unless
\* it is being created, and a timer is what create has been giving ever
\* since the application was let in.
CallInv ==
    /\ \A t \in Threads : pc[t] = "call" =>
          /\ returned
          /\ slot[t] \in TimerOps \cup {"create"} => arg[t] \in Tasks
          /\ slot[t] \in TimerOps => timer[arg[t]] # NoTimer
    /\ \A t \in Threads : arg[t] # NULL => pc[t] = "call"
    /\ \A t, u \in Threads : arg[t] = arg[u] /\ arg[t] # NULL => t = u
    /\ \A k \in Tasks : timer[k] # NoTimer => returned /\ timer[k] = func["create"]

\* The application may call only after a return.
LEMMA MayCallFacts ==
    ASSUME AppWaits, CallInv, NEW t \in Threads, NEW s \in Pointers,
           NEW k \in Tasks \cup {NULL}, MayCall(t, s, k)
    PROVE  /\ pc[t] = "idle" /\ returned /\ arg[t] = NULL
           /\ \A u \in Threads : k # NULL => arg[u] # k
           /\ s \in TimerOps \cup {"create"} => k \in Tasks
           /\ s \in TimerOps => timer[k] # NoTimer
  <1>1. pc[t] = "idle" /\ returned /\ \A u \in Threads : k # NULL => arg[u] # k
    BY DEF MayCall
  <1>2. arg[t] = NULL
    BY <1>1 DEF CallInv
  <1>3. CASE s = "create" /\ k \in Tasks /\ timer[k] = NoTimer
    BY <1>1, <1>2, <1>3, OpFacts
  <1>4. CASE s \in TimerOps /\ k \in Tasks /\ timer[k] # NoTimer
    BY <1>1, <1>2, <1>4
  <1>5. CASE s \in {"finalize"} \cup RegionOps \cup SampleOps /\ k = NULL
    BY <1>1, <1>2, <1>5 DEF RegionOps, SampleOps, TimerOps
  <1> QED
    BY <1>3, <1>4, <1>5 DEF MayCall

\* What the calls leave the application with is what create gives.
LEMMA TimerAfterKeeps ==
    ASSUME TypeOK, CallInv, returned, NEW s \in Pointers, NEW j,
           s \in TimerOps \cup {"create"} => j \in Tasks,
           NEW result, s = "create" => result = func["create"],
           timer' = TimerAfter(s, j, result)
    PROVE  /\ \A k \in Tasks : timer'[k] # NoTimer => timer'[k] = func["create"]
           /\ \A k \in Tasks : k # j => timer'[k] = timer[k]
  <1>1. timer \in [Tasks -> Tools \cup {NULL, NoTimer}]
    BY DEF TypeOK
  <1>2. \A k \in Tasks : timer[k] # NoTimer => timer[k] = func["create"]
    BY DEF CallInv
  <1>3. CASE s = "create"
    BY <1>1, <1>2, <1>3 DEF TimerAfter
  <1>4. CASE s = "destroy"
    BY <1>1, <1>2, <1>4, OpFacts DEF TimerAfter
  <1>5. CASE s # "create" /\ s # "destroy"
    BY <1>1, <1>2, <1>5 DEF TimerAfter
  <1> QED
    BY <1>3, <1>4, <1>5

\* A step of the initialiser: it is in no call, and the timers stay.
LEMMA InitialiserStep ==
    ASSUME CallInv, NEW t \in Threads, func' = func \/ ~returned,
           UNCHANGED <<timer, arg>>, returned => returned',
           pc[t] # "call", pc'[t] # "call",
           \A u \in Threads \ {t} : pc'[u] = pc[u] /\ slot'[u] = slot[u]
    PROVE  CallInv'
  <1>1. \A u \in Threads : pc'[u] = "call" => u # t /\ pc[u] = "call" /\ slot'[u] = slot[u]
    OBVIOUS
  <1>2. \A u \in Threads : arg[u] # NULL => u # t /\ pc'[u] = "call"
    BY DEF CallInv
  <1> QED
    BY <1>1, <1>2 DEF CallInv

LEMMA NextCall ==
    ASSUME AppWaits, LoadsSucceed,
           TypeOK, LoaderInv, ToolFirst, CompleteInv, CallInv, [Next]_vars
    PROVE  CallInv'
  <1>1. func' = func \/ ~returned
    BY ReturnFreezes
  <1>2. CASE UNCHANGED vars
    BY <1>2 DEF vars, loaderVars, CallInv
  <1>3. ASSUME NEW t \in Threads, Step(t) PROVE CallInv'
    <2> USE DEF Goto
    <2>1. CASE Initialize(t)
      BY <1>1, <2>1, InitialiserStep DEF Initialize, TypeOK
    <2>2. CASE LoadSymbol(t)
      <3>1. /\ UNCHANGED <<returned, slot, timer, arg>>
            /\ pc[t] \in Resolving /\ pc'[t] \in Resolving
            /\ \A u \in Threads \ {t} : pc'[u] = pc[u]
        BY <2>2, GetSymbolFrame DEF LoadSymbol
      <3> QED
        BY <1>1, <3>1, InitialiserStep DEF Resolving
    <2>3. CASE StoreFunc(t)
      <3>1. /\ \A u \in Threads \ {t} : pc'[u] = pc[u] /\ slot'[u] = slot[u]
            /\ pc[t] = "store" /\ pc'[t] \in {"idle", "init", "lookup"}
        BY <2>3, StoreFuncKeepsBound
      <3>2. UNCHANGED <<timer, arg>> /\ (returned => returned')
        BY <2>3 DEF StoreFunc
      <3> QED
        BY <1>1, <3>1, <3>2, InitialiserStep
    <2>4. CASE RunToolInit(t)
      BY <1>1, <2>4, InitialiserStep DEF RunToolInit, TypeOK
    <2>5. ASSUME NEW s \in Pointers, NEW k \in Tasks \cup {NULL}, CallUnbound(t, s, k)
          PROVE  CallInv'
      <3>1. /\ UNCHANGED <<pc, slot, func, returned, arg>> /\ func[s] = NULL
            /\ timer' = TimerAfter(s, k, NULL) /\ MayCall(t, s, k)
        BY <2>5 DEF CallUnbound, loaderVars
      <3>2. /\ returned /\ \A u \in Threads : k # NULL => arg[u] # k
            /\ s \in TimerOps \cup {"create"} => k \in Tasks
        BY <3>1, MayCallFacts
      <3>3. /\ \A j \in Tasks : timer'[j] # NoTimer => timer'[j] = func["create"]
            /\ \A j \in Tasks : j # k => timer'[j] = timer[j]
        <4>1. s = "create" => NULL = func["create"]
          BY <3>1
        <4> QED
          BY <3>1, <3>2, <4>1, TimerAfterKeeps
      <3>4. \A u \in Threads : arg[u] \in Tasks => timer'[arg[u]] = timer[arg[u]]
        BY <3>2, <3>3, NullAssumption
      <3> QED
        BY <3>1, <3>2, <3>3, <3>4 DEF CallInv
    <2>6. ASSUME NEW s \in Pointers, NEW k \in Tasks \cup {NULL}, CallBound(t, s, k)
          PROVE  CallInv'
      <3>1. /\ UNCHANGED <<func, returned, timer>> /\ MayCall(t, s, k)
            /\ slot' = [slot EXCEPT ![t] = s] /\ arg' = [arg EXCEPT ![t] = k]
            /\ pc' = [pc EXCEPT ![t] = "call"]
        BY <2>6 DEF CallBound
      <3>2. /\ returned /\ \A u \in Threads : k # NULL => arg[u] # k
            /\ s \in TimerOps \cup {"create"} => k \in Tasks
            /\ s \in TimerOps => timer[k] # NoTimer
        BY <3>1, MayCallFacts
      <3>3. /\ pc'[t] = "call" /\ slot'[t] = s /\ arg'[t] = k
            /\ \A u \in Threads : u # t =>
                  pc'[u] = pc[u] /\ slot'[u] = slot[u] /\ arg'[u] = arg[u]
        BY <3>1 DEF TypeOK
      <3>4. ASSUME NEW u \in Threads, pc'[u] = "call"
            PROVE  /\ returned'
                   /\ slot'[u] \in TimerOps \cup {"create"} => arg'[u] \in Tasks
                   /\ slot'[u] \in TimerOps => timer'[arg'[u]] # NoTimer
        <4>1. CASE u = t
          BY <3>1, <3>2, <3>3, <4>1
        <4>2. CASE u # t
          BY <3>1, <3>3, <3>4, <4>2 DEF CallInv
        <4> QED
          BY <4>1, <4>2
      <3>5. \A u \in Threads : arg'[u] # NULL => pc'[u] = "call"
        BY <3>3 DEF CallInv
      <3>6. \A u, v \in Threads : arg'[u] = arg'[v] /\ arg'[u] # NULL => u = v
        BY <3>2, <3>3 DEF CallInv
      <3>7. \A j \in Tasks : timer'[j] # NoTimer => returned' /\ timer'[j] = func'["create"]
        BY <3>1 DEF CallInv
      <3> QED
        BY <3>4, <3>5, <3>6, <3>7 DEF CallInv
    <2>7. CASE CallTool(t)
      <3>1. /\ UNCHANGED <<func, returned, slot>> /\ pc[t] = "call"
            /\ timer' = TimerAfter(slot[t], arg[t], func[slot[t]])
            /\ arg' = [arg EXCEPT ![t] = NULL] /\ pc' = [pc EXCEPT ![t] = "idle"]
        BY <2>7 DEF CallTool
      <3>2. /\ returned /\ slot[t] \in Pointers
            /\ slot[t] \in TimerOps \cup {"create"} => arg[t] \in Tasks
        BY <3>1 DEF CallInv, TypeOK
      <3>3. /\ \A j \in Tasks : timer'[j] # NoTimer => timer'[j] = func["create"]
            /\ \A j \in Tasks : j # arg[t] => timer'[j] = timer[j]
        <4> DEFINE r == slot[t]
                   k == arg[t]
                   made == func[slot[t]]
        <4>1. /\ returned /\ r \in Pointers /\ timer' = TimerAfter(r, k, made)
              /\ r \in TimerOps \cup {"create"} => k \in Tasks
              /\ r = "create" => made = func["create"]
          BY <3>1, <3>2
        <4> HIDE DEF r, k, made
        <4>2. /\ \A j \in Tasks : timer'[j] # NoTimer => timer'[j] = func["create"]
              /\ \A j \in Tasks : j # k => timer'[j] = timer[j]
          BY <4>1, TimerAfterKeeps
        <4> QED
          BY <4>2 DEF k
      <3>4. /\ arg'[t] = NULL /\ pc'[t] = "idle"
            /\ \A u \in Threads : u # t => pc'[u] = pc[u] /\ arg'[u] = arg[u]
        BY <3>1 DEF TypeOK
      <3>5. \A u \in Threads : u # t /\ arg[u] \in Tasks => timer'[arg[u]] = timer[arg[u]]
        <4> SUFFICES ASSUME NEW u \in Threads, u # t, arg[u] \in Tasks PROVE arg[u] # arg[t]
          BY <3>3
        <4>1. arg[u] # NULL
          BY NullAssumption
        <4> QED
          BY <4>1 DEF CallInv
      <3>6. ASSUME NEW u \in Threads, pc'[u] = "call"
            PROVE  /\ returned'
                   /\ slot'[u] \in TimerOps \cup {"create"} => arg'[u] \in Tasks
                   /\ slot'[u] \in TimerOps => timer'[arg'[u]] # NoTimer
        <4>1. u # t /\ pc[u] = "call" /\ arg'[u] = arg[u] /\ slot'[u] = slot[u]
          BY <3>1, <3>4, <3>6
        <4> QED
          BY <3>1, <3>5, <4>1 DEF CallInv
      <3>7. \A u \in Threads : arg'[u] # NULL => pc'[u] = "call"
        BY <3>4 DEF CallInv
      <3>8. \A u, v \in Threads : arg'[u] = arg'[v] /\ arg'[u] # NULL => u = v
        BY <3>4 DEF CallInv
      <3> QED
        BY <3>1, <3>2, <3>3, <3>6, <3>7, <3>8 DEF CallInv
    <2> QED
      BY <1>3, <2>1, <2>2, <2>3, <2>4, <2>5, <2>6, <2>7 DEF Step, InitializeStep
  <1> QED
    BY <1>2, <1>3 DEF Next

\* Where the application waits for tasktimer_initialize, the library opens
\* and the timers come from one place, a tool is only ever handed the timers
\* it made, although tasktimer_initialize may be called again at any time,
\* on any initialiser thread.
THEOREM ToolGetsItsOwnTimers ==
    ASSUME AppWaits, LoadsSucceed, TimersFromOnePlace
    PROVE  Spec => []TimerFromSameTool
  <1>1. Init => CallInv
    BY DEF Init, CallInv
  <1>2. TypeOK /\ LoaderInv /\ ToolFirst /\ CompleteInv /\ CallInv /\ [Next]_vars => CallInv'
    BY NextCall
  <1>3. ASSUME TypeOK, LoaderInv, ToolFirst, CompleteInv, CallInv
        PROVE  TimerFromSameTool
    <2> SUFFICES ASSUME NEW t \in Threads, pc[t] = "call", slot[t] \in TimerOps
                 PROVE  timer[arg[t]] = func[slot[t]]
      BY <1>3 DEF TimerFromSameTool
    <2>1. returned /\ arg[t] \in Tasks /\ timer[arg[t]] = func["create"]
      BY <1>3 DEF CallInv
    <2>2. func[slot[t]] # NULL /\ func[slot[t]] = Resolve(slot[t])
      BY <1>3, OpFacts DEF LoaderInv, NoNullCall, BoundAsResolved
    <2>3. Resolve("initialize") # NULL
      <3>1. initialized # {}
        BY <1>3, <2>2, OpFacts DEF ToolFirst
      <3> QED
        BY <1>3, <3>1 DEF ToolFirst
    <2>4. func["create"] = Resolve("create")
      BY <1>3, <2>1, <2>3, OpFacts DEF CompleteInv
    <2>5. Resolve(slot[t]) \in {NULL, Resolve("create")}
      BY <1>3 DEF TimersFromOnePlace, TypeOK, Resolve
    <2> QED
      BY <2>1, <2>2, <2>4, <2>5
  <1> QED
    BY <1>1, <1>2, <1>3, CompleteInvariance, PTL DEF Spec
=============================================================================
