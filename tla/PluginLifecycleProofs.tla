------------------------ MODULE PluginLifecycleProofs ------------------------
(***************************************************************************)
(* However often the plugin is woken and asked to unload, the count of     *)
(* outstanding callbacks is exact, and once the module is gone nothing can *)
(* call it.                                                                *)
(*                                                                         *)
(* The count alone does not say that the module may go: a wake that is     *)
(* claimed is not counted yet.  What excludes it is the join of the rpc    *)
(* thread, so the invariant follows who holds that thread, and that a wake *)
(* on its way is the thread's.                                             *)
(***************************************************************************)
EXTENDS PluginLifecycle, TLAPS

\* The scheduled finalizer is the dispatch that is finalizing.
FinalizersCounted == queued["finalizer"] = IF dispatch = "finalizing" THEN 1 ELSE 0

\* A running rpc thread is the manager's, or main's that starts or joins it.
ThreadIsHeld ==
  /\ thread \in Alive => active \/ main \in {"startup", "joining"}
  /\ main \in {"created", "startServer"} => thread \notin Alive
  /\ main \in {"joining", "joined"} => ~active

\* Only a running thread has a wake on its way.
WakeIsTheThreads == wake # "none" => thread \in {"creating", "serving", "backoff"}

\* A module that is not loaded, or not any more, is at rest.
GoneMeansQuiet ==
  module # "loaded" =>
    /\ main = "idle" /\ ~active /\ thread \notin Alive
    /\ \A c \in Callbacks : queued[c] = 0
    /\ dispatch = "none" /\ registered = {} /\ ~uncertain

\* The inductive invariant.
Inv ==
  /\ TypeOK
  /\ OutstandingIsExact
  /\ FinalizersCounted
  /\ ThreadIsHeld
  /\ WakeIsTheThreads
  /\ GoneMeansQuiet

-----------------------------------------------------------------------------
LEMMA InitInv == Init => Inv
<1>1. ASSUME Init PROVE TypeOK
  <2>1. registered \subseteq {"command", "reactors", "observers"}
    BY <1>1 DEF Init
  <2>2. queued \in [Callbacks -> Nat] /\ outstanding \in Nat
    BY <1>1 DEF Init
  <2>3. wakes \in 0..MaxWakes /\ unloads \in 0..MaxUnloads
    BY <1>1, LifecycleAssumption DEF Init
  <2>4. /\ failing \in BOOLEAN /\ bridge \in BOOLEAN /\ uncertain \in BOOLEAN
        /\ accept \in BOOLEAN /\ stopping \in BOOLEAN /\ active \in BOOLEAN
        /\ stopSent \in BOOLEAN
    BY <1>1 DEF Init
  <2> QED BY <1>1, <2>1, <2>2, <2>3, <2>4 DEF Init, TypeOK, Modules, Alive
<1>2. Init => OutstandingIsExact /\ FinalizersCounted
  BY DEF Init, OutstandingIsExact, Leases, FinalizersCounted, Callbacks
<1>3. Init => ThreadIsHeld /\ WakeIsTheThreads /\ GoneMeansQuiet
  BY DEF Init, ThreadIsHeld, WakeIsTheThreads, GoneMeansQuiet, Callbacks, Alive
<1> QED BY <1>1, <1>2, <1>3 DEF Inv

\* The messages to the entry point: kInitAppMsg.
LEMMA LoadingKeepsInv ==
  ASSUME Inv, InitApp \/ StartBridge \/ StartServer \/ ServerStarted \/ ServerFailed
  PROVE  Inv'
<1> USE LifecycleAssumption
    DEF Inv, TypeOK, OutstandingIsExact, Leases, FinalizersCounted, ThreadIsHeld,
        WakeIsTheThreads, GoneMeansQuiet, Modules, Callbacks, Alive,
        bridgeVars, callbackVars, serverVars
<1>1. CASE InitApp
  BY <1>1 DEF InitApp
<1>2. CASE StartBridge
  <2>1. TypeOK'
    <3>1. (registered \subseteq {"command", "reactors", "observers"})'
      BY <1>2 DEF StartBridge
    <3>2. (stopSent \in BOOLEAN /\ accept \in BOOLEAN)'
      BY <1>2 DEF StartBridge
    <3> QED BY <3>1, <3>2, <1>2 DEF StartBridge
  <2>2. (OutstandingIsExact /\ FinalizersCounted)'
    BY <1>2 DEF StartBridge
  <2>3. (ThreadIsHeld /\ WakeIsTheThreads /\ GoneMeansQuiet)'
    BY <1>2 DEF StartBridge
  <2> QED BY <2>1, <2>2, <2>3
<1>3. CASE StartServer
  <2>1. TypeOK'
    <3>1. (registered \subseteq {"command", "reactors", "observers"})'
      BY <1>3 DEF StartServer
    <3>2. (stopSent \in BOOLEAN /\ accept \in BOOLEAN)'
      BY <1>3 DEF StartServer
    <3> QED BY <3>1, <3>2, <1>3 DEF StartServer
  <2>2. (OutstandingIsExact /\ FinalizersCounted)'
    BY <1>3 DEF StartServer
  <2>3. (ThreadIsHeld /\ WakeIsTheThreads /\ GoneMeansQuiet)'
    BY <1>3 DEF StartServer
  <2> QED BY <2>1, <2>2, <2>3
<1>4. CASE ServerStarted
  BY <1>4 DEF ServerStarted
<1>5. CASE ServerFailed
  BY <1>5 DEF ServerFailed
<1> QED BY <1>1, <1>2, <1>3, <1>4, <1>5

\* The messages to the entry point: kUnloadAppMsg.
LEMMA UnloadingKeepsInv ==
  ASSUME Inv, UnloadApp \/ StopServer \/ ServerJoined \/ StayLoaded \/ Unload \/ ObserversGone
  PROVE  Inv'
<1> USE LifecycleAssumption
    DEF Inv, TypeOK, OutstandingIsExact, Leases, FinalizersCounted, ThreadIsHeld,
        WakeIsTheThreads, GoneMeansQuiet, Modules, Callbacks, Alive,
        bridgeVars, callbackVars, serverVars
<1>1. CASE UnloadApp
  <2>1. TypeOK'
    <3>1. (registered \subseteq {"command", "reactors", "observers"})'
      BY <1>1 DEF UnloadApp
    <3>2. (stopSent \in BOOLEAN /\ accept \in BOOLEAN)'
      BY <1>1 DEF UnloadApp
    <3> QED BY <3>1, <3>2, <1>1 DEF UnloadApp
  <2>2. (OutstandingIsExact /\ FinalizersCounted)'
    BY <1>1 DEF UnloadApp
  <2>3. (ThreadIsHeld /\ WakeIsTheThreads /\ GoneMeansQuiet)'
    BY <1>1 DEF UnloadApp
  <2> QED BY <2>1, <2>2, <2>3
<1>2. CASE StopServer
  <2>1. TypeOK'
    <3>1. (registered \subseteq {"command", "reactors", "observers"})'
      BY <1>2 DEF StopServer
    <3>2. (stopSent \in BOOLEAN /\ accept \in BOOLEAN)'
      BY <1>2 DEF StopServer
    <3> QED BY <3>1, <3>2, <1>2 DEF StopServer
  <2>2. (OutstandingIsExact /\ FinalizersCounted)'
    BY <1>2 DEF StopServer
  <2>3. (ThreadIsHeld /\ WakeIsTheThreads /\ GoneMeansQuiet)'
    BY <1>2 DEF StopServer
  <2> QED BY <2>1, <2>2, <2>3
<1>3. CASE ServerJoined
  BY <1>3 DEF ServerJoined
<1>4. CASE StayLoaded
  BY <1>4 DEF StayLoaded, Refused, BridgeStays
<1>5. CASE Unload
  <2>1. TypeOK'
    <3>1. (registered \subseteq {"command", "reactors", "observers"})'
      BY <1>5 DEF Unload, BridgeStops
    <3>2. (stopSent \in BOOLEAN /\ accept \in BOOLEAN)'
      BY <1>5 DEF Unload, BridgeStops
    <3> QED BY <3>1, <3>2, <1>5 DEF Unload, BridgeStops
  <2>2. (OutstandingIsExact /\ FinalizersCounted)'
    BY <1>5 DEF Unload, BridgeStops
  <2>3. (ThreadIsHeld /\ WakeIsTheThreads /\ GoneMeansQuiet)'
    BY <1>5 DEF Unload, BridgeStops
  <2> QED BY <2>1, <2>2, <2>3
<1>6. CASE ObserversGone
  <2>1. TypeOK'
    <3>1. (registered \subseteq {"command", "reactors", "observers"})'
      BY <1>6 DEF ObserversGone
    <3>2. (stopSent \in BOOLEAN /\ accept \in BOOLEAN)'
      BY <1>6 DEF ObserversGone
    <3> QED BY <3>1, <3>2, <1>6 DEF ObserversGone
  <2>2. (OutstandingIsExact /\ FinalizersCounted)'
    BY <1>6 DEF ObserversGone
  <2>3. (ThreadIsHeld /\ WakeIsTheThreads /\ GoneMeansQuiet)'
    BY <1>6 DEF ObserversGone
  <2> QED BY <2>1, <2>2, <2>3
<1> QED BY <1>1, <1>2, <1>3, <1>4, <1>5, <1>6

\* The callbacks AutoCAD owes, and the dispatch they start.
LEMMA CallbacksKeepInv ==
  ASSUME Inv, CallbackStep
  PROVE  Inv'
<1> USE LifecycleAssumption
    DEF Inv, TypeOK, OutstandingIsExact, Leases, FinalizersCounted, ThreadIsHeld,
        WakeIsTheThreads, GoneMeansQuiet, Modules, Callbacks, Alive,
        bridgeVars, callbackVars, serverVars
<1>1. CASE CallbackActs
  BY <1>1 DEF CallbackActs, MainFree, Counts, WakesAgain
<1>2. CASE CallbackDispatches
  BY <1>2 DEF CallbackDispatches, MainFree, Counts
<1>3. CASE FinalizerRefused
  BY <1>3 DEF FinalizerRefused, MainFree, Counts
<1>4. CASE FinalizerScheduled
  BY <1>4 DEF FinalizerScheduled, MainFree, Counts
<1>5. CASE FinalizerRuns
  BY <1>5 DEF FinalizerRuns, MainFree, Counts, WakesAgain
<1> QED BY <1>1, <1>2, <1>3, <1>4, <1>5 DEF CallbackStep

\* The rpc thread and its server.
LEMMA ThreadKeepsInv ==
  ASSUME Inv, ThreadStep \/ ServingEnds
  PROVE  Inv'
<1> USE LifecycleAssumption
    DEF Inv, TypeOK, OutstandingIsExact, Leases, FinalizersCounted, ThreadIsHeld,
        WakeIsTheThreads, GoneMeansQuiet, Modules, Callbacks, Alive,
        bridgeVars, callbackVars, serverVars
<1>1. CASE ThreadStarts
  BY <1>1 DEF ThreadStarts, threadOnly
<1>2. CASE EndpointCreated
  BY <1>2 DEF EndpointCreated, threadOnly
<1>3. CASE EndpointFails
  BY <1>3 DEF EndpointFails, threadOnly
<1>4. CASE BackoffEnds
  BY <1>4 DEF BackoffEnds, threadOnly
<1>5. CASE ThreadStops
  BY <1>5 DEF ThreadStops, threadOnly, StopsIn
<1>6. CASE ServingEnds
  BY <1>6 DEF ServingEnds, threadOnly
<1> QED BY <1>1, <1>2, <1>3, <1>4, <1>5, <1>6 DEF ThreadStep

\* The wakes of the rpc thread.
LEMMA WakesKeepInv ==
  ASSUME Inv, WakeClaimed \/ WakeStep
  PROVE  Inv'
<1> USE LifecycleAssumption
    DEF Inv, TypeOK, OutstandingIsExact, Leases, FinalizersCounted, ThreadIsHeld,
        WakeIsTheThreads, GoneMeansQuiet, Modules, Callbacks, Alive,
        bridgeVars, callbackVars, serverVars
<1>1. CASE WakeClaimed
  BY <1>1 DEF WakeClaimed
<1>2. CASE WakeCounted
  BY <1>2 DEF WakeCounted
<1>3. CASE WakeChecked
  BY <1>3 DEF WakeChecked
<1>4. CASE WakeScheduled
  BY <1>4 DEF WakeScheduled, Counts
<1>5. CASE WakeRefused
  BY <1>5 DEF WakeRefused
<1> QED BY <1>1, <1>2, <1>3, <1>4, <1>5 DEF WakeStep

LEMMA NextKeepsInv == Inv /\ [Next]_vars => Inv'
<1> SUFFICES ASSUME Inv, [Next]_vars PROVE Inv'
  OBVIOUS
<1>1. CASE InitApp \/ UnloadApp \/ EntryStep \/ ObserversGone
  BY <1>1, LoadingKeepsInv, UnloadingKeepsInv DEF EntryStep
<1>2. CASE CallbackStep
  BY <1>2, CallbacksKeepInv
<1>3. CASE ThreadStep \/ ServingEnds
  BY <1>3, ThreadKeepsInv
<1>4. CASE WakeClaimed \/ WakeStep
  BY <1>4, WakesKeepInv
<1>5. CASE UNCHANGED vars
  BY <1>5
  DEF Inv, TypeOK, OutstandingIsExact, Leases, FinalizersCounted, ThreadIsHeld,
      WakeIsTheThreads, GoneMeansQuiet, vars, bridgeVars, callbackVars, serverVars
<1> QED BY <1>1, <1>2, <1>3, <1>4, <1>5 DEF Next

THEOREM Invariance == Spec => []Inv
  BY InitInv, NextKeepsInv, PTL DEF Spec

-----------------------------------------------------------------------------
\* Every variable stays in its type: the count of outstanding callbacks, which
\* three places decrement, never goes below zero (host.cpp, entry.cpp).
THEOREM LifecycleTypeCorrect == Spec => []TypeOK
<1>1. Inv => TypeOK
  BY DEF Inv
<1> QED BY <1>1, Invariance, PTL

\* The count of outstanding callbacks is what AutoCAD holds and what is being
\* asked of it, whichever thread counts and whatever AutoCAD refuses.
THEOREM OutstandingExact == Spec => []OutstandingIsExact
<1>1. Inv => OutstandingIsExact
  BY DEF Inv
<1> QED BY <1>1, Invariance, PTL

\* Once kUnloadAppMsg has let the module go, no callback, reactor, command or
\* thread is left that could call it.
THEOREM UnloadedQuiet == Spec => []UnloadedMeansQuiet
<1>1. Inv => UnloadedMeansQuiet
  BY DEF Inv, UnloadedMeansQuiet, GoneMeansQuiet, WakeIsTheThreads, TypeOK, Alive
<1> QED BY <1>1, Invariance, PTL
=============================================================================
