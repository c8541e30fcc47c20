--------------------------- MODULE PluginLifecycle ---------------------------
(***************************************************************************)
(* Loading and unloading the plugin: the messages AutoCAD sends to its     *)
(* entry point (native/entry.cpp), the rpc thread they start and stop      *)
(* (rpc/server.rs), the bridge with its command and its reactors, and the  *)
(* count of the callbacks AutoCAD still holds (native/host.cpp).           *)
(*                                                                         *)
(* Once the module is unloaded its code is gone: nothing may call it.      *)
(*                                                                         *)
(* AutoCAD's main thread runs entry point and callbacks; the rpc thread    *)
(* runs the server and the timers, and asks AutoCAD for a callback in      *)
(* three steps.  What the callbacks do with their jobs is                  *)
(* MutationScheduler's, and how a dispatch ends ExecDriver's.              *)
(***************************************************************************)
EXTENDS Integers

CONSTANTS
  MaxWakes,    \* bound on the wakes the two threads ask for
  MaxUnloads   \* bound on the attempts to unload

ASSUME LifecycleAssumption == MaxWakes \in Nat /\ MaxUnloads \in Nat

VARIABLES
  module,      \* what AutoCAD holds the module for
  main,        \* what its main thread does
  failing,     \* failInitialization runs
  \* the bridge
  bridge,      \* objectArxBridge exists
  registered,  \* what AutoCAD holds of it: "command", "reactors", "observers"
  uncertain,   \* an observer may have to stay where it is
  accept,      \* acceptNativeActionWakes
  outstanding, \* nativeActionCallbacksOutstanding
  queued,      \* callbacks AutoCAD has accepted: "action" or "finalizer"
  dispatch,    \* "none", "queued" or "finalizing"
  \* the server
  stopping,    \* the scheduler's
  active,      \* SERVER_MANAGER.active
  thread,      \* the rpc thread
  startup,     \* what it has told the thread that started it
  stopSent,    \* the stop channel
  wake,        \* the wake it asks for
  wakes, unloads

bridgeVars == <<bridge, registered, uncertain>>
callbackVars == <<accept, outstanding, queued, dispatch>>
serverVars == <<stopping, active, thread, startup, stopSent>>
vars == <<module, main, failing, bridgeVars, callbackVars, serverVars, wake, wakes, unloads>>

Modules == {"absent", "loaded", "unloaded"}
Callbacks == {"action", "finalizer"}
Alive == {"starting", "creating", "serving", "backoff"}

TypeOK ==
  /\ module \in Modules
  /\ main \in {"idle", "created", "startServer", "startup", "disabled", "joining", "joined"}
  /\ failing \in BOOLEAN
  /\ bridge \in BOOLEAN
  /\ registered \subseteq {"command", "reactors", "observers"}
  /\ uncertain \in BOOLEAN /\ accept \in BOOLEAN
  /\ outstanding \in Nat
  /\ queued \in [Callbacks -> Nat]
  /\ dispatch \in {"none", "queued", "finalizing"}
  /\ stopping \in BOOLEAN /\ active \in BOOLEAN
  /\ thread \in Alive \cup {"none", "ended"}
  /\ startup \in {"none", "ok", "error"}
  /\ stopSent \in BOOLEAN
  /\ wake \in {"none", "claimed", "counted", "accepted", "refused"}
  /\ wakes \in 0..MaxWakes /\ unloads \in 0..MaxUnloads

Init ==
  /\ module = "absent" /\ main = "idle" /\ failing = FALSE
  /\ bridge = FALSE /\ registered = {} /\ uncertain = FALSE
  /\ accept = TRUE /\ outstanding = 0 /\ queued = [c \in Callbacks |-> 0]
  /\ dispatch = "none"
  /\ stopping = FALSE /\ active = FALSE /\ thread = "none" /\ startup = "none"
  /\ stopSent = FALSE /\ wake = "none" /\ wakes = 0 /\ unloads = 0

(***************************************************************************)
(* kInitAppMsg.                                                            *)
(***************************************************************************)
InitApp ==
  /\ module = "absent" /\ main = "idle"
  /\ module' = "loaded"
  /\ \/ bridge' = TRUE /\ main' = "created"
     \/ bridge' = FALSE /\ module' = "unloaded" /\ main' = "idle"   \* no memory
  /\ UNCHANGED <<failing, registered, uncertain, callbackVars, serverVars, wake, wakes, unloads>>

\* ObjectArxBridge::start: the command is registered, then the reactors, then
\* the documents are subscribed to, unless it fails or throws on the way.
StartBridge ==
  /\ main = "created"
  /\ \/ /\ registered' = {"command", "reactors", "observers"}
        /\ main' = "startServer" /\ UNCHANGED failing
     \/ /\ registered' \in {{}, {"command"}, {"command", "reactors"},
                            {"command", "reactors", "observers"}}
        /\ main' = "disabled" /\ failing' = TRUE
  /\ accept' = (main' # "disabled")
  /\ UNCHANGED <<module, bridge, uncertain, outstanding, queued, dispatch, serverVars, wake,
                 wakes, unloads>>

\* ServerManager::start; the thread may not be had.
StartServer ==
  /\ main = "startServer"
  /\ stopping' = FALSE
  /\ \/ thread' = "starting" /\ main' = "startup" /\ UNCHANGED startup
     \/ startup' = "error" /\ main' = "startup" /\ UNCHANGED thread
  /\ UNCHANGED <<module, failing, bridgeVars, callbackVars, active, stopSent, wake, wakes,
                 unloads>>

\* Server::start has its answer; a thread that failed is joined.
ServerStarted ==
  /\ main = "startup" /\ startup = "ok"
  /\ active' = TRUE /\ main' = "idle"
  /\ UNCHANGED <<module, failing, bridgeVars, callbackVars, stopping, thread, startup, stopSent,
                 wake, wakes, unloads>>

ServerFailed ==
  /\ main = "startup" /\ startup = "error" /\ thread \in {"none", "ended"}
  /\ stopping' = TRUE
  /\ main' = "disabled" /\ failing' = TRUE /\ accept' = FALSE
  /\ UNCHANGED <<module, bridgeVars, outstanding, queued, dispatch, active, thread, startup,
                 stopSent, wake, wakes, unloads>>

(***************************************************************************)
(* kUnloadAppMsg, which failInitialization goes along with: disable the    *)
(* wakes, stop the server, look at the count, stop the bridge, destroy it. *)
(***************************************************************************)
UnloadApp ==
  /\ module = "loaded" /\ main = "idle" /\ unloads < MaxUnloads
  /\ unloads' = unloads + 1
  /\ accept' = FALSE /\ main' = "disabled"
  /\ UNCHANGED <<module, failing, bridgeVars, outstanding, queued, dispatch, serverVars, wake,
                 wakes>>

\* Mutant of StopServer: the thread is told to stop and left alone.
StopServerWithoutJoin ==
  /\ main = "disabled"
  /\ stopping' = TRUE
  /\ active' = FALSE /\ stopSent' = (stopSent \/ active) /\ main' = "joined"
  /\ UNCHANGED <<module, failing, bridgeVars, callbackVars, thread, startup, wake, wakes,
                 unloads>>

\* ServerManager::stop.
StopServer ==
  /\ main = "disabled"
  /\ stopping' = TRUE
  /\ active' = FALSE /\ stopSent' = (stopSent \/ active)
  /\ main' = IF active THEN "joining" ELSE "joined"
  /\ UNCHANGED <<module, failing, bridgeVars, callbackVars, thread, startup, wake, wakes,
                 unloads>>

ServerJoined ==
  /\ main = "joining" /\ thread = "ended"
  /\ main' = "joined"
  /\ UNCHANGED <<module, failing, bridgeVars, callbackVars, serverVars, wake, wakes, unloads>>

\* The message is refused: the module stays, and is inert.
Refused ==
  main' = "idle" /\ failing' = FALSE /\ UNCHANGED <<module, bridge>>

\* AutoCAD may keep the command, or an observer whose removal it refused.
BridgeStays ==
  /\ dispatch = "none"
  /\ \/ "command" \in registered /\ UNCHANGED <<registered, uncertain>>
     \/ /\ "observers" \in registered
        /\ registered' = registered \ {"command"} /\ uncertain' = TRUE

BridgeStops == dispatch = "none" /\ registered' = {} /\ ~uncertain /\ UNCHANGED uncertain

\* A database that is gone takes its observer with it.
ObserversGone ==
  /\ main = "idle" /\ uncertain
  /\ uncertain' = FALSE
  /\ UNCHANGED <<module, main, failing, bridge, registered, callbackVars, serverVars, wake,
                 wakes, unloads>>

\* The count is not zero, or the bridge cannot be stopped.
StayLoaded ==
  /\ main = "joined"
  /\ \/ outstanding # 0 /\ UNCHANGED <<registered, uncertain>>
     \/ outstanding = 0 /\ dispatch # "none" /\ UNCHANGED <<registered, uncertain>>
     \/ outstanding = 0 /\ BridgeStays
  /\ Refused
  /\ UNCHANGED <<callbackVars, serverVars, wake, wakes, unloads>>

Unload ==
  /\ main = "joined" /\ outstanding = 0 /\ BridgeStops
  /\ bridge' = FALSE /\ module' = "unloaded" /\ main' = "idle" /\ failing' = FALSE
  /\ UNCHANGED <<callbackVars, serverVars, wake, wakes, unloads>>

(***************************************************************************)
(* Callbacks.                                                              *)
(***************************************************************************)
Counts(c, n) == [queued EXCEPT ![c] = @ + n]
MainFree == module = "loaded" /\ main = "idle"

\* acadctl_wake_native_actions, from a callback: when AutoCAD takes the wake
\* one more is outstanding.
WakesAgain(inQueue, inCount) ==
  \/ queued' = inQueue /\ outstanding' = inCount /\ UNCHANGED wakes
  \/ /\ accept /\ ~stopping /\ wakes < MaxWakes /\ wakes' = wakes + 1
     /\ queued' = [inQueue EXCEPT !["action"] = @ + 1] /\ outstanding' = inCount + 1

\* processNextAction with nothing to do, or with an action that ends in it.
CallbackActs ==
  /\ MainFree /\ queued["action"] > 0
  /\ WakesAgain(Counts("action", -1), outstanding - 1)
  /\ UNCHANGED <<module, main, failing, bridgeVars, accept, dispatch, serverVars, wake, unloads>>

\* queueDocumentContextDispatch: the dispatch is outstanding itself.
CallbackDispatches ==
  /\ MainFree /\ queued["action"] > 0 /\ dispatch = "none" /\ ~stopping
  /\ queued' = Counts("action", -1) /\ dispatch' = "queued"
  /\ UNCHANGED <<module, main, failing, bridgeVars, accept, outstanding, serverVars, wake, wakes,
                 unloads>>

\* Mutant of FinalizerRefused: the refused finalizer is not taken off the count.
FinalizerRefusedUncounted ==
  /\ MainFree /\ dispatch = "queued"
  /\ dispatch' = "none"
  /\ UNCHANGED <<module, main, failing, bridgeVars, accept, outstanding, queued, serverVars,
                 wake, wakes, unloads>>

\* scheduleDocumentContextFinalizer.
FinalizerRefused ==
  /\ MainFree /\ dispatch = "queued"
  /\ dispatch' = "none" /\ outstanding' = outstanding - 1
  /\ UNCHANGED <<module, main, failing, bridgeVars, accept, queued, serverVars, wake, wakes,
                 unloads>>

FinalizerScheduled ==
  /\ MainFree /\ dispatch = "queued"
  /\ dispatch' = "finalizing" /\ queued' = Counts("finalizer", 1)
  /\ UNCHANGED <<module, main, failing, bridgeVars, accept, outstanding, serverVars, wake, wakes,
                 unloads>>

FinalizerRuns ==
  /\ MainFree /\ queued["finalizer"] > 0
  /\ dispatch' = "none"
  /\ WakesAgain(Counts("finalizer", -1), outstanding - 1)
  /\ UNCHANGED <<module, main, failing, bridgeVars, accept, serverVars, wake, unloads>>

(***************************************************************************)
(* The rpc thread.  It may not return while it is inside a wake.           *)
(***************************************************************************)
threadOnly == <<module, main, failing, bridgeVars, callbackVars, stopping, active, wakes,
                unloads>>

\* serve_until_stopped: the first endpoint is the startup's answer, a later
\* one that cannot be had is tried again.
ThreadStarts ==
  /\ thread = "starting"
  /\ \/ thread' = "creating" /\ UNCHANGED startup
     \/ thread' = "ended" /\ startup' = "error"   \* no runtime
  /\ UNCHANGED <<threadOnly, stopSent, wake>>

EndpointCreated ==
  /\ thread = "creating"
  /\ thread' = "serving" /\ startup' = "ok"
  /\ UNCHANGED <<threadOnly, stopSent, wake>>

EndpointFails ==
  /\ thread = "creating" /\ wake = "none"
  /\ IF startup = "none"
     THEN thread' = "ended" /\ startup' = "error"
     ELSE thread' = "backoff" /\ UNCHANGED startup
  /\ UNCHANGED <<threadOnly, stopSent, wake>>

ServingEnds ==
  /\ thread = "serving" /\ ~stopSent
  /\ thread' = "backoff"
  /\ UNCHANGED <<threadOnly, startup, stopSent, wake>>

\* Mutant of StopsIn: the stop is not looked at during the backoff.
StopsInServing == {"serving"}

StopsIn == {"serving", "backoff"}

BackoffEnds ==
  /\ thread = "backoff"
  /\ thread' = "creating"
  /\ UNCHANGED <<threadOnly, startup, stopSent, wake>>

ThreadStops ==
  /\ thread \in StopsIn /\ stopSent /\ wake = "none"
  /\ thread' = "ended"
  /\ UNCHANGED <<threadOnly, startup, stopSent, wake>>

\* A request or a timer claims a wake from the scheduler ...
WakeClaimed ==
  /\ thread \in {"creating", "serving", "backoff"} /\ wake = "none"
  /\ ~stopping /\ wakes < MaxWakes
  /\ wakes' = wakes + 1 /\ wake' = "claimed"
  /\ UNCHANGED <<module, main, failing, bridgeVars, callbackVars, serverVars, unloads>>

\* ... which acadctl_wake_native_actions counts before it looks whether wakes
\* are accepted and asks AutoCAD.
WakeCounted ==
  /\ wake = "claimed" /\ wake' = "counted"
  /\ outstanding' = outstanding + 1
  /\ UNCHANGED <<module, main, failing, bridgeVars, accept, queued, dispatch, serverVars, wakes,
                 unloads>>

WakeChecked ==
  /\ wake = "counted" /\ wake' = IF accept THEN "accepted" ELSE "refused"
  /\ UNCHANGED <<module, main, failing, bridgeVars, callbackVars, serverVars, wakes, unloads>>

WakeScheduled ==
  /\ wake = "accepted"
  /\ \/ queued' = Counts("action", 1) /\ wake' = "none"
     \/ wake' = "refused" /\ UNCHANGED queued
  /\ UNCHANGED <<module, main, failing, bridgeVars, accept, outstanding, dispatch, serverVars,
                 wakes, unloads>>

WakeRefused ==
  /\ wake = "refused" /\ wake' = "none"
  /\ outstanding' = outstanding - 1
  /\ UNCHANGED <<module, main, failing, bridgeVars, accept, queued, dispatch, serverVars, wakes,
                 unloads>>

EntryStep ==
  \/ StartBridge \/ StartServer \/ ServerStarted \/ ServerFailed
  \/ StopServer \/ ServerJoined \/ StayLoaded \/ Unload
CallbackStep ==
  \/ CallbackActs \/ CallbackDispatches
  \/ FinalizerRefused \/ FinalizerScheduled \/ FinalizerRuns
ThreadStep ==
  \/ ThreadStarts \/ EndpointCreated \/ EndpointFails \/ BackoffEnds \/ ThreadStops
WakeStep == WakeCounted \/ WakeChecked \/ WakeScheduled \/ WakeRefused

Next ==
  \/ InitApp \/ UnloadApp \/ EntryStep \/ ObserversGone
  \/ CallbackStep
  \/ ThreadStep \/ ServingEnds \/ WakeClaimed \/ WakeStep

Spec == Init /\ [][Next]_vars

(***************************************************************************)
(* Both threads are scheduled, and a select that keeps finding its stop    *)
(* takes it.  An endpoint may fail for ever, and AutoCAD may keep a        *)
(* callback for as long as it likes.                                       *)
(***************************************************************************)
Fairness ==
  /\ WF_vars(EntryStep) /\ WF_vars(ThreadStep) /\ WF_vars(WakeStep)
  /\ SF_vars(ThreadStops)

FairSpec == Spec /\ Fairness

(***************************************************************************)
(* Properties.                                                             *)
(***************************************************************************)
Leases == queued["action"] + (IF dispatch = "none" THEN 0 ELSE 1)
          + (IF wake \in {"counted", "accepted", "refused"} THEN 1 ELSE 0)

\* The count is what AutoCAD holds and what is about to be asked of it, over
\* wakes of two threads, dispatches and finalizers that AutoCAD refuses: the
\* plugin can neither be unloaded too early nor refuse for ever.
OutstandingIsExact == outstanding = Leases

\* When the module is gone nothing can call it: no callback, no reactor, no
\* command, no thread.
UnloadedMeansQuiet ==
  module = "unloaded" =>
    /\ \A c \in Callbacks : queued[c] = 0
    /\ dispatch = "none" /\ registered = {} /\ ~uncertain
    /\ thread \in {"none", "ended"} /\ wake = "none"

\* No message blocks AutoCAD: the server is started or is not, and its thread
\* ends when it is told to, also while it fails to get an endpoint.
EveryMessageReturns == main # "idle" ~> main = "idle"
=============================================================================
