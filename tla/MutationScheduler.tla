-------------------------- MODULE MutationScheduler --------------------------
(***************************************************************************)
(* The mutation scheduler of the plugin (scheduler/queue.rs) with the two  *)
(* threads that use it:                                                    *)
(*                                                                         *)
(*   "rpc"   the acadctl-rpc thread: one single-threaded tokio runtime     *)
(*           that runs the request handlers and the timer driver           *)
(*           (scheduler/timer.rs),                                         *)
(*   "main"  AutoCAD's main thread: the application-context callbacks, the *)
(*           queued dispatches and the reactors of native/host.cpp.        *)
(*                                                                         *)
(* One mutex guards the scheduler, so an action is one critical section,   *)
(* with the calls that follow it on the same thread as far as they only    *)
(* touch that thread.  A wake claimed under the lock is delivered to       *)
(* AutoCAD after the lock is released, by actions of its own.  The notify  *)
(* that ends a handler is taken with its critical section: a timer driver  *)
(* that looked in between would only be told once more.                    *)
(*                                                                         *)
(* Time is counted in ticks.  A deadline is kept as the ticks left to it,  *)
(* down to 0, where it is due; the tick is AutoCAD's and tokio's clock.    *)
(*                                                                         *)
(* A request the scheduler refuses (stopping, quarantined, over capacity)  *)
(* or answers on the spot leaves its state alone: such requests appear as  *)
(* guards.  The drawing registry is abstracted to a choice wherever an     *)
(* operation looks a drawing up.                                           *)
(***************************************************************************)
EXTENDS NativeResult, Sequences, FiniteSets

CONSTANTS
  MaxSubmissions,         \* bound on the jobs ever submitted
  MaxMutationJobs,        \* MAX_MUTATION_JOBS
  MaxAdmittedExecutions,  \* MAX_ADMITTED_EXECUTIONS
  ReadinessTimeout,       \* READINESS_TIMEOUT, in ticks
  RetryInitial,           \* READINESS_RETRY_INITIAL, in ticks
  RetryMax,               \* READINESS_RETRY_MAX, in ticks
  Kinds,                  \* the kinds of job the environment submits
  Modes,                  \* the modes it submits executions in
  MayStop                 \* whether AutoCAD unloads the plugin

ASSUME SchedulerAssumption ==
  /\ MaxSubmissions \in Nat \ {0}
  /\ MaxMutationJobs \in Nat \ {0}
  /\ MaxAdmittedExecutions \in Nat \ {0}
  /\ ReadinessTimeout \in Nat \ {0}
  /\ RetryInitial \in Nat \ {0}
  /\ RetryMax \in Nat
  /\ RetryInitial <= RetryMax
  /\ Kinds \subseteq {"drawing", "history", "execution"}
  /\ Modes \subseteq ExecModes
  /\ MayStop \in BOOLEAN

JobIds  == 1..MaxSubmissions
NoJob   == 0
Threads == {"main", "rpc"}

\* open, switch, save, close and capture run inside the callback; undo, redo
\* and executions are dispatched to the document's own context.
Dispatched == {"history", "execution"}

Answers ==
  Outcomes \cup {"Completed", "TimedOut", "PluginStopping", "StateUnknown"}

VARIABLES
  \* struct MutationScheduler and NEXT_JOB_ID
  nextId, pending, active, wakePending, stopping, quarantined,
  \* the jobs: kind, WaitState, execution, and what was sent to the caller
  kind, wait, execution, answer,
  \* AutoCAD: what its main thread does for the scheduler, the dispatch it
  \* holds, the callbacks it owes, and what each thread's wake has come to
  main, dispatched, callbacks, claim, acceptWakes,
  \* the timer driver and the permit stored in TIMERS_CHANGED
  timer, permit

schedulerVars == <<nextId, pending, active, wakePending, stopping, quarantined>>
jobVars       == <<kind, wait, execution, answer>>
hostVars      == <<main, dispatched, callbacks, claim, acceptWakes>>
timerVars     == <<timer, permit>>
vars          == <<schedulerVars, jobVars, hostVars, timerVars>>

-----------------------------------------------------------------------------
(***************************************************************************)
(* WaitState.  Counters a state does not have are 0.                       *)
(***************************************************************************)
WaitStates ==
  [state : {"None", "Queued", "Ready", "Deferred"},
   left  : 0..ReadinessTimeout,
   retry : 0..ReadinessTimeout,
   delay : 0..RetryMax]

NoWait == [state |-> "None", left |-> 0, retry |-> 0, delay |-> 0]
Queued == [state |-> "Queued", left |-> ReadinessTimeout, retry |-> 0, delay |-> 0]

Ready(left, delay) == [state |-> "Ready", left |-> left, retry |-> 0, delay |-> delay]

Least(a, b) == IF a <= b THEN a ELSE b

BeginReadiness(w) ==
  IF w.state = "Queued" THEN Ready(ReadinessTimeout, RetryInitial) ELSE w

RetryNow(w) == IF w.state = "Deferred" THEN Ready(w.left, w.delay) ELSE w

ReadinessMayHaveChanged(w) ==
  IF w.state = "Deferred" THEN Ready(w.left, RetryInitial) ELSE w

\* Mutant of Defer: a retry starts the readiness timeout afresh.
DeferAfresh(w) ==
  IF w.state = "Ready"
  THEN [state |-> "Deferred", left |-> ReadinessTimeout, retry |-> Least(w.delay, w.left),
        delay |-> Least(2 * w.delay, RetryMax)]
  ELSE w

Defer(w) ==
  IF w.state = "Ready"
  THEN [state |-> "Deferred",
        left  |-> w.left,
        retry |-> Least(w.delay, w.left),
        delay |-> Least(2 * w.delay, RetryMax)]
  ELSE w

Ticked(n) == IF n = 0 THEN 0 ELSE n - 1
Aged(w)   == [w EXCEPT !.left = Ticked(@), !.retry = Ticked(@)]

-----------------------------------------------------------------------------
Deferred(j) == wait[j].state = "Deferred"
WaitIsDue(j) == wait[j].left = 0

Elements(q) == {q[i] : i \in DOMAIN q}

IsExecution(j) == kind[j] = "execution"

Held == Elements(pending) \cup (IF active = NoJob THEN {} ELSE {active})
\* Mutant of MutationJobCount: the active job is not counted.
PendingJobCount == Len(pending)

MutationJobCount == Len(pending) + (IF active = NoJob THEN 0 ELSE 1)
ExecutionUsage == Cardinality({j \in Held : IsExecution(j)})

(***************************************************************************)
(* The queue that is left when the jobs in gone are taken out of q: the    *)
(* others, in the order they had.                                          *)
(***************************************************************************)
Precedes(q, j, k) == \E a, b \in DOMAIN q : a < b /\ q[a] = j /\ q[b] = k

LeftOver(q, gone) ==
  LET kept == Elements(q) \ gone IN
  {t \in UNION {[1..n -> JobIds] : n \in 0..Len(q)} :
     /\ Elements(t) = kept
     /\ \A i, k \in DOMAIN t : i < k => Precedes(q, t[i], t[k])}

(***************************************************************************)
(* request_wake, under the lock, after the caller's own changes: woken is  *)
(* the wake_pending it sees, held the claims of the threads.               *)
(***************************************************************************)
WakeDue ==
  /\ ~stopping
  /\ ~quarantined
  /\ active = NoJob
  /\ pending # <<>>
  /\ ~Deferred(Head(pending))

\* Mutant of RequestWake: a pending wake does not hold another one back.
RequestAnyWake(thread, woken, held) ==
  /\ wakePending' = (woken \/ WakeDue')
  /\ claim' = IF WakeDue' THEN [held EXCEPT ![thread] = "claimed"] ELSE held

RequestWake(thread, woken, held) ==
  /\ wakePending' = (woken \/ WakeDue')
  /\ claim' = IF WakeDue' /\ ~woken THEN [held EXCEPT ![thread] = "claimed"] ELSE held

(***************************************************************************)
(* A thread that has claimed a wake delivers it before it does anything    *)
(* else.                                                                   *)
(***************************************************************************)
RpcReady  == timer.state # "off" /\ claim["rpc"] = "none"
MainReady == main = "free" /\ claim["main"] = "none"

(***************************************************************************)
(* The jobs in gone leave the scheduler, each with its answer in sent.     *)
(***************************************************************************)
Answer(gone, sent) ==
  /\ answer' = [j \in JobIds |-> IF j \in gone THEN sent[j] ELSE answer[j]]
  /\ execution' = [j \in JobIds |-> IF j \in gone THEN Dropped ELSE execution[j]]

WaitsWithout(gone, w) == [j \in JobIds |-> IF j \in gone THEN NoWait ELSE w[j]]

\* wait_timeout_outcome.
TimeoutAnswer(j) ==
  IF IsExecution(j) THEN OutcomeAnswer(ExpireBeforeStart(execution[j])) ELSE "TimedOut"

\* complete_native.
CompletionAnswer(j, result) ==
  IF IsExecution(j) THEN ExecutionAnswer(execution[j], result)
  ELSE IF RequiresQuarantine(result) THEN "Unknown" ELSE "Completed"

\* What prepare answers without AutoCAD: the drawing is not there, or the
\* operation has nothing left to do.
ImmediateAnswer(k) == IF k = "execution" THEN "NotStarted" ELSE "Completed"

-----------------------------------------------------------------------------
(***************************************************************************)
(* Requests: the handlers on the rpc thread.                               *)
(***************************************************************************)
Enqueue(k, e) ==
  /\ nextId' = nextId + 1
  /\ pending' = Append(pending, nextId)
  /\ kind' = [kind EXCEPT ![nextId] = k]
  /\ wait' = [wait EXCEPT ![nextId] = Queued]
  /\ execution' = [execution EXCEPT ![nextId] = e]
  /\ answer' = [answer EXCEPT ![nextId] = "waiting"]
  /\ UNCHANGED <<active, stopping, quarantined>>
  /\ RequestWake("rpc", wakePending, claim)
  /\ UNCHANGED <<main, dispatched, callbacks, acceptWakes>>

\* Mutant of Admits: a quarantine only empties the queue.
AdmitsInQuarantine ==
  /\ RpcReady
  /\ nextId <= MaxSubmissions
  /\ ~stopping

\* Mutant of Admits: the requests of a stopping server are still taken.
AdmitsWhileStopping ==
  /\ RpcReady
  /\ nextId <= MaxSubmissions
  /\ ~quarantined

Admits ==
  /\ RpcReady
  /\ nextId <= MaxSubmissions
  /\ ~stopping
  /\ ~quarantined

SubmitOperation(k) ==
  /\ Admits
  /\ MutationJobCount < MaxMutationJobs
  /\ Enqueue(k, Dropped)
  /\ UNCHANGED timerVars

\* Mutant of AdmitExecution: the timer driver is not notified.
AdmitUnnoticedExecution(mode, forms) ==
  /\ Admits
  /\ MutationJobCount < MaxMutationJobs
  /\ ExecutionUsage < MaxAdmittedExecutions
  /\ Enqueue("execution", NewExecution(mode, forms))
  /\ UNCHANGED timerVars

AdmitExecution(mode, forms) ==
  /\ Admits
  /\ MutationJobCount < MaxMutationJobs
  /\ ExecutionUsage < MaxAdmittedExecutions
  /\ Enqueue("execution", NewExecution(mode, forms))
  /\ permit' = TRUE
  /\ UNCHANGED timer

\* An empty source is answered at once, whatever the queue holds; the registry
\* may not know its drawing.
AdmitEmptyExecution ==
  /\ Admits
  /\ nextId' = nextId + 1
  /\ kind' = [kind EXCEPT ![nextId] = "execution"]
  /\ \E a \in {OutcomeAnswer(NewExecution("Exec", 0)), ImmediateAnswer("execution")} :
       answer' = [answer EXCEPT ![nextId] = a]
  /\ permit' = TRUE
  /\ UNCHANGED <<pending, active, wakePending, stopping, quarantined, wait, execution,
                 hostVars, timer>>

CancelActive(j) ==
  /\ RpcReady
  /\ active = j
  /\ IsExecution(j)
  /\ execution' = [execution EXCEPT ![j] = RequestCancel(@)]
  /\ UNCHANGED <<schedulerVars, kind, wait, answer, hostVars, timerVars>>

CancelPending(j) ==
  /\ RpcReady
  /\ j \in Elements(pending)
  /\ IsExecution(j)
  /\ CanCancelBeforeStart(execution[j])
  /\ pending' \in LeftOver(pending, {j})
  /\ Answer({j}, [k \in {j} |-> CancelBeforeStart(execution[k]).outcome])
  /\ wait' = WaitsWithout({j}, wait)
  /\ UNCHANGED <<nextId, active, stopping, quarantined, kind>>
  /\ RequestWake("rpc", wakePending, claim)
  /\ permit' = TRUE
  /\ UNCHANGED <<main, dispatched, callbacks, acceptWakes, timer>>

-----------------------------------------------------------------------------
(***************************************************************************)
(* take_native_action, called by the application-context callback.         *)
(***************************************************************************)
Callback ==
  /\ MainReady
  /\ callbacks > 0
  /\ callbacks' = callbacks - 1
  /\ wakePending' = FALSE

MayIssue == WakeDue

TakeIdle ==
  /\ Callback
  /\ ~MayIssue
  /\ main' = "scheduling"
  /\ UNCHANGED <<nextId, pending, active, stopping, quarantined, jobVars,
                 dispatched, claim, acceptWakes, timerVars>>

TakeAndAnswer(a) ==
  /\ Callback
  /\ MayIssue
  /\ main' = "scheduling"
  /\ pending' = Tail(pending)
  /\ Answer({Head(pending)}, [k \in {Head(pending)} |-> a])
  /\ wait' = WaitsWithout({Head(pending)}, wait)
  /\ UNCHANGED <<nextId, active, stopping, quarantined, kind,
                 dispatched, claim, acceptWakes, timerVars>>

TakeExpired ==
  /\ pending # <<>>
  /\ WaitIsDue(Head(pending))
  /\ TakeAndAnswer(TimeoutAnswer(Head(pending)))

TakeImmediate ==
  /\ pending # <<>>
  /\ ~WaitIsDue(Head(pending))
  /\ TakeAndAnswer(ImmediateAnswer(kind[Head(pending)]))

TakeAndIssue ==
  /\ Callback
  /\ MayIssue
  /\ ~WaitIsDue(Head(pending))
  /\ main' = "acting"
  /\ active' = Head(pending)
  /\ pending' = Tail(pending)
  /\ wait' = [wait EXCEPT ![Head(pending)] = BeginReadiness(@)]
  /\ UNCHANGED <<nextId, stopping, quarantined, kind, execution, answer,
                 dispatched, claim, acceptWakes, timerVars>>

(***************************************************************************)
(* complete_native_action of the active job.                               *)
(***************************************************************************)
WaitsForReadiness(j, result) ==
  /\ result = "NotQuiescent"
  /\ IsExecution(j) => ~execution[j].handedOff

\* finish_cancel_before_start.
CancelFinished(e) == IF e.cancel /\ ~e.handedOff THEN CancelBeforeStart(e) ELSE e

\* Mutant of IsDeferred: a cancel that arrived meanwhile is not looked at.
IsDeferredDespiteCancel(j, result) ==
  /\ WaitsForReadiness(j, result)
  /\ ~WaitIsDue(j)

IsDeferred(j, result) ==
  /\ WaitsForReadiness(j, result)
  /\ IsExecution(j) => CancelFinished(execution[j]).outcome = "none"
  /\ ~WaitIsDue(j)

\* Mutants of DeferActive: the job is put back behind the others; it is not put
\* back at all.
DeferActiveToBack ==
  /\ pending' = Append(pending, active)
  /\ active' = NoJob
  /\ wait' = [wait EXCEPT ![active] = Defer(@)]
  /\ permit' = TRUE
  /\ UNCHANGED <<nextId, wakePending, stopping, quarantined, kind, execution, answer, timer>>

DropActive ==
  /\ active' = NoJob
  /\ wait' = [wait EXCEPT ![active] = NoWait]
  /\ permit' = TRUE
  /\ UNCHANGED <<nextId, pending, wakePending, stopping, quarantined, kind, execution, answer,
                 timer>>

DeferActive ==
  /\ pending' = <<active>> \o pending
  /\ active' = NoJob
  /\ wait' = [wait EXCEPT ![active] = Defer(@)]
  /\ permit' = TRUE
  /\ UNCHANGED <<nextId, wakePending, stopping, quarantined, kind, execution, answer, timer>>

WaitedAnswer(j) ==
  IF IsExecution(j) /\ CancelFinished(execution[j]).outcome # "none"
  THEN CancelFinished(execution[j]).outcome
  ELSE TimeoutAnswer(j)

ActiveAnswer(j, result) ==
  IF WaitsForReadiness(j, result) THEN WaitedAnswer(j) ELSE CompletionAnswer(j, result)

AnswerActive(result, quarantine) ==
  LET rejected == IF quarantine THEN Elements(pending) ELSE {}
      gone     == {active} \cup rejected
  IN /\ Answer(gone, [j \in gone |-> IF j = active THEN ActiveAnswer(j, result)
                                      ELSE "StateUnknown"])
     /\ wait' = WaitsWithout(gone, wait)
     /\ active' = NoJob
     /\ pending' = IF quarantine THEN <<>> ELSE pending
     /\ quarantined' = (quarantined \/ quarantine)
     /\ wakePending' = (wakePending /\ ~quarantine)
     /\ UNCHANGED <<nextId, stopping, kind, timerVars>>

CompleteNativeAction(result, quarantine) ==
  IF IsDeferred(active, result) THEN DeferActive ELSE AnswerActive(result, quarantine)

-----------------------------------------------------------------------------
(***************************************************************************)
(* The host on AutoCAD's main thread.  processNextAction performs the      *)
(* action it was given, or hands it to the document's own context.         *)
(***************************************************************************)
ActionResults(k) ==
  CASE k = "drawing"   -> {"Success", "Refused", "NotQuiescent"} \cup
                            {CaptureKind(capture, frame) :
                               capture \in CaptureResults, frame \in Frames}
    [] k = "history"   -> {"Refused", "NotQuiescent", "DocumentContextRestoreFailed"}
    [] k = "execution" -> {"Refused", "NotQuiescent", "ExecBridgeFailed",
                           "DocumentContextRestoreFailed"}

HostCompletes(result) ==
  /\ main = "acting"
  /\ claim["main"] = "none"
  /\ result \in ActionResults(kind[active])
  /\ main' = "scheduling"
  /\ CompleteNativeAction(result, RequiresQuarantine(result))
  /\ UNCHANGED <<dispatched, callbacks, claim, acceptWakes>>

HostDispatches ==
  /\ main = "acting"
  /\ claim["main"] = "none"
  /\ kind[active] \in Dispatched
  /\ main' = "free"
  /\ dispatched' = TRUE
  /\ UNCHANGED <<schedulerVars, jobVars, callbacks, claim, acceptWakes, timerVars>>

\* scheduleNextNativeAction: the claim; the wake itself is WakeAccepted or
\* WakeRefused.
ScheduleNext ==
  /\ main = "scheduling"
  /\ main' = "free"
  /\ UNCHANGED <<nextId, pending, active, stopping, quarantined, jobVars>>
  /\ RequestWake("main", wakePending, claim)
  /\ UNCHANGED <<dispatched, callbacks, acceptWakes, timerVars>>

(***************************************************************************)
(* The driver of a dispatched execution takes and completes its steps in   *)
(* callbacks from AutoLISP; here its steps interleave freely with the rpc  *)
(* thread, and AutoCAD may do other things between any two of them.        *)
(***************************************************************************)
Driving == dispatched /\ MainReady /\ IsExecution(active)

\* expire_active_execution_if_due.
ExpireIfDue(e, due) == IF due /\ ReadinessWaitPending(e) THEN ExpireBeforeStart(e) ELSE e

Drive(e) ==
  /\ execution' = [execution EXCEPT ![active] = e]
  /\ UNCHANGED <<schedulerVars, kind, wait, answer, hostVars, timerVars>>

DriverTakesStep ==
  /\ Driving
  /\ HasStep(execution[active])
  /\ Drive(TakeStep(ExpireIfDue(execution[active], WaitIsDue(active))))

DriverCompletesStep(r) ==
  /\ Driving
  /\ execution[active].phase \in AwaitedSteps
  /\ MayReport(execution[active], r)
  /\ Drive(CompleteStep(execution[active], r))

DriverAbandons ==
  /\ Driving
  /\ Drive(Abandon(execution[active]))

(***************************************************************************)
(* The end of a dispatch: the finalizer's callback, or the finalizer that  *)
(* AutoCAD would not schedule, which does not look for more work.          *)
(***************************************************************************)
FinalizeHistory(result) ==
  /\ dispatched
  /\ MainReady
  /\ kind[active] = "history"
  /\ dispatched' = FALSE
  /\ main' = "scheduling"
  /\ CompleteNativeAction(result, RequiresQuarantine(result))
  /\ UNCHANGED <<callbacks, claim, acceptWakes>>

FinalizeExecution(result, observation) ==
  /\ Driving
  /\ result = "Success" => execution[active].outcome # "none"
  /\ result = "Refused" /\ observation = "proved" =>
       \/ execution[active].outcome # "none"
       \/ execution[active].phase = "BeginUndoGroup"
  /\ dispatched' = FALSE
  /\ main' = "scheduling"
  /\ CompleteNativeAction(FinalizationKind(result, observation),
                          FinalizationQuarantines(result, observation))
  /\ UNCHANGED <<callbacks, claim, acceptWakes>>

\* Mutant of FinalizerNotScheduled: the dispatch is forgotten, its job is not.
FinalizerForgotten(observation) ==
  /\ dispatched
  /\ MainReady
  /\ dispatched' = FALSE
  /\ UNCHANGED <<schedulerVars, jobVars, main, callbacks, claim, acceptWakes, timerVars>>

FinalizerNotScheduled(observation) ==
  /\ dispatched
  /\ MainReady
  /\ dispatched' = FALSE
  /\ LET result == "DocumentContextRestoreFailed" IN
       IF IsExecution(active)
       THEN CompleteNativeAction(FinalizationKind(result, observation),
                                 FinalizationQuarantines(result, observation))
       ELSE CompleteNativeAction(result, RequiresQuarantine(result))
  /\ UNCHANGED <<main, callbacks, claim, acceptWakes>>

\* Mutant of NativeStateMayBeReady: the head is ready again, and nobody is told.
NativeStateUnheard ==
  /\ main \in {"free", "acting"}
  /\ claim["main"] = "none"
  /\ wait' = IF pending # <<>>
             THEN [wait EXCEPT ![Head(pending)] = ReadinessMayHaveChanged(@)]
             ELSE wait
  /\ permit' = TRUE
  /\ UNCHANGED <<schedulerVars, kind, execution, answer, hostVars, timer>>

\* A reactor tells the scheduler that AutoCAD may have become quiescent.
NativeStateMayBeReady ==
  /\ main \in {"free", "acting"}
  /\ claim["main"] = "none"
  /\ wait' = IF pending # <<>>
             THEN [wait EXCEPT ![Head(pending)] = ReadinessMayHaveChanged(@)]
             ELSE wait
  /\ UNCHANGED <<nextId, pending, active, stopping, quarantined, kind, execution, answer>>
  /\ RequestWake("main", wakePending, claim)
  /\ permit' = TRUE
  /\ UNCHANGED <<main, dispatched, callbacks, acceptWakes, timer>>

-----------------------------------------------------------------------------
(***************************************************************************)
(* acadctl_wake_native_actions, on the thread that claimed the wake.       *)
(***************************************************************************)
WakeAccepted(thread) ==
  /\ claim[thread] = "claimed"
  /\ acceptWakes
  /\ callbacks' = callbacks + 1
  /\ claim' = [claim EXCEPT ![thread] = "none"]
  /\ UNCHANGED <<schedulerVars, jobVars, main, dispatched, acceptWakes, timerVars>>

WakeRefused(thread) ==
  /\ claim[thread] = "claimed"
  /\ claim' = [claim EXCEPT ![thread] = "refused"]
  /\ UNCHANGED <<schedulerVars, jobVars, main, dispatched, callbacks, acceptWakes, timerVars>>

\* wake_failed.  Here a deferred head is deferred again or expires like any
\* other; begin_readiness and defer leave its wait alone.
WakeFailed(thread) ==
  LET head     == Head(pending)
      idle     == stopping \/ quarantined \/ active # NoJob \/ pending = <<>>
      released == [claim EXCEPT ![thread] = "none"]
  IN /\ claim[thread] = "refused"
     /\ UNCHANGED <<nextId, active, stopping, quarantined, kind>>
     /\ \/ /\ idle
           /\ wakePending' = FALSE
           /\ claim' = released
           /\ UNCHANGED <<pending, wait, execution, answer>>
        \/ /\ ~idle
           /\ WaitIsDue(head)
           /\ pending' = Tail(pending)
           /\ Answer({head}, [k \in {head} |-> TimeoutAnswer(k)])
           /\ wait' = WaitsWithout({head}, wait)
           /\ RequestWake(thread, FALSE, released)
        \/ /\ ~idle
           /\ ~WaitIsDue(head)
           /\ wait' = [wait EXCEPT ![head] = Defer(BeginReadiness(@))]
           /\ wakePending' = FALSE
           /\ claim' = released
           /\ UNCHANGED <<pending, execution, answer>>
     /\ permit' = TRUE
     /\ UNCHANGED <<main, dispatched, callbacks, acceptWakes, timer>>

-----------------------------------------------------------------------------
(***************************************************************************)
(* The timer driver: compute the earliest deadline, sleep until it or      *)
(* until a change is notified.                                             *)
(***************************************************************************)
Never == ReadinessTimeout + 1

Deadlines ==
  {wait[j].left : j \in Elements(pending)} \cup
  {wait[j].left : j \in {k \in {active} \ {NoJob} :
                           IsExecution(k) /\ ReadinessWaitPending(execution[k])}} \cup
  {wait[j].retry : j \in {k \in Elements(pending) : k = Head(pending) /\ Deferred(k)}}

IsNextTimerDeadline(d) ==
  /\ d \in Deadlines \cup {Never}
  /\ \A x \in Deadlines \cup {Never} : d <= x

TimerSleeps ==
  /\ RpcReady
  /\ timer.state = "computing"
  /\ \E d \in 0..Never :
       /\ IsNextTimerDeadline(d)
       /\ timer' = [state |-> "sleeping", target |-> d]
  /\ UNCHANGED <<schedulerVars, jobVars, hostVars, permit>>

Recompute == timer' = [state |-> "computing", target |-> Never]

TimerNotified ==
  /\ RpcReady
  /\ timer.state = "sleeping"
  /\ permit
  /\ permit' = FALSE
  /\ Recompute
  /\ UNCHANGED <<schedulerVars, jobVars, hostVars>>

\* process_due_timers.
TimerFires ==
  LET expired == {j \in Elements(pending) : WaitIsDue(j)} IN
  /\ RpcReady
  /\ timer.state = "sleeping"
  /\ timer.target = 0
  /\ pending' \in LeftOver(pending, expired)
  /\ answer' = [j \in JobIds |-> IF j \in expired THEN TimeoutAnswer(j) ELSE answer[j]]
  /\ execution' = [j \in JobIds |->
                     IF j \in expired THEN Dropped
                     ELSE IF j = active /\ IsExecution(j)
                     THEN ExpireIfDue(execution[j], WaitIsDue(j))
                     ELSE execution[j]]
  /\ wait' = [j \in JobIds |->
                IF j \in expired THEN NoWait
                ELSE IF pending' # <<>> /\ j = Head(pending') /\ wait[j].retry = 0
                THEN RetryNow(wait[j])
                ELSE wait[j]]
  /\ UNCHANGED <<nextId, active, stopping, quarantined, kind>>
  /\ RequestWake("rpc", wakePending, claim)
  /\ Recompute
  /\ UNCHANGED <<main, dispatched, callbacks, acceptWakes, permit>>

Tick ==
  /\ wait' = [j \in JobIds |-> Aged(wait[j])]
  /\ timer' = [timer EXCEPT !.target = IF @ = Never THEN Never ELSE Ticked(@)]
  /\ UNCHANGED <<schedulerVars, kind, execution, answer, hostVars, permit>>

-----------------------------------------------------------------------------
(***************************************************************************)
(* kUnloadAppMsg: AutoCAD refuses wakes from here on, the scheduler stops, *)
(* and the main thread waits for the rpc thread to end.  The plugin is     *)
(* started once, before any request; that start changes nothing.           *)
(***************************************************************************)
Stop ==
  LET rejected == Elements(pending) IN
  /\ MayStop
  /\ ~stopping
  /\ MainReady
  /\ main' = "unloading"
  /\ acceptWakes' = FALSE
  /\ stopping' = TRUE
  /\ wakePending' = FALSE
  /\ pending' = <<>>
  /\ answer' = [j \in JobIds |-> IF j \in rejected THEN "PluginStopping" ELSE answer[j]]
  /\ execution' = [j \in JobIds |->
                     IF j \in rejected THEN Dropped
                     ELSE IF j = active /\ IsExecution(j) THEN RequestCancel(execution[j])
                     ELSE execution[j]]
  /\ wait' = WaitsWithout(rejected, wait)
  /\ permit' = TRUE
  /\ UNCHANGED <<nextId, active, quarantined, kind, dispatched, callbacks, claim, timer>>

ServerShutsDown ==
  /\ main = "unloading"
  /\ claim["rpc"] = "none"
  /\ main' = "free"
  /\ timer' = [state |-> "off", target |-> Never]
  /\ UNCHANGED <<schedulerVars, jobVars, dispatched, callbacks, claim, acceptWakes, permit>>

-----------------------------------------------------------------------------
Init ==
  /\ nextId = 1
  /\ pending = <<>>
  /\ active = NoJob
  /\ wakePending = FALSE
  /\ stopping = FALSE
  /\ quarantined = FALSE
  /\ kind = [j \in JobIds |-> "none"]
  /\ wait = [j \in JobIds |-> NoWait]
  /\ execution = [j \in JobIds |-> Dropped]
  /\ answer = [j \in JobIds |-> "unsubmitted"]
  /\ main = "free"
  /\ dispatched = FALSE
  /\ callbacks = 0
  /\ claim = [thread \in Threads |-> "none"]
  /\ acceptWakes = TRUE
  /\ timer = [state |-> "computing", target |-> Never]
  /\ permit = FALSE

Request ==
  \/ \E k \in Kinds \ {"execution"} : SubmitOperation(k)
  \/ \E mode \in Modes, forms \in 1..MaxForms :
       /\ "execution" \in Kinds
       /\ ValidSource(mode, forms)
       /\ AdmitExecution(mode, forms)
  \/ "execution" \in Kinds /\ "Exec" \in Modes /\ AdmitEmptyExecution
  \/ \E j \in JobIds : CancelActive(j)
  \/ \E j \in JobIds : CancelPending(j)

TakeNativeAction == TakeIdle \/ TakeExpired \/ TakeImmediate \/ TakeAndIssue

HostActs == HostDispatches \/ \E result \in NativeResults : HostCompletes(result)

DriverAdvances ==
  \/ DriverTakesStep
  \/ \E r \in StepResults : DriverCompletesStep(r)
  \/ DriverAbandons

DispatchResults(k) ==
  IF k = "history"
  THEN {"Success", "Refused", "NotQuiescent", "DocumentContextRestoreFailed"}
  ELSE {"Success", "Refused", "ExecBridgeFailed", "DocumentContextRestoreFailed",
        "ExecBridgeSymbolsClearFailed"}

DispatchEnds ==
  \/ \E result \in DispatchResults("history") : FinalizeHistory(result)
  \/ \E result \in DispatchResults("execution"), observation \in Observations :
       FinalizeExecution(result, observation)
  \/ \E observation \in Observations : FinalizerNotScheduled(observation)

Wake(thread) == WakeAccepted(thread) \/ WakeRefused(thread) \/ WakeFailed(thread)

TimerDriver == TimerSleeps \/ TimerNotified \/ TimerFires

Next ==
  \/ Request
  \/ TakeNativeAction
  \/ HostActs
  \/ ScheduleNext
  \/ DriverAdvances
  \/ DispatchEnds
  \/ NativeStateMayBeReady
  \/ \E thread \in Threads : Wake(thread)
  \/ TimerDriver
  \/ Tick
  \/ Stop
  \/ ServerShutsDown

Spec == Init /\ [][Next]_vars

(***************************************************************************)
(* Fairness.  The rpc thread is a tokio runtime that keeps polling its     *)
(* ready tasks, and a thread that has claimed a wake delivers it.  When    *)
(* the deadline and a notification are both ready, select! picks a branch  *)
(* at random, so the deadline is not passed over for ever.  The clock      *)
(* advances.  AutoCAD answers for its own side: it runs the callbacks and  *)
(* the dispatches it has accepted.                                         *)
(***************************************************************************)
TimerFairness ==
  /\ WF_vars(TimerDriver)
  /\ SF_vars(TimerFires)
  /\ WF_vars(Tick)
  /\ \A thread \in Threads : WF_vars(Wake(thread))

HostFairness ==
  /\ WF_vars(TakeNativeAction)
  /\ WF_vars(HostActs)
  /\ WF_vars(ScheduleNext)
  /\ WF_vars(DriverAdvances \/ DispatchEnds)
  /\ WF_vars(ServerShutsDown)

TimerSpec == Spec /\ TimerFairness
FairSpec  == TimerSpec /\ HostFairness

-----------------------------------------------------------------------------
TypeOK ==
  /\ nextId \in 1..(MaxSubmissions + 1)
  /\ pending \in Seq(JobIds)
  /\ active \in JobIds \cup {NoJob}
  /\ wakePending \in BOOLEAN
  /\ stopping \in BOOLEAN
  /\ quarantined \in BOOLEAN
  /\ kind \in [JobIds -> {"drawing", "history", "execution", "none"}]
  /\ wait \in [JobIds -> WaitStates]
  /\ execution \in [JobIds -> Executions]
  /\ answer \in [JobIds -> Answers \cup {"unsubmitted", "waiting"}]
  /\ main \in {"free", "acting", "scheduling", "unloading"}
  /\ dispatched \in BOOLEAN
  /\ callbacks \in Nat
  /\ claim \in [Threads -> {"none", "claimed", "refused"}]
  /\ acceptWakes \in BOOLEAN
  /\ timer \in [state : {"off", "computing", "sleeping"}, target : 0..Never]
  /\ permit \in BOOLEAN

\* A job waits for its answer exactly as long as the scheduler holds it, and
\* it is held once: no path of the queue drops a completion sender without
\* sending, and none sends for a job it keeps.
JobsAccountedFor ==
  /\ \A j \in JobIds : answer[j] = "waiting" <=> j \in Held
  /\ active \notin Elements(pending)

Increasing(q) == \A i, k \in DOMAIN q : i < k => q[i] < q[k]

\* Jobs run in the order they were admitted, even though a busy job goes back
\* to the queue (push_front) and others leave it from the middle.
QueueInAdmissionOrder ==
  /\ Increasing(pending)
  /\ active # NoJob => \A j \in Elements(pending) : active < j
  /\ \A j \in Held : j < nextId

\* Only the job at the head is ever deferred, and none is while another job is
\* active: take_native_action and the timers look at the head alone.
OnlyHeadDeferred ==
  \A j \in JobIds : Deferred(j) =>
    /\ active = NoJob
    /\ pending # <<>>
    /\ j = Head(pending)

\* A job that could be issued now is never forgotten: a wake is on its way to
\* AutoCAD, or the main thread is just about to ask for one.
ReadyWorkHasAWake == WakeDue => wakePending \/ main = "scheduling"

\* wake_pending stands for one wake in flight: a claim, a refusal that is yet
\* to be handled, or a callback that AutoCAD owes.  A second callback never
\* piles up; only a stop leaves one behind that wake_pending denies.
Owed(thread) == IF claim[thread] = "none" THEN 0 ELSE 1
WakesInFlight == callbacks + Owed("main") + Owed("rpc")

WakePendingIsOneWake ==
  /\ WakesInFlight <= 1
  /\ wakePending => WakesInFlight = 1 /\ active = NoJob
  /\ WakesInFlight = 1 => wakePending \/ stopping

\* The active job is exactly the one AutoCAD has in its hands: no action is
\* issued while another is under way, and none is lost.
HostOwnsActive ==
  /\ active # NoJob <=> main = "acting" \/ dispatched
  /\ ~(main = "acting" /\ dispatched)
  /\ dispatched => kind[active] \in Dispatched

\* After AutoCAD's state is in doubt nothing is left to be issued, and nothing
\* will be.
QuarantineIsFinal ==
  quarantined => pending = <<>> /\ active = NoJob

\* No execution is left in a queue that nobody serves any more: a stop answers
\* those it finds, requests that still run on the rpc thread after the stop join
\* no queue, and one that was dispatched does not come back.  (An undo or redo that
\* finds AutoCAD busy does, and stays.)
StoppedQueueHoldsNoExecution ==
  stopping => \A j \in Elements(pending) : ~IsExecution(j)

\* The limits hold in every state, not only at admission: a job put back by
\* defer_for_readiness does not overflow the queue that filled up behind it.
WithinCapacity ==
  /\ MutationJobCount <= MaxMutationJobs
  /\ ExecutionUsage <= MaxAdmittedExecutions

\* A queued execution is untouched, however often AutoCAD was busy with it: no
\* cancel, expiry or step survives into the queue.
PendingExecutionsUntouched ==
  \A j \in Elements(pending) : IsExecution(j) =>
    /\ execution[j].phase = "BeginUndoGroup"
    /\ execution[j].outcome = "none"
    /\ ~execution[j].cancel

\* The timer driver never sleeps past a deadline it was told of.  An operation
\* that is still Queued is the exception: submit_operation does not notify.
TimerKnowsItsDeadlines ==
  timer.state = "sleeping" /\ ~permit =>
    \A j \in Elements(pending) :
      IsExecution(j) \/ wait[j].state # "Queued" =>
        /\ timer.target <= wait[j].left
        /\ Deferred(j) => timer.target <= wait[j].retry

\* A cancel that was accepted is kept: whatever the driver, the host and the
\* finalizer still report, the caller is not told that the drawing was changed.
AcceptedCancelNeverSucceeds ==
  [][\A j \in JobIds :
       /\ answer[j] = "waiting"
       /\ execution[j].cancel
       /\ answer'[j] # "waiting"
       => answer'[j] \in {"Cancelled", "NotStarted", "RolledBack", "Unknown"}]_vars

\* Callers that are told that nothing started can rely on it.
NotStartedMeansNoForm ==
  [][\A j \in JobIds :
       answer[j] = "waiting" /\ answer'[j] \in {"NotStarted", "PluginStopping", "TimedOut"}
       => ~execution[j].handedOff]_vars

\* Every job is answered, whatever AutoCAD answers and refuses.
EveryJobAnswered ==
  \A j \in JobIds : answer[j] = "waiting" ~> answer[j] # "waiting"

\* A queued job is not queued for ever, even if AutoCAD never runs a callback.
PendingJobsExpire ==
  \A j \in JobIds : j \in Elements(pending) ~> j \notin Elements(pending)

-----------------------------------------------------------------------------
(***************************************************************************)
(* The refinement: what a caller could see of a job.                       *)
(***************************************************************************)
JobState(j) ==
  IF answer[j] = "unsubmitted" THEN "new"
  ELSE IF answer[j] # "waiting" THEN "answered"
  ELSE IF j = active THEN "running"
  ELSE "queued"

Serial ==
  INSTANCE SerialMutations WITH
    Jobs   <- JobIds,
    state  <- [j \in JobIds |-> JobState(j)],
    halted <- stopping \/ quarantined

\* The scheduler implements serial mutations: whatever wakes, timers, cancels
\* and busy answers do, jobs start one at a time and in admission order.
SerialSpec == Serial!Spec
=============================================================================
