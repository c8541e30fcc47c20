----------------------- MODULE MutationSchedulerProofs -----------------------
(***************************************************************************)
(* The invariants of the mutation scheduler, for every value of its        *)
(* constants.  They are proved in layers, each assuming the ones before:   *)
(*                                                                         *)
(*   Typed      every variable has its type, and AutoCAD holds an action   *)
(*              exactly when a job is active,                              *)
(*   Accounted  every job that waits is held once, the queue is in         *)
(*              admission order, and only its head is deferred,            *)
(*   Woken      wake_pending stands for one wake, and no ready job is      *)
(*              without one,                                               *)
(*   Driven     executions are consistent, and those of the queue          *)
(*              untouched.                                                 *)
(*                                                                         *)
(* The limits, the timer driver's deadlines and what callers are told      *)
(* follow from these; at the end, the scheduler implements serial          *)
(* mutations.                                                              *)
(***************************************************************************)
EXTENDS MutationScheduler, SequenceTheorems, FiniteSetTheorems, TLAPS

-----------------------------------------------------------------------------
(***************************************************************************)
(* Exec: every method of an execution yields an execution.                 *)
(***************************************************************************)
\* The names a method writes are members of the sets that type them.
LEMMA Names ==
  /\ {"BeginUndoGroup", "BetweenForms", "EmitEvalValue", "ClearRetainedEvalValue",
      "CloseEmptyUndoGroup", "RollbackUndoGroup", "Terminal", "Done"} \subseteq Phases
  /\ AwaitedSteps \subseteq Phases
  /\ Failures \subseteq Outcomes \cup {"none"}
  /\ UnwindCauses \subseteq Outcomes \cup {"none"}
  /\ {"Success", "Cancelled", "Committed", "RolledBack", "NotStarted", "Unknown"}
       \subseteq Outcomes \cup {"none"}
  /\ {"Cancelled", "NotStarted", "Unknown", "none"} \subseteq UnwindCauses \cup {"none"}
  BY DEF Phases, AwaitedSteps, Outcomes, Failures, UnwindCauses

\* A record changed in its unwind, phase and outcome is an execution again.
LEMMA Rewritten ==
  ASSUME NEW e \in Executions, NEW u \in UnwindCauses \cup {"none"}, NEW p \in Phases,
         NEW o \in Outcomes \cup {"none"}
  PROVE  /\ [e EXCEPT !.unwind = u, !.phase = p] \in Executions
         /\ [e EXCEPT !.outcome = o, !.phase = p] \in Executions
         /\ [e EXCEPT !.outcome = o, !.unwind = u, !.phase = p] \in Executions
         /\ [e EXCEPT !.phase = p] \in Executions
         /\ [e EXCEPT !.unwind = u] \in Executions
  BY DEF Executions

\* The parts of an execution.
LEMMA Fields ==
  ASSUME NEW e \in Executions
  PROVE  /\ e.mode \in ExecModes
         /\ e.forms \in 0..MaxForms
         /\ e.phase \in Phases
         /\ e.handedOff \in BOOLEAN
         /\ e.retained \in BOOLEAN
         /\ e.cancel \in BOOLEAN
         /\ e.unwind \in UnwindCauses \cup {"none"}
         /\ e.outcome \in Outcomes \cup {"none"}
  BY DEF Executions

\* A new execution is one.
LEMMA NewExecutionType ==
  ASSUME NEW mode \in ExecModes, NEW forms \in 0..MaxForms
  PROVE  NewExecution(mode, forms) \in Executions
  BY Names DEF NewExecution, Executions

\* So is what is left of one that was moved out,
LEMMA DroppedType == Dropped \in Executions
<1>1. NewExecution("Exec", 0) \in Executions
  BY NewExecutionType, MaxFormsAssumption DEF ExecModes
<1> QED BY <1>1, Rewritten, Names DEF Dropped

\* one that was asked to cancel,
LEMMA RequestCancelType ==
  ASSUME NEW e \in Executions
  PROVE  RequestCancel(e) \in Executions
  BY DEF RequestCancel, Executions

\* one that expired before it started,
LEMMA ExpireType ==
  ASSUME NEW e \in Executions
  PROVE  ExpireBeforeStart(e) \in Executions
  BY Rewritten, Names DEF ExpireBeforeStart

\* one that unwinds,
LEMMA BeginUnwindType ==
  ASSUME NEW e \in Executions, NEW cause \in UnwindCauses
  PROVE  BeginUnwind(e, cause) \in Executions
  BY Rewritten, Names DEF BeginUnwind

\* one whose next step was taken,
LEMMA TakeStepType ==
  ASSUME NEW e \in Executions
  PROVE  TakeStep(e) \in Executions
<1>1. Settled(e) \in Executions
  BY Rewritten, BeginUnwindType, Names DEF Settled, UnwindCauses
<1>2. ASSUME NEW s \in Executions PROVE Issue(s) \in Executions
  <2>1. CASE s.phase \in DOMAIN IssuedPhase
    <3>1. IssuedPhase[s.phase] \in Phases
      BY <2>1 DEF IssuedPhase, Phases, AwaitedSteps
    <3>2. [s EXCEPT !.phase = IssuedPhase[s.phase]] \in Executions
      BY <3>1 DEF Executions
    <3>3. Issue(s) = [s EXCEPT !.phase = IssuedPhase[s.phase]]
      <4>1. s.phase # "BetweenForms"
        BY <2>1 DEF IssuedPhase
      <4> QED BY <2>1, <4>1 DEF Issue
    <3> QED BY <3>2, <3>3
  <2>2. CASE s.phase = "BetweenForms" /\ s.forms > 0
    <3>1. "BetweenForms" \notin DOMAIN IssuedPhase
      BY DEF IssuedPhase
    <3>2. s.forms - 1 \in 0..MaxForms /\ "AwaitingEvaluateForm" \in Phases
      BY <2>2, Fields, MaxFormsAssumption DEF Phases, AwaitedSteps
    <3>3. [s EXCEPT !.phase = "AwaitingEvaluateForm", !.forms = s.forms - 1,
                    !.handedOff = TRUE] \in Executions
      BY <3>2 DEF Executions
    <3> QED BY <2>2, <3>1, <3>3 DEF Issue
  <2>3. CASE s.phase = "BetweenForms" /\ s.forms = 0
    <3>1. "BetweenForms" \notin DOMAIN IssuedPhase
      BY DEF IssuedPhase
    <3>2. "AwaitingCommitUndoGroup" \in Phases
      BY DEF Phases, AwaitedSteps
    <3>3. [s EXCEPT !.phase = "AwaitingCommitUndoGroup"] \in Executions
      BY <3>2 DEF Executions
    <3>4. ~(s.forms > 0)
      BY <2>3
    <3> QED BY <2>3, <3>1, <3>3, <3>4 DEF Issue
  <2>4. CASE s.phase \notin DOMAIN IssuedPhase /\ s.phase # "BetweenForms"
    BY <2>4 DEF Issue
  <2>5. s.forms > 0 \/ s.forms = 0
    BY Fields, MaxFormsAssumption
  <2> QED BY <2>1, <2>2, <2>3, <2>4, <2>5
<1> QED BY <1>1, <1>2 DEF TakeStep

\* one whose step was completed,
LEMMA CompleteStepType ==
  ASSUME NEW e \in Executions, NEW r \in StepResults
  PROVE  CompleteStep(e, r) \in Executions
<1>1. UndoGroupBegun(e, r) \in Executions
  <2>1. (IF e.unwind \in Failures THEN e.unwind ELSE "NotStarted") \in Outcomes \cup {"none"}
    BY Fields, Names
  <2> QED BY <2>1, Rewritten, Names, Fields DEF UndoGroupBegun
<1>2. FormEvaluated(e, r) \in Executions
  <2> DEFINE kept == [e EXCEPT !.retained = e.retained \/ (e.mode = "Eval" /\ r # "failed")]
  <2>1. kept \in Executions
    BY DEF Executions
  <2> HIDE DEF kept
  <2>2. /\ BeginUnwind(kept, "Unknown") \in Executions
        /\ BeginUnwind(kept, "Cancelled") \in Executions
        /\ [kept EXCEPT !.phase = "BetweenForms"] \in Executions
    BY <2>1, BeginUnwindType, Rewritten, Names DEF UnwindCauses
  <2> QED BY <2>2, Fields DEF FormEvaluated, kept
<1>3. UndoGroupCommitted(e, r) \in Executions
  BY BeginUnwindType, Rewritten, Names, Fields DEF UndoGroupCommitted, ExecModes, UnwindCauses
<1>4. EvalValueEmitted(e, r) \in Executions
  <2>1. [e EXCEPT !.retained = FALSE, !.outcome = "Success", !.phase = "Terminal"] \in Executions
    BY Names DEF Executions
  <2> QED BY <2>1, Rewritten, Names DEF EvalValueEmitted
<1>5. RetainedValueCleared(e, r) \in Executions
  <2>1. [e EXCEPT !.retained = FALSE, !.phase = "RollbackUndoGroup"] \in Executions
    BY Names DEF Executions
  <2>2. (IF e.unwind \in Failures THEN e.unwind ELSE "Unknown") \in UnwindCauses \cup {"none"}
    BY Names, Fields
  <2> QED BY <2>1, <2>2, Rewritten, Names DEF RetainedValueCleared
<1>6. EmptyUndoGroupClosed(e, r) \in Executions
  <2>1. (IF r = "ok" THEN e.unwind ELSE "Unknown") \in Outcomes \cup {"none"}
    BY Names, Fields
  <2> QED BY <2>1, Rewritten, Names DEF EmptyUndoGroupClosed
<1>7. UndoGroupRolledBack(e, r) \in Executions
  <2> DEFINE o == CASE r # "ok" -> "Unknown"
                    [] r = "ok" /\ e.unwind = "Cancelled" -> "Cancelled"
                    [] r = "ok" /\ e.unwind # "Cancelled" -> "RolledBack"
  <2>1. o \in Outcomes \cup {"none"}
    BY Names
  <2> HIDE DEF o
  <2>2. [e EXCEPT !.outcome = o, !.unwind = "none", !.phase = "Terminal"] \in Executions
    BY <2>1, Rewritten, Names
  <2> QED BY <2>2 DEF UndoGroupRolledBack, o
<1> QED BY <1>1, <1>2, <1>3, <1>4, <1>5, <1>6, <1>7 DEF CompleteStep

\* and one that was abandoned.
LEMMA AbandonType ==
  ASSUME NEW e \in Executions
  PROVE  Abandon(e) \in Executions
<1>1. /\ (IF e.outcome = "none" THEN "none" ELSE e.unwind) \in UnwindCauses \cup {"none"}
      /\ (IF e.phase = "Done" THEN "Done" ELSE "Terminal") \in Phases
  BY Fields, Names
<1> QED BY <1>1, Rewritten, Names DEF Abandon

-----------------------------------------------------------------------------
(***************************************************************************)
(* Exec: every method keeps an execution consistent.  An outcome is        *)
(* concluded at the end and not before, an accepted cancel keeps the       *)
(* execution away from the commit and what follows it, and once a form was *)
(* handed off no cause or outcome says that nothing started.               *)
(***************************************************************************)
\* What an execution is, whatever was called on it.
Consistent(e) ==
  /\ e.phase \notin {"Terminal", "Done"} => e.outcome = "none"
  /\ e.cancel =>
       /\ e.outcome \notin {"Success", "Committed"}
       /\ e.phase \notin {"AwaitingCommitUndoGroup", "EmitEvalValue", "AwaitingEmitEvalValue"}
  /\ e.handedOff =>
       /\ e.phase \notin {"BeginUndoGroup", "AwaitingBeginUndoGroup"}
       /\ e.unwind # "NotStarted"
       /\ e.outcome # "NotStarted"
  /\ e.unwind # "none" => e.phase \notin {"BeginUndoGroup", "BetweenForms", "AwaitingEvaluateForm"}

\* An execution that no step was taken of.
Untouched(e) ==
  /\ e.phase = "BeginUndoGroup"
  /\ e.outcome = "none"
  /\ ~e.handedOff
  /\ e.unwind = "none"

\* A new execution is consistent.
LEMMA FreshIsConsistent ==
  /\ Consistent(Dropped)
  /\ \A mode, forms : Consistent(NewExecution(mode, forms))
  BY DEF Consistent, NewExecution, Dropped

\* It stays so when it is cancelled,
LEMMA CancelIsConsistent ==
  ASSUME NEW e \in Executions, Consistent(e)
  PROVE  /\ Consistent(RequestCancel(e))
         /\ Consistent(CancelBeforeStart(e))
<1>1. Consistent(RequestCancel(e))
  BY DEF Consistent, RequestCancel, CancelAccepted, Executions
<1>2. Consistent(CancelBeforeStart(e))
  BY DEF Consistent, CancelBeforeStart, CanCancelBeforeStart, Executions
<1> QED BY <1>1, <1>2

\* when it expires,
LEMMA ExpiryIsConsistent ==
  ASSUME NEW e \in Executions, Consistent(e)
  PROVE  Consistent(ExpireBeforeStart(e))
  BY DEF Consistent, ExpireBeforeStart, Expirable, Executions

\* What may happen to an execution before its first step leaves it untouched or
\* with its outcome.
LEMMA UntouchedStays ==
  ASSUME NEW e \in Executions, Untouched(e) \/ e.outcome # "none"
  PROVE  /\ Untouched(RequestCancel(e)) \/ RequestCancel(e).outcome # "none"
         /\ Untouched(ExpireBeforeStart(e)) \/ ExpireBeforeStart(e).outcome # "none"
<1>1. Untouched(RequestCancel(e)) \/ RequestCancel(e).outcome # "none"
  BY DEF Untouched, RequestCancel, Executions
<1>2. Untouched(ExpireBeforeStart(e)) \/ ExpireBeforeStart(e).outcome # "none"
  BY DEF Untouched, ExpireBeforeStart, Expirable, Executions
<1> QED BY <1>1, <1>2

\* when it is abandoned,
LEMMA AbandonIsConsistent ==
  ASSUME NEW e \in Executions, Consistent(e)
  PROVE  Consistent(Abandon(e))
  BY DEF Consistent, Abandon, Executions

\* when it unwinds,
LEMMA UnwindIsConsistent ==
  ASSUME NEW e \in Executions, Consistent(e), e.outcome = "none",
         NEW cause \in {"Cancelled", "Unknown"}
  PROVE  Consistent(BeginUnwind(e, cause))
  BY DEF Consistent, BeginUnwind, Executions

\* when its next step is taken,
LEMMA TakeStepIsConsistent ==
  ASSUME NEW e \in Executions, Consistent(e)
  PROVE  Consistent(TakeStep(e))
<1>1. Settled(e) \in Executions
  BY Rewritten, BeginUnwindType, Names DEF Settled, UnwindCauses
<1>2. /\ Consistent(Settled(e))
      /\ Settled(e).phase = "BetweenForms" => ~Settled(e).cancel
  <2>1. CASE e.phase = "BetweenForms" /\ e.cancel /\ e.handedOff
    BY <2>1 DEF Consistent, Settled, BeginUnwind, Executions
  <2>2. CASE ~(e.phase = "BetweenForms" /\ e.cancel /\ e.handedOff)
    BY <2>2 DEF Consistent, Settled, Executions
  <2> QED BY <2>1, <2>2
<1>3. ASSUME NEW s \in Executions, Consistent(s), s.phase = "BetweenForms" => ~s.cancel
      PROVE  Consistent(Issue(s))
  <2>1. CASE s.phase \in DOMAIN IssuedPhase
    <3>1. IssuedPhase[s.phase] \in Phases
      BY <2>1 DEF IssuedPhase, Phases, AwaitedSteps
    <3>2. Consistent([s EXCEPT !.phase = IssuedPhase[s.phase]])
      BY <1>3, <2>1, <3>1 DEF Consistent, IssuedPhase, Executions
    <3>3. s.phase # "BetweenForms"
      BY <2>1 DEF IssuedPhase
    <3> QED BY <2>1, <3>2, <3>3 DEF Issue
  <2>2. CASE s.phase \notin DOMAIN IssuedPhase
    BY <1>3, <2>2 DEF Consistent, Issue, Executions
  <2> QED BY <2>1, <2>2
<1> QED BY <1>1, <1>2, <1>3 DEF TakeStep

\* and when that is completed.
LEMMA CompleteStepIsConsistent ==
  ASSUME NEW e \in Executions, Consistent(e), NEW r \in StepResults
  PROVE  Consistent(CompleteStep(e, r))
<1>1. CASE e.phase = "AwaitingBeginUndoGroup"
  <2> DEFINE o == IF e.unwind \in Failures THEN e.unwind ELSE "NotStarted"
  <2>1. o \in {"NotStarted", "Unknown"}
    BY Fields DEF Failures, UnwindCauses
  <2> HIDE DEF o
  <2>2. Consistent([e EXCEPT !.outcome = o, !.unwind = "none", !.phase = "Terminal"])
    BY <1>1, <2>1 DEF Consistent, Executions
  <2>3. Consistent(UndoGroupBegun(e, r))
    BY <1>1, <2>2 DEF Consistent, UndoGroupBegun, Executions, o
  <2> QED BY <1>1, <2>3 DEF CompleteStep
<1>2. CASE e.phase = "AwaitingEvaluateForm"
  <2> DEFINE kept == [e EXCEPT !.retained = e.retained \/ (e.mode = "Eval" /\ r # "failed")]
  <2>1. kept \in Executions /\ Consistent(kept) /\ kept.phase = e.phase
    BY DEF Consistent, Executions
  <2>2. kept.outcome = "none" /\ kept.cancel = e.cancel
    BY <1>2 DEF Consistent, Executions
  <2> HIDE DEF kept
  <2>3. ~e.cancel => Consistent([kept EXCEPT !.phase = "BetweenForms"])
    BY <1>2, <2>1, <2>2 DEF Consistent, Executions
  <2>4. Consistent(BeginUnwind(kept, "Unknown")) /\ Consistent(BeginUnwind(kept, "Cancelled"))
    BY <2>1, <2>2, UnwindIsConsistent
  <2>5. Consistent(FormEvaluated(e, r))
    BY <2>3, <2>4, Fields DEF FormEvaluated, kept
  <2> QED BY <1>2, <2>5 DEF CompleteStep
<1>3. CASE e.phase = "AwaitingCommitUndoGroup"
  <2>1. Consistent(BeginUnwind(e, "Unknown"))
    BY <1>3, UnwindIsConsistent DEF Consistent
  <2>2. Consistent(UndoGroupCommitted(e, r))
    BY <1>3, <2>1, Fields DEF Consistent, UndoGroupCommitted, Executions, ExecModes
  <2> QED BY <1>3, <2>2 DEF CompleteStep
<1>4. CASE e.phase = "AwaitingEmitEvalValue"
  <2>1. Consistent(EvalValueEmitted(e, r))
    BY <1>4 DEF Consistent, EvalValueEmitted, Executions
  <2> QED BY <1>4, <2>1 DEF CompleteStep
<1>5. CASE e.phase = "AwaitingClearRetainedEvalValue"
  <2>1. Consistent(RetainedValueCleared(e, r))
    BY <1>5 DEF Consistent, RetainedValueCleared, Executions, Failures
  <2> QED BY <1>5, <2>1 DEF CompleteStep
<1>6. CASE e.phase = "AwaitingCloseEmptyUndoGroup"
  <2>1. Consistent(EmptyUndoGroupClosed(e, r))
    BY <1>6 DEF Consistent, EmptyUndoGroupClosed, Executions, UnwindCauses
  <2> QED BY <1>6, <2>1 DEF CompleteStep
<1>7. CASE e.phase = "AwaitingRollbackUndoGroup"
  <2>1. Consistent(UndoGroupRolledBack(e, r))
    BY <1>7 DEF Consistent, UndoGroupRolledBack, Executions
  <2> QED BY <1>7, <2>1 DEF CompleteStep
<1> QED BY <1>1, <1>2, <1>3, <1>4, <1>5, <1>6, <1>7 DEF CompleteStep

-----------------------------------------------------------------------------
(***************************************************************************)
(* What the operators of MutationScheduler return: wait states, ...        *)
(***************************************************************************)
LEMMA Bounds ==
  /\ ReadinessTimeout \in Nat /\ ReadinessTimeout > 0
  /\ RetryInitial \in 0..RetryMax
  /\ RetryMax \in Nat
  BY SchedulerAssumption

LEMMA FreshWaits ==
  /\ NoWait \in WaitStates
  /\ Queued \in WaitStates
  BY Bounds DEF NoWait, Queued, WaitStates

LEMMA WaitFields ==
  ASSUME NEW w \in WaitStates
  PROVE  /\ w.left \in 0..ReadinessTimeout
         /\ w.retry \in 0..ReadinessTimeout
         /\ w.delay \in 0..RetryMax
  BY DEF WaitStates

LEMMA ReadyType ==
  ASSUME NEW left \in 0..ReadinessTimeout, NEW delay \in 0..RetryMax
  PROVE  Ready(left, delay) \in WaitStates
  BY Bounds DEF Ready, WaitStates

LEMMA WaitsType ==
  ASSUME NEW w \in WaitStates
  PROVE  /\ BeginReadiness(w) \in WaitStates
         /\ RetryNow(w) \in WaitStates
         /\ ReadinessMayHaveChanged(w) \in WaitStates
         /\ Defer(w) \in WaitStates
         /\ Aged(w) \in WaitStates
<1>1. BeginReadiness(w) \in WaitStates
  BY Bounds, ReadyType DEF BeginReadiness
<1>2. RetryNow(w) \in WaitStates /\ ReadinessMayHaveChanged(w) \in WaitStates
  BY Bounds, ReadyType, WaitFields DEF RetryNow, ReadinessMayHaveChanged
<1>3. Defer(w) \in WaitStates
  <2>1. Least(w.delay, w.left) \in 0..ReadinessTimeout
    BY WaitFields, Bounds DEF Least
  <2>2. Least(2 * w.delay, RetryMax) \in 0..RetryMax
    BY WaitFields, Bounds DEF Least
  <2> QED BY <2>1, <2>2, WaitFields DEF Defer, WaitStates
<1>4. Aged(w) \in WaitStates
  <2>1. Ticked(w.left) \in 0..ReadinessTimeout /\ Ticked(w.retry) \in 0..ReadinessTimeout
    BY WaitFields, Bounds DEF Ticked
  <2> QED BY <2>1 DEF Aged, WaitStates
<1> QED BY <1>1, <1>2, <1>3, <1>4

\* Where each operation takes the state of a wait.
LEMMA WaitSteps ==
  ASSUME NEW w \in WaitStates
  PROVE  /\ w.state \in {"None", "Queued", "Ready", "Deferred"}
         /\ w.state \in {"Queued", "Ready"} => BeginReadiness(w).state = "Ready"
         /\ w.state = "Ready" => Defer(w).state = "Deferred"
         /\ w.state # "None" => Defer(BeginReadiness(w)).state = "Deferred"
         /\ \A v \in {RetryNow(w), ReadinessMayHaveChanged(w)} :
              IF w.state = "Deferred" THEN v.state = "Ready" ELSE v = w
         /\ Aged(w).state = w.state
<1>1. w.state \in {"None", "Queued", "Ready", "Deferred"}
  BY DEF WaitStates
<1>2. w.state = "Ready" => Defer(w).state = "Deferred"
  BY DEF Defer
<1>3. w.state \in {"Queued", "Ready"} => BeginReadiness(w).state = "Ready"
  BY DEF BeginReadiness, Ready
<1>4. w.state # "None" => Defer(BeginReadiness(w)).state = "Deferred"
  <2>1. CASE w.state = "Deferred"
    BY <2>1 DEF Defer, BeginReadiness
  <2>2. CASE w.state \in {"Queued", "Ready"}
    BY <1>3, <2>2 DEF Defer
  <2> QED BY <1>1, <2>1, <2>2
<1>5. \A left, delay : Ready(left, delay).state = "Ready"
  BY DEF Ready
<1>6. \A v \in {RetryNow(w), ReadinessMayHaveChanged(w)} :
        IF w.state = "Deferred" THEN v.state = "Ready" ELSE v = w
  <2>1. CASE w.state = "Deferred"
    BY <1>5, <2>1 DEF RetryNow, ReadinessMayHaveChanged
  <2>2. CASE w.state # "Deferred"
    BY <2>2 DEF RetryNow, ReadinessMayHaveChanged
  <2> QED BY <2>1, <2>2
<1>7. Aged(w).state = w.state
  BY DEF Aged, WaitStates
<1> QED BY <1>1, <1>2, <1>3, <1>4, <1>6, <1>7

-----------------------------------------------------------------------------
(***************************************************************************)
(* Answers.                                                                *)
(***************************************************************************)
LEMMA OutcomesAreAnswers ==
  /\ Outcomes \subseteq Answers
  /\ {"Completed", "TimedOut", "PluginStopping", "StateUnknown", "Unknown", "NotStarted"}
       \subseteq Answers
  BY DEF Answers, Outcomes, Failures

LEMMA OutcomeAnswerType ==
  ASSUME NEW e \in Executions
  PROVE  OutcomeAnswer(e) \in Answers
  BY Fields, OutcomesAreAnswers DEF OutcomeAnswer

LEMMA ExecutionAnswerType ==
  ASSUME NEW e \in Executions, NEW result
  PROVE  ExecutionAnswer(e, result) \in Answers
<1>1. RecordFinalizationFailure(e) \in Executions
  BY Names DEF RecordFinalizationFailure, Executions
<1>2. OutcomeAnswer(e) \in Answers /\ OutcomeAnswer(RecordFinalizationFailure(e)) \in Answers
  BY <1>1, OutcomeAnswerType
<1>3. ErrorOutcome(result) \in Answers
  BY OutcomesAreAnswers DEF ErrorOutcome
<1> QED BY <1>2, <1>3 DEF ExecutionAnswer

LEMMA CancelFinishedType ==
  ASSUME NEW e \in Executions
  PROVE  CancelFinished(e) \in Executions
<1>1. CancelBeforeStart(e) \in Executions
  BY Names DEF CancelBeforeStart, Executions
<1> QED BY <1>1 DEF CancelFinished

LEMMA AnswersType ==
  ASSUME NEW j \in JobIds, execution \in [JobIds -> Executions], NEW result
  PROVE  /\ TimeoutAnswer(j) \in Answers
         /\ ActiveAnswer(j, result) \in Answers
         /\ CanCancelBeforeStart(execution[j]) =>
              CancelBeforeStart(execution[j]).outcome \in Answers
<1>1. execution[j] \in Executions
  OBVIOUS
<1>2. TimeoutAnswer(j) \in Answers
  BY <1>1, ExpireType, OutcomeAnswerType, OutcomesAreAnswers DEF TimeoutAnswer
<1>3. CompletionAnswer(j, result) \in Answers
  BY <1>1, ExecutionAnswerType, OutcomesAreAnswers DEF CompletionAnswer
<1>4. WaitedAnswer(j) \in Answers
  <2>1. CancelFinished(execution[j]) \in Executions
    BY <1>1, CancelFinishedType
  <2>2. CancelFinished(execution[j]).outcome \in Outcomes \cup {"none"}
    BY <2>1, Fields
  <2> QED BY <1>2, <2>2, OutcomesAreAnswers DEF WaitedAnswer
<1>5. CanCancelBeforeStart(execution[j]) =>
        CancelBeforeStart(execution[j]).outcome = "Cancelled"
  BY <1>1 DEF CancelBeforeStart, Executions
<1> QED BY <1>2, <1>3, <1>4, <1>5, OutcomesAreAnswers DEF ActiveAnswer, Outcomes

-----------------------------------------------------------------------------
(***************************************************************************)
(* Queues.                                                                 *)
(***************************************************************************)
LEMMA LeftOverType ==
  ASSUME NEW q \in Seq(JobIds), NEW gone, NEW t \in LeftOver(q, gone)
  PROVE  t \in Seq(JobIds)
<1>1. Len(q) \in Nat
  BY LenProperties
<1> QED BY <1>1, SeqDef DEF LeftOver

LEMMA ElementsType ==
  ASSUME NEW q \in Seq(JobIds)
  PROVE  Elements(q) \subseteq JobIds
  BY LenProperties DEF Elements

LEMMA JobIdsAreNumbers ==
  /\ JobIds \subseteq Nat \ {0}
  /\ NoJob \notin JobIds
  /\ MaxSubmissions \in Nat
  BY SchedulerAssumption DEF JobIds, NoJob

LEMMA EmptyQueue ==
  /\ Elements(<<>>) = {}
  /\ Increasing(<<>>)
  /\ \A q \in Seq(JobIds) : q # <<>> => Elements(q) # {}
<1>1. ASSUME NEW q \in Seq(JobIds), q # <<>>
      PROVE  Elements(q) # {}
  <2>1. 1 \in DOMAIN q
    BY <1>1, EmptySeq, LenProperties
  <2> QED BY <2>1 DEF Elements
<1> QED BY <1>1 DEF Elements, Increasing

\* A new job joins at the end.
LEMMA QueueWithLast ==
  ASSUME NEW q \in Seq(JobIds), NEW j \in JobIds, Increasing(q),
         \A k \in Elements(q) : k < j
  PROVE  /\ Elements(Append(q, j)) = Elements(q) \cup {j}
         /\ Increasing(Append(q, j))
         /\ q # <<>> => Head(Append(q, j)) = Head(q)
<1> DEFINE t == Append(q, j)
<1>1. /\ Len(q) \in Nat
      /\ DOMAIN q = 1..Len(q)
      /\ DOMAIN t = 1..(Len(q) + 1)
      /\ \A i \in 1..Len(q) : t[i] = q[i]
      /\ t[Len(q) + 1] = j
  BY LenProperties
<1> HIDE DEF t
<1>2. Elements(t) = Elements(q) \cup {j}
  BY <1>1 DEF Elements
<1>3. Increasing(t)
  <2> SUFFICES ASSUME NEW i \in DOMAIN t, NEW k \in DOMAIN t, i < k
               PROVE  t[i] < t[k]
    BY DEF Increasing
  <2>1. CASE k = Len(q) + 1
    BY <1>1, <2>1 DEF Elements
  <2>2. CASE k # Len(q) + 1
    BY <1>1, <2>2 DEF Increasing
  <2> QED BY <2>1, <2>2
<1>4. q # <<>> => Head(t) = Head(q)
  <2> SUFFICES ASSUME q # <<>> PROVE Head(t) = Head(q)
    OBVIOUS
  <2>1. Len(q) >= 1
    BY EmptySeq, LenProperties
  <2>2. t[1] = q[1]
    BY <1>1, <2>1
  <2> QED BY <2>1, <2>2 DEF t
<1> QED BY <1>2, <1>3, <1>4 DEF t

\* A job that AutoCAD was too busy for goes back to the front.
LEMMA QueueWithFirst ==
  ASSUME NEW q \in Seq(JobIds), NEW j \in JobIds, Increasing(q),
         \A k \in Elements(q) : j < k
  PROVE  /\ Elements(<<j>> \o q) = Elements(q) \cup {j}
         /\ Increasing(<<j>> \o q)
<1> DEFINE t == <<j>> \o q
<1>1. /\ Len(q) \in Nat
      /\ DOMAIN q = 1..Len(q)
      /\ DOMAIN t = 1..(Len(q) + 1)
      /\ \A i \in 1..(Len(q) + 1) : t[i] = IF i = 1 THEN j ELSE q[i - 1]
  <2>1. <<j>> \in Seq(JobIds) /\ Len(<<j>>) = 1 /\ <<j>>[1] = j
    OBVIOUS
  <2>2. Len(q) \in Nat /\ DOMAIN q = 1..Len(q)
    BY LenProperties
  <2>3. t \in Seq(JobIds) /\ Len(t) = Len(q) + 1
    BY <2>1, <2>2, ConcatProperties
  <2>4. DOMAIN t = 1..(Len(q) + 1)
    BY <2>3, LenProperties
  <2>5. \A i \in 1..(1 + Len(q)) : t[i] = IF i <= 1 THEN <<j>>[i] ELSE q[i - 1]
    BY <2>1, <2>2, ConcatProperties
  <2> QED BY <2>1, <2>2, <2>4, <2>5
<1> HIDE DEF t
<1>2. Elements(t) = Elements(q) \cup {j}
  <2>1. \A i \in DOMAIN t : t[i] \in Elements(q) \cup {j}
    BY <1>1 DEF Elements
  <2>2. \A i \in DOMAIN q : i + 1 \in DOMAIN t /\ t[i + 1] = q[i]
    BY <1>1
  <2>3. 1 \in DOMAIN t /\ t[1] = j
    BY <1>1
  <2> QED BY <2>1, <2>2, <2>3 DEF Elements
<1>3. Increasing(t)
  <2> SUFFICES ASSUME NEW i \in DOMAIN t, NEW k \in DOMAIN t, i < k
               PROVE  t[i] < t[k]
    BY DEF Increasing
  <2>1. k - 1 \in DOMAIN q /\ t[k] = q[k - 1]
    BY <1>1
  <2>2. CASE i = 1
    BY <1>1, <2>1, <2>2 DEF Elements
  <2>3. CASE i # 1
    BY <1>1, <2>1, <2>3 DEF Increasing
  <2> QED BY <2>2, <2>3
<1> QED BY <1>2, <1>3 DEF t

\* The first job leaves, the one that was admitted first.
LEMMA QueueWithoutHead ==
  ASSUME NEW q \in Seq(JobIds), q # <<>>, Increasing(q)
  PROVE  /\ Head(q) \in Elements(q)
         /\ \A k \in Elements(q) : Head(q) <= k
         /\ Elements(Tail(q)) = Elements(q) \ {Head(q)}
         /\ Increasing(Tail(q))
<1>1. /\ Len(q) \in Nat /\ Len(q) >= 1
      /\ DOMAIN q = 1..Len(q)
      /\ DOMAIN Tail(q) = 1..(Len(q) - 1)
      /\ \A i \in 1..(Len(q) - 1) : Tail(q)[i] = q[i + 1]
      /\ Head(q) = q[1]
      /\ \A i \in DOMAIN q : q[i] \in Nat
  <2>1. Len(q) \in Nat /\ Len(q) >= 1 /\ DOMAIN q = 1..Len(q)
    BY LenProperties, EmptySeq
  <2>2. Tail(q) \in Seq(JobIds) /\ Len(Tail(q)) = Len(q) - 1
    BY HeadTailProperties
  <2>3. DOMAIN Tail(q) = 1..(Len(q) - 1)
    BY <2>2, LenProperties
  <2>4. \A i \in 1..(Len(q) - 1) : Tail(q)[i] = q[i + 1]
    BY <2>2, HeadTailProperties
  <2>5. \A i \in 1..Len(q) : q[i] \in JobIds
    BY ElementOfSeq
  <2>6. Head(q) = q[1]
    BY <2>1
  <2>7. \A i \in DOMAIN q : q[i] \in Nat
    BY <2>1, <2>5, JobIdsAreNumbers
  <2> QED BY <2>1, <2>3, <2>4, <2>6, <2>7
<1>2. \A i \in DOMAIN q : i # 1 => q[1] < q[i]
  BY <1>1 DEF Increasing
<1>3. Elements(Tail(q)) = Elements(q) \ {Head(q)}
  <2>1. \A i \in DOMAIN Tail(q) : i + 1 \in DOMAIN q /\ i + 1 # 1 /\ Tail(q)[i] = q[i + 1]
    BY <1>1
  <2>2. \A i \in DOMAIN q : i # 1 => i - 1 \in DOMAIN Tail(q) /\ Tail(q)[i - 1] = q[i]
    BY <1>1
  <2>3. Elements(Tail(q)) \subseteq Elements(q) \ {Head(q)}
    BY <1>1, <1>2, <2>1 DEF Elements
  <2>4. Elements(q) \ {Head(q)} \subseteq Elements(Tail(q))
    BY <1>1, <2>2 DEF Elements
  <2> QED BY <2>3, <2>4
<1>4. Increasing(Tail(q))
  BY <1>1 DEF Increasing
<1>5. Head(q) \in Elements(q)
  BY <1>1 DEF Elements
<1>6. ASSUME NEW i \in DOMAIN q PROVE Head(q) <= q[i]
  <2>1. q[1] \in Nat /\ q[i] \in Nat
    BY <1>1
  <2> QED BY <1>1, <1>2, <2>1
<1>7. \A k \in Elements(q) : Head(q) <= k
  BY <1>6 DEF Elements
<1> QED BY <1>3, <1>4, <1>5, <1>7

\* Jobs leave from anywhere in the queue; the others keep their order.
LEMMA QueueWithout ==
  ASSUME NEW q \in Seq(JobIds), Increasing(q), NEW gone, NEW t \in LeftOver(q, gone)
  PROVE  Elements(t) = Elements(q) \ gone /\ Increasing(t)
<1>1. \A i, k \in DOMAIN t : i < k => Precedes(q, t[i], t[k])
  BY DEF LeftOver
<1>2. ASSUME NEW x, NEW y, Precedes(q, x, y)
      PROVE  x < y
  BY <1>2 DEF Precedes, Increasing
<1> QED BY <1>1, <1>2 DEF LeftOver, Increasing

\* The least job of a queue in admission order is its head.
LEMMA HeadIsLeast ==
  ASSUME NEW q \in Seq(JobIds), Increasing(q), NEW j \in Elements(q),
         \A k \in Elements(q) : j <= k
  PROVE  q # <<>> /\ j = Head(q)
<1>1. q # <<>>
  BY EmptyQueue
<1>2. Head(q) \in Elements(q) /\ Head(q) <= j
  BY <1>1, QueueWithoutHead
<1>3. j \in Nat /\ Head(q) \in Nat
  BY <1>2, ElementsType, JobIdsAreNumbers
<1> QED BY <1>1, <1>2, <1>3

-----------------------------------------------------------------------------

\* AutoCAD holds an action exactly when a job is active, and in one place.
ActiveIsOwned ==
  /\ active # NoJob <=> main = "acting" \/ dispatched
  /\ ~(main = "acting" /\ dispatched)

Typed == TypeOK /\ ActiveIsOwned

-----------------------------------------------------------------------------
(***************************************************************************)
(* The types of what several actions share.                                *)
(***************************************************************************)
LEMMA AnswerType ==
  ASSUME execution \in [JobIds -> Executions],
         answer \in [JobIds -> Answers \cup {"unsubmitted", "waiting"}],
         NEW gone, NEW sent, \A j \in JobIds : j \in gone => sent[j] \in Answers,
         Answer(gone, sent)
  PROVE  /\ execution' \in [JobIds -> Executions]
         /\ answer' \in [JobIds -> Answers \cup {"unsubmitted", "waiting"}]
  BY DroppedType DEF Answer

LEMMA WaitsWithoutType ==
  ASSUME NEW gone, NEW w \in [JobIds -> WaitStates]
  PROVE  WaitsWithout(gone, w) \in [JobIds -> WaitStates]
  BY FreshWaits DEF WaitsWithout

LEMMA RequestWakeType ==
  ASSUME NEW thread \in Threads, NEW woken \in BOOLEAN,
         NEW held \in [Threads -> {"none", "claimed", "refused"}],
         RequestWake(thread, woken, held)
  PROVE  /\ wakePending' \in BOOLEAN
         /\ claim' \in [Threads -> {"none", "claimed", "refused"}]
  BY DEF RequestWake

LEMMA EnqueueType ==
  ASSUME TypeOK, ActiveIsOwned,
         NEW k \in {"drawing", "history", "execution"}, NEW e \in Executions,
         Admits, Enqueue(k, e), UNCHANGED timer, permit' \in BOOLEAN
  PROVE  Typed'
<1>1. nextId \in JobIds /\ nextId + 1 \in 1..(MaxSubmissions + 1)
  BY JobIdsAreNumbers DEF TypeOK, Admits, JobIds
<1>2. pending' \in Seq(JobIds)
  BY <1>1 DEF TypeOK, Enqueue
<1>3. wakePending' \in BOOLEAN /\ claim' \in [Threads -> {"none", "claimed", "refused"}]
  BY RequestWakeType DEF TypeOK, Enqueue, Threads
<1>4. /\ kind' \in [JobIds -> {"drawing", "history", "execution", "none"}]
      /\ wait' \in [JobIds -> WaitStates]
      /\ execution' \in [JobIds -> Executions]
      /\ answer' \in [JobIds -> Answers \cup {"unsubmitted", "waiting"}]
  BY <1>1, FreshWaits DEF TypeOK, Enqueue
<1> QED BY <1>1, <1>2, <1>3, <1>4 DEF Typed, TypeOK, ActiveIsOwned, Enqueue

LEMMA CompleteNativeActionType ==
  ASSUME TypeOK, active # NoJob, NEW result, NEW quarantine \in BOOLEAN,
         CompleteNativeAction(result, quarantine)
  PROVE  /\ nextId' \in 1..(MaxSubmissions + 1)
         /\ pending' \in Seq(JobIds)
         /\ active' = NoJob
         /\ wakePending' \in BOOLEAN
         /\ stopping' \in BOOLEAN
         /\ quarantined' \in BOOLEAN
         /\ kind' \in [JobIds -> {"drawing", "history", "execution", "none"}]
         /\ wait' \in [JobIds -> WaitStates]
         /\ execution' \in [JobIds -> Executions]
         /\ answer' \in [JobIds -> Answers \cup {"unsubmitted", "waiting"}]
         /\ timer' = timer
         /\ permit' \in BOOLEAN
<1>0. active \in JobIds
  BY DEF TypeOK
<1>1. CASE DeferActive
  <2>1. pending' \in Seq(JobIds)
    BY <1>0, <1>1, ConcatProperties DEF DeferActive, TypeOK
  <2>2. wait' \in [JobIds -> WaitStates]
    BY <1>0, <1>1, WaitsType DEF DeferActive, TypeOK
  <2> QED BY <1>1, <2>1, <2>2 DEF DeferActive, TypeOK
<1>2. CASE AnswerActive(result, quarantine)
  <2> DEFINE gone == {active} \cup (IF quarantine THEN Elements(pending) ELSE {})
             sent == [j \in gone |-> IF j = active THEN ActiveAnswer(j, result)
                                      ELSE "StateUnknown"]
  <2>1. \A j \in JobIds : j \in gone => sent[j] \in Answers
    BY AnswersType, OutcomesAreAnswers DEF TypeOK
  <2>2. Answer(gone, sent)
    BY <1>2 DEF AnswerActive
  <2>3. /\ execution' \in [JobIds -> Executions]
        /\ answer' \in [JobIds -> Answers \cup {"unsubmitted", "waiting"}]
    <3> HIDE DEF gone, sent
    <3> QED BY <2>1, <2>2, AnswerType DEF TypeOK
  <2>4. wait' \in [JobIds -> WaitStates]
    <3>1. wait' = WaitsWithout(gone, wait)
      BY <1>2 DEF AnswerActive
    <3> QED BY <3>1, WaitsWithoutType DEF TypeOK
  <2> QED BY <1>2, <2>3, <2>4, EmptySeq DEF AnswerActive, TypeOK, timerVars
<1> QED BY <1>1, <1>2 DEF CompleteNativeAction

LEMMA HostCompletionType ==
  ASSUME Typed, active # NoJob, NEW result, NEW quarantine \in BOOLEAN,
         CompleteNativeAction(result, quarantine),
         main' \in {"free", "scheduling"}, dispatched' = FALSE,
         UNCHANGED <<callbacks, claim, acceptWakes>>
  PROVE  Typed'
  BY CompleteNativeActionType DEF Typed, TypeOK, ActiveIsOwned

-----------------------------------------------------------------------------
(***************************************************************************)
(* Typed is inductive, one lemma for each group of actions.                *)
(***************************************************************************)
LEMMA RequestKeepsTyped ==
  ASSUME Typed, Request
  PROVE  Typed'
<1> USE DEF Typed
<1>1. ASSUME NEW k \in Kinds \ {"execution"}, SubmitOperation(k)
      PROVE  Typed'
  <2>1. k \in {"drawing", "history", "execution"}
    BY SchedulerAssumption
  <2> QED BY <1>1, <2>1, EnqueueType, DroppedType DEF SubmitOperation, TypeOK, timerVars
<1>2. ASSUME NEW mode \in Modes, NEW forms \in 1..MaxForms, AdmitExecution(mode, forms)
      PROVE  Typed'
  <2>1. NewExecution(mode, forms) \in Executions
    BY NewExecutionType, SchedulerAssumption, MaxFormsAssumption
  <2> QED BY <1>2, <2>1, EnqueueType DEF AdmitExecution
<1>3. CASE AdmitEmptyExecution
  <2>1. nextId \in JobIds /\ nextId + 1 \in 1..(MaxSubmissions + 1)
    BY <1>3, JobIdsAreNumbers DEF AdmitEmptyExecution, TypeOK, Admits, JobIds
  <2>2. {OutcomeAnswer(NewExecution("Exec", 0)), ImmediateAnswer("execution")} \subseteq Answers
    BY OutcomesAreAnswers, OutcomeAnswerType, NewExecutionType, MaxFormsAssumption
       DEF ImmediateAnswer, ExecModes
  <2>3. answer' \in [JobIds -> Answers \cup {"unsubmitted", "waiting"}]
    BY <1>3, <2>1, <2>2 DEF AdmitEmptyExecution, TypeOK
  <2> QED BY <1>3, <2>1, <2>3 DEF AdmitEmptyExecution, TypeOK, ActiveIsOwned, hostVars
<1>4. ASSUME NEW j \in JobIds, CancelActive(j)
      PROVE  Typed'
  <2>1. execution' \in [JobIds -> Executions]
    BY <1>4, RequestCancelType DEF CancelActive, TypeOK
  <2> QED BY <1>4, <2>1 DEF CancelActive, TypeOK, ActiveIsOwned, schedulerVars, hostVars, timerVars
<1>5. ASSUME NEW j \in JobIds, CancelPending(j)
      PROVE  Typed'
  <2>1. pending' \in Seq(JobIds)
    BY <1>5, LeftOverType DEF CancelPending, TypeOK
  <2>2. \A i \in JobIds : i \in {j} =>
          [k \in {j} |-> CancelBeforeStart(execution[k]).outcome][i] \in Answers
    BY <1>5, AnswersType DEF CancelPending, TypeOK
  <2>3. Answer({j}, [k \in {j} |-> CancelBeforeStart(execution[k]).outcome])
    BY <1>5 DEF CancelPending
  <2>4. /\ execution' \in [JobIds -> Executions]
        /\ answer' \in [JobIds -> Answers \cup {"unsubmitted", "waiting"}]
    BY <2>2, <2>3, AnswerType DEF TypeOK
  <2>5. wait' \in [JobIds -> WaitStates]
    BY <1>5, WaitsWithoutType DEF CancelPending, TypeOK
  <2>6. wakePending' \in BOOLEAN /\ claim' \in [Threads -> {"none", "claimed", "refused"}]
    BY <1>5, RequestWakeType DEF CancelPending, TypeOK, Threads
  <2> QED BY <1>5, <2>1, <2>4, <2>5, <2>6 DEF CancelPending, TypeOK, ActiveIsOwned
<1> QED BY <1>1, <1>2, <1>3, <1>4, <1>5 DEF Request

LEMMA CallbackType ==
  ASSUME TypeOK, Callback
  PROVE  callbacks' \in Nat /\ wakePending' \in BOOLEAN /\ main = "free"
<1>1. callbacks \in Nat
  BY DEF TypeOK
<1>2. callbacks > 0 /\ callbacks' = callbacks - 1
  BY DEF Callback
<1>3. callbacks' \in Nat
  BY <1>1, <1>2
<1>4. wakePending' \in BOOLEAN
  BY DEF Callback
<1>5. main = "free"
  BY DEF Callback, MainReady
<1> QED BY <1>3, <1>4, <1>5

LEMMA TakeKeepsTyped ==
  ASSUME Typed, TakeNativeAction
  PROVE  Typed'
<1> USE DEF Typed
<1>1. CASE TakeIdle
  BY <1>1, CallbackType DEF TakeIdle, TypeOK, ActiveIsOwned, jobVars, timerVars
<1>2. ASSUME NEW a \in Answers, TakeAndAnswer(a)
      PROVE  Typed'
  <2>1. pending # <<>> /\ active = NoJob
    BY <1>2 DEF TakeAndAnswer, MayIssue, WakeDue
  <2>2. Tail(pending) \in Seq(JobIds)
    BY <2>1, HeadTailProperties DEF TypeOK
  <2>3. /\ execution' \in [JobIds -> Executions]
        /\ answer' \in [JobIds -> Answers \cup {"unsubmitted", "waiting"}]
    BY <1>2, AnswerType DEF TakeAndAnswer, TypeOK
  <2>4. wait' \in [JobIds -> WaitStates]
    BY <1>2, WaitsWithoutType DEF TakeAndAnswer, TypeOK
  <2> QED BY <1>2, <2>2, <2>3, <2>4, CallbackType
          DEF TakeAndAnswer, TypeOK, ActiveIsOwned, timerVars
<1>3. CASE TakeExpired
  <2>1. TimeoutAnswer(Head(pending)) \in Answers
    BY <1>3, AnswersType, HeadTailProperties DEF TakeExpired, TypeOK
  <2> QED BY <1>2, <1>3, <2>1 DEF TakeExpired
<1>4. CASE TakeImmediate
  <2>1. ImmediateAnswer(kind[Head(pending)]) \in Answers
    BY OutcomesAreAnswers DEF ImmediateAnswer
  <2> QED BY <1>2, <1>4, <2>1 DEF TakeImmediate
<1>5. CASE TakeAndIssue
  <2>1. pending # <<>> /\ active = NoJob
    BY <1>5 DEF TakeAndIssue, MayIssue, WakeDue
  <2>2. Head(pending) \in JobIds /\ Tail(pending) \in Seq(JobIds)
    BY <2>1, HeadTailProperties DEF TypeOK
  <2>3. wait' \in [JobIds -> WaitStates]
    BY <1>5, <2>2, WaitsType DEF TakeAndIssue, TypeOK
  <2> QED BY <1>5, <2>1, <2>2, <2>3, JobIdsAreNumbers, CallbackType
          DEF TakeAndIssue, TypeOK, ActiveIsOwned, timerVars
<1> QED BY <1>1, <1>3, <1>4, <1>5 DEF TakeNativeAction

LEMMA HostKeepsTyped ==
  ASSUME Typed, HostActs \/ ScheduleNext \/ DispatchEnds
  PROVE  Typed'
<1> USE DEF Typed
<1>0. ASSUME NEW result PROVE RequiresQuarantine(result) \in BOOLEAN
  BY DEF RequiresQuarantine
<1>1. ASSUME NEW result, HostCompletes(result)
      PROVE  Typed'
  <2>1. active # NoJob /\ main' = "scheduling"
    BY <1>1 DEF HostCompletes, ActiveIsOwned
  <2>2. dispatched' = FALSE
    <3>1. dispatched = FALSE
      BY <1>1 DEF HostCompletes, ActiveIsOwned, TypeOK
    <3> QED BY <1>1, <3>1 DEF HostCompletes
  <2> QED BY <1>0, <1>1, <2>1, <2>2, HostCompletionType DEF HostCompletes
<1>2. CASE HostDispatches
  BY <1>2 DEF HostDispatches, TypeOK, ActiveIsOwned, schedulerVars, jobVars, timerVars
<1>3. CASE ScheduleNext
  <2>1. wakePending' \in BOOLEAN /\ claim' \in [Threads -> {"none", "claimed", "refused"}]
    BY <1>3, RequestWakeType DEF ScheduleNext, TypeOK, Threads
  <2> QED BY <1>3, <2>1 DEF ScheduleNext, TypeOK, ActiveIsOwned, jobVars, timerVars
<1>4. ASSUME NEW result, FinalizeHistory(result)
      PROVE  Typed'
  <2>1. active # NoJob
    BY <1>4 DEF FinalizeHistory, ActiveIsOwned
  <2> QED BY <1>0, <1>4, <2>1, HostCompletionType DEF FinalizeHistory
<1>5. ASSUME NEW result, NEW observation, FinalizeExecution(result, observation)
      PROVE  Typed'
  <2>1. active # NoJob
    BY <1>5 DEF FinalizeExecution, Driving, ActiveIsOwned
  <2>2. FinalizationQuarantines(result, observation) \in BOOLEAN
    BY DEF FinalizationQuarantines
  <2> QED BY <1>5, <2>1, <2>2, HostCompletionType DEF FinalizeExecution
<1>6. ASSUME NEW observation, FinalizerNotScheduled(observation)
      PROVE  Typed'
  <2>1. active # NoJob /\ main' = "free"
    BY <1>6 DEF FinalizerNotScheduled, ActiveIsOwned, MainReady
  <2> DEFINE result == "DocumentContextRestoreFailed"
  <2>2. CASE IsExecution(active)
    <3>1. FinalizationQuarantines(result, observation) \in BOOLEAN
      BY DEF FinalizationQuarantines
    <3>2. CompleteNativeAction(FinalizationKind(result, observation),
                               FinalizationQuarantines(result, observation))
      BY <1>6, <2>2 DEF FinalizerNotScheduled
    <3> QED BY <1>6, <2>1, <3>1, <3>2, HostCompletionType DEF FinalizerNotScheduled
  <2>3. CASE ~IsExecution(active)
    <3>1. CompleteNativeAction(result, RequiresQuarantine(result))
      BY <1>6, <2>3 DEF FinalizerNotScheduled
    <3> QED BY <1>0, <1>6, <2>1, <3>1, HostCompletionType DEF FinalizerNotScheduled
  <2> QED BY <2>2, <2>3
<1> QED BY <1>1, <1>2, <1>3, <1>4, <1>5, <1>6 DEF HostActs, DispatchEnds

LEMMA DriverKeepsTyped ==
  ASSUME Typed, DriverAdvances
  PROVE  Typed'
<1> USE DEF Typed
<1>0. ASSUME Driving PROVE active \in JobIds /\ execution[active] \in Executions
  BY <1>0 DEF Driving, ActiveIsOwned, TypeOK
<1>1. ASSUME NEW e \in Executions, Drive(e)
      PROVE  Typed'
  <2>1. execution' \in [JobIds -> Executions]
    BY <1>1 DEF Drive, TypeOK
  <2> QED BY <1>1, <2>1 DEF Drive, TypeOK, ActiveIsOwned, schedulerVars, hostVars, timerVars
<1>2. CASE DriverTakesStep
  <2>1. ExpireIfDue(execution[active], WaitIsDue(active)) \in Executions
    BY <1>0, <1>2, ExpireType DEF DriverTakesStep, ExpireIfDue
  <2> QED BY <1>1, <1>2, <2>1, TakeStepType DEF DriverTakesStep
<1>3. ASSUME NEW r \in StepResults, DriverCompletesStep(r)
      PROVE  Typed'
  BY <1>0, <1>1, <1>3, CompleteStepType DEF DriverCompletesStep
<1>4. CASE DriverAbandons
  BY <1>0, <1>1, <1>4, AbandonType DEF DriverAbandons
<1> QED BY <1>2, <1>3, <1>4 DEF DriverAdvances

LEMMA WakeKeepsTyped ==
  ASSUME Typed, NEW thread \in Threads, Wake(thread)
  PROVE  Typed'
<1> USE DEF Typed
<1> DEFINE Claims == [Threads -> {"none", "claimed", "refused"}]
<1>1. CASE WakeAccepted(thread)
  <2>1. callbacks' \in Nat
    BY <1>1 DEF WakeAccepted, TypeOK
  <2>2. claim' \in Claims
    BY <1>1 DEF WakeAccepted, TypeOK
  <2> QED BY <1>1, <2>1, <2>2
          DEF WakeAccepted, TypeOK, ActiveIsOwned, schedulerVars, jobVars, timerVars
<1>2. CASE WakeRefused(thread)
  <2>1. claim' \in Claims
    BY <1>2 DEF WakeRefused, TypeOK
  <2> QED BY <1>2, <2>1
          DEF WakeRefused, TypeOK, ActiveIsOwned, schedulerVars, jobVars, timerVars
<1>3. CASE WakeFailed(thread)
  <2> DEFINE head == Head(pending)
             released == [claim EXCEPT ![thread] = "none"]
  <2>0. released \in Claims
    BY DEF TypeOK
  <2>1. /\ pending' \in Seq(JobIds)
        /\ wait' \in [JobIds -> WaitStates]
        /\ execution' \in [JobIds -> Executions]
        /\ answer' \in [JobIds -> Answers \cup {"unsubmitted", "waiting"}]
        /\ wakePending' \in BOOLEAN
        /\ claim' \in Claims
    <3>1. CASE /\ wakePending' = FALSE
               /\ claim' = released
               /\ UNCHANGED <<pending, wait, execution, answer>>
      BY <2>0, <3>1 DEF TypeOK
    <3>2. CASE /\ pending # <<>>
               /\ pending' = Tail(pending)
               /\ Answer({head}, [k \in {head} |-> TimeoutAnswer(k)])
               /\ wait' = WaitsWithout({head}, wait)
               /\ RequestWake(thread, FALSE, released)
      <4>1. head \in JobIds /\ pending' \in Seq(JobIds)
        BY <3>2, HeadTailProperties DEF TypeOK
      <4>2. \A j \in JobIds :
              j \in {head} => [k \in {head} |-> TimeoutAnswer(k)][j] \in Answers
        BY AnswersType DEF TypeOK
      <4>3. /\ execution' \in [JobIds -> Executions]
            /\ answer' \in [JobIds -> Answers \cup {"unsubmitted", "waiting"}]
        BY <3>2, <4>2, AnswerType DEF TypeOK
      <4>4. wait' \in [JobIds -> WaitStates]
        BY <3>2, WaitsWithoutType DEF TypeOK
      <4>5. wakePending' \in BOOLEAN /\ claim' \in Claims
        BY <2>0, <3>2, RequestWakeType
      <4> QED BY <4>1, <4>3, <4>4, <4>5
    <3>3. CASE /\ pending # <<>>
               /\ wait' = [wait EXCEPT ![head] = Defer(BeginReadiness(@))]
               /\ wakePending' = FALSE
               /\ claim' = released
               /\ UNCHANGED <<pending, execution, answer>>
      <4>1. head \in JobIds
        BY <3>3, HeadTailProperties DEF TypeOK
      <4>2. wait' \in [JobIds -> WaitStates]
        BY <3>3, <4>1, WaitsType DEF TypeOK
      <4> QED BY <2>0, <3>3, <4>2 DEF TypeOK
    <3> QED BY <1>3, <3>1, <3>2, <3>3 DEF WakeFailed
  <2>2. /\ UNCHANGED <<nextId, active, stopping, quarantined, kind>>
        /\ permit' = TRUE
        /\ UNCHANGED <<main, dispatched, callbacks, acceptWakes, timer>>
    BY <1>3 DEF WakeFailed
  <2> QED BY <2>1, <2>2 DEF TypeOK, ActiveIsOwned
<1> QED BY <1>1, <1>2, <1>3 DEF Wake

LEMMA NativeStateMayBeReadyKeepsTyped ==
  ASSUME Typed, NativeStateMayBeReady
  PROVE  Typed'
<1>1. wait' \in [JobIds -> WaitStates]
  BY HeadTailProperties, WaitsType DEF NativeStateMayBeReady, Typed, TypeOK
<1>2. wakePending' \in BOOLEAN /\ claim' \in [Threads -> {"none", "claimed", "refused"}]
  BY RequestWakeType DEF NativeStateMayBeReady, Typed, TypeOK, Threads
<1> QED BY <1>1, <1>2 DEF NativeStateMayBeReady, Typed, TypeOK, ActiveIsOwned

LEMMA TimerKeepsTyped ==
  ASSUME Typed, TimerDriver
  PROVE  Typed'
<1> USE DEF Typed
<1> DEFINE Timers == [state : {"off", "computing", "sleeping"}, target : 0..Never]
<1>0. Never \in 0..Never
  BY Bounds DEF Never
<1>1. CASE TimerSleeps
  <2>1. timer' \in Timers
    BY <1>1 DEF TimerSleeps
  <2> QED BY <1>1, <2>1 DEF TimerSleeps, TypeOK, ActiveIsOwned, schedulerVars, jobVars, hostVars
<1>2. CASE TimerNotified
  <2>1. timer' \in Timers
    BY <1>0, <1>2 DEF TimerNotified, Recompute
  <2> QED BY <1>2, <2>1 DEF TimerNotified, TypeOK, ActiveIsOwned, schedulerVars, jobVars, hostVars
<1>3. CASE TimerFires
  <2> DEFINE expired == {j \in Elements(pending) : WaitIsDue(j)}
  <2>1. timer' \in Timers
    BY <1>0, <1>3 DEF TimerFires, Recompute
  <2>2. pending' \in Seq(JobIds)
    BY <1>3, LeftOverType DEF TimerFires, TypeOK
  <2>3. answer' \in [JobIds -> Answers \cup {"unsubmitted", "waiting"}]
    BY <1>3, AnswersType DEF TimerFires, TypeOK
  <2>4. execution' \in [JobIds -> Executions]
    <3>1. ASSUME NEW j \in JobIds
          PROVE  ExpireIfDue(execution[j], WaitIsDue(j)) \in Executions
      BY ExpireType DEF ExpireIfDue, TypeOK
    <3> HIDE DEF expired
    <3>2. execution' = [j \in JobIds |->
                          IF j \in expired THEN Dropped
                          ELSE IF j = active /\ IsExecution(j)
                          THEN ExpireIfDue(execution[j], WaitIsDue(j))
                          ELSE execution[j]]
      BY <1>3 DEF TimerFires, expired
    <3> QED BY <3>1, <3>2, DroppedType DEF TypeOK
  <2>5. wait' \in [JobIds -> WaitStates]
    <3>1. ASSUME NEW j \in JobIds
          PROVE  {wait[j], RetryNow(wait[j]), NoWait} \subseteq WaitStates
      BY WaitsType, FreshWaits DEF TypeOK
    <3> QED BY <1>3, <3>1 DEF TimerFires
  <2>6. wakePending' \in BOOLEAN /\ claim' \in [Threads -> {"none", "claimed", "refused"}]
    BY <1>3, RequestWakeType DEF TimerFires, TypeOK, Threads
  <2> QED BY <1>3, <2>1, <2>2, <2>3, <2>4, <2>5, <2>6 DEF TimerFires, TypeOK, ActiveIsOwned
<1> QED BY <1>1, <1>2, <1>3 DEF TimerDriver

LEMMA EnvironmentKeepsTyped ==
  ASSUME Typed, Tick \/ Stop \/ ServerShutsDown
  PROVE  Typed'
<1> USE DEF Typed
<1> DEFINE Timers == [state : {"off", "computing", "sleeping"}, target : 0..Never]
<1>0. Never \in Nat
  BY Bounds DEF Never
<1>1. CASE Tick
  <2>1. wait' \in [JobIds -> WaitStates]
    BY <1>1, WaitsType DEF Tick, TypeOK
  <2>2. timer' \in Timers
    <3>1. timer.target \in 0..Never
      BY DEF TypeOK
    <3>2. Ticked(timer.target) \in 0..Never
      BY <1>0, <3>1 DEF Ticked
    <3> QED BY <1>0, <1>1, <3>2 DEF Tick, TypeOK
  <2> QED BY <1>1, <2>1, <2>2 DEF Tick, TypeOK, ActiveIsOwned, schedulerVars, hostVars
<1>2. CASE Stop
  <2> DEFINE rejected == Elements(pending)
  <2>1. answer' \in [JobIds -> Answers \cup {"unsubmitted", "waiting"}]
    BY <1>2, OutcomesAreAnswers DEF Stop, TypeOK
  <2>2. execution' \in [JobIds -> Executions]
    <3>1. execution' = [j \in JobIds |->
                          IF j \in rejected THEN Dropped
                          ELSE IF j = active /\ IsExecution(j) THEN RequestCancel(execution[j])
                          ELSE execution[j]]
      BY <1>2 DEF Stop
    <3>2. \A j \in JobIds : RequestCancel(execution[j]) \in Executions
      BY RequestCancelType DEF TypeOK
    <3> HIDE DEF rejected
    <3> QED BY <3>1, <3>2, DroppedType DEF TypeOK
  <2>3. wait' \in [JobIds -> WaitStates]
    BY <1>2, WaitsWithoutType DEF Stop, TypeOK
  <2>4. pending' \in Seq(JobIds)
    BY <1>2, EmptySeq DEF Stop
  <2> QED BY <1>2, <2>1, <2>2, <2>3, <2>4 DEF Stop, MainReady, TypeOK, ActiveIsOwned
<1>3. CASE ServerShutsDown
  <2>1. timer' \in Timers
    BY <1>0, <1>3 DEF ServerShutsDown
  <2> QED BY <1>3, <2>1
          DEF ServerShutsDown, TypeOK, ActiveIsOwned, schedulerVars, jobVars
<1> QED BY <1>1, <1>2, <1>3

LEMMA InitialTyped == Init => Typed
<1> SUFFICES ASSUME Init PROVE Typed
  OBVIOUS
<1>1. nextId \in 1..(MaxSubmissions + 1) /\ pending \in Seq(JobIds)
  BY Bounds, JobIdsAreNumbers DEF Init
<1>2. timer \in [state : {"off", "computing", "sleeping"}, target : 0..Never]
  BY Bounds DEF Init, Never
<1>3. /\ wait \in [JobIds -> WaitStates]
      /\ execution \in [JobIds -> Executions]
  BY FreshWaits, DroppedType DEF Init
<1> QED BY <1>1, <1>2, <1>3 DEF Init, Typed, TypeOK, ActiveIsOwned

LEMMA StepKeepsTyped == Typed /\ [Next]_vars => Typed'
<1> SUFFICES ASSUME Typed, [Next]_vars PROVE Typed'
  OBVIOUS
<1>1. CASE UNCHANGED vars
  BY <1>1 DEF vars, schedulerVars, jobVars, hostVars, timerVars, Typed, TypeOK, ActiveIsOwned
<1>2. CASE Next
  BY <1>2, RequestKeepsTyped, TakeKeepsTyped, HostKeepsTyped, DriverKeepsTyped,
     WakeKeepsTyped, NativeStateMayBeReadyKeepsTyped, TimerKeepsTyped,
     EnvironmentKeepsTyped DEF Next
<1> QED BY <1>1, <1>2

\* Every variable keeps its type, and AutoCAD holds an action exactly when a
\* job is active: the host's three ways to end an action all meet a job.
THEOREM TypeCorrect == Spec => []TypeOK
<1>1. Typed => TypeOK
  BY DEF Typed
<1> QED BY <1>1, InitialTyped, StepKeepsTyped, PTL DEF Spec

-----------------------------------------------------------------------------
(***************************************************************************)
(* Jobs.  Every job the scheduler holds waits for its answer, the queue is *)
(* in admission order, and a wait state says where its job is.             *)
(***************************************************************************)
WaitsMatchJobs ==
  \A j \in JobIds :
    /\ j \in Elements(pending) => wait[j].state # "None"
    /\ j = active => wait[j].state = "Ready"
    /\ j \notin Held => wait[j].state = "None"

JobsSubmittedInOrder ==
  \A j \in JobIds : answer[j] = "unsubmitted" <=> nextId <= j

Accounted ==
  /\ JobsAccountedFor
  /\ JobsSubmittedInOrder
  /\ QueueInAdmissionOrder
  /\ WaitsMatchJobs
  /\ OnlyHeadDeferred
  /\ HostOwnsActive

LEMMA WaitingIsNoAnswer == "waiting" \notin Answers /\ "unsubmitted" \notin Answers
  BY DEF Answers, Outcomes, Failures

LEMMA HeldJobs ==
  ASSUME Typed
  PROVE  /\ Held \subseteq JobIds
         /\ Elements(pending) \subseteq JobIds
         /\ active # NoJob => active \in JobIds
  BY ElementsType, JobIdsAreNumbers DEF Held, Typed, TypeOK

LEMMA HeldAreSubmitted ==
  ASSUME Typed, Accounted
  PROVE  \A j \in Held : j \in JobIds /\ j < nextId /\ ~(nextId <= j)
<1> SUFFICES ASSUME NEW j \in Held PROVE j \in JobIds /\ j < nextId /\ ~(nextId <= j)
  OBVIOUS
<1>1. j \in JobIds /\ j < nextId
  BY HeldJobs DEF Accounted, QueueInAdmissionOrder
<1>2. j \in Nat /\ nextId \in Nat
  BY <1>1, JobIdsAreNumbers DEF Typed, TypeOK
<1> QED BY <1>1, <1>2

\* A step that moves no job and defers none.
LEMMA NoJobMoves ==
  ASSUME Typed, Accounted,
         UNCHANGED <<nextId, pending, active, answer>>,
         \A j \in JobIds : \/ wait'[j].state = wait[j].state
                           \/ Deferred(j) /\ wait'[j].state = "Ready",
         HostOwnsActive'
  PROVE  Accounted'
<1>1. Held' = Held
  BY DEF Held
<1>2. JobsAccountedFor' /\ JobsSubmittedInOrder' /\ QueueInAdmissionOrder'
  BY <1>1 DEF Accounted, JobsAccountedFor, JobsSubmittedInOrder, QueueInAdmissionOrder
<1>3. OnlyHeadDeferred'
  BY DEF Accounted, OnlyHeadDeferred, Deferred
<1>4. WaitsMatchJobs'
  <2> SUFFICES ASSUME NEW j \in JobIds
               PROVE  /\ j \in Elements(pending) => wait'[j].state # "None"
                      /\ j = active => wait'[j].state = "Ready"
                      /\ j \notin Held => wait'[j].state = "None"
    BY <1>1 DEF WaitsMatchJobs
  <2>1. Deferred(j) => active = NoJob /\ j \in Held
    <3>1. Deferred(j) => wait[j].state # "None"
      BY DEF Deferred
    <3> QED BY <3>1 DEF Accounted, OnlyHeadDeferred, WaitsMatchJobs
  <2> QED BY <2>1, JobIdsAreNumbers DEF Accounted, WaitsMatchJobs
<1> QED BY <1>2, <1>3, <1>4 DEF Accounted

\* Jobs leave the queue, each with its answer; a deferred head may be retried.
LEMMA QueueShrinks ==
  ASSUME Typed, Typed', Accounted, NEW gone \in SUBSET Elements(pending),
         Elements(pending') = Elements(pending) \ gone, Increasing(pending'),
         UNCHANGED <<nextId, active>>,
         \A j \in JobIds : j \in gone => answer'[j] \in Answers /\ wait'[j] = NoWait,
         \A j \in JobIds :
           j \notin gone => /\ answer'[j] = answer[j]
                           /\ \/ wait'[j].state = wait[j].state
                              \/ Deferred(j) /\ wait'[j].state = "Ready",
         HostOwnsActive'
  PROVE  Accounted'
<1>1. active \notin gone /\ Held' = Held \ gone
  BY DEF Held, Accounted, JobsAccountedFor
<1>2. JobsAccountedFor'
  BY <1>1, WaitingIsNoAnswer DEF Accounted, JobsAccountedFor
<1>3. QueueInAdmissionOrder'
  BY <1>1 DEF Accounted, QueueInAdmissionOrder
<1>4. WaitsMatchJobs'
  <2> SUFFICES ASSUME NEW j \in JobIds
               PROVE  /\ j \in Elements(pending') => wait'[j].state # "None"
                      /\ j = active => wait'[j].state = "Ready"
                      /\ j \notin Held' => wait'[j].state = "None"
    BY DEF WaitsMatchJobs
  <2>1. CASE j \in gone
    BY <1>1, <2>1 DEF NoWait
  <2>2. CASE j \notin gone
    <3>1. Deferred(j) => wait[j].state # "None" /\ wait[j].state # "Ready"
      BY DEF Deferred
    <3> QED BY <1>1, <2>2, <3>1 DEF Accounted, WaitsMatchJobs
  <2> QED BY <2>1, <2>2
<1>5. OnlyHeadDeferred'
  <2> SUFFICES ASSUME NEW j \in JobIds, Deferred(j)'
               PROVE  active' = NoJob /\ pending' # <<>> /\ j = Head(pending')
    BY DEF OnlyHeadDeferred
  <2>1. j \notin gone /\ Deferred(j)
    BY DEF Deferred, NoWait
  <2>2. active = NoJob /\ pending # <<>> /\ j = Head(pending)
    BY <2>1 DEF Accounted, OnlyHeadDeferred
  <2>3. j \in Elements(pending) /\ \A k \in Elements(pending) : j <= k
    BY <2>2, QueueWithoutHead DEF Typed, TypeOK, Accounted, QueueInAdmissionOrder
  <2>4. pending' \in Seq(JobIds)
    BY DEF Typed, TypeOK
  <2> QED BY <2>1, <2>2, <2>3, <2>4, HeadIsLeast
<1>6. JobsSubmittedInOrder'
  <2> SUFFICES ASSUME NEW j \in JobIds
               PROVE  answer'[j] = "unsubmitted" <=> nextId <= j
    BY DEF JobsSubmittedInOrder
  <2>1. CASE j \in gone
    <3>1. ~(nextId <= j)
      BY <2>1, HeldAreSubmitted DEF Held
    <3> QED BY <2>1, <3>1, WaitingIsNoAnswer
  <2>2. CASE j \notin gone
    BY <2>2 DEF Accounted, JobsSubmittedInOrder
  <2> QED BY <2>1, <2>2
<1> QED BY <1>2, <1>3, <1>4, <1>5, <1>6 DEF Accounted

LEMMA AnsweredJobs ==
  ASSUME NEW gone, NEW sent, \A j \in JobIds : j \in gone => sent[j] \in Answers,
         Answer(gone, sent), wait' = WaitsWithout(gone, wait)
  PROVE  \A j \in JobIds :
           /\ j \in gone => answer'[j] \in Answers /\ wait'[j] = NoWait
           /\ j \notin gone => answer'[j] = answer[j] /\ wait'[j] = wait[j]
  BY DEF Answer, WaitsWithout

LEMMA EnqueueKeepsAccounted ==
  ASSUME Typed, Accounted, NEW k, NEW e, Admits, Enqueue(k, e)
  PROVE  Accounted'
<1>0. nextId \in JobIds /\ nextId \in Nat /\ nextId' = nextId + 1
  BY JobIdsAreNumbers DEF Typed, TypeOK, Admits, JobIds, Enqueue
<1>1. \A j \in Held : j < nextId /\ j \in JobIds /\ j \in Nat
  BY HeldJobs, JobIdsAreNumbers DEF Accounted, QueueInAdmissionOrder
<1>2. nextId \notin Held /\ active # nextId
  BY <1>0, <1>1, JobIdsAreNumbers DEF Held
<1>3. /\ Elements(pending') = Elements(pending) \cup {nextId}
      /\ Increasing(pending')
      /\ pending # <<>> => Head(pending') = Head(pending)
      /\ pending' # <<>>
  <2>1. Increasing(pending) /\ \A j \in Elements(pending) : j < nextId
    BY <1>1 DEF Accounted, QueueInAdmissionOrder, Held
  <2>2. pending' = Append(pending, nextId) /\ pending \in Seq(JobIds)
    BY DEF Enqueue, Typed, TypeOK
  <2>3. Elements(pending') # {}
    BY <1>0, <2>1, <2>2, QueueWithLast
  <2> QED BY <1>0, <2>1, <2>2, <2>3, QueueWithLast, EmptyQueue
<1>4. active' = active /\ Held' = Held \cup {nextId}
  BY <1>3 DEF Enqueue, Held
<1>5. JobsAccountedFor'
  BY <1>0, <1>2, <1>3, <1>4 DEF Enqueue, Accounted, JobsAccountedFor, Typed, TypeOK
<1>6. QueueInAdmissionOrder'
  <2>1. active # NoJob => active < nextId
    BY <1>1 DEF Held
  <2>2. \A j \in Held' : j < nextId'
    BY <1>0, <1>1, <1>4
  <2> QED BY <1>0, <1>3, <1>4, <2>1, <2>2 DEF Accounted, QueueInAdmissionOrder
<1>7. \A j \in JobIds : wait'[j] = IF j = nextId THEN Queued ELSE wait[j]
  BY DEF Enqueue, Typed, TypeOK
<1>8. WaitsMatchJobs'
  BY <1>2, <1>3, <1>4, <1>7 DEF Queued, Accounted, WaitsMatchJobs
<1>9. OnlyHeadDeferred'
  BY <1>3, <1>4, <1>7 DEF Queued, Accounted, OnlyHeadDeferred, Deferred
<1>10. HostOwnsActive'
  BY <1>2, <1>4 DEF Enqueue, Accounted, HostOwnsActive, Typed, TypeOK
<1>11. JobsSubmittedInOrder'
  <2> SUFFICES ASSUME NEW j \in JobIds
               PROVE  answer'[j] = "unsubmitted" <=> nextId + 1 <= j
    BY <1>0 DEF JobsSubmittedInOrder
  <2>1. answer'[j] = IF j = nextId THEN "waiting" ELSE answer[j]
    BY DEF Enqueue, Typed, TypeOK
  <2>2. j \in Nat
    BY JobIdsAreNumbers
  <2>3. nextId + 1 <= j <=> nextId <= j /\ j # nextId
    BY <1>0, <2>2
  <2> QED BY <2>1, <2>3 DEF Accounted, JobsSubmittedInOrder
<1> QED BY <1>5, <1>6, <1>8, <1>9, <1>10, <1>11 DEF Accounted

LEMMA RequestKeepsAccounted ==
  ASSUME Typed, Accounted, Request
  PROVE  Accounted'
<1>1. ASSUME NEW k, SubmitOperation(k)
      PROVE  Accounted'
  BY <1>1, EnqueueKeepsAccounted DEF SubmitOperation
<1>2. ASSUME NEW mode, NEW forms, AdmitExecution(mode, forms)
      PROVE  Accounted'
  BY <1>2, EnqueueKeepsAccounted DEF AdmitExecution
<1>3. CASE AdmitEmptyExecution
  <2>0. nextId \in JobIds /\ nextId \in Nat /\ nextId' = nextId + 1
    BY <1>3, JobIdsAreNumbers DEF Typed, TypeOK, AdmitEmptyExecution, Admits, JobIds
  <2>1. \A j \in Held : j < nextId /\ j \in Nat
    BY HeldJobs, JobIdsAreNumbers DEF Accounted, QueueInAdmissionOrder
  <2>2. nextId \notin Held /\ active # nextId
    BY <2>0, <2>1, JobIdsAreNumbers DEF Held
  <2>3. Held' = Held /\ UNCHANGED <<pending, active, wait>>
    BY <1>3 DEF AdmitEmptyExecution, Held
  <2>4. answer'[nextId] \in Answers
    <3>1. {OutcomeAnswer(NewExecution("Exec", 0)), ImmediateAnswer("execution")}
            \subseteq Answers
      BY OutcomesAreAnswers, OutcomeAnswerType, NewExecutionType, MaxFormsAssumption
         DEF ImmediateAnswer, ExecModes
    <3> QED BY <1>3, <2>0, <3>1 DEF AdmitEmptyExecution, Typed, TypeOK
  <2>5. \A j \in JobIds : j # nextId => answer'[j] = answer[j]
    BY <1>3 DEF AdmitEmptyExecution, Typed, TypeOK
  <2>6. JobsAccountedFor'
    BY <2>2, <2>3, <2>4, <2>5, WaitingIsNoAnswer DEF Accounted, JobsAccountedFor
  <2>7. QueueInAdmissionOrder'
    BY <2>0, <2>1, <2>3 DEF Accounted, QueueInAdmissionOrder
  <2>8. WaitsMatchJobs' /\ OnlyHeadDeferred'
    BY <2>3 DEF Accounted, WaitsMatchJobs, OnlyHeadDeferred, Deferred
  <2>9. HostOwnsActive'
    BY <1>3, <2>2 DEF AdmitEmptyExecution, hostVars, Accounted, HostOwnsActive, Typed, TypeOK
  <2>10. JobsSubmittedInOrder'
    <3> SUFFICES ASSUME NEW j \in JobIds
                 PROVE  answer'[j] = "unsubmitted" <=> nextId + 1 <= j
      BY <2>0 DEF JobsSubmittedInOrder
    <3>1. j \in Nat
      BY JobIdsAreNumbers
    <3>2. nextId + 1 <= j <=> nextId <= j /\ j # nextId
      BY <2>0, <3>1
    <3> QED BY <2>4, <2>5, <3>2, WaitingIsNoAnswer DEF Accounted, JobsSubmittedInOrder
  <2> QED BY <2>6, <2>7, <2>8, <2>9, <2>10 DEF Accounted
<1>4. ASSUME NEW j \in JobIds, CancelActive(j)
      PROVE  Accounted'
  <2>1. HostOwnsActive'
    BY <1>4 DEF CancelActive, schedulerVars, hostVars, Accounted, HostOwnsActive
  <2> QED BY <1>4, <2>1, NoJobMoves DEF CancelActive, schedulerVars
<1>5. ASSUME NEW j \in JobIds, CancelPending(j)
      PROVE  Accounted'
  <2> DEFINE sent == [k \in {j} |-> CancelBeforeStart(execution[k]).outcome]
  <2>1. Elements(pending') = Elements(pending) \ {j} /\ Increasing(pending')
    BY <1>5, QueueWithout DEF CancelPending, Typed, TypeOK, Accounted, QueueInAdmissionOrder
  <2>2. \A i \in JobIds :
          /\ i \in {j} => answer'[i] \in Answers /\ wait'[i] = NoWait
          /\ i \notin {j} => answer'[i] = answer[i] /\ wait'[i] = wait[i]
    <3>1. \A i \in JobIds : i \in {j} => sent[i] \in Answers
      BY <1>5, AnswersType DEF CancelPending, Typed, TypeOK
    <3>2. Answer({j}, sent) /\ wait' = WaitsWithout({j}, wait)
      BY <1>5 DEF CancelPending
    <3> HIDE DEF sent
    <3> QED BY <3>1, <3>2, AnsweredJobs
  <2>3. Typed'
    BY <1>5, RequestKeepsTyped DEF Request
  <2>4. HostOwnsActive'
    BY <1>5 DEF CancelPending, Accounted, HostOwnsActive
  <2> QED BY <1>5, <2>1, <2>2, <2>3, <2>4, QueueShrinks DEF CancelPending
<1> QED BY <1>1, <1>2, <1>3, <1>4, <1>5 DEF Request

LEMMA TakeKeepsAccounted ==
  ASSUME Typed, Accounted, TakeNativeAction
  PROVE  Accounted'
<1>1. CASE TakeIdle
  <2>1. HostOwnsActive'
    BY <1>1 DEF TakeIdle, Callback, MainReady, jobVars, Accounted, HostOwnsActive
  <2> QED BY <1>1, <2>1, NoJobMoves DEF TakeIdle, jobVars
<1>2. ASSUME Callback, MayIssue, pending' = Tail(pending)
      PROVE  /\ pending # <<>> /\ active = NoJob /\ ~dispatched
             /\ Head(pending) \in JobIds /\ Head(pending) \in Elements(pending)
             /\ Elements(pending') = Elements(pending) \ {Head(pending)}
             /\ Increasing(pending')
             /\ \A j \in Elements(pending') : Head(pending) < j
             /\ \A j \in JobIds : ~Deferred(j)
  <2>1. pending # <<>> /\ active = NoJob /\ ~Deferred(Head(pending))
    BY <1>2 DEF MayIssue, WakeDue
  <2>2. /\ Head(pending) \in Elements(pending)
        /\ \A j \in Elements(pending) : Head(pending) <= j
        /\ Elements(pending') = Elements(pending) \ {Head(pending)}
        /\ Increasing(pending')
    BY <1>2, <2>1, QueueWithoutHead DEF Typed, TypeOK, Accounted, QueueInAdmissionOrder
  <2>3. Elements(pending) \subseteq JobIds
    BY HeldJobs
  <2>4. ASSUME NEW j \in Elements(pending') PROVE Head(pending) < j
    <3>1. j \in Elements(pending) /\ j # Head(pending) /\ Head(pending) <= j
      BY <2>2
    <3>2. j \in Nat /\ Head(pending) \in Nat
      BY <2>2, <2>3, <3>1, JobIdsAreNumbers
    <3> QED BY <3>1, <3>2
  <2>5. \A j \in JobIds : ~Deferred(j)
    BY <2>1 DEF Accounted, OnlyHeadDeferred
  <2>6. ~dispatched
    BY <2>1 DEF Accounted, HostOwnsActive
  <2> QED BY <2>1, <2>2, <2>3, <2>4, <2>5, <2>6
<1>3. ASSUME NEW a \in Answers, TakeAndAnswer(a), TakeNativeAction
      PROVE  Accounted'
  <2> DEFINE gone == {Head(pending)}
             sent == [k \in gone |-> a]
  <2>1. Callback /\ MayIssue /\ pending' = Tail(pending)
    BY <1>3 DEF TakeAndAnswer
  <2>2. \A j \in JobIds :
          /\ j \in gone => answer'[j] \in Answers /\ wait'[j] = NoWait
          /\ j \notin gone => answer'[j] = answer[j] /\ wait'[j] = wait[j]
    <3>1. \A j \in JobIds : j \in gone => sent[j] \in Answers
      BY <1>3
    <3>2. Answer(gone, sent) /\ wait' = WaitsWithout(gone, wait)
      BY <1>3 DEF TakeAndAnswer
    <3> HIDE DEF gone, sent
    <3> QED BY <3>1, <3>2, AnsweredJobs
  <2>3. Typed'
    BY <1>3, TakeKeepsTyped
  <2>4. UNCHANGED <<nextId, active>>
    BY <1>3 DEF TakeAndAnswer
  <2>5. HostOwnsActive'
    <3>1. main' = "scheduling" /\ ~dispatched' /\ active' = NoJob
      BY <1>2, <1>3, <2>1 DEF TakeAndAnswer
    <3> QED BY <3>1 DEF HostOwnsActive
  <2> QED BY <1>2, <2>1, <2>2, <2>3, <2>4, <2>5, QueueShrinks
<1>4. CASE TakeExpired
  <2>1. TimeoutAnswer(Head(pending)) \in Answers
    BY <1>4, AnswersType, HeadTailProperties DEF TakeExpired, Typed, TypeOK
  <2> QED BY <1>3, <1>4, <2>1 DEF TakeExpired
<1>5. CASE TakeImmediate
  <2>1. ImmediateAnswer(kind[Head(pending)]) \in Answers
    BY OutcomesAreAnswers DEF ImmediateAnswer
  <2> QED BY <1>3, <1>5, <2>1 DEF TakeImmediate
<1>6. CASE TakeAndIssue
  <2> DEFINE head == Head(pending)
  <2>1. Callback /\ MayIssue /\ pending' = Tail(pending)
    BY <1>6 DEF TakeAndIssue
  <2>2. active' = head /\ UNCHANGED <<nextId, answer, kind, dispatched>> /\ main' = "acting"
    BY <1>6 DEF TakeAndIssue
  <2>3. head # NoJob
    BY <1>2, <2>1, JobIdsAreNumbers
  <2>4. Held' = Held
    BY <1>2, <2>1, <2>2, <2>3 DEF Held
  <2>5. JobsAccountedFor'
    BY <1>2, <2>1, <2>2, <2>4 DEF Accounted, JobsAccountedFor
  <2>6. QueueInAdmissionOrder'
    BY <1>2, <2>1, <2>2, <2>4 DEF Accounted, QueueInAdmissionOrder
  <2>7. \A j \in JobIds : wait'[j] = IF j = head THEN BeginReadiness(wait[j]) ELSE wait[j]
    BY <1>6 DEF TakeAndIssue, Typed, TypeOK
  <2>8. wait[head].state \in {"Queued", "Ready"}
    <3>1. wait[head].state \in {"None", "Queued", "Ready", "Deferred"}
      BY <1>2, <2>1 DEF Typed, TypeOK, WaitStates
    <3>2. wait[head].state # "None" /\ wait[head].state # "Deferred"
      BY <1>2, <2>1 DEF Accounted, WaitsMatchJobs, Deferred
    <3> QED BY <3>1, <3>2
  <2>9. wait'[head].state = "Ready"
    BY <1>2, <2>1, <2>7, <2>8 DEF BeginReadiness, Ready
  <2>10. WaitsMatchJobs'
    BY <1>2, <2>1, <2>2, <2>4, <2>7, <2>9 DEF Accounted, WaitsMatchJobs, Held
  <2>11. OnlyHeadDeferred'
    BY <1>2, <2>1, <2>7, <2>9 DEF OnlyHeadDeferred, Deferred
  <2>12. HostOwnsActive'
    BY <1>2, <2>1, <2>2, <2>3 DEF HostOwnsActive
  <2>13. JobsSubmittedInOrder'
    BY <2>2 DEF Accounted, JobsSubmittedInOrder
  <2> QED BY <2>5, <2>6, <2>10, <2>11, <2>12, <2>13 DEF Accounted
<1> QED BY <1>1, <1>4, <1>5, <1>6 DEF TakeNativeAction

\* The active job leaves AutoCAD's hands: back to the front of the queue, or
\* with its answer, which a quarantine gives to all the others too.
LEMMA CompletionKeepsAccounted ==
  ASSUME Typed, Typed', Accounted, active # NoJob, NEW result, NEW quarantine \in BOOLEAN,
         CompleteNativeAction(result, quarantine),
         main' # "acting", ~dispatched'
  PROVE  Accounted'
<1>0. /\ active \in JobIds
      /\ active \notin Elements(pending)
      /\ wait[active].state = "Ready"
      /\ \A j \in JobIds : ~Deferred(j)
      /\ Held = Elements(pending) \cup {active}
  BY HeldJobs DEF Accounted, JobsAccountedFor, WaitsMatchJobs, OnlyHeadDeferred, Held
<1>1. CASE DeferActive
  <2>1. /\ pending' = <<active>> \o pending
        /\ active' = NoJob
        /\ UNCHANGED <<nextId, answer>>
    BY <1>1 DEF DeferActive
  <2>2. /\ Elements(pending') = Elements(pending) \cup {active}
        /\ Increasing(pending')
    BY <1>0, <2>1, QueueWithFirst DEF Typed, TypeOK, Accounted, QueueInAdmissionOrder
  <2>3. Held' = Held
    BY <1>0, <2>1, <2>2 DEF Held
  <2>4. \A j \in JobIds : wait'[j] = IF j = active THEN Defer(wait[j]) ELSE wait[j]
    BY <1>1 DEF DeferActive, Typed, TypeOK
  <2>5. wait'[active].state = "Deferred"
    <3>1. wait'[active] = Defer(wait[active])
      BY <1>0, <2>4
    <3> QED BY <1>0, <3>1 DEF Defer
  <2>6. JobsAccountedFor'
    <3>1. active' \notin Elements(pending')
      BY <1>0, <2>1, <2>2, HeldJobs, JobIdsAreNumbers
    <3> QED BY <2>1, <2>3, <3>1 DEF Accounted, JobsAccountedFor
  <2>7. QueueInAdmissionOrder'
    BY <2>1, <2>2, <2>3 DEF Accounted, QueueInAdmissionOrder
  <2>8. WaitsMatchJobs'
    BY <1>0, <2>1, <2>2, <2>3, <2>4, <2>5, JobIdsAreNumbers DEF Accounted, WaitsMatchJobs, Held
  <2>9. OnlyHeadDeferred'
    <3> SUFFICES ASSUME NEW j \in JobIds, Deferred(j)'
                 PROVE  active' = NoJob /\ pending' # <<>> /\ j = Head(pending')
      BY DEF OnlyHeadDeferred
    <3>1. j = active
      BY <1>0, <2>4 DEF Deferred
    <3>2. \A k \in Elements(pending') : active <= k
      <4>1. ASSUME NEW k \in Elements(pending) PROVE active <= k
        <5>1. active < k
          BY DEF Accounted, QueueInAdmissionOrder
        <5>2. active \in Nat /\ k \in Nat
          BY <1>0, HeldJobs, JobIdsAreNumbers
        <5> QED BY <5>1, <5>2
      <4>2. active <= active
        BY <1>0, JobIdsAreNumbers
      <4> QED BY <2>2, <4>1, <4>2
    <3>3. pending' \in Seq(JobIds) /\ active \in Elements(pending')
      BY <2>2 DEF Typed, TypeOK
    <3> QED BY <2>1, <2>2, <3>1, <3>2, <3>3, HeadIsLeast
  <2>10. HostOwnsActive'
    BY <2>1 DEF HostOwnsActive
  <2>11. JobsSubmittedInOrder'
    BY <2>1 DEF Accounted, JobsSubmittedInOrder
  <2> QED BY <2>6, <2>7, <2>8, <2>9, <2>10, <2>11 DEF Accounted
<1>2. CASE AnswerActive(result, quarantine)
  <2> DEFINE gone == {active} \cup (IF quarantine THEN Elements(pending) ELSE {})
             sent == [j \in gone |-> IF j = active THEN ActiveAnswer(j, result)
                                      ELSE "StateUnknown"]
  <2>1. \A j \in JobIds :
          /\ j \in gone => answer'[j] \in Answers /\ wait'[j] = NoWait
          /\ j \notin gone => answer'[j] = answer[j] /\ wait'[j] = wait[j]
    <3>1. \A j \in JobIds : j \in gone => sent[j] \in Answers
      BY AnswersType, OutcomesAreAnswers DEF Typed, TypeOK
    <3>2. Answer(gone, sent) /\ wait' = WaitsWithout(gone, wait)
      BY <1>2 DEF AnswerActive
    <3> HIDE DEF gone, sent
    <3> QED BY <3>1, <3>2, AnsweredJobs
  <2>2. /\ active' = NoJob
        /\ nextId' = nextId
        /\ Elements(pending') = Elements(pending) \ gone
        /\ Increasing(pending')
        /\ Held' = Held \ gone
    <3>1. active' = NoJob /\ nextId' = nextId /\ pending' = IF quarantine THEN <<>> ELSE pending
      BY <1>2 DEF AnswerActive
    <3>2. Elements(pending') = Elements(pending) \ gone
      BY <1>0, <3>1, EmptyQueue
    <3>3. Increasing(pending')
      BY <3>1, EmptyQueue DEF Accounted, QueueInAdmissionOrder
    <3> QED BY <1>0, <3>1, <3>2, <3>3 DEF Held
  <2> HIDE DEF gone, sent
  <2>3. JobsAccountedFor'
    <3>1. active' \notin Elements(pending')
      BY <2>2, HeldJobs, JobIdsAreNumbers DEF Typed
    <3> QED BY <2>1, <2>2, <3>1, WaitingIsNoAnswer DEF Accounted, JobsAccountedFor
  <2>4. QueueInAdmissionOrder'
    BY <2>2 DEF Accounted, QueueInAdmissionOrder
  <2>5. WaitsMatchJobs'
    BY <2>1, <2>2, JobIdsAreNumbers DEF Accounted, WaitsMatchJobs, NoWait
  <2>6. OnlyHeadDeferred'
    BY <1>0, <2>1 DEF OnlyHeadDeferred, Deferred, NoWait
  <2>7. HostOwnsActive'
    BY <2>2 DEF HostOwnsActive
  <2>8. JobsSubmittedInOrder'
    <3>1. gone \subseteq Held
      BY <1>0 DEF gone
    <3>2. \A j \in gone : ~(nextId <= j)
      BY <3>1, HeldAreSubmitted
    <3> QED BY <2>1, <2>2, <3>2, WaitingIsNoAnswer DEF Accounted, JobsSubmittedInOrder
  <2> QED BY <2>3, <2>4, <2>5, <2>6, <2>7, <2>8 DEF Accounted
<1> QED BY <1>1, <1>2 DEF CompleteNativeAction

LEMMA HostKeepsAccounted ==
  ASSUME Typed, Accounted, HostActs \/ ScheduleNext \/ DispatchEnds
  PROVE  Accounted'
<1>0. /\ Typed'
      /\ \A result : RequiresQuarantine(result) \in BOOLEAN
      /\ \A result, observation : FinalizationQuarantines(result, observation) \in BOOLEAN
  BY HostKeepsTyped DEF RequiresQuarantine, FinalizationQuarantines
<1>1. ASSUME NEW result, HostCompletes(result)
      PROVE  Accounted'
  <2>1. active # NoJob /\ main' # "acting" /\ ~dispatched'
    BY <1>1 DEF HostCompletes, Typed, ActiveIsOwned
  <2> QED BY <1>0, <1>1, <2>1, CompletionKeepsAccounted DEF HostCompletes
<1>2. CASE HostDispatches
  <2>1. HostOwnsActive'
    BY <1>2 DEF HostDispatches, schedulerVars, jobVars, Accounted, HostOwnsActive
  <2> QED BY <1>2, <2>1, NoJobMoves DEF HostDispatches, schedulerVars, jobVars
<1>3. CASE ScheduleNext
  <2>1. HostOwnsActive'
    BY <1>3 DEF ScheduleNext, jobVars, Accounted, HostOwnsActive
  <2> QED BY <1>3, <2>1, NoJobMoves DEF ScheduleNext, jobVars
<1>4. ASSUME NEW result, FinalizeHistory(result)
      PROVE  Accounted'
  <2>1. active # NoJob /\ main' # "acting" /\ ~dispatched'
    BY <1>4 DEF FinalizeHistory, Typed, ActiveIsOwned
  <2> QED BY <1>0, <1>4, <2>1, CompletionKeepsAccounted DEF FinalizeHistory
<1>5. ASSUME NEW result, NEW observation, FinalizeExecution(result, observation)
      PROVE  Accounted'
  <2>1. active # NoJob /\ main' # "acting" /\ ~dispatched'
    BY <1>5 DEF FinalizeExecution, Driving, Typed, ActiveIsOwned
  <2> QED BY <1>0, <1>5, <2>1, CompletionKeepsAccounted DEF FinalizeExecution
<1>6. ASSUME NEW observation, FinalizerNotScheduled(observation)
      PROVE  Accounted'
  <2> DEFINE lost == "DocumentContextRestoreFailed"
  <2>1. active # NoJob /\ main' # "acting" /\ ~dispatched'
    BY <1>6 DEF FinalizerNotScheduled, MainReady, Typed, ActiveIsOwned
  <2>2. CASE IsExecution(active)
    <3>1. CompleteNativeAction(FinalizationKind(lost, observation),
                               FinalizationQuarantines(lost, observation))
      BY <1>6, <2>2 DEF FinalizerNotScheduled
    <3> QED BY <1>0, <2>1, <3>1, CompletionKeepsAccounted
  <2>3. CASE ~IsExecution(active)
    <3>1. CompleteNativeAction(lost, RequiresQuarantine(lost))
      BY <1>6, <2>3 DEF FinalizerNotScheduled
    <3> QED BY <1>0, <2>1, <3>1, CompletionKeepsAccounted
  <2> QED BY <2>2, <2>3
<1> QED BY <1>1, <1>2, <1>3, <1>4, <1>5, <1>6 DEF HostActs, DispatchEnds

LEMMA DriverKeepsAccounted ==
  ASSUME Typed, Accounted, DriverAdvances
  PROVE  Accounted'
<1>1. ASSUME NEW e, Drive(e)
      PROVE  Accounted'
  <2>1. HostOwnsActive'
    BY <1>1 DEF Drive, schedulerVars, hostVars, Accounted, HostOwnsActive
  <2> QED BY <1>1, <2>1, NoJobMoves DEF Drive, schedulerVars
<1> QED BY <1>1 DEF DriverAdvances, DriverTakesStep, DriverCompletesStep, DriverAbandons

LEMMA WakeKeepsAccounted ==
  ASSUME Typed, Accounted, NEW thread \in Threads, Wake(thread)
  PROVE  Accounted'
<1>1. CASE WakeAccepted(thread)
  <2>1. HostOwnsActive'
    BY <1>1 DEF WakeAccepted, schedulerVars, jobVars, Accounted, HostOwnsActive
  <2> QED BY <1>1, <2>1, NoJobMoves DEF WakeAccepted, schedulerVars, jobVars
<1>2. CASE WakeRefused(thread)
  <2>1. HostOwnsActive'
    BY <1>2 DEF WakeRefused, schedulerVars, jobVars, Accounted, HostOwnsActive
  <2> QED BY <1>2, <2>1, NoJobMoves DEF WakeRefused, schedulerVars, jobVars
<1>3. CASE WakeFailed(thread)
  <2> DEFINE head == Head(pending)
  <2>0. UNCHANGED <<nextId, active, kind, main, dispatched>>
    BY <1>3 DEF WakeFailed
  <2>1. HostOwnsActive'
    BY <2>0 DEF Accounted, HostOwnsActive
  <2>2. CASE UNCHANGED <<pending, wait, execution, answer>>
    BY <2>0, <2>1, <2>2, NoJobMoves
  <2>3. ASSUME pending # <<>>
        PROVE  /\ head \in Elements(pending) /\ head \in JobIds
               /\ Elements(Tail(pending)) = Elements(pending) \ {head}
               /\ Increasing(Tail(pending))
               /\ \A j \in Elements(pending) : head <= j
    BY <2>3, QueueWithoutHead, HeldJobs
       DEF Typed, TypeOK, Accounted, QueueInAdmissionOrder
  <2>4. CASE /\ pending # <<>>
             /\ pending' = Tail(pending)
             /\ Answer({head}, [k \in {head} |-> TimeoutAnswer(k)])
             /\ wait' = WaitsWithout({head}, wait)
    <3>1. \A j \in JobIds :
            j \in {head} => [k \in {head} |-> TimeoutAnswer(k)][j] \in Answers
      BY AnswersType DEF Typed, TypeOK
    <3>2. \A j \in JobIds :
            /\ j \in {head} => answer'[j] \in Answers /\ wait'[j] = NoWait
            /\ j \notin {head} => answer'[j] = answer[j] /\ wait'[j] = wait[j]
      BY <2>4, <3>1, AnsweredJobs
    <3>3. Typed'
      BY WakeKeepsTyped
    <3> QED BY <2>0, <2>1, <2>3, <2>4, <3>2, <3>3, QueueShrinks
  <2>5. CASE /\ active = NoJob
             /\ pending # <<>>
             /\ wait' = [wait EXCEPT ![head] = Defer(BeginReadiness(@))]
             /\ UNCHANGED <<pending, execution, answer>>
    <3>1. \A j \in JobIds : j # head => wait'[j] = wait[j]
      BY <2>5 DEF Typed, TypeOK
    <3>2. wait'[head].state = "Deferred"
      <4>1. wait'[head] = Defer(BeginReadiness(wait[head])) /\ wait[head] \in WaitStates
        BY <2>3, <2>5 DEF Typed, TypeOK
      <4>2. wait[head].state # "None"
        BY <2>3, <2>5 DEF Accounted, WaitsMatchJobs
      <4> QED BY <4>1, <4>2, WaitSteps
    <3>3. Held' = Held
      BY <2>0, <2>5 DEF Held
    <3>4. JobsAccountedFor' /\ JobsSubmittedInOrder' /\ QueueInAdmissionOrder'
      BY <2>0, <2>5, <3>3 DEF Accounted, JobsAccountedFor, JobsSubmittedInOrder,
                              QueueInAdmissionOrder
    <3>5. WaitsMatchJobs'
      <4>1. head \in Held /\ head # active
        BY <2>3, <2>5, JobIdsAreNumbers DEF Held
      <4> QED BY <2>0, <2>5, <3>1, <3>2, <3>3, <4>1 DEF Accounted, WaitsMatchJobs
    <3>6. OnlyHeadDeferred'
      BY <2>0, <2>5, <3>1 DEF Accounted, OnlyHeadDeferred, Deferred
    <3> QED BY <2>1, <3>4, <3>5, <3>6 DEF Accounted
  <2> QED BY <1>3, <2>2, <2>4, <2>5 DEF WakeFailed
<1> QED BY <1>1, <1>2, <1>3 DEF Wake

LEMMA ReadinessKeepsAccounted ==
  ASSUME Typed, Accounted, NativeStateMayBeReady
  PROVE  Accounted'
<1>1. HostOwnsActive'
  BY DEF NativeStateMayBeReady, Accounted, HostOwnsActive
<1>2. \A j \in JobIds : wait'[j] = wait[j] \/ wait'[j] = ReadinessMayHaveChanged(wait[j])
  BY HeadTailProperties DEF NativeStateMayBeReady, Typed, TypeOK
<1>3. ASSUME NEW j \in JobIds
      PROVE  \/ wait'[j].state = wait[j].state
             \/ Deferred(j) /\ wait'[j].state = "Ready"
  <2>1. wait[j] \in WaitStates
    BY DEF Typed, TypeOK
  <2> QED BY <1>2, <2>1, WaitSteps DEF Deferred
<1> QED BY <1>1, <1>3, NoJobMoves DEF NativeStateMayBeReady

LEMMA TimerKeepsAccounted ==
  ASSUME Typed, Accounted, TimerDriver
  PROVE  Accounted'
<1>1. CASE TimerSleeps \/ TimerNotified
  <2>1. UNCHANGED <<nextId, pending, active, answer, wait, kind, main, dispatched>>
    BY <1>1 DEF TimerSleeps, TimerNotified, schedulerVars, jobVars, hostVars
  <2>2. HostOwnsActive'
    BY <2>1 DEF Accounted, HostOwnsActive
  <2> QED BY <2>1, <2>2, NoJobMoves
<1>2. CASE TimerFires
  <2> DEFINE expired == {j \in Elements(pending) : WaitIsDue(j)}
  <2>1. expired \in SUBSET Elements(pending)
    OBVIOUS
  <2>2. \A j \in JobIds : answer'[j] = IF j \in expired THEN TimeoutAnswer(j) ELSE answer[j]
    BY <1>2 DEF TimerFires
  <2>3. \A j \in JobIds : j \in expired => wait'[j] = NoWait
    BY <1>2 DEF TimerFires
  <2>4. \A j \in JobIds :
          j \notin expired => wait'[j] = wait[j] \/ wait'[j] = RetryNow(wait[j])
    BY <1>2 DEF TimerFires
  <2>5. /\ pending' \in LeftOver(pending, expired)
        /\ UNCHANGED <<nextId, active, kind, main, dispatched>>
    BY <1>2 DEF TimerFires
  <2> HIDE DEF expired
  <2>6. Elements(pending') = Elements(pending) \ expired /\ Increasing(pending')
    BY <2>5, QueueWithout DEF Typed, TypeOK, Accounted, QueueInAdmissionOrder
  <2>7. ASSUME NEW j \in JobIds, j \notin expired
        PROVE  \/ wait'[j].state = wait[j].state
               \/ Deferred(j) /\ wait'[j].state = "Ready"
    <3>1. wait[j] \in WaitStates
      BY DEF Typed, TypeOK
    <3> QED BY <2>4, <2>7, <3>1, WaitSteps DEF Deferred
  <2>8. \A j \in JobIds : TimeoutAnswer(j) \in Answers
    BY AnswersType DEF Typed, TypeOK
  <2>9. HostOwnsActive'
    BY <2>5 DEF Accounted, HostOwnsActive
  <2>10. Typed'
    BY TimerKeepsTyped
  <2> QED BY <2>1, <2>2, <2>3, <2>5, <2>6, <2>7, <2>8, <2>9, <2>10, QueueShrinks
<1> QED BY <1>1, <1>2 DEF TimerDriver

LEMMA EnvironmentKeepsAccounted ==
  ASSUME Typed, Accounted, Tick \/ Stop \/ ServerShutsDown
  PROVE  Accounted'
<1>1. CASE Tick
  <2>1. HostOwnsActive'
    BY <1>1 DEF Tick, schedulerVars, hostVars, Accounted, HostOwnsActive
  <2>2. ASSUME NEW j \in JobIds PROVE wait'[j].state = wait[j].state
    <3>1. wait'[j] = Aged(wait[j]) /\ wait[j] \in WaitStates
      BY <1>1 DEF Tick, Typed, TypeOK
    <3> QED BY <3>1, WaitSteps
  <2> QED BY <1>1, <2>1, <2>2, NoJobMoves DEF Tick, schedulerVars
<1>2. CASE Stop
  <2> DEFINE rejected == Elements(pending)
  <2>1. \A j \in JobIds :
          /\ j \in rejected => answer'[j] = "PluginStopping" /\ wait'[j] = NoWait
          /\ j \notin rejected => answer'[j] = answer[j] /\ wait'[j] = wait[j]
    BY <1>2 DEF Stop, WaitsWithout
  <2>2. Elements(pending') = Elements(pending) \ rejected /\ Increasing(pending')
    BY <1>2, EmptyQueue DEF Stop
  <2>3. UNCHANGED <<nextId, active>>
    BY <1>2 DEF Stop
  <2>4. HostOwnsActive'
    BY <1>2 DEF Stop, MainReady, Accounted, HostOwnsActive
  <2>5. Typed'
    BY <1>2, EnvironmentKeepsTyped
  <2> QED BY <2>1, <2>2, <2>3, <2>4, <2>5, QueueShrinks, OutcomesAreAnswers
<1>3. CASE ServerShutsDown
  <2>1. HostOwnsActive'
    BY <1>3 DEF ServerShutsDown, schedulerVars, jobVars, Accounted, HostOwnsActive
  <2> QED BY <1>3, <2>1, NoJobMoves DEF ServerShutsDown, schedulerVars, jobVars
<1> QED BY <1>1, <1>2, <1>3

-----------------------------------------------------------------------------
(***************************************************************************)
(* Wakes.  The claims of the two threads and the callbacks that AutoCAD    *)
(* owes are the wakes in flight; there is at most one, and wake_pending    *)
(* says whether there is.  A main thread that unloads has stopped the      *)
(* scheduler, so its return may ask for no wake; one that is about to look *)
(* for work has delivered its last claim, so it can make another.          *)
(***************************************************************************)
UnloadingIsStopping == main = "unloading" => stopping

SchedulingHasNoClaim == main = "scheduling" => claim["main"] = "none"

Woken ==
  /\ WakePendingIsOneWake
  /\ ReadyWorkHasAWake
  /\ QuarantineIsFinal
  /\ UnloadingIsStopping
  /\ SchedulingHasNoClaim

InFlight(held) ==
  callbacks + (IF held["main"] = "none" THEN 0 ELSE 1)
            + (IF held["rpc"] = "none" THEN 0 ELSE 1)

LEMMA InFlightWakes == WakesInFlight = InFlight(claim)
  BY DEF WakesInFlight, InFlight, Owed

\* A thread without a claim asks for a wake: afterwards ready work has one,
\* and there is still one wake at most.
LEMMA WakeRequested ==
  ASSUME NEW thread \in Threads, NEW woken \in BOOLEAN,
         NEW held \in [Threads -> {"none", "claimed", "refused"}],
         held[thread] = "none",
         callbacks \in Nat, callbacks' = callbacks,
         InFlight(held) <= 1,
         woken => InFlight(held) = 1 /\ active' = NoJob,
         InFlight(held) = 1 => woken \/ stopping',
         RequestWake(thread, woken, held)
  PROVE  WakePendingIsOneWake' /\ ReadyWorkHasAWake'
<1>1. ReadyWorkHasAWake'
  BY DEF ReadyWorkHasAWake, RequestWake
<1>2. CASE WakeDue' /\ ~woken
  <2>1. ~stopping' /\ active' = NoJob
    BY <1>2 DEF WakeDue
  <2>2. InFlight(held) = 0
    BY <2>1, <1>2 DEF InFlight
  <2>3. claim' = [held EXCEPT ![thread] = "claimed"] /\ wakePending'
    BY <1>2 DEF RequestWake
  <2>4. WakesInFlight' = 1
    BY <2>2, <2>3 DEF WakesInFlight, Owed, InFlight, Threads
  <2> QED BY <1>1, <2>1, <2>3, <2>4 DEF WakePendingIsOneWake
<1>3. CASE ~(WakeDue' /\ ~woken)
  <2>1. claim' = held
    BY <1>3 DEF RequestWake
  <2>2. WakesInFlight' = InFlight(held)
    BY <2>1 DEF WakesInFlight, Owed, InFlight
  <2>3. wakePending' <=> woken
    BY <1>3 DEF RequestWake
  <2> QED BY <1>1, <2>2, <2>3 DEF WakePendingIsOneWake
<1> QED BY <1>2, <1>3

\* The usual case: the handler's own changes leave the wakes alone.
LEMMA HandlerRequestsWake ==
  ASSUME Typed, Woken, NEW thread \in Threads, claim[thread] = "none",
         thread = "rpc" \/ main # "scheduling",
         RequestWake(thread, wakePending, claim),
         UNCHANGED <<callbacks, active, stopping, quarantined, main>>,
         quarantined => pending' = <<>>
  PROVE  Woken'
<1>1. WakePendingIsOneWake' /\ ReadyWorkHasAWake'
  <2>1. /\ InFlight(claim) <= 1
        /\ wakePending => InFlight(claim) = 1 /\ active = NoJob
        /\ InFlight(claim) = 1 => wakePending \/ stopping
    BY InFlightWakes DEF Woken, WakePendingIsOneWake
  <2> QED BY <2>1, WakeRequested DEF Typed, TypeOK
<1>2. QuarantineIsFinal'
  BY DEF Woken, QuarantineIsFinal
<1>3. UnloadingIsStopping'
  BY DEF Woken, UnloadingIsStopping
<1>4. SchedulingHasNoClaim'
  BY DEF Woken, SchedulingHasNoClaim, RequestWake, Typed, TypeOK, Threads
<1> QED BY <1>1, <1>2, <1>3, <1>4 DEF Woken

\* A step that leaves the wakes and the queue alone.
LEMMA SameWakes ==
  ASSUME Woken, WakeDue' => WakeDue, main' = main \/ ~WakeDue,
         main' \in {main, "free"},
         UNCHANGED <<schedulerVars, callbacks, claim>>
  PROVE  Woken'
<1>1. WakesInFlight' = WakesInFlight
  BY DEF WakesInFlight, Owed
<1> QED BY <1>1 DEF Woken, WakePendingIsOneWake, ReadyWorkHasAWake, QuarantineIsFinal,
                    UnloadingIsStopping, SchedulingHasNoClaim, schedulerVars

LEMMA RequestKeepsWoken ==
  ASSUME Typed, Woken, Request
  PROVE  Woken'
<1>1. ASSUME NEW k, NEW e, Admits, Enqueue(k, e)
      PROVE  Woken'
  BY <1>1, HandlerRequestsWake DEF Enqueue, Admits, RpcReady, Threads
<1>2. ASSUME NEW k, SubmitOperation(k)
      PROVE  Woken'
  BY <1>1, <1>2 DEF SubmitOperation
<1>3. ASSUME NEW mode, NEW forms, AdmitExecution(mode, forms)
      PROVE  Woken'
  BY <1>1, <1>3 DEF AdmitExecution
<1>4. CASE AdmitEmptyExecution
  BY <1>4 DEF AdmitEmptyExecution, hostVars, Woken, WakePendingIsOneWake, WakesInFlight, Owed,
              ReadyWorkHasAWake, WakeDue, Deferred, QuarantineIsFinal, UnloadingIsStopping,
                 SchedulingHasNoClaim
<1>5. ASSUME NEW j \in JobIds, CancelActive(j)
      PROVE  Woken'
  <2>1. WakeDue' <=> WakeDue
    BY <1>5 DEF CancelActive, schedulerVars, WakeDue, Deferred
  <2> QED BY <1>5, <2>1, SameWakes DEF CancelActive, hostVars
<1>6. ASSUME NEW j \in JobIds, CancelPending(j)
      PROVE  Woken'
  <2>1. quarantined => pending' = <<>>
    <3>1. ~quarantined
      BY <1>6 DEF CancelPending, Woken, QuarantineIsFinal, Elements
    <3> QED BY <3>1
  <2> QED BY <1>6, <2>1, HandlerRequestsWake DEF CancelPending, RpcReady, Threads
<1> QED BY <1>2, <1>3, <1>4, <1>5, <1>6 DEF Request

LEMMA TakeKeepsWoken ==
  ASSUME Typed, Woken, TakeNativeAction
  PROVE  Woken'
<1>1. ASSUME Callback, UNCHANGED <<claim, stopping, quarantined>>,
             main' = "scheduling" \/ active' # NoJob,
             quarantined => pending' = <<>> /\ active' = NoJob,
             main' # "unloading"
      PROVE  Woken'
  <2>1. callbacks \in Nat /\ callbacks > 0 /\ callbacks' = callbacks - 1
    BY <1>1 DEF Callback, Typed, TypeOK
  <2>2. WakesInFlight <= 1
    BY DEF Woken, WakePendingIsOneWake
  <2>3. WakesInFlight' = 0
    BY <1>1, <2>1, <2>2 DEF WakesInFlight, Owed
  <2>4. ~wakePending'
    BY <1>1 DEF Callback
  <2>5. WakePendingIsOneWake'
    BY <2>3, <2>4 DEF WakePendingIsOneWake
  <2>6. ReadyWorkHasAWake'
    BY <1>1 DEF ReadyWorkHasAWake, WakeDue
  <2>7. claim["main"] = "none"
    BY <1>1 DEF Callback, MainReady
  <2> QED BY <1>1, <2>5, <2>6, <2>7 DEF Woken, QuarantineIsFinal, UnloadingIsStopping,
                 SchedulingHasNoClaim
<1>2. CASE TakeIdle
  BY <1>1, <1>2 DEF TakeIdle, Woken, QuarantineIsFinal
<1>3. ASSUME NEW a, TakeAndAnswer(a)
      PROVE  Woken'
  BY <1>1, <1>3 DEF TakeAndAnswer, MayIssue, WakeDue
<1>4. CASE TakeAndIssue
  <2>1. pending # <<>> /\ ~quarantined
    BY <1>4 DEF TakeAndIssue, MayIssue, WakeDue
  <2>2. active' # NoJob
    BY <1>4, <2>1, HeadTailProperties, JobIdsAreNumbers DEF TakeAndIssue, Typed, TypeOK
  <2> QED BY <1>1, <1>4, <2>1, <2>2 DEF TakeAndIssue
<1> QED BY <1>2, <1>3, <1>4 DEF TakeNativeAction, TakeExpired, TakeImmediate

\* While a job is active no wake is pending; its completion leaves none, and
\* the main thread goes on to ask for one unless nothing may be issued.
LEMMA CompletionKeepsWoken ==
  ASSUME Typed, Woken, active # NoJob, claim["main"] = "none",
         NEW result, NEW quarantine \in BOOLEAN,
         CompleteNativeAction(result, quarantine),
         main' = "scheduling" \/ (quarantined' /\ main' = "free"),
         UNCHANGED <<callbacks, claim>>
  PROVE  Woken'
<1>1. ~wakePending /\ ~quarantined
  BY DEF Woken, WakePendingIsOneWake, QuarantineIsFinal
<1>2. /\ ~wakePending'
      /\ active' = NoJob
      /\ stopping' = stopping
      /\ quarantined' => pending' = <<>>
  <2>1. CASE DeferActive
    BY <1>1, <2>1 DEF DeferActive
  <2>2. CASE AnswerActive(result, quarantine)
    BY <1>1, <2>2 DEF AnswerActive
  <2> QED BY <2>1, <2>2 DEF CompleteNativeAction
<1>3. WakesInFlight' = WakesInFlight
  BY DEF WakesInFlight, Owed
<1>4. WakePendingIsOneWake'
  BY <1>1, <1>2, <1>3 DEF Woken, WakePendingIsOneWake
<1>5. ReadyWorkHasAWake'
  BY DEF ReadyWorkHasAWake, WakeDue
<1> QED BY <1>2, <1>4, <1>5 DEF Woken, QuarantineIsFinal, UnloadingIsStopping,
                 SchedulingHasNoClaim

LEMMA HostKeepsWoken ==
  ASSUME Typed, Woken, HostActs \/ ScheduleNext \/ DispatchEnds
  PROVE  Woken'
<1>0. ASSUME NEW result PROVE RequiresQuarantine(result) \in BOOLEAN
  BY DEF RequiresQuarantine
<1>1. ASSUME NEW result, HostCompletes(result)
      PROVE  Woken'
  <2>1. active # NoJob
    BY <1>1 DEF HostCompletes, Typed, ActiveIsOwned
  <2> QED BY <1>0, <1>1, <2>1, CompletionKeepsWoken DEF HostCompletes
<1>2. CASE HostDispatches
  <2>1. ~WakeDue /\ (WakeDue' <=> WakeDue)
    BY <1>2 DEF HostDispatches, Typed, ActiveIsOwned, WakeDue, Deferred, schedulerVars, jobVars
  <2> QED BY <1>2, <2>1, SameWakes DEF HostDispatches
<1>3. CASE ScheduleNext
  <2>1. WakePendingIsOneWake' /\ ReadyWorkHasAWake'
    <3>1. /\ InFlight(claim) <= 1
          /\ wakePending => InFlight(claim) = 1 /\ active' = NoJob
          /\ InFlight(claim) = 1 => wakePending \/ stopping'
      BY <1>3, InFlightWakes DEF ScheduleNext, Woken, WakePendingIsOneWake
    <3>2. claim["main"] = "none"
      BY <1>3 DEF ScheduleNext, Woken, SchedulingHasNoClaim
    <3> QED BY <1>3, <3>1, <3>2, WakeRequested DEF ScheduleNext, Typed, TypeOK, Threads
  <2> QED BY <1>3, <2>1 DEF ScheduleNext, Woken, QuarantineIsFinal, UnloadingIsStopping,
                 SchedulingHasNoClaim
<1>4. ASSUME NEW result, FinalizeHistory(result)
      PROVE  Woken'
  <2>1. active # NoJob
    BY <1>4 DEF FinalizeHistory, Typed, ActiveIsOwned
  <2> QED BY <1>0, <1>4, <2>1, CompletionKeepsWoken DEF FinalizeHistory, MainReady
<1>5. ASSUME NEW result, NEW observation, FinalizeExecution(result, observation)
      PROVE  Woken'
  <2>1. active # NoJob
    BY <1>5 DEF FinalizeExecution, Driving, Typed, ActiveIsOwned
  <2>2. FinalizationQuarantines(result, observation) \in BOOLEAN
    BY DEF FinalizationQuarantines
  <2> QED BY <1>5, <2>1, <2>2, CompletionKeepsWoken DEF FinalizeExecution, Driving, MainReady
<1>6. ASSUME NEW observation, FinalizerNotScheduled(observation)
      PROVE  Woken'
  <2> DEFINE lost == "DocumentContextRestoreFailed"
  <2>1. active # NoJob /\ main' = "free"
    BY <1>6 DEF FinalizerNotScheduled, Typed, ActiveIsOwned, MainReady
  <2>2. /\ RequiresQuarantine(lost)
        /\ FinalizationQuarantines(lost, observation)
        /\ FinalizationKind(lost, observation) = lost
    BY DEF RequiresQuarantine, FinalizationQuarantines, FinalizationKind
  <2>3. CompleteNativeAction(lost, TRUE)
    BY <1>6, <2>2 DEF FinalizerNotScheduled
  <2>4. quarantined'
    BY <2>3 DEF CompleteNativeAction, IsDeferred, WaitsForReadiness, AnswerActive
  <2> QED BY <1>6, <2>1, <2>3, <2>4, CompletionKeepsWoken DEF FinalizerNotScheduled, MainReady
<1> QED BY <1>1, <1>2, <1>3, <1>4, <1>5, <1>6 DEF HostActs, DispatchEnds

LEMMA DriverKeepsWoken ==
  ASSUME Typed, Woken, DriverAdvances
  PROVE  Woken'
<1>1. ASSUME NEW e, Drive(e)
      PROVE  Woken'
  <2>1. WakeDue' <=> WakeDue
    BY <1>1 DEF Drive, WakeDue, Deferred, schedulerVars
  <2> QED BY <1>1, <2>1, SameWakes DEF Drive, hostVars
<1> QED BY <1>1 DEF DriverAdvances, DriverTakesStep, DriverCompletesStep, DriverAbandons

LEMMA WakeKeepsWoken ==
  ASSUME Typed, Accounted, Woken, NEW thread \in Threads, Wake(thread)
  PROVE  Woken'
<1>0. callbacks \in Nat /\ WakesInFlight <= 1
  BY DEF Typed, TypeOK, Woken, WakePendingIsOneWake
<1>1. CASE WakeAccepted(thread)
  <2>1. WakesInFlight' = WakesInFlight
    BY <1>0, <1>1 DEF WakeAccepted, WakesInFlight, Owed, Threads, Typed, TypeOK
  <2>2. WakeDue' <=> WakeDue
    BY <1>1 DEF WakeAccepted, WakeDue, Deferred, schedulerVars, jobVars
  <2>3. SchedulingHasNoClaim'
    BY <1>1 DEF WakeAccepted, Woken, SchedulingHasNoClaim, Typed, TypeOK, Threads
  <2> QED BY <1>1, <2>1, <2>2, <2>3
          DEF WakeAccepted, Woken, WakePendingIsOneWake, ReadyWorkHasAWake,
              QuarantineIsFinal, UnloadingIsStopping, schedulerVars
<1>2. CASE WakeRefused(thread)
  <2>1. WakesInFlight' = WakesInFlight
    BY <1>0, <1>2 DEF WakeRefused, WakesInFlight, Owed, Threads, Typed, TypeOK
  <2>2. WakeDue' <=> WakeDue
    BY <1>2 DEF WakeRefused, WakeDue, Deferred, schedulerVars, jobVars
  <2>3. SchedulingHasNoClaim'
    BY <1>2 DEF WakeRefused, Woken, SchedulingHasNoClaim, Typed, TypeOK, Threads
  <2> QED BY <1>2, <2>1, <2>2, <2>3
          DEF WakeRefused, Woken, WakePendingIsOneWake, ReadyWorkHasAWake,
              QuarantineIsFinal, UnloadingIsStopping, schedulerVars
<1>3. CASE WakeFailed(thread)
  <2> DEFINE head == Head(pending)
             released == [claim EXCEPT ![thread] = "none"]
  <2>1. InFlight(released) = 0
    BY <1>0, <1>3 DEF WakeFailed, WakesInFlight, Owed, InFlight, Threads, Typed, TypeOK
  <2>2. /\ UNCHANGED <<active, stopping, quarantined, main, callbacks>>
        /\ released \in [Threads -> {"none", "claimed", "refused"}]
        /\ released[thread] = "none"
    BY <1>3 DEF WakeFailed, Typed, TypeOK
  <2>3. /\ WakePendingIsOneWake'
        /\ ReadyWorkHasAWake'
        /\ quarantined => pending' = <<>>
        /\ main = "scheduling" => claim'["main"] = "none"
    <3>1. CASE /\ ~WakeDue'
               /\ wakePending' = FALSE
               /\ claim' = released
               /\ quarantined => pending' = <<>>
      <4>1. WakesInFlight' = 0
        BY <2>1, <2>2, <3>1 DEF WakesInFlight, Owed, InFlight
      <4>2. main = "scheduling" => claim'["main"] = "none"
        BY <3>1 DEF Woken, SchedulingHasNoClaim, Typed, TypeOK, Threads
      <4> QED BY <3>1, <4>1, <4>2 DEF WakePendingIsOneWake, ReadyWorkHasAWake
    <3>2. CASE /\ ~quarantined
               /\ RequestWake(thread, FALSE, released)
      <4>1. WakePendingIsOneWake' /\ ReadyWorkHasAWake'
        <5> HIDE DEF released
        <5>1. callbacks \in Nat /\ callbacks' = callbacks
          BY <1>0, <2>2
        <5>2. InFlight(released) <= 1 /\ InFlight(released) # 1
          BY <2>1
        <5> QED BY <2>2, <3>2, <5>1, <5>2, WakeRequested
      <4>2. main = "scheduling" => thread = "rpc"
        BY <1>3 DEF WakeFailed, Woken, SchedulingHasNoClaim, Threads
      <4>3. main = "scheduling" => claim'["main"] = "none"
        BY <3>2, <4>2 DEF RequestWake, Woken, SchedulingHasNoClaim, Typed, TypeOK, Threads
      <4> QED BY <3>2, <4>1, <4>3
    <3>3. CASE /\ stopping \/ quarantined \/ active # NoJob \/ pending = <<>>
               /\ wakePending' = FALSE
               /\ claim' = released
               /\ UNCHANGED pending
      <4>1. ~WakeDue'
        BY <2>2, <3>3 DEF WakeDue
      <4>2. quarantined => pending' = <<>>
        BY <3>3 DEF Woken, QuarantineIsFinal
      <4> QED BY <3>1, <3>3, <4>1, <4>2
    <3>4. CASE /\ ~quarantined
               /\ pending # <<>>
               /\ wait' = [wait EXCEPT ![head] = Defer(BeginReadiness(@))]
               /\ wakePending' = FALSE
               /\ claim' = released
               /\ UNCHANGED pending
      <4>1. head \in JobIds
        BY <3>4, HeadTailProperties DEF Typed, TypeOK
      <4>2. Deferred(head)'
        <5>1. wait'[head] = Defer(BeginReadiness(wait[head])) /\ wait[head] \in WaitStates
          BY <3>4, <4>1 DEF Typed, TypeOK
        <5>2. wait[head].state # "None"
          <6>1. head \in Elements(pending)
            BY <3>4, QueueWithoutHead DEF Accounted, QueueInAdmissionOrder, Typed, TypeOK
          <6> QED BY <4>1, <6>1 DEF Accounted, WaitsMatchJobs
        <5>3. wait'[head].state = "Deferred"
          BY <5>1, <5>2, WaitSteps
        <5> QED BY <3>4, <5>3 DEF Deferred
      <4>3. ~WakeDue'
        BY <3>4, <4>2 DEF WakeDue, Deferred
      <4> QED BY <3>1, <3>4, <4>3
    <3> QED BY <1>3, <3>2, <3>3, <3>4 DEF WakeFailed
  <2>4. QuarantineIsFinal' /\ UnloadingIsStopping'
    BY <2>2, <2>3 DEF Woken, QuarantineIsFinal, UnloadingIsStopping
  <2> QED BY <2>2, <2>3, <2>4 DEF Woken, SchedulingHasNoClaim
<1> QED BY <1>1, <1>2, <1>3 DEF Wake

LEMMA ReadinessKeepsWoken ==
  ASSUME Typed, Woken, NativeStateMayBeReady
  PROVE  Woken'
<1>1. main # "scheduling" /\ claim["main"] = "none"
  BY DEF NativeStateMayBeReady
<1>2. quarantined => pending' = <<>>
  BY DEF NativeStateMayBeReady, Woken, QuarantineIsFinal
<1> QED BY <1>1, <1>2, HandlerRequestsWake DEF NativeStateMayBeReady, Threads

LEMMA TimerKeepsWoken ==
  ASSUME Typed, Accounted, Woken, TimerDriver
  PROVE  Woken'
<1>1. CASE TimerSleeps \/ TimerNotified
  <2>1. UNCHANGED <<schedulerVars, jobVars, hostVars>>
    BY <1>1 DEF TimerSleeps, TimerNotified
  <2>2. WakeDue' <=> WakeDue
    BY <2>1 DEF WakeDue, Deferred, schedulerVars, jobVars
  <2> QED BY <2>1, <2>2, SameWakes DEF hostVars
<1>2. CASE TimerFires
  <2>1. quarantined => pending' = <<>>
    <3>1. quarantined => Elements(pending) = {}
      BY EmptyQueue DEF Woken, QuarantineIsFinal
    <3>2. quarantined => Elements(pending') = {}
      BY <1>2, <3>1, QueueWithout
         DEF TimerFires, Typed, TypeOK, Accounted, QueueInAdmissionOrder
    <3>3. pending' \in Seq(JobIds)
      BY <1>2, LeftOverType DEF TimerFires, Typed, TypeOK
    <3> QED BY <3>2, <3>3, EmptyQueue
  <2> QED BY <1>2, <2>1, HandlerRequestsWake DEF TimerFires, RpcReady, Threads
<1> QED BY <1>1, <1>2 DEF TimerDriver

LEMMA EnvironmentKeepsWoken ==
  ASSUME Typed, Accounted, Woken, Tick \/ Stop \/ ServerShutsDown
  PROVE  Woken'
<1>1. CASE Tick
  <2>1. \A j \in JobIds : Deferred(j)' <=> Deferred(j)
    <3> SUFFICES ASSUME NEW j \in JobIds PROVE wait'[j].state = wait[j].state
      BY DEF Deferred
    <3>1. wait'[j] = Aged(wait[j]) /\ wait[j] \in WaitStates
      BY <1>1 DEF Tick, Typed, TypeOK
    <3> QED BY <3>1, WaitSteps
  <2>2. pending # <<>> => Head(pending) \in JobIds
    BY HeadTailProperties DEF Typed, TypeOK
  <2>3. WakeDue' <=> WakeDue
    BY <1>1, <2>1, <2>2 DEF Tick, WakeDue, schedulerVars
  <2> QED BY <1>1, <2>3, SameWakes DEF Tick, hostVars
<1>2. CASE Stop
  <2>1. WakesInFlight' = WakesInFlight
    BY <1>2 DEF Stop, WakesInFlight, Owed
  <2>2. ~wakePending' /\ stopping' /\ pending' = <<>> /\ main' = "unloading"
    BY <1>2 DEF Stop
  <2>3. UNCHANGED <<active, quarantined>>
    BY <1>2 DEF Stop
  <2>4. WakePendingIsOneWake'
    BY <2>1, <2>2 DEF Woken, WakePendingIsOneWake
  <2>5. ReadyWorkHasAWake'
    BY <2>2 DEF ReadyWorkHasAWake, WakeDue
  <2>6. QuarantineIsFinal'
    BY <2>2, <2>3 DEF Woken, QuarantineIsFinal
  <2> QED BY <2>2, <2>4, <2>5, <2>6 DEF Woken, UnloadingIsStopping, SchedulingHasNoClaim
<1>3. CASE ServerShutsDown
  <2>1. WakeDue' <=> WakeDue
    BY <1>3 DEF ServerShutsDown, WakeDue, Deferred, schedulerVars, jobVars
  <2>2. ~WakeDue /\ main' = "free"
    BY <1>3 DEF ServerShutsDown, Woken, UnloadingIsStopping, WakeDue
  <2> QED BY <1>3, <2>1, <2>2, SameWakes DEF ServerShutsDown
<1> QED BY <1>1, <1>2, <1>3

-----------------------------------------------------------------------------
(***************************************************************************)
(* The inductive invariant, and what follows from it.                      *)
(***************************************************************************)
Inv == Typed /\ Accounted /\ Woken

LEMMA InitialInv == Init => Inv
<1> SUFFICES ASSUME Init PROVE Inv
  OBVIOUS
<1>1. Typed
  BY InitialTyped
<1>2. Elements(pending) = {} /\ Held = {} /\ Increasing(pending)
  BY EmptyQueue DEF Init, Held
<1>3. Accounted
  BY <1>2, JobIdsAreNumbers
     DEF Init, Accounted, JobsAccountedFor, JobsSubmittedInOrder, QueueInAdmissionOrder,
         WaitsMatchJobs, NoWait, OnlyHeadDeferred, Deferred, HostOwnsActive
<1>4. Woken
  BY DEF Init, Woken, WakePendingIsOneWake, WakesInFlight, Owed, Threads, ReadyWorkHasAWake,
         WakeDue, QuarantineIsFinal, UnloadingIsStopping, SchedulingHasNoClaim
<1> QED BY <1>1, <1>3, <1>4 DEF Inv

LEMMA StepKeepsInv == Inv /\ [Next]_vars => Inv'
<1> SUFFICES ASSUME Inv, [Next]_vars PROVE Inv'
  OBVIOUS
<1> USE DEF Inv
<1>1. Typed'
  BY StepKeepsTyped
<1>2. CASE UNCHANGED vars
  <2>1. UNCHANGED <<schedulerVars, jobVars, hostVars>>
    BY <1>2 DEF vars
  <2>2. HostOwnsActive'
    BY <2>1 DEF schedulerVars, jobVars, hostVars, Accounted, HostOwnsActive
  <2>3. Accounted'
    BY <2>1, <2>2, NoJobMoves DEF schedulerVars, jobVars
  <2>4. WakeDue' <=> WakeDue
    BY <2>1 DEF WakeDue, Deferred, schedulerVars, jobVars
  <2>5. Woken'
    BY <2>1, <2>4, SameWakes DEF hostVars
  <2> QED BY <1>1, <2>3, <2>5
<1>3. CASE Next
  <2>1. Accounted'
    BY <1>3, RequestKeepsAccounted, TakeKeepsAccounted, HostKeepsAccounted,
       DriverKeepsAccounted, WakeKeepsAccounted, ReadinessKeepsAccounted,
       TimerKeepsAccounted, EnvironmentKeepsAccounted DEF Next
  <2>2. Woken'
    BY <1>3, RequestKeepsWoken, TakeKeepsWoken, HostKeepsWoken, DriverKeepsWoken,
       WakeKeepsWoken, ReadinessKeepsWoken, TimerKeepsWoken, EnvironmentKeepsWoken DEF Next
  <2> QED BY <1>1, <2>1, <2>2
<1> QED BY <1>2, <1>3

LEMMA Invariance == Spec => []Inv
  BY InitialInv, StepKeepsInv, PTL DEF Spec

\* Every job the scheduler holds waits for its answer, and every job that waits
\* is held once, whatever path it takes through the queue.
THEOREM EveryWaitingJobIsHeld == Spec => []JobsAccountedFor
<1>1. Inv => JobsAccountedFor
  BY DEF Inv, Accounted
<1> QED BY <1>1, Invariance, PTL

\* A busy job's return to the front, a cancel in the middle and the expiry of
\* any of them leave the queue in admission order.
THEOREM AdmissionOrder == Spec => []QueueInAdmissionOrder
<1>1. Inv => QueueInAdmissionOrder
  BY DEF Inv, Accounted
<1> QED BY <1>1, Invariance, PTL

\* No job but the head is deferred, so looking at the head alone is enough.
THEOREM DeferredAtHead == Spec => []OnlyHeadDeferred
<1>1. Inv => OnlyHeadDeferred
  BY DEF Inv, Accounted
<1> QED BY <1>1, Invariance, PTL

\* A job is active exactly while AutoCAD holds its action, in one place.
THEOREM ActiveIsHosted == Spec => []HostOwnsActive
<1>1. Inv => HostOwnsActive
  BY DEF Inv, Accounted
<1> QED BY <1>1, Invariance, PTL

\* wake_pending stands for exactly one wake, from its claim to its callback.
THEOREM OneWake == Spec => []WakePendingIsOneWake
<1>1. Inv => WakePendingIsOneWake
  BY DEF Inv, Woken
<1> QED BY <1>1, Invariance, PTL

\* No job that could be issued is ever without a wake to issue it.
THEOREM NoLostWake == Spec => []ReadyWorkHasAWake
<1>1. Inv => ReadyWorkHasAWake
  BY DEF Inv, Woken
<1> QED BY <1>1, Invariance, PTL

\* After AutoCAD's state is in doubt the scheduler stays empty.
THEOREM QuarantineEmpties == Spec => []QuarantineIsFinal
<1>1. Inv => QuarantineIsFinal
  BY DEF Inv, Woken
<1> QED BY <1>1, Invariance, PTL

-----------------------------------------------------------------------------
(***************************************************************************)
(* Executions.  A queued execution is untouched, because it comes back     *)
(* from AutoCAD only if no step of it was taken and no cancel reached it;  *)
(* and none comes back to a queue that has stopped, because the action in  *)
(* AutoCAD's hands then was dispatched before.                             *)
(***************************************************************************)
ExecutionsConsistent ==
  \A j \in JobIds :
    /\ Consistent(execution[j])
    /\ ~IsExecution(j) => execution[j] = Dropped

QueuedUntouched ==
  \A j \in Elements(pending) : IsExecution(j) =>
    Untouched(execution[j]) /\ ~execution[j].cancel

IssuedUntouched ==
  main = "acting" /\ IsExecution(active) =>
    Untouched(execution[active]) \/ execution[active].outcome # "none"

StoppedIsIdle ==
  stopping => main # "acting" /\ \A j \in Elements(pending) : ~IsExecution(j)

Driven ==
  /\ ExecutionsConsistent
  /\ QueuedUntouched
  /\ IssuedUntouched
  /\ StoppedIsIdle

(***************************************************************************)
(* The steps that move jobs between the queue and AutoCAD are admissions,  *)
(* the issue of the head and its completion.                               *)
(***************************************************************************)
Admission(k, e) ==
  /\ Admits
  /\ Enqueue(k, e)
  /\ MutationJobCount < MaxMutationJobs
  /\ timer' = timer
  /\ \/ k \in {"drawing", "history"} /\ e = Dropped /\ permit' = permit
     \/ /\ k = "execution"
        /\ ExecutionUsage < MaxAdmittedExecutions
        /\ permit' = TRUE
        /\ \E mode \in ExecModes, forms \in 1..MaxForms : e = NewExecution(mode, forms)

Completion(result, quarantine) ==
  /\ active # NoJob
  /\ CompleteNativeAction(result, quarantine)
  /\ main' # "acting"
  /\ ~dispatched'
  /\ result \in NativeResults
  /\ result = "NotQuiescent" /\ IsExecution(active) => main = "acting"
  /\ result \in {"Refused", "NotQuiescent"} /\ IsExecution(active) =>
       \/ execution[active].phase = "BeginUndoGroup"
       \/ execution[active].outcome # "none"

(***************************************************************************)
(* Any other step may take jobs out of the queue, and it may cancel,       *)
(* expire or drive the active execution.                                   *)
(***************************************************************************)
Quiet ==
  /\ Elements(pending') \subseteq Elements(pending)
  /\ Len(pending') <= Len(pending)
  /\ active' = active
  /\ \A j \in JobIds : kind'[j] # kind[j] => j \notin Held /\ IsExecution(j)'
  /\ \A j \in JobIds : j \in Elements(pending') => execution'[j] = execution[j]
  /\ \A j \in JobIds : j # active => execution'[j] \in {execution[j], Dropped}
  /\ active # NoJob /\ ~IsExecution(active) => execution'[active] = execution[active]
  /\ active # NoJob => /\ answer'[active] = answer[active]
                       /\ Consistent(execution'[active])
  /\ main' = "acting" =>
       /\ main = "acting"
       /\ \/ Untouched(execution[active]) \/ execution[active].outcome # "none"
          => Untouched(execution'[active]) \/ execution'[active].outcome # "none"
  /\ stopping' => stopping \/ (main' # "acting" /\ pending' = <<>>)

LEMMA ActiveIsNotQueued ==
  ASSUME Typed, Accounted, active # NoJob
  PROVE  active \in JobIds /\ active \notin Elements(pending)
  BY HeldJobs DEF Accounted, JobsAccountedFor

LEMMA LeftOverLength ==
  ASSUME NEW q \in Seq(JobIds), NEW gone, NEW t \in LeftOver(q, gone)
  PROVE  Len(t) <= Len(q) /\ Elements(t) = Elements(q) \ gone
<1>1. Len(q) \in Nat
  BY LenProperties
<1>2. PICK n \in 0..Len(q) : t \in [1..n -> JobIds]
  BY DEF LeftOver
<1>3. t \in Seq(JobIds) /\ DOMAIN t = 1..n
  BY <1>1, <1>2, LeftOverType
<1>4. Len(t) \in Nat /\ DOMAIN t = 1..Len(t)
  BY <1>3, LenProperties
<1>5. Len(t) = n
  BY <1>1, <1>3, <1>4
<1> QED BY <1>1, <1>5 DEF LeftOver

\* A step that leaves the executions and the jobs where they are.
LEMMA NothingMoves ==
  ASSUME Typed, Accounted, Driven,
         UNCHANGED <<pending, active, kind, execution, answer>>,
         main' = "acting" => main = "acting",
         stopping' => stopping
  PROVE  Quiet
<1>1. Len(pending) <= Len(pending)
  BY LenProperties DEF Typed, TypeOK
<1>2. active # NoJob => Consistent(execution[active])
  BY ActiveIsNotQueued DEF Driven, ExecutionsConsistent
<1> QED BY <1>1, <1>2 DEF Quiet

\* A step that answers jobs of the queue.
LEMMA QueuedAreAnswered ==
  ASSUME Typed, Accounted, Driven, NEW gone \in SUBSET Elements(pending),
         Elements(pending') = Elements(pending) \ gone,
         Len(pending') <= Len(pending),
         \A j \in JobIds :
           /\ j \in gone => execution'[j] = Dropped
           /\ j \notin gone => execution'[j] = execution[j] /\ answer'[j] = answer[j],
         UNCHANGED <<active, kind>>,
         main' = "acting" => main = "acting",
         stopping' => stopping
  PROVE  Quiet
<1>1. active # NoJob =>
        /\ execution'[active] = execution[active]
        /\ answer'[active] = answer[active]
        /\ Consistent(execution[active])
  BY ActiveIsNotQueued DEF Driven, ExecutionsConsistent
<1>2. main' = "acting" => active # NoJob
  BY DEF Typed, ActiveIsOwned
<1> QED BY <1>1, <1>2 DEF Quiet

LEMMA RequestSteps ==
  ASSUME Typed, Accounted, Driven, Request
  PROVE  Quiet \/ \E k, e : Admission(k, e)
<1>1. ASSUME NEW k \in Kinds \ {"execution"}, SubmitOperation(k)
      PROVE  Admission(k, Dropped)
  <2>1. k \in {"drawing", "history"}
    BY SchedulerAssumption
  <2> QED BY <1>1, <2>1 DEF SubmitOperation, Admission, timerVars
<1>2. ASSUME NEW mode \in Modes, NEW forms \in 1..MaxForms, AdmitExecution(mode, forms)
      PROVE  Admission("execution", NewExecution(mode, forms))
  BY <1>2, SchedulerAssumption DEF AdmitExecution, Admission
<1>3. CASE AdmitEmptyExecution
  <2>1. /\ UNCHANGED <<pending, active, execution, stopping, main>>
        /\ kind' = [kind EXCEPT ![nextId] = "execution"]
        /\ \A j \in JobIds : j # nextId => answer'[j] = answer[j]
    BY <1>3 DEF AdmitEmptyExecution, hostVars, Typed, TypeOK
  <2>2. nextId \notin Held
    <3>1. nextId \in Nat
      BY DEF Typed, TypeOK
    <3> QED BY <3>1, HeldAreSubmitted
  <2>3. active # NoJob => active # nextId /\ active \in JobIds
    BY <2>2, HeldJobs DEF Held
  <2>4. \A j \in JobIds : kind'[j] # kind[j] => j \notin Held /\ IsExecution(j)'
    BY <2>1, <2>2 DEF IsExecution, Typed, TypeOK
  <2>5. Len(pending) <= Len(pending)
    BY LenProperties DEF Typed, TypeOK
  <2>6. active # NoJob => Consistent(execution[active])
    BY <2>3 DEF Driven, ExecutionsConsistent
  <2> QED BY <2>1, <2>3, <2>4, <2>5, <2>6 DEF Quiet
<1>4. ASSUME NEW j \in JobIds, CancelActive(j)
      PROVE  Quiet
  <2>1. /\ UNCHANGED <<pending, active, kind, answer, main, stopping>>
        /\ active = j /\ IsExecution(j)
        /\ execution' = [execution EXCEPT ![j] = RequestCancel(@)]
    BY <1>4 DEF CancelActive, schedulerVars, hostVars
  <2>2. execution[j] \in Executions /\ j \notin Elements(pending) /\ j # NoJob
    BY <2>1, ActiveIsNotQueued, JobIdsAreNumbers DEF Typed, TypeOK
  <2>3. execution'[j] = RequestCancel(execution[j])
    BY <2>1 DEF Typed, TypeOK
  <2>4. \A i \in JobIds : i # j => execution'[i] = execution[i]
    BY <2>1 DEF Typed, TypeOK
  <2>5. Consistent(execution'[j])
    BY <2>2, <2>3, CancelIsConsistent DEF Driven, ExecutionsConsistent
  <2>6. Untouched(execution[j]) \/ execution[j].outcome # "none"
          => Untouched(execution'[j]) \/ execution'[j].outcome # "none"
    BY <2>2, <2>3, UntouchedStays
  <2>7. Len(pending) <= Len(pending)
    BY LenProperties DEF Typed, TypeOK
  <2> QED BY <2>1, <2>2, <2>4, <2>5, <2>6, <2>7 DEF Quiet
<1>5. ASSUME NEW j \in JobIds, CancelPending(j)
      PROVE  Quiet
  <2>1. /\ {j} \in SUBSET Elements(pending)
        /\ pending' \in LeftOver(pending, {j})
        /\ UNCHANGED <<active, kind, main, stopping>>
    BY <1>5 DEF CancelPending
  <2>2. Elements(pending') = Elements(pending) \ {j} /\ Len(pending') <= Len(pending)
    BY <2>1, LeftOverLength DEF Typed, TypeOK
  <2>3. \A i \in JobIds :
          /\ i \in {j} => execution'[i] = Dropped
          /\ i \notin {j} => execution'[i] = execution[i] /\ answer'[i] = answer[i]
    BY <1>5 DEF CancelPending, Answer
  <2> QED BY <2>1, <2>2, <2>3, QueuedAreAnswered
<1> QED BY <1>1, <1>2, <1>3, <1>4, <1>5 DEF Request

LEMMA TakeSteps ==
  ASSUME Typed, Accounted, Driven, TakeNativeAction
  PROVE  Quiet \/ TakeAndIssue
<1>1. CASE TakeIdle
  BY <1>1, NothingMoves DEF TakeIdle, jobVars
<1>2. ASSUME NEW a, TakeAndAnswer(a)
      PROVE  Quiet
  <2> DEFINE head == Head(pending)
  <2>1. pending # <<>> /\ pending' = Tail(pending) /\ UNCHANGED <<active, kind, stopping>>
    BY <1>2 DEF TakeAndAnswer, MayIssue, WakeDue
  <2>2. /\ {head} \in SUBSET Elements(pending)
        /\ Elements(pending') = Elements(pending) \ {head}
    BY <2>1, QueueWithoutHead DEF Typed, TypeOK, Accounted, QueueInAdmissionOrder
  <2>3. Len(pending') <= Len(pending)
    BY <2>1, HeadTailProperties, LenProperties DEF Typed, TypeOK
  <2>4. \A i \in JobIds :
          /\ i \in {head} => execution'[i] = Dropped
          /\ i \notin {head} => execution'[i] = execution[i] /\ answer'[i] = answer[i]
    BY <1>2 DEF TakeAndAnswer, Answer
  <2>5. main' # "acting"
    BY <1>2 DEF TakeAndAnswer
  <2> QED BY <2>1, <2>2, <2>3, <2>4, <2>5, QueuedAreAnswered
<1> QED BY <1>1, <1>2 DEF TakeNativeAction, TakeExpired, TakeImmediate

LEMMA HostSteps ==
  ASSUME Typed, Accounted, Driven, HostActs \/ ScheduleNext \/ DispatchEnds
  PROVE  Quiet \/ \E result : \E quarantine \in BOOLEAN : Completion(result, quarantine)
<1>0. /\ \A result : RequiresQuarantine(result) \in BOOLEAN
      /\ \A result, observation : FinalizationQuarantines(result, observation) \in BOOLEAN
  BY DEF RequiresQuarantine, FinalizationQuarantines
<1>1. ASSUME NEW result \in NativeResults, HostCompletes(result)
      PROVE  Completion(result, RequiresQuarantine(result))
  <2>1. /\ active # NoJob /\ main = "acting" /\ main' = "scheduling" /\ ~dispatched'
        /\ CompleteNativeAction(result, RequiresQuarantine(result))
    BY <1>1 DEF HostCompletes, Typed, ActiveIsOwned
  <2>2. IsExecution(active) => \/ execution[active].phase = "BeginUndoGroup"
                               \/ execution[active].outcome # "none"
    BY <2>1 DEF Driven, IssuedUntouched, Untouched
  <2> QED BY <2>1, <2>2 DEF Completion
<1>2. CASE HostDispatches
  BY <1>2, NothingMoves DEF HostDispatches, schedulerVars, jobVars
<1>3. CASE ScheduleNext
  BY <1>3, NothingMoves DEF ScheduleNext, jobVars
<1>4. ASSUME NEW result \in DispatchResults("history"), FinalizeHistory(result)
      PROVE  Completion(result, RequiresQuarantine(result))
  <2>1. /\ active # NoJob /\ main' = "scheduling" /\ ~dispatched' /\ ~IsExecution(active)
        /\ CompleteNativeAction(result, RequiresQuarantine(result))
    BY <1>4 DEF FinalizeHistory, IsExecution, Typed, ActiveIsOwned
  <2>2. result \in NativeResults
    BY DEF DispatchResults, NativeResults
  <2> QED BY <2>1, <2>2 DEF Completion
<1>5. ASSUME NEW result \in DispatchResults("execution"), NEW observation \in Observations,
             FinalizeExecution(result, observation)
      PROVE  Completion(FinalizationKind(result, observation),
                        FinalizationQuarantines(result, observation))
  <2> DEFINE r == FinalizationKind(result, observation)
  <2>1. /\ active # NoJob /\ main' = "scheduling" /\ ~dispatched'
        /\ CompleteNativeAction(r, FinalizationQuarantines(result, observation))
    BY <1>5 DEF FinalizeExecution, Driving, Typed, ActiveIsOwned
  <2>2. /\ r \in NativeResults /\ r # "NotQuiescent"
        /\ r = "Refused" => result = "Refused" /\ observation = "proved"
    BY DEF FinalizationKind, DispatchResults, NativeResults
  <2>3. r = "Refused" => \/ execution[active].phase = "BeginUndoGroup"
                         \/ execution[active].outcome # "none"
    BY <1>5, <2>2 DEF FinalizeExecution
  <2> HIDE DEF r
  <2> QED BY <2>1, <2>2, <2>3 DEF Completion, r
<1>6. ASSUME NEW observation \in Observations, FinalizerNotScheduled(observation)
      PROVE  \E result : \E quarantine \in BOOLEAN : Completion(result, quarantine)
  <2> DEFINE lost == "DocumentContextRestoreFailed"
             r == FinalizationKind(lost, observation)
  <2>1. active # NoJob /\ main' # "acting" /\ ~dispatched'
    BY <1>6 DEF FinalizerNotScheduled, MainReady, Typed, ActiveIsOwned
  <2>2. CASE IsExecution(active)
    <3>1. CompleteNativeAction(r, FinalizationQuarantines(lost, observation))
      BY <1>6, <2>2 DEF FinalizerNotScheduled
    <3>2. r \in NativeResults /\ r \notin {"Refused", "NotQuiescent"}
      BY DEF FinalizationKind, NativeResults
    <3> HIDE DEF r
    <3>3. Completion(r, FinalizationQuarantines(lost, observation))
      BY <2>1, <3>1, <3>2 DEF Completion
    <3> QED BY <1>0, <3>3
  <2>3. CASE ~IsExecution(active)
    <3>1. CompleteNativeAction(lost, RequiresQuarantine(lost))
      BY <1>6, <2>3 DEF FinalizerNotScheduled
    <3>2. Completion(lost, RequiresQuarantine(lost))
      BY <2>1, <2>3, <3>1 DEF Completion, NativeResults
    <3> QED BY <1>0, <3>2
  <2> QED BY <2>2, <2>3
<1>7. CASE HostActs
  BY <1>0, <1>1, <1>2, <1>7 DEF HostActs
<1>8. CASE DispatchEnds
  BY <1>0, <1>4, <1>5, <1>6, <1>8 DEF DispatchEnds
<1> QED BY <1>3, <1>7, <1>8

LEMMA DriverSteps ==
  ASSUME Typed, Accounted, Driven, DriverAdvances
  PROVE  Quiet
<1>0. ASSUME Driving
      PROVE  /\ active \in JobIds /\ active # NoJob /\ active \notin Elements(pending)
             /\ main # "acting" /\ IsExecution(active)
             /\ execution[active] \in Executions
             /\ Consistent(execution[active])
  <2>1. active # NoJob /\ main # "acting"
    BY <1>0 DEF Driving, Typed, ActiveIsOwned
  <2>2. active \in JobIds /\ active \notin Elements(pending)
    BY <2>1, ActiveIsNotQueued
  <2> QED BY <1>0, <2>1, <2>2 DEF Driving, Typed, TypeOK, Driven, ExecutionsConsistent
<1>1. ASSUME NEW e, Drive(e), Driving, Consistent(e)
      PROVE  Quiet
  <2>1. /\ UNCHANGED <<pending, active, kind, answer, main, stopping>>
        /\ execution' = [execution EXCEPT ![active] = e]
    BY <1>1 DEF Drive, schedulerVars, hostVars
  <2>2. execution'[active] = e
    BY <1>0, <1>1, <2>1 DEF Typed, TypeOK
  <2>3. \A i \in JobIds : i # active => execution'[i] = execution[i]
    BY <2>1 DEF Typed, TypeOK
  <2>4. Len(pending) <= Len(pending)
    BY LenProperties DEF Typed, TypeOK
  <2> QED BY <1>0, <1>1, <2>1, <2>2, <2>3, <2>4 DEF Quiet
<1>2. CASE DriverTakesStep
  <2> DEFINE e == ExpireIfDue(execution[active], WaitIsDue(active))
  <2>1. e \in Executions /\ Consistent(e)
    BY <1>0, <1>2, ExpireType, ExpiryIsConsistent DEF DriverTakesStep, ExpireIfDue
  <2>2. Consistent(TakeStep(e))
    <3> HIDE DEF e
    <3> QED BY <2>1, TakeStepIsConsistent
  <2> QED BY <1>1, <1>2, <2>2 DEF DriverTakesStep
<1>3. ASSUME NEW r \in StepResults, DriverCompletesStep(r)
      PROVE  Quiet
  BY <1>0, <1>1, <1>3, CompleteStepIsConsistent DEF DriverCompletesStep
<1>4. CASE DriverAbandons
  BY <1>0, <1>1, <1>4, AbandonIsConsistent DEF DriverAbandons
<1> QED BY <1>2, <1>3, <1>4 DEF DriverAdvances

LEMMA WakeSteps ==
  ASSUME Typed, Accounted, Driven, NEW thread \in Threads, Wake(thread)
  PROVE  Quiet
<1>1. CASE WakeAccepted(thread) \/ WakeRefused(thread)
  BY <1>1, NothingMoves DEF WakeAccepted, WakeRefused, schedulerVars, jobVars
<1>2. CASE WakeFailed(thread)
  <2> DEFINE head == Head(pending)
  <2>1. UNCHANGED <<active, kind, main, stopping>>
    BY <1>2 DEF WakeFailed
  <2>2. CASE UNCHANGED <<pending, execution, answer>>
    BY <2>1, <2>2, NothingMoves
  <2>3. CASE /\ pending # <<>>
             /\ pending' = Tail(pending)
             /\ Answer({head}, [k \in {head} |-> TimeoutAnswer(k)])
    <3>1. /\ {head} \in SUBSET Elements(pending)
          /\ Elements(pending') = Elements(pending) \ {head}
      BY <2>3, QueueWithoutHead DEF Typed, TypeOK, Accounted, QueueInAdmissionOrder
    <3>2. Len(pending') <= Len(pending)
      BY <2>3, HeadTailProperties, LenProperties DEF Typed, TypeOK
    <3>3. \A i \in JobIds :
            /\ i \in {head} => execution'[i] = Dropped
            /\ i \notin {head} => execution'[i] = execution[i] /\ answer'[i] = answer[i]
      BY <2>3 DEF Answer
    <3> QED BY <2>1, <3>1, <3>2, <3>3, QueuedAreAnswered
  <2> QED BY <1>2, <2>2, <2>3 DEF WakeFailed
<1> QED BY <1>1, <1>2 DEF Wake

LEMMA TimerSteps ==
  ASSUME Typed, Accounted, Driven, TimerDriver
  PROVE  Quiet
<1>1. CASE TimerSleeps \/ TimerNotified
  BY <1>1, NothingMoves DEF TimerSleeps, TimerNotified, schedulerVars, jobVars, hostVars
<1>2. CASE TimerFires
  <2> DEFINE expired == {j \in Elements(pending) : WaitIsDue(j)}
  <2>1. /\ pending' \in LeftOver(pending, expired)
        /\ UNCHANGED <<active, kind, main, stopping>>
        /\ expired \in SUBSET Elements(pending)
    BY <1>2 DEF TimerFires
  <2>2. \A j \in JobIds :
          /\ answer'[j] = IF j \in expired THEN TimeoutAnswer(j) ELSE answer[j]
          /\ execution'[j] = IF j \in expired THEN Dropped
                             ELSE IF j = active /\ IsExecution(j)
                             THEN ExpireIfDue(execution[j], WaitIsDue(j))
                             ELSE execution[j]
    BY <1>2 DEF TimerFires
  <2> HIDE DEF expired
  <2>3. Elements(pending') = Elements(pending) \ expired /\ Len(pending') <= Len(pending)
    BY <2>1, LeftOverLength DEF Typed, TypeOK
  <2>4. active # NoJob =>
          /\ active \in JobIds /\ active \notin Elements(pending)
          /\ execution[active] \in Executions /\ Consistent(execution[active])
    BY ActiveIsNotQueued DEF Typed, TypeOK, Driven, ExecutionsConsistent
  <2>5. active # NoJob =>
          /\ answer'[active] = answer[active]
          /\ execution'[active] \in {execution[active], ExpireBeforeStart(execution[active])}
          /\ ~IsExecution(active) => execution'[active] = execution[active]
    BY <2>1, <2>2, <2>4 DEF ExpireIfDue
  <2>6. active # NoJob =>
          /\ Consistent(execution'[active])
          /\ Untouched(execution[active]) \/ execution[active].outcome # "none"
               => Untouched(execution'[active]) \/ execution'[active].outcome # "none"
    BY <2>4, <2>5, ExpiryIsConsistent, UntouchedStays
  <2>7. \A j \in JobIds : j # active => execution'[j] \in {execution[j], Dropped}
    BY <2>2
  <2>8. \A j \in JobIds : j \in Elements(pending') => execution'[j] = execution[j]
    BY <2>2, <2>3, <2>4, JobIdsAreNumbers
  <2>9. main' = "acting" => active # NoJob
    BY <2>1 DEF Typed, ActiveIsOwned
  <2> QED BY <2>1, <2>3, <2>5, <2>6, <2>7, <2>8, <2>9 DEF Quiet
<1> QED BY <1>1, <1>2 DEF TimerDriver

LEMMA EnvironmentSteps ==
  ASSUME Typed, Accounted, Driven, Tick \/ Stop \/ ServerShutsDown \/ NativeStateMayBeReady
  PROVE  Quiet
<1>1. CASE Tick \/ ServerShutsDown \/ NativeStateMayBeReady
  BY <1>1, NothingMoves
     DEF Tick, ServerShutsDown, NativeStateMayBeReady, schedulerVars, jobVars, hostVars
<1>2. CASE Stop
  <2>1. /\ pending' = <<>> /\ main' = "unloading"
        /\ UNCHANGED <<active, kind>>
        /\ \A j \in JobIds :
             /\ j \notin Elements(pending) => answer'[j] = answer[j]
             /\ execution'[j] = IF j \in Elements(pending) THEN Dropped
                                ELSE IF j = active /\ IsExecution(j)
                                THEN RequestCancel(execution[j]) ELSE execution[j]
    BY <1>2 DEF Stop
  <2>2. Elements(pending') = {} /\ Len(pending') <= Len(pending)
    BY <2>1, EmptyQueue, LenProperties DEF Typed, TypeOK
  <2>3. active # NoJob =>
          /\ active \in JobIds /\ active \notin Elements(pending)
          /\ execution[active] \in Executions /\ Consistent(execution[active])
    BY ActiveIsNotQueued DEF Typed, TypeOK, Driven, ExecutionsConsistent
  <2>4. active # NoJob => Consistent(execution'[active])
    BY <2>1, <2>3, CancelIsConsistent
  <2> QED BY <2>1, <2>2, <2>3, <2>4 DEF Quiet
<1> QED BY <1>1, <1>2

\* Every step is one of the four.
LEMMA Steps ==
  ASSUME Typed, Accounted, Driven, [Next]_vars
  PROVE  \/ Quiet
         \/ \E k, e : Admission(k, e)
         \/ TakeAndIssue
         \/ \E result : \E quarantine \in BOOLEAN : Completion(result, quarantine)
<1>1. CASE UNCHANGED vars
  BY <1>1, NothingMoves DEF vars, schedulerVars, jobVars, hostVars
<1>2. CASE Next
  BY <1>2, RequestSteps, TakeSteps, HostSteps, DriverSteps, WakeSteps, TimerSteps,
     EnvironmentSteps DEF Next
<1> QED BY <1>1, <1>2

LEMMA QuietKeepsDriven ==
  ASSUME Typed, Accounted, Accounted', Driven, Quiet
  PROVE  Driven'
<1>0. Elements(pending') \subseteq JobIds /\ Elements(pending') \subseteq Held
  BY HeldJobs DEF Quiet, Held
<1>1. \A j \in JobIds : j \in Held => (IsExecution(j)' <=> IsExecution(j))
  BY DEF Quiet, IsExecution
<1>2. ExecutionsConsistent'
  <2> SUFFICES ASSUME NEW j \in JobIds
               PROVE  /\ Consistent(execution'[j])
                      /\ ~IsExecution(j)' => execution'[j] = Dropped
    BY DEF ExecutionsConsistent
  <2>1. CASE j = active
    <3>1. j \in Held /\ active # NoJob
      BY <2>1, JobIdsAreNumbers DEF Held
    <3>2. ~IsExecution(j)' => execution'[j] = execution[j]
      BY <1>1, <2>1, <3>1 DEF Quiet
    <3> QED BY <1>1, <2>1, <3>1, <3>2 DEF Quiet, Driven, ExecutionsConsistent
  <2>2. CASE j # active
    <3>1. execution'[j] \in {execution[j], Dropped}
      BY <2>2 DEF Quiet
    <3>2. ~IsExecution(j)' => ~IsExecution(j)
      BY DEF Quiet, IsExecution
    <3> QED BY <3>1, <3>2, FreshIsConsistent DEF Driven, ExecutionsConsistent
  <2> QED BY <2>1, <2>2
<1>3. QueuedUntouched'
  BY <1>0, <1>1 DEF Quiet, Driven, QueuedUntouched
<1>4. IssuedUntouched'
  <2> SUFFICES ASSUME main' = "acting", IsExecution(active)'
               PROVE  Untouched(execution'[active]) \/ execution'[active].outcome # "none"
    BY DEF IssuedUntouched, Quiet
  <2>1. main = "acting" /\ active' = active
    BY DEF Quiet
  <2>2. active # NoJob /\ active \in JobIds /\ active \in Held
    BY <2>1, HeldJobs DEF Typed, ActiveIsOwned, Held
  <2>3. IsExecution(active)
    BY <1>1, <2>1, <2>2 DEF IsExecution
  <2> QED BY <2>1, <2>3 DEF Quiet, Driven, IssuedUntouched
<1>5. StoppedIsIdle'
  <2>1. CASE stopping
    <3>1. \A j \in Elements(pending') : ~IsExecution(j)'
      BY <1>0, <1>1, <2>1 DEF Quiet, Driven, StoppedIsIdle
    <3> QED BY <2>1, <3>1 DEF Quiet, Driven, StoppedIsIdle
  <2>2. CASE ~stopping
    BY <2>2, EmptyQueue DEF Quiet, StoppedIsIdle
  <2> QED BY <2>1, <2>2
<1> QED BY <1>2, <1>3, <1>4, <1>5 DEF Driven

LEMMA AdmissionKeepsDriven ==
  ASSUME Typed, Accounted, Driven, NEW k, NEW e, Admission(k, e)
  PROVE  Driven'
<1>0. /\ nextId \in JobIds /\ nextId \notin Held
      /\ UNCHANGED <<active, main, stopping>> /\ ~stopping
  <2>1. nextId \in JobIds
    BY JobIdsAreNumbers DEF Typed, TypeOK, Admission, Admits, JobIds
  <2>2. nextId \in Nat
    BY DEF Typed, TypeOK
  <2>3. nextId \notin Held
    BY <2>2, HeldAreSubmitted
  <2> QED BY <2>1, <2>3 DEF Admission, Admits, Enqueue
<1>1. /\ Consistent(e)
      /\ k # "execution" => e = Dropped
      /\ k = "execution" => Untouched(e) /\ ~e.cancel
  <2>1. CASE k \in {"drawing", "history"} /\ e = Dropped
    BY <2>1, FreshIsConsistent
  <2>2. CASE k = "execution" /\ \E mode \in ExecModes, forms \in 1..MaxForms :
                                   e = NewExecution(mode, forms)
    BY <2>2, FreshIsConsistent, MaxFormsAssumption DEF Untouched, NewExecution
  <2> QED BY <2>1, <2>2 DEF Admission
<1>2. \A j \in JobIds :
        /\ kind'[j] = IF j = nextId THEN k ELSE kind[j]
        /\ execution'[j] = IF j = nextId THEN e ELSE execution[j]
  BY DEF Admission, Enqueue, Typed, TypeOK
<1>3. Elements(pending') = Elements(pending) \cup {nextId}
  <2>1. Increasing(pending) /\ \A j \in Elements(pending) : j < nextId
    BY DEF Accounted, QueueInAdmissionOrder, Held
  <2> QED BY <1>0, <2>1, QueueWithLast DEF Admission, Enqueue, Typed, TypeOK
<1>4. ExecutionsConsistent'
  BY <1>1, <1>2 DEF ExecutionsConsistent, Driven, IsExecution
<1>5. QueuedUntouched'
  <2> SUFFICES ASSUME NEW j \in Elements(pending'), IsExecution(j)'
               PROVE  Untouched(execution'[j]) /\ ~execution'[j].cancel
    BY DEF QueuedUntouched
  <2>1. CASE j = nextId
    BY <1>0, <1>1, <1>2, <2>1 DEF IsExecution
  <2>2. CASE j # nextId
    <3>1. j \in Elements(pending) /\ j \in JobIds
      BY <1>3, <2>2, HeldJobs
    <3>2. IsExecution(j) /\ execution'[j] = execution[j]
      BY <1>2, <2>2, <3>1 DEF IsExecution
    <3> QED BY <3>1, <3>2 DEF Driven, QueuedUntouched
  <2> QED BY <2>1, <2>2
<1>6. IssuedUntouched'
  <2> SUFFICES ASSUME main' = "acting", IsExecution(active)'
               PROVE  Untouched(execution'[active]) \/ execution'[active].outcome # "none"
    BY <1>0 DEF IssuedUntouched
  <2>1. main = "acting" /\ active # NoJob /\ active \in JobIds /\ active # nextId
    BY <1>0, HeldJobs DEF Typed, ActiveIsOwned, Held
  <2>2. IsExecution(active) /\ execution'[active] = execution[active]
    BY <1>0, <1>2, <2>1 DEF IsExecution
  <2> QED BY <2>1, <2>2 DEF Driven, IssuedUntouched
<1>7. StoppedIsIdle'
  BY <1>0 DEF StoppedIsIdle
<1> QED BY <1>4, <1>5, <1>6, <1>7 DEF Driven

LEMMA IssueKeepsDriven ==
  ASSUME Typed, Accounted, Driven, TakeAndIssue
  PROVE  Driven'
<1>1. /\ pending # <<>> /\ pending' = Tail(pending) /\ active' = Head(pending)
      /\ ~stopping /\ UNCHANGED <<stopping, kind, execution>>
  BY DEF TakeAndIssue, MayIssue, WakeDue
<1>2. /\ Head(pending) \in Elements(pending)
      /\ Elements(pending') \subseteq Elements(pending)
  BY <1>1, QueueWithoutHead DEF Typed, TypeOK, Accounted, QueueInAdmissionOrder
<1>3. ExecutionsConsistent' /\ QueuedUntouched'
  BY <1>1, <1>2 DEF Driven, ExecutionsConsistent, QueuedUntouched, IsExecution
<1>4. IssuedUntouched'
  BY <1>1, <1>2 DEF Driven, QueuedUntouched, IssuedUntouched, IsExecution
<1>5. StoppedIsIdle'
  BY <1>1 DEF StoppedIsIdle
<1> QED BY <1>3, <1>4, <1>5 DEF Driven

LEMMA CompletionKeepsDriven ==
  ASSUME Typed, Accounted, Driven, NEW result, NEW quarantine \in BOOLEAN,
         Completion(result, quarantine)
  PROVE  Driven'
<1>0. /\ active \in JobIds /\ active \notin Elements(pending)
      /\ execution[active] \in Executions
      /\ main' # "acting"
  BY ActiveIsNotQueued DEF Completion, Typed, TypeOK
<1>1. CASE IsDeferred(active, result) /\ DeferActive
  <2>1. /\ pending' = <<active>> \o pending
        /\ UNCHANGED <<stopping, kind, execution>>
    BY <1>1 DEF DeferActive
  <2>2. Elements(pending') = Elements(pending) \cup {active}
    BY <1>0, <2>1, QueueWithFirst DEF Typed, TypeOK, Accounted, QueueInAdmissionOrder, Completion
  <2>3. IsExecution(active) =>
          Untouched(execution[active]) /\ ~execution[active].cancel /\ ~stopping
    <3> SUFFICES ASSUME IsExecution(active)
                 PROVE  Untouched(execution[active]) /\ ~execution[active].cancel /\ ~stopping
      OBVIOUS
    <3>1. main = "acting" /\ ~stopping
      BY <1>1 DEF IsDeferred, WaitsForReadiness, Completion, Driven, StoppedIsIdle
    <3>2. CancelFinished(execution[active]).outcome = "none"
      BY <1>1 DEF IsDeferred
    <3>3. execution[active].outcome = "none"
      BY <1>0, <3>2 DEF CancelFinished, CancelBeforeStart, CanCancelBeforeStart
    <3>4. Untouched(execution[active])
      BY <3>1, <3>3 DEF Driven, IssuedUntouched
    <3>5. CanCancelBeforeStart(execution[active]) =>
            CancelBeforeStart(execution[active]).outcome = "Cancelled"
      BY <1>0 DEF CancelBeforeStart, Executions
    <3>6. ~execution[active].cancel
      BY <3>2, <3>4, <3>5 DEF CancelFinished, Untouched, CanCancelBeforeStart
    <3> QED BY <3>1, <3>4, <3>6
  <2>4. ExecutionsConsistent' /\ IssuedUntouched'
    BY <1>0, <2>1 DEF Driven, ExecutionsConsistent, IssuedUntouched, IsExecution
  <2>5. QueuedUntouched'
    BY <2>1, <2>2, <2>3 DEF Driven, QueuedUntouched, IsExecution
  <2>6. StoppedIsIdle'
    BY <1>0, <2>1, <2>2, <2>3 DEF Driven, StoppedIsIdle, IsExecution
  <2> QED BY <2>4, <2>5, <2>6 DEF Driven
<1>2. CASE AnswerActive(result, quarantine)
  <2>1. /\ UNCHANGED <<stopping, kind>>
        /\ pending' = IF quarantine THEN <<>> ELSE pending
        /\ active' = NoJob
        /\ \A j \in JobIds : execution'[j] \in {execution[j], Dropped}
        /\ \A j \in JobIds :
             j \notin {active} \cup (IF quarantine THEN Elements(pending) ELSE {})
               => execution'[j] = execution[j]
    BY <1>2 DEF AnswerActive, Answer
  <2>2. /\ Elements(pending') \subseteq Elements(pending)
        /\ \A j \in Elements(pending') : j \in JobIds /\ execution'[j] = execution[j]
    BY <1>0, <2>1, EmptyQueue, HeldJobs
  <2>3. ExecutionsConsistent'
    BY <2>1, FreshIsConsistent DEF Driven, ExecutionsConsistent, IsExecution
  <2>4. QueuedUntouched'
    BY <2>1, <2>2 DEF Driven, QueuedUntouched, IsExecution
  <2>5. IssuedUntouched' /\ StoppedIsIdle'
    BY <1>0, <2>1, <2>2 DEF Driven, IssuedUntouched, StoppedIsIdle, IsExecution
  <2> QED BY <2>3, <2>4, <2>5 DEF Driven
<1> QED BY <1>1, <1>2 DEF Completion, CompleteNativeAction

LEMMA InitialDriven == Init => Driven
<1> SUFFICES ASSUME Init PROVE Driven
  OBVIOUS
<1>1. Elements(pending) = {}
  BY EmptyQueue DEF Init
<1> QED BY <1>1, FreshIsConsistent
        DEF Init, Driven, ExecutionsConsistent, QueuedUntouched, IssuedUntouched, StoppedIsIdle

LEMMA StepKeepsDriven == Inv /\ Inv' /\ Driven /\ [Next]_vars => Driven'
<1> SUFFICES ASSUME Inv, Inv', Driven, [Next]_vars PROVE Driven'
  OBVIOUS
<1> QED BY Steps, QuietKeepsDriven, AdmissionKeepsDriven, IssueKeepsDriven,
           CompletionKeepsDriven DEF Inv

LEMMA DrivenInvariance == Spec => [](Inv /\ Driven)
  BY Invariance, InitialDriven, StepKeepsDriven, PTL DEF Spec

\* No cancel, expiry or step survives into the queue: defer_for_readiness puts
\* an execution back only as it was admitted.
THEOREM QueuedExecutionsUntouched == Spec => []PendingExecutionsUntouched
<1>1. Driven => PendingExecutionsUntouched
  BY DEF Driven, QueuedUntouched, PendingExecutionsUntouched, Untouched
<1> QED BY <1>1, DrivenInvariance, PTL

\* After a stop no execution joins the queue, neither a new one nor one that
\* AutoCAD sends back.
THEOREM StopEmptiesTheQueue == Spec => []StoppedQueueHoldsNoExecution
<1>1. Driven => StoppedQueueHoldsNoExecution
  BY DEF Driven, StoppedIsIdle, StoppedQueueHoldsNoExecution
<1> QED BY <1>1, DrivenInvariance, PTL

-----------------------------------------------------------------------------
(***************************************************************************)
(* What callers are told.  A job of the queue is answered untouched; the   *)
(* active one is answered from its execution, whose outcome is consistent  *)
(* with the cancel it accepted and the forms it handed off.                *)
(***************************************************************************)
LEMMA ActiveIsAnsweredAtCompletion ==
  ASSUME Inv, Driven, [Next]_vars, active # NoJob, answer'[active] # answer[active]
  PROVE  \E result : \E quarantine \in BOOLEAN :
           /\ Completion(result, quarantine)
           /\ answer'[active] = ActiveAnswer(active, result)
<1>0. active \in JobIds /\ active \in Held
  BY HeldJobs DEF Inv, Held
<1>1. ~Quiet
  BY DEF Quiet
<1>2. ASSUME NEW k, NEW e, Admission(k, e) PROVE FALSE
  <2>1. active # nextId
    <3>1. nextId \in Nat
      BY DEF Inv, Typed, TypeOK
    <3> QED BY <1>0, <3>1, HeldAreSubmitted DEF Inv
  <2>2. answer' = [answer EXCEPT ![nextId] = "waiting"]
    BY <1>2 DEF Admission, Enqueue
  <2> QED BY <1>0, <2>1, <2>2 DEF Inv, Typed, TypeOK
<1>3. ~TakeAndIssue
  BY DEF TakeAndIssue
<1>4. PICK result : \E quarantine \in BOOLEAN : Completion(result, quarantine)
  BY <1>1, <1>2, <1>3, Steps DEF Inv
<1>5. PICK quarantine \in BOOLEAN : Completion(result, quarantine)
  BY <1>4
<1>6. AnswerActive(result, quarantine)
  BY <1>5 DEF Completion, CompleteNativeAction, DeferActive
<1>7. answer'[active] = ActiveAnswer(active, result)
  BY <1>0, <1>6 DEF AnswerActive, Answer
<1> QED BY <1>5, <1>7

Untold == {"Cancelled", "NotStarted", "RolledBack", "Unknown"}

LEMMA CancelledIsNotSuccess ==
  ASSUME NEW e \in Executions, Consistent(e), e.cancel
  PROVE  /\ OutcomeAnswer(e) \in Untold
         /\ OutcomeAnswer(RecordFinalizationFailure(e)) \in Untold
         /\ OutcomeAnswer(ExpireBeforeStart(e)) \in Untold
         /\ CancelFinished(e).outcome \in Untold \cup {"none"}
         /\ \A result : ExecutionAnswer(e, result) \in Untold
<1>1. e.outcome \in Untold \cup {"none"}
  BY Fields DEF Consistent, Untold, Outcomes, Failures
<1>2. OutcomeAnswer(e) \in Untold
  BY <1>1 DEF OutcomeAnswer, Untold
<1>3. OutcomeAnswer(RecordFinalizationFailure(e)) \in Untold
  <2>1. e.outcome # "none" => [e EXCEPT !.outcome = "Unknown"].outcome = "Unknown"
    BY DEF Executions
  <2> QED BY <1>2, <2>1 DEF RecordFinalizationFailure, OutcomeAnswer, Untold
<1>4. OutcomeAnswer(ExpireBeforeStart(e)) \in Untold
  <2>1. ExpireBeforeStart(e) = e
    BY DEF ExpireBeforeStart, Expirable
  <2> QED BY <1>2, <2>1
<1>5. CancelFinished(e).outcome \in Untold \cup {"none"}
  <2>1. [e EXCEPT !.cancel = TRUE, !.outcome = "Cancelled", !.phase = "Terminal"].outcome
          = "Cancelled"
    BY DEF Executions
  <2> QED BY <1>1, <2>1 DEF CancelFinished, CancelBeforeStart, Untold
<1>6. ASSUME NEW result PROVE ExecutionAnswer(e, result) \in Untold
  <2>1. ErrorOutcome(result) \in Untold
    BY DEF ErrorOutcome, Untold
  <2> QED BY <1>2, <1>3, <2>1 DEF ExecutionAnswer
<1> QED BY <1>2, <1>3, <1>4, <1>5, <1>6

LEMMA CancelledAnswer ==
  ASSUME NEW j, IsExecution(j), execution[j] \in Executions, Consistent(execution[j]),
         execution[j].cancel, NEW result
  PROVE  ActiveAnswer(j, result) \in Untold
<1>1. CompletionAnswer(j, result) \in Untold
  BY CancelledIsNotSuccess DEF CompletionAnswer
<1>2. WaitedAnswer(j) \in Untold
  BY CancelledIsNotSuccess DEF WaitedAnswer, TimeoutAnswer
<1> QED BY <1>1, <1>2 DEF ActiveAnswer

LEMMA StepKeepsCancel ==
  ASSUME Inv, Driven, [Next]_vars, NEW j \in JobIds, answer[j] = "waiting",
         execution[j].cancel, answer'[j] # "waiting"
  PROVE  answer'[j] \in Untold
<1>1. IsExecution(j)
  BY DEF Driven, ExecutionsConsistent, Dropped, NewExecution
<1>2. j \in Held /\ j \notin Elements(pending)
  BY <1>1 DEF Inv, Accounted, JobsAccountedFor, Driven, QueuedUntouched
<1>3. j = active /\ active # NoJob
  BY <1>2 DEF Held
<1>4. PICK result : answer'[active] = ActiveAnswer(active, result)
  BY <1>3, ActiveIsAnsweredAtCompletion
<1>5. execution[j] \in Executions /\ Consistent(execution[j])
  BY DEF Inv, Typed, TypeOK, Driven, ExecutionsConsistent
<1> QED BY <1>1, <1>3, <1>4, <1>5, CancelledAnswer

\* A cancel that was accepted is kept, whatever AutoCAD, the driver and the
\* finalizer still report.
THEOREM CancelIsKept == Spec => AcceptedCancelNeverSucceeds
<1> DEFINE Kept == \A j \in JobIds :
                     /\ answer[j] = "waiting"
                     /\ execution[j].cancel
                     /\ answer'[j] # "waiting"
                     => answer'[j] \in {"Cancelled", "NotStarted", "RolledBack", "Unknown"}
<1>1. Inv /\ Driven /\ [Next]_vars => Kept
  BY StepKeepsCancel DEF Untold
<1>2. Inv /\ Driven /\ [Next]_vars => [Kept]_vars
  BY <1>1
<1> HIDE DEF Kept
<1>3. Spec => [][Kept]_vars
  BY <1>2, DrivenInvariance, PTL DEF Spec
<1> QED BY <1>3 DEF AcceptedCancelNeverSucceeds, Kept

LEMMA NotStartedAnswer ==
  ASSUME NEW j, IsExecution(j), execution[j] \in Executions, Consistent(execution[j]),
         NEW result \in NativeResults,
         result \in {"Refused", "NotQuiescent"} =>
           execution[j].phase = "BeginUndoGroup" \/ execution[j].outcome # "none",
         ActiveAnswer(j, result) \in {"NotStarted", "PluginStopping", "TimedOut"}
  PROVE  ~execution[j].handedOff
<1> DEFINE e == execution[j]
<1>1. CASE WaitsForReadiness(j, result)
  BY <1>1 DEF WaitsForReadiness
<1>2. CASE ~WaitsForReadiness(j, result)
  <2>1. ActiveAnswer(j, result) = ExecutionAnswer(e, result)
    BY <1>2 DEF ActiveAnswer, CompletionAnswer
  <2>2. OutcomeAnswer(RecordFinalizationFailure(e)) = "Unknown"
    <3>1. [e EXCEPT !.outcome = "Unknown"].outcome = "Unknown"
      BY DEF Executions
    <3> QED BY <3>1 DEF RecordFinalizationFailure, OutcomeAnswer
  <2>3. ASSUME OutcomeAnswer(e) \in {"NotStarted", "PluginStopping", "TimedOut"}
        PROVE  ~e.handedOff
    BY <2>3, Fields DEF OutcomeAnswer, Consistent, Outcomes, Failures
  <2>4. ASSUME ErrorOutcome(result) \in {"NotStarted", "PluginStopping", "TimedOut"},
               e.outcome = "none", result # "Success"
        PROVE  ~e.handedOff
    <3>1. result \in {"Refused", "NotQuiescent"}
      BY <2>4 DEF ErrorOutcome, RequiresQuarantine, NativeResults
    <3> QED BY <2>4, <3>1 DEF Consistent
  <2>5. ASSUME ExecutionAnswer(e, result) = ErrorOutcome(result),
               ErrorOutcome(result) \in {"NotStarted", "PluginStopping", "TimedOut"},
               e.outcome # "none"
        PROVE  ExecutionAnswer(e, result) = OutcomeAnswer(e)
    <3>1. result \in {"Success", "Refused", "NotQuiescent"}
      BY <2>5 DEF ErrorOutcome, RequiresQuarantine, NativeResults
    <3> QED BY <2>5, <3>1 DEF ExecutionAnswer, UnsafeForOutcome
  <2>6. \/ ExecutionAnswer(e, result) = OutcomeAnswer(e)
        \/ ExecutionAnswer(e, result) = OutcomeAnswer(RecordFinalizationFailure(e))
        \/ /\ ExecutionAnswer(e, result) = ErrorOutcome(result)
           /\ e.outcome = "none" => result # "Success"
    BY DEF ExecutionAnswer
  <2> HIDE DEF e
  <2>7. CASE ExecutionAnswer(e, result) = OutcomeAnswer(e)
    BY <2>1, <2>3, <2>7 DEF e
  <2>8. CASE ExecutionAnswer(e, result) = OutcomeAnswer(RecordFinalizationFailure(e))
    BY <2>1, <2>2, <2>8
  <2>9. CASE /\ ExecutionAnswer(e, result) = ErrorOutcome(result)
             /\ e.outcome = "none" => result # "Success"
    BY <2>1, <2>3, <2>4, <2>5, <2>9 DEF e
  <2> QED BY <2>6, <2>7, <2>8, <2>9 DEF e
<1> QED BY <1>1, <1>2

LEMMA StepIsTruthful ==
  ASSUME Inv, Driven, [Next]_vars, NEW j \in JobIds, answer[j] = "waiting",
         answer'[j] \in {"NotStarted", "PluginStopping", "TimedOut"}
  PROVE  ~execution[j].handedOff
<1>1. CASE ~IsExecution(j)
  BY <1>1 DEF Driven, ExecutionsConsistent, Dropped, NewExecution
<1>2. CASE IsExecution(j) /\ j \in Elements(pending)
  BY <1>2 DEF Driven, QueuedUntouched, Untouched
<1>3. CASE IsExecution(j) /\ j \notin Elements(pending)
  <2>1. j = active /\ active # NoJob
    BY <1>3 DEF Inv, Accounted, JobsAccountedFor, Held
  <2>2. PICK result : \E quarantine \in BOOLEAN :
          Completion(result, quarantine) /\ answer'[active] = ActiveAnswer(active, result)
    BY <2>1, ActiveIsAnsweredAtCompletion
  <2>3. /\ result \in NativeResults
        /\ result \in {"Refused", "NotQuiescent"} =>
             execution[j].phase = "BeginUndoGroup" \/ execution[j].outcome # "none"
    BY <1>3, <2>1, <2>2 DEF Completion
  <2>4. execution[j] \in Executions /\ Consistent(execution[j])
    BY DEF Inv, Typed, TypeOK, Driven, ExecutionsConsistent
  <2> QED BY <1>3, <2>1, <2>2, <2>3, <2>4, NotStartedAnswer
<1> QED BY <1>1, <1>2, <1>3

\* A caller that is told that nothing started, by a timeout, a stop, an expiry
\* or AutoCAD's refusal, can rely on it: no form of its source was handed off.
THEOREM NotStartedIsTrue == Spec => NotStartedMeansNoForm
<1> DEFINE Truthful ==
      \A j \in JobIds :
        answer[j] = "waiting" /\ answer'[j] \in {"NotStarted", "PluginStopping", "TimedOut"}
        => ~execution[j].handedOff
<1>1. Inv /\ Driven /\ [Next]_vars => Truthful
  BY StepIsTruthful
<1>2. Inv /\ Driven /\ [Next]_vars => [Truthful]_vars
  BY <1>1
<1> HIDE DEF Truthful
<1>3. Spec => [][Truthful]_vars
  BY <1>2, DrivenInvariance, PTL DEF Spec
<1> QED BY <1>3 DEF NotStartedMeansNoForm, Truthful

-----------------------------------------------------------------------------
(***************************************************************************)
(* Capacity.  A job that goes back to the queue was counted while it was   *)
(* active, so no step but an admission adds to what the limits bound.      *)
(***************************************************************************)
LEMMA HeldIsFinite ==
  ASSUME Typed
  PROVE  /\ IsFiniteSet(Held)
         /\ ExecutionUsage \in Nat
         /\ MutationJobCount \in Nat
<1>1. IsFiniteSet(JobIds)
  BY FS_Interval, JobIdsAreNumbers DEF JobIds
<1>2. IsFiniteSet(Held)
  BY <1>1, HeldJobs, FS_Subset
<1>3. IsFiniteSet({j \in Held : IsExecution(j)})
  BY <1>2, FS_Subset
<1>4. Len(pending) \in Nat
  BY LenProperties DEF Typed, TypeOK
<1> QED BY <1>2, <1>3, <1>4, FS_CardinalityType DEF ExecutionUsage, MutationJobCount

\* A step that holds no more jobs than before.
LEMMA NoMoreJobs ==
  ASSUME Typed, Typed', WithinCapacity, Held' \subseteq Held,
         \A j \in Held' : IsExecution(j)' => IsExecution(j),
         MutationJobCount' <= MutationJobCount
  PROVE  WithinCapacity'
<1> DEFINE S == {j \in Held : IsExecution(j)}
           T == {j \in Held' : IsExecution(j)'}
<1>1. T \subseteq S
  OBVIOUS
<1>2. IsFiniteSet(S)
  BY HeldIsFinite, FS_Subset
<1> HIDE DEF S, T
<1>3. Cardinality(T) <= Cardinality(S)
  BY <1>1, <1>2, FS_Subset
<1>4. ExecutionUsage' <= ExecutionUsage
  BY <1>3 DEF ExecutionUsage, S, T
<1>5. /\ ExecutionUsage \in Nat /\ MutationJobCount \in Nat
      /\ ExecutionUsage' \in Nat /\ MutationJobCount' \in Nat
  <2>1. IsFiniteSet(T)
    BY <1>1, <1>2, FS_Subset
  <2>2. ExecutionUsage' \in Nat
    BY <2>1, FS_CardinalityType DEF ExecutionUsage, T
  <2>3. Len(pending') \in Nat
    BY LenProperties DEF Typed, TypeOK
  <2> QED BY <2>2, <2>3, HeldIsFinite DEF MutationJobCount
<1> QED BY <1>4, <1>5, SchedulerAssumption DEF WithinCapacity

LEMMA QuietKeepsCapacity ==
  ASSUME Typed, Typed', WithinCapacity, Quiet
  PROVE  WithinCapacity'
<1>1. Held' \subseteq Held
  BY DEF Held, Quiet
<1>2. \A j \in Held' : IsExecution(j)' => IsExecution(j)
  BY <1>1, HeldJobs DEF Quiet, IsExecution
<1>3. MutationJobCount' <= MutationJobCount
  <2>1. Len(pending) \in Nat /\ Len(pending') \in Nat
    BY LenProperties DEF Typed, TypeOK
  <2> QED BY <2>1 DEF MutationJobCount, Quiet
<1> QED BY <1>1, <1>2, <1>3, NoMoreJobs

LEMMA AdmissionKeepsCapacity ==
  ASSUME Typed, Typed', Accounted, WithinCapacity, NEW k, NEW e, Admission(k, e)
  PROVE  WithinCapacity'
<1>0. /\ nextId \in JobIds /\ nextId \notin Held
      /\ pending' = Append(pending, nextId) /\ active' = active
      /\ kind' = [kind EXCEPT ![nextId] = k]
  <2>1. nextId \in JobIds
    BY JobIdsAreNumbers DEF Typed, TypeOK, Admission, Admits, JobIds
  <2>2. nextId \in Nat
    BY DEF Typed, TypeOK
  <2>3. nextId \notin Held
    BY <2>2, HeldAreSubmitted
  <2> QED BY <2>1, <2>3 DEF Admission, Enqueue
<1>1. Held' = Held \cup {nextId}
  <2>1. Increasing(pending) /\ \A j \in Elements(pending) : j < nextId
    BY DEF Accounted, QueueInAdmissionOrder, Held
  <2>2. Elements(pending') = Elements(pending) \cup {nextId}
    BY <1>0, <2>1, QueueWithLast DEF Typed, TypeOK
  <2> QED BY <1>0, <2>2 DEF Held
<1>2. MutationJobCount' <= MaxMutationJobs
  <2>1. Len(pending) \in Nat /\ Len(pending') = Len(pending) + 1
    BY <1>0, AppendProperties, LenProperties DEF Typed, TypeOK
  <2>2. MutationJobCount' = MutationJobCount + 1
    BY <1>0, <2>1 DEF MutationJobCount
  <2> QED BY <2>2, HeldIsFinite, SchedulerAssumption DEF Admission
<1>3. ExecutionUsage' <= MaxAdmittedExecutions
  <2> DEFINE S == {j \in Held : IsExecution(j)}
             T == {j \in Held' : IsExecution(j)'}
  <2>1. \A j \in Held : IsExecution(j)' <=> IsExecution(j)
    BY <1>0, HeldJobs DEF IsExecution, Typed, TypeOK
  <2>2. kind'[nextId] = k
    BY <1>0 DEF Typed, TypeOK
  <2>3. IsFiniteSet(S) /\ Cardinality(S) \in Nat
    BY HeldIsFinite, FS_Subset, FS_CardinalityType
  <2>4. CASE k = "execution"
    <3>1. T = S \cup {nextId} /\ nextId \notin S
      BY <1>0, <1>1, <2>1, <2>2, <2>4 DEF IsExecution
    <3> HIDE DEF S, T
    <3>2. Cardinality(T) = Cardinality(S) + 1
      BY <2>3, <3>1, FS_AddElement
    <3>3. Cardinality(S) < MaxAdmittedExecutions
      BY <2>4 DEF Admission, ExecutionUsage, S
    <3>4. Cardinality(T) <= MaxAdmittedExecutions
      BY <2>3, <3>2, <3>3, SchedulerAssumption
    <3> QED BY <3>4 DEF ExecutionUsage, T
  <2>5. CASE k # "execution"
    <3>1. T = S
      BY <1>0, <1>1, <2>1, <2>2, <2>5 DEF IsExecution
    <3> QED BY <3>1 DEF ExecutionUsage, WithinCapacity
  <2> QED BY <2>4, <2>5
<1> QED BY <1>2, <1>3 DEF WithinCapacity

LEMMA IssueKeepsCapacity ==
  ASSUME Typed, Typed', Accounted, WithinCapacity, TakeAndIssue
  PROVE  WithinCapacity'
<1>1. /\ pending # <<>> /\ pending' = Tail(pending)
      /\ active = NoJob /\ active' = Head(pending) /\ kind' = kind
  BY DEF TakeAndIssue, MayIssue, WakeDue
<1>2. /\ Head(pending) \in Elements(pending)
      /\ Elements(pending') \subseteq Elements(pending)
  BY <1>1, QueueWithoutHead DEF Typed, TypeOK, Accounted, QueueInAdmissionOrder
<1>3. Held' \subseteq Held
  BY <1>1, <1>2 DEF Held
<1>4. MutationJobCount' <= MutationJobCount
  <2>1. Len(pending) \in Nat /\ Len(pending') = Len(pending) - 1
    BY <1>1, HeadTailProperties, LenProperties DEF Typed, TypeOK
  <2> QED BY <1>1, <2>1 DEF MutationJobCount
<1> QED BY <1>1, <1>3, <1>4, NoMoreJobs DEF IsExecution

LEMMA CompletionKeepsCapacity ==
  ASSUME Typed, Typed', Accounted, WithinCapacity, NEW result, NEW quarantine \in BOOLEAN,
         Completion(result, quarantine)
  PROVE  WithinCapacity'
<1>0. active # NoJob /\ active \in JobIds /\ Len(pending) \in Nat
  BY ActiveIsNotQueued, LenProperties DEF Completion, Typed, TypeOK
<1>1. CASE DeferActive
  <2>1. pending' = <<active>> \o pending /\ active' = NoJob /\ kind' = kind
    BY <1>1 DEF DeferActive
  <2>2. Elements(pending') = Elements(pending) \cup {active}
    BY <1>0, <2>1, QueueWithFirst DEF Typed, TypeOK, Accounted, QueueInAdmissionOrder
  <2>3. Held' \subseteq Held
    BY <1>0, <2>1, <2>2 DEF Held
  <2>4. MutationJobCount' <= MutationJobCount
    <3>1. <<active>> \in Seq(JobIds) /\ Len(<<active>>) = 1
      BY <1>0
    <3>2. Len(pending') = 1 + Len(pending)
      BY <1>0, <2>1, <3>1, ConcatProperties DEF Typed, TypeOK
    <3> QED BY <1>0, <2>1, <3>2 DEF MutationJobCount
  <2> QED BY <2>1, <2>3, <2>4, NoMoreJobs DEF IsExecution
<1>2. CASE AnswerActive(result, quarantine)
  <2>1. pending' \in {<<>>, pending} /\ active' = NoJob /\ kind' = kind
    BY <1>2 DEF AnswerActive
  <2>2. Elements(pending') \subseteq Elements(pending)
    BY <2>1, EmptyQueue
  <2>3. Held' \subseteq Held
    BY <1>0, <2>1, <2>2 DEF Held
  <2>4. MutationJobCount' <= MutationJobCount
    <3>1. Len(pending') \in Nat /\ Len(pending') <= Len(pending)
      BY <1>0, <2>1, EmptySeq
    <3> QED BY <1>0, <2>1, <3>1 DEF MutationJobCount
  <2> QED BY <2>1, <2>3, <2>4, NoMoreJobs DEF IsExecution
<1> QED BY <1>1, <1>2 DEF Completion, CompleteNativeAction

\* The limits hold in every state: a deferred job does not overflow the queue
\* that filled up behind it.
THEOREM LimitsHold == Spec => []WithinCapacity
<1>1. Init => WithinCapacity
  <2> SUFFICES ASSUME Init PROVE WithinCapacity
    OBVIOUS
  <2>1. Held = {} /\ Len(pending) = 0
    BY EmptyQueue, EmptySeq DEF Init, Held
  <2>2. {j \in Held : IsExecution(j)} = {}
    BY <2>1
  <2>3. MutationJobCount = 0 /\ ExecutionUsage = 0
    BY <2>1, <2>2, FS_EmptySet DEF Init, MutationJobCount, ExecutionUsage
  <2> QED BY <2>3, SchedulerAssumption DEF WithinCapacity
<1>2. Inv /\ Inv' /\ Driven /\ WithinCapacity /\ [Next]_vars => WithinCapacity'
  BY Steps, QuietKeepsCapacity, AdmissionKeepsCapacity, IssueKeepsCapacity,
     CompletionKeepsCapacity DEF Inv
<1> QED BY <1>1, <1>2, DrivenInvariance, PTL DEF Spec

-----------------------------------------------------------------------------
(***************************************************************************)
(* The timer driver.  What it sleeps towards is no later than any deadline *)
(* of the queue it was told of: the ticks shorten both alike, and a step   *)
(* that sets a deadline notifies it.                                       *)
(***************************************************************************)
\* A step that leaves the timer asleep and sets no deadline.
LEMMA TimerSleepsOn ==
  ASSUME Typed, TimerKnowsItsDeadlines, UNCHANGED <<timer, permit>>,
         \A j \in Elements(pending') :
           /\ j \in Elements(pending)
           /\ IsExecution(j)' => IsExecution(j)
           /\ wait'[j] = wait[j]
  PROVE  TimerKnowsItsDeadlines'
  BY DEF TimerKnowsItsDeadlines, Deferred

\* A step after which the timer driver looks at the deadlines again.
LEMMA TimerLooksAgain ==
  ASSUME timer'.state # "sleeping" \/ permit' = TRUE
  PROVE  TimerKnowsItsDeadlines'
  BY DEF TimerKnowsItsDeadlines

LEMMA RequestKeepsTimer ==
  ASSUME Typed, Accounted, TimerKnowsItsDeadlines, Request
  PROVE  TimerKnowsItsDeadlines'
<1>1. ASSUME NEW k \in Kinds \ {"execution"}, SubmitOperation(k)
      PROVE  TimerKnowsItsDeadlines'
  <2>0. /\ nextId \in JobIds /\ nextId \notin Held /\ k # "execution"
        /\ UNCHANGED <<timer, permit>>
        /\ pending' = Append(pending, nextId)
        /\ kind' = [kind EXCEPT ![nextId] = k]
        /\ wait' = [wait EXCEPT ![nextId] = Queued]
    <3>1. nextId \in JobIds
      BY <1>1, JobIdsAreNumbers DEF Typed, TypeOK, SubmitOperation, Admits, JobIds
    <3>2. nextId \in Nat
      BY DEF Typed, TypeOK
    <3>3. nextId \notin Held
      BY <3>2, HeldAreSubmitted
    <3> QED BY <1>1, <3>1, <3>3 DEF SubmitOperation, Enqueue, timerVars
  <2>1. Elements(pending') = Elements(pending) \cup {nextId}
    <3>1. Increasing(pending) /\ \A j \in Elements(pending) : j < nextId
      BY DEF Accounted, QueueInAdmissionOrder, Held
    <3> QED BY <2>0, <3>1, QueueWithLast DEF Typed, TypeOK
  <2>2. \A j \in JobIds :
          /\ kind'[j] = IF j = nextId THEN k ELSE kind[j]
          /\ wait'[j] = IF j = nextId THEN Queued ELSE wait[j]
    BY <2>0 DEF Typed, TypeOK
  <2>3. Queued.state = "Queued"
    BY DEF Queued
  <2> SUFFICES ASSUME timer.state = "sleeping", ~permit, NEW j \in Elements(pending'),
                      IsExecution(j)' \/ wait'[j].state # "Queued"
               PROVE  /\ timer.target <= wait'[j].left
                      /\ Deferred(j)' => timer.target <= wait'[j].retry
    BY <2>0 DEF TimerKnowsItsDeadlines
  <2>4. j \in Elements(pending) /\ j \in JobIds /\ j # nextId
    BY <2>0, <2>1, <2>2, <2>3, HeldJobs DEF IsExecution, Held
  <2>5. wait'[j] = wait[j] /\ (IsExecution(j)' <=> IsExecution(j))
    BY <2>2, <2>4 DEF IsExecution
  <2> QED BY <2>4, <2>5 DEF TimerKnowsItsDeadlines, Deferred
<1>2. ASSUME NEW mode, NEW forms, AdmitExecution(mode, forms)
      PROVE  TimerKnowsItsDeadlines'
  BY <1>2, TimerLooksAgain DEF AdmitExecution
<1>3. CASE AdmitEmptyExecution
  BY <1>3, TimerLooksAgain DEF AdmitEmptyExecution
<1>4. ASSUME NEW j \in JobIds, CancelActive(j)
      PROVE  TimerKnowsItsDeadlines'
  BY <1>4, TimerSleepsOn DEF CancelActive, schedulerVars, timerVars, IsExecution
<1>5. ASSUME NEW j \in JobIds, CancelPending(j)
      PROVE  TimerKnowsItsDeadlines'
  BY <1>5, TimerLooksAgain DEF CancelPending
<1> QED BY <1>1, <1>2, <1>3, <1>4, <1>5 DEF Request

LEMMA TakeKeepsTimer ==
  ASSUME Typed, Accounted, TimerKnowsItsDeadlines, TakeNativeAction
  PROVE  TimerKnowsItsDeadlines'
<1>1. CASE TakeIdle
  BY <1>1, TimerSleepsOn DEF TakeIdle, jobVars, timerVars, IsExecution
<1>2. ASSUME pending # <<>>, pending' = Tail(pending), UNCHANGED <<kind, timer, permit>>,
             \A j \in JobIds : j # Head(pending) => wait'[j] = wait[j]
      PROVE  TimerKnowsItsDeadlines'
  <2>1. Elements(pending') = Elements(pending) \ {Head(pending)}
    BY <1>2, QueueWithoutHead DEF Typed, TypeOK, Accounted, QueueInAdmissionOrder
  <2> QED BY <1>2, <2>1, TimerSleepsOn, HeldJobs DEF IsExecution
<1>3. ASSUME NEW a, TakeAndAnswer(a)
      PROVE  TimerKnowsItsDeadlines'
  BY <1>2, <1>3 DEF TakeAndAnswer, MayIssue, WakeDue, WaitsWithout, timerVars
<1>4. CASE TakeAndIssue
  BY <1>2, <1>4 DEF TakeAndIssue, MayIssue, WakeDue, timerVars, Typed, TypeOK
<1> QED BY <1>1, <1>3, <1>4 DEF TakeNativeAction, TakeExpired, TakeImmediate

LEMMA HostKeepsTimer ==
  ASSUME Typed, Accounted, TimerKnowsItsDeadlines,
         HostActs \/ ScheduleNext \/ DispatchEnds
  PROVE  TimerKnowsItsDeadlines'
<1>1. ASSUME NEW result, NEW quarantine \in BOOLEAN, active # NoJob,
             CompleteNativeAction(result, quarantine)
      PROVE  TimerKnowsItsDeadlines'
  <2>1. CASE DeferActive
    BY <2>1, TimerLooksAgain DEF DeferActive
  <2>2. CASE AnswerActive(result, quarantine)
    <3>1. /\ pending' = IF quarantine THEN <<>> ELSE pending
          /\ UNCHANGED <<kind, timer, permit>>
          /\ wait' =
               WaitsWithout({active} \cup (IF quarantine THEN Elements(pending) ELSE {}), wait)
      BY <2>2 DEF AnswerActive, timerVars
    <3>2. CASE quarantine
      BY <3>1, <3>2, EmptyQueue DEF TimerKnowsItsDeadlines
    <3>3. CASE ~quarantine
      <4>1. \A j \in Elements(pending) : wait'[j] = wait[j]
        BY <1>1, <3>1, <3>3, ActiveIsNotQueued, HeldJobs DEF WaitsWithout
      <4> QED BY <3>1, <3>3, <4>1, TimerSleepsOn DEF IsExecution
    <3> QED BY <3>2, <3>3
  <2> QED BY <1>1, <2>1, <2>2 DEF CompleteNativeAction
<1>2. CASE HostDispatches
  BY <1>2, TimerSleepsOn DEF HostDispatches, schedulerVars, jobVars, timerVars, IsExecution
<1>3. CASE ScheduleNext
  BY <1>3, TimerSleepsOn DEF ScheduleNext, jobVars, timerVars, IsExecution
<1>0. /\ \A result : RequiresQuarantine(result) \in BOOLEAN
      /\ \A result, observation : FinalizationQuarantines(result, observation) \in BOOLEAN
  BY DEF RequiresQuarantine, FinalizationQuarantines
<1>4. ASSUME NEW result, HostCompletes(result)
      PROVE  TimerKnowsItsDeadlines'
  <2>1. active # NoJob
    BY <1>4 DEF HostCompletes, Typed, ActiveIsOwned
  <2> QED BY <1>0, <1>1, <1>4, <2>1 DEF HostCompletes
<1>5. ASSUME NEW result, FinalizeHistory(result)
      PROVE  TimerKnowsItsDeadlines'
  <2>1. active # NoJob
    BY <1>5 DEF FinalizeHistory, Typed, ActiveIsOwned
  <2> QED BY <1>0, <1>1, <1>5, <2>1 DEF FinalizeHistory
<1>6. ASSUME NEW result, NEW observation, FinalizeExecution(result, observation)
      PROVE  TimerKnowsItsDeadlines'
  <2>1. active # NoJob
    BY <1>6 DEF FinalizeExecution, Driving, Typed, ActiveIsOwned
  <2> QED BY <1>0, <1>1, <1>6, <2>1 DEF FinalizeExecution
<1>7. ASSUME NEW observation, FinalizerNotScheduled(observation)
      PROVE  TimerKnowsItsDeadlines'
  <2> DEFINE lost == "DocumentContextRestoreFailed"
  <2>1. active # NoJob
    BY <1>7 DEF FinalizerNotScheduled, Typed, ActiveIsOwned
  <2>2. \/ CompleteNativeAction(FinalizationKind(lost, observation),
                                FinalizationQuarantines(lost, observation))
        \/ CompleteNativeAction(lost, RequiresQuarantine(lost))
    BY <1>7 DEF FinalizerNotScheduled
  <2> QED BY <1>0, <1>1, <2>1, <2>2
<1> QED BY <1>2, <1>3, <1>4, <1>5, <1>6, <1>7 DEF HostActs, DispatchEnds

LEMMA WakeKeepsTimer ==
  ASSUME Typed, TimerKnowsItsDeadlines, NEW thread \in Threads, Wake(thread)
  PROVE  TimerKnowsItsDeadlines'
<1>1. CASE WakeAccepted(thread) \/ WakeRefused(thread)
  BY <1>1, TimerSleepsOn
     DEF WakeAccepted, WakeRefused, schedulerVars, jobVars, timerVars, IsExecution
<1>2. CASE WakeFailed(thread)
  BY <1>2, TimerLooksAgain DEF WakeFailed
<1> QED BY <1>1, <1>2 DEF Wake

LEMMA TimerKeepsTimer ==
  ASSUME Typed, Accounted, TimerKnowsItsDeadlines, TimerDriver
  PROVE  TimerKnowsItsDeadlines'
<1>1. CASE TimerSleeps
  <2>1. PICK d \in 0..Never : IsNextTimerDeadline(d) /\ timer'.target = d
    BY <1>1 DEF TimerSleeps
  <2>2. UNCHANGED <<pending, kind, wait, permit>>
    BY <1>1 DEF TimerSleeps, schedulerVars, jobVars
  <2>3. ASSUME NEW j \in Elements(pending)
        PROVE  /\ d <= wait[j].left
               /\ Deferred(j) => d <= wait[j].retry
    <3>1. wait[j].left \in Deadlines
      BY DEF Deadlines
    <3>2. Deferred(j) => j = Head(pending)
      BY HeldJobs DEF Accounted, OnlyHeadDeferred
    <3>3. Deferred(j) => wait[j].retry \in Deadlines
      BY <3>2 DEF Deadlines
    <3> QED BY <2>1, <3>1, <3>3 DEF IsNextTimerDeadline
  <2> QED BY <2>1, <2>2, <2>3 DEF TimerKnowsItsDeadlines, Deferred
<1>2. CASE TimerNotified \/ TimerFires
  <2>1. timer' = [state |-> "computing", target |-> Never]
    BY <1>2 DEF TimerNotified, TimerFires, Recompute
  <2>2. timer'.state # "sleeping"
    BY <2>1
  <2> QED BY <2>2, TimerLooksAgain
<1> QED BY <1>1, <1>2 DEF TimerDriver

LEMMA EnvironmentKeepsTimer ==
  ASSUME Typed, TimerKnowsItsDeadlines,
         Tick \/ Stop \/ ServerShutsDown \/ NativeStateMayBeReady
  PROVE  TimerKnowsItsDeadlines'
<1>1. CASE Tick
  <2>1. UNCHANGED <<pending, kind, permit>>
    BY <1>1 DEF Tick, schedulerVars
  <2>2. /\ timer'.state = timer.state
        /\ timer'.target = IF timer.target = Never THEN Never ELSE Ticked(timer.target)
    BY <1>1 DEF Tick, Typed, TypeOK
  <2>3. ASSUME NEW j \in JobIds
        PROVE  /\ wait'[j].state = wait[j].state
               /\ wait'[j].left = Ticked(wait[j].left)
               /\ wait'[j].retry = Ticked(wait[j].retry)
               /\ wait[j].left \in 0..ReadinessTimeout
               /\ wait[j].retry \in 0..ReadinessTimeout
    <3>1. wait'[j] = Aged(wait[j]) /\ wait[j] \in WaitStates
      BY <1>1 DEF Tick, Typed, TypeOK
    <3> QED BY <3>1 DEF Aged, WaitStates
  <2>4. timer.target \in 0..Never /\ ReadinessTimeout \in Nat
    BY Bounds DEF Typed, TypeOK
  <2>5. ASSUME NEW left \in 0..ReadinessTimeout, timer.target <= left
        PROVE  timer'.target <= Ticked(left)
    <3>1. timer.target # Never
      BY <2>4, <2>5 DEF Never
    <3>2. timer'.target = Ticked(timer.target)
      BY <2>2, <3>1
    <3>3. Ticked(timer.target) <= Ticked(left)
      BY <2>4, <2>5 DEF Ticked
    <3> QED BY <3>2, <3>3
  <2> SUFFICES ASSUME timer.state = "sleeping", ~permit, NEW j \in Elements(pending),
                      IsExecution(j) \/ wait[j].state # "Queued"
               PROVE  /\ timer'.target <= wait'[j].left
                      /\ Deferred(j)' => timer'.target <= wait'[j].retry
    BY <2>1, <2>2, <2>3, HeldJobs DEF TimerKnowsItsDeadlines, IsExecution
  <2>6. j \in JobIds
    BY HeldJobs
  <2>7. timer.target <= wait[j].left /\ (Deferred(j) => timer.target <= wait[j].retry)
    BY DEF TimerKnowsItsDeadlines
  <2>8. Deferred(j)' => Deferred(j)
    BY <2>3, <2>6 DEF Deferred
  <2> QED BY <2>3, <2>5, <2>6, <2>7, <2>8
<1>2. CASE Stop \/ NativeStateMayBeReady
  BY <1>2, TimerLooksAgain DEF Stop, NativeStateMayBeReady
<1>3. CASE ServerShutsDown
  BY <1>3, TimerLooksAgain DEF ServerShutsDown
<1> QED BY <1>1, <1>2, <1>3

\* The timer driver never sleeps past a deadline it was told of.
THEOREM TimerIsInTime == Spec => []TimerKnowsItsDeadlines
<1>1. Init => TimerKnowsItsDeadlines
  BY DEF Init, TimerKnowsItsDeadlines
<1>2. Inv /\ TimerKnowsItsDeadlines /\ [Next]_vars => TimerKnowsItsDeadlines'
  <2> SUFFICES ASSUME Inv, TimerKnowsItsDeadlines, [Next]_vars
               PROVE  TimerKnowsItsDeadlines'
    OBVIOUS
  <2>1. CASE UNCHANGED vars
    BY <2>1, TimerSleepsOn DEF Inv, vars, schedulerVars, jobVars, timerVars, IsExecution
  <2>2. CASE DriverAdvances
    <3>1. UNCHANGED <<pending, kind, wait, timer, permit>>
      BY <2>2 DEF DriverAdvances, DriverTakesStep, DriverCompletesStep, DriverAbandons, Drive,
                  schedulerVars, timerVars
    <3> QED BY <3>1, TimerSleepsOn DEF Inv, IsExecution
  <2>3. CASE Next /\ ~DriverAdvances
    BY <2>3, RequestKeepsTimer, TakeKeepsTimer, HostKeepsTimer, WakeKeepsTimer,
       TimerKeepsTimer, EnvironmentKeepsTimer DEF Next, Inv
  <2> QED BY <2>1, <2>2, <2>3
<1> QED BY <1>1, <1>2, Invariance, PTL DEF Spec

-----------------------------------------------------------------------------
(***************************************************************************)
(* The mutation scheduler implements serial mutations, for every value of  *)
(* its constants.  The invariant makes what a caller sees of a job a       *)
(* function of the queue, the active job and the next id, so that a step   *)
(* is judged by what it does to these three.                               *)
(***************************************************************************)

Halted == stopping \/ quarantined

StateOf(j) ==
  IF nextId <= j THEN "new"
  ELSE IF j = active THEN "running"
  ELSE IF j \in Elements(pending) THEN "queued"
  ELSE "answered"

LEMMA JobStateIs == Inv => \A j \in JobIds : JobState(j) = StateOf(j)
<1> SUFFICES ASSUME Inv, NEW j \in JobIds PROVE JobState(j) = StateOf(j)
  OBVIOUS
<1>1. answer[j] = "unsubmitted" <=> nextId <= j
  BY DEF Inv, Accounted, JobsSubmittedInOrder
<1>2. answer[j] = "waiting" <=> j = active \/ j \in Elements(pending)
  BY JobIdsAreNumbers DEF Inv, Accounted, JobsAccountedFor, Held
<1> QED BY <1>1, <1>2 DEF JobState, StateOf

LEMMA NextJobStateIs == Inv' => \A j \in JobIds : JobState(j)' = StateOf(j)'
<1> SUFFICES ASSUME Inv', NEW j \in JobIds PROVE JobState(j)' = StateOf(j)'
  OBVIOUS
<1>1. answer'[j] = "unsubmitted" <=> nextId' <= j
  BY DEF Inv, Accounted, JobsSubmittedInOrder
<1>2. answer'[j] = "waiting" <=> j = active' \/ j \in Elements(pending')
  BY JobIdsAreNumbers DEF Inv, Accounted, JobsAccountedFor, Held
<1> QED BY <1>1, <1>2 DEF JobState, StateOf

-----------------------------------------------------------------------------
(***************************************************************************)
(* The abstract state.                                                     *)
(***************************************************************************)
LEMMA Moves ==
  ASSUME Inv, Inv', NEW jobs, NEW to,
         \A j \in JobIds : StateOf(j)' = IF j \in jobs THEN to ELSE StateOf(j)
  PROVE  Serial!Move(jobs, to)
  BY JobStateIs, NextJobStateIs DEF Serial!Move

LEMMA JobsIn ==
  ASSUME Inv, NEW s
  PROVE  Serial!In(s) = {j \in JobIds : StateOf(j) = s}
  BY JobStateIs DEF Serial!In

LEMMA QueuedAndRunning ==
  ASSUME Inv
  PROVE  /\ Serial!In("queued") = Elements(pending)
         /\ Serial!In("running") = IF active = NoJob THEN {} ELSE {active}
         /\ \A j \in JobIds : j \in Serial!In("new") <=> nextId <= j
<1>1. /\ \A j \in Elements(pending) : j \in JobIds /\ ~(nextId <= j) /\ j # active
      /\ active # NoJob => active \in JobIds /\ ~(nextId <= active)
  BY HeldJobs, HeldAreSubmitted DEF Inv, Held, Accounted, JobsAccountedFor
<1> QED BY <1>1, JobsIn, JobIdsAreNumbers DEF StateOf

LEMMA NothingHappens ==
  ASSUME Inv, Inv', UNCHANGED <<nextId, pending, active, stopping, quarantined>>
  PROVE  UNCHANGED Serial!vars
<1>1. \A j \in JobIds : JobState(j)' = JobState(j)
  BY JobStateIs, NextJobStateIs DEF StateOf
<1> QED BY <1>1 DEF Serial!vars

-----------------------------------------------------------------------------
(***************************************************************************)
(* What the steps that move a job are to a caller.                         *)
(***************************************************************************)
LEMMA JobIsAdmitted ==
  ASSUME Inv, Inv', nextId \in JobIds, nextId' = nextId + 1, ~Halted,
         UNCHANGED <<active, stopping, quarantined>>,
         NEW to \in {"queued", "answered"},
         Elements(pending') = Elements(pending) \cup (IF to = "queued" THEN {nextId} ELSE {})
  PROVE  Serial!Next
<1>1. \A j \in JobIds : j \in Nat /\ nextId \in Nat
  BY JobIdsAreNumbers
<1>2. active # nextId /\ nextId \notin Elements(pending)
  BY HeldAreSubmitted, JobIdsAreNumbers, <1>1 DEF Inv, Held
<1>3. Serial!Move({nextId}, to)
  <2> SUFFICES ASSUME NEW j \in JobIds
               PROVE  StateOf(j)' = IF j \in {nextId} THEN to ELSE StateOf(j)
    BY Moves
  <2>1. nextId' <= j <=> nextId <= j /\ j # nextId
    BY <1>1
  <2> QED BY <1>1, <1>2, <2>1 DEF StateOf
<1>4. nextId \in Serial!In("new") /\ \A k \in JobIds : k < nextId => k \notin Serial!In("new")
  BY <1>1, QueuedAndRunning
<1>5. Serial!Admit(nextId, to)
  BY <1>3, <1>4 DEF Serial!Admit, Halted
<1> QED BY <1>5 DEF Serial!Next

LEMMA JobsAreWithdrawn ==
  ASSUME Inv, Inv', UNCHANGED <<nextId, active, stopping, quarantined>>,
         Elements(pending') \subseteq Elements(pending)
  PROVE  Serial!Next \/ UNCHANGED Serial!vars
<1> DEFINE gone == Elements(pending) \ Elements(pending')
<1>1. Serial!Move(gone, "answered")
  <2> SUFFICES ASSUME NEW j \in JobIds
               PROVE  StateOf(j)' = IF j \in gone THEN "answered" ELSE StateOf(j)
    BY Moves
  <2>1. j \in gone => j # active /\ ~(nextId <= j)
    BY HeldAreSubmitted DEF Inv, Held, Accounted, JobsAccountedFor
  <2> QED BY <2>1 DEF StateOf
<1>2. gone \subseteq Serial!In("queued") /\ gone \in SUBSET JobIds
  BY QueuedAndRunning, HeldJobs DEF Inv
<1>3. CASE gone = {}
  BY <1>1, <1>3, Zenon DEF Serial!Move, Serial!vars
<1>4. CASE gone # {}
  <2>1. Serial!Withdraw(gone)
    BY <1>1, <1>2, <1>4 DEF Serial!Withdraw
  <2> QED BY <1>2, <2>1 DEF Serial!Next
<1> QED BY <1>3, <1>4

LEMMA HeadIsStarted ==
  ASSUME Inv, Inv', ~Halted, active = NoJob, pending # <<>>,
         active' = Head(pending), pending' = Tail(pending),
         UNCHANGED <<nextId, stopping, quarantined>>
  PROVE  Serial!Next
<1>1. /\ Head(pending) \in Elements(pending) /\ Head(pending) \in JobIds
      /\ Elements(pending') = Elements(pending) \ {Head(pending)}
      /\ \A k \in Elements(pending) : Head(pending) <= k
  BY QueueWithoutHead, HeldJobs
     DEF Inv, Typed, TypeOK, Accounted, QueueInAdmissionOrder
<1>2. Serial!Move({Head(pending)}, "running")
  <2> SUFFICES ASSUME NEW j \in JobIds
               PROVE  StateOf(j)' = IF j \in {Head(pending)} THEN "running" ELSE StateOf(j)
    BY Moves
  <2>1. ~(nextId <= Head(pending)) /\ j # active
    BY <1>1, HeldAreSubmitted, JobIdsAreNumbers DEF Inv, Held
  <2> QED BY <1>1, <2>1 DEF StateOf
<1>3. Serial!Start(Head(pending))
  BY <1>1, <1>2, QueuedAndRunning DEF Serial!Start, Halted
<1> QED BY <1>1, <1>3 DEF Serial!Next

LEMMA ActiveIsCompleted ==
  ASSUME Inv, Inv', active # NoJob, NEW result, NEW quarantine \in BOOLEAN,
         CompleteNativeAction(result, quarantine)
  PROVE  Serial!Next
<1>1. /\ active \in JobIds /\ ~(nextId <= active) /\ active \notin Elements(pending)
      /\ active \in Serial!In("running")
  BY HeldJobs, HeldAreSubmitted, QueuedAndRunning
     DEF Inv, Held, Accounted, JobsAccountedFor
<1>2. CASE DeferActive
  <2>1. Elements(pending') = Elements(pending) \cup {active} /\ active' = NoJob
    BY <1>1, <1>2, QueueWithFirst
       DEF DeferActive, Inv, Typed, TypeOK, Accounted, QueueInAdmissionOrder
  <2>2. Serial!Move({active}, "queued")
    <3> SUFFICES ASSUME NEW j \in JobIds
                 PROVE  StateOf(j)' = IF j \in {active} THEN "queued" ELSE StateOf(j)
      BY Moves
    <3> QED BY <1>1, <1>2, <2>1, JobIdsAreNumbers DEF StateOf, DeferActive
  <2>3. Serial!Postpone(active)
    BY <1>1, <1>2, <2>2 DEF Serial!Postpone, DeferActive
  <2> QED BY <1>1, <2>3 DEF Serial!Next
<1>3. CASE AnswerActive(result, quarantine) /\ ~quarantine
  <2>1. /\ UNCHANGED <<nextId, pending, stopping>> /\ active' = NoJob
        /\ quarantined' = quarantined
    BY <1>3 DEF AnswerActive, Inv, Typed, TypeOK
  <2>2. Serial!Move({active}, "answered")
    <3> SUFFICES ASSUME NEW j \in JobIds
                 PROVE  StateOf(j)' = IF j \in {active} THEN "answered" ELSE StateOf(j)
      BY Moves
    <3> QED BY <1>1, <2>1, JobIdsAreNumbers DEF StateOf
  <2>3. Serial!Finish(active)
    BY <1>1, <2>1, <2>2 DEF Serial!Finish
  <2> QED BY <1>1, <2>3 DEF Serial!Next
<1>4. CASE AnswerActive(result, quarantine) /\ quarantine
  <2> DEFINE gone == Elements(pending) \cup {active}
  <2>1. UNCHANGED <<nextId, stopping>> /\ active' = NoJob /\ pending' = <<>> /\ quarantined'
    BY <1>4 DEF AnswerActive
  <2>2. Serial!Move(gone, "answered")
    <3> SUFFICES ASSUME NEW j \in JobIds
                 PROVE  StateOf(j)' = IF j \in gone THEN "answered" ELSE StateOf(j)
      BY Moves
    <3>1. j \in gone => ~(nextId <= j)
      BY <1>1, HeldAreSubmitted DEF Inv, Held
    <3>2. Elements(pending') = {}
      BY <2>1 DEF Elements
    <3> QED BY <2>1, <3>1, <3>2, JobIdsAreNumbers DEF StateOf
  <2>3. Serial!Halt(gone)
    BY <1>1, <2>1, <2>2, QueuedAndRunning DEF Serial!Halt
  <2>4. gone \in SUBSET JobIds
    BY <1>1, HeldJobs DEF Inv
  <2> QED BY <2>3, <2>4 DEF Serial!Next
<1> QED BY <1>2, <1>3, <1>4 DEF CompleteNativeAction

-----------------------------------------------------------------------------
(***************************************************************************)
(* The actions.                                                            *)
(***************************************************************************)
LEMMA RequestRefines ==
  ASSUME Inv, Inv', Request
  PROVE  Serial!Next \/ UNCHANGED Serial!vars
<1>1. ASSUME Admits
      PROVE  nextId \in JobIds /\ ~Halted
  BY <1>1, SchedulerAssumption DEF Admits, Inv, Typed, TypeOK, JobIds, Halted
<1>2. ASSUME NEW k, NEW e, Admits, Enqueue(k, e)
      PROVE  Serial!Next
  <2>1. nextId \in Nat /\ \A j \in Elements(pending) : j < nextId
    BY JobIdsAreNumbers DEF Inv, Typed, TypeOK, Accounted, QueueInAdmissionOrder, Held
  <2>2. Elements(pending') = Elements(pending) \cup {nextId}
    BY <1>1, <1>2, <2>1, QueueWithLast
       DEF Enqueue, Inv, Typed, TypeOK, Accounted, QueueInAdmissionOrder
  <2> QED BY <1>1, <1>2, <2>2, JobIsAdmitted DEF Enqueue
<1>3. CASE \E k \in Kinds \ {"execution"} : SubmitOperation(k)
  BY <1>2, <1>3 DEF SubmitOperation
<1>4. CASE \E mode \in Modes, forms \in 1..MaxForms : AdmitExecution(mode, forms)
  BY <1>2, <1>4 DEF AdmitExecution
<1>5. CASE AdmitEmptyExecution
  BY <1>1, <1>5, JobIsAdmitted DEF AdmitEmptyExecution
<1>6. CASE \E j \in JobIds : CancelActive(j)
  BY <1>6, NothingHappens DEF CancelActive, schedulerVars
<1>7. ASSUME NEW j \in JobIds, CancelPending(j)
      PROVE  Serial!Next \/ UNCHANGED Serial!vars
  <2>1. Elements(pending') = Elements(pending) \ {j}
    BY <1>7, QueueWithout
       DEF CancelPending, Inv, Typed, TypeOK, Accounted, QueueInAdmissionOrder
  <2> QED BY <1>7, <2>1, JobsAreWithdrawn DEF CancelPending
<1> QED BY <1>3, <1>4, <1>5, <1>6, <1>7 DEF Request

LEMMA TakeRefines ==
  ASSUME Inv, Inv', TakeNativeAction
  PROVE  Serial!Next \/ UNCHANGED Serial!vars
<1>1. CASE TakeIdle
  BY <1>1, NothingHappens DEF TakeIdle
<1>2. ASSUME NEW a, TakeAndAnswer(a)
      PROVE  Serial!Next \/ UNCHANGED Serial!vars
  <2>1. Elements(pending') \subseteq Elements(pending)
    BY <1>2, QueueWithoutHead
       DEF TakeAndAnswer, MayIssue, WakeDue, Inv, Typed, TypeOK, Accounted, QueueInAdmissionOrder
  <2> QED BY <1>2, <2>1, JobsAreWithdrawn DEF TakeAndAnswer
<1>3. CASE TakeExpired \/ TakeImmediate
  BY <1>2, <1>3 DEF TakeExpired, TakeImmediate
<1>4. CASE TakeAndIssue
  BY <1>4, HeadIsStarted DEF TakeAndIssue, MayIssue, WakeDue, Halted
<1> QED BY <1>1, <1>3, <1>4 DEF TakeNativeAction

LEMMA HostRefines ==
  ASSUME Inv, Inv', HostActs \/ ScheduleNext \/ DispatchEnds
  PROVE  Serial!Next \/ UNCHANGED Serial!vars
<1>1. main = "acting" \/ dispatched => active # NoJob
  BY DEF Inv, Accounted, HostOwnsActive
<1>2. ASSUME NEW result, NEW observation
      PROVE  /\ RequiresQuarantine(result) \in BOOLEAN
             /\ FinalizationQuarantines(result, observation) \in BOOLEAN
  BY DEF RequiresQuarantine, FinalizationQuarantines
<1>3. CASE HostDispatches \/ ScheduleNext
  BY <1>3, NothingHappens DEF HostDispatches, ScheduleNext, schedulerVars
<1>4. CASE \E result \in NativeResults : HostCompletes(result)
  BY <1>1, <1>2, <1>4, ActiveIsCompleted DEF HostCompletes
<1>5. CASE \E result \in DispatchResults("history") : FinalizeHistory(result)
  BY <1>1, <1>2, <1>5, ActiveIsCompleted DEF FinalizeHistory
<1>6. CASE \E result \in DispatchResults("execution"), observation \in Observations :
             FinalizeExecution(result, observation)
  BY <1>1, <1>2, <1>6, ActiveIsCompleted DEF FinalizeExecution, Driving
<1>7. CASE \E observation \in Observations : FinalizerNotScheduled(observation)
  BY <1>1, <1>2, <1>7, ActiveIsCompleted DEF FinalizerNotScheduled
<1> QED BY <1>3, <1>4, <1>5, <1>6, <1>7 DEF HostActs, DispatchEnds

LEMMA WakeRefines ==
  ASSUME Inv, Inv', NEW thread \in Threads, Wake(thread)
  PROVE  Serial!Next \/ UNCHANGED Serial!vars
<1>1. CASE WakeAccepted(thread) \/ WakeRefused(thread)
  BY <1>1, NothingHappens DEF WakeAccepted, WakeRefused, schedulerVars
<1>2. CASE WakeFailed(thread)
  <2>1. CASE pending' = pending
    BY <1>2, <2>1, NothingHappens DEF WakeFailed
  <2>2. CASE pending' # pending
    <3>1. pending # <<>> /\ pending' = Tail(pending)
      BY <1>2, <2>2 DEF WakeFailed
    <3>2. Elements(pending') \subseteq Elements(pending)
      BY <3>1, QueueWithoutHead DEF Inv, Typed, TypeOK, Accounted, QueueInAdmissionOrder
    <3> QED BY <1>2, <3>2, JobsAreWithdrawn DEF WakeFailed
  <2> QED BY <2>1, <2>2
<1> QED BY <1>1, <1>2 DEF Wake

LEMMA TimerRefines ==
  ASSUME Inv, Inv', TimerDriver
  PROVE  Serial!Next \/ UNCHANGED Serial!vars
<1>1. CASE TimerSleeps \/ TimerNotified
  BY <1>1, NothingHappens DEF TimerSleeps, TimerNotified, schedulerVars
<1>2. CASE TimerFires
  <2>1. Elements(pending') \subseteq Elements(pending)
    BY <1>2, QueueWithout
       DEF TimerFires, Inv, Typed, TypeOK, Accounted, QueueInAdmissionOrder
  <2> QED BY <1>2, <2>1, JobsAreWithdrawn DEF TimerFires
<1> QED BY <1>1, <1>2 DEF TimerDriver

LEMMA StopRefines ==
  ASSUME Inv, Inv', Stop
  PROVE  Serial!Next
<1>1. /\ UNCHANGED <<nextId, active, quarantined>>
      /\ Elements(pending') = {}
      /\ stopping'
  BY EmptyQueue DEF Stop
<1>2. Serial!Move(Elements(pending), "answered")
  <2> SUFFICES ASSUME NEW j \in JobIds
               PROVE  StateOf(j)' = IF j \in Elements(pending) THEN "answered" ELSE StateOf(j)
    BY Moves
  <2>1. j \in Elements(pending) => j # active /\ ~(nextId <= j)
    BY HeldAreSubmitted DEF Inv, Held, Accounted, JobsAccountedFor
  <2> QED BY <1>1, <2>1 DEF StateOf
<1>3. Serial!Halt(Elements(pending))
  BY <1>1, <1>2, QueuedAndRunning DEF Serial!Halt
<1> QED BY <1>3, HeldJobs DEF Inv, Serial!Next

LEMMA OthersRefine ==
  ASSUME Inv, Inv',
         DriverAdvances \/ NativeStateMayBeReady \/ Tick \/ ServerShutsDown \/ UNCHANGED vars
  PROVE  UNCHANGED Serial!vars
<1>1. UNCHANGED <<nextId, pending, active, stopping, quarantined>>
  BY DEF DriverAdvances, DriverTakesStep, DriverCompletesStep, DriverAbandons, Drive,
         NativeStateMayBeReady, Tick, ServerShutsDown, vars, schedulerVars
<1> QED BY <1>1, NothingHappens

-----------------------------------------------------------------------------
LEMMA InitRefines == Init => Serial!Init
  BY SchedulerAssumption DEF Init, Serial!Init, JobState

LEMMA StepRefines ==
  Inv /\ Inv' /\ [Next]_vars => [Serial!Next]_(Serial!vars)
<1> SUFFICES ASSUME Inv, Inv', [Next]_vars
             PROVE  Serial!Next \/ UNCHANGED Serial!vars
  OBVIOUS
<1> QED BY RequestRefines, TakeRefines, HostRefines, WakeRefines, TimerRefines, StopRefines,
           OthersRefine DEF Next

\* The scheduler implements serial mutations: whatever wakes, refusals, timers,
\* cancels, busy answers, quarantines and stops do to the queue, a caller sees
\* jobs that start one at a time and in the order of their admission, and none
\* that starts after the end.
THEOREM ImplementsSerialMutations == Spec => SerialSpec
  BY Invariance, InitRefines, StepRefines, PTL DEF Spec, SerialSpec, Serial!Spec
=============================================================================
