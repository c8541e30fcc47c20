-------------------------- MODULE ExecDriverProofs --------------------------
(***************************************************************************)
(* What the document-context dispatch keeps, for every number of           *)
(* dispatches and cancellations: the types, the one finalizer, the clean   *)
(* drawing it ends with, the document it gives back, and the truth of what *)
(* the client is told where no form escapes the undo group.                *)
(***************************************************************************)
EXTENDS ExecDriver, TLAPS

-----------------------------------------------------------------------------
(***************************************************************************)
(* Exec: every method of an execution yields an execution.                 *)
(***************************************************************************)
\* The names a method writes are members of the sets that type them.
LEMMA Names ==
  /\ {"BeginUndoGroup", "BetweenForms", "EmitEvalValue", "ClearRetainedEvalValue",
      "CloseEmptyUndoGroup", "RollbackUndoGroup", "Terminal", "Done"} \subseteq Phases
  /\ AwaitedSteps \subseteq Phases
  /\ Failures \subseteq Outcomes \cup {"none"}
  /\ UnwindCauses \subseteq Outcomes \cup {"none"}
  /\ {"Success", "Cancelled", "Committed", "RolledBack", "NotStarted", "Unknown"}
       \subseteq Outcomes \cup {"none"}
  /\ {"Cancelled", "NotStarted", "Unknown", "none"} \subseteq UnwindCauses \cup {"none"}
  BY DEF Phases, AwaitedSteps, Outcomes, Failures, UnwindCauses

\* A record changed in its unwind, phase and outcome is an execution again.
LEMMA Rewritten ==
  ASSUME NEW e \in Executions, NEW u \in UnwindCauses \cup {"none"}, NEW p \in Phases,
         NEW o \in Outcomes \cup {"none"}
  PROVE  /\ [e EXCEPT !.unwind = u, !.phase = p] \in Executions
         /\ [e EXCEPT !.outcome = o, !.phase = p] \in Executions
         /\ [e EXCEPT !.outcome = o, !.unwind = u, !.phase = p] \in Executions
         /\ [e EXCEPT !.phase = p] \in Executions
         /\ [e EXCEPT !.unwind = u] \in Executions
  BY DEF Executions

\* The parts of an execution.
LEMMA Fields ==
  ASSUME NEW e \in Executions
  PROVE  /\ e.mode \in ExecModes
         /\ e.forms \in 0..MaxForms
         /\ e.phase \in Phases
         /\ e.handedOff \in BOOLEAN
         /\ e.retained \in BOOLEAN
         /\ e.cancel \in BOOLEAN
         /\ e.unwind \in UnwindCauses \cup {"none"}
         /\ e.outcome \in Outcomes \cup {"none"}
  BY DEF Executions

\* A new execution is one.
LEMMA NewExecutionType ==
  ASSUME NEW mode \in ExecModes, NEW forms \in 0..MaxForms
  PROVE  NewExecution(mode, forms) \in Executions
  BY Names DEF NewExecution, Executions

\* So is what is left of one that was moved out,
LEMMA DroppedType == Dropped \in Executions
<1>1. NewExecution("Exec", 0) \in Executions
  BY NewExecutionType, MaxFormsAssumption DEF ExecModes
<1> QED BY <1>1, Rewritten, Names DEF Dropped

\* one that was asked to cancel,
LEMMA RequestCancelType ==
  ASSUME NEW e \in Executions
  PROVE  RequestCancel(e) \in Executions
  BY DEF RequestCancel, Executions

\* one that expired before it started,
LEMMA ExpireType ==
  ASSUME NEW e \in Executions
  PROVE  ExpireBeforeStart(e) \in Executions
  BY Rewritten, Names DEF ExpireBeforeStart

\* one that unwinds,
LEMMA BeginUnwindType ==
  ASSUME NEW e \in Executions, NEW cause \in UnwindCauses
  PROVE  BeginUnwind(e, cause) \in Executions
  BY Rewritten, Names DEF BeginUnwind

\* one whose next step was taken,
LEMMA TakeStepType ==
  ASSUME NEW e \in Executions
  PROVE  TakeStep(e) \in Executions
<1>1. Settled(e) \in Executions
  BY Rewritten, BeginUnwindType, Names DEF Settled, UnwindCauses
<1>2. ASSUME NEW s \in Executions PROVE Issue(s) \in Executions
  <2>1. CASE s.phase \in DOMAIN IssuedPhase
    <3>1. IssuedPhase[s.phase] \in Phases
      BY <2>1 DEF IssuedPhase, Phases, AwaitedSteps
    <3>2. [s EXCEPT !.phase = IssuedPhase[s.phase]] \in Executions
      BY <3>1 DEF Executions
    <3>3. Issue(s) = [s EXCEPT !.phase = IssuedPhase[s.phase]]
      <4>1. s.phase # "BetweenForms"
        BY <2>1 DEF IssuedPhase
      <4> QED BY <2>1, <4>1 DEF Issue
    <3> QED BY <3>2, <3>3
  <2>2. CASE s.phase = "BetweenForms" /\ s.forms > 0
    <3>1. "BetweenForms" \notin DOMAIN IssuedPhase
      BY DEF IssuedPhase
    <3>2. s.forms - 1 \in 0..MaxForms /\ "AwaitingEvaluateForm" \in Phases
      BY <2>2, Fields, MaxFormsAssumption DEF Phases, AwaitedSteps
    <3>3. [s EXCEPT !.phase = "AwaitingEvaluateForm", !.forms = s.forms - 1,
                    !.handedOff = TRUE] \in Executions
      BY <3>2 DEF Executions
    <3> QED BY <2>2, <3>1, <3>3 DEF Issue
  <2>3. CASE s.phase = "BetweenForms" /\ s.forms = 0
    <3>1. "BetweenForms" \notin DOMAIN IssuedPhase
      BY DEF IssuedPhase
    <3>2. "AwaitingCommitUndoGroup" \in Phases
      BY DEF Phases, AwaitedSteps
    <3>3. [s EXCEPT !.phase = "AwaitingCommitUndoGroup"] \in Executions
      BY <3>2 DEF Executions
    <3>4. ~(s.forms > 0)
      BY <2>3
    <3> QED BY <2>3, <3>1, <3>3, <3>4 DEF Issue
  <2>4. CASE s.phase \notin DOMAIN IssuedPhase /\ s.phase # "BetweenForms"
    BY <2>4 DEF Issue
  <2>5. s.forms > 0 \/ s.forms = 0
    BY Fields, MaxFormsAssumption
  <2> QED BY <2>1, <2>2, <2>3, <2>4, <2>5
<1> QED BY <1>1, <1>2 DEF TakeStep

\* one whose step was completed,
LEMMA CompleteStepType ==
  ASSUME NEW e \in Executions, NEW r \in StepResults
  PROVE  CompleteStep(e, r) \in Executions
<1>1. UndoGroupBegun(e, r) \in Executions
  <2>1. (IF e.unwind \in Failures THEN e.unwind ELSE "NotStarted") \in Outcomes \cup {"none"}
    BY Fields, Names
  <2> QED BY <2>1, Rewritten, Names, Fields DEF UndoGroupBegun
<1>2. FormEvaluated(e, r) \in Executions
  <2> DEFINE kept == [e EXCEPT !.retained = e.retained \/ (e.mode = "Eval" /\ r # "failed")]
  <2>1. kept \in Executions
    BY DEF Executions
  <2> HIDE DEF kept
  <2>2. /\ BeginUnwind(kept, "Unknown") \in Executions
        /\ BeginUnwind(kept, "Cancelled") \in Executions
        /\ [kept EXCEPT !.phase = "BetweenForms"] \in Executions
    BY <2>1, BeginUnwindType, Rewritten, Names DEF UnwindCauses
  <2> QED BY <2>2, Fields DEF FormEvaluated, kept
<1>3. UndoGroupCommitted(e, r) \in Executions
  BY BeginUnwindType, Rewritten, Names, Fields DEF UndoGroupCommitted, ExecModes, UnwindCauses
<1>4. EvalValueEmitted(e, r) \in Executions
  <2>1. [e EXCEPT !.retained = FALSE, !.outcome = "Success", !.phase = "Terminal"] \in Executions
    BY Names DEF Executions
  <2> QED BY <2>1, Rewritten, Names DEF EvalValueEmitted
<1>5. RetainedValueCleared(e, r) \in Executions
  <2>1. [e EXCEPT !.retained = FALSE, !.phase = "RollbackUndoGroup"] \in Executions
    BY Names DEF Executions
  <2>2. (IF e.unwind \in Failures THEN e.unwind ELSE "Unknown") \in UnwindCauses \cup {"none"}
    BY Names, Fields
  <2> QED BY <2>1, <2>2, Rewritten, Names DEF RetainedValueCleared
<1>6. EmptyUndoGroupClosed(e, r) \in Executions
  <2>1. (IF r = "ok" THEN e.unwind ELSE "Unknown") \in Outcomes \cup {"none"}
    BY Names, Fields
  <2> QED BY <2>1, Rewritten, Names DEF EmptyUndoGroupClosed
<1>7. UndoGroupRolledBack(e, r) \in Executions
  <2> DEFINE o == CASE r # "ok" -> "Unknown"
                    [] r = "ok" /\ e.unwind = "Cancelled" -> "Cancelled"
                    [] r = "ok" /\ e.unwind # "Cancelled" -> "RolledBack"
  <2>1. o \in Outcomes \cup {"none"}
    BY Names
  <2> HIDE DEF o
  <2>2. [e EXCEPT !.outcome = o, !.unwind = "none", !.phase = "Terminal"] \in Executions
    BY <2>1, Rewritten, Names
  <2> QED BY <2>2 DEF UndoGroupRolledBack, o
<1> QED BY <1>1, <1>2, <1>3, <1>4, <1>5, <1>6, <1>7 DEF CompleteStep

\* and one that was abandoned.
LEMMA AbandonType ==
  ASSUME NEW e \in Executions
  PROVE  Abandon(e) \in Executions
<1>1. /\ (IF e.outcome = "none" THEN "none" ELSE e.unwind) \in UnwindCauses \cup {"none"}
      /\ (IF e.phase = "Done" THEN "Done" ELSE "Terminal") \in Phases
  BY Fields, Names
<1> QED BY <1>1, Rewritten, Names DEF Abandon

-----------------------------------------------------------------------------
(***************************************************************************)
(* Exec: every method keeps an execution consistent.  An outcome is        *)
(* concluded at the end and not before, an accepted cancel keeps the       *)
(* execution away from the commit and what follows it, and once a form was *)
(* handed off no cause or outcome says that nothing started.               *)
(***************************************************************************)
\* What an execution is, whatever was called on it.
Consistent(e) ==
  /\ e.phase \notin {"Terminal", "Done"} => e.outcome = "none"
  /\ e.cancel =>
       /\ e.outcome \notin {"Success", "Committed"}
       /\ e.phase \notin {"AwaitingCommitUndoGroup", "EmitEvalValue", "AwaitingEmitEvalValue"}
  /\ e.handedOff =>
       /\ e.phase \notin {"BeginUndoGroup", "AwaitingBeginUndoGroup"}
       /\ e.unwind # "NotStarted"
       /\ e.outcome # "NotStarted"
  /\ e.unwind # "none" => e.phase \notin {"BeginUndoGroup", "BetweenForms", "AwaitingEvaluateForm"}

\* A new execution is consistent.
LEMMA FreshIsConsistent ==
  /\ Consistent(Dropped)
  /\ \A mode, forms : Consistent(NewExecution(mode, forms))
  BY DEF Consistent, NewExecution, Dropped

\* It stays so when it is cancelled,
LEMMA CancelIsConsistent ==
  ASSUME NEW e \in Executions, Consistent(e)
  PROVE  /\ Consistent(RequestCancel(e))
         /\ Consistent(CancelBeforeStart(e))
<1>1. Consistent(RequestCancel(e))
  BY DEF Consistent, RequestCancel, CancelAccepted, Executions
<1>2. Consistent(CancelBeforeStart(e))
  BY DEF Consistent, CancelBeforeStart, CanCancelBeforeStart, Executions
<1> QED BY <1>1, <1>2

\* when it expires,
LEMMA ExpiryIsConsistent ==
  ASSUME NEW e \in Executions, Consistent(e)
  PROVE  Consistent(ExpireBeforeStart(e))
  BY DEF Consistent, ExpireBeforeStart, Expirable, Executions

\* when it is abandoned,
LEMMA AbandonIsConsistent ==
  ASSUME NEW e \in Executions, Consistent(e)
  PROVE  Consistent(Abandon(e))
  BY DEF Consistent, Abandon, Executions

\* when it unwinds,
LEMMA UnwindIsConsistent ==
  ASSUME NEW e \in Executions, Consistent(e), e.outcome = "none",
         NEW cause \in {"Cancelled", "Unknown"}
  PROVE  Consistent(BeginUnwind(e, cause))
  BY DEF Consistent, BeginUnwind, Executions

\* when its next step is taken,
LEMMA TakeStepIsConsistent ==
  ASSUME NEW e \in Executions, Consistent(e)
  PROVE  Consistent(TakeStep(e))
<1>1. Settled(e) \in Executions
  BY Rewritten, BeginUnwindType, Names DEF Settled, UnwindCauses
<1>2. /\ Consistent(Settled(e))
      /\ Settled(e).phase = "BetweenForms" => ~Settled(e).cancel
  <2>1. CASE e.phase = "BetweenForms" /\ e.cancel /\ e.handedOff
    BY <2>1 DEF Consistent, Settled, BeginUnwind, Executions
  <2>2. CASE ~(e.phase = "BetweenForms" /\ e.cancel /\ e.handedOff)
    BY <2>2 DEF Consistent, Settled, Executions
  <2> QED BY <2>1, <2>2
<1>3. ASSUME NEW s \in Executions, Consistent(s), s.phase = "BetweenForms" => ~s.cancel
      PROVE  Consistent(Issue(s))
  <2>1. CASE s.phase \in DOMAIN IssuedPhase
    <3>1. IssuedPhase[s.phase] \in Phases
      BY <2>1 DEF IssuedPhase, Phases, AwaitedSteps
    <3>2. Consistent([s EXCEPT !.phase = IssuedPhase[s.phase]])
      BY <1>3, <2>1, <3>1 DEF Consistent, IssuedPhase, Executions
    <3>3. s.phase # "BetweenForms"
      BY <2>1 DEF IssuedPhase
    <3> QED BY <2>1, <3>2, <3>3 DEF Issue
  <2>2. CASE s.phase \notin DOMAIN IssuedPhase
    BY <1>3, <2>2 DEF Consistent, Issue, Executions
  <2> QED BY <2>1, <2>2
<1> QED BY <1>1, <1>2, <1>3 DEF TakeStep

\* and when that is completed.
LEMMA CompleteStepIsConsistent ==
  ASSUME NEW e \in Executions, Consistent(e), NEW r \in StepResults
  PROVE  Consistent(CompleteStep(e, r))
<1>1. CASE e.phase = "AwaitingBeginUndoGroup"
  <2> DEFINE o == IF e.unwind \in Failures THEN e.unwind ELSE "NotStarted"
  <2>1. o \in {"NotStarted", "Unknown"}
    BY Fields DEF Failures, UnwindCauses
  <2> HIDE DEF o
  <2>2. Consistent([e EXCEPT !.outcome = o, !.unwind = "none", !.phase = "Terminal"])
    BY <1>1, <2>1 DEF Consistent, Executions
  <2>3. Consistent(UndoGroupBegun(e, r))
    BY <1>1, <2>2 DEF Consistent, UndoGroupBegun, Executions, o
  <2> QED BY <1>1, <2>3 DEF CompleteStep
<1>2. CASE e.phase = "AwaitingEvaluateForm"
  <2> DEFINE kept == [e EXCEPT !.retained = e.retained \/ (e.mode = "Eval" /\ r # "failed")]
  <2>1. kept \in Executions /\ Consistent(kept) /\ kept.phase = e.phase
    BY DEF Consistent, Executions
  <2>2. kept.outcome = "none" /\ kept.cancel = e.cancel
    BY <1>2 DEF Consistent, Executions
  <2> HIDE DEF kept
  <2>3. ~e.cancel => Consistent([kept EXCEPT !.phase = "BetweenForms"])
    BY <1>2, <2>1, <2>2 DEF Consistent, Executions
  <2>4. Consistent(BeginUnwind(kept, "Unknown")) /\ Consistent(BeginUnwind(kept, "Cancelled"))
    BY <2>1, <2>2, UnwindIsConsistent
  <2>5. Consistent(FormEvaluated(e, r))
    BY <2>3, <2>4, Fields DEF FormEvaluated, kept
  <2> QED BY <1>2, <2>5 DEF CompleteStep
<1>3. CASE e.phase = "AwaitingCommitUndoGroup"
  <2>1. Consistent(BeginUnwind(e, "Unknown"))
    BY <1>3, UnwindIsConsistent DEF Consistent
  <2>2. Consistent(UndoGroupCommitted(e, r))
    BY <1>3, <2>1, Fields DEF Consistent, UndoGroupCommitted, Executions, ExecModes
  <2> QED BY <1>3, <2>2 DEF CompleteStep
<1>4. CASE e.phase = "AwaitingEmitEvalValue"
  <2>1. Consistent(EvalValueEmitted(e, r))
    BY <1>4 DEF Consistent, EvalValueEmitted, Executions
  <2> QED BY <1>4, <2>1 DEF CompleteStep
<1>5. CASE e.phase = "AwaitingClearRetainedEvalValue"
  <2>1. Consistent(RetainedValueCleared(e, r))
    BY <1>5 DEF Consistent, RetainedValueCleared, Executions, Failures
  <2> QED BY <1>5, <2>1 DEF CompleteStep
<1>6. CASE e.phase = "AwaitingCloseEmptyUndoGroup"
  <2>1. Consistent(EmptyUndoGroupClosed(e, r))
    BY <1>6 DEF Consistent, EmptyUndoGroupClosed, Executions, UnwindCauses
  <2> QED BY <1>6, <2>1 DEF CompleteStep
<1>7. CASE e.phase = "AwaitingRollbackUndoGroup"
  <2>1. Consistent(UndoGroupRolledBack(e, r))
    BY <1>7 DEF Consistent, UndoGroupRolledBack, Executions
  <2> QED BY <1>7, <2>1 DEF CompleteStep
<1> QED BY <1>1, <1>2, <1>3, <1>4, <1>5, <1>6, <1>7 DEF CompleteStep

-----------------------------------------------------------------------------
(***************************************************************************)
(* What the host finds when it asks AutoCAD.                               *)
(***************************************************************************)
\* What an UNDO command may do, and what the host reads after it.
LEMMA UndoRunsFacts ==
  ASSUME TypeOK, NEW expected \in {"Active", "Inactive"}, NEW c \in UndoRuns(expected)
  PROVE  /\ c.undo \in {expected, undo}
         /\ c.undo \in {"Inactive", "Active"}
         /\ c.seen \in UndoGroupStates
         /\ c.ok \in BOOLEAN
         /\ c.seen \in {c.undo, "Unknown"}
         /\ c.ok => c.undo = expected /\ c.seen = expected
<1>1. PICK ran \in BOOLEAN, u \in {expected, undo}, seen \in UndoGroupStates :
        c = [undo |-> u, seen |-> seen, ok |-> ran /\ seen = expected]
  BY DEF UndoRuns, UndoCommands
<1> QED BY <1>1 DEF UndoRuns, TypeOK

\* What a rollback may do.  It is only a success where the group is seen to be
\* closed, and then the changes made inside the group are gone, provided that the
\* host does not hold an open group for a closed one.
LEMMA RollsBackFacts ==
  ASSUME TypeOK, NEW d \in Dispatches, NEW c \in RollsBack(d)
  PROVE  /\ c.undo \in {"Inactive", "Active"}
         /\ c.seen \in UndoGroupStates
         /\ c.ok \in BOOLEAN
         /\ c.changes \in {changes, "none"}
         /\ (undo = "Active" => d.undoGroup # "Inactive") =>
              /\ c.undo = "Active" => c.seen # "Inactive"
              /\ c.ok => c.undo = "Inactive" /\ c.seen = "Inactive"
              /\ c.ok /\ changes = "group" => c.changes = "none"
<1> DEFINE gone == [undo |-> undo, seen |-> d.undoGroup, ok |-> FALSE, changes |-> changes]
           ends == IF d.undoGroup = "Active" THEN UndoRuns("Inactive")
                   ELSE {[undo |-> undo, seen |-> d.undoGroup, ok |-> TRUE]}
           undone(b) == IF changes = "group" /\ b.undo = "Inactive" THEN "none" ELSE changes
           after(b) == IF b.seen # "Inactive"
                 THEN {[undo |-> b.undo, seen |-> b.seen, ok |-> FALSE, changes |-> changes]}
                 ELSE {[undo |-> b.undo, seen |-> seen,
                        ok |-> ran /\ b.ok /\ seen = "Inactive",
                        changes |-> IF ran THEN undone(b) ELSE changes] :
                         ran \in BOOLEAN, seen \in {b.undo, "Unknown"}}
<1>1. CASE ~d.mayHaveStarted \/ d.undoGroup = "Unknown"
  <2>1. c = gone
    BY <1>1 DEF RollsBack
  <2> QED BY <2>1 DEF TypeOK, Dispatches
<1>2. CASE ~(~d.mayHaveStarted \/ d.undoGroup = "Unknown")
  <2>1. c \in UNION {after(b) : b \in ends}
    BY <1>2 DEF RollsBack
  <2>2. PICK b \in ends : c \in after(b)
    BY <2>1
  <2>3. /\ b.undo \in {"Inactive", "Active"}
        /\ b.seen \in UndoGroupStates
        /\ b.ok \in BOOLEAN
        /\ (undo = "Active" => d.undoGroup # "Inactive") =>
             (b.undo = "Active" => b.seen # "Inactive")
    <3>1. CASE d.undoGroup = "Active"
      BY <3>1, <2>2, UndoRunsFacts
    <3>2. CASE d.undoGroup # "Active"
      <4>1. b = [undo |-> undo, seen |-> d.undoGroup, ok |-> TRUE]
        BY <3>2, <2>2
      <4> QED BY <4>1 DEF TypeOK, Dispatches
    <3> QED BY <3>1, <3>2
  <2>4. CASE b.seen # "Inactive"
    <3>1. c = [undo |-> b.undo, seen |-> b.seen, ok |-> FALSE, changes |-> changes]
      BY <2>2, <2>4
    <3> QED BY <3>1, <2>3, <2>4
  <2>5. CASE b.seen = "Inactive"
    <3>1. PICK ran \in BOOLEAN, seen \in {b.undo, "Unknown"} :
            c = [undo |-> b.undo, seen |-> seen, ok |-> ran /\ b.ok /\ seen = "Inactive",
                 changes |-> IF ran THEN undone(b) ELSE changes]
      BY <2>2, <2>5
    <3>2. (undo = "Active" => d.undoGroup # "Inactive") => b.undo = "Inactive"
      BY <2>3, <2>5
    <3> QED BY <3>1, <3>2, <2>3 DEF UndoGroupStates
  <2> QED BY <2>4, <2>5
<1> QED BY <1>1, <1>2

\* A symbol that is left is known to be left.
LEMMA ClearsFacts ==
  ASSUME TypeOK, NEW c \in Clears
  PROVE  /\ c.symbols \in BOOLEAN /\ c.ok \in BOOLEAN
         /\ c.symbols => symbols /\ ~c.ok
<1>1. CASE c = [symbols |-> FALSE, ok |-> TRUE]
  BY <1>1
<1>2. CASE c = [symbols |-> symbols, ok |-> FALSE]
  BY <1>2 DEF TypeOK
<1> QED BY <1>1, <1>2 DEF Clears

\* A symbol that a finished evaluation leaves is recorded.
LEMMA FinishesFacts ==
  ASSUME TypeOK, NEW good \in BOOLEAN, NEW retain \in BOOLEAN, NEW c \in Finishes(good, retain)
  PROVE  /\ c.symbols \in BOOLEAN /\ c.kept \in BOOLEAN /\ c.ok \in BOOLEAN
         /\ c.symbols => c.kept
         /\ c.ok => good
<1>1. \/ c = [symbols |-> good /\ retain, kept |-> good /\ retain, ok |-> good]
      \/ c = [symbols |-> FALSE, kept |-> FALSE, ok |-> FALSE]
      \/ c = [symbols |-> symbols, kept |-> TRUE, ok |-> FALSE]
  BY DEF Finishes
<1>2. CASE c = [symbols |-> good /\ retain, kept |-> good /\ retain, ok |-> good]
  BY <1>2
<1>3. CASE c = [symbols |-> FALSE, kept |-> FALSE, ok |-> FALSE]
  BY <1>3
<1>4. CASE c = [symbols |-> symbols, kept |-> TRUE, ok |-> FALSE]
  BY <1>4 DEF TypeOK
<1> QED BY <1>1, <1>2, <1>3, <1>4

\* Where AutoCAD does not take a finalizer, the dispatch ends and the
\* scheduler, told so, stops.
Ends(d, e) ==
  /\ execution' = e
  /\ \/ /\ dispatch' = [d EXCEPT !.phase = "Finalizing"]
        /\ finalizers' = finalizers + 1
        /\ UNCHANGED <<reported, answer, quarantined>>
     \/ /\ dispatch' = NoDispatch
        /\ finalizers' = finalizers
        /\ reported' \in NativeResults
        /\ answer' \in {"none", "Unknown"}
        /\ quarantined' = TRUE

\* A finalizer is scheduled, or the dispatch ends here and stops the scheduler.
LEMMA FinalizerIsScheduledOrEnds ==
  ASSUME TypeOK, NEW d \in Dispatches, NEW e \in Executions, ScheduleFinalizer(d, e)
  PROVE  Ends(d, e)
<1> DEFINE r == [d EXCEPT !.result = "DocumentContextRestoreFailed"]
<1>1. r.kind = d.kind /\ r.result = "DocumentContextRestoreFailed"
  BY DEF Dispatches
<1>2. CASE Complete(r, e) /\ UNCHANGED finalizers
  <2>1. FinalizationKind(r.result, Observation(r)) = "DocumentContextRestoreFailed"
    BY <1>1 DEF FinalizationKind
  <2>2. FinalizationQuarantines(r.result, Observation(r))
    BY <1>1 DEF FinalizationQuarantines, RequiresQuarantine
  <2>3. ExecutionAnswer(e, "DocumentContextRestoreFailed") = "Unknown"
    BY DEF ExecutionAnswer, OutcomeAnswer, RecordFinalizationFailure, ErrorOutcome,
           RequiresQuarantine, UnsafeForOutcome, Executions
  <2>4. RequiresQuarantine(r.result) /\ "DocumentContextRestoreFailed" \in NativeResults
    BY <1>1 DEF RequiresQuarantine, NativeResults
  <2> HIDE DEF r
  <2>5. CASE r.kind = "ExecDriver"
    BY <1>2, <2>1, <2>2, <2>3, <2>4, <2>5 DEF Complete, Ends
  <2>6. CASE r.kind # "ExecDriver"
    BY <1>1, <1>2, <2>4, <2>6 DEF Complete, Ends
  <2> QED BY <2>5, <2>6
<1>3. CASE ~(Complete(r, e) /\ UNCHANGED finalizers)
  BY <1>3 DEF ScheduleFinalizer, Ends
<1> QED BY <1>2, <1>3

-----------------------------------------------------------------------------
(***************************************************************************)
(* First invariant: the dispatch stands where AutoCAD and LISP do.         *)
(***************************************************************************)
\* Another LISP expression runs nested in a form or inside one of the host's
\* commands, and the host's callback on top of the driver's loop, or of a driver
\* that has ended since.
Placed ==
  /\ nested => lisp = "evaluating" \/ callback \in Commands
  /\ callback # "out" => lisp \in {"looping", "none"}

\* Where the dispatch stands in AutoCAD: a slot is empty or holds a dispatch, the
\* host counts the LISP expressions that run, and an invocation waits in AutoCAD's
\* queue only for a driver that has not started.  The dispatch is a parameter,
\* since every handler goes from one to another.
Stands(d, l, n, q, c) ==
  /\ d.phase = "none" \/ d.kind = "none" => d = NoDispatch
  /\ d.lifecycle = "Finalizing" => d.phase = "Finalizing"
  /\ d.kind = "History" =>
       /\ d.phase # "Running" /\ d.undoGroup = "Inactive" /\ d.staged = "None"
       /\ ~d.symbolsKept /\ d.port = "none"
       /\ l = "none" /\ ~n /\ c = "out"
  /\ IsExecution(d) =>
       /\ d.depth = IF d.lifecycle \in {"AwaitingStart", "EndedDuringCallback"} THEN 0
                    ELSE IF n THEN 2 ELSE 1
       /\ q > 0 => q = 1 /\ d.lifecycle = "AwaitingStart" /\ (c = "out" => l = "none")
       /\ d.lifecycle = "AwaitingStart" => d.phase = "Queued"
       /\ c # "out" /\ l = "none" => d.lifecycle # "InCallback"

\* The callback works on a dispatch, except where that was lost with the scheduler.
Attended ==
  /\ quarantined => dispatch = NoDispatch
  /\ callback # "out" => dispatch.kind = "ExecDriver" \/ quarantined

\* The inductive invariant under the finalizers.
Ordered ==
  /\ TypeOK
  /\ OneFinalizer
  /\ Placed
  /\ Stands(dispatch, lisp, nested, queued, callback)
  /\ Attended

\* The type of what is not the host's.
RestTyped ==
  /\ active \in {"target", "previous"}
  /\ alive \in BOOLEAN
  /\ undo \in {"Inactive", "Active"}
  /\ changes \in {"none", "group", "escaped"}
  /\ symbols \in BOOLEAN
  /\ status \in {"nil", "pending", "ok"}
  /\ lisp \in {"none", "looping", "evaluating", "ending"}
  /\ nested \in BOOLEAN
  /\ queued \in Nat
  /\ callback \in Commands \cup {"out", "loop", "clear", "exit", "handOff"}
  /\ dispatches \in 0..MaxDispatches /\ interruptions \in 0..MaxInterruptions

\* Two dispatches that differ in nothing that AutoCAD's reports move.
SamePlace(d, b) ==
  /\ d.kind = b.kind /\ d.phase = b.phase
  /\ d.lifecycle = b.lifecycle /\ d.depth = b.depth

\* The empty slot.
LEMMA NoDispatchType ==
  /\ NoDispatch \in Dispatches
  /\ ~IsExecution(NoDispatch)
  /\ NoDispatch.phase = "none" /\ NoDispatch.kind = "none" /\ NoDispatch.lifecycle = "AwaitingStart"
  /\ NoDispatch.undoGroup = "Inactive" /\ NoDispatch.staged = "None" /\ ~NoDispatch.symbolsKept
  /\ NoDispatch.result = "Success" /\ NoDispatch.port = "none" /\ NoDispatch.restore = FALSE
  BY DEF NoDispatch, Dispatches, IsExecution, UndoGroupStates, NativeResults

\* The depths of nested expressions that the host counts to.
LEMMA Depths == 0 \in 0..2 /\ 1 \in 0..2 /\ 2 \in 0..2
  OBVIOUS

\* A dispatch that AutoCAD's reports of LISP move.
LEMMA Moved ==
  ASSUME NEW b \in Dispatches,
         NEW l \in {"AwaitingStart", "Running", "InCallback", "EndedDuringCallback",
                    "AwaitingEnd", "Finalizing"},
         NEW n \in 0..2
  PROVE  /\ [b EXCEPT !.lifecycle = l, !.depth = n] \in Dispatches
         /\ [b EXCEPT !.lifecycle = l] \in Dispatches
         /\ [b EXCEPT !.depth = n] \in Dispatches
         /\ [b EXCEPT !.phase = "Queued", !.lifecycle = l, !.depth = n] \in Dispatches
         /\ [b EXCEPT !.phase = "Running", !.lifecycle = l, !.depth = n] \in Dispatches
  BY DEF Dispatches

\* A dispatch that is kept, in its place or in another that fits.
LEMMA Keeps ==
  ASSUME Ordered, NEW d \in Dispatches, NEW e \in Executions, Keep(d, e), RestTyped',
         d.phase = "Finalizing" <=> dispatch.phase = "Finalizing",
         d.kind = dispatch.kind,
         Placed', Stands(d, lisp', nested', queued', callback'),
         callback' # "out" => callback # "out" \/ dispatch.kind = "ExecDriver"
  PROVE  Ordered'
<1>1. TypeOK'
  BY DEF Keep, TypeOK, RestTyped, Ordered
<1>2. OneFinalizer'
  BY DEF Keep, OneFinalizer, Ordered
<1>3. Stands(dispatch, lisp, nested, queued, callback)'
  BY DEF Keep, Stands, IsExecution
<1>4. Attended'
  BY NoDispatchType DEF Keep, Attended, Ordered, Stands
<1> QED BY <1>1, <1>2, <1>3, <1>4 DEF Ordered

\* A dispatch that is handed to its finalizer, or lost.
LEMMA EndsOrders ==
  ASSUME Ordered, NEW d \in Dispatches, NEW e \in Executions, Ends(d, e), RestTyped',
         dispatch.phase # "Finalizing", d.kind = dispatch.kind, d.kind # "none",
         d.kind = "History" =>
           /\ d.undoGroup = "Inactive" /\ d.staged = "None"
           /\ ~d.symbolsKept /\ d.port = "none"
           /\ lisp' = "none" /\ ~nested' /\ callback' = "out",
         Placed',
         callback' # "out" => d.kind = "ExecDriver"
  PROVE  Ordered'
<1> DEFINE f == [d EXCEPT !.phase = "Finalizing"]
<1>0. /\ f \in Dispatches /\ f.phase = "Finalizing" /\ ~IsExecution(f)
      /\ f.kind = d.kind /\ f.undoGroup = d.undoGroup /\ f.staged = d.staged
      /\ f.symbolsKept = d.symbolsKept /\ f.port = d.port
  BY DEF Dispatches, IsExecution
<1>f. CASE /\ dispatch' = f
           /\ finalizers' = finalizers + 1
           /\ UNCHANGED <<reported, answer, quarantined>>
  <2> HIDE DEF f
  <2>1. TypeOK'
    BY <1>0, <1>f DEF Ends, TypeOK, RestTyped, Ordered
  <2>2. OneFinalizer'
    BY <1>0, <1>f DEF OneFinalizer, Ordered
  <2>3. Stands(f, lisp', nested', queued', callback')
    BY <1>0 DEF Stands
  <2>4. Stands(dispatch, lisp, nested, queued, callback)'
    BY <1>f, <2>3 DEF Stands, IsExecution
  <2>5. ~quarantined
    BY NoDispatchType DEF Ordered, Attended
  <2>6. Attended'
    BY <1>0, <1>f, <2>5 DEF Attended
  <2> QED BY <2>1, <2>2, <2>4, <2>6 DEF Ordered
<1>l. CASE /\ dispatch' = NoDispatch
           /\ finalizers' = finalizers
           /\ reported' \in NativeResults
           /\ answer' \in {"none", "Unknown"}
           /\ quarantined' = TRUE
  <2>1. TypeOK'
    BY <1>l, NoDispatchType DEF Ends, TypeOK, RestTyped, Ordered, Outcomes, Failures
  <2>2. OneFinalizer'
    BY <1>l, NoDispatchType DEF OneFinalizer, Ordered
  <2>3. Stands(NoDispatch, lisp', nested', queued', callback')
    BY NoDispatchType DEF Stands
  <2>4. Stands(dispatch, lisp, nested, queued, callback)'
    BY <1>l, <2>3 DEF Stands, IsExecution
  <2>5. Attended'
    BY <1>l DEF Attended
  <2> QED BY <2>1, <2>2, <2>4, <2>5 DEF Ordered
<1> QED BY <1>f, <1>l DEF Ends

-----------------------------------------------------------------------------
(***************************************************************************)
(* The rounds of the loop.                                                 *)
(***************************************************************************)
\* The host marks a step it did not wait for, and nothing else.
LEMMA BadStepFacts ==
  ASSUME NEW d \in Dispatches, NEW e
  PROVE  /\ BadStep(d, e) \in Dispatches
         /\ SamePlace(BadStep(d, e), d)
         /\ BadStep(d, e).undoGroup = d.undoGroup
         /\ BadStep(d, e).staged = d.staged
         /\ BadStep(d, e).symbolsKept = d.symbolsKept
         /\ BadStep(d, e).restore = d.restore
         /\ e.phase \in AwaitedSteps => BadStep(d, e) = d
         /\ e.phase \notin AwaitedSteps => BadStep(d, e).result = "ExecBridgeFailed"
<1>1. "ExecBridgeFailed" \in NativeResults
  BY DEF NativeResults
<1> QED BY <1>1 DEF BadStep, Dispatches, SamePlace

\* The execution after a completed step is one.
LEMMA CompletedStepType ==
  ASSUME NEW e \in Executions, NEW r \in StepResults
  PROVE  CompletedStep(e, r) \in Executions
  BY CompleteStepType DEF CompletedStep

\* The result of a step is one that complete_step takes.
LEMMA StepResultType ==
  ASSUME NEW good, NEW d
  PROVE  StepResult(good, d) \in StepResults
  BY DEF StepResult, StepResults

\* What the last step's undo may do, as for a rollback.
LEMMA TerminalUndoFacts ==
  ASSUME TypeOK, NEW d \in Dispatches, NEW c \in TerminalUndo(d)
  PROVE  /\ c.undo \in {"Inactive", "Active"}
         /\ c.seen \in UndoGroupStates
         /\ c.ok \in BOOLEAN
         /\ c.changes \in {changes, "none"}
         /\ (undo = "Active" => d.undoGroup # "Inactive") =>
              (c.undo = "Active" => c.seen # "Inactive")
         /\ ~d.formHandedOff => c.changes = changes
<1>1. CASE d.formHandedOff
  BY <1>1, RollsBackFacts DEF TerminalUndo
<1>2. CASE ~d.formHandedOff
  <2>1. PICK b \in UndoRuns("Inactive") :
          c = [undo |-> b.undo, seen |-> b.seen, ok |-> b.ok, changes |-> changes]
    BY <1>2 DEF TerminalUndo, TerminalEnd
  <2> QED BY <1>2, <2>1, UndoRunsFacts
<1> QED BY <1>1, <1>2

\* A round of the loop, and the end of a command in it, leave the dispatch in
\* its place.
InTheLoop ==
  /\ dispatch' \in Dispatches /\ execution' \in Executions
  /\ UNCHANGED <<finalizers, reported, answer, quarantined>>
  /\ SamePlace(dispatch', dispatch)
  /\ dispatch.phase = "none" => dispatch' = dispatch
  /\ callback \in {"loop", "clear"} \cup Commands /\ ~nested
  /\ callback' \in Commands \cup {"loop", "clear", "exit", "handOff"}
  /\ undo' \in {"Inactive", "Active"} /\ changes' \in {changes, "none"}
  /\ symbols' \in BOOLEAN /\ status' \in {"nil", "pending", "ok"}
  /\ UNCHANGED <<active, alive, lisp, nested, queued, bounds>>

\* The end of a command.
LEMMA StepCompletesInTheLoop ==
  ASSUME Ordered, NEW d \in Dispatches, NEW r \in StepResults, StepCompletes(d, r),
         SamePlace(d, dispatch), callback \in Commands, ~nested,
         undo' \in {"Inactive", "Active"}, changes' \in {changes, "none"},
         UNCHANGED symbols
  PROVE  InTheLoop
<1>1. dispatch \in Dispatches /\ execution \in Executions
  BY DEF Ordered, TypeOK
<1>2. dispatch' \in Dispatches /\ execution' \in Executions /\ SamePlace(dispatch', dispatch)
  BY <1>1, BadStepFacts, CompletedStepType DEF StepCompletes, Keep, SamePlace
<1>3. dispatch.phase = "none" => dispatch' = dispatch
  BY DEF StepCompletes, Keep
<1> QED BY <1>2, <1>3 DEF InTheLoop, StepCompletes, Keep, Ordered, TypeOK

\* A step done in one go.
LEMMA StepDoneInTheLoop ==
  ASSUME Ordered, NEW d \in Dispatches, NEW r \in StepResults, StepDone(d, r),
         SamePlace(d, dispatch), callback = "loop", dispatch.phase # "none",
         symbols' \in BOOLEAN
  PROVE  InTheLoop
<1>1. execution \in Executions
  BY DEF Ordered, TypeOK
<1>2. execution' \in Executions
  BY <1>1, TakeStepType, CompleteStepType DEF StepDone, Keep
<1>3. ~nested
  BY DEF Ordered, Placed, Commands
<1> QED BY <1>2, <1>3 DEF InTheLoop, StepDone, Keep, Ordered, TypeOK

\* Every step of the loop.
LEMMA LoopStepsInTheLoop ==
  ASSUME Ordered, LoopStep
  PROVE  InTheLoop
<1>t. /\ dispatch \in Dispatches /\ execution \in Executions
      /\ undo \in {"Inactive", "Active"}
      /\ symbols \in BOOLEAN /\ status \in {"nil", "pending", "ok"}
  BY DEF Ordered, TypeOK
<1>n. callback \notin Commands => callback = "out" \/ ~nested
  BY DEF Ordered, Placed, Commands
<1>p. SamePlace(dispatch, dispatch)
  BY DEF SamePlace
<1>q. /\ {"ExecBridgeFailed", "Success", "ExecBridgeSymbolsClearFailed"} \subseteq NativeResults
      /\ {"ok", "failed"} \subseteq StepResults
      /\ {"loop", "clear", "out"} \cap Commands = {}
  BY DEF NativeResults, StepResults, Commands
<1>r. \A c : c.ok \in BOOLEAN => CompletionOf(c) \in StepResults
  BY <1>q DEF CompletionOf
<1>1. CASE LoopEnds
  BY <1>1, <1>t, <1>n, <1>p DEF LoopEnds, InTheLoop, hostVars, drawingVars, Commands
<1>2. CASE LoopLosesContext
  <2>1. [dispatch EXCEPT !.result = "Success"] \in Dispatches
    BY <1>t, <1>q DEF Dispatches
  <2>2. SamePlace([dispatch EXCEPT !.result = "Success"], dispatch)
    BY <1>t DEF Dispatches, SamePlace
  <2> QED BY <1>2, <1>t, <1>n, <2>1, <2>2, AbandonType
          DEF LoopLosesContext, LoopRuns, Keep, InTheLoop, drawingVars, Commands
<1>3. CASE StepInvalid
  <2>1. [dispatch EXCEPT !.result = "ExecBridgeFailed"] \in Dispatches
    BY <1>t, <1>q DEF Dispatches
  <2>2. SamePlace([dispatch EXCEPT !.result = "ExecBridgeFailed"], dispatch)
    BY <1>t DEF Dispatches, SamePlace
  <2> QED BY <1>3, <1>t, <1>n, <2>1, <2>2
          DEF StepInvalid, LoopRuns, Keep, InTheLoop, drawingVars, Commands
<1>4. CASE StepStartsCommand
  <2>1. callback' \in Commands
    BY <1>4 DEF StepStartsCommand, CommandOf, Commands
  <2>2. callback = "loop" /\ dispatch.phase # "none"
    BY <1>4 DEF StepStartsCommand, StepTaken, LoopRuns
  <2> QED BY <1>4, <1>t, <1>n, <1>p, <2>1, <2>2, TakeStepType
          DEF StepStartsCommand, Keep, InTheLoop, drawingVars, Commands
<1>5. CASE StepBegins
  <2>1. PICK c \in UndoRuns("Active") :
          /\ undo' = c.undo
          /\ StepCompletes([dispatch EXCEPT !.undoGroup = c.seen,
                                            !.mayHaveStarted = (c.seen # "Inactive")],
                           CompletionOf(c))
    BY <1>5 DEF StepBegins
  <2>2. c.undo \in {"Inactive", "Active"} /\ c.seen \in UndoGroupStates /\ c.ok \in BOOLEAN
    BY UndoRunsFacts DEF Ordered
  <2> DEFINE d == [dispatch EXCEPT !.undoGroup = c.seen,
                                   !.mayHaveStarted = (c.seen # "Inactive")]
  <2>3. d \in Dispatches /\ SamePlace(d, dispatch)
    BY <1>t, <2>2 DEF Dispatches, SamePlace
  <2>4. callback \in Commands /\ ~nested /\ UNCHANGED changes /\ UNCHANGED symbols
    BY <1>5 DEF StepBegins, CommandEnds, Commands
  <2> HIDE DEF d
  <2> QED BY <1>r, <2>1, <2>2, <2>3, <2>4, StepCompletesInTheLoop DEF d
<1>6. CASE StepCloses
  <2>1. PICK c \in UndoRuns("Inactive") :
          /\ undo' = c.undo
          /\ StepCompletes([dispatch EXCEPT !.undoGroup = c.seen], CompletionOf(c))
    BY <1>6 DEF StepCloses
  <2>2. c.undo \in {"Inactive", "Active"} /\ c.seen \in UndoGroupStates /\ c.ok \in BOOLEAN
    BY UndoRunsFacts DEF Ordered
  <2> DEFINE d == [dispatch EXCEPT !.undoGroup = c.seen]
  <2>3. d \in Dispatches /\ SamePlace(d, dispatch)
    BY <1>t, <2>2 DEF Dispatches, SamePlace
  <2>4. callback \in Commands /\ ~nested /\ UNCHANGED changes /\ UNCHANGED symbols
    BY <1>6 DEF StepCloses, CommandEnds, Commands
  <2> HIDE DEF d
  <2> QED BY <1>r, <2>1, <2>2, <2>3, <2>4, StepCompletesInTheLoop DEF d
<1>8. CASE StepClearsValue
  <2>1. PICK c \in Clears :
          /\ symbols' = c.symbols
          /\ StepDone([dispatch EXCEPT !.symbolsKept = ~c.ok], CompletionOf(c))
    BY <1>8 DEF StepClearsValue
  <2>2. c.symbols \in BOOLEAN /\ c.ok \in BOOLEAN
    BY ClearsFacts DEF Ordered
  <2> DEFINE d == [dispatch EXCEPT !.symbolsKept = ~c.ok]
  <2>3. d \in Dispatches /\ SamePlace(d, dispatch)
    BY <1>t, <2>2 DEF Dispatches, SamePlace
  <2>4. callback = "loop" /\ dispatch.phase # "none"
    BY <1>8 DEF StepClearsValue, StepTaken, LoopRuns
  <2> HIDE DEF d
  <2> QED BY <1>r, <2>1, <2>2, <2>3, <2>4, StepDoneInTheLoop DEF d
<1>9. ASSUME NEW kind \in {"Evaluator", "EvalValueEmitter"}, StepTaken(kind) \/ LoopRuns,
             Staged(kind) \/ NotStaged(kind)
      PROVE  InTheLoop
  <2>1. callback = "loop" /\ dispatch.phase # "none" /\ ~nested
    BY <1>9, <1>n, <1>q DEF StepTaken, LoopRuns
  <2>2. CASE Staged(kind)
    <3> DEFINE d == [dispatch EXCEPT !.staged = kind, !.port = "open", !.symbolsKept = TRUE,
                           !.formHandedOff = @ \/ kind = "Evaluator"]
    <3>1. d \in Dispatches /\ SamePlace(d, dispatch)
      BY <1>t DEF Dispatches, SamePlace
    <3>2. dispatch' = d /\ execution' = TakeStep(execution)
      BY <2>2 DEF Staged, Keep
    <3>3. execution' \in Executions
      BY <1>t, <3>2, TakeStepType
    <3> HIDE DEF d
    <3> QED BY <1>t, <2>1, <2>2, <3>1, <3>2, <3>3 DEF InTheLoop, Staged, Keep
  <2>3. CASE NotStaged(kind)
    <3>1. PICK c \in Finishes(FALSE, FALSE) :
            /\ symbols' = c.symbols
            /\ StepDone([dispatch EXCEPT !.symbolsKept = c.kept,
                                 !.formHandedOff = @ \/ kind = "Evaluator"], "failed")
      BY <2>3 DEF NotStaged
    <3>2. c.symbols \in BOOLEAN /\ c.kept \in BOOLEAN
      BY FinishesFacts DEF Ordered
    <3> DEFINE d == [dispatch EXCEPT !.symbolsKept = c.kept,
                                     !.formHandedOff = @ \/ kind = "Evaluator"]
    <3>3. d \in Dispatches /\ SamePlace(d, dispatch)
      BY <1>t, <3>2 DEF Dispatches, SamePlace
    <3> HIDE DEF d
    <3> QED BY <1>q, <2>1, <3>1, <3>2, <3>3, StepDoneInTheLoop DEF d
  <2> QED BY <1>9, <2>2, <2>3
<1>10. CASE StepEvaluates
  <2>1. LoopRuns
    BY <1>10 DEF StepEvaluates, StepTaken
  <2>2. CASE NoFormPort
    <3> DEFINE d == [dispatch EXCEPT !.formHandedOff = TRUE]
    <3>1. d \in Dispatches /\ SamePlace(d, dispatch)
      BY <1>t DEF Dispatches, SamePlace
    <3>2. StepDone(d, "failed") /\ UNCHANGED symbols
      BY <2>2 DEF NoFormPort
    <3> HIDE DEF d
    <3> QED BY <1>q, <1>t, <2>1, <3>1, <3>2, StepDoneInTheLoop DEF LoopRuns
  <2> QED BY <1>9, <1>10, <2>1, <2>2 DEF StepEvaluates
<1>11. CASE StepEmits
  BY <1>9, <1>11 DEF StepEmits, StepTaken
<1>12. CASE StepIsLast
  <2>1. callback' \in {"clear", "terminal"} /\ UNCHANGED <<changes, undo, symbols, status>>
    BY <1>12 DEF StepIsLast, drawingVars
  <2>2. callback = "loop" /\ dispatch.phase # "none"
    BY <1>12 DEF StepIsLast, StepTaken, LoopRuns
  <2> QED BY <1>12, <1>t, <1>n, <1>p, <2>1, <2>2, TakeStepType
          DEF StepIsLast, Keep, InTheLoop, drawingVars, Commands
<1>7. CASE StepRollsBack
  <2>1. PICK c \in RollsBack(dispatch) :
          /\ undo' = c.undo /\ changes' = c.changes
          /\ StepCompletes([dispatch EXCEPT !.undoGroup = c.seen], CompletionOf(c))
    BY <1>7 DEF StepRollsBack
  <2>2. /\ c.undo \in {"Inactive", "Active"} /\ c.seen \in UndoGroupStates
        /\ c.ok \in BOOLEAN /\ c.changes \in {changes, "none"}
    BY <1>t, RollsBackFacts DEF Ordered
  <2> DEFINE d == [dispatch EXCEPT !.undoGroup = c.seen]
  <2>3. d \in Dispatches /\ SamePlace(d, dispatch)
    BY <1>t, <2>2 DEF Dispatches, SamePlace
  <2>4. callback \in Commands /\ ~nested /\ UNCHANGED symbols
    BY <1>7 DEF StepRollsBack, CommandEnds, Commands
  <2> HIDE DEF d
  <2> QED BY <1>r, <2>1, <2>2, <2>3, <2>4, StepCompletesInTheLoop DEF d
<1>13. CASE TerminalUndoEnds
  <2>1. PICK c \in TerminalUndo(dispatch) :
          /\ undo' = c.undo /\ changes' = c.changes
          /\ IF dispatch.phase = "none" THEN Keep(dispatch, execution)
             ELSE Keep([dispatch EXCEPT
                       !.undoGroup = c.seen,
                       !.cleanupFailed = @ \/ ~c.ok,
                       !.result = IF c.ok THEN @ ELSE "ExecBridgeFailed"], execution)
    BY <1>13 DEF TerminalUndoEnds
  <2>2. /\ c.undo \in {"Inactive", "Active"} /\ c.seen \in UndoGroupStates
        /\ c.ok \in BOOLEAN /\ c.changes \in {changes, "none"}
    BY <1>t, TerminalUndoFacts DEF Ordered
  <2> DEFINE d == [dispatch EXCEPT !.undoGroup = c.seen,
                       !.cleanupFailed = @ \/ ~c.ok,
                       !.result = IF c.ok THEN @ ELSE "ExecBridgeFailed"]
  <2>3. d \in Dispatches /\ SamePlace(d, dispatch)
    <3>1. (IF c.ok THEN dispatch.result ELSE "ExecBridgeFailed") \in NativeResults
      BY <1>t, <1>q DEF Dispatches
    <3> QED BY <1>t, <2>2, <3>1 DEF Dispatches, SamePlace
  <2>4. callback \in Commands /\ ~nested /\ callback' = "clear"
    BY <1>13 DEF TerminalUndoEnds, CommandEnds, Commands
  <2>5. /\ dispatch' = (IF dispatch.phase = "none" THEN dispatch ELSE d) /\ execution' = execution
        /\ UNCHANGED <<finalizers, reported, answer, quarantined>>
    BY <2>1 DEF Keep
  <2> HIDE DEF d
  <2> QED BY <1>13, <1>t, <1>p, <2>1, <2>2, <2>3, <2>4, <2>5 DEF TerminalUndoEnds, InTheLoop
<1>14. CASE TerminalClears
  <2>1. PICK c \in IF dispatch.symbolsKept THEN Clears ELSE {[symbols |-> symbols, ok |-> TRUE]} :
          /\ symbols' = c.symbols
          /\ Keep([dispatch EXCEPT
                  !.symbolsKept = ~c.ok,
                  !.cleanupFailed = @ \/ ~c.ok,
                  !.result = IF c.ok THEN @ ELSE "ExecBridgeSymbolsClearFailed"], execution)
    BY <1>14 DEF TerminalClears
  <2>2. c.symbols \in BOOLEAN /\ c.ok \in BOOLEAN
    <3>1. CASE dispatch.symbolsKept
      BY <2>1, <3>1, ClearsFacts DEF Ordered
    <3>2. CASE ~dispatch.symbolsKept
      <4>1. c = [symbols |-> symbols, ok |-> TRUE]
        BY <2>1, <3>2
      <4> QED BY <1>t, <4>1
    <3> QED BY <3>1, <3>2
  <2> DEFINE d == [dispatch EXCEPT !.symbolsKept = ~c.ok,
                  !.cleanupFailed = @ \/ ~c.ok,
                  !.result = IF c.ok THEN @ ELSE "ExecBridgeSymbolsClearFailed"]
  <2>3. d \in Dispatches /\ SamePlace(d, dispatch)
    <3>1. (IF c.ok THEN dispatch.result ELSE "ExecBridgeSymbolsClearFailed") \in NativeResults
      BY <1>t, <1>q DEF Dispatches
    <3> QED BY <1>t, <2>2, <3>1 DEF Dispatches, SamePlace
  <2>4. dispatch.phase = "none" => d = dispatch
    <3>1. ASSUME dispatch = NoDispatch PROVE d = NoDispatch
      <4>1. c.ok = TRUE
        BY <2>1, <3>1, NoDispatchType
      <4>2. d = [NoDispatch EXCEPT !.symbolsKept = FALSE,
                   !.cleanupFailed = NoDispatch.cleanupFailed \/ FALSE,
                   !.result = NoDispatch.result]
        BY <3>1, <4>1
      <4>3. (NoDispatch.cleanupFailed \/ FALSE) = FALSE /\ NoDispatch.result = "Success"
        BY DEF NoDispatch
      <4>4. [NoDispatch EXCEPT !.symbolsKept = FALSE, !.cleanupFailed = FALSE,
                               !.result = "Success"] = NoDispatch
        <5>1. /\ NoDispatch.symbolsKept = FALSE /\ NoDispatch.cleanupFailed = FALSE
              /\ NoDispatch.result = "Success"
          BY DEF NoDispatch
        <5> QED BY <5>1, NoDispatchType DEF Dispatches
      <4> HIDE DEF d
      <4>5. d = [NoDispatch EXCEPT !.symbolsKept = FALSE, !.cleanupFailed = FALSE,
                               !.result = "Success"]
        BY <4>2, <4>3
      <4> QED BY <4>4, <4>5
    <3> QED BY <3>1 DEF Ordered, Stands
  <2>5. /\ dispatch' = d /\ execution' = execution
        /\ UNCHANGED <<finalizers, reported, answer, quarantined>>
    BY <2>1 DEF Keep
  <2> HIDE DEF d
  <2> QED BY <1>14, <1>t, <1>n, <1>q, <2>1, <2>2, <2>3, <2>4, <2>5 DEF TerminalClears, InTheLoop
<1> QED BY <1>1, <1>2, <1>3, <1>4, <1>5, <1>6, <1>7, <1>8, <1>10, <1>11, <1>12, <1>13, <1>14
        DEF LoopStep

-----------------------------------------------------------------------------
(***************************************************************************)
(* The handlers that send and end a dispatch.                              *)
(***************************************************************************)
\* A round of the loop keeps the order.
LEMMA LoopIsOrdered ==
  ASSUME Ordered, InTheLoop
  PROVE  Ordered'
<1>1. RestTyped'
  BY DEF InTheLoop, RestTyped, Ordered, TypeOK, bounds, Commands
<1>2. Placed'
  BY DEF Placed, InTheLoop, Ordered, Commands
<1>3. callback # "out" /\ dispatch.kind # "History"
  BY DEF InTheLoop, Ordered, Stands, Commands
<1>4. Stands(dispatch', lisp', nested', queued', callback')
  <2>1. dispatch'.phase = "none" \/ dispatch'.kind = "none" => dispatch' = NoDispatch
    BY NoDispatchType DEF InTheLoop, Ordered, Stands, SamePlace
  <2>2. dispatch'.lifecycle = "Finalizing" => dispatch'.phase = "Finalizing"
    BY DEF InTheLoop, Ordered, Stands, SamePlace
  <2>3. dispatch'.kind # "History"
    BY <1>3 DEF InTheLoop, SamePlace
  <2>4. UNCHANGED <<lisp, nested, queued>> /\ SamePlace(dispatch', dispatch)
    BY DEF InTheLoop
  <2>5. Stands(dispatch, lisp, nested, queued, callback)
    BY DEF Ordered
  <2>6. IsExecution(dispatch') <=> IsExecution(dispatch)
    BY <2>4 DEF SamePlace, IsExecution
  <2>7. callback' # "out"
    BY DEF InTheLoop, Commands
  <2> QED BY <1>3, <2>1, <2>2, <2>3, <2>4, <2>5, <2>6, <2>7 DEF Stands, SamePlace
<1>5. Keep(dispatch', execution')
  BY DEF Keep, InTheLoop
<1> QED BY <1>1, <1>2, <1>3, <1>4, <1>5, Keeps DEF InTheLoop, SamePlace

\* The names a handler writes are members of their sets.
LEMMA Results ==
  /\ {"Success", "Refused", "NotQuiescent", "ExecBridgeFailed", "DocumentContextRestoreFailed"}
       \subseteq NativeResults
  /\ {"none", "Unknown", "NotStarted"} \subseteq Outcomes \cup {"none"}
  BY DEF NativeResults, Outcomes, Failures

\* An execution's finalizer is scheduled, or its dispatch ends.
LEMMA ExecutionFinalizer ==
  ASSUME TypeOK, NEW d \in Dispatches, NEW e \in Executions, ScheduleExecutionFinalizer(d, e)
  PROVE  Ends([d EXCEPT !.lifecycle = "Finalizing"], e)
<1>1. [d EXCEPT !.lifecycle = "Finalizing"] \in Dispatches
  BY DEF Dispatches
<1> QED BY <1>1, FinalizerIsScheduledOrEnds DEF ScheduleExecutionFinalizer

\* What a dispatch of an execution ends with is in order, whatever is true of it.
LEMMA ExecutionEndsOrders ==
  ASSUME Ordered, NEW d \in Dispatches, NEW e \in Executions,
         ScheduleExecutionFinalizer(d, e), RestTyped', Placed',
         dispatch.kind = "ExecDriver", dispatch.phase # "Finalizing", d.kind = "ExecDriver"
  PROVE  Ordered'
<1> DEFINE f == [d EXCEPT !.lifecycle = "Finalizing"]
<1>1. f \in Dispatches /\ f.kind = d.kind
  BY DEF Dispatches
<1>2. Ends(f, e)
  BY ExecutionFinalizer DEF Ordered
<1> HIDE DEF f
<1> QED BY <1>1, <1>2, EndsOrders

\* The same for a driver that fails.
LEMMA FailDriverOrders ==
  ASSUME Ordered, NEW d \in Dispatches, NEW e \in Executions, FailDriver(d, e),
         RestTyped', Placed', dispatch.kind = "ExecDriver", dispatch.phase # "Finalizing",
         d.kind = "ExecDriver", d.phase # "Finalizing"
  PROVE  Ordered'
<1> DEFINE f == [d EXCEPT !.port = "none", !.result = "ExecBridgeFailed"]
<1>1. f \in Dispatches /\ f.kind = "ExecDriver"
  BY Results DEF Dispatches
<1>2. ScheduleExecutionFinalizer(f, e)
  BY DEF FailDriver
<1> HIDE DEF f
<1> QED BY <1>1, <1>2, ExecutionEndsOrders

\* The job is dispatched, or AutoCAD does not take it.
LEMMA DispatchOrdered ==
  ASSUME Ordered, Dispatch \/ DispatchNotSent
  PROVE  Ordered'
<1>t. /\ execution \in Executions /\ active \in {"target", "previous"}
      /\ dispatch = NoDispatch /\ callback = "out" /\ ~quarantined /\ lisp = "none"
      /\ dispatches < MaxDispatches
  BY DEF Ordered, TypeOK, Dispatch, DispatchNotSent, MayDispatch
<1>n. ~nested /\ finalizers = 0
  BY <1>t, NoDispatchType DEF Ordered, Placed, OneFinalizer, Commands
<1>b. dispatches + 1 \in 0..MaxDispatches
  BY <1>t, DriverAssumption DEF Ordered, TypeOK
<1>1. CASE Dispatch
  <2>1. PICK kind \in {"History", "ExecDriver"}, mode \in ExecModes, forms \in 1..MaxForms :
          /\ dispatch' = NewDispatch(kind)
          /\ execution' = IF kind = "ExecDriver" THEN NewExecution(mode, forms) ELSE Dropped
    BY <1>1 DEF Dispatch
  <2>2. execution' \in Executions
    BY <2>1, NewExecutionType, DroppedType, MaxFormsAssumption
  <2> DEFINE d == NewDispatch(kind)
  <2>3. /\ d \in Dispatches /\ d.kind = kind /\ d.phase = "Queued" /\ d.lifecycle = "AwaitingStart"
        /\ d.depth = 0 /\ d.undoGroup = "Inactive" /\ d.staged = "None" /\ ~d.symbolsKept
        /\ d.port = "none"
    BY <1>t, NoDispatchType DEF NewDispatch, Dispatches, NoDispatch
  <2> HIDE DEF d
  <2>4. TypeOK'
    BY <1>1, <1>b, <2>1, <2>2, <2>3 DEF Dispatch, Ordered, TypeOK, d
  <2>5. OneFinalizer'
    BY <1>1, <1>n, <2>1, <2>3 DEF Dispatch, OneFinalizer, d
  <2>6. Placed'
    BY <1>1 DEF Dispatch, Ordered, Placed
  <2>7. Stands(d, lisp', nested', queued', callback')
    BY <1>1, <1>t, <1>n, <2>3 DEF Dispatch, Stands
  <2>8. Stands(dispatch, lisp, nested, queued, callback)'
    BY <2>1, <2>7 DEF Stands, IsExecution, d
  <2>9. Attended'
    BY <1>1, <1>t DEF Dispatch, Attended
  <2> QED BY <2>4, <2>5, <2>6, <2>8, <2>9 DEF Ordered
<1>2. CASE DispatchNotSent
  <2>1. /\ reported' \in NativeResults /\ answer' \in Outcomes \cup {"none"}
        /\ quarantined' \in BOOLEAN
    BY <1>2, Results DEF DispatchNotSent, ErrorOutcome, RequiresQuarantine
  <2>2. UNCHANGED <<dispatch, execution, finalizers, lisp, nested, queued, callback>>
    BY <1>2 DEF DispatchNotSent, lispVars
  <2>3. TypeOK'
    BY <1>2, <1>t, <1>b, <2>1, <2>2 DEF DispatchNotSent, Ordered, TypeOK
  <2>4. OneFinalizer' /\ Placed' /\ Attended'
    BY <1>t, <2>2 DEF Ordered, OneFinalizer, Placed, Attended
  <2>5. Stands(dispatch, lisp, nested, queued, callback)'
    BY <2>2 DEF Ordered, Stands, IsExecution
  <2> QED BY <2>3, <2>4, <2>5 DEF Ordered
<1> QED BY <1>1, <1>2

\* A history command runs, or never will.
LEMMA HistoryOrdered ==
  ASSUME Ordered, HistoryRuns \/ HistoryTerminated
  PROVE  Ordered'
<1>t. /\ dispatch \in Dispatches /\ execution \in Executions
      /\ dispatch.kind = "History" /\ dispatch.phase = "Queued"
      /\ queued > 0 /\ queued' = queued - 1
      /\ UNCHANGED <<drawingVars, lisp, nested, callback, bounds>>
  BY DEF Ordered, TypeOK, HistoryRuns, HistoryTerminated
<1>r. RestTyped'
  BY <1>t DEF RestTyped, Ordered, TypeOK, drawingVars, bounds
<1>p. Placed'
  BY <1>t DEF Ordered, Placed
<1>1. PICK d \in Dispatches :
        /\ d.kind = "History" /\ d.undoGroup = "Inactive" /\ d.staged = "None"
        /\ ~d.symbolsKept /\ d.port = "none"
        /\ ScheduleFinalizer(d, execution)
  <2>1. ASSUME NEW result \in NativeResults, NEW p \in {"Queued", "Running"}
        PROVE  LET d == [dispatch EXCEPT !.phase = p, !.result = result] IN
               /\ d \in Dispatches
               /\ d.kind = "History" /\ d.undoGroup = "Inactive" /\ d.staged = "None"
               /\ ~d.symbolsKept /\ d.port = "none"
    BY <1>t DEF Dispatches, Ordered, Stands
  <2>2. CASE HistoryRuns
    <3>1. PICK result \in {"Success", "Refused", "NotQuiescent"} :
            ScheduleFinalizer([dispatch EXCEPT !.phase = "Running", !.result = result], execution)
      BY <2>2 DEF HistoryRuns
    <3> QED BY <2>1, <3>1, Results
  <2>3. CASE HistoryTerminated
    <3>1. [dispatch EXCEPT !.phase = "Queued", !.result = "Refused"]
            = [dispatch EXCEPT !.result = "Refused"]
      BY <1>t DEF Dispatches
    <3> QED BY <2>1, <2>3, <3>1, Results DEF HistoryTerminated
  <2> QED BY <2>2, <2>3
<1>2. Ends(d, execution)
  BY <1>t, <1>1, FinalizerIsScheduledOrEnds DEF Ordered
<1>3. lisp' = "none" /\ ~nested' /\ callback' = "out"
  BY <1>t DEF Ordered, Stands
<1> QED BY <1>t, <1>r, <1>p, <1>1, <1>2, <1>3, EndsOrders

\* The finalizer empties the slot.
LEMMA FinalizerRunsOrdered ==
  ASSUME Ordered, FinalizerRuns
  PROVE  Ordered'
<1>t. /\ dispatch \in Dispatches /\ execution \in Executions
      /\ finalizers > 0 /\ callback = "out" /\ finalizers' = finalizers - 1
      /\ finalizers = 1 /\ dispatch.phase = "Finalizing"
      /\ UNCHANGED <<alive, undo, changes, symbols, status, lispVars, bounds>>
  BY DEF Ordered, TypeOK, OneFinalizer, FinalizerRuns
<1>1. PICK d \in Dispatches : Complete(d, execution)
  <2>1. [dispatch EXCEPT !.result = "DocumentContextRestoreFailed"] \in Dispatches
    BY <1>t, Results DEF Dispatches
  <2> QED BY <1>t, <2>1 DEF FinalizerRuns
<1>2. active' \in {"target", "previous"}
  BY <1>t DEF FinalizerRuns, Ordered, TypeOK
<1>3. /\ dispatch' = NoDispatch /\ execution' = execution
      /\ reported' \in NativeResults /\ answer' \in Outcomes \cup {"none"}
      /\ quarantined' \in BOOLEAN
  <2>1. CASE d.kind = "ExecDriver"
    <3> DEFINE kind == FinalizationKind(d.result, Observation(d))
    <3>1. kind \in NativeResults
      BY DEF FinalizationKind, Dispatches, NativeResults
    <3> HIDE DEF kind
    <3>2. ExecutionAnswer(execution, kind) \in Outcomes \cup {"none"}
      BY <1>t, Results DEF ExecutionAnswer, OutcomeAnswer, RecordFinalizationFailure, ErrorOutcome,
         Executions
    <3>3. (quarantined \/ FinalizationQuarantines(d.result, Observation(d))) \in BOOLEAN
      BY DEF FinalizationQuarantines, RequiresQuarantine
    <3> QED BY <1>1, <2>1, <3>1, <3>2, <3>3 DEF Complete, kind
  <2>2. CASE d.kind # "ExecDriver"
    BY <1>1, <2>2 DEF Complete, Dispatches, RequiresQuarantine
  <2> QED BY <2>1, <2>2
<1>4. TypeOK'
  BY <1>t, <1>2, <1>3, NoDispatchType DEF Ordered, TypeOK, lispVars, bounds
<1>5. OneFinalizer' /\ Placed' /\ Attended'
  BY <1>t, <1>3, NoDispatchType DEF OneFinalizer, Ordered, Placed, Attended, lispVars
<1>6. Stands(NoDispatch, lisp', nested', queued', callback')
  BY NoDispatchType DEF Stands
<1>7. Stands(dispatch, lisp, nested, queued, callback)'
  BY <1>3, <1>6 DEF Stands, IsExecution
<1> QED BY <1>4, <1>5, <1>7 DEF Ordered

\* LISP starts: the driver's own expression, or one nested in it.
LEMMA StartsOrdered ==
  ASSUME Ordered, DriverStarts \/ NestedStarts
  PROVE  Ordered'
<1>t. dispatch \in Dispatches /\ execution \in Executions
  BY DEF Ordered, TypeOK
<1>s. Stands(dispatch, lisp, nested, queued, callback)
  BY DEF Ordered
<1>1. CASE DriverStarts
  <2>1. PICK d \in {dispatch, StartsDriver(dispatch)} : Keep(d, execution)
    BY <1>1 DEF DriverStarts
  <2>2. /\ queued > 0 /\ lisp = "none" /\ callback = "out" /\ dispatch.kind # "History"
        /\ queued' = queued - 1 /\ lisp' = "looping"
        /\ UNCHANGED <<drawingVars, nested, callback, bounds>>
    BY <1>1 DEF DriverStarts
  <2>3. ~nested
    BY <2>2 DEF Ordered, Placed, Commands
  <2>4. d = dispatch \/ /\ IsExecution(dispatch)
                        /\ d = [dispatch EXCEPT !.lifecycle = "Running", !.depth = 1]
    BY <1>s, <2>1, <2>2 DEF StartsDriver, Stands
  <2>5. queued - 1 \in Nat
    BY <2>2 DEF Ordered, TypeOK
  <2>6. RestTyped' /\ Placed'
    BY <2>2, <2>3, <2>5 DEF RestTyped, Placed, Ordered, TypeOK, drawingVars, bounds
  <2>7. /\ d \in Dispatches /\ d.kind = dispatch.kind /\ d.phase = dispatch.phase
        /\ Stands(d, lisp', nested', queued', callback')
    <3>1. CASE d = dispatch
      BY <1>t, <1>s, <2>2, <2>3, <2>5, <3>1 DEF Stands
    <3>2. CASE /\ IsExecution(dispatch)
               /\ d = [dispatch EXCEPT !.lifecycle = "Running", !.depth = 1]
      <4>1. dispatch.kind = "ExecDriver" /\ dispatch.phase \in {"Queued", "Running"}
        BY <3>2 DEF IsExecution
      <4>2. /\ d \in Dispatches /\ d.kind = dispatch.kind /\ d.phase = dispatch.phase
            /\ d.lifecycle = "Running" /\ d.depth = 1
        <5>1. d \in Dispatches
          BY <1>t, <3>2, Moved, Depths
        <5> QED BY <1>t, <3>2, <5>1 DEF Dispatches
      <4>3. queued = 1
        BY <1>s, <2>2, <3>2 DEF Stands
      <4> QED BY <2>2, <2>3, <4>1, <4>2, <4>3 DEF Stands, IsExecution
    <3> QED BY <2>4, <3>1, <3>2
  <2> QED BY <1>t, <2>1, <2>2, <2>6, <2>7, Keeps
<1>2. CASE NestedStarts
  <2>1. /\ ~nested /\ AutoCADRuns /\ nested' = TRUE
        /\ lisp = "evaluating" \/ callback # "out"
        /\ Keep(StartsOther(dispatch), execution)
        /\ UNCHANGED <<drawingVars, lisp, queued, callback, bounds>>
    BY <1>2 DEF NestedStarts
  <2>2. RestTyped' /\ Placed'
    BY <2>1 DEF RestTyped, Placed, Ordered, TypeOK, drawingVars, bounds, AutoCADRuns
  <2> DEFINE d == StartsOther(dispatch)
  <2>3. \/ /\ d = dispatch
           /\ IsExecution(d) => d.lifecycle \in {"AwaitingStart", "EndedDuringCallback"}
        \/ /\ IsExecution(dispatch)
           /\ dispatch.lifecycle \in {"Running", "InCallback", "AwaitingEnd"}
           /\ d = [dispatch EXCEPT !.depth = @ + 1]
    BY <1>s, <1>t DEF StartsOther, StartsDriver, Stands, IsExecution, Dispatches
  <2>4. dispatch.kind # "History"
    BY <1>s, <2>1 DEF Stands
  <2>5. /\ d \in Dispatches /\ d.kind = dispatch.kind /\ d.phase = dispatch.phase
        /\ Stands(d, lisp', nested', queued', callback')
    <3>1. CASE /\ d = dispatch
               /\ IsExecution(d) => d.lifecycle \in {"AwaitingStart", "EndedDuringCallback"}
      BY <1>t, <1>s, <2>1, <2>4, <3>1 DEF Stands
    <3>2. CASE /\ IsExecution(dispatch)
               /\ dispatch.lifecycle \in {"Running", "InCallback", "AwaitingEnd"}
               /\ d = [dispatch EXCEPT !.depth = @ + 1]
      <4> HIDE DEF d
      <4>1. dispatch.depth = 1
        BY <1>s, <2>1, <3>2 DEF Stands
      <4>2. d = [dispatch EXCEPT !.depth = 2]
        BY <3>2, <4>1
      <4> QED BY <1>t, <1>s, <2>1, <2>4, <3>2, <4>2 DEF Stands, IsExecution, Dispatches
    <3> QED BY <2>3, <3>1, <3>2
  <2> HIDE DEF d
  <2> QED BY <1>t, <2>1, <2>2, <2>5, Keeps DEF d
<1> QED BY <1>1, <1>2

-----------------------------------------------------------------------------
(***************************************************************************)
(* The handlers that follow LISP.                                          *)
(***************************************************************************)
\* AutoCAD reports the end of a LISP expression.
LEMMA LispEndsOrdered ==
  ASSUME Ordered, LispEnds
  PROVE  Ordered'
<1>t. dispatch \in Dispatches /\ execution \in Executions
  BY DEF Ordered, TypeOK
<1>s. Stands(dispatch, lisp, nested, queued, callback)
  BY DEF Ordered
<1>1. /\ \/ nested /\ nested' = FALSE /\ UNCHANGED lisp
         \/ ~nested /\ lisp # "none" /\ lisp' = "none" /\ UNCHANGED nested
      /\ ~nested'
      /\ Terminated
      /\ UNCHANGED <<drawingVars, queued, callback, bounds>>
  BY DEF LispEnds
<1>2. RestTyped' /\ Placed'
  BY <1>1 DEF RestTyped, Placed, Ordered, TypeOK, drawingVars, bounds
<1>3. CASE ~IsExecution(dispatch) \/ dispatch.lifecycle \in {"AwaitingStart", "Finalizing"}
  <2>1. Keep(dispatch, execution)
    BY <1>1, <1>3 DEF Terminated
  <2>2. Stands(dispatch, lisp', nested', queued', callback')
    <3>1. dispatch.kind # "History"
      BY <1>s, <1>1 DEF Stands
    <3>2. IsExecution(dispatch) => dispatch.lifecycle = "AwaitingStart"
      BY <1>s, <1>3 DEF Stands, IsExecution
    <3>3. queued' = queued
      BY <1>1
    <3>4. /\ lisp' = lisp \/ lisp' = "none"
          /\ UNCHANGED callback
      BY <1>1
    <3> QED BY <1>s, <3>1, <3>2, <3>3, <3>4 DEF Stands
  <2> QED BY <1>t, <1>1, <1>2, <2>1, <2>2, Keeps
<1>4. CASE IsExecution(dispatch) /\ dispatch.lifecycle \notin {"AwaitingStart", "Finalizing"}
  <2>0. dispatch.kind = "ExecDriver" /\ dispatch.phase \in {"Queued", "Running"}
    BY <1>4 DEF IsExecution
  <2>1. CASE dispatch.depth > 1
    <3>1. nested /\ dispatch.depth = 2 /\ UNCHANGED lisp
          /\ dispatch.lifecycle \notin {"AwaitingStart", "EndedDuringCallback"} /\ ~(queued > 0)
      BY <1>s, <1>1, <1>4, <2>1 DEF Stands
    <3> DEFINE d == [dispatch EXCEPT !.depth = 1]
    <3>2. Keep(d, execution)
      BY <1>1, <1>4, <2>1, <3>1 DEF Terminated
    <3>3. /\ d \in Dispatches /\ d.kind = dispatch.kind /\ d.phase = dispatch.phase
          /\ d.lifecycle = dispatch.lifecycle /\ d.depth = 1
      <4>1. d \in Dispatches
        BY <1>t, Moved, Depths
      <4> QED BY <1>t, <4>1 DEF Dispatches
    <3> HIDE DEF d
    <3>4. Stands(d, lisp', nested', queued', callback')
      BY <1>s, <1>1, <1>4, <2>0, <3>1, <3>3 DEF Stands, IsExecution
    <3> QED BY <1>t, <1>1, <1>2, <3>2, <3>3, <3>4, Keeps
  <2>2. CASE ~(dispatch.depth > 1)
    <3> DEFINE d == [dispatch EXCEPT !.depth = 0]
    <3>1. d \in Dispatches
      BY <1>t, Moved, Depths
    <3>2. d.kind = "ExecDriver" /\ d.phase = dispatch.phase /\ d.lifecycle = dispatch.lifecycle
      BY <1>t, <2>0, <3>1 DEF Dispatches
    <3>3. d.lifecycle = "InCallback" =>
            Keep([d EXCEPT !.lifecycle = "EndedDuringCallback"], execution)
      BY <1>1, <1>4, <2>2 DEF Terminated
    <3>4. d.lifecycle = "AwaitingEnd" => ScheduleExecutionFinalizer(d, execution)
      BY <1>1, <1>4, <2>2, <3>2 DEF Terminated
    <3>5. d.lifecycle \notin {"InCallback", "AwaitingEnd"} => FailDriver(d, execution)
      BY <1>1, <1>4, <2>2 DEF Terminated
    <3>6. CASE d.lifecycle = "InCallback"
      <4> DEFINE b == [d EXCEPT !.lifecycle = "EndedDuringCallback"]
      <4>1. b \in Dispatches
        BY <3>1 DEF Dispatches
      <4>2. b.kind = "ExecDriver" /\ b.phase = dispatch.phase /\ b.lifecycle = "EndedDuringCallback"
            /\ b.depth = 0
        BY <1>t, <3>2, <4>1 DEF Dispatches
      <4>3. ~(queued > 0)
        BY <1>s, <1>4, <3>2, <3>6 DEF Stands
      <4> HIDE DEF d, b
      <4>4. Stands(b, lisp', nested', queued', callback')
        BY <1>1, <2>0, <4>2, <4>3 DEF Stands, IsExecution
      <4> QED BY <1>t, <1>1, <1>2, <2>0, <3>3, <3>6, <4>1, <4>2, <4>4, Keeps DEF b
    <3> HIDE DEF d
    <3>7. CASE d.lifecycle = "AwaitingEnd"
      BY <1>t, <1>2, <2>0, <3>1, <3>2, <3>4, <3>7, ExecutionEndsOrders
    <3>8. CASE d.lifecycle \notin {"InCallback", "AwaitingEnd"}
      BY <1>t, <1>2, <2>0, <3>1, <3>2, <3>5, <3>8, FailDriverOrders
    <3> QED BY <3>6, <3>7, <3>8
  <2> QED BY <2>1, <2>2
<1> QED BY <1>3, <1>4

\* A form is evaluated.
LEMMA LispEvaluatesOrdered ==
  ASSUME Ordered, LispEvaluates
  PROVE  Ordered'
<1>t. dispatch \in Dispatches /\ execution \in Executions
  BY DEF Ordered, TypeOK
<1>1. PICK port \in IF dispatch.port = "open" THEN {"open", "invalid"} ELSE {dispatch.port} :
        Keep([dispatch EXCEPT !.port = port], execution)
  BY DEF LispEvaluates
<1> DEFINE d == [dispatch EXCEPT !.port = port]
<1>2. d \in Dispatches /\ SamePlace(d, dispatch)
  <2>1. port \in {"none", "open", "invalid"}
    BY <1>t DEF Dispatches
  <2> QED BY <1>t, <2>1 DEF Dispatches, SamePlace
<1>3. dispatch = NoDispatch => d = NoDispatch
  <2>1. dispatch = NoDispatch => port = dispatch.port
    BY NoDispatchType
  <2>2. port = dispatch.port => d = dispatch
    BY <1>t DEF Dispatches
  <2> QED BY <2>1, <2>2
<1> HIDE DEF d
<1>4. undo' \in {"Inactive", "Active"} /\ changes' \in {"none", "group", "escaped"}
  <2>1. CASE dispatch.staged = "Evaluator" /\ symbols /\ alive
    <3>1. PICK edit \in FormEdits : undo' = edit.undo /\ changes' = edit.changes
      BY <2>1 DEF LispEvaluates
    <3>2. edit.undo \in {"Inactive", "Active"} /\ edit.changes \in {"none", "group", "escaped"}
      <4>1. CASE edit = [undo |-> undo, changes |-> changes]
        BY <4>1 DEF Ordered, TypeOK
      <4>2. CASE \E u \in {"Active", "Inactive"} :
                   edit = [undo |-> u, changes |-> IF changes = "none" THEN "group" ELSE changes]
        BY <4>2 DEF Ordered, TypeOK
      <4>3. CASE edit = [undo |-> "Inactive", changes |-> "escaped"]
        BY <4>3
      <4>4. \/ edit = [undo |-> undo, changes |-> changes]
            \/ \E u \in {"Active", "Inactive"} :
                 edit = [undo |-> u, changes |-> IF changes = "none" THEN "group" ELSE changes]
            \/ edit = [undo |-> "Inactive", changes |-> "escaped"]
        BY DEF FormEdits
      <4> QED BY <4>1, <4>2, <4>3, <4>4
    <3> QED BY <3>1, <3>2
  <2>2. CASE ~(dispatch.staged = "Evaluator" /\ symbols /\ alive)
    BY <2>2 DEF LispEvaluates, Ordered, TypeOK
  <2> QED BY <2>1, <2>2
<1>5. /\ lisp = "evaluating" /\ callback = "out" /\ ~nested /\ lisp' = "looping"
      /\ status' \in {"ok", "nil"} /\ symbols' = TRUE
      /\ UNCHANGED <<active, alive, nested, queued, callback, bounds>>
  BY DEF LispEvaluates
<1>6. RestTyped' /\ Placed'
  BY <1>4, <1>5 DEF RestTyped, Placed, Ordered, TypeOK, bounds
<1>7. Stands(d, lisp', nested', queued', callback')
  <2>1. Stands(dispatch, lisp, nested, queued, callback)
    BY DEF Ordered
  <2> QED BY <1>2, <1>3, <1>5, <2>1, NoDispatchType DEF Stands, SamePlace, IsExecution
<1> QED BY <1>t, <1>1, <1>2, <1>5, <1>6, <1>7, Keeps DEF d, SamePlace

\* The driver calls the host: it is refused, or the callback starts.
LEMMA AdvanceStartsOrdered ==
  ASSUME Ordered,
         AdvanceRefused \/ AdvanceUnusable \/ AdvanceContinues
           \/ CollectsEvaluation \/ CollectsEmission
  PROVE  Ordered'
<1>t. dispatch \in Dispatches /\ execution \in Executions
  BY DEF Ordered, TypeOK
<1>s. Stands(dispatch, lisp, nested, queued, callback)
  BY DEF Ordered
<1>1. CASE AdvanceRefused
  <2>1. /\ lisp = "looping" /\ callback = "out" /\ lisp' = "ending"
        /\ UNCHANGED <<drawingVars, nested, queued, callback, bounds>>
    BY <1>1 DEF AdvanceRefused
  <2>2. ~nested /\ RestTyped' /\ Placed'
    BY <2>1 DEF RestTyped, Placed, Ordered, TypeOK, drawingVars, bounds, Commands
  <2>3. CASE ~IsExecution(dispatch) /\ Keep(dispatch, execution)
    <3>1. Stands(dispatch, lisp', nested', queued', callback')
      BY <1>s, <2>1, <2>3 DEF Stands
    <3> QED BY <1>t, <2>1, <2>2, <2>3, <3>1, Keeps
  <2>4. CASE /\ IsExecution(dispatch) /\ dispatch.lifecycle \notin {"AwaitingStart", "Running"}
             /\ FailDriver(dispatch, execution)
    <3>1. dispatch.kind = "ExecDriver" /\ dispatch.phase # "Finalizing"
      BY <2>4 DEF IsExecution
    <3> QED BY <1>t, <2>2, <2>4, <3>1, FailDriverOrders
  <2> QED BY <1>1, <2>3, <2>4 DEF AdvanceRefused
<1>i. InCallback(dispatch) \in Dispatches
  <2>1. (IF dispatch.lifecycle = "AwaitingStart" THEN 1 ELSE dispatch.depth) \in 0..2
    BY <1>t DEF Dispatches
  <2> QED BY <1>t, <2>1, Moved DEF InCallback
<1>2. ASSUME AdvanceStarts, NEW d \in Dispatches, NEW e \in Executions, Keep(d, e),
             SamePlace(d, InCallback(dispatch)),
             symbols' \in BOOLEAN,
             UNCHANGED <<active, alive, undo, changes, status, lisp, nested, queued, bounds>>
      PROVE  Ordered'
  <2>1. /\ lisp = "looping" /\ callback = "out" /\ callback' = "loop"
        /\ IsExecution(dispatch) /\ dispatch.lifecycle \in {"AwaitingStart", "Running"}
    BY <1>2 DEF AdvanceStarts
  <2>2. ~nested
    BY <2>1 DEF Ordered, Placed, Commands
  <2>3. RestTyped' /\ Placed'
    BY <1>2, <2>1, <2>2 DEF RestTyped, Placed, Ordered, TypeOK, bounds, Commands
  <2>4. dispatch.kind = "ExecDriver" /\ dispatch.phase \in {"Queued", "Running"}
    BY <2>1 DEF IsExecution
  <2>5. d.kind = "ExecDriver" /\ d.phase = "Running" /\ d.lifecycle = "InCallback" /\ d.depth = 1
    <3>1. dispatch.lifecycle = "Running" => dispatch.depth = 1
      BY <1>s, <2>1, <2>2 DEF Stands
    <3> QED BY <1>t, <1>2, <2>1, <2>4, <3>1 DEF SamePlace, InCallback, Dispatches
  <2>6. ~(queued > 0)
    BY <1>s, <2>1 DEF Stands
  <2>7. Stands(d, lisp', nested', queued', callback')
    BY <1>2, <2>1, <2>2, <2>5, <2>6 DEF Stands, IsExecution
  <2> QED BY <1>2, <2>1, <2>3, <2>4, <2>5, <2>7, Keeps
<1>p. \A result \in NativeResults :
         LET d == [InCallback(dispatch) EXCEPT !.result = result] IN
         d \in Dispatches /\ SamePlace(d, InCallback(dispatch))
  BY <1>i DEF Dispatches, SamePlace
<1>3. CASE AdvanceUnusable
  <2>1. PICK result \in {"Refused", "ExecBridgeFailed"} :
          Keep([InCallback(dispatch) EXCEPT !.result = result], execution)
    BY <1>3 DEF AdvanceUnusable
  <2>2. result \in NativeResults
    BY Results
  <2>3. symbols' \in BOOLEAN
    BY <1>3 DEF AdvanceUnusable, drawingVars, Ordered, TypeOK
  <2> QED BY <1>2, <1>3, <1>p, <1>t, <2>1, <2>2, <2>3 DEF AdvanceUnusable, drawingVars
<1>4. CASE AdvanceContinues
  <2>1. symbols' \in BOOLEAN
    BY <1>4 DEF AdvanceContinues, drawingVars, Ordered, TypeOK
  <2> QED BY <1>2, <1>4, <1>i, <1>t, <2>1 DEF AdvanceContinues, drawingVars, SamePlace
<1>5. CASE CollectsEvaluation
  <2>1. PICK c \in Finishes(status = "ok", execution.mode = "Eval"), seen \in {undo, "Unknown"} :
          LET d == [InCallback(dispatch) EXCEPT !.port = "none", !.staged = "None",
                                                !.symbolsKept = c.kept, !.undoGroup = seen] IN
          /\ symbols' = c.symbols
          /\ Keep(BadStep(d, execution),
                  CompletedStep(execution, StepResult(c.ok /\ seen = "Active", dispatch)))
    BY <1>5 DEF CollectsEvaluation
  <2>2. c.symbols \in BOOLEAN /\ c.kept \in BOOLEAN
    BY FinishesFacts DEF Ordered
  <2>3. seen \in UndoGroupStates
    BY DEF Ordered, TypeOK, UndoGroupStates
  <2> DEFINE d == [InCallback(dispatch) EXCEPT !.port = "none", !.staged = "None",
                                                !.symbolsKept = c.kept, !.undoGroup = seen]
             e == CompletedStep(execution, StepResult(c.ok /\ seen = "Active", dispatch))
  <2>4. d \in Dispatches /\ SamePlace(d, InCallback(dispatch))
    BY <1>i, <2>2, <2>3 DEF Dispatches, SamePlace
  <2>5. e \in Executions
    BY <1>t, StepResultType, CompletedStepType
  <2>6. Keep(BadStep(d, execution), e)
    BY <2>1
  <2> HIDE DEF d, e
  <2>7. /\ BadStep(d, execution) \in Dispatches
        /\ SamePlace(BadStep(d, execution), InCallback(dispatch))
    BY <2>4, BadStepFacts DEF SamePlace
  <2> QED BY <1>2, <1>5, <2>1, <2>2, <2>5, <2>6, <2>7 DEF CollectsEvaluation
<1>6. CASE CollectsEmission
  <2>1. PICK c \in Finishes(status = "ok", FALSE) :
          LET d == [InCallback(dispatch) EXCEPT !.port = "none", !.staged = "None",
                                                !.symbolsKept = c.kept] IN
          /\ symbols' = c.symbols
          /\ Keep(BadStep(d, execution), CompletedStep(execution, StepResult(c.ok, dispatch)))
    BY <1>6 DEF CollectsEmission
  <2>2. c.symbols \in BOOLEAN /\ c.kept \in BOOLEAN
    BY FinishesFacts DEF Ordered
  <2> DEFINE d == [InCallback(dispatch) EXCEPT !.port = "none", !.staged = "None",
                                                !.symbolsKept = c.kept]
             e == CompletedStep(execution, StepResult(c.ok, dispatch))
  <2>4. d \in Dispatches /\ SamePlace(d, InCallback(dispatch))
    BY <1>i, <2>2 DEF Dispatches, SamePlace
  <2>5. e \in Executions
    BY <1>t, StepResultType, CompletedStepType
  <2>6. Keep(BadStep(d, execution), e)
    BY <2>1
  <2> HIDE DEF d, e
  <2>7. /\ BadStep(d, execution) \in Dispatches
        /\ SamePlace(BadStep(d, execution), InCallback(dispatch))
    BY <2>4, BadStepFacts DEF SamePlace
  <2> QED BY <1>2, <1>6, <2>1, <2>2, <2>5, <2>6, <2>7 DEF CollectsEmission
<1> QED BY <1>1, <1>3, <1>4, <1>5, <1>6

\* The callback returns to LISP.
LEMMA AdvanceReturnsOrdered ==
  ASSUME Ordered, AdvanceReturns
  PROVE  Ordered'
<1>t. dispatch \in Dispatches /\ execution \in Executions
  BY DEF Ordered, TypeOK
<1>s. Stands(dispatch, lisp, nested, queued, callback)
  BY DEF Ordered
<1>1. PICK returned \in BOOLEAN :
       LET handsOff == callback = "handOff" /\ returned
           d == IF dispatch.phase = "none" THEN dispatch
                ELSE [dispatch EXCEPT
                        !.result = IF returned THEN @ ELSE "ExecBridgeFailed",
                        !.port = IF handsOff THEN @ ELSE "none"]
       IN /\ FinishAdvance(d, execution, returned /\ ~handsOff)
          /\ lisp' = CASE lisp = "none" -> "none"
                       [] lisp # "none" /\ handsOff -> "evaluating"
                       [] OTHER -> "ending"
  BY DEF AdvanceReturns
<1> DEFINE handsOff == callback = "handOff" /\ returned
           r == IF returned THEN dispatch.result ELSE "ExecBridgeFailed"
           port == IF handsOff THEN dispatch.port ELSE "none"
           f == [dispatch EXCEPT !.result = r, !.port = port]
           d == IF dispatch.phase = "none" THEN dispatch ELSE f
           ready == returned /\ ~handsOff
<1>2. d \in Dispatches /\ SamePlace(d, dispatch)
  <2>1. r \in NativeResults /\ port \in {"none", "open", "invalid"}
    BY <1>t, Results DEF Dispatches
  <2> HIDE DEF r, port
  <2>2. f \in Dispatches /\ SamePlace(f, dispatch)
    BY <1>t, <2>1 DEF Dispatches, SamePlace
  <2> QED BY <1>t, <2>2 DEF SamePlace
<1>3. FinishAdvance(d, execution, ready)
  BY <1>1
<1>4. dispatch = NoDispatch => d = NoDispatch
  BY NoDispatchType
<1>5. /\ callback \in {"exit", "handOff"} /\ callback' = "out"
      /\ lisp' \in {"none", "evaluating", "ending"} /\ (lisp = "none" => lisp' = "none")
      /\ UNCHANGED <<drawingVars, nested, queued, bounds>>
  BY <1>1 DEF AdvanceReturns
<1>b. ready \in BOOLEAN
  OBVIOUS
<1> HIDE DEF d, ready, r, port, f, handsOff
<1>6. ~nested /\ lisp \in {"looping", "none"} /\ callback # "out"
  BY <1>5 DEF Ordered, Placed, Commands
<1>7. RestTyped' /\ Placed'
  BY <1>5, <1>6 DEF RestTyped, Placed, Ordered, TypeOK, drawingVars, bounds
<1>8. CASE d.kind # "ExecDriver" \/ d.phase = "Finalizing"
  <2>1. Keep(d, execution)
    BY <1>3, <1>8 DEF FinishAdvance, IsExecution
  <2>2. Stands(d, lisp', nested', queued', callback')
    BY <1>2, <1>4, <1>5, <1>6, <1>8, <1>s DEF Stands, SamePlace, IsExecution
  <2> QED BY <1>t, <1>2, <1>5, <1>7, <2>1, <2>2, Keeps DEF SamePlace
<1>9. CASE d.kind = "ExecDriver" /\ d.phase # "Finalizing"
  <2>0. dispatch.kind = "ExecDriver" /\ dispatch.phase # "Finalizing"
    BY <1>2, <1>9 DEF SamePlace
  <2>1. CASE IsExecution(d) /\ d.lifecycle = "EndedDuringCallback" /\ ready
    <3>1. ScheduleExecutionFinalizer(d, execution)
      BY <1>3, <1>9, <2>1 DEF FinishAdvance
    <3> QED BY <1>t, <1>2, <1>7, <1>9, <2>0, <3>1, ExecutionEndsOrders
  <2>2. CASE IsExecution(d) /\ d.lifecycle = "InCallback"
    <3> DEFINE l == IF ready THEN "AwaitingEnd" ELSE "Running"
               b == [d EXCEPT !.lifecycle = l]
    <3>1. Keep(b, execution)
      BY <1>3, <1>9, <2>2 DEF FinishAdvance
    <3>2. l \in {"AwaitingEnd", "Running"}
      OBVIOUS
    <3> HIDE DEF l
    <3>3. b \in Dispatches
      BY <1>2, <3>2, Moved, Depths
    <3>4. b.kind = d.kind /\ b.phase = d.phase /\ b.lifecycle = l /\ b.depth = d.depth
      BY <1>2, <3>3 DEF Dispatches
    <3> HIDE DEF b
    <3>5. d.depth = 1 /\ ~(queued > 0)
      BY <1>2, <1>6, <2>2, <1>s DEF Stands, SamePlace, IsExecution
    <3>6. Stands(b, lisp', nested', queued', callback')
      BY <1>5, <1>6, <1>9, <2>2, <3>2, <3>4, <3>5 DEF Stands, IsExecution
    <3> QED BY <1>t, <1>5, <1>7, <1>9, <2>0, <3>1, <3>3, <3>4, <3>6, Keeps
  <2>3. CASE /\ ~(IsExecution(d) /\ d.lifecycle = "EndedDuringCallback" /\ ready)
             /\ ~(IsExecution(d) /\ d.lifecycle = "InCallback")
    <3>1. FailDriver(d, execution)
      BY <1>3, <1>9, <2>3 DEF FinishAdvance
    <3> QED BY <1>t, <1>2, <1>7, <1>9, <2>0, <3>1, FailDriverOrders
  <2> QED BY <2>1, <2>2, <2>3
<1> QED BY <1>8, <1>9

\* A lost context costs at most the symbols.
LEMMA LosesContextFacts ==
  ASSUME TypeOK, NEW d \in Dispatches, NEW c \in LosesContext(d)
  PROVE  /\ c.d \in Dispatches /\ SamePlace(c.d, d)
         /\ c.symbols \in BOOLEAN
         /\ c.d.result = "Success"
         /\ c.d.undoGroup = d.undoGroup /\ c.d.staged = d.staged /\ c.d.restore = d.restore
         /\ c.symbols => symbols /\ (d.symbolsKept => c.d.symbolsKept)
<1>1. CASE ContextMatches /\ d.symbolsKept
  <2>1. PICK b \in Clears :
          c = [d |-> [d EXCEPT !.symbolsKept = ~b.ok, !.result = "Success"], symbols |-> b.symbols]
    BY <1>1 DEF LosesContext
  <2>2. b.symbols \in BOOLEAN /\ b.ok \in BOOLEAN /\ (b.symbols => symbols /\ ~b.ok)
    BY ClearsFacts
  <2>3. c.d = [d EXCEPT !.symbolsKept = ~b.ok, !.result = "Success"] /\ c.symbols = b.symbols
    BY <2>1
  <2> QED BY <2>2, <2>3, Results DEF Dispatches, SamePlace
<1>2. CASE ~(ContextMatches /\ d.symbolsKept)
  <2>1. c = [d |-> [d EXCEPT !.result = "Success"], symbols |-> symbols]
    BY <1>2 DEF LosesContext
  <2>2. c.d = [d EXCEPT !.result = "Success"] /\ c.symbols = symbols
    BY <2>1
  <2> QED BY <2>2, Results DEF Dispatches, SamePlace, TypeOK
<1> QED BY <1>1, <1>2

\* A driver that is sent again waits for its start.
LEMMA ResentFacts ==
  ASSUME NEW d \in Dispatches
  PROVE  /\ Resent(d) \in Dispatches
         /\ Resent(d).kind = d.kind /\ Resent(d).phase = "Queued"
         /\ Resent(d).lifecycle = "AwaitingStart" /\ Resent(d).depth = 0
         /\ Resent(d).undoGroup = d.undoGroup /\ Resent(d).staged = d.staged
         /\ Resent(d).symbolsKept = d.symbolsKept /\ Resent(d).restore = d.restore
         /\ Resent(d).result = d.result
<1>1. Resent(d) \in Dispatches
  BY Moved, Depths DEF Resent
<1> QED BY <1>1 DEF Resent, Dispatches

\* AutoCAD cancels LISP, and the driver is sent again to unwind.
LEMMA LispCancelledOrdered ==
  ASSUME Ordered, LispCancelled
  PROVE  Ordered'
<1>t. dispatch \in Dispatches /\ execution \in Executions /\ symbols \in BOOLEAN /\ queued \in Nat
  BY DEF Ordered, TypeOK
<1>s. Stands(dispatch, lisp, nested, queued, callback)
  BY DEF Ordered
<1>1. /\ lisp # "none" \/ nested
      /\ interruptions < MaxInterruptions /\ interruptions' = interruptions + 1
      /\ \/ lisp' = "none"
         \/ nested /\ callback # "out" /\ UNCHANGED lisp
      /\ ~nested'
      /\ UNCHANGED <<active, alive, undo, changes, status, callback, dispatches>>
  BY DEF LispCancelled
<1>2. Placed'
  BY <1>1 DEF Ordered, Placed
<1>3. ASSUME symbols' \in BOOLEAN, queued' \in Nat
      PROVE  RestTyped'
  <2>1. interruptions + 1 \in 0..MaxInterruptions
    BY <1>1, DriverAssumption DEF Ordered, TypeOK
  <2>2. lisp' \in {"none", "looping", "evaluating", "ending"} /\ nested' \in BOOLEAN
    BY <1>1 DEF LispCancelled, Ordered, TypeOK
  <2> QED BY <1>1, <1>3, <2>1, <2>2 DEF RestTyped, Ordered, TypeOK
<1>4. CASE ~IsExecution(dispatch) \/ dispatch.lifecycle \in {"AwaitingStart", "Finalizing"}
  <2>1. Keep(dispatch, execution) /\ UNCHANGED <<symbols, queued>>
    BY <1>4 DEF LispCancelled
  <2>2. Stands(dispatch, lisp', nested', queued', callback')
    <3>1. dispatch.kind # "History"
      BY <1>s, <1>1 DEF Stands
    <3>2. IsExecution(dispatch) => dispatch.lifecycle = "AwaitingStart"
      BY <1>s, <1>4 DEF Stands, IsExecution
    <3>3. /\ lisp' = lisp \/ lisp' = "none"
          /\ UNCHANGED <<callback, queued>>
      BY <1>1, <2>1
    <3> QED BY <1>s, <3>1, <3>2, <3>3 DEF Stands
  <2> QED BY <1>t, <1>1, <1>2, <1>3, <2>1, <2>2, Keeps
<1>5. CASE IsExecution(dispatch) /\ dispatch.lifecycle \notin {"AwaitingStart", "Finalizing"}
  <2>0. dispatch.kind = "ExecDriver" /\ dispatch.phase # "Finalizing" /\ queued = 0
    <3>1. ~(queued > 0)
      BY <1>s, <1>5 DEF Stands
    <3> QED BY <1>5, <1>t, <3>1 DEF IsExecution
  <2> DEFINE d == [dispatch EXCEPT !.port = "none"]
  <2>1. d \in Dispatches /\ d.kind = "ExecDriver"
    BY <1>t, <2>0 DEF Dispatches
  <2>2. \/ RecoverLost(d)
        \/ RecoverStaged(d)
        \/ Resend(d, Abandon(execution)) /\ UNCHANGED symbols
    BY <1>5 DEF LispCancelled, Recover
  <2> HIDE DEF d
  <2>3. ASSUME NEW b \in Dispatches, NEW e \in Executions, b.kind = "ExecDriver", Resend(b, e),
               symbols' \in BOOLEAN
        PROVE  Ordered'
    <3>1. CASE Keep(Resent(b), e) /\ queued' = queued + 1
      <4>1. queued' = 1
        BY <2>0, <3>1
      <4>2. RestTyped'
        BY <1>3, <2>3, <4>1
      <4>3. callback' = "out" => lisp' = "none"
        BY <1>1
      <4>4. Stands(Resent(b), lisp', nested', queued', callback')
        BY <2>3, <4>1, <4>3, ResentFacts DEF Stands
      <4> QED BY <1>1, <1>2, <2>0, <2>3, <3>1, <4>2, <4>4, ResentFacts, Keeps
    <3>2. CASE /\ ScheduleExecutionFinalizer([Resent(b) EXCEPT !.result = "Refused"], e)
               /\ UNCHANGED queued
      <4> DEFINE f == [Resent(b) EXCEPT !.result = "Refused"]
      <4>1. f \in Dispatches /\ f.kind = "ExecDriver"
        BY <2>3, ResentFacts, Results DEF Dispatches
      <4>2. RestTyped'
        BY <1>t, <1>3, <2>3, <3>2
      <4> HIDE DEF f
      <4> QED BY <1>2, <2>0, <2>3, <3>2, <4>1, <4>2, ExecutionEndsOrders DEF f
    <3> QED BY <2>3, <3>1, <3>2 DEF Resend
  <2>4. CASE RecoverLost(d)
    <3> DEFINE b == [d EXCEPT !.symbolsKept = @ \/ d.staged # "None"]
    <3>1. PICK c \in LosesContext(b) :
            /\ symbols' = c.symbols
            /\ ScheduleExecutionFinalizer(c.d, Abandon(execution))
            /\ UNCHANGED queued
      BY <2>4 DEF RecoverLost
    <3>2. b \in Dispatches /\ b.kind = "ExecDriver"
      BY <2>1 DEF Dispatches
    <3> HIDE DEF b
    <3>3. c.d \in Dispatches /\ c.d.kind = "ExecDriver" /\ c.symbols \in BOOLEAN
      BY <3>2, LosesContextFacts DEF Ordered, SamePlace
    <3>4. RestTyped'
      BY <1>t, <1>3, <3>1, <3>3
    <3> QED BY <1>t, <1>2, <2>0, <3>1, <3>3, <3>4, AbandonType, ExecutionEndsOrders
  <2>5. CASE RecoverStaged(d)
    <3>1. PICK c \in Finishes(FALSE, FALSE) :
            /\ symbols' = c.symbols
            /\ Resend([d EXCEPT !.symbolsKept = c.kept, !.staged = "None"],
                      IF execution.phase \in AwaitedSteps THEN CompleteStep(execution, "failed")
                      ELSE Abandon(execution))
      BY <2>5 DEF RecoverStaged
    <3>2. c.symbols \in BOOLEAN /\ c.kept \in BOOLEAN
      BY FinishesFacts DEF Ordered
    <3> DEFINE b == [d EXCEPT !.symbolsKept = c.kept, !.staged = "None"]
               e == IF execution.phase \in AwaitedSteps THEN CompleteStep(execution, "failed")
                    ELSE Abandon(execution)
    <3>3. b \in Dispatches /\ b.kind = "ExecDriver"
      BY <2>1, <3>2 DEF Dispatches
    <3>4. e \in Executions
      BY <1>t, AbandonType, CompleteStepType DEF StepResults
    <3> HIDE DEF b, e
    <3> QED BY <2>3, <3>1, <3>2, <3>3, <3>4 DEF b, e
  <2>6. CASE Resend(d, Abandon(execution)) /\ UNCHANGED symbols
    BY <1>t, <2>1, <2>3, <2>6, AbandonType
  <2> QED BY <2>2, <2>4, <2>5, <2>6
<1> QED BY <1>4, <1>5

\* A cancel or a deadline touches the execution only.
LEMMA InterruptionType ==
  ASSUME Ordered, ExecutionInterrupted
  PROVE  /\ Keep(dispatch, execution')
         /\ execution' \in Executions
         /\ UNCHANGED <<drawingVars, lispVars, bounds>>
  BY RequestCancelType, ExpireType DEF ExecutionInterrupted, Ordered, TypeOK, Keep

\* The target document goes, another one takes its place, the client cancels.
LEMMA EnvironmentOrdered ==
  ASSUME Ordered,
         AnotherDocumentActivates \/ TargetDestroyed \/ TargetReloaded \/ ExecutionInterrupted
  PROVE  Ordered'
<1>t. dispatch \in Dispatches /\ execution \in Executions
  BY DEF Ordered, TypeOK
<1>s. Stands(dispatch, lisp, nested, queued, callback)
  BY DEF Ordered
<1>1. CASE AnotherDocumentActivates \/ TargetReloaded \/ ExecutionInterrupted
  <2>1. /\ Keep(dispatch, execution') /\ execution' \in Executions
        /\ UNCHANGED <<undo, changes, symbols, status, lispVars, bounds>>
        /\ active' \in {"target", "previous"} /\ alive' \in BOOLEAN
    <3>1. CASE AnotherDocumentActivates \/ TargetReloaded
      BY <1>t, <3>1 DEF AnotherDocumentActivates, TargetReloaded, hostVars, Keep, Ordered, TypeOK
    <3>2. CASE ExecutionInterrupted
      BY <3>2, InterruptionType DEF drawingVars, Ordered, TypeOK
    <3> QED BY <1>1, <3>1, <3>2
  <2>2. RestTyped' /\ Placed'
    BY <2>1 DEF RestTyped, Placed, Ordered, TypeOK, lispVars, bounds
  <2>3. Stands(dispatch, lisp', nested', queued', callback')
    BY <1>s, <2>1 DEF lispVars
  <2> QED BY <1>t, <2>1, <2>2, <2>3, Keeps DEF lispVars
<1>2. CASE TargetDestroyed
  <2>1. /\ alive' = FALSE /\ queued' = 0
        /\ UNCHANGED <<active, undo, changes, symbols, status, lisp, nested, callback, bounds>>
    BY <1>2 DEF TargetDestroyed
  <2>2. RestTyped' /\ Placed'
    BY <2>1 DEF RestTyped, Placed, Ordered, TypeOK, bounds
  <2>3. CASE dispatch.phase = "Queued"
    <3> DEFINE d == [dispatch EXCEPT !.result = "Refused"]
    <3>1. /\ d \in Dispatches /\ d.kind = dispatch.kind /\ d.undoGroup = dispatch.undoGroup
          /\ d.staged = dispatch.staged /\ d.symbolsKept = dispatch.symbolsKept
          /\ d.port = dispatch.port
      BY <1>t, Results DEF Dispatches
    <3>2. ScheduleFinalizer(d, execution)
      BY <1>2, <2>3 DEF TargetDestroyed
    <3> HIDE DEF d
    <3>3. Ends(d, execution)
      BY <1>t, <3>1, <3>2, FinalizerIsScheduledOrEnds DEF Ordered
    <3>4. dispatch.kind # "none"
      BY <1>s, <2>3, NoDispatchType DEF Stands
    <3>5. callback # "out" => d.kind = "ExecDriver"
      BY <2>3, <3>1, NoDispatchType DEF Ordered, Attended
    <3>6. d.kind = "History" =>
           /\ d.undoGroup = "Inactive" /\ d.staged = "None"
           /\ ~d.symbolsKept /\ d.port = "none"
           /\ lisp' = "none" /\ ~nested' /\ callback' = "out"
      BY <1>s, <2>1, <3>1 DEF Stands
    <3> QED BY <1>t, <2>1, <2>2, <2>3, <3>1, <3>3, <3>4, <3>5, <3>6, EndsOrders
  <2>4. CASE dispatch.phase # "Queued"
    <3>1. Keep(dispatch, execution)
      BY <1>2, <2>4 DEF TargetDestroyed
    <3>2. Stands(dispatch, lisp', nested', queued', callback')
      BY <1>s, <2>1 DEF Stands
    <3> QED BY <1>t, <2>1, <2>2, <3>1, <3>2, Keeps
  <2> QED BY <2>3, <2>4
<1> QED BY <1>1, <1>2

\* Every step keeps the order.
LEMMA OrderedSteps ==
  ASSUME Ordered, [Next]_vars
  PROVE  Ordered'
<1>1. CASE UNCHANGED vars
  <2>1. /\ UNCHANGED <<dispatch, execution, finalizers, reported, answer, quarantined>>
        /\ UNCHANGED <<active, alive, undo, changes, symbols, status>>
        /\ UNCHANGED <<lisp, nested, queued, callback, dispatches, interruptions>>
    BY <1>1 DEF vars, hostVars, drawingVars, lispVars, bounds
  <2>2. TypeOK' /\ OneFinalizer' /\ Placed' /\ Attended'
    BY <2>1 DEF Ordered, TypeOK, OneFinalizer, Placed, Attended
  <2>3. Stands(dispatch, lisp, nested, queued, callback)'
    BY <2>1 DEF Ordered, Stands, IsExecution
  <2> QED BY <2>2, <2>3 DEF Ordered
<1>2. CASE HostStep
  BY <1>2, DispatchOrdered, HistoryOrdered, FinalizerRunsOrdered DEF HostStep
<1>3. CASE LispStep
  BY <1>3, StartsOrdered, LispEndsOrdered, LispEvaluatesOrdered DEF LispStep
<1>4. CASE AdvanceStep
  BY <1>4, AdvanceStartsOrdered, LoopStepsInTheLoop, LoopIsOrdered, AdvanceReturnsOrdered
     DEF AdvanceStep
<1>5. CASE LispCancelled \/ AnotherDocumentActivates \/ TargetDestroyed \/ TargetReloaded
             \/ ExecutionInterrupted
  BY <1>5, LispCancelledOrdered, EnvironmentOrdered
<1> QED BY <1>1, <1>2, <1>3, <1>4, <1>5 DEF Next

\* The host starts in order.
LEMMA InitOrdered == Init => Ordered
<1> SUFFICES ASSUME Init PROVE Ordered
  OBVIOUS
<1>1. TypeOK
  <2>1. 0 \in 0..MaxDispatches /\ 0 \in 0..MaxInterruptions
    BY DriverAssumption
  <2>2. dispatch \in Dispatches /\ execution \in Executions
    BY NoDispatchType, DroppedType DEF Init
  <2> QED BY <2>1, <2>2 DEF Init, TypeOK
<1>2. OneFinalizer /\ Placed /\ Attended
  BY NoDispatchType DEF Init, OneFinalizer, Placed, Attended
<1>3. Stands(dispatch, lisp, nested, queued, callback)
  BY NoDispatchType DEF Init, Stands
<1> QED BY <1>1, <1>2, <1>3 DEF Ordered

\* The first invariant holds of every behaviour.
LEMMA OrderedAlways == Spec => []Ordered
  BY InitOrdered, OrderedSteps, PTL DEF Spec

\* The variables stay in their types, and a dispatch that is finalizing has one
\* finalizer scheduled with AutoCAD, and no other has any.
THEOREM DispatchTypeCorrect == Spec => [](TypeOK /\ OneFinalizer)
<1>1. Ordered => TypeOK /\ OneFinalizer
  BY DEF Ordered
<1> QED BY <1>1, OrderedAlways, PTL

-----------------------------------------------------------------------------
(***************************************************************************)
(* Second invariant: what the drawing shows is covered by what the         *)
(* dispatch records.                                                       *)
(***************************************************************************)
\* What the drawing shows, the dispatch knows of: an open group, symbols with a
\* value, and a form that LISP is to evaluate.
Covered(d, u, s, l, c) ==
  /\ u = "Active" => d.undoGroup # "Inactive"
  /\ s => d.symbolsKept \/ d.staged # "None"
  /\ l = "evaluating" => d.staged # "None"
  /\ c = "handOff" => d.staged # "None"

\* The inductive invariant under the clean end.
Clean == ~quarantined => Covered(dispatch, undo, symbols, lisp, callback)

\* Two dispatches that know the same of the drawing.
SameMarks(d, b) ==
  /\ d.undoGroup = b.undoGroup /\ d.staged = b.staged
  /\ d.symbolsKept = b.symbolsKept /\ d.restore = b.restore

\* What a step of the host makes of the dispatch, other than sending it and
\* running its finalizer.
Carries(d, e) == Keep(d, e) \/ Ends(d, e)

\* The document to give back is remembered to the end.
RestoreKept == dispatch'.restore = dispatch.restore \/ quarantined'

\* A dispatch that is carried on keeps the document to give back ...
LEMMA CarriesRestore ==
  ASSUME NEW d \in Dispatches, NEW e, Carries(d, e), d.restore = dispatch.restore
  PROVE  RestoreKept
  BY DEF Carries, Keep, Ends, RestoreKept, Dispatches

\* ... and covers the drawing, if the dispatch handed on does.
LEMMA CarriesClean ==
  ASSUME NEW d \in Dispatches, NEW e, Carries(d, e),
         ~quarantined => Covered(d, undo', symbols', lisp', callback')
  PROVE  Clean'
<1>1. CASE Keep(d, e)
  BY <1>1 DEF Keep, Clean, Covered
<1>2. CASE Ends(d, e)
  BY <1>2 DEF Ends, Clean, Covered, Dispatches
<1> QED BY <1>1, <1>2 DEF Carries

\* A driver that fails is carried to its end.
LEMMA FailDriverCarries ==
  ASSUME TypeOK, NEW d \in Dispatches, NEW e \in Executions, FailDriver(d, e)
  PROVE  \E b \in Dispatches : Carries(b, e) /\ SameMarks(b, d)
<1>1. CASE d.kind # "ExecDriver" \/ d.phase = "Finalizing"
  BY <1>1 DEF FailDriver, Carries, SameMarks
<1>2. CASE ~(d.kind # "ExecDriver" \/ d.phase = "Finalizing")
  <2> DEFINE f == [d EXCEPT !.port = "none", !.result = "ExecBridgeFailed"]
             b == [f EXCEPT !.lifecycle = "Finalizing"]
  <2>1. f \in Dispatches /\ SameMarks(f, d)
    BY Results DEF Dispatches, SameMarks
  <2>2. ScheduleExecutionFinalizer(f, e)
    BY <1>2 DEF FailDriver
  <2> HIDE DEF f
  <2>3. Ends(b, e)
    BY <2>1, <2>2, ExecutionFinalizer
  <2>4. b \in Dispatches /\ SameMarks(b, d)
    BY <2>1 DEF Dispatches, SameMarks
  <2> QED BY <2>3, <2>4 DEF Carries
<1> QED BY <1>1, <1>2

\* So is one that is finalized.
LEMMA ExecutionFinalizerCarries ==
  ASSUME TypeOK, NEW d \in Dispatches, NEW e \in Executions, ScheduleExecutionFinalizer(d, e)
  PROVE  \E b \in Dispatches : Carries(b, e) /\ SameMarks(b, d)
<1> DEFINE b == [d EXCEPT !.lifecycle = "Finalizing"]
<1>1. Ends(b, e)
  BY ExecutionFinalizer
<1>2. b \in Dispatches /\ SameMarks(b, d)
  BY DEF Dispatches, SameMarks
<1> QED BY <1>1, <1>2 DEF Carries

\* The steps that change neither the drawing nor what the dispatch knows of it.
PlainStep ==
  \/ HistoryRuns \/ HistoryTerminated \/ DriverStarts \/ NestedStarts \/ LispEnds
  \/ AdvanceRefused \/ AdvanceUnusable \/ AdvanceContinues
  \/ LoopEnds \/ LoopLosesContext \/ StepInvalid \/ StepStartsCommand \/ StepIsLast
  \/ AnotherDocumentActivates \/ TargetDestroyed \/ TargetReloaded \/ ExecutionInterrupted

\* What the plain steps leave alone.
LEMMA PlainStepsCarry ==
  ASSUME Ordered, PlainStep
  PROVE  /\ \E d \in Dispatches : \E e : Carries(d, e) /\ SameMarks(d, dispatch)
         /\ UNCHANGED <<undo, changes, symbols, status>>
         /\ lisp' \in {lisp, "none", "looping", "ending"}
         /\ callback' # "handOff" \/ UNCHANGED callback
<1>t. dispatch \in Dispatches /\ execution \in Executions /\ TypeOK
  BY DEF Ordered, TypeOK
<1>m. SameMarks(dispatch, dispatch)
  BY DEF SameMarks
<1>r. ASSUME NEW r \in NativeResults, NEW b \in Dispatches
      PROVE  [b EXCEPT !.result = r] \in Dispatches /\ SameMarks([b EXCEPT !.result = r], b)
  BY DEF Dispatches, SameMarks
<1>1. CASE HistoryRuns \/ HistoryTerminated
  <2>1. PICK d \in Dispatches : ScheduleFinalizer(d, execution) /\ SameMarks(d, dispatch)
    <3>1. CASE HistoryRuns
      <4>1. PICK result \in {"Success", "Refused", "NotQuiescent"} :
              ScheduleFinalizer([dispatch EXCEPT !.phase = "Running", !.result = result], execution)
        BY <3>1 DEF HistoryRuns
      <4>2. result \in NativeResults
        BY Results
      <4>3. /\ [dispatch EXCEPT !.phase = "Running", !.result = result] \in Dispatches
            /\ SameMarks([dispatch EXCEPT !.phase = "Running", !.result = result], dispatch)
        BY <1>t, <4>2 DEF Dispatches, SameMarks
      <4> QED BY <4>1, <4>3
    <3>2. CASE HistoryTerminated
      BY <1>t, <1>r, <3>2, Results DEF HistoryTerminated
    <3> QED BY <1>1, <3>1, <3>2
  <2>2. Carries(d, execution)
    BY <1>t, <2>1, FinalizerIsScheduledOrEnds DEF Carries
  <2>3. UNCHANGED <<drawingVars, lisp, nested, callback, bounds>>
    BY <1>1 DEF HistoryRuns, HistoryTerminated
  <2> QED BY <2>1, <2>2, <2>3 DEF drawingVars
<1>2. CASE DriverStarts \/ NestedStarts
  <2>1. ASSUME NEW b \in {dispatch, StartsDriver(dispatch), StartsOther(dispatch)}
        PROVE  SameMarks(b, dispatch)
    <3>1. \/ b = dispatch
          \/ b = [dispatch EXCEPT !.lifecycle = "Running", !.depth = 1]
          \/ b = [dispatch EXCEPT !.depth = @ + 1]
      BY DEF StartsDriver, StartsOther
    <3> QED BY <1>t, <3>1 DEF Dispatches, SameMarks
  <2>2. PICK b \in {dispatch, StartsDriver(dispatch), StartsOther(dispatch)} : Keep(b, execution)
    BY <1>2 DEF DriverStarts, NestedStarts
  <2>3. b \in Dispatches
    BY <1>2, <2>2, StartsOrdered DEF Keep, Ordered, TypeOK
  <2>4. /\ UNCHANGED <<drawingVars, callback>>
        /\ lisp' \in {lisp, "looping"}
    BY <1>2 DEF DriverStarts, NestedStarts
  <2> QED BY <2>1, <2>2, <2>3, <2>4 DEF Carries, drawingVars
<1>3. CASE LispEnds
  <2>1. Terminated /\ UNCHANGED <<drawingVars, callback>> /\ lisp' \in {lisp, "none"}
    BY <1>3 DEF LispEnds
  <2>2. ASSUME NEW n \in 0..2
        PROVE  /\ [dispatch EXCEPT !.depth = n] \in Dispatches
               /\ SameMarks([dispatch EXCEPT !.depth = n], dispatch)
    BY <1>t DEF Dispatches, SameMarks
  <2>3. \E d \in Dispatches : \E e : Carries(d, e) /\ SameMarks(d, dispatch)
    <3>1. CASE ~IsExecution(dispatch) \/ dispatch.lifecycle \in {"AwaitingStart", "Finalizing"}
      BY <1>t, <1>m, <2>1, <3>1 DEF Terminated, Carries
    <3>2. CASE /\ ~(\/ ~IsExecution(dispatch)
                    \/ dispatch.lifecycle \in {"AwaitingStart", "Finalizing"})
               /\ dispatch.depth > 1
      <4>1. Keep([dispatch EXCEPT !.depth = dispatch.depth - 1], execution)
        BY <2>1, <3>2 DEF Terminated
      <4>2. dispatch.depth - 1 \in 0..2
        BY <1>t, <3>2 DEF Dispatches
      <4> QED BY <2>2, <4>1, <4>2 DEF Carries
    <3>3. CASE /\ ~(\/ ~IsExecution(dispatch)
                    \/ dispatch.lifecycle \in {"AwaitingStart", "Finalizing"})
               /\ ~(dispatch.depth > 1)
      <4> DEFINE d == [dispatch EXCEPT !.depth = 0]
                 b == [d EXCEPT !.lifecycle = "EndedDuringCallback"]
      <4>1. d \in Dispatches /\ SameMarks(d, dispatch)
        BY <2>2, Depths
      <4>2. \/ Keep(b, execution)
            \/ ScheduleExecutionFinalizer(d, execution)
            \/ FailDriver(d, execution)
        BY <2>1, <3>3 DEF Terminated
      <4> HIDE DEF d
      <4>3. b \in Dispatches /\ SameMarks(b, dispatch)
        BY <4>1 DEF Dispatches, SameMarks
      <4> HIDE DEF b
      <4> QED BY <1>t, <4>1, <4>2, <4>3, FailDriverCarries, ExecutionFinalizerCarries
              DEF Carries, SameMarks
    <3> QED BY <3>1, <3>2, <3>3
  <2> QED BY <2>1, <2>3 DEF drawingVars
<1>4. CASE AdvanceRefused
  <2>1. UNCHANGED <<drawingVars, callback>> /\ lisp' = "ending"
    BY <1>4 DEF AdvanceRefused
  <2>2. Keep(dispatch, execution) \/ FailDriver(dispatch, execution)
    BY <1>4 DEF AdvanceRefused
  <2>3. \E d \in Dispatches : \E e : Carries(d, e) /\ SameMarks(d, dispatch)
    BY <1>t, <1>m, <2>2, FailDriverCarries DEF Carries
  <2> QED BY <2>1, <2>3 DEF drawingVars
<1>5. CASE AdvanceUnusable \/ AdvanceContinues
  <2>1. InCallback(dispatch) \in Dispatches /\ SameMarks(InCallback(dispatch), dispatch)
    <3> DEFINE n == IF dispatch.lifecycle = "AwaitingStart" THEN 1 ELSE dispatch.depth
    <3>1. n \in 0..2
      BY <1>t DEF Dispatches
    <3> HIDE DEF n
    <3>2. [dispatch EXCEPT !.phase = "Running", !.lifecycle = "InCallback", !.depth = n]
            \in Dispatches
      BY <1>t, <3>1, Moved
    <3>3. SameMarks([dispatch EXCEPT !.phase = "Running", !.lifecycle = "InCallback",
                                     !.depth = n], dispatch)
      BY <1>t DEF Dispatches, SameMarks
    <3> QED BY <3>2, <3>3 DEF InCallback, n
  <2>2. UNCHANGED <<drawingVars, lisp>> /\ callback' = "loop"
    BY <1>5 DEF AdvanceUnusable, AdvanceContinues, AdvanceStarts
  <2>3. \/ Keep(InCallback(dispatch), execution)
        \/ \E r \in {"Refused", "ExecBridgeFailed"} :
             Keep([InCallback(dispatch) EXCEPT !.result = r], execution)
    BY <1>5 DEF AdvanceUnusable, AdvanceContinues
  <2>4. \E d \in Dispatches : \E e : Carries(d, e) /\ SameMarks(d, dispatch)
    <3>1. CASE Keep(InCallback(dispatch), execution)
      BY <2>1, <3>1 DEF Carries
    <3>2. ASSUME NEW r \in {"Refused", "ExecBridgeFailed"},
                 Keep([InCallback(dispatch) EXCEPT !.result = r], execution)
          PROVE  \E d \in Dispatches : \E e : Carries(d, e) /\ SameMarks(d, dispatch)
      <4>1. r \in NativeResults
        BY Results
      <4>2. /\ [InCallback(dispatch) EXCEPT !.result = r] \in Dispatches
            /\ SameMarks([InCallback(dispatch) EXCEPT !.result = r], dispatch)
        BY <1>r, <2>1, <4>1 DEF SameMarks
      <4> QED BY <3>2, <4>2 DEF Carries
    <3> QED BY <2>3, <3>1, <3>2
  <2> QED BY <2>2, <2>4 DEF drawingVars
<1>6. CASE LoopEnds \/ LoopLosesContext \/ StepInvalid \/ StepStartsCommand \/ StepIsLast
  <2>1. /\ callback' # "handOff"
        /\ UNCHANGED <<drawingVars, lisp>>
    BY <1>6 DEF LoopEnds, LoopLosesContext, StepInvalid, StepStartsCommand, StepIsLast, CommandOf
  <2>2. \/ \E e : Keep(dispatch, e)
        \/ \E r \in {"Success", "ExecBridgeFailed"} : \E e : Keep([dispatch EXCEPT !.result = r], e)
    BY <1>6 DEF LoopEnds, LoopLosesContext, StepInvalid, StepStartsCommand, StepIsLast,
                hostVars, Keep
  <2>3. \E d \in Dispatches : \E e : Carries(d, e) /\ SameMarks(d, dispatch)
    BY <1>t, <1>m, <1>r, <2>2, Results DEF Carries
  <2> QED BY <2>1, <2>3 DEF drawingVars
<1>7. CASE AnotherDocumentActivates \/ TargetReloaded \/ ExecutionInterrupted
  <2>1. /\ \E e : Keep(dispatch, e)
        /\ UNCHANGED <<undo, changes, symbols, status, lisp, callback>>
    BY <1>7 DEF AnotherDocumentActivates, TargetReloaded, ExecutionInterrupted,
                hostVars, drawingVars, lispVars, Keep
  <2> QED BY <1>t, <1>m, <2>1 DEF Carries
<1>8. CASE TargetDestroyed
  <2>1. UNCHANGED <<undo, changes, symbols, status, lisp, callback>>
    BY <1>8 DEF TargetDestroyed
  <2>2. \/ Keep(dispatch, execution)
        \/ ScheduleFinalizer([dispatch EXCEPT !.result = "Refused"], execution)
    BY <1>8 DEF TargetDestroyed
  <2>3. \E d \in Dispatches : \E e : Carries(d, e) /\ SameMarks(d, dispatch)
    BY <1>t, <1>m, <1>r, <2>2, Results, FinalizerIsScheduledOrEnds DEF Carries
  <2> QED BY <2>1, <2>3
<1> QED BY <1>1, <1>2, <1>3, <1>4, <1>5, <1>6, <1>7, <1>8 DEF PlainStep

\* Hence they cover what was covered.
LEMMA PlainStepsClean ==
  ASSUME Ordered, Clean, PlainStep
  PROVE  Clean' /\ RestoreKept
<1>1. PICK d \in Dispatches : \E e : Carries(d, e) /\ SameMarks(d, dispatch)
  BY PlainStepsCarry
<1>2. PICK e : Carries(d, e)
  BY <1>1
<1>3. ~quarantined => Covered(d, undo', symbols', lisp', callback')
  BY <1>1, PlainStepsCarry DEF Clean, Covered, SameMarks
<1> QED BY <1>1, <1>2, <1>3, CarriesClean, CarriesRestore DEF SameMarks

\* Inside the callback the dispatch is there, or has been lost and the scheduler
\* has stopped.
LEMMA CallbackHasDispatch ==
  ASSUME Ordered, callback # "out", ~quarantined
  PROVE  dispatch.kind = "ExecDriver" /\ dispatch.phase # "none"
  BY NoDispatchType DEF Ordered, Attended, Stands

\* A command ends with what is seen of the group.
LEMMA CommandStepClean ==
  ASSUME Ordered, Clean, NEW d \in Dispatches, NEW r \in StepResults, StepCompletes(d, r),
         callback \in Commands,
         d.restore = dispatch.restore, d.staged = dispatch.staged,
         d.symbolsKept = dispatch.symbolsKept,
         ~quarantined => (undo' = "Active" => d.undoGroup # "Inactive"),
         UNCHANGED symbols
  PROVE  Clean' /\ RestoreKept
<1>t. dispatch \in Dispatches /\ callback # "out"
  BY DEF Ordered, TypeOK, Commands
<1>1. CASE dispatch.phase = "none"
  <2>1. Keep(dispatch, execution)
    BY <1>1 DEF StepCompletes
  <2>2. quarantined
    BY <1>t, <1>1, CallbackHasDispatch
  <2> QED BY <1>t, <2>1, <2>2, CarriesClean, CarriesRestore DEF Carries
<1>2. CASE dispatch.phase # "none"
  <2> DEFINE b == BadStep(d, execution)
  <2>1. Keep(b, CompletedStep(execution, r))
    BY <1>2 DEF StepCompletes
  <2>2. /\ b \in Dispatches /\ b.restore = d.restore /\ b.staged = d.staged
        /\ b.symbolsKept = d.symbolsKept /\ b.undoGroup = d.undoGroup
    BY BadStepFacts
  <2> HIDE DEF b
  <2>3. callback' = "loop" /\ lisp' = lisp
    BY DEF StepCompletes
  <2>4. ~quarantined => Covered(b, undo', symbols', lisp', callback')
    BY <2>2, <2>3 DEF Clean, Covered
  <2> QED BY <2>1, <2>2, <2>4, CarriesClean, CarriesRestore DEF Carries
<1> QED BY <1>1, <1>2

\* The result of a command is one that complete_step takes.
LEMMA CompletionOfType ==
  ASSUME NEW c, c.ok \in BOOLEAN
  PROVE  CompletionOf(c) \in StepResults
  BY DEF CompletionOf, StepResults

\* The three UNDO commands of a step.
LEMMA CommandStepsClean ==
  ASSUME Ordered, Clean, StepBegins \/ StepCloses \/ StepRollsBack
  PROVE  Clean' /\ RestoreKept
<1>t. dispatch \in Dispatches /\ execution \in Executions /\ TypeOK
  BY DEF Ordered, TypeOK
<1>c. ~quarantined => (undo = "Active" => dispatch.undoGroup # "Inactive")
  BY DEF Clean, Covered
<1>1. CASE StepBegins
  <2>1. PICK c \in UndoRuns("Active") :
          /\ undo' = c.undo
          /\ StepCompletes([dispatch EXCEPT !.undoGroup = c.seen,
                                            !.mayHaveStarted = (c.seen # "Inactive")],
                           CompletionOf(c))
    BY <1>1 DEF StepBegins
  <2>2. /\ c.undo \in {"Inactive", "Active"} /\ c.seen \in UndoGroupStates /\ c.ok \in BOOLEAN
        /\ c.seen \in {c.undo, "Unknown"}
    BY <1>t, UndoRunsFacts
  <2> DEFINE d == [dispatch EXCEPT !.undoGroup = c.seen,
                                   !.mayHaveStarted = (c.seen # "Inactive")]
  <2>3. /\ d \in Dispatches /\ d.undoGroup = c.seen /\ d.staged = dispatch.staged
        /\ d.symbolsKept = dispatch.symbolsKept /\ d.restore = dispatch.restore
    BY <1>t, <2>2 DEF Dispatches
  <2>4. callback \in Commands /\ UNCHANGED symbols
    BY <1>1 DEF StepBegins, CommandEnds, Commands
  <2>5. StepCompletes(d, CompletionOf(c)) /\ CompletionOf(c) \in StepResults
    BY <2>1, <2>2, CompletionOfType
  <2> HIDE DEF d
  <2>6. ~quarantined => (undo' = "Active" => d.undoGroup # "Inactive")
    BY <2>1, <2>2, <2>3
  <2> QED BY <2>3, <2>4, <2>5, <2>6, CommandStepClean
<1>2. CASE StepCloses
  <2>1. PICK c \in UndoRuns("Inactive") :
          /\ undo' = c.undo
          /\ StepCompletes([dispatch EXCEPT !.undoGroup = c.seen], CompletionOf(c))
    BY <1>2 DEF StepCloses
  <2>2. /\ c.undo \in {"Inactive", "Active"} /\ c.seen \in UndoGroupStates /\ c.ok \in BOOLEAN
        /\ c.seen \in {c.undo, "Unknown"}
    BY <1>t, UndoRunsFacts
  <2> DEFINE d == [dispatch EXCEPT !.undoGroup = c.seen]
  <2>3. /\ d \in Dispatches /\ d.undoGroup = c.seen /\ d.staged = dispatch.staged
        /\ d.symbolsKept = dispatch.symbolsKept /\ d.restore = dispatch.restore
    BY <1>t, <2>2 DEF Dispatches
  <2>4. callback \in Commands /\ UNCHANGED symbols
    BY <1>2 DEF StepCloses, CommandEnds, Commands
  <2>5. StepCompletes(d, CompletionOf(c)) /\ CompletionOf(c) \in StepResults
    BY <2>1, <2>2, CompletionOfType
  <2> HIDE DEF d
  <2>6. ~quarantined => (undo' = "Active" => d.undoGroup # "Inactive")
    BY <2>1, <2>2, <2>3
  <2> QED BY <2>3, <2>4, <2>5, <2>6, CommandStepClean
<1>3. CASE StepRollsBack
  <2>1. PICK c \in RollsBack(dispatch) :
          /\ undo' = c.undo /\ changes' = c.changes
          /\ StepCompletes([dispatch EXCEPT !.undoGroup = c.seen], CompletionOf(c))
    BY <1>3 DEF StepRollsBack
  <2>2. /\ c.undo \in {"Inactive", "Active"} /\ c.seen \in UndoGroupStates /\ c.ok \in BOOLEAN
        /\ ~quarantined => (c.undo = "Active" => c.seen # "Inactive")
    BY <1>t, <1>c, RollsBackFacts
  <2> DEFINE d == [dispatch EXCEPT !.undoGroup = c.seen]
  <2>3. /\ d \in Dispatches /\ d.undoGroup = c.seen /\ d.staged = dispatch.staged
        /\ d.symbolsKept = dispatch.symbolsKept /\ d.restore = dispatch.restore
    BY <1>t, <2>2 DEF Dispatches
  <2>4. callback \in Commands /\ UNCHANGED symbols
    BY <1>3 DEF StepRollsBack, CommandEnds, Commands
  <2>5. StepCompletes(d, CompletionOf(c)) /\ CompletionOf(c) \in StepResults
    BY <2>1, <2>2, CompletionOfType
  <2> HIDE DEF d
  <2>6. ~quarantined => (undo' = "Active" => d.undoGroup # "Inactive")
    BY <2>1, <2>2, <2>3
  <2> QED BY <2>3, <2>4, <2>5, <2>6, CommandStepClean
<1> QED BY <1>1, <1>2, <1>3

\* A step of the loop, which leaves the rest of AutoCAD alone.
LEMMA LoopKeepsClean ==
  ASSUME Clean, NEW d \in Dispatches, NEW e, Keep(d, e),
         d.restore = dispatch.restore,
         ~quarantined /\ undo' = "Active"
           /\ (undo = "Active" => dispatch.undoGroup # "Inactive") => d.undoGroup # "Inactive",
         ~quarantined /\ symbols' => d.symbolsKept \/ d.staged # "None",
         lisp' # "evaluating", callback' = "handOff" => d.staged # "None"
  PROVE  Clean' /\ RestoreKept
<1>1. ~quarantined => Covered(d, undo', symbols', lisp', callback')
  BY DEF Clean, Covered
<1> QED BY <1>1, CarriesClean, CarriesRestore DEF Carries

\* The steps that write or clear symbols.
LEMMA SymbolStepsClean ==
  ASSUME Ordered, Clean, StepClearsValue \/ StepEvaluates \/ StepEmits
  PROVE  Clean' /\ RestoreKept
<1>t. dispatch \in Dispatches /\ execution \in Executions /\ TypeOK /\ symbols \in BOOLEAN
  BY DEF Ordered, TypeOK
<1>l. callback = "loop" /\ lisp # "evaluating"
  BY DEF StepClearsValue, StepEvaluates, StepEmits, StepTaken, LoopRuns, Ordered, Placed
<1>d. ASSUME NEW d \in Dispatches, NEW r, StepDone(d, r), d.restore = dispatch.restore,
             d.undoGroup = dispatch.undoGroup,
             ~quarantined /\ symbols' => d.symbolsKept \/ d.staged # "None"
      PROVE  Clean' /\ RestoreKept
  <2>1. Keep(d, CompleteStep(TakeStep(execution), r)) /\ UNCHANGED <<undo, lisp, callback>>
    BY <1>d DEF StepDone
  <2> QED BY <1>d, <1>l, <2>1, LoopKeepsClean
<1>1. CASE StepClearsValue
  <2>1. PICK c \in Clears :
          /\ symbols' = c.symbols
          /\ StepDone([dispatch EXCEPT !.symbolsKept = ~c.ok], CompletionOf(c))
    BY <1>1 DEF StepClearsValue
  <2>2. c.symbols \in BOOLEAN /\ c.ok \in BOOLEAN /\ (c.symbols => ~c.ok)
    BY <1>t, ClearsFacts
  <2> DEFINE d == [dispatch EXCEPT !.symbolsKept = ~c.ok]
  <2>3. /\ d \in Dispatches /\ d.undoGroup = dispatch.undoGroup
        /\ d.restore = dispatch.restore /\ d.symbolsKept = ~c.ok
    BY <1>t, <2>2 DEF Dispatches
  <2> HIDE DEF d
  <2> QED BY <1>d, <2>1, <2>2, <2>3 DEF d
<1>2. ASSUME NEW kind \in {"Evaluator", "EvalValueEmitter"}, Staged(kind) \/ NotStaged(kind)
      PROVE  Clean' /\ RestoreKept
  <2>1. CASE Staged(kind)
    <3> DEFINE d == [dispatch EXCEPT !.staged = kind, !.port = "open", !.symbolsKept = TRUE,
                           !.formHandedOff = @ \/ kind = "Evaluator"]
    <3>1. /\ d \in Dispatches /\ d.undoGroup = dispatch.undoGroup
          /\ d.restore = dispatch.restore /\ d.symbolsKept = TRUE /\ d.staged # "None"
      BY <1>t DEF Dispatches
    <3>2. Keep(d, TakeStep(execution)) /\ UNCHANGED <<undo, lisp>>
      BY <2>1 DEF Staged
    <3> HIDE DEF d
    <3> QED BY <1>l, <3>1, <3>2, LoopKeepsClean
  <2>2. CASE NotStaged(kind)
    <3>1. PICK c \in Finishes(FALSE, FALSE) :
            /\ symbols' = c.symbols
            /\ StepDone([dispatch EXCEPT !.symbolsKept = c.kept,
                                 !.formHandedOff = @ \/ kind = "Evaluator"], "failed")
      BY <2>2 DEF NotStaged
    <3>2. c.symbols \in BOOLEAN /\ c.kept \in BOOLEAN /\ (c.symbols => c.kept)
      BY <1>t, FinishesFacts
    <3> DEFINE d == [dispatch EXCEPT !.symbolsKept = c.kept,
                                     !.formHandedOff = @ \/ kind = "Evaluator"]
    <3>3. /\ d \in Dispatches /\ d.undoGroup = dispatch.undoGroup
          /\ d.restore = dispatch.restore /\ d.symbolsKept = c.kept
      BY <1>t, <3>2 DEF Dispatches
    <3> HIDE DEF d
    <3> QED BY <1>d, <3>1, <3>2, <3>3 DEF d
  <2> QED BY <1>2, <2>1, <2>2
<1>3. CASE StepEvaluates /\ NoFormPort
  <2> DEFINE d == [dispatch EXCEPT !.formHandedOff = TRUE]
  <2>1. /\ d \in Dispatches /\ d.undoGroup = dispatch.undoGroup
        /\ d.restore = dispatch.restore /\ d.symbolsKept = dispatch.symbolsKept
        /\ d.staged = dispatch.staged
    BY <1>t DEF Dispatches
  <2>2. StepDone(d, "failed") /\ UNCHANGED symbols
    BY <1>3 DEF NoFormPort
  <2> HIDE DEF d
  <2>3. ~quarantined /\ symbols' => d.symbolsKept \/ d.staged # "None"
    BY <2>1, <2>2 DEF Clean, Covered
  <2> QED BY <1>d, <2>1, <2>2, <2>3
<1> QED BY <1>1, <1>2, <1>3 DEF StepEvaluates, StepEmits

\* The last step closes the group and clears the symbols.
LEMMA TerminalStepsClean ==
  ASSUME Ordered, Clean, TerminalUndoEnds \/ TerminalClears
  PROVE  Clean' /\ RestoreKept
<1>t. dispatch \in Dispatches /\ execution \in Executions /\ TypeOK /\ symbols \in BOOLEAN
  BY DEF Ordered, TypeOK
<1>l. callback # "out" /\ lisp # "evaluating"
  BY DEF TerminalUndoEnds, TerminalClears, CommandEnds, Ordered, Placed
<1>1. CASE TerminalUndoEnds
  <2>1. PICK c \in TerminalUndo(dispatch) :
          /\ undo' = c.undo /\ changes' = c.changes
          /\ IF dispatch.phase = "none" THEN Keep(dispatch, execution)
             ELSE Keep([dispatch EXCEPT
                       !.undoGroup = c.seen,
                       !.cleanupFailed = @ \/ ~c.ok,
                       !.result = IF c.ok THEN @ ELSE "ExecBridgeFailed"], execution)
    BY <1>1 DEF TerminalUndoEnds
  <2>2. /\ c.undo \in {"Inactive", "Active"} /\ c.seen \in UndoGroupStates
        /\ c.ok \in BOOLEAN
        /\ (undo = "Active" => dispatch.undoGroup # "Inactive") =>
              (c.undo = "Active" => c.seen # "Inactive")
    BY <1>t, TerminalUndoFacts
  <2>3. callback' = "clear" /\ UNCHANGED <<symbols, lisp>>
    BY <1>1 DEF TerminalUndoEnds
  <2>4. CASE dispatch.phase = "none"
    <3>1. quarantined
      BY <1>l, <2>4, CallbackHasDispatch
    <3> QED BY <1>t, <2>1, <2>4, <3>1, CarriesClean, CarriesRestore DEF Carries
  <2>5. CASE dispatch.phase # "none"
    <3> DEFINE d == [dispatch EXCEPT !.undoGroup = c.seen,
                       !.cleanupFailed = @ \/ ~c.ok,
                       !.result = IF c.ok THEN @ ELSE "ExecBridgeFailed"]
    <3>1. /\ d \in Dispatches /\ d.undoGroup = c.seen /\ d.staged = dispatch.staged
          /\ d.symbolsKept = dispatch.symbolsKept /\ d.restore = dispatch.restore
      <4>1. (IF c.ok THEN dispatch.result ELSE "ExecBridgeFailed") \in NativeResults
        BY <1>t, Results DEF Dispatches
      <4> QED BY <1>t, <2>2, <4>1 DEF Dispatches
    <3>2. Keep(d, execution)
      BY <2>1, <2>5
    <3> HIDE DEF d
    <3>3. ~quarantined /\ symbols' => d.symbolsKept \/ d.staged # "None"
      BY <2>3, <3>1 DEF Clean, Covered
    <3> QED BY <1>l, <2>1, <2>2, <2>3, <3>1, <3>2, <3>3, LoopKeepsClean
  <2> QED BY <2>4, <2>5
<1>2. CASE TerminalClears
  <2>1. PICK c \in IF dispatch.symbolsKept THEN Clears ELSE {[symbols |-> symbols, ok |-> TRUE]} :
          /\ symbols' = c.symbols
          /\ Keep([dispatch EXCEPT
                  !.symbolsKept = ~c.ok,
                  !.cleanupFailed = @ \/ ~c.ok,
                  !.result = IF c.ok THEN @ ELSE "ExecBridgeSymbolsClearFailed"], execution)
    BY <1>2 DEF TerminalClears
  <2>2. /\ c.symbols \in BOOLEAN /\ c.ok \in BOOLEAN
        /\ dispatch.symbolsKept => (c.symbols => ~c.ok)
        /\ ~dispatch.symbolsKept => c.symbols = symbols
    <3>1. CASE dispatch.symbolsKept
      BY <1>t, <2>1, <3>1, ClearsFacts
    <3>2. CASE ~dispatch.symbolsKept
      <4>1. c = [symbols |-> symbols, ok |-> TRUE]
        BY <2>1, <3>2
      <4> QED BY <1>t, <3>2, <4>1
    <3> QED BY <3>1, <3>2
  <2> DEFINE d == [dispatch EXCEPT !.symbolsKept = ~c.ok,
                  !.cleanupFailed = @ \/ ~c.ok,
                  !.result = IF c.ok THEN @ ELSE "ExecBridgeSymbolsClearFailed"]
  <2>3. /\ d \in Dispatches /\ d.undoGroup = dispatch.undoGroup /\ d.staged = dispatch.staged
        /\ d.symbolsKept = ~c.ok /\ d.restore = dispatch.restore
    <3>1. (IF c.ok THEN dispatch.result ELSE "ExecBridgeSymbolsClearFailed") \in NativeResults
      BY <1>t DEF Dispatches, NativeResults
    <3> QED BY <1>t, <2>2, <3>1 DEF Dispatches
  <2>4. callback' = "exit" /\ UNCHANGED <<undo, lisp>>
    BY <1>2 DEF TerminalClears
  <2>5. Keep(d, execution)
    BY <2>1
  <2> HIDE DEF d
  <2>6. ~quarantined /\ symbols' => d.symbolsKept \/ d.staged # "None"
    <3>1. ~quarantined /\ symbols => dispatch.symbolsKept \/ dispatch.staged # "None"
      BY DEF Clean, Covered
    <3> QED BY <2>1, <2>2, <2>3, <3>1
  <2> QED BY <1>l, <2>3, <2>4, <2>5, <2>6, LoopKeepsClean
<1> QED BY <1>1, <1>2

\* A form never opens a group, and edits the drawing inside the open one, unless
\* it may escape.
LEMMA FormEditsFacts ==
  ASSUME NEW edit \in FormEdits
  PROVE  /\ edit.undo = "Active" => undo = "Active"
         /\ \/ edit.undo = undo /\ edit.changes = changes
            \/ undo = "Active" /\ edit.changes = "group" /\ changes = "none"
            \/ undo = "Active" /\ edit.changes = changes
            \/ FormsMayEscape
<1>1. CASE edit = [undo |-> undo, changes |-> changes]
  BY <1>1
<1>2. CASE /\ undo = "Active"
           /\ \E u \in {"Active", "Inactive"} :
                edit = [undo |-> u, changes |-> IF changes = "none" THEN "group" ELSE changes]
  BY <1>2
<1>3. CASE undo = "Active" /\ FormsMayEscape /\ edit = [undo |-> "Inactive", changes |-> "escaped"]
  BY <1>3
<1>4. \/ edit = [undo |-> undo, changes |-> changes]
      \/ /\ undo = "Active"
         /\ \E u \in {"Active", "Inactive"} :
              edit = [undo |-> u, changes |-> IF changes = "none" THEN "group" ELSE changes]
      \/ undo = "Active" /\ FormsMayEscape /\ edit = [undo |-> "Inactive", changes |-> "escaped"]
  BY DEF FormEdits
<1> QED BY <1>1, <1>2, <1>3, <1>4

\* A form is evaluated where one was staged.
LEMMA LispEvaluatesClean ==
  ASSUME Ordered, Clean, LispEvaluates
  PROVE  Clean' /\ RestoreKept
<1>t. dispatch \in Dispatches
  BY DEF Ordered, TypeOK
<1>1. PICK port \in IF dispatch.port = "open" THEN {"open", "invalid"} ELSE {dispatch.port} :
        Keep([dispatch EXCEPT !.port = port], execution)
  BY DEF LispEvaluates
<1> DEFINE d == [dispatch EXCEPT !.port = port]
<1>2. d \in Dispatches /\ SameMarks(d, dispatch)
  <2>1. port \in {"none", "open", "invalid"}
    BY <1>t DEF Dispatches
  <2> QED BY <1>t, <2>1 DEF Dispatches, SameMarks
<1> HIDE DEF d
<1>3. undo' = "Active" => undo = "Active"
  <2>1. CASE dispatch.staged = "Evaluator" /\ symbols /\ alive
    <3>1. PICK edit \in FormEdits : undo' = edit.undo /\ changes' = edit.changes
      BY <2>1 DEF LispEvaluates
    <3> QED BY <3>1, FormEditsFacts
  <2>2. CASE ~(dispatch.staged = "Evaluator" /\ symbols /\ alive)
    BY <2>2 DEF LispEvaluates
  <2> QED BY <2>1, <2>2
<1>4. lisp = "evaluating" /\ lisp' = "looping" /\ UNCHANGED callback
  BY DEF LispEvaluates
<1>5. ~quarantined => Covered(d, undo', symbols', lisp', callback')
  BY <1>2, <1>3, <1>4 DEF Clean, Covered, SameMarks
<1> QED BY <1>1, <1>2, <1>5, CarriesClean, CarriesRestore DEF Carries, SameMarks, d

\* What a form has left is collected.
LEMMA CollectsClean ==
  ASSUME Ordered, Clean, CollectsEvaluation \/ CollectsEmission
  PROVE  Clean' /\ RestoreKept
<1>t. dispatch \in Dispatches /\ execution \in Executions /\ TypeOK
  BY DEF Ordered, TypeOK
<1>i. InCallback(dispatch) \in Dispatches /\ SameMarks(InCallback(dispatch), dispatch)
  <2> DEFINE n == IF dispatch.lifecycle = "AwaitingStart" THEN 1 ELSE dispatch.depth
  <2>1. n \in 0..2
    BY <1>t DEF Dispatches
  <2> HIDE DEF n
  <2>2. [dispatch EXCEPT !.phase = "Running", !.lifecycle = "InCallback", !.depth = n]
          \in Dispatches
    BY <1>t, <2>1, Moved
  <2>3. SameMarks([dispatch EXCEPT !.phase = "Running", !.lifecycle = "InCallback",
                                   !.depth = n], dispatch)
    BY <1>t DEF Dispatches, SameMarks
  <2> QED BY <2>2, <2>3 DEF InCallback, n
<1>g. ASSUME NEW d \in Dispatches, NEW e, Keep(BadStep(d, execution), e),
             d.restore = dispatch.restore,
             ~quarantined => (undo = "Active" => d.undoGroup # "Inactive"),
             symbols' => d.symbolsKept,
             UNCHANGED undo, lisp' = "looping", callback' = "loop"
      PROVE  Clean' /\ RestoreKept
  <2> DEFINE b == BadStep(d, execution)
  <2>1. /\ b \in Dispatches /\ b.undoGroup = d.undoGroup
        /\ b.symbolsKept = d.symbolsKept /\ b.restore = d.restore
    BY BadStepFacts
  <2> HIDE DEF b
  <2>2. ~quarantined => Covered(b, undo', symbols', lisp', callback')
    BY <1>g, <2>1 DEF Covered
  <2> QED BY <1>g, <2>1, <2>2, CarriesClean, CarriesRestore DEF Carries, b
<1>1. CASE CollectsEvaluation
  <2>1. PICK c \in Finishes(status = "ok", execution.mode = "Eval"), seen \in {undo, "Unknown"} :
          LET d == [InCallback(dispatch) EXCEPT !.port = "none", !.staged = "None",
                                                !.symbolsKept = c.kept, !.undoGroup = seen] IN
          /\ symbols' = c.symbols
          /\ Keep(BadStep(d, execution),
                  CompletedStep(execution, StepResult(c.ok /\ seen = "Active", dispatch)))
    BY <1>1 DEF CollectsEvaluation
  <2>2. c.symbols \in BOOLEAN /\ c.kept \in BOOLEAN /\ (c.symbols => c.kept)
    BY <1>t, FinishesFacts
  <2>3. seen \in UndoGroupStates /\ (undo = "Active" => seen # "Inactive")
    BY DEF Ordered, TypeOK, UndoGroupStates
  <2> DEFINE d == [InCallback(dispatch) EXCEPT !.port = "none", !.staged = "None",
                                                !.symbolsKept = c.kept, !.undoGroup = seen]
             e == CompletedStep(execution, StepResult(c.ok /\ seen = "Active", dispatch))
  <2>4. /\ d \in Dispatches /\ d.undoGroup = seen /\ d.symbolsKept = c.kept
        /\ d.restore = dispatch.restore
    BY <1>i, <2>2, <2>3 DEF Dispatches, SameMarks
  <2>5. Keep(BadStep(d, execution), e)
    BY <2>1
  <2>6. UNCHANGED undo /\ lisp' = "looping" /\ callback' = "loop"
    BY <1>1 DEF CollectsEvaluation, AdvanceStarts
  <2> HIDE DEF d, e
  <2>7. symbols' => d.symbolsKept
    BY <2>1, <2>2, <2>4
  <2> QED BY <1>g, <2>3, <2>4, <2>5, <2>6, <2>7
<1>2. CASE CollectsEmission
  <2>1. PICK c \in Finishes(status = "ok", FALSE) :
          LET d == [InCallback(dispatch) EXCEPT !.port = "none", !.staged = "None",
                                                !.symbolsKept = c.kept] IN
          /\ symbols' = c.symbols
          /\ Keep(BadStep(d, execution), CompletedStep(execution, StepResult(c.ok, dispatch)))
    BY <1>2 DEF CollectsEmission
  <2>2. c.symbols \in BOOLEAN /\ c.kept \in BOOLEAN /\ (c.symbols => c.kept)
    BY <1>t, FinishesFacts
  <2> DEFINE d == [InCallback(dispatch) EXCEPT !.port = "none", !.staged = "None",
                                                !.symbolsKept = c.kept]
             e == CompletedStep(execution, StepResult(c.ok, dispatch))
  <2>4. /\ d \in Dispatches /\ d.undoGroup = dispatch.undoGroup /\ d.symbolsKept = c.kept
        /\ d.restore = dispatch.restore
    BY <1>i, <2>2 DEF Dispatches, SameMarks
  <2>5. Keep(BadStep(d, execution), e)
    BY <2>1
  <2>6. UNCHANGED undo /\ lisp' = "looping" /\ callback' = "loop"
    BY <1>2 DEF CollectsEmission, AdvanceStarts
  <2> HIDE DEF d, e
  <2>7. symbols' => d.symbolsKept
    BY <2>1, <2>2, <2>4
  <2>8. ~quarantined => (undo = "Active" => d.undoGroup # "Inactive")
    BY <2>4 DEF Clean, Covered
  <2> QED BY <1>g, <2>4, <2>5, <2>6, <2>7, <2>8
<1> QED BY <1>1, <1>2

\* The callback returns, and hands a form off where one is staged.
LEMMA AdvanceReturnsClean ==
  ASSUME Ordered, Clean, AdvanceReturns
  PROVE  Clean' /\ RestoreKept
<1>t. dispatch \in Dispatches /\ execution \in Executions /\ TypeOK
  BY DEF Ordered, TypeOK
<1>1. PICK returned \in BOOLEAN :
       LET handsOff == callback = "handOff" /\ returned
           d == IF dispatch.phase = "none" THEN dispatch
                ELSE [dispatch EXCEPT
                        !.result = IF returned THEN @ ELSE "ExecBridgeFailed",
                        !.port = IF handsOff THEN @ ELSE "none"]
       IN /\ FinishAdvance(d, execution, returned /\ ~handsOff)
          /\ lisp' = CASE lisp = "none" -> "none"
                       [] lisp # "none" /\ handsOff -> "evaluating"
                       [] OTHER -> "ending"
  BY DEF AdvanceReturns
<1> DEFINE handsOff == callback = "handOff" /\ returned
           r == IF returned THEN dispatch.result ELSE "ExecBridgeFailed"
           port == IF handsOff THEN dispatch.port ELSE "none"
           f == [dispatch EXCEPT !.result = r, !.port = port]
           d == IF dispatch.phase = "none" THEN dispatch ELSE f
           ready == returned /\ ~handsOff
<1>2. d \in Dispatches /\ SameMarks(d, dispatch)
  <2>1. r \in NativeResults /\ port \in {"none", "open", "invalid"}
    BY <1>t, Results DEF Dispatches
  <2> HIDE DEF r, port
  <2>2. f \in Dispatches /\ SameMarks(f, dispatch)
    BY <1>t, <2>1 DEF Dispatches, SameMarks
  <2> QED BY <1>t, <2>2 DEF SameMarks
<1>3. FinishAdvance(d, execution, ready)
  BY <1>1
<1>4. /\ callback' = "out" /\ UNCHANGED <<undo, symbols>>
      /\ lisp' = "evaluating" => callback = "handOff"
  BY <1>1 DEF AdvanceReturns, drawingVars
<1> HIDE DEF d, ready, r, port, f, handsOff
<1>5. PICK b \in Dispatches : Carries(b, execution) /\ SameMarks(b, d)
  <2> DEFINE b == [d EXCEPT !.lifecycle = IF ready THEN "AwaitingEnd" ELSE "Running"]
  <2>1. b \in Dispatches /\ SameMarks(b, d)
    <3> DEFINE l == IF ready THEN "AwaitingEnd" ELSE "Running"
    <3>1. l \in {"AwaitingEnd", "Running"}
      OBVIOUS
    <3> HIDE DEF l
    <3>2. [d EXCEPT !.lifecycle = l] \in Dispatches /\ SameMarks([d EXCEPT !.lifecycle = l], d)
      BY <1>2, <3>1 DEF Dispatches, SameMarks
    <3> QED BY <3>2 DEF l
  <2>2. \/ Keep(d, execution) \/ Keep(b, execution)
        \/ ScheduleExecutionFinalizer(d, execution) \/ FailDriver(d, execution)
    BY <1>3 DEF FinishAdvance
  <2> HIDE DEF b
  <2>3. SameMarks(d, d)
    BY DEF SameMarks
  <2> QED BY <1>t, <1>2, <2>1, <2>2, <2>3, FailDriverCarries, ExecutionFinalizerCarries DEF Carries
<1>6. ~quarantined => Covered(b, undo', symbols', lisp', callback')
  BY <1>2, <1>4, <1>5 DEF Clean, Covered, SameMarks
<1>7. b.restore = dispatch.restore
  BY <1>2, <1>5 DEF SameMarks
<1> QED BY <1>5, <1>6, <1>7, CarriesClean, CarriesRestore

\* The driver is cancelled: what is staged is cleared or recorded.
LEMMA LispCancelledClean ==
  ASSUME Ordered, Clean, LispCancelled
  PROVE  Clean' /\ RestoreKept
<1>t. dispatch \in Dispatches /\ execution \in Executions /\ TypeOK /\ symbols \in BOOLEAN
  BY DEF Ordered, TypeOK
<1>1. /\ lisp' # "evaluating" /\ callback' # "handOff"
      /\ UNCHANGED undo
  BY DEF LispCancelled, Ordered, Placed, AutoCADRuns, Commands
<1>2. ASSUME NEW b \in Dispatches, NEW e, Carries(b, e), b.restore = dispatch.restore,
             b.undoGroup = dispatch.undoGroup,
             ~quarantined => (symbols' => b.symbolsKept \/ b.staged # "None")
      PROVE  Clean' /\ RestoreKept
  <2>1. ~quarantined => Covered(b, undo', symbols', lisp', callback')
    BY <1>1, <1>2 DEF Clean, Covered
  <2> QED BY <1>2, <2>1, CarriesClean, CarriesRestore
<1>3. CASE ~IsExecution(dispatch) \/ dispatch.lifecycle \in {"AwaitingStart", "Finalizing"}
  <2>1. Keep(dispatch, execution) /\ UNCHANGED symbols
    BY <1>3 DEF LispCancelled
  <2>2. ~quarantined => (symbols' => dispatch.symbolsKept \/ dispatch.staged # "None")
    BY <2>1 DEF Clean, Covered
  <2> QED BY <1>t, <1>2, <2>1, <2>2 DEF Carries
<1>4. CASE ~(~IsExecution(dispatch) \/ dispatch.lifecycle \in {"AwaitingStart", "Finalizing"})
  <2> DEFINE d == [dispatch EXCEPT !.port = "none"]
  <2>1. d \in Dispatches /\ SameMarks(d, dispatch)
    BY <1>t DEF Dispatches, SameMarks
  <2>2. \/ RecoverLost(d)
        \/ RecoverStaged(d)
        \/ Resend(d, Abandon(execution)) /\ UNCHANGED symbols
    BY <1>4 DEF LispCancelled, Recover
  <2> HIDE DEF d
  <2>3. ASSUME NEW b \in Dispatches, NEW e \in Executions, Resend(b, e),
               b.restore = dispatch.restore, b.undoGroup = dispatch.undoGroup,
               ~quarantined => (symbols' => b.symbolsKept \/ b.staged # "None")
        PROVE  Clean' /\ RestoreKept
    <3> DEFINE f == [Resent(b) EXCEPT !.result = "Refused"]
    <3>1. Resent(b) \in Dispatches /\ SameMarks(Resent(b), b)
      BY ResentFacts DEF SameMarks
    <3>2. f \in Dispatches /\ SameMarks(f, b)
      BY <3>1, Results DEF Dispatches, SameMarks
    <3>3. Keep(Resent(b), e) \/ ScheduleExecutionFinalizer(f, e)
      BY <2>3 DEF Resend
    <3> HIDE DEF f
    <3>4. \E g \in Dispatches : Carries(g, e) /\ SameMarks(g, b)
      BY <1>t, <3>1, <3>2, <3>3, ExecutionFinalizerCarries DEF Carries, SameMarks
    <3> QED BY <1>2, <2>3, <3>4 DEF SameMarks
  <2>4. CASE RecoverLost(d)
    <3> DEFINE b == [d EXCEPT !.symbolsKept = @ \/ d.staged # "None"]
    <3>1. PICK c \in LosesContext(b) :
            /\ symbols' = c.symbols
            /\ ScheduleExecutionFinalizer(c.d, Abandon(execution))
      BY <2>4 DEF RecoverLost
    <3>2. /\ b \in Dispatches /\ b.undoGroup = d.undoGroup /\ b.restore = d.restore
          /\ b.symbolsKept <=> d.symbolsKept \/ d.staged # "None"
      BY <2>1 DEF Dispatches
    <3> HIDE DEF b
    <3>3. /\ c.d \in Dispatches /\ c.d.undoGroup = b.undoGroup /\ c.d.restore = b.restore
          /\ c.symbols => symbols /\ (b.symbolsKept => c.d.symbolsKept)
      BY <1>t, <3>2, LosesContextFacts
    <3>4. ~quarantined => (symbols' => c.d.symbolsKept)
      BY <2>1, <3>1, <3>2, <3>3 DEF Clean, Covered, SameMarks
    <3>5. PICK g \in Dispatches : Carries(g, Abandon(execution)) /\ SameMarks(g, c.d)
      BY <1>t, <3>1, <3>3, AbandonType, ExecutionFinalizerCarries
    <3> QED BY <1>2, <2>1, <3>2, <3>3, <3>4, <3>5 DEF SameMarks
  <2>5. CASE RecoverStaged(d)
    <3>1. PICK c \in Finishes(FALSE, FALSE) :
            /\ symbols' = c.symbols
            /\ Resend([d EXCEPT !.symbolsKept = c.kept, !.staged = "None"],
                      IF execution.phase \in AwaitedSteps THEN CompleteStep(execution, "failed")
                      ELSE Abandon(execution))
      BY <2>5 DEF RecoverStaged
    <3>2. c.symbols \in BOOLEAN /\ c.kept \in BOOLEAN /\ (c.symbols => c.kept)
      BY <1>t, FinishesFacts
    <3> DEFINE b == [d EXCEPT !.symbolsKept = c.kept, !.staged = "None"]
               e == IF execution.phase \in AwaitedSteps THEN CompleteStep(execution, "failed")
                    ELSE Abandon(execution)
    <3>3. /\ b \in Dispatches /\ b.symbolsKept = c.kept
          /\ b.undoGroup = d.undoGroup /\ b.restore = d.restore
      BY <2>1, <3>2 DEF Dispatches
    <3>4. e \in Executions
      BY <1>t, AbandonType, CompleteStepType DEF StepResults
    <3> HIDE DEF b, e
    <3> QED BY <2>1, <2>3, <3>1, <3>2, <3>3, <3>4 DEF b, e, SameMarks
  <2>6. CASE Resend(d, Abandon(execution)) /\ UNCHANGED symbols
    <3>1. ~quarantined => (symbols' => d.symbolsKept \/ d.staged # "None")
      BY <2>1, <2>6 DEF Clean, Covered, SameMarks
    <3> QED BY <1>t, <2>1, <2>3, <2>6, <3>1, AbandonType DEF SameMarks
  <2> QED BY <2>2, <2>4, <2>5, <2>6
<1> QED BY <1>3, <1>4

\* A dispatch that ends without stopping the scheduler has proved the drawing
\* clean.
LEMMA CompletionProves ==
  ASSUME NEW d \in Dispatches, NEW e, Complete(d, e), ~quarantined', d.kind = "ExecDriver"
  PROVE  d.undoGroup = "Inactive" /\ d.staged = "None" /\ ~d.symbolsKept
<1>1. Observation(d) = "proved"
  BY DEF Complete, FinalizationQuarantines
<1> QED BY <1>1 DEF Observation

\* The finalizer empties the slot only where it has proved the drawing clean.
LEMMA FinalizerRunsClean ==
  ASSUME Ordered, Clean, FinalizerRuns
  PROVE  Clean' /\ (dispatch.restore /\ ~quarantined' => active' = "previous")
<1>t. /\ dispatch \in Dispatches /\ finalizers > 0 /\ dispatch.phase = "Finalizing"
      /\ dispatch.kind # "none"
      /\ UNCHANGED <<undo, symbols, lispVars>> /\ callback = "out"
  BY NoDispatchType DEF Ordered, TypeOK, OneFinalizer, FinalizerRuns, Stands
<1> DEFINE r == [dispatch EXCEPT !.result = "DocumentContextRestoreFailed"]
<1>1. r \in Dispatches /\ SameMarks(r, dispatch) /\ r.kind = dispatch.kind
      /\ r.result = "DocumentContextRestoreFailed"
  BY <1>t, Results DEF Dispatches, SameMarks
<1>2. \/ Complete(dispatch, execution) /\ (dispatch.restore => active' = "previous")
      \/ Complete(r, execution)
  BY <1>t DEF FinalizerRuns
<1> HIDE DEF r
<1>3. Complete(r, execution) => quarantined'
  BY <1>1 DEF Complete, FinalizationQuarantines, RequiresQuarantine
<1>4. ASSUME ~quarantined', Complete(dispatch, execution)
      PROVE  Covered(dispatch, undo, symbols, lisp, callback)
             /\ dispatch.undoGroup = "Inactive" /\ dispatch.staged = "None" /\ ~dispatch.symbolsKept
  <2>1. ~quarantined
    BY <1>4 DEF Complete
  <2>2. CASE dispatch.kind = "ExecDriver"
    BY <1>t, <1>4, <2>1, <2>2, CompletionProves DEF Clean
  <2>3. CASE dispatch.kind = "History"
    BY <2>1, <2>3 DEF Clean, Ordered, Stands
  <2> QED BY <1>t, <2>2, <2>3 DEF Dispatches
<1>5. Clean'
  <2>1. SUFFICES ASSUME ~quarantined' PROVE Covered(dispatch, undo, symbols, lisp, callback)'
    BY DEF Clean
  <2>2. dispatch' = NoDispatch
    BY <1>2 DEF Complete
  <2>3. Complete(dispatch, execution)
    BY <1>2, <1>3, <2>1
  <2> QED BY <1>t, <1>4, <2>1, <2>2, <2>3, NoDispatchType DEF Covered, lispVars
<1> QED BY <1>2, <1>3, <1>5

\* A new dispatch starts with a clean drawing.
LEMMA DispatchClean ==
  ASSUME Ordered, Clean, Dispatch \/ DispatchNotSent
  PROVE  Clean' /\ dispatch.restore = FALSE
<1>1. /\ dispatch = NoDispatch /\ callback = "out" /\ ~quarantined /\ lisp = "none"
      /\ UNCHANGED <<undo, symbols, lisp, callback>>
  BY DEF Dispatch, DispatchNotSent, MayDispatch, lispVars
<1>2. undo # "Active" /\ ~symbols
  BY <1>1, NoDispatchType DEF Clean, Covered
<1>3. Clean'
  BY <1>1, <1>2 DEF Clean, Covered
<1> QED BY <1>1, <1>3, NoDispatchType

\* Every step keeps the drawing covered.
LEMMA CleanSteps ==
  ASSUME Ordered, Clean, Next
  PROVE  /\ Clean'
         /\ dispatch.restore /\ dispatch' = NoDispatch /\ ~quarantined' => active' = "previous"
<1>1. CASE HostStep /\ ~PlainStep
  BY <1>1, DispatchClean, FinalizerRunsClean DEF HostStep, PlainStep
<1>2. CASE ~HostStep \/ PlainStep
  <2>1. Clean' /\ RestoreKept
    BY <1>2, PlainStepsClean, CommandStepsClean, SymbolStepsClean, TerminalStepsClean,
       LispEvaluatesClean, CollectsClean, AdvanceReturnsClean, LispCancelledClean
       DEF Next, PlainStep, HostStep, LispStep, AdvanceStep, LoopStep
  <2> QED BY <2>1, NoDispatchType DEF RestoreKept
<1> QED BY <1>1, <1>2

\* The two invariants together.
LEMMA OrderedAndClean == Spec => [](Ordered /\ Clean)
<1>0. Init => Clean
  BY DEF Init, Clean, Covered
<1>1. Ordered /\ Clean /\ [Next]_vars => (Ordered /\ Clean)'
  <2> SUFFICES ASSUME Ordered, Clean, [Next]_vars PROVE Ordered' /\ Clean'
    OBVIOUS
  <2>1. CASE UNCHANGED vars
    <3>1. UNCHANGED <<dispatch, quarantined, undo, symbols, lisp, callback>>
      BY <2>1 DEF vars, hostVars, drawingVars, lispVars
    <3>2. Clean'
      BY <3>1 DEF Clean, Covered
    <3> QED BY <2>1, <3>2, OrderedSteps
  <2> QED BY <2>1, OrderedSteps, CleanSteps
<1> QED BY <1>0, <1>1, InitOrdered, PTL DEF Spec

\* When the scheduler goes on to other jobs after a dispatch, no undo group is
\* open in the drawing and no bridge symbol has a value.
THEOREM EndsClean == Spec => []ProvedMeansClean
<1>1. Ordered /\ Clean => ProvedMeansClean
  BY NoDispatchType DEF ProvedMeansClean, Ordered, TypeOK, Clean, Covered
<1> QED BY <1>1, OrderedAndClean, PTL

\* A dispatch that took another document's place has given it back when it
\* ends, or the scheduler has stopped.
THEOREM RestoresContext == Spec => ContextRestored
<1> DEFINE A == dispatch.restore /\ dispatch' = NoDispatch /\ ~quarantined' => active' = "previous"
<1>1. Ordered /\ Clean /\ [Next]_vars => [A]_vars
  BY CleanSteps
<1> HIDE DEF A
<1>2. Spec => [][A]_vars
  BY <1>1, OrderedAndClean, PTL DEF Spec
<1> QED BY <1>2 DEF ContextRestored, A

-----------------------------------------------------------------------------
(***************************************************************************)
(* Third invariant: what the client is told of the drawing is true, where  *)
(* no form escapes the undo group.  Most of it relates the phase of the    *)
(* execution to what the dispatch records of the group and of what is      *)
(* staged, since the answer is read off these two.                         *)
(***************************************************************************)
Claims == {"NotStarted", "RolledBack", "Cancelled"}

\* What the execution concludes of the changes.
Honest(e, changed) ==
  /\ Consistent(e)
  /\ ~e.handedOff => changed = "none"
  /\ e.phase \in {"CloseEmptyUndoGroup", "AwaitingCloseEmptyUndoGroup"} => ~e.handedOff
  /\ e.outcome \in Claims => changed = "none"

\* What the dispatch records, wherever it stands: a form runs inside the open
\* group and only where it was handed off, a command is the one of its step, and
\* a dispatch that is refused in the middle has not lost the group it opened.
Told(d, e, changed, present, c) ==
  /\ e.phase \in {"BetweenForms", "AwaitingEvaluateForm"} => d.undoGroup = "Active"
  /\ d.staged = "Evaluator" =>
       e.handedOff /\ (e.phase = "AwaitingEvaluateForm" \/ e.outcome = "Unknown")
  /\ d.staged = "EvalValueEmitter" =>
       e.phase = "AwaitingEmitEvalValue" \/ e.outcome = "Unknown"
  /\ c \in Commands =>
       /\ present => d.result # "Refused" \/ e.outcome = "Unknown"
       /\ d.staged = "None"
       /\ \/ e.phase \in {"Terminal", "Done"}
          \/ e.phase \in DOMAIN CommandOf /\ CommandOf[e.phase] = c
  /\ present /\ e.outcome = "none" /\ changed # "none" /\ d.result = "Refused" =>
       d.undoGroup # "Inactive" \/ d.staged # "None"
  /\ d.result \notin {"NotQuiescent", "CaptureRestoreFailed"}
  /\ c \in {"loop", "clear"} => d.staged = "None" \/ d.result # "Success"
  /\ c = "handOff" => d.result = "Success"

\* The same for a dispatch that AutoCAD's reports of LISP still move.
Waits(d, e, changed, present, l, c) ==
  IsExecution(d) =>
    /\ d.lifecycle = "AwaitingStart" =>
         d.staged = "None" /\ (c = "out" \/ e.outcome = "Unknown")
    /\ c = "out" =>
         /\ d.lifecycle \notin {"InCallback", "EndedDuringCallback"}
         /\ l = "ending" => d.lifecycle \in {"Running", "AwaitingEnd"}
         /\ l \in {"looping", "evaluating"} => d.staged = "None" \/ d.result = "Success"
         /\ present /\ e.outcome = "none" /\ changed # "none" /\ l # "ending" =>
              d.undoGroup # "Inactive" \/ d.staged # "None"

\* What the job was told, and that it is told at the end.
Answered ==
  /\ dispatch.phase # "none" => answer = "none"
  /\ alive /\ answer \in Claims => changes = "none"

Truth ==
  /\ changes \in {"none", "group"}
  /\ dispatch.kind = "ExecDriver" =>
       /\ Honest(execution, changes)
       /\ Told(dispatch, execution, changes, alive, callback)
       /\ Waits(dispatch, execution, changes, alive, lisp, callback)
  /\ Answered

\* What is true stays true when changes are taken back.
LEMMA LessIsHonest ==
  ASSUME NEW e, NEW changed, Honest(e, changed), NEW less \in {changed, "none"}
  PROVE  Honest(e, less)
  BY DEF Honest

\* A new execution has concluded nothing of a drawing without changes.
LEMMA FreshIsHonest ==
  ASSUME NEW mode, NEW forms
  PROVE  Honest(NewExecution(mode, forms), "none")
  BY FreshIsConsistent DEF Honest, NewExecution

\* An abandoned execution is over and claims nothing.
LEMMA AbandonIsHonest ==
  ASSUME NEW e \in Executions, NEW changed, Honest(e, changed)
  PROVE  /\ Honest(Abandon(e), changed)
         /\ Abandon(e).outcome = "Unknown"
         /\ Abandon(e).phase \in {"Terminal", "Done"}
         /\ Abandon(e).handedOff = e.handedOff
<1>1. /\ Abandon(e).outcome = "Unknown"
      /\ Abandon(e).phase \in {"Terminal", "Done"}
      /\ Abandon(e).handedOff = e.handedOff
  BY DEF Abandon, Executions
<1>2. Consistent(Abandon(e))
  BY AbandonIsConsistent DEF Honest
<1> QED BY <1>1, <1>2 DEF Honest, Claims

\* A cancel or a deadline concludes nothing of a form that was handed off, and
\* moves no step that AutoCAD holds.
LEMMA InterruptionIsHonest ==
  ASSUME NEW e \in Executions, NEW changed, Honest(e, changed),
         NEW i \in {RequestCancel(e), ExpireBeforeStart(e)}
  PROVE  /\ Honest(i, changed)
         /\ i.handedOff = e.handedOff
         /\ i.outcome = "none" => e.outcome = "none"
         /\ e.outcome = "Unknown" => i.outcome = "Unknown"
         /\ i.phase = e.phase \/ i.phase \in {"Terminal", "CloseEmptyUndoGroup"}
         /\ e.phase \in AwaitedSteps \cup {"Terminal", "Done"} => i.phase = e.phase
<1>1. CASE i = RequestCancel(e)
  <2>1. Consistent(i)
    BY <1>1, CancelIsConsistent DEF Honest
  <2>2. /\ i.handedOff = e.handedOff /\ i.outcome = e.outcome /\ i.phase = e.phase
    BY <1>1 DEF RequestCancel, Executions
  <2> QED BY <2>1, <2>2 DEF Honest
<1>2. CASE i = ExpireBeforeStart(e)
  <2>1. Consistent(i)
    BY <1>2, ExpiryIsConsistent DEF Honest
  <2>2. \/ i = e
        \/ /\ ~e.handedOff /\ i.handedOff = e.handedOff /\ e.outcome = "none"
           /\ \/ e.phase = "BeginUndoGroup" /\ i.outcome = "NotStarted" /\ i.phase = "Terminal"
              \/ e.phase = "AwaitingBeginUndoGroup" /\ i.outcome = "none" /\ i.phase = e.phase
              \/ /\ e.phase = "BetweenForms" /\ i.outcome = "none"
                 /\ i.phase = "CloseEmptyUndoGroup"
    BY <1>2 DEF ExpireBeforeStart, Expirable, Executions
  <2> QED BY <2>1, <2>2 DEF Honest, AwaitedSteps
<1> QED BY <1>1, <1>2

\* A step that is taken concludes nothing new, and a form that is handed off comes
\* out of the open group.
LEMMA TakeStepIsHonest ==
  ASSUME NEW e \in Executions, NEW changed, Honest(e, changed)
  PROVE  /\ Honest(TakeStep(e), changed)
         /\ TakeStep(e).phase = "AwaitingEvaluateForm" /\ HasStep(e) =>
              e.phase = "BetweenForms" /\ TakeStep(e).handedOff
<1> DEFINE s == Settled(e)
<1>1. s \in Executions
  BY Rewritten, BeginUnwindType, Names DEF Settled, UnwindCauses
<1>2. /\ s.handedOff = e.handedOff
      /\ \/ s = e
         \/ s.phase \in {"Terminal", "ClearRetainedEvalValue", "RollbackUndoGroup"}
         \/ s.phase = "CloseEmptyUndoGroup" /\ ~e.handedOff
      /\ s.outcome \in Claims => changed = "none"
  <2>1. CASE e.phase = "BetweenForms" /\ e.cancel /\ e.handedOff
    <3>1. s = BeginUnwind(e, "Cancelled")
      BY <2>1 DEF Settled
    <3> HIDE DEF s
    <3>2. /\ s.handedOff = e.handedOff /\ s.outcome = e.outcome
          /\ s.phase \in {"ClearRetainedEvalValue", "RollbackUndoGroup"}
      BY <3>1 DEF BeginUnwind, Executions
    <3> QED BY <3>2 DEF Honest
  <2>2. CASE ~(e.phase = "BetweenForms" /\ e.cancel /\ e.handedOff)
    <3>1. \/ s = e
          \/ /\ e.phase = "BeginUndoGroup"
             /\ s = [e EXCEPT !.outcome = "Cancelled", !.phase = "Terminal"]
          \/ /\ ~e.handedOff
             /\ s = [e EXCEPT !.unwind = "Cancelled", !.phase = "CloseEmptyUndoGroup"]
      BY <2>2 DEF Settled
    <3> HIDE DEF s
    <3>2. e.phase = "BeginUndoGroup" => changed = "none"
      BY DEF Honest, Consistent
    <3>3. /\ s.handedOff = e.handedOff
          /\ \/ s = e
             \/ e.phase = "BeginUndoGroup" /\ s.phase = "Terminal"
             \/ ~e.handedOff /\ s.phase = "CloseEmptyUndoGroup" /\ s.outcome = e.outcome
      BY <3>1 DEF Executions
    <3> QED BY <3>2, <3>3 DEF Honest
  <2> QED BY <2>1, <2>2
<1> HIDE DEF s
<1>3. s.phase \in {"CloseEmptyUndoGroup", "AwaitingCloseEmptyUndoGroup"} => ~s.handedOff
  BY <1>2 DEF Honest
<1>4. TakeStep(e) = Issue(s)
  BY DEF TakeStep, s
<1>5. /\ Issue(s).outcome = s.outcome
      /\ ~Issue(s).handedOff => ~s.handedOff
      /\ Issue(s).phase = "AwaitingCloseEmptyUndoGroup" \/ Issue(s).phase = "CloseEmptyUndoGroup" =>
           s.phase \in {"CloseEmptyUndoGroup", "AwaitingCloseEmptyUndoGroup"}
             /\ Issue(s).handedOff = s.handedOff
      /\ Issue(s).phase = "AwaitingEvaluateForm" /\ s.phase # "AwaitingEvaluateForm" =>
           s.phase = "BetweenForms" /\ Issue(s).handedOff
  <2>1. CASE s.phase \in DOMAIN IssuedPhase
    <3>1. s.phase # "BetweenForms"
      BY <2>1 DEF IssuedPhase
    <3>2. Issue(s) = [s EXCEPT !.phase = IssuedPhase[s.phase]]
      BY <2>1, <3>1 DEF Issue
    <3>3. /\ IssuedPhase[s.phase] # "AwaitingEvaluateForm"
          /\ IssuedPhase[s.phase] # "CloseEmptyUndoGroup"
          /\ IssuedPhase[s.phase] = "AwaitingCloseEmptyUndoGroup" =>
               s.phase = "CloseEmptyUndoGroup"
      BY <2>1 DEF IssuedPhase
    <3> QED BY <1>1, <3>2, <3>3 DEF Executions
  <2>2. CASE s.phase \notin DOMAIN IssuedPhase
    <3>1. s.forms > 0 \/ s.forms = 0
      BY <1>1, Fields, MaxFormsAssumption
    <3>2. \/ Issue(s) = s
          \/ /\ s.phase = "BetweenForms"
             /\ Issue(s) = [s EXCEPT !.phase = "AwaitingEvaluateForm", !.forms = s.forms - 1,
                                     !.handedOff = TRUE]
          \/ /\ s.phase = "BetweenForms"
             /\ Issue(s) = [s EXCEPT !.phase = "AwaitingCommitUndoGroup"]
      BY <2>2 DEF Issue
    <3> QED BY <1>1, <3>2 DEF Executions
  <2> QED BY <2>1, <2>2
<1>6. Consistent(TakeStep(e))
  BY TakeStepIsConsistent DEF Honest
<1>7. Honest(TakeStep(e), changed)
  BY <1>2, <1>3, <1>4, <1>5, <1>6 DEF Honest
<1>8. TakeStep(e).phase = "AwaitingEvaluateForm" /\ HasStep(e) =>
        e.phase = "BetweenForms" /\ TakeStep(e).handedOff
  <2>1. HasStep(e) => s.phase # "AwaitingEvaluateForm"
    BY <1>2 DEF HasStep, AwaitedSteps
  <2> QED BY <1>2, <1>4, <1>5, <2>1
<1> QED BY <1>7, <1>8

\* A completed step concludes no more than what is true, if a rollback that goes
\* well takes the changes back.
LEMMA CompleteStepIsHonest ==
  ASSUME NEW e \in Executions, NEW changed, Honest(e, changed), NEW r \in StepResults,
         NEW less \in {changed, "none"},
         e.phase = "AwaitingRollbackUndoGroup" /\ r = "ok" => less = "none"
  PROVE  /\ Honest(CompleteStep(e, r), less)
         /\ CompleteStep(e, r).phase # "AwaitingEvaluateForm"
         /\ CompleteStep(e, r).phase = "BetweenForms" =>
              \/ e.phase = "BetweenForms"
              \/ r = "ok" /\ e.phase \in {"AwaitingBeginUndoGroup", "AwaitingEvaluateForm"}
<1>h. /\ Consistent(CompleteStep(e, r)) /\ Honest(e, less)
      /\ e.phase \notin {"Terminal", "Done"} => e.outcome = "none"
  BY CompleteStepIsConsistent, LessIsHonest DEF Honest, Consistent
<1> DEFINE f == CompleteStep(e, r)
<1>1. CASE e.phase = "AwaitingBeginUndoGroup"
  <2>1. f = UndoGroupBegun(e, r)
    BY <1>1 DEF CompleteStep
  <2>2. less = "none" /\ ~e.handedOff
    BY <1>1 DEF Honest, Consistent
  <2>3. /\ ~f.handedOff
        /\ f.phase \in {"Terminal", "CloseEmptyUndoGroup", "BetweenForms"}
        /\ f.phase = "BetweenForms" => r = "ok"
    BY <2>1, <2>2 DEF UndoGroupBegun, Executions
  <2> QED BY <1>h, <1>1, <2>2, <2>3 DEF Honest
<1>2. CASE e.phase = "AwaitingEvaluateForm"
  <2> DEFINE kept == [e EXCEPT !.retained = e.retained \/ (e.mode = "Eval" /\ r # "failed")]
  <2>1. /\ kept \in Executions /\ kept.handedOff = e.handedOff
        /\ kept.outcome = e.outcome /\ kept.cancel = e.cancel
    BY DEF Executions
  <2>2. \/ f = BeginUnwind(kept, "Unknown") \/ f = BeginUnwind(kept, "Cancelled")
        \/ r = "ok" /\ f = [kept EXCEPT !.phase = "BetweenForms"]
    BY <1>2 DEF CompleteStep, FormEvaluated, Executions
  <2> HIDE DEF kept, f
  <2>3. /\ f.handedOff = e.handedOff /\ f.outcome = e.outcome
        /\ f.phase \in {"ClearRetainedEvalValue", "RollbackUndoGroup", "BetweenForms"}
        /\ f.phase = "BetweenForms" => r = "ok"
    BY <2>1, <2>2 DEF BeginUnwind, Executions
  <2> QED BY <1>h, <1>2, <2>3 DEF Honest, f
<1>3. CASE e.phase \in {"AwaitingCommitUndoGroup", "AwaitingEmitEvalValue"}
  <2>1. /\ f.handedOff = e.handedOff /\ f.outcome \notin Claims
        /\ f.phase \in {"ClearRetainedEvalValue", "RollbackUndoGroup", "EmitEvalValue", "Terminal"}
    <3>1. CASE e.phase = "AwaitingCommitUndoGroup"
      <4>1. /\ BeginUnwind(e, "Unknown").handedOff = e.handedOff
            /\ BeginUnwind(e, "Unknown").outcome = e.outcome
            /\ BeginUnwind(e, "Unknown").phase \in {"ClearRetainedEvalValue", "RollbackUndoGroup"}
        BY DEF BeginUnwind, Executions
      <4>2. /\ UndoGroupCommitted(e, r).handedOff = e.handedOff
            /\ UndoGroupCommitted(e, r).outcome \in {"none", "Success", "Committed"}
            /\ UndoGroupCommitted(e, r).phase \in
                 {"ClearRetainedEvalValue", "RollbackUndoGroup", "EmitEvalValue", "Terminal"}
        BY <1>h, <3>1, <4>1, Fields DEF UndoGroupCommitted, Executions, ExecModes
      <4> QED BY <3>1, <4>2 DEF CompleteStep, Claims
    <3>2. CASE e.phase = "AwaitingEmitEvalValue"
      BY <3>2 DEF CompleteStep, EvalValueEmitted, Executions, Claims
    <3> QED BY <1>3, <3>1, <3>2
  <2> QED BY <1>h, <2>1 DEF Honest
<1>4. CASE e.phase = "AwaitingClearRetainedEvalValue"
  <2>1. /\ f.handedOff = e.handedOff /\ f.outcome = e.outcome /\ f.phase = "RollbackUndoGroup"
    BY <1>4 DEF CompleteStep, RetainedValueCleared, Executions
  <2> QED BY <1>h, <2>1 DEF Honest
<1>5. CASE e.phase = "AwaitingCloseEmptyUndoGroup"
  <2>1. less = "none" /\ ~e.handedOff
    BY <1>5 DEF Honest
  <2>2. ~f.handedOff /\ f.phase \in {"AwaitingCloseEmptyUndoGroup", "Terminal"}
    BY <1>5, <2>1 DEF CompleteStep, EmptyUndoGroupClosed, Executions
  <2> QED BY <1>h, <2>1, <2>2 DEF Honest
<1>6. CASE e.phase = "AwaitingRollbackUndoGroup"
  <2>1. /\ f.handedOff = e.handedOff /\ f.phase \in {"AwaitingRollbackUndoGroup", "Terminal"}
        /\ f.outcome \in Claims => r = "ok" \/ f.outcome = e.outcome
    BY <1>6 DEF CompleteStep, UndoGroupRolledBack, Executions, Claims
  <2> QED BY <1>h, <1>6, <2>1 DEF Honest
<1>7. CASE e.phase \notin AwaitedSteps
  <2>1. f = e
    BY <1>7 DEF CompleteStep, AwaitedSteps
  <2> QED BY <1>h, <1>7, <2>1 DEF AwaitedSteps
<1> QED BY <1>1, <1>2, <1>3, <1>4, <1>5, <1>6, <1>7 DEF AwaitedSteps

\* Two dispatches that claim the same of the drawing and of the step.
SameFacts(d, b) ==
  /\ d.kind = b.kind /\ d.phase = b.phase /\ d.result = b.result
  /\ d.staged = b.staged /\ d.undoGroup = b.undoGroup

\* A dispatch that counts another expression, or one less.
LEMMA CountedFacts ==
  ASSUME NEW b \in Dispatches, NEW n \in 0..2
  PROVE  /\ [b EXCEPT !.depth = n] \in Dispatches
         /\ SameFacts([b EXCEPT !.depth = n], b)
         /\ [b EXCEPT !.depth = n].lifecycle = b.lifecycle
  BY DEF Dispatches, SameFacts

\* A dispatch whose driver goes on elsewhere in its life.
LEMMA PlacedFacts ==
  ASSUME NEW b \in Dispatches,
         NEW l \in {"AwaitingStart", "Running", "InCallback", "EndedDuringCallback",
                    "AwaitingEnd", "Finalizing"}
  PROVE  /\ [b EXCEPT !.lifecycle = l] \in Dispatches
         /\ SameFacts([b EXCEPT !.lifecycle = l], b)
         /\ [b EXCEPT !.lifecycle = l].lifecycle = l
  BY DEF Dispatches, SameFacts

\* What is told of one is told of the other, and of a drawing that is gone.
LEMMA SameTold ==
  ASSUME NEW d, NEW b, NEW e, NEW changed, NEW v, NEW w, NEW c,
         Told(d, e, changed, v, c), w => v,
         b.result = d.result, b.staged = d.staged, b.undoGroup = d.undoGroup
  PROVE  Told(b, e, changed, w, c)
  BY DEF Told

\* What holds of the dispatch, spelled out.
LEMMA TruthHere ==
  ASSUME Truth, dispatch.kind = "ExecDriver"
  PROVE  /\ Honest(execution, changes)
         /\ Told(dispatch, execution, changes, alive, callback)
         /\ Waits(dispatch, execution, changes, alive, lisp, callback)
         /\ changes \in {"none", "group"}
  BY DEF Truth

\* A dispatch that is kept ...
LEMMA KeepTruth ==
  ASSUME Ordered, Truth, NEW d \in Dispatches, NEW e, Keep(d, e),
         \/ changes' \in {changes, "none"}
         \/ dispatch.kind = "ExecDriver" /\ changes' = "group",
         alive' => alive,
         d.phase = "none" \/ dispatch.phase # "none",
         d.kind = "ExecDriver" =>
           /\ Honest(e, changes')
           /\ Told(d, e, changes', alive', callback')
           /\ Waits(d, e, changes', alive', lisp', callback')
  PROVE  Truth'
<1>1. dispatch' = d /\ execution' = e /\ answer' = answer
  BY DEF Keep
<1>2. changes' \in {"none", "group"}
  BY DEF Truth
<1>3. Answered'
  <2>1. dispatch'.phase # "none" => answer' = "none"
    BY <1>1 DEF Truth, Answered
  <2>2. dispatch.kind = "ExecDriver" => dispatch.phase # "none"
    BY NoDispatchType DEF Ordered, Stands
  <2>3. alive' /\ answer' \in Claims => changes' = "none"
    BY <1>1, <1>2, <2>2 DEF Truth, Answered, Claims
  <2> QED BY <2>1, <2>3 DEF Answered
<1>4. dispatch'.kind = "ExecDriver" =>
        /\ Honest(execution', changes')
        /\ Told(dispatch', execution', changes', alive', callback')
        /\ Waits(dispatch', execution', changes', alive', lisp', callback')
  BY <1>1
<1> QED BY <1>2, <1>3, <1>4 DEF Truth, Honest, Consistent, Told, Waits, IsExecution

\* ... and one that is handed to its finalizer, or lost.
LEMMA EndsTruth ==
  ASSUME Ordered, Truth, NEW d \in Dispatches, NEW e, Ends(d, e),
         UNCHANGED changes, alive' => alive,
         dispatch.phase # "none",
         d.kind = "ExecDriver" =>
           Honest(e, changes) /\ Told(d, e, changes, alive', callback')
  PROVE  Truth'
<1>1. changes' \in {"none", "group"} /\ execution' = e
  BY DEF Truth, Ends
<1>2. CASE dispatch' = NoDispatch /\ answer' \in {"none", "Unknown"}
  BY <1>1, <1>2, NoDispatchType DEF Truth, Answered, Claims
<1>3. CASE dispatch' = [d EXCEPT !.phase = "Finalizing"] /\ UNCHANGED answer
  <2> DEFINE f == [d EXCEPT !.phase = "Finalizing"]
  <2>1. /\ f.kind = d.kind /\ f.result = d.result /\ f.staged = d.staged
        /\ f.undoGroup = d.undoGroup /\ ~IsExecution(f)
    BY DEF Dispatches, IsExecution
  <2> HIDE DEF f
  <2>2. f.kind = "ExecDriver" => Told(f, e, changes', alive', callback')
    BY <2>1, SameTold
  <2>3. Waits(f, e, changes', alive', lisp', callback')
    BY <2>1 DEF Waits
  <2>4. Answered'
    BY <1>3 DEF Truth, Answered, Claims
  <2>5. dispatch'.kind = "ExecDriver" =>
          /\ Honest(execution', changes')
          /\ Told(dispatch', execution', changes', alive', callback')
          /\ Waits(dispatch', execution', changes', alive', lisp', callback')
    BY <1>1, <1>3, <2>1, <2>2, <2>3 DEF f
  <2> QED BY <1>1, <2>4, <2>5 DEF Truth, Honest, Consistent, Told, Waits, IsExecution
<1> QED BY <1>2, <1>3 DEF Ends

\* An execution that is finalized.
LEMMA FinalizerTruth ==
  ASSUME Ordered, Truth, NEW d \in Dispatches, NEW e \in Executions,
         ScheduleExecutionFinalizer(d, e),
         UNCHANGED changes, alive' => alive, dispatch.phase # "none",
         Honest(e, changes), Told(d, e, changes, alive', callback')
  PROVE  Truth'
<1> DEFINE b == [d EXCEPT !.lifecycle = "Finalizing"]
<1>1. /\ b \in Dispatches /\ b.result = d.result /\ b.staged = d.staged
      /\ b.undoGroup = d.undoGroup
  BY DEF Dispatches
<1>2. Ends(b, e)
  BY ExecutionFinalizer DEF Ordered
<1> HIDE DEF b
<1>3. Told(b, e, changes, alive', callback')
  BY <1>1, SameTold
<1> QED BY <1>1, <1>2, <1>3, EndsTruth

\* A driver that fails has answered nothing.
LEMMA FailDriverTruth ==
  ASSUME Ordered, Truth, NEW d \in Dispatches, FailDriver(d, execution),
         dispatch.kind = "ExecDriver", d.kind = "ExecDriver", d.phase # "Finalizing",
         d.staged = dispatch.staged, d.undoGroup = dispatch.undoGroup,
         UNCHANGED changes, alive' => alive, callback' \in {"out"} \cup Commands,
         callback' # "out" => callback' = callback
  PROVE  Truth'
<1> DEFINE f == [d EXCEPT !.port = "none", !.result = "ExecBridgeFailed"]
<1>1. /\ f \in Dispatches /\ f.staged = d.staged /\ f.undoGroup = d.undoGroup
      /\ f.result = "ExecBridgeFailed"
  BY Results DEF Dispatches
<1>2. ScheduleExecutionFinalizer(f, execution)
  BY DEF FailDriver
<1> HIDE DEF f
<1>3. Honest(execution, changes) /\ Told(dispatch, execution, changes, alive, callback)
  BY TruthHere
<1>4. Told(f, execution, changes, alive', callback')
  BY <1>1, <1>3 DEF Told, Commands
<1>5. dispatch.phase # "none" /\ execution \in Executions
  BY NoDispatchType DEF Ordered, Stands, TypeOK
<1> QED BY <1>1, <1>2, <1>3, <1>4, <1>5, FinalizerTruth

\* LISP starts: nothing is told, and a driver starts with nothing staged.
LEMMA StartsTruth ==
  ASSUME Ordered, Truth, DriverStarts \/ NestedStarts
  PROVE  Truth'
<1>t. dispatch \in Dispatches /\ execution \in Executions
  BY DEF Ordered, TypeOK
<1>s. Stands(dispatch, lisp, nested, queued, callback)
  BY DEF Ordered
<1>1. CASE DriverStarts
  <2>1. PICK d \in {dispatch, StartsDriver(dispatch)} : Keep(d, execution)
    BY <1>1 DEF DriverStarts
  <2>2. /\ queued > 0 /\ lisp = "none" /\ callback = "out" /\ lisp' = "looping"
        /\ UNCHANGED <<changes, alive, callback>>
    BY <1>1 DEF DriverStarts, drawingVars
  <2>3. IsExecution(dispatch) => dispatch.lifecycle = "AwaitingStart"
    BY <1>s, <2>2 DEF Stands
  <2>4. \/ d = dispatch
        \/ d = [dispatch EXCEPT !.lifecycle = "Running", !.depth = 1]
    <3>1. \/ StartsDriver(dispatch) = dispatch
          \/ StartsDriver(dispatch) = [dispatch EXCEPT !.lifecycle = "Running", !.depth = 1]
      <4>1. CASE IsExecution(dispatch)
        BY <2>3, <4>1 DEF StartsDriver
      <4>2. CASE ~IsExecution(dispatch)
        BY <4>2 DEF StartsDriver
      <4> QED BY <4>1, <4>2
    <3> QED BY <2>1, <3>1
  <2>5. /\ d \in Dispatches /\ SameFacts(d, dispatch)
        /\ d.lifecycle \in {dispatch.lifecycle, "Running"}
    <3>1. CASE d = dispatch
      BY <1>t, <3>1 DEF SameFacts
    <3>2. CASE d = [dispatch EXCEPT !.lifecycle = "Running", !.depth = 1]
      <4>1. d \in Dispatches
        BY <1>t, <3>2, Depths, Moved
      <4>2. SameFacts(d, dispatch) /\ d.lifecycle = "Running"
        BY <1>t, <3>2 DEF Dispatches, SameFacts
      <4> QED BY <4>1, <4>2
    <3> QED BY <2>4, <3>1, <3>2
  <2>6. ASSUME d.kind = "ExecDriver"
        PROVE  /\ Honest(execution, changes')
               /\ Told(d, execution, changes', alive', callback')
               /\ Waits(d, execution, changes', alive', lisp', callback')
    <3>1. dispatch.kind = "ExecDriver"
      BY <2>5, <2>6 DEF SameFacts
    <3>2. Told(d, execution, changes', alive', callback')
      BY <2>2, <2>5, <3>1, TruthHere, SameTold DEF SameFacts
    <3>3. Waits(dispatch, execution, changes, alive, lisp, callback)
      BY <3>1, TruthHere
    <3>4. Waits(d, execution, changes', alive', lisp', callback')
      BY <2>2, <2>3, <2>5, <3>3 DEF Waits, SameFacts, IsExecution
    <3> QED BY <2>2, <3>1, <3>2, <3>4, TruthHere
  <2> QED BY <2>1, <2>2, <2>5, <2>6, KeepTruth DEF SameFacts
<1>2. CASE NestedStarts
  <2> DEFINE d == StartsOther(dispatch)
  <2>1. Keep(d, execution) /\ UNCHANGED <<changes, alive, lisp, callback>>
    BY <1>2 DEF NestedStarts, drawingVars
  <2>2. /\ d \in Dispatches /\ SameFacts(d, dispatch) /\ d.lifecycle = dispatch.lifecycle
    <3>1. \/ d = dispatch
          \/ /\ dispatch.depth + 1 \in 0..2
             /\ d = [dispatch EXCEPT !.depth = dispatch.depth + 1]
      <4>1. d \in Dispatches
        BY <1>2, <2>1, StartsOrdered DEF Keep, Ordered, TypeOK
      <4>2. d = dispatch \/ d = [dispatch EXCEPT !.depth = dispatch.depth + 1]
        BY DEF StartsOther, StartsDriver
      <4> QED BY <1>t, <4>1, <4>2 DEF Dispatches
    <3> HIDE DEF d
    <3>2. CASE d = dispatch
      BY <1>t, <3>2 DEF SameFacts
    <3>3. CASE /\ dispatch.depth + 1 \in 0..2
               /\ d = [dispatch EXCEPT !.depth = dispatch.depth + 1]
      BY <1>t, <3>3, CountedFacts
    <3> QED BY <3>1, <3>2, <3>3
  <2> HIDE DEF d
  <2>3. ASSUME d.kind = "ExecDriver"
        PROVE  /\ Honest(execution, changes')
               /\ Told(d, execution, changes', alive', callback')
               /\ Waits(d, execution, changes', alive', lisp', callback')
    <3>1. dispatch.kind = "ExecDriver"
      BY <2>2, <2>3 DEF SameFacts
    <3>2. Told(d, execution, changes', alive', callback')
      BY <2>1, <2>2, <3>1, TruthHere, SameTold DEF SameFacts
    <3>3. Waits(dispatch, execution, changes, alive, lisp, callback)
      BY <3>1, TruthHere
    <3>4. Waits(d, execution, changes', alive', lisp', callback')
      BY <2>1, <2>2, <3>3 DEF Waits, SameFacts, IsExecution
    <3> QED BY <2>1, <3>1, <3>2, <3>4, TruthHere
  <2> QED BY <2>1, <2>2, <2>3, KeepTruth DEF SameFacts
<1> QED BY <1>1, <1>2

\* LISP ends: an expression nested in the driver's, or the driver.
LEMMA LispEndsTruth ==
  ASSUME Ordered, Truth, LispEnds
  PROVE  Truth'
<1>t. dispatch \in Dispatches /\ execution \in Executions
  BY DEF Ordered, TypeOK
<1>s. Stands(dispatch, lisp, nested, queued, callback)
  BY DEF Ordered
<1>1. /\ \/ nested /\ UNCHANGED lisp
         \/ ~nested /\ lisp' = "none"
      /\ Terminated
      /\ callback \in {"out"} \cup Commands
      /\ UNCHANGED <<changes, alive, callback>>
  BY DEF LispEnds, drawingVars, AutoCADRuns
<1>2. CASE ~IsExecution(dispatch) \/ dispatch.lifecycle \in {"AwaitingStart", "Finalizing"}
  <2>1. Keep(dispatch, execution)
    BY <1>1, <1>2 DEF Terminated
  <2>2. ASSUME dispatch.kind = "ExecDriver"
        PROVE  Waits(dispatch, execution, changes', alive', lisp', callback')
    <3>1. Waits(dispatch, execution, changes, alive, lisp, callback)
      BY <2>2, TruthHere
    <3>2. IsExecution(dispatch) => dispatch.lifecycle = "AwaitingStart"
      BY <1>s, <1>2 DEF Stands, IsExecution
    <3>3. lisp' = lisp \/ lisp' = "none"
      BY <1>1
    <3> QED BY <1>1, <3>1, <3>2, <3>3 DEF Waits
  <2>3. dispatch.kind = "ExecDriver" =>
           Honest(execution, changes') /\ Told(dispatch, execution, changes', alive', callback')
    BY <1>1, TruthHere
  <2> QED BY <1>t, <1>1, <2>1, <2>2, <2>3, KeepTruth
<1>3. CASE IsExecution(dispatch) /\ dispatch.lifecycle \notin {"AwaitingStart", "Finalizing"}
  <2>0. /\ dispatch.kind = "ExecDriver" /\ dispatch.phase \in {"Queued", "Running"}
        /\ Honest(execution, changes)
        /\ Told(dispatch, execution, changes, alive, callback)
        /\ Waits(dispatch, execution, changes, alive, lisp, callback)
    BY <1>3, TruthHere DEF IsExecution
  <2>1. CASE dispatch.depth > 1
    <3> DEFINE d == [dispatch EXCEPT !.depth = dispatch.depth - 1]
    <3>1. Keep(d, execution)
      BY <1>1, <1>3, <2>1 DEF Terminated
    <3>2. dispatch.depth - 1 \in 0..2
      BY <1>t, <2>1 DEF Dispatches
    <3>3. d \in Dispatches /\ SameFacts(d, dispatch) /\ d.lifecycle = dispatch.lifecycle
      BY <1>t, <3>2, CountedFacts
    <3> HIDE DEF d
    <3>4. UNCHANGED lisp
      BY <1>s, <1>1, <1>3, <2>1 DEF Stands
    <3>5. Told(d, execution, changes', alive', callback')
      BY <1>1, <2>0, <3>3, SameTold DEF SameFacts
    <3>6. Waits(d, execution, changes', alive', lisp', callback')
      BY <1>1, <2>0, <3>3, <3>4 DEF Waits, SameFacts, IsExecution
    <3> QED BY <1>1, <2>0, <3>1, <3>3, <3>5, <3>6, KeepTruth DEF SameFacts
  <2>2. CASE ~(dispatch.depth > 1)
    <3> DEFINE d == [dispatch EXCEPT !.depth = 0]
    <3>1. d \in Dispatches /\ SameFacts(d, dispatch) /\ d.lifecycle = dispatch.lifecycle
      BY <1>t, Depths, CountedFacts
    <3>2. d.lifecycle = "InCallback" => Keep([d EXCEPT !.lifecycle
            = "EndedDuringCallback"], execution)
      BY <1>1, <1>3, <2>2 DEF Terminated
    <3>3. d.lifecycle = "AwaitingEnd" => ScheduleExecutionFinalizer(d, execution)
      BY <1>1, <1>3, <2>2, <3>1 DEF Terminated
    <3>4. d.lifecycle \notin {"InCallback", "AwaitingEnd"} => FailDriver(d, execution)
      BY <1>1, <1>3, <2>2 DEF Terminated
    <3> HIDE DEF d
    <3>5. Told(d, execution, changes, alive', callback')
      BY <1>1, <2>0, <3>1, SameTold DEF SameFacts
    <3>6. CASE d.lifecycle = "InCallback"
      <4> DEFINE b == [d EXCEPT !.lifecycle = "EndedDuringCallback"]
      <4>1. b \in Dispatches /\ SameFacts(b, d)
        BY <3>1, PlacedFacts
      <4>2. Keep(b, execution)
        BY <3>2, <3>6
      <4> HIDE DEF b
      <4>3. callback' # "out"
        BY <1>1, <1>3, <2>0, <3>1, <3>6 DEF Waits
      <4>4. b.lifecycle = "EndedDuringCallback"
        BY <3>1, PlacedFacts DEF b
      <4>5. Waits(b, execution, changes', alive', lisp', callback')
        BY <4>3, <4>4 DEF Waits
      <4>6. Told(b, execution, changes', alive', callback')
        BY <1>1, <3>5, <4>1, SameTold DEF SameFacts
      <4> QED BY <1>1, <2>0, <3>1, <4>1, <4>2, <4>5, <4>6, KeepTruth DEF SameFacts
    <3>7. CASE d.lifecycle = "AwaitingEnd"
      BY <1>t, <1>1, <2>0, <3>1, <3>3, <3>5, <3>7, FinalizerTruth DEF SameFacts
    <3>8. CASE d.lifecycle \notin {"InCallback", "AwaitingEnd"}
      BY <1>1, <2>0, <3>1, <3>4, <3>8, FailDriverTruth DEF SameFacts
    <3> QED BY <3>6, <3>7, <3>8
  <2> QED BY <2>1, <2>2
<1> QED BY <1>2, <1>3

\* An undo or redo tells nothing of forms.
LEMMA HistoryTruth ==
  ASSUME Ordered, Truth, HistoryRuns \/ HistoryTerminated
  PROVE  Truth'
<1>t. /\ dispatch \in Dispatches /\ execution \in Executions /\ TypeOK
      /\ dispatch.kind = "History" /\ dispatch.phase = "Queued"
      /\ UNCHANGED <<changes, alive>>
  BY DEF Ordered, TypeOK, HistoryRuns, HistoryTerminated, drawingVars
<1>1. PICK d \in Dispatches : d.kind = "History" /\ ScheduleFinalizer(d, execution)
  <2>1. CASE HistoryRuns
    <3>1. PICK result \in {"Success", "Refused", "NotQuiescent"} :
            ScheduleFinalizer([dispatch EXCEPT !.phase = "Running", !.result = result], execution)
      BY <2>1 DEF HistoryRuns
    <3>2. result \in NativeResults
      BY Results
    <3>3. /\ [dispatch EXCEPT !.phase = "Running", !.result = result] \in Dispatches
          /\ [dispatch EXCEPT !.phase = "Running", !.result = result].kind = "History"
      BY <1>t, <3>2 DEF Dispatches
    <3> QED BY <3>1, <3>3
  <2>2. CASE HistoryTerminated
    <3>1. /\ [dispatch EXCEPT !.result = "Refused"] \in Dispatches
          /\ [dispatch EXCEPT !.result = "Refused"].kind = "History"
      BY <1>t, Results DEF Dispatches
    <3> QED BY <2>2, <3>1 DEF HistoryTerminated
  <2> QED BY <2>1, <2>2
<1>2. Ends(d, execution)
  BY <1>t, <1>1, FinalizerIsScheduledOrEnds
<1> QED BY <1>t, <1>1, <1>2, EndsTruth

\* The document goes, or the client cancels.
LEMMA EnvironmentTruth ==
  ASSUME Ordered, Truth,
         AnotherDocumentActivates \/ TargetDestroyed \/ TargetReloaded \/ ExecutionInterrupted
  PROVE  Truth'
<1>t. dispatch \in Dispatches /\ execution \in Executions /\ TypeOK
  BY DEF Ordered, TypeOK
<1>1. CASE AnotherDocumentActivates \/ TargetReloaded
  <2>1. /\ Keep(dispatch, execution) /\ (alive' => alive)
        /\ UNCHANGED <<changes, lisp, callback>>
    BY <1>1 DEF AnotherDocumentActivates, TargetReloaded, hostVars, lispVars, Keep
  <2>2. ASSUME dispatch.kind = "ExecDriver"
        PROVE  /\ Honest(execution, changes')
               /\ Told(dispatch, execution, changes', alive', callback')
               /\ Waits(dispatch, execution, changes', alive', lisp', callback')
    BY <2>1, <2>2, TruthHere DEF Told, Waits
  <2> QED BY <1>t, <2>1, <2>2, KeepTruth
<1>2. CASE TargetDestroyed
  <2>1. /\ alive' = FALSE /\ callback \in {"out"} \cup Commands
        /\ UNCHANGED <<changes, lisp, callback>>
    BY <1>2 DEF TargetDestroyed, AutoCADRuns
  <2>2. CASE dispatch.phase # "Queued"
    <3>1. Keep(dispatch, execution)
      BY <1>2, <2>2 DEF TargetDestroyed
    <3>2. ASSUME dispatch.kind = "ExecDriver"
          PROVE  /\ Honest(execution, changes')
                 /\ Told(dispatch, execution, changes', alive', callback')
                 /\ Waits(dispatch, execution, changes', alive', lisp', callback')
      BY <2>1, <3>2, TruthHere DEF Told, Waits
    <3> QED BY <1>t, <2>1, <3>1, <3>2, KeepTruth
  <2>3. CASE dispatch.phase = "Queued"
    <3> DEFINE d == [dispatch EXCEPT !.result = "Refused"]
    <3>1. /\ d \in Dispatches /\ d.kind = dispatch.kind /\ d.undoGroup = dispatch.undoGroup
          /\ d.staged = dispatch.staged /\ d.result = "Refused"
      BY <1>t, Results DEF Dispatches
    <3>2. ScheduleFinalizer(d, execution)
      BY <1>2, <2>3 DEF TargetDestroyed
    <3> HIDE DEF d
    <3>3. Ends(d, execution)
      BY <1>t, <3>1, <3>2, FinalizerIsScheduledOrEnds
    <3>4. ASSUME dispatch.kind = "ExecDriver"
          PROVE  Honest(execution, changes) /\ Told(d, execution, changes, alive', callback')
      BY <2>1, <3>1, <3>4, TruthHere DEF Told, Commands
    <3> QED BY <2>1, <2>3, <3>1, <3>3, <3>4, EndsTruth
  <2> QED BY <2>2, <2>3
<1>3. CASE ExecutionInterrupted
  <2>1. /\ Keep(dispatch, execution') /\ dispatch.kind = "ExecDriver"
        /\ UNCHANGED <<changes, alive, lisp, callback>>
        /\ execution' \in {RequestCancel(execution), ExpireBeforeStart(execution)}
    BY <1>3 DEF ExecutionInterrupted, drawingVars, lispVars, Keep
  <2>2. /\ Honest(execution, changes)
        /\ Told(dispatch, execution, changes, alive, callback)
        /\ Waits(dispatch, execution, changes, alive, lisp, callback)
    BY <2>1, TruthHere
  <2> DEFINE i == execution'
  <2>3. /\ Honest(i, changes)
        /\ i.handedOff = execution.handedOff
        /\ i.outcome = "none" => execution.outcome = "none"
        /\ execution.outcome = "Unknown" => i.outcome = "Unknown"
        /\ i.phase = execution.phase \/ i.phase \in {"Terminal", "CloseEmptyUndoGroup"}
        /\ execution.phase \in AwaitedSteps \cup {"Terminal", "Done"} => i.phase = execution.phase
    BY <1>t, <2>1, <2>2, InterruptionIsHonest
  <2> HIDE DEF i
  <2>4. Told(dispatch, i, changes, alive, callback)
    <3>1. /\ {"AwaitingEvaluateForm", "AwaitingEmitEvalValue"} \subseteq AwaitedSteps
          /\ DOMAIN CommandOf \subseteq AwaitedSteps
      BY DEF AwaitedSteps, CommandOf
    <3> QED BY <2>2, <2>3, <3>1 DEF Told
  <2>5. Waits(dispatch, i, changes, alive, lisp, callback)
    BY <2>2, <2>3 DEF Waits
  <2>6. /\ Told(dispatch, i, changes', alive', callback')
        /\ Waits(dispatch, i, changes', alive', lisp', callback')
        /\ Honest(i, changes')
    BY <2>1, <2>3, <2>4, <2>5
  <2>7. Keep(dispatch, i)
    BY <2>1 DEF i
  <2> QED BY <1>t, <2>1, <2>6, <2>7, KeepTruth
<1> QED BY <1>1, <1>2, <1>3

\* A new dispatch finds no changes and no answer.
LEMMA DispatchTruth ==
  ASSUME Ordered, Truth, Dispatch \/ DispatchNotSent
  PROVE  Truth'
<1>1. CASE Dispatch
  <2>1. PICK kind \in {"History", "ExecDriver"}, mode \in ExecModes, forms \in 1..MaxForms :
          /\ dispatch' = NewDispatch(kind)
          /\ execution' = IF kind = "ExecDriver" THEN NewExecution(mode, forms) ELSE Dropped
    BY <1>1 DEF Dispatch
  <2>2. changes' = "none" /\ answer' = "none" /\ callback' = "out" /\ lisp' = "none"
    BY <1>1 DEF Dispatch, MayDispatch
  <2> DEFINE d == NewDispatch(kind)
  <2>3. /\ d.kind = kind /\ d.lifecycle = "AwaitingStart" /\ d.result = "Success"
        /\ d.staged = "None"
    BY NoDispatchType DEF NewDispatch, NoDispatch
  <2>4. forms # 0 /\ NewExecution(mode, forms).phase \notin {"BetweenForms", "AwaitingEvaluateForm"}
    BY DEF NewExecution
  <2> HIDE DEF d
  <2>5. /\ Honest(NewExecution(mode, forms), changes')
        /\ Told(d, NewExecution(mode, forms), changes', alive', callback')
        /\ Waits(d, NewExecution(mode, forms), changes', alive', lisp', callback')
    BY <2>2, <2>3, <2>4, FreshIsHonest DEF Told, Waits, Commands
  <2>6. Answered' /\ changes' \in {"none", "group"}
    BY <2>2 DEF Answered
  <2>7. dispatch'.kind = "ExecDriver" =>
          /\ Honest(execution', changes')
          /\ Told(dispatch', execution', changes', alive', callback')
          /\ Waits(dispatch', execution', changes', alive', lisp', callback')
    BY <2>1, <2>3, <2>5 DEF d
  <2> QED BY <2>6, <2>7 DEF Truth, Honest, Consistent, Told, Waits, IsExecution
<1>2. CASE DispatchNotSent
  <2>1. dispatch' = NoDispatch /\ changes' = "none"
    BY <1>2 DEF DispatchNotSent, MayDispatch
  <2> QED BY <2>1, NoDispatchType DEF Truth, Answered
<1> QED BY <1>1, <1>2

\* A dispatch of an execution is not stopped, and covers the drawing.
LEMMA CoveredHere ==
  ASSUME Ordered, Clean, dispatch.kind = "ExecDriver"
  PROVE  Covered(dispatch, undo, symbols, lisp, callback)
  BY NoDispatchType DEF Ordered, Attended, Clean

\* Nothing is staged, and the dispatch is not refused: only the group is told.
LEMMA NothingStagedIsTold ==
  ASSUME NEW d, NEW e, NEW changed, NEW present, NEW c, d.staged = "None",
         e.phase \in {"BetweenForms", "AwaitingEvaluateForm"} => d.undoGroup = "Active",
         d.result \notin {"Refused", "NotQuiescent", "CaptureRestoreFailed"},
         c \notin Commands, c # "handOff"
  PROVE  Told(d, e, changed, present, c)
  BY DEF Told

\* A form edits the drawing where it was handed off.
LEMMA LispEvaluatesTruth ==
  ASSUME Ordered, Clean, Truth, ~FormsMayEscape, LispEvaluates
  PROVE  Truth'
<1>t. dispatch \in Dispatches /\ execution \in Executions
  BY DEF Ordered, TypeOK
<1>1. PICK port \in IF dispatch.port = "open" THEN {"open", "invalid"} ELSE {dispatch.port} :
        Keep([dispatch EXCEPT !.port = port], execution)
  BY DEF LispEvaluates
<1> DEFINE d == [dispatch EXCEPT !.port = port]
<1>2. d \in Dispatches /\ SameFacts(d, dispatch) /\ d.lifecycle = dispatch.lifecycle
  <2>1. port \in {"none", "open", "invalid"}
    BY <1>t DEF Dispatches
  <2> QED BY <1>t, <2>1 DEF Dispatches, SameFacts
<1> HIDE DEF d
<1>3. /\ lisp = "evaluating" /\ lisp' = "looping" /\ callback = "out"
      /\ UNCHANGED <<alive, callback>>
  BY DEF LispEvaluates
<1>4. \/ changes' = changes
      \/ dispatch.staged = "Evaluator" /\ changes' = "group"
  <2>1. CASE dispatch.staged = "Evaluator" /\ symbols /\ alive
    <3>1. PICK edit \in FormEdits : undo' = edit.undo /\ changes' = edit.changes
      BY <2>1 DEF LispEvaluates
    <3> QED BY <2>1, <3>1, FormEditsFacts
  <2>2. CASE ~(dispatch.staged = "Evaluator" /\ symbols /\ alive)
    BY <2>2 DEF LispEvaluates
  <2> QED BY <2>1, <2>2
<1>5. dispatch.staged = "Evaluator" => dispatch.kind = "ExecDriver"
  BY <1>t, NoDispatchType DEF Ordered, Stands, Dispatches
<1>6. ASSUME dispatch.kind = "ExecDriver"
      PROVE  /\ Honest(execution, changes')
             /\ Told(d, execution, changes', alive', callback')
             /\ Waits(d, execution, changes', alive', lisp', callback')
  <2>1. /\ Honest(execution, changes)
        /\ Told(dispatch, execution, changes, alive, callback)
        /\ Waits(dispatch, execution, changes, alive, lisp, callback)
    BY <1>6, TruthHere
  <2>2. Honest(execution, changes')
    <3>1. dispatch.staged = "Evaluator" =>
            execution.handedOff /\ execution.outcome \in {"none", "Unknown"}
      BY <2>1 DEF Told, Honest, Consistent
    <3>2. CASE changes' = changes
      BY <2>1, <3>2
    <3>3. CASE dispatch.staged = "Evaluator" /\ changes' = "group"
      BY <2>1, <3>1, <3>3 DEF Honest, Claims
    <3> QED BY <1>4, <3>2, <3>3
  <2>3. Told(dispatch, execution, changes', alive', callback')
    <3>1. CASE changes' = changes
      BY <1>3, <2>1, <3>1
    <3>2. CASE dispatch.staged = "Evaluator" /\ changes' = "group"
      BY <1>3, <2>1, <3>2 DEF Told
    <3> QED BY <1>4, <3>1, <3>2
  <2>4. Told(d, execution, changes', alive', callback')
    BY <1>2, <2>3, SameTold DEF SameFacts
  <2>5. Waits(d, execution, changes', alive', lisp', callback')
    BY <1>2, <1>3, <1>4, <2>1 DEF Waits, SameFacts, IsExecution
  <2> QED BY <2>2, <2>4, <2>5
<1>7. \/ changes' \in {changes, "none"}
      \/ dispatch.kind = "ExecDriver" /\ changes' = "group"
  BY <1>4, <1>5
<1>8. /\ Keep(d, execution)
      /\ d.kind = dispatch.kind /\ d.phase = dispatch.phase /\ (alive' => alive)
  BY <1>1, <1>2, <1>3 DEF SameFacts, d
<1> QED BY <1>2, <1>6, <1>7, <1>8, KeepTruth

\* The dispatch that the host's callback has found.
LEMMA InCallbackFacts ==
  ASSUME NEW b \in Dispatches
  PROVE  /\ InCallback(b) \in Dispatches /\ InCallback(b).kind = b.kind
         /\ InCallback(b).lifecycle = "InCallback" /\ InCallback(b).result = b.result
         /\ InCallback(b).staged = b.staged /\ InCallback(b).undoGroup = b.undoGroup
<1> DEFINE n == IF b.lifecycle = "AwaitingStart" THEN 1 ELSE b.depth
<1>1. n \in 0..2
  BY DEF Dispatches
<1> HIDE DEF n
<1>2. [b EXCEPT !.phase = "Running", !.lifecycle = "InCallback", !.depth = n] \in Dispatches
  BY <1>1, Moved
<1>3. [b EXCEPT !.phase = "Running", !.lifecycle = "InCallback", !.depth = n] = InCallback(b)
  BY DEF InCallback, n
<1> DEFINE i == [b EXCEPT !.phase = "Running", !.lifecycle = "InCallback", !.depth = n]
<1>4. /\ i.kind = b.kind /\ i.lifecycle = "InCallback" /\ i.result = b.result
      /\ i.staged = b.staged /\ i.undoGroup = b.undoGroup
  BY <1>1 DEF Dispatches
<1> HIDE DEF i
<1> QED BY <1>2, <1>3, <1>4 DEF i

\* The callback finds the dispatch where it should be, or refuses it.
LEMMA AdvanceBeginsTruth ==
  ASSUME Ordered, Truth, AdvanceRefused \/ AdvanceUnusable \/ AdvanceContinues
  PROVE  Truth'
<1>t. dispatch \in Dispatches /\ execution \in Executions
  BY DEF Ordered, TypeOK
<1>1. /\ lisp = "looping" /\ callback = "out" /\ UNCHANGED <<changes, alive>>
  BY DEF AdvanceRefused, AdvanceUnusable, AdvanceContinues, AdvanceStarts, drawingVars
<1>2. CASE AdvanceRefused
  <2>1. lisp' = "ending" /\ callback' = "out"
    BY <1>1, <1>2 DEF AdvanceRefused
  <2>2. CASE ~IsExecution(dispatch) /\ Keep(dispatch, execution)
    <3>1. ASSUME dispatch.kind = "ExecDriver"
          PROVE  /\ Honest(execution, changes')
                 /\ Told(dispatch, execution, changes', alive', callback')
                 /\ Waits(dispatch, execution, changes', alive', lisp', callback')
      BY <1>1, <2>1, <2>2, <3>1, TruthHere DEF Waits
    <3> QED BY <1>t, <1>1, <2>2, <3>1, KeepTruth
  <2>3. CASE IsExecution(dispatch) /\ FailDriver(dispatch, execution)
    <3>1. dispatch.kind = "ExecDriver" /\ dispatch.phase # "Finalizing"
      BY <2>3 DEF IsExecution
    <3> QED BY <1>t, <1>1, <2>1, <2>3, <3>1, FailDriverTruth
  <2> QED BY <1>2, <2>2, <2>3 DEF AdvanceRefused
<1>3. CASE AdvanceUnusable \/ AdvanceContinues
  <2>1. /\ callback' = "loop" /\ UNCHANGED lisp /\ IsExecution(dispatch)
        /\ dispatch.kind = "ExecDriver" /\ dispatch.phase # "none"
    BY <1>3 DEF AdvanceUnusable, AdvanceContinues, AdvanceStarts, IsExecution
  <2>2. /\ Honest(execution, changes)
        /\ Told(dispatch, execution, changes, alive, callback)
        /\ Waits(dispatch, execution, changes, alive, lisp, callback)
    BY <2>1, TruthHere
  <2>3. PICK d \in Dispatches :
          /\ Keep(d, execution) /\ d.kind = "ExecDriver" /\ d.lifecycle = "InCallback"
          /\ d.staged = dispatch.staged /\ d.undoGroup = dispatch.undoGroup
          /\ \/ d.result \in {"Refused", "ExecBridgeFailed"}
             \/ dispatch.staged = "None" /\ d.result = dispatch.result
    <3>1. CASE AdvanceUnusable
      <4>1. PICK result \in {"Refused", "ExecBridgeFailed"} :
              Keep([InCallback(dispatch) EXCEPT !.result = result], execution)
        BY <3>1 DEF AdvanceUnusable
      <4> DEFINE d == [InCallback(dispatch) EXCEPT !.result = result]
      <4>2. /\ d \in Dispatches /\ d.kind = "ExecDriver" /\ d.lifecycle = "InCallback"
            /\ d.staged = dispatch.staged /\ d.undoGroup = dispatch.undoGroup
            /\ d.result = result
        BY <1>t, <2>1, InCallbackFacts, Results DEF Dispatches
      <4> QED BY <4>1, <4>2
    <3>2. CASE AdvanceContinues
      BY <1>t, <2>1, <3>2, InCallbackFacts DEF AdvanceContinues
    <3> QED BY <1>3, <3>1, <3>2
  <2>4. Told(d, execution, changes', alive', callback')
    BY <1>1, <2>1, <2>2, <2>3 DEF Told, Waits, Commands
  <2>5. Waits(d, execution, changes', alive', lisp', callback')
    BY <2>1, <2>3 DEF Waits
  <2>6. Honest(execution, changes')
    BY <1>1, <2>2
  <2> QED BY <1>1, <2>1, <2>3, <2>4, <2>5, <2>6, KeepTruth
<1> QED BY <1>2, <1>3

\* What was staged is collected.  The host goes on with forms only where it has
\* seen the group open.
LEMMA CollectsTruth ==
  ASSUME Ordered, Truth, CollectsEvaluation \/ CollectsEmission
  PROVE  Truth'
<1>t. dispatch \in Dispatches /\ execution \in Executions /\ TypeOK
  BY DEF Ordered, TypeOK
<1>1. /\ lisp = "looping" /\ callback = "out" /\ callback' = "loop"
      /\ UNCHANGED <<changes, alive, lisp>>
      /\ IsExecution(dispatch) /\ dispatch.staged # "None"
      /\ dispatch.kind = "ExecDriver" /\ dispatch.phase # "none"
  BY DEF CollectsEvaluation, CollectsEmission, AdvanceStarts, IsExecution
<1>2. /\ Honest(execution, changes)
      /\ Told(dispatch, execution, changes, alive, callback)
      /\ Waits(dispatch, execution, changes, alive, lisp, callback)
  BY <1>1, TruthHere
<1>3. dispatch.result = "Success"
  BY <1>1, <1>2 DEF Waits
<1>i. /\ InCallback(dispatch) \in Dispatches /\ InCallback(dispatch).kind = "ExecDriver"
      /\ InCallback(dispatch).lifecycle = "InCallback"
      /\ InCallback(dispatch).result = "Success"
  BY <1>t, <1>1, <1>3, InCallbackFacts
<1>4. PICK d \in Dispatches, r \in StepResults :
        /\ Keep(BadStep(d, execution), CompletedStep(execution, r))
        /\ d.kind = "ExecDriver" /\ d.lifecycle = "InCallback" /\ d.staged = "None"
        /\ d.result = "Success"
        /\ \/ dispatch.staged = "Evaluator" /\ (r = "ok" => d.undoGroup = "Active")
           \/ dispatch.staged = "EvalValueEmitter"
  <2>1. CASE CollectsEvaluation
    <3>1. PICK c \in Finishes(status = "ok", execution.mode = "Eval"),
               seen \in {undo, "Unknown"} :
            Keep(BadStep([InCallback(dispatch) EXCEPT !.port = "none", !.staged = "None",
                                    !.symbolsKept = c.kept, !.undoGroup = seen], execution),
                 CompletedStep(execution, StepResult(c.ok /\ seen = "Active", dispatch)))
      BY <2>1 DEF CollectsEvaluation
    <3> DEFINE d == [InCallback(dispatch) EXCEPT !.port = "none", !.staged = "None",
                                    !.symbolsKept = c.kept, !.undoGroup = seen]
               r == StepResult(c.ok /\ seen = "Active", dispatch)
    <3>2. c.kept \in BOOLEAN /\ seen \in UndoGroupStates
      BY <1>t, FinishesFacts DEF TypeOK, UndoGroupStates
    <3>3. /\ d \in Dispatches /\ d.kind = "ExecDriver" /\ d.lifecycle = "InCallback"
          /\ d.staged = "None" /\ d.undoGroup = seen /\ d.result = "Success"
      BY <1>i, <3>2 DEF Dispatches
    <3>4. r \in StepResults /\ (r = "ok" => seen = "Active")
      BY StepResultType DEF StepResult
    <3>5. dispatch.staged = "Evaluator"
      BY <2>1 DEF CollectsEvaluation
    <3>6. Keep(BadStep(d, execution), CompletedStep(execution, r))
      BY <3>1
    <3> HIDE DEF d, r
    <3> QED BY <3>3, <3>4, <3>5, <3>6
  <2>2. CASE CollectsEmission
    <3>1. PICK c \in Finishes(status = "ok", FALSE) :
            Keep(BadStep([InCallback(dispatch) EXCEPT !.port = "none", !.staged = "None",
                                    !.symbolsKept = c.kept], execution),
                 CompletedStep(execution, StepResult(c.ok, dispatch)))
      BY <2>2 DEF CollectsEmission
    <3> DEFINE d == [InCallback(dispatch) EXCEPT !.port = "none", !.staged = "None",
                                    !.symbolsKept = c.kept]
               r == StepResult(c.ok, dispatch)
    <3>2. c.kept \in BOOLEAN
      BY <1>t, FinishesFacts
    <3>3. /\ d \in Dispatches /\ d.kind = "ExecDriver" /\ d.lifecycle = "InCallback"
          /\ d.staged = "None" /\ d.result = "Success"
      BY <1>i, <3>2 DEF Dispatches
    <3>4. r \in StepResults /\ dispatch.staged = "EvalValueEmitter"
      BY <2>2, StepResultType DEF CollectsEmission
    <3>5. Keep(BadStep(d, execution), CompletedStep(execution, r))
      BY <3>1
    <3> HIDE DEF d, r
    <3> QED BY <3>3, <3>4, <3>5
  <2> QED BY <2>1, <2>2
<1> DEFINE b == BadStep(d, execution)
           e == CompletedStep(execution, r)
<1>5. /\ b \in Dispatches /\ b.kind = "ExecDriver" /\ b.lifecycle = "InCallback"
      /\ b.staged = "None" /\ b.undoGroup = d.undoGroup
      /\ b.result \in {"Success", "ExecBridgeFailed"}
  BY <1>4, BadStepFacts DEF SamePlace
<1>6. Honest(e, changes) /\ (e.phase \in {"BetweenForms", "AwaitingEvaluateForm"} =>
                               d.undoGroup = "Active")
  <2>1. CASE execution.phase \in AwaitedSteps
    <3>1. e = CompleteStep(execution, r)
      BY <2>1 DEF CompletedStep
    <3>2. execution.outcome = "none"
      BY <1>2, <2>1 DEF Honest, Consistent, AwaitedSteps
    <3>3. \/ execution.phase = "AwaitingEvaluateForm" /\ (r = "ok" => d.undoGroup = "Active")
          \/ execution.phase = "AwaitingEmitEvalValue"
      BY <1>2, <1>4, <3>2 DEF Told
    <3> HIDE DEF e
    <3> QED BY <1>t, <1>2, <3>1, <3>3, CompleteStepIsHonest
  <2>2. CASE execution.phase \notin AwaitedSteps
    <3>1. e = execution
      BY <2>2 DEF CompletedStep
    <3>2. execution.phase \in {"Terminal", "Done"}
      <4>1. execution.outcome = "Unknown"
        BY <1>2, <1>4, <2>2 DEF Told, AwaitedSteps
      <4> QED BY <1>2, <4>1 DEF Honest, Consistent
    <3> QED BY <1>2, <3>1, <3>2
  <2> QED BY <2>1, <2>2
<1>7. Keep(b, e)
  BY <1>4
<1> HIDE DEF b, e
<1>8. Told(b, e, changes', alive', callback')
  BY <1>1, <1>5, <1>6, NothingStagedIsTold DEF Commands
<1>9. Waits(b, e, changes', alive', lisp', callback')
  BY <1>1, <1>5 DEF Waits
<1>10. Honest(e, changes')
  BY <1>1, <1>6
<1> QED BY <1>1, <1>5, <1>7, <1>8, <1>9, <1>10, KeepTruth

\* LISP is cancelled: the step that LISP was to do has failed, any other
\* execution is abandoned.
LEMMA LispCancelledTruth ==
  ASSUME Ordered, Truth, LispCancelled
  PROVE  Truth'
<1>t. dispatch \in Dispatches /\ execution \in Executions /\ TypeOK
  BY DEF Ordered, TypeOK
<1>s. Stands(dispatch, lisp, nested, queued, callback)
  BY DEF Ordered
<1>1. /\ callback = "out" => lisp' = "none"
      /\ callback \in {"out"} \cup Commands
      /\ UNCHANGED <<alive, changes, callback>>
  BY DEF LispCancelled, AutoCADRuns
<1>2. CASE ~IsExecution(dispatch) \/ dispatch.lifecycle \in {"AwaitingStart", "Finalizing"}
  <2>1. Keep(dispatch, execution)
    BY <1>2 DEF LispCancelled
  <2>2. ASSUME dispatch.kind = "ExecDriver"
        PROVE  /\ Honest(execution, changes')
               /\ Told(dispatch, execution, changes', alive', callback')
               /\ Waits(dispatch, execution, changes', alive', lisp', callback')
    <3>1. /\ Honest(execution, changes)
          /\ Told(dispatch, execution, changes, alive, callback)
          /\ Waits(dispatch, execution, changes, alive, lisp, callback)
      BY <2>2, TruthHere
    <3>2. IsExecution(dispatch) => dispatch.lifecycle = "AwaitingStart"
      BY <1>s, <1>2 DEF Stands, IsExecution
    <3>3. Waits(dispatch, execution, changes', alive', lisp', callback')
      BY <1>1, <3>1, <3>2 DEF Waits
    <3> QED BY <1>1, <3>1, <3>3
  <2> QED BY <1>t, <1>1, <2>1, <2>2, KeepTruth
<1>3. CASE ~(~IsExecution(dispatch) \/ dispatch.lifecycle \in {"AwaitingStart", "Finalizing"})
  <2>0. /\ dispatch.kind = "ExecDriver" /\ dispatch.phase # "none"
        /\ Honest(execution, changes)
        /\ Told(dispatch, execution, changes, alive, callback)
    BY <1>3, TruthHere DEF IsExecution
  <2> DEFINE d == [dispatch EXCEPT !.port = "none"]
  <2>1. d \in Dispatches /\ SameFacts(d, dispatch)
    BY <1>t DEF Dispatches, SameFacts
  <2>2. \/ RecoverLost(d)
        \/ d.staged # "None" /\ RecoverStaged(d)
        \/ d.staged = "None" /\ Resend(d, Abandon(execution))
    BY <1>3 DEF LispCancelled, Recover
  <2> HIDE DEF d
  <2>a. /\ Abandon(execution) \in Executions /\ Honest(Abandon(execution), changes)
        /\ Abandon(execution).outcome = "Unknown"
        /\ Abandon(execution).phase \in {"Terminal", "Done"}
        /\ Abandon(execution).handedOff = execution.handedOff
    BY <1>t, <2>0, AbandonType, AbandonIsHonest
  <2>3. ASSUME NEW b \in Dispatches, NEW e \in Executions, Resend(b, e), Honest(e, changes),
               b.kind = "ExecDriver", b.staged = "None", b.result = dispatch.result,
               e.phase \notin {"BetweenForms", "AwaitingEvaluateForm"},
               e.outcome = "none" => b.undoGroup # "Inactive",
               callback \in Commands =>
                 e.outcome = "Unknown" /\ e.phase \in {"Terminal", "Done"}
        PROVE  Truth'
    <3>1. /\ Resent(b) \in Dispatches /\ Resent(b).kind = "ExecDriver"
          /\ Resent(b).lifecycle = "AwaitingStart" /\ Resent(b).undoGroup = b.undoGroup
          /\ Resent(b).staged = "None" /\ Resent(b).result = dispatch.result
      BY <2>3, ResentFacts
    <3>2. ASSUME NEW f, f.undoGroup = b.undoGroup, f.staged = "None",
                 f.result \in {"Refused", dispatch.result}
          PROVE  Told(f, e, changes, alive', callback')
      BY <1>1, <2>0, <2>3, <3>2 DEF Told, Commands
    <3>3. CASE Keep(Resent(b), e)
      <4>1. Told(Resent(b), e, changes', alive', callback') /\ Honest(e, changes')
        BY <1>1, <2>3, <3>1, <3>2
      <4>2. Waits(Resent(b), e, changes', alive', lisp', callback')
        BY <1>1, <2>3, <3>1 DEF Waits
      <4> QED BY <1>1, <2>0, <3>1, <3>3, <4>1, <4>2, KeepTruth
    <3>4. CASE ScheduleExecutionFinalizer([Resent(b) EXCEPT !.result = "Refused"], e)
      <4> DEFINE f == [Resent(b) EXCEPT !.result = "Refused"]
      <4>1. /\ f \in Dispatches /\ f.undoGroup = b.undoGroup /\ f.staged = "None"
            /\ f.result = "Refused"
        BY <3>1, Results DEF Dispatches
      <4> HIDE DEF f
      <4>2. Told(f, e, changes, alive', callback')
        BY <3>2, <4>1
      <4> QED BY <1>1, <2>0, <2>3, <3>4, <4>1, <4>2, FinalizerTruth DEF f
    <3> QED BY <2>3, <3>3, <3>4 DEF Resend
  <2>4. CASE RecoverLost(d)
    <3> DEFINE b == [d EXCEPT !.symbolsKept = @ \/ d.staged # "None"]
    <3>1. PICK c \in LosesContext(b) : ScheduleExecutionFinalizer(c.d, Abandon(execution))
      BY <2>4 DEF RecoverLost
    <3>2. b \in Dispatches /\ SameFacts(b, d)
      BY <2>1 DEF Dispatches, SameFacts
    <3> HIDE DEF b
    <3>3. /\ c.d \in Dispatches /\ c.d.result = "Success"
          /\ c.d.undoGroup = dispatch.undoGroup /\ c.d.staged = dispatch.staged
      BY <1>t, <2>1, <3>2, LosesContextFacts DEF SameFacts
    <3>4. Told(c.d, Abandon(execution), changes, alive', callback')
      BY <1>1, <2>0, <2>a, <3>3 DEF Told, Commands
    <3> QED BY <1>1, <2>0, <2>a, <3>1, <3>3, <3>4, FinalizerTruth
  <2>5. CASE d.staged # "None" /\ RecoverStaged(d)
    <3> DEFINE e == IF execution.phase \in AwaitedSteps THEN CompleteStep(execution, "failed")
                    ELSE Abandon(execution)
    <3>1. PICK c \in Finishes(FALSE, FALSE) :
            Resend([d EXCEPT !.symbolsKept = c.kept, !.staged = "None"], e)
      BY <2>5 DEF RecoverStaged
    <3> DEFINE b == [d EXCEPT !.symbolsKept = c.kept, !.staged = "None"]
    <3>2. c.kept \in BOOLEAN
      BY <1>t, FinishesFacts
    <3>3. /\ b \in Dispatches /\ b.kind = "ExecDriver" /\ b.staged = "None"
          /\ b.result = dispatch.result /\ b.undoGroup = dispatch.undoGroup
      BY <2>0, <2>1, <3>2 DEF Dispatches, SameFacts
    <3>4. callback \notin Commands /\ dispatch.staged \in {"Evaluator", "EvalValueEmitter"}
      BY <1>t, <2>0, <2>1, <2>5 DEF Told, SameFacts, Dispatches
    <3>5. /\ e \in Executions /\ Honest(e, changes)
          /\ e.phase \notin {"BetweenForms", "AwaitingEvaluateForm"}
          /\ e.outcome = "none" => dispatch.undoGroup # "Inactive"
      <4>1. CASE execution.phase \in AwaitedSteps
        <5> DEFINE f == CompleteStep(execution, "failed")
        <5>1. /\ "failed" \in StepResults /\ "failed" # "ok"
              /\ execution.phase # "BetweenForms" /\ execution.outcome = "none"
          BY <2>0, <4>1 DEF StepResults, AwaitedSteps, Honest, Consistent
        <5>2. f \in Executions
          BY <1>t, <5>1, CompleteStepType
        <5>3. /\ Honest(f, changes) /\ f.phase # "AwaitingEvaluateForm"
              /\ f.phase # "BetweenForms"
          BY <1>t, <2>0, <5>1, CompleteStepIsHonest
        <5>4. \/ execution.phase = "AwaitingEvaluateForm" /\ dispatch.undoGroup = "Active"
              \/ execution.phase = "AwaitingEmitEvalValue" /\ f.outcome = "Committed"
          <6>1. \/ execution.phase = "AwaitingEvaluateForm" /\ dispatch.undoGroup = "Active"
                \/ execution.phase = "AwaitingEmitEvalValue"
            BY <2>0, <3>4, <5>1 DEF Told
          <6>2. CASE execution.phase = "AwaitingEmitEvalValue"
            <7>1. f = EvalValueEmitted(execution, "failed")
              BY <6>2 DEF CompleteStep
            <7> QED BY <1>t, <6>2, <7>1 DEF EvalValueEmitted, Executions
          <6> QED BY <6>1, <6>2
        <5>5. e = f
          BY <4>1
        <5> HIDE DEF e, f
        <5> QED BY <5>2, <5>3, <5>4, <5>5
      <4>2. CASE execution.phase \notin AwaitedSteps
        BY <2>a, <4>2
      <4> QED BY <4>1, <4>2
    <3>6. Resend(b, e)
      BY <3>1
    <3> HIDE DEF b, e
    <3> QED BY <2>3, <3>3, <3>4, <3>5, <3>6
  <2>6. CASE d.staged = "None" /\ Resend(d, Abandon(execution))
    BY <2>0, <2>1, <2>3, <2>6, <2>a DEF SameFacts
  <2> QED BY <2>2, <2>4, <2>5, <2>6
<1> QED BY <1>2, <1>3

\* What holds where the loop goes on.
LEMMA LoopHere ==
  ASSUME Ordered, Truth, LoopRuns
  PROVE  /\ dispatch \in Dispatches /\ execution \in Executions
         /\ callback = "loop" /\ dispatch.phase # "none"
         /\ dispatch.kind = "ExecDriver" /\ dispatch.result = "Success"
         /\ dispatch.staged = "None"
         /\ Honest(execution, changes)
         /\ execution.phase \in {"BetweenForms", "AwaitingEvaluateForm"} =>
              dispatch.undoGroup = "Active"
         /\ IsExecution(dispatch) /\ dispatch.lifecycle = "AwaitingStart" =>
              execution.outcome = "Unknown" /\ execution.phase \in {"Terminal", "Done"}
<1>1. /\ dispatch \in Dispatches /\ execution \in Executions
      /\ callback = "loop" /\ dispatch.phase # "none" /\ dispatch.result = "Success"
  BY DEF Ordered, TypeOK, LoopRuns
<1>2. dispatch.kind = "ExecDriver"
  BY <1>1, NoDispatchType DEF Ordered, Stands, Dispatches
<1>3. /\ Honest(execution, changes)
      /\ Told(dispatch, execution, changes, alive, callback)
      /\ Waits(dispatch, execution, changes, alive, lisp, callback)
  BY <1>2, TruthHere
<1>4. IsExecution(dispatch) /\ dispatch.lifecycle = "AwaitingStart" =>
        execution.outcome = "Unknown" /\ execution.phase \in {"Terminal", "Done"}
  BY <1>1, <1>3 DEF Waits, Honest, Consistent
<1> QED BY <1>1, <1>2, <1>3, <1>4 DEF Told

\* A dispatch that is kept inside the host's callback.
LEMMA CallbackTruth ==
  ASSUME Ordered, Truth, NEW d \in Dispatches, NEW e, Keep(d, e), dispatch.phase # "none",
         changes' \in {changes, "none"}, UNCHANGED alive, callback' # "out",
         Honest(e, changes'), Told(d, e, changes', alive, callback'),
         IsExecution(d) /\ d.lifecycle = "AwaitingStart" =>
           d.staged = "None" /\ e.outcome = "Unknown"
  PROVE  Truth'
<1>1. Waits(d, e, changes', alive', lisp', callback')
  BY DEF Waits
<1>2. Told(d, e, changes', alive', callback') /\ (alive' => alive)
  OBVIOUS
<1> QED BY <1>1, <1>2, KeepTruth

\* An execution that is over has one step left, and keeps what it concluded.
LEMMA LastStep ==
  ASSUME NEW e \in Executions, e.phase \in {"Terminal", "Done"}
  PROVE  TakeStep(e).phase = "Done" /\ TakeStep(e).outcome = e.outcome
<1>1. Settled(e) = e
  BY DEF Settled
<1>2. CASE e.phase = "Terminal"
  <2>1. TakeStep(e) = [e EXCEPT !.phase = "Done"]
    BY <1>1, <1>2 DEF TakeStep, Issue, IssuedPhase
  <2> QED BY <2>1 DEF Executions
<1>3. CASE e.phase = "Done"
  BY <1>1, <1>3 DEF TakeStep, Issue, IssuedPhase
<1> QED BY <1>2, <1>3

\* The loop ends, and takes the steps that it leaves to a command or to LISP.
LEMMA LoopLeavesTruth ==
  ASSUME Ordered, Truth, LoopEnds \/ LoopLosesContext \/ StepInvalid
  PROVE  Truth'
<1>t. dispatch \in Dispatches /\ execution \in Executions
  BY DEF Ordered, TypeOK
<1>1. CASE LoopEnds
  <2>1. /\ Keep(dispatch, execution) /\ UNCHANGED <<changes, alive, lisp>>
        /\ callback = "loop" /\ callback' = "exit" /\ (alive' => alive)
    BY <1>1 DEF LoopEnds, Keep, hostVars, drawingVars
  <2>2. ASSUME dispatch.kind = "ExecDriver"
        PROVE  /\ Honest(execution, changes')
               /\ Told(dispatch, execution, changes', alive', callback')
               /\ Waits(dispatch, execution, changes', alive', lisp', callback')
    BY <2>1, <2>2, TruthHere DEF Told, Waits, Commands
  <2> QED BY <1>t, <2>1, <2>2, KeepTruth
<1>2. CASE LoopLosesContext
  <2> DEFINE d == [dispatch EXCEPT !.result = "Success"]
             e == Abandon(execution)
  <2>1. /\ LoopRuns /\ Keep(d, e) /\ UNCHANGED <<changes, alive>> /\ callback' = "exit"
    BY <1>2 DEF LoopLosesContext, drawingVars
  <2>2. d = dispatch
    BY <1>t, <2>1 DEF LoopRuns, Dispatches
  <2>3. Honest(e, changes) /\ e.outcome = "Unknown" /\ e.phase \in {"Terminal", "Done"}
    BY <2>1, LoopHere, AbandonIsHonest
  <2> HIDE DEF d, e
  <2>4. Told(d, e, changes', alive, callback')
    BY <2>1, <2>2, <2>3, LoopHere, NothingStagedIsTold DEF Commands
  <2> QED BY <2>1, <2>2, <2>3, <2>4, LoopHere, CallbackTruth
<1>3. CASE StepInvalid
  <2> DEFINE d == [dispatch EXCEPT !.result = "ExecBridgeFailed"]
  <2>1. /\ LoopRuns /\ Keep(d, execution) /\ UNCHANGED <<changes, alive>> /\ callback' = "exit"
    BY <1>3 DEF StepInvalid, drawingVars
  <2>2. /\ d \in Dispatches /\ d.staged = dispatch.staged /\ d.undoGroup = dispatch.undoGroup
        /\ d.result = "ExecBridgeFailed" /\ d.lifecycle = dispatch.lifecycle
        /\ IsExecution(d) <=> IsExecution(dispatch)
    BY <1>t, Results DEF Dispatches, IsExecution
  <2> HIDE DEF d
  <2>3. Told(d, execution, changes', alive, callback')
    BY <2>1, <2>2, LoopHere, NothingStagedIsTold DEF Commands
  <2> QED BY <2>1, <2>2, <2>3, LoopHere, CallbackTruth
<1> QED BY <1>1, <1>2, <1>3

\* A step is left to a command, or is the last.
LEMMA StepLeftTruth ==
  ASSUME Ordered, Truth, StepStartsCommand \/ StepIsLast
  PROVE  Truth'
<1> DEFINE e == TakeStep(execution)
<1>1. /\ LoopRuns /\ Keep(dispatch, e) /\ UNCHANGED <<changes, alive>>
      /\ HasStep(execution)
      /\ \/ e.phase \in DOMAIN CommandOf /\ callback' = CommandOf[e.phase]
         \/ e.phase = "Done" /\ callback' \in {"clear", "terminal"}
  BY DEF StepStartsCommand, StepIsLast, StepTaken, drawingVars
<1>2. Honest(e, changes')
  BY <1>1, LoopHere, TakeStepIsHonest
<1>3. /\ callback' # "out" /\ e.phase \notin {"BetweenForms", "AwaitingEvaluateForm"}
      /\ callback' # "handOff"
  BY <1>1 DEF CommandOf
<1>4. IsExecution(dispatch) /\ dispatch.lifecycle = "AwaitingStart" => e.outcome = "Unknown"
  BY <1>1, LoopHere, LastStep
<1> HIDE DEF e
<1>5. Told(dispatch, e, changes', alive, callback')
  BY <1>1, <1>3, LoopHere DEF Told
<1> QED BY <1>1, <1>2, <1>3, <1>4, <1>5, LoopHere, CallbackTruth

\* A step that is done in one go.
LEMMA StepDoneTruth ==
  ASSUME Ordered, Truth, LoopRuns, HasStep(execution),
         TakeStep(execution).phase \in {"AwaitingClearRetainedEvalValue",
                                        "AwaitingEvaluateForm", "AwaitingEmitEvalValue"},
         NEW r \in StepResults,
         TakeStep(execution).phase = "AwaitingEvaluateForm" => r # "ok",
         NEW d \in Dispatches, SameFacts(d, dispatch), d.lifecycle = dispatch.lifecycle,
         StepDone(d, r)
  PROVE  Truth'
<1> DEFINE s == TakeStep(execution)
           e == CompleteStep(s, r)
<1>1. s \in Executions /\ Honest(s, changes)
  BY LoopHere, TakeStepType, TakeStepIsHonest
<1>2. /\ Honest(e, changes) /\ e.phase # "AwaitingEvaluateForm" /\ e.phase # "BetweenForms"
  <2> HIDE DEF s
  <2> QED BY <1>1, CompleteStepIsHonest DEF s
<1>3. Keep(d, e) /\ UNCHANGED <<changes, alive, callback>>
  BY DEF StepDone
<1>4. ~(IsExecution(dispatch) /\ dispatch.lifecycle = "AwaitingStart")
  BY LoopHere, LastStep
<1> HIDE DEF s, e
<1>5. Told(d, e, changes', alive, callback')
  BY <1>2, <1>3, LoopHere, NothingStagedIsTold DEF SameFacts, Commands
<1> QED BY <1>2, <1>3, <1>4, <1>5, LoopHere, CallbackTruth DEF SameFacts, IsExecution

\* A value is cleared, a form is staged or not, and so is the emitter.
LEMMA StagedTruth ==
  ASSUME Ordered, Truth, NEW kind \in {"Evaluator", "EvalValueEmitter"}, Staged(kind),
         StepTaken(IF kind = "Evaluator" THEN "AwaitingEvaluateForm"
                   ELSE "AwaitingEmitEvalValue")
  PROVE  Truth'
<1> DEFINE d == [dispatch EXCEPT !.staged = kind, !.port = "open", !.symbolsKept = TRUE,
                                 !.formHandedOff = @ \/ kind = "Evaluator"]
           e == TakeStep(execution)
<1>1. /\ LoopRuns /\ HasStep(execution)
      /\ Keep(d, e) /\ UNCHANGED <<changes, alive>> /\ callback' = "handOff"
      /\ kind = "Evaluator" => e.phase = "AwaitingEvaluateForm"
      /\ kind = "EvalValueEmitter" => e.phase = "AwaitingEmitEvalValue"
  BY DEF Staged, StepTaken
<1>2. /\ d \in Dispatches /\ d.kind = dispatch.kind /\ d.phase = dispatch.phase
      /\ d.lifecycle = dispatch.lifecycle /\ d.staged = kind
      /\ d.undoGroup = dispatch.undoGroup /\ d.result = dispatch.result
  BY <1>1, LoopHere DEF Dispatches
<1>3. /\ Honest(e, changes')
      /\ e.phase = "AwaitingEvaluateForm" => dispatch.undoGroup = "Active" /\ e.handedOff
  BY <1>1, LoopHere, TakeStepIsHonest
<1>4. ~(IsExecution(dispatch) /\ dispatch.lifecycle = "AwaitingStart")
  BY <1>1, LoopHere, LastStep
<1> HIDE DEF d, e
<1>5. Told(d, e, changes', alive, callback')
  BY <1>1, <1>2, <1>3, LoopHere DEF Told, Commands
<1> QED BY <1>1, <1>2, <1>3, <1>4, <1>5, LoopHere, CallbackTruth DEF IsExecution

\* The steps that write or clear symbols.
LEMMA SymbolStepsTruth ==
  ASSUME Ordered, Truth, StepClearsValue \/ StepEvaluates \/ StepEmits
  PROVE  Truth'
<1>t. dispatch \in Dispatches /\ execution \in Executions /\ TypeOK
  BY DEF Ordered, TypeOK
<1>f. "failed" \in StepResults /\ "failed" # "ok"
  BY DEF StepResults
<1>1. CASE StepClearsValue
  <2>1. PICK c \in Clears : StepDone([dispatch EXCEPT !.symbolsKept = ~c.ok], CompletionOf(c))
    BY <1>1 DEF StepClearsValue
  <2> DEFINE d == [dispatch EXCEPT !.symbolsKept = ~c.ok]
  <2>2. c.ok \in BOOLEAN
    BY <1>t, ClearsFacts
  <2>3. d \in Dispatches /\ SameFacts(d, dispatch) /\ d.lifecycle = dispatch.lifecycle
    BY <1>t, <2>2 DEF Dispatches, SameFacts
  <2>4. CompletionOf(c) \in StepResults
    BY <2>2, CompletionOfType
  <2>5. /\ LoopRuns /\ HasStep(execution)
        /\ TakeStep(execution).phase = "AwaitingClearRetainedEvalValue"
    BY <1>1 DEF StepClearsValue, StepTaken
  <2>6. StepDone(d, CompletionOf(c))
    BY <2>1
  <2> HIDE DEF d
  <2> QED BY <2>3, <2>4, <2>5, <2>6, StepDoneTruth
<1>2. ASSUME NEW kind \in {"Evaluator", "EvalValueEmitter"}, NotStaged(kind),
             LoopRuns, HasStep(execution),
             TakeStep(execution).phase \in {"AwaitingEvaluateForm", "AwaitingEmitEvalValue"}
      PROVE  Truth'
  <2>1. PICK c \in Finishes(FALSE, FALSE) :
          StepDone([dispatch EXCEPT !.symbolsKept = c.kept,
                                    !.formHandedOff = @ \/ kind = "Evaluator"], "failed")
    BY <1>2 DEF NotStaged
  <2> DEFINE d == [dispatch EXCEPT !.symbolsKept = c.kept,
                                   !.formHandedOff = @ \/ kind = "Evaluator"]
  <2>2. c.kept \in BOOLEAN
    BY <1>t, FinishesFacts
  <2>3. d \in Dispatches /\ SameFacts(d, dispatch) /\ d.lifecycle = dispatch.lifecycle
    BY <1>t, <2>2 DEF Dispatches, SameFacts
  <2>4. StepDone(d, "failed")
    BY <2>1
  <2> HIDE DEF d
  <2> QED BY <1>f, <1>2, <2>3, <2>4, StepDoneTruth
<1>3. CASE StepEvaluates
  <2>1. /\ StepTaken("AwaitingEvaluateForm") /\ LoopRuns /\ HasStep(execution)
        /\ TakeStep(execution).phase = "AwaitingEvaluateForm"
    BY <1>3 DEF StepEvaluates, StepTaken
  <2>2. CASE NoFormPort
    <3> DEFINE d == [dispatch EXCEPT !.formHandedOff = TRUE]
    <3>1. d \in Dispatches /\ SameFacts(d, dispatch) /\ d.lifecycle = dispatch.lifecycle
      BY <1>t DEF Dispatches, SameFacts
    <3>2. StepDone(d, "failed")
      BY <2>2 DEF NoFormPort
    <3> HIDE DEF d
    <3> QED BY <1>f, <2>1, <3>1, <3>2, StepDoneTruth
  <2> QED BY <1>2, <1>3, <2>1, <2>2, StagedTruth DEF StepEvaluates
<1>4. CASE StepEmits
  <2>1. /\ StepTaken("AwaitingEmitEvalValue") /\ LoopRuns /\ HasStep(execution)
        /\ TakeStep(execution).phase = "AwaitingEmitEvalValue"
    BY <1>4 DEF StepEmits, StepTaken
  <2> QED BY <1>2, <1>4, <2>1, StagedTruth DEF StepEmits
<1> QED BY <1>1, <1>3, <1>4

\* A command ends the step that it was run for.
LEMMA CommandTruth ==
  ASSUME Ordered, Truth, NEW d \in Dispatches, NEW r \in StepResults, StepCompletes(d, r),
         callback \in Commands, changes' \in {changes, "none"},
         d.kind = dispatch.kind, d.phase = dispatch.phase, d.lifecycle = dispatch.lifecycle,
         d.result = dispatch.result, d.staged = dispatch.staged,
         r = "ok" /\ callback = "begin" => d.undoGroup = "Active",
         r = "ok" /\ callback = "rollback" /\ dispatch.kind = "ExecDriver" => changes' = "none"
  PROVE  Truth'
<1>t. dispatch \in Dispatches /\ execution \in Executions
  BY DEF Ordered, TypeOK
<1>c. callback' = "loop" /\ UNCHANGED alive
  BY DEF StepCompletes
<1>1. CASE dispatch.phase = "none"
  <2>1. Keep(dispatch, execution) /\ dispatch.kind # "ExecDriver"
    BY <1>1, NoDispatchType DEF StepCompletes, Ordered, Stands
  <2> QED BY <1>t, <1>c, <1>1, <2>1, KeepTruth
<1>2. CASE dispatch.phase # "none"
  <2> DEFINE b == BadStep(d, execution)
             e == CompletedStep(execution, r)
  <2>0. dispatch.kind = "ExecDriver"
    BY <1>t, <1>2, NoDispatchType DEF Ordered, Stands, Dispatches, Commands
  <2>1. /\ Honest(execution, changes)
        /\ Told(dispatch, execution, changes, alive, callback)
        /\ Waits(dispatch, execution, changes, alive, lisp, callback)
    BY <2>0, TruthHere
  <2>2. Keep(b, e)
    BY <1>2 DEF StepCompletes
  <2>3. /\ b \in Dispatches /\ b.staged = "None" /\ b.undoGroup = d.undoGroup
        /\ b.lifecycle = dispatch.lifecycle
        /\ IsExecution(b) <=> IsExecution(dispatch)
        /\ execution.phase \in AwaitedSteps => b.result = dispatch.result
        /\ execution.phase \notin AwaitedSteps => b.result = "ExecBridgeFailed"
    <3>1. dispatch.staged = "None"
      BY <2>1 DEF Told
    <3>2. /\ b \in Dispatches /\ SamePlace(b, d)
          /\ b.undoGroup = d.undoGroup /\ b.staged = d.staged
          /\ execution.phase \in AwaitedSteps => b = d
          /\ execution.phase \notin AwaitedSteps => b.result = "ExecBridgeFailed"
      BY BadStepFacts
    <3> HIDE DEF b
    <3> QED BY <3>1, <3>2 DEF SamePlace, IsExecution
  <2>4. IsExecution(dispatch) /\ dispatch.lifecycle = "AwaitingStart" =>
          execution.outcome = "Unknown"
    BY <2>1 DEF Waits, Commands
  <2>5. CASE execution.phase \in AwaitedSteps
    <3>1. e = CompleteStep(execution, r)
      BY <2>5 DEF CompletedStep
    <3>2. execution.outcome = "none" /\ execution.phase # "BetweenForms"
      BY <2>1, <2>5 DEF Honest, Consistent, AwaitedSteps
    <3>3. execution.phase \in DOMAIN CommandOf /\ CommandOf[execution.phase] = callback
      BY <2>1, <2>5 DEF Told, AwaitedSteps
    <3>4. /\ execution.phase = "AwaitingBeginUndoGroup" => callback = "begin"
          /\ execution.phase = "AwaitingRollbackUndoGroup" => callback = "rollback"
          /\ execution.phase # "AwaitingEvaluateForm"
      BY <3>3 DEF CommandOf
    <3> HIDE DEF b, e
    <3>5. /\ Honest(e, changes')
          /\ e.phase \in {"BetweenForms", "AwaitingEvaluateForm"} => b.undoGroup = "Active"
      BY <1>t, <2>0, <2>1, <2>3, <3>1, <3>2, <3>4, CompleteStepIsHonest
    <3>6. Told(b, e, changes', alive, callback')
      BY <1>c, <2>1, <2>3, <2>5, <3>2, <3>5 DEF Told, Commands
    <3> QED BY <1>c, <1>2, <2>2, <2>3, <2>4, <3>2, <3>5, <3>6, CallbackTruth
  <2>6. CASE execution.phase \notin AwaitedSteps
    <3>1. e = execution
      BY <2>6 DEF CompletedStep
    <3>2. execution.phase \in {"Terminal", "Done"}
      BY <2>1, <2>6 DEF Told, CommandOf, AwaitedSteps
    <3> HIDE DEF b, e
    <3>3. Honest(e, changes')
      BY <2>1, <3>1, LessIsHonest
    <3>4. Told(b, e, changes', alive, callback')
      BY <1>c, <2>3, <2>6, <3>1, <3>2, NothingStagedIsTold DEF Commands
    <3> QED BY <1>c, <1>2, <2>2, <2>3, <2>4, <3>1, <3>3, <3>4, CallbackTruth
  <2> QED BY <2>5, <2>6
<1> QED BY <1>1, <1>2

\* The three commands of a step.
LEMMA CommandStepsTruth ==
  ASSUME Ordered, Clean, Truth, StepBegins \/ StepCloses \/ StepRollsBack
  PROVE  Truth'
<1>t. dispatch \in Dispatches /\ execution \in Executions /\ TypeOK
      /\ changes \in {"none", "group"}
  BY DEF Ordered, TypeOK, Truth
<1>1. CASE StepBegins
  <2>1. PICK c \in UndoRuns("Active") :
          StepCompletes([dispatch EXCEPT !.undoGroup = c.seen,
                                         !.mayHaveStarted = (c.seen # "Inactive")],
                        CompletionOf(c))
    BY <1>1 DEF StepBegins
  <2> DEFINE d == [dispatch EXCEPT !.undoGroup = c.seen,
                                   !.mayHaveStarted = (c.seen # "Inactive")]
             r == CompletionOf(c)
  <2>2. c.seen \in UndoGroupStates /\ c.ok \in BOOLEAN /\ (c.ok => c.seen = "Active")
    BY <1>t, UndoRunsFacts
  <2>3. /\ d \in Dispatches /\ d.kind = dispatch.kind /\ d.phase = dispatch.phase
        /\ d.lifecycle = dispatch.lifecycle /\ d.result = dispatch.result
        /\ d.staged = dispatch.staged /\ d.undoGroup = c.seen
    BY <1>t, <2>2 DEF Dispatches
  <2>4. r \in StepResults /\ (r = "ok" => c.ok)
    BY <2>2, CompletionOfType DEF CompletionOf
  <2>5. callback = "begin" /\ "begin" \in Commands /\ UNCHANGED changes
    BY <1>1 DEF StepBegins, CommandEnds, Commands
  <2>6. StepCompletes(d, r)
    BY <2>1
  <2> HIDE DEF d, r
  <2> QED BY <2>2, <2>3, <2>4, <2>5, <2>6, CommandTruth
<1>2. CASE StepCloses
  <2>1. PICK c \in UndoRuns("Inactive") :
          StepCompletes([dispatch EXCEPT !.undoGroup = c.seen], CompletionOf(c))
    BY <1>2 DEF StepCloses
  <2> DEFINE d == [dispatch EXCEPT !.undoGroup = c.seen]
             r == CompletionOf(c)
  <2>2. c.seen \in UndoGroupStates /\ c.ok \in BOOLEAN
    BY <1>t, UndoRunsFacts
  <2>3. /\ d \in Dispatches /\ d.kind = dispatch.kind /\ d.phase = dispatch.phase
        /\ d.lifecycle = dispatch.lifecycle /\ d.result = dispatch.result
        /\ d.staged = dispatch.staged
    BY <1>t, <2>2 DEF Dispatches
  <2>4. r \in StepResults
    BY <2>2, CompletionOfType
  <2>5. callback = "close" /\ "close" \in Commands /\ UNCHANGED changes
    BY <1>2 DEF StepCloses, CommandEnds, Commands
  <2>6. StepCompletes(d, r)
    BY <2>1
  <2> HIDE DEF d, r
  <2> QED BY <2>3, <2>4, <2>5, <2>6, CommandTruth
<1>3. CASE StepRollsBack
  <2>1. PICK c \in RollsBack(dispatch) :
          /\ changes' = c.changes
          /\ StepCompletes([dispatch EXCEPT !.undoGroup = c.seen], CompletionOf(c))
    BY <1>3 DEF StepRollsBack
  <2> DEFINE d == [dispatch EXCEPT !.undoGroup = c.seen]
             r == CompletionOf(c)
  <2>2. /\ c.seen \in UndoGroupStates /\ c.ok \in BOOLEAN
        /\ c.changes \in {changes, "none"}
        /\ dispatch.kind = "ExecDriver" /\ c.ok => c.changes = "none"
    <3>1. dispatch.kind = "ExecDriver" => (undo = "Active" => dispatch.undoGroup # "Inactive")
      BY CoveredHere DEF Covered
    <3> QED BY <1>t, <3>1, RollsBackFacts
  <2>3. /\ d \in Dispatches /\ d.kind = dispatch.kind /\ d.phase = dispatch.phase
        /\ d.lifecycle = dispatch.lifecycle /\ d.result = dispatch.result
        /\ d.staged = dispatch.staged
    BY <1>t, <2>2 DEF Dispatches
  <2>4. r \in StepResults /\ (r = "ok" => c.ok)
    BY <2>2, CompletionOfType DEF CompletionOf
  <2>5. callback = "rollback" /\ "rollback" \in Commands
    BY <1>3 DEF StepRollsBack, CommandEnds, Commands
  <2>6. StepCompletes(d, r)
    BY <2>1
  <2> HIDE DEF d, r
  <2> QED BY <2>1, <2>2, <2>3, <2>4, <2>5, <2>6, CommandTruth
<1> QED BY <1>1, <1>2, <1>3

\* The last step's undo and its clearing tell nothing new of the forms.
LEMMA TerminalStepsTruth ==
  ASSUME Ordered, Truth, TerminalUndoEnds \/ TerminalClears
  PROVE  Truth'
<1>t. dispatch \in Dispatches /\ execution \in Executions /\ TypeOK /\ symbols \in BOOLEAN
  BY DEF Ordered, TypeOK
<1>0. UNCHANGED alive /\ callback' # "out"
  BY DEF TerminalUndoEnds, TerminalClears
<1>k. callback # "out" /\ dispatch.phase # "none" => dispatch.kind = "ExecDriver"
  BY <1>t, NoDispatchType DEF Ordered, Stands, Dispatches
<1>n. dispatch.phase = "none" => dispatch.kind # "ExecDriver"
  BY NoDispatchType DEF Ordered, Stands
<1>1. CASE TerminalUndoEnds
  <2>1. PICK c \in TerminalUndo(dispatch) :
          /\ changes' = c.changes
          /\ IF dispatch.phase = "none" THEN Keep(dispatch, execution)
             ELSE Keep([dispatch EXCEPT
                       !.undoGroup = c.seen,
                       !.cleanupFailed = @ \/ ~c.ok,
                       !.result = IF c.ok THEN @ ELSE "ExecBridgeFailed"], execution)
    BY <1>1 DEF TerminalUndoEnds
  <2>2. /\ c.seen \in UndoGroupStates /\ c.ok \in BOOLEAN /\ c.changes \in {changes, "none"}
    BY <1>t, TerminalUndoFacts
  <2>3. callback = "terminal" /\ callback' = "clear"
    BY <1>1 DEF TerminalUndoEnds, CommandEnds
  <2>4. CASE dispatch.phase = "none"
    BY <1>t, <1>0, <1>n, <2>1, <2>2, <2>4, KeepTruth
  <2>5. CASE dispatch.phase # "none"
    <3> DEFINE d == [dispatch EXCEPT !.undoGroup = c.seen,
                       !.cleanupFailed = @ \/ ~c.ok,
                       !.result = IF c.ok THEN @ ELSE "ExecBridgeFailed"]
    <3>1. /\ d \in Dispatches /\ d.staged = dispatch.staged
          /\ d.kind = dispatch.kind /\ d.phase = dispatch.phase
          /\ d.lifecycle = dispatch.lifecycle
          /\ d.result \in {dispatch.result, "ExecBridgeFailed"}
      <4>1. (IF c.ok THEN dispatch.result ELSE "ExecBridgeFailed") \in NativeResults
        BY <1>t, Results DEF Dispatches
      <4> QED BY <1>t, <2>2, <4>1 DEF Dispatches
    <3>2. Keep(d, execution)
      BY <2>1, <2>5
    <3> HIDE DEF d
    <3>3. /\ Honest(execution, changes)
          /\ Told(dispatch, execution, changes, alive, callback)
          /\ Waits(dispatch, execution, changes, alive, lisp, callback)
      BY <1>k, <2>3, <2>5, TruthHere
    <3>4. Honest(execution, changes')
      BY <2>1, <2>2, <3>3, LessIsHonest
    <3>5. execution.phase \in {"Terminal", "Done"} /\ dispatch.staged = "None"
          /\ (alive => dispatch.result # "Refused" \/ execution.outcome = "Unknown")
      BY <2>3, <3>3 DEF Told, CommandOf, Commands
    <3>6. Told(d, execution, changes', alive, callback')
      BY <2>3, <3>1, <3>3, <3>5 DEF Told, Commands
    <3>7. IsExecution(d) /\ d.lifecycle = "AwaitingStart" =>
            d.staged = "None" /\ execution.outcome = "Unknown"
      BY <2>3, <3>1, <3>3, <3>5 DEF Waits, IsExecution
    <3> QED BY <1>0, <2>1, <2>2, <2>5, <3>1, <3>2, <3>4, <3>6, <3>7, CallbackTruth
  <2> QED BY <2>4, <2>5
<1>2. CASE TerminalClears
  <2>1. PICK c \in IF dispatch.symbolsKept THEN Clears ELSE {[symbols |-> symbols, ok |-> TRUE]} :
          Keep([dispatch EXCEPT
                  !.symbolsKept = ~c.ok,
                  !.cleanupFailed = @ \/ ~c.ok,
                  !.result = IF c.ok THEN @ ELSE "ExecBridgeSymbolsClearFailed"], execution)
    BY <1>2 DEF TerminalClears
  <2>2. c.ok \in BOOLEAN
    <3>1. CASE dispatch.symbolsKept
      BY <1>t, <2>1, <3>1, ClearsFacts
    <3>2. CASE ~dispatch.symbolsKept
      <4>1. c = [symbols |-> symbols, ok |-> TRUE]
        BY <2>1, <3>2
      <4> QED BY <4>1
    <3> QED BY <3>1, <3>2
  <2> DEFINE d == [dispatch EXCEPT !.symbolsKept = ~c.ok,
                  !.cleanupFailed = @ \/ ~c.ok,
                  !.result = IF c.ok THEN @ ELSE "ExecBridgeSymbolsClearFailed"]
  <2>3. /\ d \in Dispatches /\ d.staged = dispatch.staged /\ d.undoGroup = dispatch.undoGroup
        /\ d.kind = dispatch.kind /\ d.phase = dispatch.phase
        /\ d.lifecycle = dispatch.lifecycle
        /\ d.result \in {dispatch.result, "ExecBridgeSymbolsClearFailed"}
    <3>1. (IF c.ok THEN dispatch.result ELSE "ExecBridgeSymbolsClearFailed") \in NativeResults
      BY <1>t DEF Dispatches, NativeResults
    <3> QED BY <1>t, <2>2, <3>1 DEF Dispatches
  <2>4. callback = "clear" /\ callback' = "exit" /\ UNCHANGED changes
    BY <1>2 DEF TerminalClears
  <2>5. Keep(d, execution)
    BY <2>1
  <2> HIDE DEF d
  <2>6. CASE dispatch.phase = "none"
    BY <1>t, <1>0, <1>n, <2>3, <2>4, <2>5, <2>6, KeepTruth
  <2>7. CASE dispatch.phase # "none"
    <3>1. /\ Honest(execution, changes)
          /\ Told(dispatch, execution, changes, alive, callback)
          /\ Waits(dispatch, execution, changes, alive, lisp, callback)
      BY <1>k, <2>4, <2>7, TruthHere
    <3>2. Told(d, execution, changes', alive, callback')
      BY <2>3, <2>4, <3>1 DEF Told, Commands
    <3>3. IsExecution(d) /\ d.lifecycle = "AwaitingStart" =>
            d.staged = "None" /\ execution.outcome = "Unknown"
      BY <2>3, <2>4, <3>1 DEF Waits, IsExecution
    <3> QED BY <1>0, <2>3, <2>4, <2>5, <2>7, <3>1, <3>2, <3>3, CallbackTruth
  <2> QED BY <2>6, <2>7
<1> QED BY <1>1, <1>2

\* The callback returns: LISP evaluates what is staged, or the driver ends.
LEMMA AdvanceReturnsTruth ==
  ASSUME Ordered, Clean, Truth, AdvanceReturns
  PROVE  Truth'
<1>t. dispatch \in Dispatches /\ execution \in Executions /\ TypeOK
  BY DEF Ordered, TypeOK
<1>s. Stands(dispatch, lisp, nested, queued, callback)
  BY DEF Ordered
<1>1. PICK returned \in BOOLEAN :
       LET handsOff == callback = "handOff" /\ returned
           d == IF dispatch.phase = "none" THEN dispatch
                ELSE [dispatch EXCEPT
                        !.result = IF returned THEN @ ELSE "ExecBridgeFailed",
                        !.port = IF handsOff THEN @ ELSE "none"]
       IN /\ FinishAdvance(d, execution, returned /\ ~handsOff)
          /\ lisp' = CASE lisp = "none" -> "none"
                       [] lisp # "none" /\ handsOff -> "evaluating"
                       [] OTHER -> "ending"
  BY DEF AdvanceReturns
<1>2. /\ callback \in {"exit", "handOff"} /\ callback' = "out"
      /\ UNCHANGED <<changes, alive>> /\ (alive' => alive)
  BY DEF AdvanceReturns, drawingVars
<1> DEFINE handsOff == callback = "handOff" /\ returned
           r == IF returned THEN dispatch.result ELSE "ExecBridgeFailed"
           port == IF handsOff THEN dispatch.port ELSE "none"
           f == [dispatch EXCEPT !.result = r, !.port = port]
           ready == returned /\ ~handsOff
<1>3. CASE dispatch.phase = "none"
  <2>1. dispatch.kind # "ExecDriver"
    BY <1>s, <1>3, NoDispatchType DEF Stands
  <2>2. Keep(dispatch, execution)
    BY <1>1, <1>3, <2>1 DEF FinishAdvance, IsExecution
  <2> QED BY <1>t, <1>2, <2>1, <2>2, KeepTruth
<1>4. CASE dispatch.phase # "none"
  <2>0. dispatch.kind = "ExecDriver"
    BY <1>t, <1>s, <1>2, <1>4, NoDispatchType DEF Stands, Dispatches
  <2>1. /\ Honest(execution, changes)
        /\ Told(dispatch, execution, changes, alive, callback)
        /\ Waits(dispatch, execution, changes, alive, lisp, callback)
        /\ callback = "handOff" => dispatch.staged # "None"
    BY <2>0, TruthHere, CoveredHere DEF Covered
  <2>2. /\ FinishAdvance(f, execution, ready)
        /\ lisp' = "none" => lisp = "none"
        /\ lisp' \in {"none", "evaluating", "ending"}
        /\ lisp' = "evaluating" => callback = "handOff" /\ r = dispatch.result
    BY <1>1, <1>4
  <2>3. /\ f \in Dispatches /\ f.result = r
        /\ f.kind = "ExecDriver" /\ f.phase = dispatch.phase
        /\ f.lifecycle = dispatch.lifecycle
        /\ f.staged = dispatch.staged /\ f.undoGroup = dispatch.undoGroup
    <3>1. r \in NativeResults /\ port \in {"none", "open", "invalid"}
      BY <1>t, Results DEF Dispatches
    <3> HIDE DEF r, port
    <3> QED BY <1>t, <2>0, <3>1 DEF Dispatches
  <2>4. r \in {dispatch.result, "ExecBridgeFailed"}
    OBVIOUS
  <2> HIDE DEF f, r, ready, port, handsOff
  <2>5. Told(f, execution, changes', alive', callback')
    BY <1>2, <2>1, <2>3, <2>4 DEF Told, Commands
  <2>6. CASE f.phase = "Finalizing"
    <3>1. Keep(f, execution)
      BY <2>2, <2>6 DEF FinishAdvance, IsExecution
    <3>2. Waits(f, execution, changes', alive', lisp', callback')
      BY <2>6 DEF Waits, IsExecution
    <3> QED BY <1>2, <1>4, <2>1, <2>3, <2>5, <3>1, <3>2, KeepTruth
  <2>7. CASE f.phase # "Finalizing" /\ f.lifecycle = "InCallback"
    <3> DEFINE l == IF ready THEN "AwaitingEnd" ELSE "Running"
               b == [f EXCEPT !.lifecycle = l]
    <3>1. Keep(b, execution)
      BY <1>t, <1>4, <2>2, <2>3, <2>7 DEF FinishAdvance, IsExecution, Dispatches
    <3>2. l \in {"AwaitingEnd", "Running"}
      OBVIOUS
    <3> HIDE DEF l
    <3>3. b \in Dispatches /\ SameFacts(b, f) /\ b.lifecycle = l
      BY <2>3, <3>2, PlacedFacts
    <3> HIDE DEF b
    <3>4. Told(b, execution, changes', alive', callback')
      BY <2>5, <3>3, SameTold DEF SameFacts
    <3>5. lisp' # "none"
      BY <1>t, <1>s, <1>2, <1>4, <2>0, <2>2, <2>3, <2>7 DEF Stands, IsExecution, Dispatches
    <3>6. Waits(b, execution, changes', alive', lisp', callback')
      <4>1. lisp' = "evaluating" => dispatch.staged # "None" /\ f.result = "Success"
        BY <2>1, <2>2, <2>3 DEF Told
      <4> QED BY <2>2, <2>3, <3>2, <3>3, <3>5, <4>1 DEF Waits, SameFacts
    <3> QED BY <1>2, <1>4, <2>1, <2>3, <3>1, <3>3, <3>4, <3>6, KeepTruth DEF SameFacts
  <2>8. CASE f.phase # "Finalizing" /\ f.lifecycle # "InCallback"
    <3>1. ScheduleExecutionFinalizer(f, execution) \/ FailDriver(f, execution)
      BY <2>2, <2>3, <2>8 DEF FinishAdvance
    <3>2. CASE ScheduleExecutionFinalizer(f, execution)
      BY <1>t, <1>2, <1>4, <2>1, <2>3, <2>5, <3>2, FinalizerTruth
    <3>3. CASE FailDriver(f, execution)
      BY <1>2, <2>0, <2>3, <2>8, <3>3, FailDriverTruth
    <3> QED BY <3>1, <3>2, <3>3
  <2> QED BY <2>6, <2>7, <2>8
<1> QED BY <1>3, <1>4

\* What an execution is answered is what it has concluded, or that it was
\* refused before it concluded anything.
LEMMA AnswerFacts ==
  ASSUME NEW e \in Executions, NEW kind \in NativeResults, ExecutionAnswer(e, kind) \in Claims
  PROVE  \/ e.outcome \in Claims
         \/ e.outcome = "none" /\ kind \in {"Refused", "NotQuiescent"}
<1>1. CASE \/ e.outcome # "none" /\ kind \notin UnsafeForOutcome
           \/ e.outcome \in Failures /\ kind = "ExecBridgeSymbolsClearFailed"
  BY <1>1 DEF ExecutionAnswer, OutcomeAnswer, Claims, Failures, UnsafeForOutcome
<1>2. CASE /\ e.outcome # "none"
           /\ kind \in {"DocumentContextRestoreFailed", "ExecBridgeFinalizationFailed"}
  <2>1. ExecutionAnswer(e, kind) = OutcomeAnswer(RecordFinalizationFailure(e))
    BY <1>2 DEF ExecutionAnswer, UnsafeForOutcome
  <2>2. RecordFinalizationFailure(e).outcome \in {e.outcome, "Unknown", "Committed"}
    BY <1>2 DEF RecordFinalizationFailure, Executions
  <2> QED BY <2>1, <2>2 DEF OutcomeAnswer, Claims
<1>3. CASE e.outcome = "none"
  BY <1>3 DEF ExecutionAnswer, OutcomeAnswer, ErrorOutcome, RequiresQuarantine, NativeResults,
              Claims, Failures, UnsafeForOutcome
<1>4. CASE /\ e.outcome # "none" /\ kind \in {"ExecBridgeFailed", "ExecBridgeSymbolsClearFailed"}
           /\ ~(e.outcome \in Failures /\ kind = "ExecBridgeSymbolsClearFailed")
  BY <1>4 DEF ExecutionAnswer, ErrorOutcome, RequiresQuarantine, Claims, UnsafeForOutcome
<1> QED BY <1>1, <1>2, <1>3, <1>4 DEF UnsafeForOutcome

\* The finalizer answers with what is true.
LEMMA FinalizerRunsTruth ==
  ASSUME Ordered, Truth, FinalizerRuns
  PROVE  Truth'
<1>t. /\ dispatch \in Dispatches /\ execution \in Executions /\ dispatch.phase = "Finalizing"
      /\ UNCHANGED <<changes, alive>>
  BY DEF Ordered, TypeOK, OneFinalizer, FinalizerRuns
<1>1. PICK d \in Dispatches :
        /\ Complete(d, execution) /\ d.kind = dispatch.kind
        /\ d = dispatch \/ d.result = "DocumentContextRestoreFailed"
  <2> DEFINE r == [dispatch EXCEPT !.result = "DocumentContextRestoreFailed"]
  <2>1. /\ r \in Dispatches /\ r.kind = dispatch.kind
        /\ r.result = "DocumentContextRestoreFailed"
    BY <1>t, Results DEF Dispatches
  <2>2. Complete(dispatch, execution) \/ Complete(r, execution)
    BY <1>t DEF FinalizerRuns
  <2> QED BY <1>t, <2>1, <2>2
<1>2. dispatch' = NoDispatch /\ execution' = execution
  BY <1>1 DEF Complete
<1>3. alive /\ answer' \in Claims => changes = "none"
  <2> SUFFICES ASSUME alive, answer' \in Claims PROVE changes = "none"
    OBVIOUS
  <2> DEFINE kind == FinalizationKind(d.result, Observation(d))
  <2>1. CASE d.kind # "ExecDriver"
    BY <1>1, <2>1 DEF Complete, Claims
  <2>2. CASE d.kind = "ExecDriver"
    <3>1. answer' = ExecutionAnswer(execution, kind)
      BY <1>1, <2>2 DEF Complete
    <3>2. kind \in NativeResults
      BY DEF FinalizationKind, NativeResults, Dispatches
    <3>3. kind \in {"Refused", "NotQuiescent"} => d.result = kind /\ Observation(d) = "proved"
      BY DEF FinalizationKind
    <3> HIDE DEF kind
    <3>4. /\ Honest(execution, changes)
          /\ Told(dispatch, execution, changes, alive, callback)
      BY <1>1, <2>2, TruthHere
    <3>5. CASE execution.outcome \in Claims
      BY <3>4, <3>5 DEF Honest
    <3>6. CASE execution.outcome = "none" /\ kind \in {"Refused", "NotQuiescent"}
      <4>1. d = dispatch /\ dispatch.result = "Refused"
        BY <1>1, <3>3, <3>4, <3>6 DEF Told
      <4>2. dispatch.undoGroup = "Inactive" /\ dispatch.staged = "None"
        BY <3>3, <3>6, <4>1 DEF Observation
      <4> QED BY <3>4, <3>6, <4>1, <4>2 DEF Told
    <3> QED BY <1>t, <3>1, <3>2, <3>5, <3>6, AnswerFacts
  <2> QED BY <2>1, <2>2
<1> QED BY <1>t, <1>2, <1>3, NoDispatchType DEF Truth, Answered

\* Every step keeps what is told true.
LEMMA TruthSteps ==
  ASSUME Ordered, Clean, Truth, ~FormsMayEscape, Next
  PROVE  Truth'
  BY StartsTruth, LispEndsTruth, HistoryTruth, EnvironmentTruth, DispatchTruth,
     LispEvaluatesTruth, AdvanceBeginsTruth, CollectsTruth, LispCancelledTruth,
     LoopLeavesTruth, StepLeftTruth, SymbolStepsTruth, CommandStepsTruth,
     TerminalStepsTruth, AdvanceReturnsTruth, FinalizerRunsTruth
     DEF Next, HostStep, LispStep, AdvanceStep, LoopStep

\* The three invariants together.
LEMMA TruthAlways == ~FormsMayEscape /\ Spec => []Truth
<1>0. Init => Truth
  BY NoDispatchType DEF Init, Truth, Answered
<1>1. ~FormsMayEscape /\ Ordered /\ Clean /\ Truth /\ [Next]_vars => Truth'
  <2> SUFFICES ASSUME ~FormsMayEscape, Ordered, Clean, Truth, [Next]_vars PROVE Truth'
    OBVIOUS
  <2>1. CASE UNCHANGED vars
    <3>1. UNCHANGED <<dispatch, execution, answer, alive, changes, lisp, callback>>
      BY <2>1 DEF vars, hostVars, drawingVars, lispVars
    <3> QED BY <3>1 DEF Truth, Honest, Consistent, Told, Waits, IsExecution, Answered
  <2> QED BY <2>1, TruthSteps
<1>2. CASE ~FormsMayEscape
  <2>1. Ordered /\ Clean /\ Truth /\ [Next]_vars => Truth'
    BY <1>1, <1>2
  <2>2. Spec => []Truth
    BY <1>0, <2>1, OrderedAndClean, PTL DEF Spec
  <2> QED BY <2>2
<1> QED BY <1>2

\* What the client is told of the drawing is true, where no form ends the undo
\* group and goes on editing: an execution that is answered as not started, rolled
\* back or cancelled has left nothing in the drawing.
THEOREM TellsTheTruth == ~FormsMayEscape /\ Spec => []TruthfulOutcome
<1>1. Truth => TruthfulOutcome
  BY DEF Truth, Answered, Claims, TruthfulOutcome
<1> QED BY <1>1, TruthAlways, PTL
=============================================================================
