-------------------------------- MODULE Exec --------------------------------
(***************************************************************************)
(* One AutoLISP execution as the plugin keeps it: struct Exec of           *)
(* exec/state.rs.  The execution is data owned by a scheduler job, so this *)
(* module has no variables: an execution is a record and every method of   *)
(* the struct is an operator from records to records.  MutationScheduler   *)
(* stores these records, ExecDriver drives one of them.                    *)
(*                                                                         *)
(* The source text is abstracted to the number of forms that have not been *)
(* handed to AutoLISP yet, and a failure to the drawing outcome it claims. *)
(* Exec::new has scanned the whole source, so the scanner that take_step   *)
(* resumes at a form boundary finds the same forms again; its error arms   *)
(* are not modelled.                                                       *)
(***************************************************************************)
EXTENDS Naturals

CONSTANT MaxForms    \* bound on the forms of one source

ASSUME MaxFormsAssumption == MaxForms \in Nat \ {0}

ExecModes == {"Eval", "Exec"}

(***************************************************************************)
(* Phases in which AutoCAD holds a step, and the step that led there.      *)
(***************************************************************************)
AwaitedSteps ==
  {"AwaitingBeginUndoGroup", "AwaitingEvaluateForm", "AwaitingCommitUndoGroup",
   "AwaitingEmitEvalValue", "AwaitingClearRetainedEvalValue",
   "AwaitingCloseEmptyUndoGroup", "AwaitingRollbackUndoGroup"}

Phases ==
  AwaitedSteps \cup
  {"BeginUndoGroup", "BetweenForms", "EmitEvalValue", "ClearRetainedEvalValue",
   "CloseEmptyUndoGroup", "RollbackUndoGroup", "Terminal", "Done"}

\* The drawing outcomes a failure can claim (outcome.rs, DrawingOutcome).
Failures == {"NotStarted", "RolledBack", "Committed", "Unknown"}
Outcomes == Failures \cup {"Success", "Cancelled"}

\* A failure on its way out has not touched the undo group's fate yet.
UnwindCauses == {"Cancelled", "NotStarted", "Unknown"}

Executions ==
  [mode      : ExecModes,
   forms     : 0..MaxForms,
   phase     : Phases,
   handedOff : BOOLEAN,
   retained  : BOOLEAN,
   cancel    : BOOLEAN,
   unwind    : UnwindCauses \cup {"none"},
   outcome   : Outcomes \cup {"none"}]

(***************************************************************************)
(* Exec::new.  An empty source is born with its outcome; a source for eval *)
(* has exactly one form.                                                   *)
(***************************************************************************)
ValidSource(mode, forms) == mode = "Eval" => forms = 1

NewExecution(mode, forms) ==
  [mode      |-> mode,
   forms     |-> forms,
   phase     |-> IF forms = 0 THEN "Terminal" ELSE "BeginUndoGroup",
   handedOff |-> FALSE,
   retained  |-> FALSE,
   cancel    |-> FALSE,
   unwind    |-> "none",
   outcome   |-> IF forms = 0 THEN "Success" ELSE "none"]

\* The only record of a job whose execution has been dropped with its answer.
Dropped == [NewExecution("Exec", 0) EXCEPT !.phase = "Done"]

ReadinessWaitPending(e) ==
  ~e.handedOff /\ e.outcome = "none" /\ ~e.cancel /\ e.unwind = "none"

(***************************************************************************)
(* The answer to a cancel request.  A second request is accepted again;    *)
(* the first is too late once the unwind has a cause or the commit is in   *)
(* AutoCAD's hands.                                                        *)
(***************************************************************************)
\* Mutant of CancelAccepted: the commit can still be cancelled.
CancelAcceptedInCommit(e) ==
  \/ e.cancel
  \/ /\ e.unwind = "none"
     /\ e.phase \in {"BeginUndoGroup", "AwaitingBeginUndoGroup", "BetweenForms",
                     "AwaitingEvaluateForm", "AwaitingCommitUndoGroup"}

CancelAccepted(e) ==
  \/ e.cancel
  \/ /\ e.unwind = "none"
     /\ e.phase \in {"BeginUndoGroup", "AwaitingBeginUndoGroup",
                     "BetweenForms", "AwaitingEvaluateForm"}

RequestCancel(e) == IF CancelAccepted(e) THEN [e EXCEPT !.cancel = TRUE] ELSE e

CanCancelBeforeStart(e) == e.outcome = "none" /\ e.phase = "BeginUndoGroup"

CancelBeforeStart(e) ==
  IF CanCancelBeforeStart(e)
  THEN [e EXCEPT !.cancel = TRUE, !.outcome = "Cancelled", !.phase = "Terminal"]
  ELSE e

(***************************************************************************)
(* The readiness deadline has passed before any form was handed off.       *)
(***************************************************************************)
Expirable(e) == ~e.handedOff /\ e.outcome = "none" /\ ~e.cancel

ExpireBeforeStart(e) ==
  CASE Expirable(e) /\ e.phase = "BeginUndoGroup" ->
         [e EXCEPT !.outcome = "NotStarted", !.phase = "Terminal"]
    [] Expirable(e) /\ e.phase = "AwaitingBeginUndoGroup" ->
         [e EXCEPT !.unwind = "NotStarted"]
    [] Expirable(e) /\ e.phase = "BetweenForms" ->
         [e EXCEPT !.unwind = "NotStarted", !.phase = "CloseEmptyUndoGroup"]
    [] OTHER -> e

BeginUnwind(e, cause) ==
  [e EXCEPT !.unwind = cause,
            !.phase = IF e.mode = "Eval" /\ e.handedOff
                      THEN "ClearRetainedEvalValue"
                      ELSE "RollbackUndoGroup"]

(***************************************************************************)
(* take_step: the internal transition its loop may make first, then the    *)
(* step it hands out.  In an awaiting phase the step is Invalid and the    *)
(* execution does not change.                                              *)
(***************************************************************************)
Settled(e) ==
  CASE e.phase = "BeginUndoGroup" /\ e.cancel ->
         [e EXCEPT !.outcome = "Cancelled", !.phase = "Terminal"]
    [] e.phase = "BetweenForms" /\ e.cancel /\ e.handedOff ->
         BeginUnwind(e, "Cancelled")
    [] e.phase = "BetweenForms" /\ e.cancel /\ ~e.handedOff ->
         [e EXCEPT !.unwind = "Cancelled", !.phase = "CloseEmptyUndoGroup"]
    [] OTHER -> e

IssuedPhase ==
  [BeginUndoGroup         |-> "AwaitingBeginUndoGroup",
   EmitEvalValue          |-> "AwaitingEmitEvalValue",
   ClearRetainedEvalValue |-> "AwaitingClearRetainedEvalValue",
   CloseEmptyUndoGroup    |-> "AwaitingCloseEmptyUndoGroup",
   RollbackUndoGroup      |-> "AwaitingRollbackUndoGroup",
   Terminal               |-> "Done"]

Issue(e) ==
  CASE e.phase \in DOMAIN IssuedPhase -> [e EXCEPT !.phase = IssuedPhase[e.phase]]
    [] e.phase = "BetweenForms" /\ e.forms > 0 ->
         [e EXCEPT !.phase = "AwaitingEvaluateForm",
                   !.forms = e.forms - 1,
                   !.handedOff = TRUE]
    [] e.phase = "BetweenForms" /\ e.forms = 0 ->
         [e EXCEPT !.phase = "AwaitingCommitUndoGroup"]
    [] OTHER -> e

TakeStep(e) == Issue(Settled(e))

HasStep(e) == e.phase \notin AwaitedSteps \cup {"Done"}

(***************************************************************************)
(* complete_step, one operator for each awaiting phase.  "failed" is a     *)
(* step that AutoCAD reports as failed, or whose reserved symbols could    *)
(* not be cleared; "bridgeFailed" is a step that went well while its value *)
(* port did not (it only arises where a port is open).                     *)
(***************************************************************************)
StepResults == {"ok", "bridgeFailed", "failed"}
MayReport(e, r) ==
  r = "bridgeFailed" => e.phase \in {"AwaitingEvaluateForm", "AwaitingEmitEvalValue"}

UndoGroupBegun(e, r) ==
  CASE r # "ok" ->
         [e EXCEPT !.outcome = IF e.unwind \in Failures THEN e.unwind ELSE "NotStarted",
                   !.unwind = "none", !.phase = "Terminal"]
    [] r = "ok" /\ e.unwind # "none" -> [e EXCEPT !.phase = "CloseEmptyUndoGroup"]
    [] r = "ok" /\ e.unwind = "none" /\ e.cancel ->
         [e EXCEPT !.unwind = "Cancelled", !.phase = "CloseEmptyUndoGroup"]
    [] r = "ok" /\ e.unwind = "none" /\ ~e.cancel -> [e EXCEPT !.phase = "BetweenForms"]

FormEvaluated(e, r) ==
  LET kept == [e EXCEPT !.retained = e.retained \/ (e.mode = "Eval" /\ r # "failed")] IN
  CASE r # "ok"            -> BeginUnwind(kept, "Unknown")
    [] r = "ok" /\ e.cancel  -> BeginUnwind(kept, "Cancelled")
    [] r = "ok" /\ ~e.cancel -> [kept EXCEPT !.phase = "BetweenForms"]

UndoGroupCommitted(e, r) ==
  CASE r # "ok" -> BeginUnwind(e, "Unknown")
    [] r = "ok" /\ e.mode = "Eval" /\ e.retained -> [e EXCEPT !.phase = "EmitEvalValue"]
    [] r = "ok" /\ e.mode = "Eval" /\ ~e.retained ->
         [e EXCEPT !.outcome = "Committed", !.phase = "Terminal"]
    [] r = "ok" /\ e.mode = "Exec" ->
         [e EXCEPT !.outcome = "Success", !.phase = "Terminal"]

EvalValueEmitted(e, r) ==
  IF r = "ok"
  THEN [e EXCEPT !.retained = FALSE, !.outcome = "Success", !.phase = "Terminal"]
  ELSE [e EXCEPT !.outcome = "Committed", !.phase = "Terminal"]

RetainedValueCleared(e, r) ==
  IF r = "ok"
  THEN [e EXCEPT !.retained = FALSE, !.phase = "RollbackUndoGroup"]
  ELSE [e EXCEPT !.unwind = IF e.unwind \in Failures THEN e.unwind ELSE "Unknown",
                 !.phase = "RollbackUndoGroup"]

EmptyUndoGroupClosed(e, r) ==
  IF e.unwind = "none" THEN e
  ELSE [e EXCEPT !.outcome = IF r = "ok" THEN e.unwind ELSE "Unknown",
                 !.unwind = "none", !.phase = "Terminal"]

UndoGroupRolledBack(e, r) ==
  IF e.unwind = "none" THEN e
  ELSE [e EXCEPT !.outcome = CASE r # "ok" -> "Unknown"
                               [] r = "ok" /\ e.unwind = "Cancelled" -> "Cancelled"
                               [] r = "ok" /\ e.unwind # "Cancelled" -> "RolledBack",
                 !.unwind = "none", !.phase = "Terminal"]

CompleteStep(e, r) ==
  CASE e.phase = "AwaitingBeginUndoGroup"         -> UndoGroupBegun(e, r)
    [] e.phase = "AwaitingEvaluateForm"           -> FormEvaluated(e, r)
    [] e.phase = "AwaitingCommitUndoGroup"        -> UndoGroupCommitted(e, r)
    [] e.phase = "AwaitingEmitEvalValue"          -> EvalValueEmitted(e, r)
    [] e.phase = "AwaitingClearRetainedEvalValue" -> RetainedValueCleared(e, r)
    [] e.phase = "AwaitingCloseEmptyUndoGroup"    -> EmptyUndoGroupClosed(e, r)
    [] e.phase = "AwaitingRollbackUndoGroup"      -> UndoGroupRolledBack(e, r)
    [] OTHER -> e

(***************************************************************************)
(* abandon: AutoCAD's side of the execution is lost.  Whatever the         *)
(* execution had concluded, nothing is known of the drawing any more.      *)
(***************************************************************************)
Abandon(e) ==
  [e EXCEPT !.outcome = "Unknown",
            !.unwind = IF e.outcome = "none" THEN "none" ELSE e.unwind,
            !.phase = IF e.phase = "Done" THEN "Done" ELSE "Terminal"]

\* record_bridge_finalization_failure.
RecordFinalizationFailure(e) ==
  IF e.outcome = "none" THEN e ELSE [e EXCEPT !.outcome = "Unknown"]
=============================================================================
