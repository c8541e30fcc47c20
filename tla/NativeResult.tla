---------------------------- MODULE NativeResult ----------------------------
(***************************************************************************)
(* How the scheduler reads what the AutoCAD host reports for an issued     *)
(* action (scheduler/native.rs, scheduler/error.rs): the answer it makes   *)
(* of the result, and whether the result leaves AutoCAD's state unproved,  *)
(* in which case no further mutation may be issued.                        *)
(*                                                                         *)
(* "Refused" stands for every result that says the action did not start    *)
(* (drawing gone or changed, not active, undo disabled, context failed,    *)
(* ...): they are told apart only in the wording of the answer.            *)
(***************************************************************************)
EXTENDS Exec

NativeResults ==
  {"Success", "Refused", "NotQuiescent", "ExecBridgeFailed",
   "DocumentContextRestoreFailed", "CaptureRestoreFailed",
   "ExecBridgeFinalizationFailed", "ExecBridgeSymbolsClearFailed"}

\* native_result_requires_quarantine.
RequiresQuarantine(kind) ==
  kind \in {"DocumentContextRestoreFailed", "CaptureRestoreFailed",
            "ExecBridgeFinalizationFailed", "ExecBridgeSymbolsClearFailed"}

(***************************************************************************)
(* complete_native_capture.  The host's success is not the last word on a  *)
(* capture: the frame it hands over is examined (ViewportCapture), and one *)
(* whose format, dimensions, stride, size or crop do not fit together is a *)
(* capture that failed.                                                    *)
(***************************************************************************)
CaptureResults == {"Success", "Refused", "NotQuiescent", "CaptureRestoreFailed"}

Frames == {"usable", "malformed"}

CaptureKind(kind, frame) ==
  IF kind = "Success" /\ frame = "malformed" THEN "Refused" ELSE kind

(***************************************************************************)
(* What the host can vouch for when an execution's dispatch ends: all five *)
(* flags of the observation clear, only the symbol or terminal cleanup in  *)
(* doubt, or one of the other three (open undo group, staged form, output  *)
(* port).                                                                  *)
(***************************************************************************)
Observations == {"proved", "symbolsUnproved", "stateUnproved"}

\* classify_execution_finalization.
FinalizationQuarantines(kind, observation) ==
  observation # "proved" \/ RequiresQuarantine(kind)

FinalizationKind(kind, observation) ==
  IF \/ observation = "proved"
     \/ kind = "DocumentContextRestoreFailed"
     \/ kind = "ExecBridgeSymbolsClearFailed" /\ observation = "symbolsUnproved"
  THEN kind
  ELSE "ExecBridgeFinalizationFailed"

(***************************************************************************)
(* interpret and drawing_outcome: what an error says of the drawing.       *)
(***************************************************************************)
\* Mutant of ErrorOutcome: a failed bridge is taken for one that never began.
ErrorOutcomeOfBridge(kind) == IF RequiresQuarantine(kind) THEN "Unknown" ELSE "NotStarted"

ErrorOutcome(kind) ==
  IF RequiresQuarantine(kind) \/ kind = "ExecBridgeFailed" THEN "Unknown" ELSE "NotStarted"

\* Operation::complete of an execution; without an outcome it is
\* ExecNotFinished, whose drawing outcome is unknown.
OutcomeAnswer(e) == IF e.outcome = "none" THEN "Unknown" ELSE e.outcome

(***************************************************************************)
(* complete_native of an execution.                                        *)
(***************************************************************************)
UnsafeForOutcome ==
  {"DocumentContextRestoreFailed", "ExecBridgeFinalizationFailed",
   "ExecBridgeSymbolsClearFailed", "ExecBridgeFailed"}

ExecutionAnswer(e, kind) ==
  CASE \/ e.outcome # "none" /\ kind \notin UnsafeForOutcome
       \/ e.outcome \in Failures /\ kind = "ExecBridgeSymbolsClearFailed" ->
         OutcomeAnswer(e)
    [] /\ e.outcome # "none"
       /\ kind \in {"DocumentContextRestoreFailed", "ExecBridgeFinalizationFailed"} ->
         OutcomeAnswer(RecordFinalizationFailure(e))
    [] e.outcome = "none" /\ kind = "Success" -> OutcomeAnswer(e)
    [] OTHER -> ErrorOutcome(kind)
=============================================================================
