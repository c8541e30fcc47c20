----------------------------- MODULE ExecDriver -----------------------------
(***************************************************************************)
(* The document-context dispatch of native/host.cpp.  An execution cannot  *)
(* run in AutoCAD's application context: the host queues a LISP expression *)
(* for the target document, the LISP driver (lisp/core/exec.lsp) calls     *)
(* back into the host until the execution has no step left, and a          *)
(* finalizer, scheduled into the application context, tells the scheduler  *)
(* the result.  An undo or redo takes the same way with one command.       *)
(*                                                                         *)
(* Between any two of these calls AutoCAD may start, end or cancel LISP,   *)
(* another document may become active, the target may be closed or         *)
(* reloaded, and the client may cancel.  Reactors are called inside the    *)
(* host's own callback as well, since its UNDO commands run AutoCAD.       *)
(*                                                                         *)
(* The execution itself is the record of Exec, what the scheduler makes of *)
(* the result is NativeResult's.  Output ports are reduced to whether they *)
(* still work.  Tokens that never change (job, document) are left out.     *)
(***************************************************************************)
EXTENDS NativeResult

CONSTANTS
  MaxDispatches,     \* bound on the actions ever dispatched
  MaxInterruptions,  \* bound on the LISP cancellations AutoCAD ever reports
  FormsMayEscape     \* whether a form may end the undo group and go on editing

ASSUME DriverAssumption ==
  MaxDispatches \in Nat /\ MaxInterruptions \in Nat /\ FormsMayEscape \in BOOLEAN

VARIABLES
  dispatch,       \* documentContextDispatch_
  execution,      \* the Exec of the active job
  finalizers,     \* finalizers AutoCAD has accepted and not run
  reported,       \* the result kind the scheduler got last
  answer,         \* what the job was told about the drawing
  quarantined,
  active,         \* the active document
  alive,          \* the target document has its database
  undo,           \* the undo group of the target, as UNDOCTL shows it
  changes,        \* where the changes of the forms are in the undo history
  symbols,        \* some bridge symbol has a value
  status,         \* the status symbol
  lisp,           \* the LISP driver in AutoCAD
  nested,         \* another LISP expression runs inside the driver
  queued,         \* invocations sent to AutoCAD that have not started
  callback,       \* acadctlAdvanceExecution on the main thread
  dispatches, interruptions

hostVars == <<dispatch, execution, finalizers, reported, answer, quarantined>>
drawingVars == <<active, alive, undo, changes, symbols, status>>
lispVars == <<lisp, nested, queued, callback>>
bounds == <<dispatches, interruptions>>
vars == <<hostVars, drawingVars, lispVars, bounds>>

UndoGroupStates == {"Inactive", "Active", "Unknown"}

NoDispatch ==
  [kind |-> "none", phase |-> "none", lifecycle |-> "AwaitingStart", depth |-> 0,
   restore |-> FALSE, result |-> "Success", undoGroup |-> "Inactive",
   mayHaveStarted |-> FALSE, formHandedOff |-> FALSE, staged |-> "None",
   symbolsKept |-> FALSE, cleanupFailed |-> FALSE, port |-> "none"]

Dispatches ==
  [kind : {"none", "History", "ExecDriver"},
   phase : {"none", "Queued", "Running", "Finalizing"},
   lifecycle : {"AwaitingStart", "Running", "InCallback", "EndedDuringCallback",
                "AwaitingEnd", "Finalizing"},
   depth : 0..2, restore : BOOLEAN, result : NativeResults,
   undoGroup : UndoGroupStates, mayHaveStarted : BOOLEAN, formHandedOff : BOOLEAN,
   staged : {"None", "Evaluator", "EvalValueEmitter"},
   symbolsKept : BOOLEAN, cleanupFailed : BOOLEAN,
   port : {"none", "open", "invalid"}]

\* The UNDO commands the host runs inside its callback.
Commands == {"begin", "close", "rollback", "terminal"}

TypeOK ==
  /\ dispatch \in Dispatches
  /\ execution \in Executions
  /\ finalizers \in Nat
  /\ reported \in NativeResults \cup {"none"}
  /\ answer \in Outcomes \cup {"none"}
  /\ quarantined \in BOOLEAN
  /\ active \in {"target", "previous"}
  /\ alive \in BOOLEAN
  /\ undo \in {"Inactive", "Active"}
  /\ changes \in {"none", "group", "escaped"}
  /\ symbols \in BOOLEAN
  /\ status \in {"nil", "pending", "ok"}
  /\ lisp \in {"none", "looping", "evaluating", "ending"}
  /\ nested \in BOOLEAN
  /\ queued \in Nat
  /\ callback \in Commands \cup {"out", "loop", "clear", "exit", "handOff"}
  /\ dispatches \in 0..MaxDispatches /\ interruptions \in 0..MaxInterruptions

Init ==
  /\ dispatch = NoDispatch /\ execution = Dropped
  /\ finalizers = 0 /\ reported = "none" /\ answer = "none" /\ quarantined = FALSE
  /\ active \in {"target", "previous"}
  /\ alive = TRUE
  /\ undo = "Inactive" /\ changes = "none" /\ symbols = FALSE /\ status = "nil"
  /\ lisp = "none" /\ nested = FALSE /\ queued = 0 /\ callback = "out"
  /\ dispatches = 0 /\ interruptions = 0

IsExecution(d) == d.kind = "ExecDriver" /\ d.phase \in {"Queued", "Running"}
ContextMatches == alive /\ active = "target"

(***************************************************************************)
(* The end of a dispatch.                                                  *)
(***************************************************************************)
\* Mutant of Observation: the undo group is not looked at.
ObservationOfSymbols(d) ==
  CASE d.staged # "None" \/ d.port # "none" -> "stateUnproved"
    [] d.staged = "None" /\ d.port = "none" /\ (d.symbolsKept \/ d.cleanupFailed) ->
         "symbolsUnproved"
    [] OTHER -> "proved"

\* finalizationObservation, reduced to the classes of NativeResult.
Observation(d) ==
  CASE \/ d.undoGroup # "Inactive" \/ d.staged # "None" \/ d.port # "none" ->
         "stateUnproved"
    [] /\ d.undoGroup = "Inactive" /\ d.staged = "None" /\ d.port = "none"
       /\ d.symbolsKept \/ d.cleanupFailed -> "symbolsUnproved"
    [] OTHER -> "proved"

\* The slot is emptied and the scheduler told.
Complete(d, e) ==
  /\ dispatch' = NoDispatch
  /\ execution' = e
  /\ IF d.kind = "ExecDriver"
     THEN LET kind == FinalizationKind(d.result, Observation(d)) IN
          /\ reported' = kind
          /\ quarantined' = (quarantined \/ FinalizationQuarantines(d.result, Observation(d)))
          /\ answer' = ExecutionAnswer(e, kind)
     ELSE /\ reported' = d.result
          /\ quarantined' = (quarantined \/ RequiresQuarantine(d.result))
          /\ answer' = "none"

Keep(d, e) ==
  /\ dispatch' = d /\ execution' = e
  /\ UNCHANGED <<finalizers, reported, answer, quarantined>>

\* Mutant of ScheduleFinalizer: the dispatch ends with the result it has.
ScheduleFinalizerOrEnd(d, e) ==
  \/ /\ dispatch' = [d EXCEPT !.phase = "Finalizing"]
     /\ execution' = e
     /\ finalizers' = finalizers + 1
     /\ UNCHANGED <<reported, answer, quarantined>>
  \/ Complete(d, e) /\ UNCHANGED finalizers

\* scheduleDocumentContextFinalizer: AutoCAD accepts, or the dispatch ends here.
ScheduleFinalizer(d, e) ==
  \/ /\ dispatch' = [d EXCEPT !.phase = "Finalizing"]
     /\ execution' = e
     /\ finalizers' = finalizers + 1
     /\ UNCHANGED <<reported, answer, quarantined>>
  \/ /\ Complete([d EXCEPT !.result = "DocumentContextRestoreFailed"], e)
     /\ UNCHANGED finalizers

ScheduleExecutionFinalizer(d, e) ==
  ScheduleFinalizer([d EXCEPT !.lifecycle = "Finalizing"], e)

\* failExecutionDriver.
FailDriver(d, e) ==
  IF d.kind # "ExecDriver" \/ d.phase = "Finalizing" THEN Keep(d, e)
  ELSE ScheduleExecutionFinalizer([d EXCEPT !.port = "none", !.result = "ExecBridgeFailed"], e)

\* finalizeDocumentContextDispatch.
FinalizerRuns ==
  /\ finalizers > 0 /\ callback = "out"
  /\ finalizers' = finalizers - 1
  /\ IF dispatch.phase # "Finalizing"
     THEN UNCHANGED <<dispatch, execution, reported, answer, quarantined, active>>
     ELSE \/ /\ ~dispatch.restore
             /\ Complete(dispatch, execution)
             /\ UNCHANGED active
          \/ /\ dispatch.restore
             /\ Complete(dispatch, execution)
             /\ active' = "previous"
          \/ /\ dispatch.restore
             /\ Complete([dispatch EXCEPT !.result = "DocumentContextRestoreFailed"],
                         execution)
             /\ UNCHANGED active
  /\ UNCHANGED <<alive, undo, changes, symbols, status, lispVars, bounds>>

(***************************************************************************)
(* queueDocumentContextDispatch.  Its refusals leave nothing behind: they  *)
(* are the negated guards, and AutoCAD not taking the invocation.          *)
(***************************************************************************)
NewDispatch(kind) ==
  [NoDispatch EXCEPT !.kind = kind, !.phase = "Queued", !.restore = (active = "previous")]

MayDispatch ==
  /\ dispatch = NoDispatch /\ callback = "out" /\ ~quarantined
  /\ dispatches < MaxDispatches
  /\ alive
  /\ lisp = "none" /\ queued = 0        \* quiescent, no input pending

Dispatch ==
  \E kind \in {"History", "ExecDriver"}, mode \in ExecModes, forms \in 1..MaxForms :
    /\ MayDispatch
    /\ IF kind = "ExecDriver" THEN ValidSource(mode, forms) ELSE mode = "Exec" /\ forms = 1
    /\ dispatch' = NewDispatch(kind)
    /\ execution' = IF kind = "ExecDriver" THEN NewExecution(mode, forms) ELSE Dropped
    /\ active' = "target"
    /\ queued' = 1
    /\ changes' = "none"
    /\ reported' = "none" /\ answer' = "none"
    /\ dispatches' = dispatches + 1
    /\ UNCHANGED <<finalizers, quarantined, alive, undo, symbols, status,
                   lisp, nested, callback, interruptions>>

\* AutoCAD does not take the invocation, and may or may not have activated
\* the target, or let the previous document be activated again.
DispatchNotSent ==
  /\ MayDispatch
  /\ dispatches' = dispatches + 1
  /\ active' \in {active, "target"}
  /\ reported' = IF active' = active THEN "Refused" ELSE "DocumentContextRestoreFailed"
  /\ quarantined' = RequiresQuarantine(reported')
  /\ answer' = ErrorOutcome(reported') /\ changes' = "none"
  /\ UNCHANGED <<dispatch, execution, finalizers, alive, undo, symbols,
                 status, lispVars, interruptions>>

\* runQueuedHistoryCommand, in the target's own context.  An undo group of
\* the user's own makes it not quiescent, a failed command counts as refused.
HistoryRuns ==
  /\ dispatch.kind = "History" /\ dispatch.phase = "Queued" /\ queued > 0
  /\ queued' = queued - 1
  /\ \E result \in {"Success", "Refused", "NotQuiescent"} :
       /\ ~ContextMatches => result = "Refused"
       /\ ScheduleFinalizer([dispatch EXCEPT !.phase = "Running", !.result = result],
                            execution)
  /\ UNCHANGED <<drawingVars, lisp, nested, callback, bounds>>

\* queuedHistoryCommandTerminated.
HistoryTerminated ==
  /\ dispatch.kind = "History" /\ dispatch.phase = "Queued" /\ queued > 0
  /\ queued' = queued - 1
  /\ ScheduleFinalizer([dispatch EXCEPT !.result = "Refused"], execution)
  /\ UNCHANGED <<drawingVars, lisp, nested, callback, bounds>>

(***************************************************************************)
(* AutoCAD's undo group and the bridge symbols.  A command may fail, and   *)
(* UNDOCTL may be unreadable; what is read is true.                        *)
(***************************************************************************)
\* runUndoCommand.
UndoCommands(expected) ==
  {[undo |-> u, seen |-> seen, ok |-> ran /\ seen = expected] :
     ran \in BOOLEAN, u \in {expected, undo}, seen \in UndoGroupStates}
UndoRuns(expected) ==
  {c \in UndoCommands(expected) : c.seen \in {c.undo, "Unknown"} /\ (c.ok => c.undo = expected)}

\* Mutant of RollsBack: the status of the U command is not looked at.
RollsBackUnchecked(d) ==
  LET gone == [undo |-> undo, seen |-> d.undoGroup, ok |-> FALSE, changes |-> changes]
      ends == IF d.undoGroup = "Active" THEN UndoRuns("Inactive")
              ELSE {[undo |-> undo, seen |-> d.undoGroup, ok |-> TRUE]}
      undone(c) == IF changes = "group" /\ c.undo = "Inactive" THEN "none" ELSE changes
  IN IF ~d.mayHaveStarted \/ d.undoGroup = "Unknown" THEN {gone}
     ELSE UNION {IF c.seen # "Inactive"
                 THEN {[undo |-> c.undo, seen |-> c.seen, ok |-> FALSE, changes |-> changes]}
                 ELSE {[undo |-> c.undo, seen |-> seen,
                        ok |-> c.ok /\ seen = "Inactive",
                        changes |-> IF ran THEN undone(c) ELSE changes] :
                         ran \in BOOLEAN, seen \in {c.undo, "Unknown"}} : c \in ends}

\* rollbackUndoGroup: the group is ended if need be, and undone by one U,
\* which takes back what forms have done inside it.
RollsBack(d) ==
  LET gone == [undo |-> undo, seen |-> d.undoGroup, ok |-> FALSE, changes |-> changes]
      ends == IF d.undoGroup = "Active" THEN UndoRuns("Inactive")
              ELSE {[undo |-> undo, seen |-> d.undoGroup, ok |-> TRUE]}
      undone(c) == IF changes = "group" /\ c.undo = "Inactive" THEN "none" ELSE changes
  IN IF ~d.mayHaveStarted \/ d.undoGroup = "Unknown" THEN {gone}
     ELSE UNION {IF c.seen # "Inactive"
                 THEN {[undo |-> c.undo, seen |-> c.seen, ok |-> FALSE, changes |-> changes]}
                 ELSE {[undo |-> c.undo, seen |-> seen,
                        ok |-> ran /\ c.ok /\ seen = "Inactive",
                        changes |-> IF ran THEN undone(c) ELSE changes] :
                         ran \in BOOLEAN, seen \in {c.undo, "Unknown"}} : c \in ends}

\* clearExecutionBridgeSymbols: all of them, or some are left.
Clears == {[symbols |-> FALSE, ok |-> TRUE], [symbols |-> symbols, ok |-> FALSE]}

\* finishEvaluation, for a step that went well or not: clear, keep a retained
\* value of a good step, and try once more where clearing failed.
Finishes(good, retain) ==
  {[symbols |-> good /\ retain, kept |-> good /\ retain, ok |-> good],
   [symbols |-> FALSE, kept |-> FALSE, ok |-> FALSE],
   [symbols |-> symbols, kept |-> TRUE, ok |-> FALSE]}

StepResult(good, d) ==
  IF ~good THEN "failed" ELSE IF d.port = "invalid" THEN "bridgeFailed" ELSE "ok"

\* complete_execution_step answers false outside an awaited step.
CompletedStep(e, r) == IF e.phase \in AwaitedSteps THEN CompleteStep(e, r) ELSE e
BadStep(d, e) == IF e.phase \in AwaitedSteps THEN d ELSE [d EXCEPT !.result = "ExecBridgeFailed"]

\* abandonLostExecutionContext: the symbols are cleared where that is safe.
LosesContext(d) ==
  IF ContextMatches /\ d.symbolsKept
  THEN {[d |-> [d EXCEPT !.symbolsKept = ~c.ok, !.result = "Success"], symbols |-> c.symbols] :
          c \in Clears}
  ELSE {[d |-> [d EXCEPT !.result = "Success"], symbols |-> symbols]}

\* The main thread is AutoCAD's, and its reactors may be called: between the
\* host's callbacks and inside the commands it runs.
AutoCADRuns == callback = "out" \/ callback \in Commands

(***************************************************************************)
(* What AutoCAD reports of LISP.                                           *)
(***************************************************************************)
\* queuedExecutionDriverStarted: with the driver's own expression ...
StartsDriver(d) ==
  IF IsExecution(d) /\ d.lifecycle = "AwaitingStart"
  THEN [d EXCEPT !.lifecycle = "Running", !.depth = 1]
  ELSE IF IsExecution(d) /\ d.lifecycle \notin {"EndedDuringCallback", "Finalizing"}
       THEN [d EXCEPT !.depth = @ + 1]
       ELSE d
\* ... or with another one.
StartsOther(d) ==
  IF d.lifecycle = "AwaitingStart" THEN d ELSE StartsDriver(d)

\* The report of the driver's start may be missing, but not that of a driver
\* which is gone before it has called the host: the host would never learn it.
Unreported == IsExecution(dispatch) /\ dispatch.lifecycle = "AwaitingStart" /\ queued = 0

DriverStarts ==
  /\ queued > 0 /\ lisp = "none" /\ callback = "out" /\ dispatch.kind # "History"
  /\ queued' = queued - 1
  /\ lisp' = "looping"
  /\ \E d \in {dispatch, StartsDriver(dispatch)} : Keep(d, execution)
  /\ UNCHANGED <<drawingVars, nested, callback, bounds>>

NestedStarts ==
  /\ ~nested /\ AutoCADRuns
  /\ lisp = "evaluating" \/ callback # "out"
  /\ nested' = TRUE
  /\ Keep(StartsOther(dispatch), execution)
  /\ UNCHANGED <<drawingVars, lisp, queued, callback, bounds>>

\* Mutant of Terminated: an end that the host's own callback sees is dropped.
TerminatedOutside ==
  IF \/ ~IsExecution(dispatch)
     \/ dispatch.lifecycle \in {"AwaitingStart", "InCallback", "Finalizing"}
  THEN Keep(dispatch, execution)
  ELSE IF dispatch.depth > 1
  THEN Keep([dispatch EXCEPT !.depth = @ - 1], execution)
  ELSE LET d == [dispatch EXCEPT !.depth = 0] IN
       IF d.lifecycle = "AwaitingEnd" THEN ScheduleExecutionFinalizer(d, execution)
       ELSE FailDriver(d, execution)

\* queuedExecutionDriverTerminated(false).
Terminated ==
  IF ~IsExecution(dispatch) \/ dispatch.lifecycle \in {"AwaitingStart", "Finalizing"}
  THEN Keep(dispatch, execution)
  ELSE IF dispatch.depth > 1
  THEN Keep([dispatch EXCEPT !.depth = @ - 1], execution)
  ELSE LET d == [dispatch EXCEPT !.depth = 0] IN
       CASE d.lifecycle = "InCallback" ->
              Keep([d EXCEPT !.lifecycle = "EndedDuringCallback"], execution)
         [] d.lifecycle = "AwaitingEnd" -> ScheduleExecutionFinalizer(d, execution)
         [] OTHER -> FailDriver(d, execution)

LispEnds ==
  /\ \/ nested /\ nested' = FALSE /\ UNCHANGED lisp
     \/ ~nested /\ lisp # "none" /\ lisp' = "none" /\ UNCHANGED nested
  /\ AutoCADRuns /\ ~Unreported
  /\ Terminated
  /\ UNCHANGED <<drawingVars, queued, callback, bounds>>

(***************************************************************************)
(* recoverCancelledExecutionDriver: the step that was interrupted is       *)
(* recorded, or the execution abandoned, and the driver is sent again to   *)
(* unwind.                                                                 *)
(***************************************************************************)
Resent(d) == [d EXCEPT !.phase = "Queued", !.lifecycle = "AwaitingStart", !.depth = 0]

Resend(d, e) ==
  \/ Keep(Resent(d), e) /\ queued' = queued + 1
  \/ /\ ScheduleExecutionFinalizer([Resent(d) EXCEPT !.result = "Refused"], e)
     /\ UNCHANGED queued

RecoverLost(d) ==
  \E c \in LosesContext([d EXCEPT !.symbolsKept = @ \/ d.staged # "None"]) :
    /\ symbols' = c.symbols
    /\ ScheduleExecutionFinalizer(c.d, Abandon(execution))
    /\ UNCHANGED queued

RecoverStaged(d) ==
  \E c \in Finishes(FALSE, FALSE) :
    /\ symbols' = c.symbols
    /\ Resend([d EXCEPT !.symbolsKept = c.kept, !.staged = "None"],
              IF execution.phase \in AwaitedSteps THEN CompleteStep(execution, "failed")
              ELSE Abandon(execution))

Recover ==
  LET d == [dispatch EXCEPT !.port = "none"] IN
  \/ ~ContextMatches /\ RecoverLost(d)
  \/ ContextMatches /\ d.staged # "None" /\ RecoverStaged(d)
  \/ ContextMatches /\ d.staged = "None" /\ Resend(d, Abandon(execution)) /\ UNCHANGED symbols

\* queuedExecutionDriverTerminated(true).  A cancellation ends all the LISP
\* there is, down to the host's callback where that is on the stack.
LispCancelled ==
  /\ lisp # "none" \/ nested
  /\ AutoCADRuns /\ ~Unreported
  /\ interruptions < MaxInterruptions
  /\ interruptions' = interruptions + 1
  /\ \/ lisp' = "none"
     \/ nested /\ callback # "out" /\ UNCHANGED lisp
  /\ nested' = FALSE
  /\ IF ~IsExecution(dispatch) \/ dispatch.lifecycle \in {"AwaitingStart", "Finalizing"}
     THEN Keep(dispatch, execution) /\ UNCHANGED <<symbols, queued>>
     ELSE Recover
  /\ UNCHANGED <<active, alive, undo, changes, status, callback, dispatches>>

(***************************************************************************)
(* acadctlAdvanceExecution, from the driver's call to the return to LISP.  *)
(***************************************************************************)
\* There is nothing to drive, or the driver is not where it should be.
AdvanceRefused ==
  /\ lisp = "looping" /\ callback = "out"
  /\ \/ ~IsExecution(dispatch) /\ Keep(dispatch, execution)
     \/ /\ IsExecution(dispatch) /\ dispatch.lifecycle \notin {"AwaitingStart", "Running"}
        /\ FailDriver(dispatch, execution)
  /\ lisp' = "ending"
  /\ UNCHANGED <<drawingVars, nested, queued, callback, bounds>>

InCallback(d) ==
  [d EXCEPT !.phase = "Running", !.lifecycle = "InCallback",
            !.depth = IF d.lifecycle = "AwaitingStart" THEN 1 ELSE @]

AdvanceStarts ==
  /\ lisp = "looping" /\ callback = "out"
  /\ IsExecution(dispatch) /\ dispatch.lifecycle \in {"AwaitingStart", "Running"}
  /\ callback' = "loop"

\* The context is lost, undo recording is off or the bridge undefined.
AdvanceUnusable ==
  /\ AdvanceStarts
  /\ \E result \in {"Refused", "ExecBridgeFailed"} :
       Keep([InCallback(dispatch) EXCEPT !.result = result], execution)
  /\ UNCHANGED <<drawingVars, lisp, nested, queued, bounds>>

AdvanceContinues ==
  /\ AdvanceStarts /\ ContextMatches /\ dispatch.staged = "None"
  /\ Keep(InCallback(dispatch), execution)
  /\ UNCHANGED <<drawingVars, lisp, nested, queued, bounds>>

\* The staged form was evaluated: its port is finished, its result read and
\* the undo group looked at.
CollectsEvaluation ==
  /\ AdvanceStarts /\ ContextMatches /\ dispatch.staged = "Evaluator"
  /\ \E c \in Finishes(status = "ok", execution.mode = "Eval"), seen \in {undo, "Unknown"} :
       LET d == [InCallback(dispatch) EXCEPT !.port = "none", !.staged = "None",
                                             !.symbolsKept = c.kept, !.undoGroup = seen] IN
       /\ symbols' = c.symbols
       /\ Keep(BadStep(d, execution),
               CompletedStep(execution, StepResult(c.ok /\ seen = "Active", dispatch)))
  /\ UNCHANGED <<active, alive, undo, changes, status, lisp, nested, queued,
                 bounds>>

CollectsEmission ==
  /\ AdvanceStarts /\ ContextMatches /\ dispatch.staged = "EvalValueEmitter"
  /\ \E c \in Finishes(status = "ok", FALSE) :
       LET d == [InCallback(dispatch) EXCEPT !.port = "none", !.staged = "None",
                                             !.symbolsKept = c.kept] IN
       /\ symbols' = c.symbols
       /\ Keep(BadStep(d, execution), CompletedStep(execution, StepResult(c.ok, dispatch)))
  /\ UNCHANGED <<active, alive, undo, changes, status, lisp, nested, queued,
                 bounds>>

(***************************************************************************)
(* The loop of acadctlAdvanceExecution: one round takes a step, does it    *)
(* and completes it.                                                       *)
(***************************************************************************)
LoopRuns == callback = "loop" /\ dispatch.phase # "none" /\ dispatch.result = "Success"

\* A result ends the loop.  So does losing the dispatch to a finalizer that
\* was refused inside a command: the loop goes on with a reference to it, and
\* what is left there is the result it was completed with, never a success.
LoopEnds ==
  /\ callback = "loop" /\ ~LoopRuns
  /\ callback' = "exit"
  /\ UNCHANGED <<hostVars, drawingVars, lisp, nested, queued, bounds>>

LoopLosesContext ==
  /\ LoopRuns /\ ~ContextMatches
  /\ callback' = "exit"
  /\ Keep([dispatch EXCEPT !.result = "Success"], Abandon(execution))
  /\ UNCHANGED <<drawingVars, lisp, nested, queued, bounds>>

StepInvalid ==
  /\ LoopRuns /\ ContextMatches /\ ~HasStep(execution)
  /\ callback' = "exit"
  /\ Keep([dispatch EXCEPT !.result = "ExecBridgeFailed"], execution)
  /\ UNCHANGED <<drawingVars, lisp, nested, queued, bounds>>

StepTaken(phase) ==
  /\ LoopRuns /\ ContextMatches
  /\ HasStep(execution) /\ TakeStep(execution).phase = phase

\* The steps that are an UNDO command.  AutoCAD runs it inside the callback,
\* and its reactors find a dispatch in the middle of a step.
CommandOf ==
  [AwaitingBeginUndoGroup      |-> "begin",
   AwaitingCommitUndoGroup     |-> "close",
   AwaitingCloseEmptyUndoGroup |-> "close",
   AwaitingRollbackUndoGroup   |-> "rollback"]

StepStartsCommand ==
  /\ \E phase \in DOMAIN CommandOf :
       StepTaken(phase) /\ callback' = CommandOf[phase]
  /\ Keep(dispatch, TakeStep(execution))
  /\ UNCHANGED <<drawingVars, lisp, nested, queued, bounds>>

CommandEnds(command) == callback = command /\ ~nested

\* The step is completed: d is the dispatch after it.
StepCompletes(d, r) ==
  /\ callback' = "loop"
  /\ IF dispatch.phase = "none" THEN Keep(dispatch, execution)
     ELSE Keep(BadStep(d, execution), CompletedStep(execution, r))
  /\ UNCHANGED <<active, alive, status, lisp, nested, queued, bounds>>

CompletionOf(c) == IF c.ok THEN "ok" ELSE "failed"

StepBegins ==
  /\ CommandEnds("begin")
  /\ \E c \in UndoRuns("Active") :
       /\ undo' = c.undo
       /\ StepCompletes([dispatch EXCEPT !.undoGroup = c.seen,
                                         !.mayHaveStarted = (c.seen # "Inactive")],
                        CompletionOf(c))
  /\ UNCHANGED <<changes, symbols>>

StepCloses ==
  /\ CommandEnds("close")
  /\ \E c \in UndoRuns("Inactive") :
       /\ undo' = c.undo
       /\ StepCompletes([dispatch EXCEPT !.undoGroup = c.seen], CompletionOf(c))
  /\ UNCHANGED <<changes, symbols>>

StepRollsBack ==
  /\ CommandEnds("rollback")
  /\ \E c \in RollsBack(dispatch) :
       /\ undo' = c.undo /\ changes' = c.changes
       /\ StepCompletes([dispatch EXCEPT !.undoGroup = c.seen], CompletionOf(c))
  /\ UNCHANGED symbols

\* The other steps run nothing of AutoCAD's and are done in one go.
StepDone(d, r) ==
  /\ Keep(d, CompleteStep(TakeStep(execution), r))
  /\ UNCHANGED <<active, alive, undo, changes, status, lisp, nested, queued,
                 callback, bounds>>

StepClearsValue ==
  /\ StepTaken("AwaitingClearRetainedEvalValue")
  /\ \E c \in Clears :
       /\ symbols' = c.symbols
       /\ StepDone([dispatch EXCEPT !.symbolsKept = ~c.ok], CompletionOf(c))

\* A form or the value's emitter is staged and left to LISP.
Staged(kind) ==
  /\ dispatch.port = "none"
  /\ callback' = "handOff"
  /\ symbols' = TRUE /\ status' = "pending"
  /\ Keep([dispatch EXCEPT !.staged = kind, !.port = "open", !.symbolsKept = TRUE,
                           !.formHandedOff = @ \/ kind = "Evaluator"],
          TakeStep(execution))
  /\ UNCHANGED <<active, alive, undo, changes, lisp, nested, queued, bounds>>

\* The port is not to be had, or staging fails.
NotStaged(kind) ==
  \E c \in Finishes(FALSE, FALSE) :
    /\ symbols' = c.symbols
    /\ StepDone([dispatch EXCEPT !.symbolsKept = c.kept,
                                 !.formHandedOff = @ \/ kind = "Evaluator"], "failed")

\* For a form without a port, nothing is staged and nothing cleared.
NoFormPort ==
  /\ UNCHANGED symbols
  /\ StepDone([dispatch EXCEPT !.formHandedOff = TRUE], "failed")

StepEvaluates ==
  /\ StepTaken("AwaitingEvaluateForm")
  /\ Staged("Evaluator") \/ NotStaged("Evaluator") \/ NoFormPort

StepEmits ==
  /\ StepTaken("AwaitingEmitEvalValue")
  /\ Staged("EvalValueEmitter") \/ NotStaged("EvalValueEmitter")

(***************************************************************************)
(* The last step: what is still open is closed or rolled back, what is     *)
(* still set is cleared.                                                   *)
(***************************************************************************)
StepIsLast ==
  /\ StepTaken("Done")
  /\ callback' = IF dispatch.undoGroup = "Inactive" THEN "clear" ELSE "terminal"
  /\ Keep(dispatch, TakeStep(execution))
  /\ UNCHANGED <<drawingVars, lisp, nested, queued, bounds>>

TerminalEnd(d) ==
  {[undo |-> c.undo, seen |-> c.seen, ok |-> c.ok, changes |-> changes] :
     c \in UndoRuns("Inactive")}

TerminalUndo(d) == IF d.formHandedOff THEN RollsBack(d) ELSE TerminalEnd(d)

TerminalUndoEnds ==
  /\ CommandEnds("terminal")
  /\ callback' = "clear"
  /\ \E u \in TerminalUndo(dispatch) :
       /\ undo' = u.undo /\ changes' = u.changes
       /\ IF dispatch.phase = "none" THEN Keep(dispatch, execution)
          ELSE Keep([dispatch EXCEPT
                       !.undoGroup = u.seen,
                       !.cleanupFailed = @ \/ ~u.ok,
                       !.result = IF u.ok THEN @ ELSE "ExecBridgeFailed"], execution)
  /\ UNCHANGED <<active, alive, symbols, status, lisp, nested, queued, bounds>>

TerminalClears ==
  /\ callback = "clear"
  /\ callback' = "exit"
  /\ \E c \in IF dispatch.symbolsKept THEN Clears ELSE {[symbols |-> symbols, ok |-> TRUE]} :
       /\ symbols' = c.symbols
       /\ Keep([dispatch EXCEPT
                  !.symbolsKept = ~c.ok,
                  !.cleanupFailed = @ \/ ~c.ok,
                  !.result = IF c.ok THEN @ ELSE "ExecBridgeSymbolsClearFailed"], execution)
  /\ UNCHANGED <<active, alive, undo, changes, status, lisp, nested, queued,
                 bounds>>

(***************************************************************************)
(* The return to LISP and finishAdvanceCallback.                           *)
(***************************************************************************)
FinishAdvance(d, e, exitReady) ==
  CASE d.kind # "ExecDriver" \/ d.phase = "Finalizing" -> Keep(d, e)
    [] IsExecution(d) /\ d.lifecycle = "EndedDuringCallback" /\ exitReady ->
         ScheduleExecutionFinalizer(d, e)
    [] IsExecution(d) /\ d.lifecycle = "InCallback" ->
         Keep([d EXCEPT !.lifecycle = IF exitReady THEN "AwaitingEnd" ELSE "Running"], e)
    [] OTHER -> FailDriver(d, e)

AdvanceReturns ==
  /\ callback \in {"exit", "handOff"}
  /\ callback' = "out"
  /\ \E returned \in BOOLEAN :
       LET handsOff == callback = "handOff" /\ returned
           d == IF dispatch.phase = "none" THEN dispatch
                ELSE [dispatch EXCEPT
                        !.result = IF returned THEN @ ELSE "ExecBridgeFailed",
                        !.port = IF handsOff THEN @ ELSE "none"]
       IN /\ FinishAdvance(d, execution, returned /\ ~handsOff)
          /\ lisp' = CASE lisp = "none" -> "none"
                       [] lisp # "none" /\ handsOff -> "evaluating"
                       [] OTHER -> "ending"
  /\ UNCHANGED <<drawingVars, nested, queued, bounds>>

(***************************************************************************)
(* AutoLISP evaluates what is staged (lisp/core/exec.lsp).  A form that    *)
(* finds its source cleared fails; one that runs may edit the drawing, end *)
(* the undo group, and, where FormsMayEscape, go on after that.            *)
(***************************************************************************)
FormEdits ==
  {[undo |-> undo, changes |-> changes]} \cup
  (IF undo = "Active"
   THEN {[undo |-> u, changes |-> IF changes = "none" THEN "group" ELSE changes] :
           u \in {"Active", "Inactive"}}
        \cup (IF FormsMayEscape THEN {[undo |-> "Inactive", changes |-> "escaped"]} ELSE {})
   ELSE {})

LispEvaluates ==
  /\ lisp = "evaluating" /\ callback = "out" /\ ~nested
  /\ lisp' = "looping"
  /\ IF dispatch.staged = "Evaluator" /\ symbols /\ alive
     THEN \E edit \in FormEdits :
            undo' = edit.undo /\ changes' = edit.changes
     ELSE UNCHANGED <<undo, changes>>
  /\ status' \in IF symbols THEN {"ok", "nil"} ELSE {"nil"}
  /\ symbols' = TRUE
  /\ \E port \in IF dispatch.port = "open" THEN {"open", "invalid"} ELSE {dispatch.port} :
       Keep([dispatch EXCEPT !.port = port], execution)
  /\ UNCHANGED <<active, alive, nested, queued, callback, bounds>>

(***************************************************************************)
(* The rest of AutoCAD, and the client.                                    *)
(***************************************************************************)
AnotherDocumentActivates ==
  /\ AutoCADRuns
  /\ active' \in {"target", "previous"} \ {active}
  /\ UNCHANGED <<hostVars, alive, undo, changes, symbols, status, lispVars,
                 bounds>>

\* Mutant of TargetDestroyed: the phase is not looked at.
TargetDestroyedAtAnyTime ==
  /\ AutoCADRuns
  /\ alive /\ alive' = FALSE
  /\ queued' = 0
  /\ IF dispatch.phase # "none"
     THEN ScheduleFinalizer([dispatch EXCEPT !.result = "Refused"], execution)
     ELSE Keep(dispatch, execution)
  /\ UNCHANGED <<active, undo, changes, symbols, status, lisp, nested, callback, bounds>>

\* actionTargetWillBeDestroyed: with the document goes what is queued for it.
TargetDestroyed ==
  /\ AutoCADRuns
  /\ alive /\ alive' = FALSE
  /\ queued' = 0
  /\ IF dispatch.phase = "Queued"
     THEN ScheduleFinalizer([dispatch EXCEPT !.result = "Refused"], execution)
     ELSE Keep(dispatch, execution)
  /\ UNCHANGED <<active, undo, changes, symbols, status, lisp, nested,
                 callback, bounds>>

\* The document gets another database, and keeps what is queued.
TargetReloaded ==
  /\ AutoCADRuns
  /\ alive /\ alive' = FALSE
  /\ UNCHANGED <<hostVars, active, undo, changes, symbols, status, lispVars,
                 bounds>>

\* The client cancels, or the deadline passes, under the scheduler's lock.
ExecutionInterrupted ==
  /\ dispatch.kind = "ExecDriver"
  /\ execution' \in {RequestCancel(execution), ExpireBeforeStart(execution)}
  /\ execution' # execution
  /\ UNCHANGED <<dispatch, finalizers, reported, answer, quarantined, drawingVars, lispVars,
                 bounds>>

LispStep == DriverStarts \/ NestedStarts \/ LispEnds \/ LispEvaluates

LoopStep ==
  \/ LoopEnds \/ LoopLosesContext \/ StepInvalid
  \/ StepStartsCommand \/ StepBegins \/ StepCloses \/ StepRollsBack
  \/ StepClearsValue \/ StepEvaluates \/ StepEmits
  \/ StepIsLast \/ TerminalUndoEnds \/ TerminalClears

AdvanceStep ==
  \/ AdvanceRefused \/ AdvanceUnusable \/ AdvanceContinues
  \/ CollectsEvaluation \/ CollectsEmission \/ LoopStep \/ AdvanceReturns

HostStep == Dispatch \/ DispatchNotSent \/ HistoryRuns \/ HistoryTerminated \/ FinalizerRuns

Next ==
  \/ HostStep \/ LispStep \/ AdvanceStep \/ LispCancelled
  \/ AnotherDocumentActivates \/ TargetDestroyed \/ TargetReloaded
  \/ ExecutionInterrupted

Spec == Init /\ [][Next]_vars

(***************************************************************************)
(* Fairness: AutoCAD starts what it has queued, ends the expressions,      *)
(* forms and commands it runs, however often others run nested in them,    *)
(* and runs the finalizers it has accepted.                                *)
(***************************************************************************)
Fairness ==
  /\ WF_vars(FinalizerRuns)
  /\ WF_vars(HistoryRuns)
  /\ WF_vars(DriverStarts)
  /\ WF_vars(LispEnds /\ (nested \/ lisp = "ending"))
  /\ SF_vars(LispEvaluates)
  /\ SF_vars(AdvanceStep)

FairSpec == Spec /\ Fairness

(***************************************************************************)
(* Properties.                                                             *)
(***************************************************************************)
\* However the driver is started, ended, cancelled and lost, a dispatch that
\* is finalizing has one finalizer, and no finalizer is left for another.
OneFinalizer == finalizers = IF dispatch.phase = "Finalizing" THEN 1 ELSE 0

\* When the scheduler goes on to other jobs after an execution, the drawing
\* is as an execution expects it: no undo group left open, no bridge symbol.
ProvedMeansClean ==
  dispatch = NoDispatch /\ reported # "none" /\ ~quarantined /\ alive /\ lisp = "none" =>
    undo = "Inactive" /\ ~symbols

\* What the client is told about the drawing is true: without a success
\* either nothing is left of the forms, or the outcome is unknown.
TruthfulOutcome ==
  alive /\ answer \in {"NotStarted", "RolledBack", "Cancelled"} => changes = "none"

\* The client's "Changes were rolled back" of the outcome RolledBack: nothing
\* of the forms is left in the drawing.
RolledBackMeansRolledBack == alive /\ answer = "RolledBack" => changes = "none"

\* A dispatch that had another document's place gives it back, or the
\* scheduler stops.
ContextRestored ==
  [][(dispatch.restore /\ dispatch' = NoDispatch /\ ~quarantined') => active' = "previous"]_vars

\* Every dispatch ends with an answer, under the fairness above.
DispatchEnds == dispatch.phase # "none" ~> dispatch.phase = "none"
=============================================================================
