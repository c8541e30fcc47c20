----------------------------- MODULE ExecSession -----------------------------
(***************************************************************************)
(* One `acadctl exec` from end to end: the command line client             *)
(* (cli/src/commands/exec), the bidirectional stream that carries its      *)
(* request and its cancel one way and the events of the execution the      *)
(* other, and the plugin's side of the stream (rpc/exec.rs) up to the      *)
(* scheduler's job.                                                        *)
(*                                                                         *)
(* The job is reduced to what the session sees of it: when it starts, when *)
(* it is too late to cancel, what it writes and how it ends.  That a job   *)
(* whose cancel was accepted never succeeds is MutationScheduler's         *)
(* AcceptedCancelNeverSucceeds.  Output is counted in chunks, since the    *)
(* stream keeps their order; the pieces OutputChannel cuts are one chunk.  *)
(*                                                                         *)
(* The wire may deliver late and be lost at any moment; stdout and stderr  *)
(* may stay full for ever; a form may run for ever.                        *)
(***************************************************************************)
EXTENDS Naturals, Sequences

CONSTANTS
  MaxChunks,      \* bound on the chunks a job writes
  MaxPresses,     \* bound on the Ctrl+C of the user
  BufferChunks,   \* chunks the output channel holds
  WireCapacity    \* events the transport takes before the client reads them

ASSUME SessionAssumption ==
  /\ MaxChunks \in Nat /\ MaxPresses \in Nat
  /\ BufferChunks \in Nat \ {0} /\ WireCapacity \in Nat \ {0}

VARIABLES
  \* the client
  cli,          \* what the client's main task awaits
  accepted,     \* ResponsePhase
  interrupt,    \* InterruptPhase
  disposition,  \* its CancellationDisposition
  printed,      \* chunks stdout has taken
  exit,         \* what the client tells, once it knows
  \* its interrupt task
  task, pending, presses,
  events,       \* interrupts sent to the main task
  \* the stream
  connected,
  outbound,     \* messages queued in the client
  inbound,      \* messages at the plugin, not read yet
  wire,         \* events on their way to the client
  \* the plugin
  handler, response, listening, control,
  reader,       \* the control reader task
  reserved,     \* who holds the reservation
  \* the job
  job, started, cancelled, outcome, written, buffered

clientVars == <<cli, accepted, interrupt, disposition, printed, exit>>
taskVars == <<task, pending, presses>>
pluginVars == <<handler, response, listening, control, reader, reserved>>
jobVars == <<job, started, cancelled, outcome, written, buffered>>
vars == <<clientVars, taskVars, events, connected, outbound, inbound, wire, pluginVars,
          jobVars>>

Event(name) == [event |-> name, what |-> "none"]
Finished(what) == [event |-> "Finished", what |-> what]

Dispositions == {"NotQueued", "Queued", "Accepted", "TooLate"}
JobOutcomes == {"Success", "Cancelled", "NotStarted", "Failed"}
Exits ==
  {"success", "stopped", "notRun", "failed", "detached", "cancelled", "invalid",
   "connectionLost", "stoppingLost", "outputFailed", "startFailed"}

\* The request and one cancel.
OutboundCapacity == 2

TypeOK ==
  /\ cli \in {"starting", "reading", "writing", "reporting", "exited"}
  /\ accepted \in BOOLEAN
  /\ interrupt \in {"Attached", "CancelRequested", "DetachRequested"}
  /\ disposition \in Dispositions \cup {"none"}
  /\ printed \in 0..MaxChunks
  /\ exit \in Exits \cup {"none"}
  /\ task \in {"first", "queued", "notQueued", "second", "done"}
  /\ pending \in BOOLEAN /\ presses \in 0..MaxPresses
  /\ events \in Seq({"Queued", "NotQueued", "Detach"})
  /\ connected \in BOOLEAN
  /\ outbound \in Seq({"Request", "Cancel"}) /\ inbound \in Seq({"Request", "Cancel"})
  /\ wire \in Seq([event : {"Response", "Status", "Accepted", "Output", "CancelAccepted",
                            "CancelTooLate", "Finished"},
                   what : JobOutcomes \cup {"none"}])
  /\ handler \in {"idle", "first", "validating", "done"}
  /\ response \in {"none", "terminal", "SendAccepted", "RelayOutput", "AwaitCompletion",
                   "Done"}
  /\ listening \in BOOLEAN
  /\ control \in Seq({"CancelAccepted", "CancelTooLate", "Status"})
  /\ reader \in {"none", "reading", "answered", "done"}
  /\ reserved \subseteq {"handler", "validator", "response", "job"}
  /\ job \in {"none", "queued", "running", "committing", "finished"}
  /\ started \in BOOLEAN /\ cancelled \in BOOLEAN
  /\ outcome \in JobOutcomes \cup {"none"}
  /\ written \in 0..MaxChunks /\ buffered \in 0..BufferChunks

Init ==
  /\ cli = "starting" /\ accepted = FALSE
  /\ interrupt = "Attached" /\ disposition = "none" /\ printed = 0 /\ exit = "none"
  /\ task = "first" /\ pending = FALSE /\ presses = 0 /\ events = <<>>
  /\ connected = TRUE /\ outbound = <<"Request">> /\ inbound = <<>> /\ wire = <<>>
  /\ handler = "idle" /\ response = "none" /\ listening = FALSE /\ control = <<>>
  /\ reader = "none" /\ reserved = {}
  /\ job = "none" /\ started = FALSE /\ cancelled = FALSE /\ outcome = "none"
  /\ written = 0 /\ buffered = 0

(***************************************************************************)
(* The client's interrupt task.  The signal stream merges presses it has   *)
(* not been asked for yet.                                                 *)
(***************************************************************************)
UserPresses ==
  /\ cli # "exited" /\ presses < MaxPresses
  /\ presses' = presses + 1 /\ pending' = TRUE
  /\ UNCHANGED <<clientVars, task, events, connected, outbound, inbound, wire, pluginVars,
                 jobVars>>

\* publish_cancel: the send waits for room, and fails where the transport has
\* dropped the request stream, as it may once the response is over.
TaskPublishesCancel ==
  /\ cli # "exited" /\ task = "first" /\ pending
  /\ pending' = FALSE
  /\ \/ /\ Len(outbound) < OutboundCapacity
        /\ outbound' = Append(outbound, "Cancel") /\ task' = "queued"
     \/ /\ ~connected \/ response = "Done"
        /\ task' = "notQueued" /\ UNCHANGED outbound
  /\ UNCHANGED <<clientVars, presses, events, connected, inbound, wire, pluginVars, jobVars>>

TaskTellsCancel ==
  /\ cli # "exited" /\ task \in {"queued", "notQueued"}
  /\ events' = Append(events, IF task = "queued" THEN "Queued" ELSE "NotQueued")
  /\ task' = "second"
  /\ UNCHANGED <<clientVars, pending, presses, connected, outbound, inbound, wire, pluginVars,
                 jobVars>>

TaskTellsDetach ==
  /\ cli # "exited" /\ task = "second" /\ pending
  /\ pending' = FALSE /\ task' = "done"
  /\ events' = Append(events, "Detach")
  /\ UNCHANGED <<clientVars, presses, connected, outbound, inbound, wire, pluginVars, jobVars>>

(***************************************************************************)
(* The client's main task.  Its selects are biased to the interrupts.      *)
(***************************************************************************)
\* Mutant of NotedPhase: the client waits for the answer to its cancel.
NotedPhaseOnceAnswered(i) ==
  CASE interrupt = "Attached" /\ i # "Detach" -> "CancelRequested"
    [] interrupt = "CancelRequested" /\ i = "Detach" /\ disposition # "Queued" ->
         "DetachRequested"
    [] OTHER -> interrupt

\* Interrupts::note.
NotedPhase(i) ==
  CASE interrupt = "Attached" /\ i # "Detach"        -> "CancelRequested"
    [] interrupt = "CancelRequested" /\ i = "Detach" -> "DetachRequested"
    [] OTHER                                         -> interrupt
NotedDisposition(i) ==
  IF interrupt = "Attached" /\ i # "Detach" THEN i ELSE disposition

CancellationRequested == interrupt # "Attached"

\* wait_for_control, wait_for_stdout and write_diagnostic.
ClientNotes ==
  /\ cli # "exited" /\ events # <<>>
  /\ events' = Tail(events)
  /\ interrupt' = NotedPhase(Head(events))
  /\ disposition' = NotedDisposition(Head(events))
  /\ CASE cli = "reporting" -> cli' = "exited" /\ exit' = "cancelled"
       [] cli # "reporting" /\ interrupt' = "DetachRequested" ->
            cli' = "exited" /\ exit' = "detached"
       [] OTHER -> cli' = (IF cli = "writing" THEN "reading" ELSE cli) /\ UNCHANGED exit
  /\ UNCHANGED <<accepted, printed, taskVars, connected, outbound, inbound, wire, pluginVars,
                 jobVars>>

\* The client knows how it ends: what remains is a diagnostic, or nothing.
Reports(kind) == cli' = "reporting" /\ exit' = kind
Ends(kind) == cli' = "exited" /\ exit' = kind

InvalidResponse ==
  Reports("invalid") /\ UNCHANGED <<accepted, interrupt, disposition>>

\* lost_response, and the start of the response failing.
LostResponse(kind) ==
  /\ IF CancellationRequested THEN Ends("stoppingLost") ELSE Reports(kind)
  /\ UNCHANGED <<accepted, interrupt, disposition>>

OnAccepted ==
  \/ accepted /\ InvalidResponse
  \/ ~accepted /\ accepted' = TRUE /\ UNCHANGED <<cli, exit, interrupt, disposition>>

OnOutput ==
  \/ ~accepted /\ InvalidResponse
  \/ accepted /\ CancellationRequested /\ UNCHANGED <<cli, exit, accepted, interrupt, disposition>>
  \/ /\ accepted /\ ~CancellationRequested
     /\ cli' = "writing" /\ UNCHANGED <<exit, accepted, interrupt, disposition>>

\* Mutant of Acknowledges: an acknowledgement needs the interrupt first.
AcknowledgesNoted(d) ==
  IF disposition = "Queued"
  THEN disposition' = d /\ UNCHANGED <<cli, exit, accepted, interrupt>>
  ELSE InvalidResponse

\* acknowledge_cancellation: the acknowledgement may come before the interrupt
\* that caused it is noted.
Acknowledges(d) ==
  \/ /\ interrupt = "Attached"
     /\ interrupt' = "CancelRequested" /\ disposition' = d
     /\ UNCHANGED <<cli, exit, accepted>>
  \/ /\ interrupt # "Attached" /\ disposition = "Queued"
     /\ disposition' = d
     /\ IF interrupt = "DetachRequested" THEN Ends("detached") ELSE UNCHANGED <<cli, exit>>
     /\ UNCHANGED <<accepted, interrupt>>
  \/ interrupt # "Attached" /\ disposition # "Queued" /\ InvalidResponse

OnAcknowledgement(d) == IF accepted THEN Acknowledges(d) ELSE InvalidResponse

\* report_failure: a drawing outcome of "not started" promises that no code was
\* run, the others all leave room for it.
FailureReport(what) == IF what = "NotStarted" THEN "notRun" ELSE "failed"

OnFinished(what) ==
  /\ CASE ~accepted /\ what \in {"Success", "Cancelled"} -> Reports("invalid")
       [] accepted /\ (what = "Cancelled" \/ (what = "Success" /\ CancellationRequested)) ->
            Ends("stopped")
       [] accepted /\ what = "Success" /\ ~CancellationRequested -> Ends("success")
       [] what \in {"NotStarted", "Failed"} -> Reports(FailureReport(what))
  /\ UNCHANGED <<accepted, interrupt, disposition>>

\* The main loop takes the next event, or finds that the stream has ended.
ClientReads ==
  /\ cli \in {"starting", "reading"} /\ events = <<>> /\ wire # <<>>
  /\ wire' = Tail(wire)
  /\ LET e == Head(wire) IN
       CASE e.event = "Response" ->
              cli' = "reading" /\ UNCHANGED <<exit, accepted, interrupt, disposition>>
         [] e.event = "Status" ->
              LostResponse(IF cli = "starting" THEN "startFailed" ELSE "connectionLost")
         [] e.event = "Accepted" -> OnAccepted
         [] e.event = "Output" -> OnOutput
         [] e.event = "CancelAccepted" -> OnAcknowledgement("Accepted")
         [] e.event = "CancelTooLate" -> OnAcknowledgement("TooLate")
         [] e.event = "Finished" -> OnFinished(e.what)
  /\ UNCHANGED <<printed, taskVars, events, connected, outbound, inbound, pluginVars, jobVars>>

ClientLosesResponse ==
  /\ cli \in {"starting", "reading"} /\ events = <<>> /\ ~connected
  /\ LostResponse(IF cli = "starting" THEN "startFailed" ELSE "connectionLost")
  /\ UNCHANGED <<printed, taskVars, events, connected, outbound, inbound, wire, pluginVars,
                 jobVars>>

\* stdout takes the chunk or fails; it does neither while the pipe is full.
StdoutTakes ==
  /\ cli = "writing" /\ events = <<>>
  /\ \/ cli' = "reading" /\ printed' = printed + 1 /\ UNCHANGED exit
     \/ Reports("outputFailed") /\ UNCHANGED printed
  /\ UNCHANGED <<accepted, interrupt, disposition, taskVars, events, connected, outbound,
                 inbound, wire, pluginVars, jobVars>>

\* So does stderr.
StderrTakes ==
  /\ cli = "reporting" /\ events = <<>>
  /\ cli' = "exited"
  /\ UNCHANGED <<accepted, interrupt, disposition, printed, exit, taskVars, events, connected,
                 outbound, inbound, wire, pluginVars, jobVars>>

(***************************************************************************)
(* The stream.                                                             *)
(***************************************************************************)
Deliver ==
  /\ connected /\ outbound # <<>>
  /\ inbound' = Append(inbound, Head(outbound)) /\ outbound' = Tail(outbound)
  /\ UNCHANGED <<clientVars, taskVars, events, connected, wire, pluginVars, jobVars>>

\* The connection breaks, or the client has gone.
ConnectionLost ==
  /\ connected /\ connected' = FALSE
  /\ UNCHANGED <<clientVars, taskVars, events, outbound, inbound, wire, pluginVars, jobVars>>

HasRoom == connected /\ Len(wire) < WireCapacity
Sends(e) == wire' = Append(wire, e)

(***************************************************************************)
(* ExecRpc::execute.                                                       *)
(***************************************************************************)
\* The reservation, or too many live streams.
Reserve ==
  /\ handler = "idle" /\ connected
  /\ \/ handler' = "first" /\ reserved' = {"handler"} /\ UNCHANGED wire
     \/ handler' = "done" /\ Sends(Event("Status")) /\ UNCHANGED reserved
  /\ UNCHANGED <<clientVars, taskVars, events, connected, outbound, inbound, response,
                 listening, control, reader, jobVars>>

\* A response that will be one failure: the request or its source is not valid, or
\* the scheduler does not admit it.  None of these has started anything.
AnswersFailure ==
  response' = "terminal" /\ reserved' = {"response"} /\ Sends(Event("Response"))

\* The request is validated off the async threads, or answered at once.
FirstMessage ==
  /\ handler = "first" /\ inbound # <<>> /\ Head(inbound) = "Request"
  /\ inbound' = Tail(inbound)
  /\ \/ handler' = "validating" /\ reserved' = {"validator"} /\ UNCHANGED <<response, wire>>
     \/ handler' = "done" /\ AnswersFailure
  /\ UNCHANGED <<clientVars, taskVars, events, connected, outbound, listening, control, reader,
                 jobVars>>

\* FIRST_MESSAGE_TIMEOUT.
FirstMessageMissing ==
  /\ handler = "first"
  /\ handler' = "done" /\ reserved' = {}
  /\ Sends(Event("Status"))
  /\ UNCHANGED <<clientVars, taskVars, events, connected, outbound, inbound, response,
                 listening, control, reader, jobVars>>

\* The handler's future is dropped with the connection; a validation that runs
\* goes on without it.
HandlerDropped ==
  /\ ~connected /\ handler \in {"idle", "first", "validating"}
  /\ handler' = "done" /\ reserved' = reserved \ {"handler"}
  /\ UNCHANGED <<clientVars, taskVars, events, connected, outbound, inbound, wire, response,
                 listening, control, reader, jobVars>>

\* Mutant of ReservedBy: the job does not get the reservation.
ReservedByNobody(holder) == {}

ReservedBy(holder) == {holder}

\* admit_execution; an empty source has its answer already.
Admitted ==
  /\ response' = "SendAccepted" /\ listening' = TRUE /\ reader' = "reading"
  /\ Sends(Event("Response"))
  /\ \/ job' = "queued" /\ reserved' = ReservedBy("job") /\ UNCHANGED outcome
     \/ job' = "finished" /\ outcome' = "Success" /\ reserved' = {}
  /\ UNCHANGED <<started, cancelled, written, buffered>>

NotAdmitted ==
  /\ \/ AnswersFailure
     \/ Sends(Event("Status")) /\ reserved' = {} /\ UNCHANGED response
  /\ UNCHANGED <<listening, reader, jobVars>>

Validated ==
  /\ "validator" \in reserved /\ handler = "validating"
  /\ handler' = "done"
  /\ Admitted \/ NotAdmitted
  /\ UNCHANGED <<clientVars, taskVars, events, connected, outbound, inbound, control>>

ValidatedForNobody ==
  /\ "validator" \in reserved /\ handler = "done"
  /\ reserved' = {}
  /\ UNCHANGED <<clientVars, taskVars, events, connected, outbound, inbound, wire, handler,
                 response, listening, control, reader, jobVars>>

(***************************************************************************)
(* ExecuteResponseState::next_event, polled while the transport has room.  *)
(***************************************************************************)
responseOnly == <<clientVars, taskVars, events, connected, outbound, inbound, handler>>

TerminalResponse ==
  /\ response = "terminal" /\ HasRoom
  /\ Sends(Finished("NotStarted"))
  /\ response' = "Done" /\ reserved' = {}
  /\ UNCHANGED <<responseOnly, listening, control, reader, jobVars>>

SendAccepted ==
  /\ response = "SendAccepted" /\ HasRoom
  /\ Sends(Event("Accepted"))
  /\ response' = "RelayOutput"
  /\ UNCHANGED <<responseOnly, listening, control, reader, reserved, jobVars>>

Relaying == response \in {"RelayOutput", "AwaitCompletion"} /\ HasRoom
ControlReady == listening /\ (control # <<>> \/ reader = "done")

\* handle_control: an acknowledgement, an error that ends the stream, or the
\* reader has gone.
RelayControl ==
  /\ Relaying /\ ControlReady
  /\ IF control = <<>>
     THEN listening' = FALSE /\ UNCHANGED <<wire, response, control>>
     ELSE /\ Sends(Event(Head(control)))
          /\ control' = Tail(control)
          /\ response' = IF Head(control) = "Status" THEN "Done" ELSE response
          /\ UNCHANGED listening
  /\ UNCHANGED <<responseOnly, reader, reserved, jobVars>>

\* OutputStream::next_chunk: a chunk, or the end of the output once the job
\* has finished or its cancel was accepted.
RelayOutput ==
  /\ Relaying /\ ~ControlReady /\ response = "RelayOutput" /\ buffered > 0
  /\ buffered' = buffered - 1
  /\ Sends(Event("Output"))
  /\ UNCHANGED <<responseOnly, response, listening, control, reader, reserved, job, started,
                 cancelled, outcome, written>>

\* Mutant of OutputEnds: what is still buffered is not looked at.
OutputCutShort ==
  /\ Relaying /\ ~ControlReady /\ response = "RelayOutput"
  /\ job = "finished" \/ cancelled
  /\ response' = "AwaitCompletion"
  /\ UNCHANGED <<responseOnly, wire, listening, control, reader, reserved, jobVars>>

OutputEnds ==
  /\ Relaying /\ ~ControlReady /\ response = "RelayOutput"
  /\ buffered = 0 /\ (job = "finished" \/ cancelled)
  /\ response' = "AwaitCompletion"
  /\ UNCHANGED <<responseOnly, wire, listening, control, reader, reserved, jobVars>>

SendFinished ==
  /\ Relaying /\ ~ControlReady /\ response = "AwaitCompletion" /\ job = "finished"
  /\ Sends(Finished(outcome))
  /\ response' = "Done" /\ reader' = "done"
  /\ UNCHANGED <<responseOnly, listening, control, reserved, jobVars>>

\* The stream is dropped with the connection, and the reader with it.
ResponseDropped ==
  /\ ~connected /\ response \notin {"none", "Done"}
  /\ response' = "Done" /\ reserved' = reserved \ {"response"}
  /\ reader' = IF reader = "none" THEN "none" ELSE "done"
  /\ UNCHANGED <<responseOnly, wire, listening, control, jobVars>>

(***************************************************************************)
(* The control reader.                                                     *)
(***************************************************************************)
\* Mutant of Cancellable: a job that commits is cancelled too.
CancellableUntilFinished == job \in {"queued", "running", "committing"}

\* cancel_execution, with the answer the execution's phase gives.
Cancellable == job \in {"queued", "running"}

ReaderAnswers ==
  /\ reader = "reading" /\ inbound # <<>>
  /\ inbound' = Tail(inbound)
  /\ reader' = "answered"
  /\ control' = <<IF Cancellable THEN "CancelAccepted" ELSE "CancelTooLate">>
  /\ cancelled' = Cancellable
  /\ IF job = "queued"
     THEN job' = "finished" /\ outcome' = "Cancelled" /\ reserved' = reserved \ {"job"}
     ELSE UNCHANGED <<job, outcome, reserved>>
  /\ UNCHANGED <<clientVars, taskVars, events, connected, outbound, wire, handler, response,
                 listening, started, written, buffered>>

\* The request stream ends or breaks.
ReaderEnds ==
  /\ reader \in {"reading", "answered"} /\ inbound = <<>>
  /\ \/ ~connected /\ control = <<>> /\ control' = <<"Status">>
     \/ task = "done" /\ outbound = <<>> /\ UNCHANGED control
  /\ reader' = "done"
  /\ UNCHANGED <<clientVars, taskVars, events, connected, outbound, inbound, wire, handler,
                 response, listening, reserved, jobVars>>

(***************************************************************************)
(* The job, as the scheduler and AutoCAD take it along.                    *)
(***************************************************************************)
jobOnly == <<clientVars, taskVars, events, connected, outbound, inbound, wire, handler,
             response, listening, control, reader>>

JobStarts ==
  /\ job = "queued" /\ job' = "running" /\ started' = TRUE
  /\ UNCHANGED <<jobOnly, reserved, cancelled, outcome, written, buffered>>

\* What is written before a cancel is kept; the value of an eval is written
\* after the commit.
JobWrites ==
  /\ job \in {"running", "committing"} /\ ~cancelled /\ response # "Done"
  /\ written < MaxChunks /\ buffered < BufferChunks
  /\ written' = written + 1 /\ buffered' = buffered + 1
  /\ UNCHANGED <<jobOnly, reserved, job, started, cancelled, outcome>>

JobCommits ==
  /\ job = "running" /\ ~cancelled /\ job' = "committing"
  /\ UNCHANGED <<jobOnly, reserved, started, cancelled, outcome, written, buffered>>

\* The end of the job, which drops its reservation.
JobFinishes ==
  /\ job \in {"queued", "running", "committing"}
  /\ \/ job = "queued" /\ outcome' = "NotStarted"
     \/ job = "running" /\ outcome' = "Failed"
     \/ job = "running" /\ cancelled /\ outcome' = "Cancelled"
     \/ job = "committing" /\ outcome' \in {"Success", "Failed"}
  /\ job' = "finished" /\ reserved' = reserved \ {"job"}
  /\ UNCHANGED <<jobOnly, started, cancelled, written, buffered>>

TaskStep == TaskPublishesCancel \/ TaskTellsCancel \/ TaskTellsDetach
ClientStep == ClientNotes \/ ClientReads \/ ClientLosesResponse
HandlerStep ==
  \/ Reserve \/ FirstMessage \/ FirstMessageMissing \/ HandlerDropped
  \/ Validated \/ ValidatedForNobody
ResponseStep ==
  \/ TerminalResponse \/ SendAccepted \/ RelayControl \/ RelayOutput \/ OutputEnds
  \/ SendFinished \/ ResponseDropped
ReaderStep == ReaderAnswers \/ ReaderEnds
JobStep == JobStarts \/ JobWrites \/ JobCommits \/ JobFinishes

Next ==
  \/ UserPresses \/ TaskStep \/ ClientStep \/ StdoutTakes \/ StderrTakes
  \/ Deliver \/ ConnectionLost
  \/ HandlerStep \/ ResponseStep \/ ReaderStep \/ JobStep

Spec == Init /\ [][Next]_vars

(***************************************************************************)
(* The two programs are scheduled.  Nothing is assumed of the wire, of     *)
(* stdout and stderr, of the user and of the forms.                        *)
(***************************************************************************)
Fairness ==
  /\ WF_vars(TaskPublishesCancel) /\ WF_vars(TaskTellsCancel) /\ WF_vars(TaskTellsDetach)
  /\ WF_vars(ClientNotes)
  /\ WF_vars(HandlerStep) /\ WF_vars(ResponseStep) /\ WF_vars(ReaderStep)

FairSpec == Spec /\ Fairness

(***************************************************************************)
(* Properties.                                                             *)
(***************************************************************************)
\* However cancels, output, completion and acknowledgement race, the client
\* never meets a stream of events that it takes for invalid.
NoInvalidResponse == exit # "invalid"

\* What the client tells is true.  A success has happened, nobody asked to
\* stop it and all its output is printed; "Stopping... done." means that the
\* job is over; "code was not run" that it was not.
TruthfulExit ==
  /\ exit = "success" => outcome = "Success" /\ printed = written
  /\ exit = "stopped" => job = "finished"
  /\ exit = "notRun" => ~started

\* An acknowledged cancel is what the scheduler decided: an accepted one ends
\* the job without success, one that came too late has not touched it.
TruthfulAcknowledgement ==
  /\ disposition = "Accepted" => cancelled /\ outcome # "Success"
  /\ disposition = "TooLate" => ~cancelled

\* The reservation is held for as long as a request is read, checked, queued
\* or run, whatever becomes of its stream, and given back after that.
ReservedWhileLive ==
  reserved # {} <=>
    \/ handler \in {"first", "validating"} \/ "validator" \in reserved
    \/ response = "terminal" \/ job \in {"queued", "running", "committing"}

\* Whatever the wire, the plugin and the pipes do, the first interrupt is heard
\* (the client stops printing) and the second ends the client.
InterruptsAreHeard ==
  /\ pending ~> (CancellationRequested \/ cli = "exited")
  /\ (task = "second" /\ pending) ~> cli = "exited"
=============================================================================
