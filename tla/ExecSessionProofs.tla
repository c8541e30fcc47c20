-------------------------- MODULE ExecSessionProofs --------------------------
(***************************************************************************)
(* The session tells the truth, whatever is lost, late or stuck, for any   *)
(* number of chunks and interrupts and any size of the buffers.            *)
(*                                                                         *)
(* What the client ends up telling depends on messages that were on their  *)
(* way for long, so the invariant says of every message what is true while *)
(* it is on its way: an acknowledgement still describes the cancel, and    *)
(* the end of the job is the last thing that was sent.                     *)
(***************************************************************************)
EXTENDS ExecSession, FiniteSetTheorems, TLAPS

Requests == {"Request", "Cancel"}
Interrupts == {"Queued", "NotQueued", "Detach"}
Acknowledgements == {"CancelAccepted", "CancelTooLate"}
EventNames == {"Response", "Status", "Accepted", "Output", "Finished"} \cup Acknowledgements
WireEvents ==
  [event : EventNames \ {"Finished"}, what : {"none"}]
    \cup [event : {"Finished"}, what : JobOutcomes]
Live == {"queued", "running", "committing"}

\* The types that matter to the rest.
Typed ==
  /\ cli \in {"starting", "reading", "writing", "reporting", "exited"}
  /\ accepted \in BOOLEAN /\ cancelled \in BOOLEAN /\ started \in BOOLEAN
  /\ interrupt \in {"Attached", "CancelRequested", "DetachRequested"}
  /\ disposition \in Dispositions \cup {"none"}
  /\ task \in {"first", "queued", "notQueued", "second", "done"}
  /\ events \in Seq(Interrupts)
  /\ outbound \in Seq(Requests) /\ inbound \in Seq(Requests)
  /\ wire \in Seq(WireEvents)
  /\ control \in Seq(Acknowledgements \cup {"Status"})
  /\ handler \in {"idle", "first", "validating", "done"}
  /\ response \in {"none", "terminal", "SendAccepted", "RelayOutput", "AwaitCompletion",
                   "Done"}
  /\ reader \in {"none", "reading", "answered", "done"}
  /\ job \in Live \cup {"none", "finished"}
  /\ outcome \in JobOutcomes \cup {"none"}
  /\ job = "finished" => outcome \in JobOutcomes
  /\ printed \in Nat /\ written \in Nat /\ buffered \in Nat

\* Who holds the reservation, and that a request which has not been checked
\* has neither a response nor a job.
Early == handler # "done" \/ "validator" \in reserved
Held ==
  /\ reserved \subseteq {"handler", "validator", "response", "job"}
  /\ "handler" \in reserved <=> handler = "first"
  /\ handler = "validating" => "validator" \in reserved
  /\ "validator" \in reserved => handler \in {"validating", "done"}
  /\ "response" \in reserved <=> response = "terminal"
  /\ "job" \in reserved <=> job \in Live
  /\ Early => response = "none" /\ job = "none" /\ reader = "none"
  /\ response = "terminal" => job = "none"

\* An acknowledgement on its way is true, and stays so.
Holds(acknowledgement, isCancelled, by) ==
  /\ acknowledgement = "CancelAccepted" => isCancelled
  /\ acknowledgement = "CancelTooLate" => ~isCancelled /\ by \in {"answered", "done"}
Acknowledged ==
  /\ \A i \in DOMAIN control : Holds(control[i], cancelled, reader)
  /\ \A i \in DOMAIN wire : Holds(wire[i].event, cancelled, reader)
  /\ disposition = "Accepted" => Holds("CancelAccepted", cancelled, reader)
  /\ disposition = "TooLate" => Holds("CancelTooLate", cancelled, reader)
  /\ cancelled =>
       /\ reader \in {"answered", "done"}
       /\ job \in {"running", "finished"}
       /\ outcome # "Success"
  /\ job # "finished" => outcome = "none"
  /\ started => job \in {"running", "committing", "finished"}
  /\ outcome = "NotStarted" => ~started

\* The end of a job is the last event of its stream, and says how it ended.
Closed ==
  /\ \A i \in DOMAIN wire : wire[i].event = "Finished" =>
       /\ i = Len(wire) /\ response = "Done"
       /\ \/ job = "finished" /\ wire[i].what = outcome /\ buffered = 0
          \/ job = "none" /\ wire[i].what = "NotStarted"
  /\ response = "AwaitCompletion" => buffered = 0 /\ (job = "finished" \/ cancelled)
  /\ exit \in {"success", "stopped"} => job = "finished" /\ response = "Done"
  /\ exit = "success" => outcome = "Success" /\ cli = "exited"
  /\ exit = "notRun" => ~started /\ ~Early /\ job \in {"none", "finished"}
  /\ exit # "none" => cli \in {"reporting", "exited"}

\* Until somebody interrupts, every chunk that was written is printed, being
\* printed, on the wire or in the buffer.
Outputs(w) == Cardinality({i \in DOMAIN w : w[i].event = "Output"})
Printing ==
  /\ interrupt = "Attached" /\ cli \in {"starting", "reading", "writing"} =>
       printed + (IF cli = "writing" THEN 1 ELSE 0) + Outputs(wire) + buffered = written
  /\ exit = "success" => printed = written

\* The request is the first message of the client, and was read before the
\* stream had a response.
Requested ==
  /\ \A i \in DOMAIN outbound : outbound[i] = "Request" => i = 1 /\ inbound = <<>>
  /\ \A i \in DOMAIN inbound : inbound[i] = "Request" => i = 1
  /\ \/ \E i \in DOMAIN outbound : outbound[i] = "Request"
     \/ \E i \in DOMAIN inbound : inbound[i] = "Request"
     => /\ response = "none" /\ reader = "none"
        /\ handler # "validating" /\ "validator" \notin reserved

\* What the interrupt task sent and what the client noted agree.
SentCancel ==
  \/ \E i \in DOMAIN outbound : outbound[i] = "Cancel"
  \/ \E i \in DOMAIN inbound : inbound[i] = "Cancel"
  \/ \E i \in DOMAIN control : control[i] \in Acknowledgements
  \/ \E i \in DOMAIN wire : wire[i].event \in Acknowledgements
Noted ==
  /\ task \in {"first", "queued", "notQueued"} => events = <<>>
  /\ disposition = "none" <=> interrupt = "Attached"
  /\ SentCancel =>
       /\ task \notin {"first", "notQueued"}
       /\ \A i \in DOMAIN events : events[i] # "NotQueued"
       /\ disposition # "NotQueued"
  /\ task \in {"second", "done"} /\ interrupt = "Attached" =>
       events # <<>> /\ events[1] # "Detach"
  /\ task = "first" => interrupt = "Attached"
  /\ task = "notQueued" => interrupt = "Attached"

\* The client reads that its request was accepted before all that follows.
AcceptedFirst(i) == accepted \/ \E k \in 1..(i - 1) : wire[k].event = "Accepted"
NeedsAccepted(e) ==
  \/ e.event \in Acknowledgements \cup {"Output"}
  \/ e.event = "Finished" /\ e.what \in {"Success", "Cancelled"}
AcceptedIsFirst ==
  /\ \A i \in DOMAIN wire : NeedsAccepted(wire[i]) => AcceptedFirst(i)
  /\ \A i \in DOMAIN wire : wire[i].event = "Accepted" =>
       ~accepted /\ \A k \in DOMAIN wire : wire[k].event = "Accepted" => i = k
  /\ response \in {"RelayOutput", "AwaitCompletion"} => AcceptedFirst(Len(wire) + 1)
  /\ response \in {"none", "terminal", "SendAccepted"} =>
       ~accepted /\ \A k \in DOMAIN wire : wire[k].event # "Accepted"

\* A cancel is answered once: the answer is the reader's, on the wire or noted.
AnsweredOnce ==
  /\ Len(control) <= 1 /\ (reader \in {"none", "reading"} => control = <<>>)
  /\ \A i \in DOMAIN wire : wire[i].event \in Acknowledgements =>
       /\ \A k \in DOMAIN wire : wire[k].event \in Acknowledgements => i = k
       /\ \A k \in DOMAIN control : control[k] \notin Acknowledgements
       /\ disposition \notin {"Accepted", "TooLate"}
       /\ reader \in {"answered", "done"}
  /\ \A k \in DOMAIN control :
       control[k] \in Acknowledgements => disposition \notin {"Accepted", "TooLate"}
  /\ disposition \in {"Accepted", "TooLate"} => reader \in {"answered", "done"}

Inv ==
  /\ Typed /\ Held /\ Acknowledged /\ Closed /\ Printing /\ Requested /\ Noted
  /\ AcceptedIsFirst /\ AnsweredOnce /\ NoInvalidResponse

-----------------------------------------------------------------------------
(***************************************************************************)
(* Messages that are sent and read.                                        *)
(***************************************************************************)
LEMMA SentLast ==
  ASSUME NEW S, NEW s \in Seq(S), NEW e \in S
  PROVE  /\ Append(s, e) \in Seq(S)
         /\ Append(s, e) # <<>>
         /\ Len(Append(s, e)) = Len(s) + 1
         /\ DOMAIN Append(s, e) = 1..(Len(s) + 1)
         /\ DOMAIN s = 1..Len(s) /\ Len(s) \in Nat
         /\ \A i \in DOMAIN s : Append(s, e)[i] = s[i]
         /\ Append(s, e)[Len(s) + 1] = e
  OBVIOUS

LEMMA ReadFirst ==
  ASSUME NEW S, NEW s \in Seq(S), s # <<>>
  PROVE  /\ Tail(s) \in Seq(S)
         /\ Len(Tail(s)) = Len(s) - 1 /\ Len(s) \in Nat \ {0}
         /\ DOMAIN Tail(s) = 1..(Len(s) - 1)
         /\ DOMAIN s = 1..Len(s)
         /\ 1 \in DOMAIN s /\ Head(s) = s[1] /\ Head(s) \in S
         /\ \A i \in DOMAIN Tail(s) : Tail(s)[i] = s[i + 1] /\ i + 1 \in DOMAIN s
  OBVIOUS

LEMMA NothingSent ==
  ASSUME NEW S, NEW s \in Seq(S)
  PROVE  /\ <<>> \in Seq(S) /\ Len(<<>>) = 0 /\ DOMAIN <<>> = {}
         /\ DOMAIN s = 1..Len(s) /\ Len(s) \in Nat
         /\ s = <<>> <=> Len(s) = 0
  OBVIOUS

LEMMA EventIsEvent ==
  /\ \A name \in EventNames \ {"Finished"} :
       /\ Event(name) \in WireEvents
       /\ Event(name).event = name /\ Event(name).what = "none"
  /\ \A what \in JobOutcomes :
       /\ Finished(what) \in WireEvents
       /\ Finished(what).event = "Finished" /\ Finished(what).what = what
  BY DEF Event, Finished, WireEvents, EventNames

LEMMA NewEvent ==
  ASSUME NEW w \in Seq(WireEvents), NEW e \in WireEvents, NEW i \in DOMAIN Append(w, e)
  PROVE  \/ i \in DOMAIN w /\ Append(w, e)[i] = w[i]
         \/ i = Len(w) + 1 /\ Append(w, e)[i] = e
  BY SentLast

\* How many chunks a wire holds.
LEMMA OutputsSent ==
  ASSUME NEW w \in Seq(WireEvents), NEW e \in WireEvents
  PROVE  /\ Outputs(w) \in Nat
         /\ Outputs(Append(w, e)) = Outputs(w) + (IF e.event = "Output" THEN 1 ELSE 0)
<1> DEFINE S == {i \in DOMAIN w : w[i].event = "Output"}
           T == {i \in DOMAIN Append(w, e) : Append(w, e)[i].event = "Output"}
<1>1. IsFiniteSet(S) /\ Cardinality(S) \in Nat
  <2>1. DOMAIN w = 1..Len(w) /\ Len(w) \in Nat
    BY NothingSent
  <2>2. IsFiniteSet(DOMAIN w)
    BY <2>1, FS_Interval
  <2> QED BY <2>2, FS_Subset, FS_CardinalityType
<1>2. Len(w) + 1 \notin S
  BY SentLast
<1>3. T = IF e.event = "Output" THEN S \cup {Len(w) + 1} ELSE S
  BY SentLast
<1>4. Cardinality(T) = Cardinality(S) + (IF e.event = "Output" THEN 1 ELSE 0)
  <2> HIDE DEF S, T
  <2>1. Cardinality(S \cup {Len(w) + 1}) =
          IF Len(w) + 1 \in S THEN Cardinality(S) ELSE Cardinality(S) + 1
    BY <1>1, FS_AddElement
  <2> QED BY <2>1, <1>1, <1>2, <1>3
<1> QED BY <1>1, <1>4 DEF Outputs

LEMMA OutputsRead ==
  ASSUME NEW w \in Seq(WireEvents), w # <<>>
  PROVE  Outputs(w) = Outputs(Tail(w)) + (IF Head(w).event = "Output" THEN 1 ELSE 0)
<1> DEFINE S == {i \in DOMAIN w : w[i].event = "Output"}
           T == {i \in DOMAIN Tail(w) : Tail(w)[i].event = "Output"}
           later == [i \in T |-> i + 1]
<1>1. IsFiniteSet(S) /\ Cardinality(S) \in Nat
  <2>1. DOMAIN w = 1..Len(w) /\ Len(w) \in Nat
    BY NothingSent
  <2>2. IsFiniteSet(DOMAIN w)
    BY <2>1, FS_Interval
  <2> QED BY <2>2, FS_Subset, FS_CardinalityType
<1>2. IsFiniteSet(T) /\ Cardinality(T) \in Nat
  <2>1. IsFiniteSet(DOMAIN Tail(w))
    BY ReadFirst, FS_Interval
  <2> QED BY <2>1, FS_Subset, FS_CardinalityType
<1>3. \A i \in DOMAIN w \ {1} : i - 1 \in DOMAIN Tail(w) /\ Tail(w)[i - 1] = w[i]
  BY ReadFirst
<1>4. later \in Bijection(T, S \ {1})
  <2>1. \A i \in T : i \in Nat \ {0}
    BY ReadFirst
  <2>2. later \in [T -> S \ {1}]
    BY <2>1, ReadFirst
  <2>3. \A i, j \in T : later[i] = later[j] => i = j
    BY <2>1
  <2>4. \A k \in S \ {1} : k - 1 \in T /\ later[k - 1] = k
    BY <1>3, ReadFirst
  <2>5. later \in Injection(T, S \ {1})
    BY <2>2, <2>3 DEF Injection, IsInjective
  <2>6. later \in Surjection(T, S \ {1})
    BY <2>2, <2>4 DEF Surjection
  <2> QED BY <2>5, <2>6 DEF Bijection
<1>5. Cardinality(T) = Cardinality(S \ {1})
  BY <1>2, <1>4, FS_Bijection DEF ExistsBijection
<1>6. 1 \in S <=> Head(w).event = "Output"
  BY ReadFirst
<1>7. Cardinality(S) = Cardinality(S \ {1}) + (IF 1 \in S THEN 1 ELSE 0)
  <2> HIDE DEF S
  <2>1. Cardinality(S \ {1}) = IF 1 \in S THEN Cardinality(S) - 1 ELSE Cardinality(S)
    BY <1>1, FS_RemoveElement
  <2> QED BY <2>1, <1>1
<1> QED BY <1>1, <1>2, <1>5, <1>6, <1>7 DEF Outputs
-----------------------------------------------------------------------------
(***************************************************************************)
(* Types.                                                                  *)
(***************************************************************************)
LEMMA TypedInitially == Init => Typed
<1> SUFFICES ASSUME Init PROVE Typed
  OBVIOUS
<1>1. /\ events \in Seq(Interrupts) /\ inbound \in Seq(Requests) /\ wire \in Seq(WireEvents)
      /\ control \in Seq(Acknowledgements \cup {"Status"})
  BY DEF Init
<1>2. outbound \in Seq(Requests)
  BY DEF Init, Requests
<1> QED BY <1>1, <1>2 DEF Init, Typed, Dispositions, JobOutcomes, Live

\* The client's two tasks.
LEMMA ClientKeepsTypes ==
  ASSUME Typed, UserPresses \/ TaskStep \/ ClientStep \/ StdoutTakes \/ StderrTakes
  PROVE  Typed'
<1> USE DEF Typed, clientVars, taskVars, pluginVars, jobVars
<1>1. CASE UserPresses
  BY <1>1 DEF UserPresses
<1>2. CASE TaskStep
  <2>1. CASE TaskPublishesCancel
    <3>1. "Cancel" \in Requests
      BY DEF Requests
    <3>2. outbound' \in {outbound, Append(outbound, "Cancel")}
      BY <2>1 DEF TaskPublishesCancel
    <3>3. outbound' \in Seq(Requests)
      <4>1. outbound \in Seq(Requests)
        OBVIOUS
      <4>2. Append(outbound, "Cancel") \in Seq(Requests)
        BY <3>1, <4>1, SentLast
      <4> QED BY <3>2, <4>1, <4>2
    <3>4. task' \in {"queued", "notQueued"}
      BY <2>1 DEF TaskPublishesCancel
    <3> QED BY <2>1, <3>3, <3>4 DEF TaskPublishesCancel
  <2>2. CASE TaskTellsCancel
    BY <2>2, SentLast DEF TaskTellsCancel, Interrupts
  <2>3. CASE TaskTellsDetach
    BY <2>3, SentLast DEF TaskTellsDetach, Interrupts
  <2> QED BY <1>2, <2>1, <2>2, <2>3 DEF TaskStep
<1>3. CASE ClientNotes
  <2>1. events' \in Seq(Interrupts) /\ Head(events) \in Interrupts
    BY <1>3, ReadFirst DEF ClientNotes
  <2>2. /\ interrupt' \in {"Attached", "CancelRequested", "DetachRequested"}
        /\ disposition' \in Dispositions \cup {"none"}
    BY <1>3, <2>1 DEF ClientNotes, NotedPhase, NotedDisposition, Dispositions, Interrupts
  <2>3. cli' \in {"starting", "reading", "writing", "reporting", "exited"}
    BY <1>3 DEF ClientNotes
  <2> QED BY <1>3, <2>1, <2>2, <2>3 DEF ClientNotes
<1>4. CASE ClientReads
  <2>1. wire' \in Seq(WireEvents)
    BY <1>4, ReadFirst DEF ClientReads
  <2>2. Head(wire) \in WireEvents
    BY <1>4, ReadFirst DEF ClientReads
  <2>3. /\ cli' \in {"starting", "reading", "writing", "reporting", "exited"}
        /\ accepted' \in BOOLEAN
        /\ interrupt' \in {"Attached", "CancelRequested", "DetachRequested"}
        /\ disposition' \in Dispositions \cup {"none"}
    BY <1>4, <2>2
    DEF ClientReads, LostResponse, OnAccepted, OnOutput, OnAcknowledgement, Acknowledges,
        OnFinished, FailureReport, InvalidResponse, Reports, Ends, Dispositions, WireEvents,
        EventNames, Acknowledgements, JobOutcomes
  <2> QED BY <1>4, <2>1, <2>3 DEF ClientReads
<1>5. CASE ClientLosesResponse
  BY <1>5 DEF ClientLosesResponse, LostResponse, Reports, Ends
<1>6. CASE StdoutTakes
  BY <1>6 DEF StdoutTakes, Reports
<1>7. CASE StderrTakes
  BY <1>7 DEF StderrTakes
<1> QED BY <1>1, <1>2, <1>3, <1>4, <1>5, <1>6, <1>7 DEF ClientStep
\* The connection and the plugin.
LEMMA HandlerKeepsTypes ==
  ASSUME Typed, Deliver \/ ConnectionLost \/ HandlerStep
  PROVE  Typed'
<1> USE DEF Typed, clientVars, taskVars, pluginVars, jobVars
<1>1. CASE Deliver
  BY <1>1, ReadFirst, SentLast DEF Deliver
<1>2. CASE ConnectionLost
  BY <1>2 DEF ConnectionLost
<1>3. /\ Append(wire, Event("Status")) \in Seq(WireEvents)
      /\ Append(wire, Event("Response")) \in Seq(WireEvents)
  BY EventIsEvent, SentLast DEF EventNames
<1>4. CASE Reserve
  <2>1. wire' \in Seq(WireEvents)
    BY <1>4, <1>3 DEF Reserve, Sends
  <2> QED BY <1>4, <2>1 DEF Reserve
<1>5. CASE FirstMessage
  <2>1. inbound' \in Seq(Requests)
    BY <1>5, ReadFirst DEF FirstMessage, AnswersFailure
  <2>2. wire' \in Seq(WireEvents)
    BY <1>5, <1>3 DEF FirstMessage, AnswersFailure, Sends
  <2> QED BY <1>5, <2>1, <2>2 DEF FirstMessage, AnswersFailure
<1>6. CASE FirstMessageMissing
  BY <1>6, <1>3 DEF FirstMessageMissing, Sends
<1>7. CASE HandlerDropped
  BY <1>7 DEF HandlerDropped
<1>8. CASE Validated
  <2>1. wire' \in Seq(WireEvents)
    <3>1. CASE Admitted
      BY <1>3, <3>1 DEF Admitted, Sends
    <3>2. CASE NotAdmitted
      BY <1>3, <3>2 DEF NotAdmitted, AnswersFailure, Sends
    <3> QED BY <1>8, <3>1, <3>2 DEF Validated
  <2> QED BY <1>8, <2>1 DEF Validated, Admitted, NotAdmitted, AnswersFailure, Live, JobOutcomes
<1>9. CASE ValidatedForNobody
  BY <1>9 DEF ValidatedForNobody
<1> QED BY <1>1, <1>2, <1>4, <1>5, <1>6, <1>7, <1>8, <1>9 DEF HandlerStep

LEMMA ResponseKeepsTypes ==
  ASSUME Typed, ResponseStep \/ ReaderStep \/ JobStep
  PROVE  Typed'
<1> USE DEF Typed, clientVars, taskVars, pluginVars, jobVars, responseOnly, jobOnly
<1>1. \A name \in EventNames \ {"Finished"} : Append(wire, Event(name)) \in Seq(WireEvents)
  BY EventIsEvent, SentLast
<1>2. \A what \in JobOutcomes : Append(wire, Finished(what)) \in Seq(WireEvents)
  BY EventIsEvent, SentLast
<1>3. CASE TerminalResponse
  BY <1>3, <1>2 DEF TerminalResponse, Sends, JobOutcomes
<1>4. CASE SendAccepted
  BY <1>4, <1>1 DEF SendAccepted, Sends, EventNames
<1>5. CASE RelayControl
  <2>1. CASE control = <<>>
    BY <1>5, <2>1 DEF RelayControl
  <2>2. CASE control # <<>>
    <3>1. /\ Head(control) \in Acknowledgements \cup {"Status"}
          /\ control' \in Seq(Acknowledgements \cup {"Status"})
      <4>1. control \in Seq(Acknowledgements \cup {"Status"})
        OBVIOUS
      <4>2. /\ Head(control) \in Acknowledgements \cup {"Status"}
            /\ Tail(control) \in Seq(Acknowledgements \cup {"Status"})
        BY <2>2, <4>1, ReadFirst
      <4> QED BY <1>5, <2>2, <4>2 DEF RelayControl
    <3>2. wire' \in Seq(WireEvents)
      BY <1>5, <2>2, <3>1, <1>1 DEF RelayControl, Sends, EventNames, Acknowledgements
    <3> QED BY <1>5, <2>2, <3>1, <3>2 DEF RelayControl
  <2> QED BY <2>1, <2>2
<1>6. CASE RelayOutput
  BY <1>6, <1>1 DEF RelayOutput, Sends, EventNames
<1>7. CASE OutputEnds
  BY <1>7 DEF OutputEnds
<1>8. CASE SendFinished
  BY <1>8, <1>2 DEF SendFinished, Sends
<1>9. CASE ResponseDropped
  BY <1>9 DEF ResponseDropped
<1>10. CASE ReaderAnswers
  <2>1. inbound' \in Seq(Requests)
    BY <1>10, ReadFirst DEF ReaderAnswers
  <2>2. control' \in Seq(Acknowledgements \cup {"Status"})
    BY <1>10 DEF ReaderAnswers, Acknowledgements
  <2> QED BY <1>10, <2>1, <2>2 DEF ReaderAnswers, Cancellable, JobOutcomes
<1>11. CASE ReaderEnds
  <2>1. control' \in Seq(Acknowledgements \cup {"Status"})
    <3>1. control' \in {control, <<"Status">>}
      BY <1>11 DEF ReaderEnds
    <3>2. <<"Status">> \in Seq(Acknowledgements \cup {"Status"})
      OBVIOUS
    <3>3. control \in Seq(Acknowledgements \cup {"Status"})
      OBVIOUS
    <3> QED BY <3>1, <3>2, <3>3
  <2> QED BY <1>11, <2>1 DEF ReaderEnds
<1>12. CASE JobStep
  <2> USE DEF Live, JobOutcomes
  <2>1. CASE JobStarts
    BY <2>1 DEF JobStarts
  <2>2. CASE JobWrites
    BY <2>2 DEF JobWrites
  <2>3. CASE JobCommits
    BY <2>3 DEF JobCommits
  <2>4. CASE JobFinishes
    BY <2>4 DEF JobFinishes
  <2> QED BY <1>12, <2>1, <2>2, <2>3, <2>4 DEF JobStep
<1> QED
  BY <1>3, <1>4, <1>5, <1>6, <1>7, <1>8, <1>9, <1>10, <1>11, <1>12 DEF ResponseStep, ReaderStep

LEMMA StepKeepsTypes == ASSUME Typed, Next PROVE Typed'
  BY ClientKeepsTypes, HandlerKeepsTypes, ResponseKeepsTypes DEF Next
-----------------------------------------------------------------------------
(***************************************************************************)
(* The reservation.                                                        *)
(***************************************************************************)
LEMMA HeldInitially == Init => Held
  BY DEF Init, Held, Early, Live

\* What the client and the wire do leaves the plugin alone.
LEMMA PluginAlone ==
  ASSUME UserPresses \/ TaskStep \/ ClientStep \/ StdoutTakes \/ StderrTakes \/ ConnectionLost
         \/ Deliver
  PROVE  UNCHANGED <<pluginVars, jobVars>>
  BY DEF UserPresses, TaskStep, TaskPublishesCancel, TaskTellsCancel, TaskTellsDetach,
         ClientStep, ClientNotes, ClientReads, ClientLosesResponse, StdoutTakes, StderrTakes,
         ConnectionLost, Deliver

LEMMA StepKeepsHeld ==
  ASSUME Typed, Held, Next
  PROVE  Held'
<1> USE DEF Held, Early, Live, pluginVars, jobVars
<1>1. CASE UNCHANGED <<pluginVars, jobVars>>
  BY <1>1
<1>2. CASE HandlerStep
  <2>1. CASE Reserve
    BY <2>1 DEF Reserve
  <2>2. CASE FirstMessage
    BY <2>2 DEF FirstMessage, AnswersFailure
  <2>3. CASE FirstMessageMissing
    BY <2>3 DEF FirstMessageMissing
  <2>4. CASE HandlerDropped
    BY <2>4 DEF HandlerDropped
  <2>5. CASE Validated
    BY <2>5 DEF Validated, Admitted, NotAdmitted, AnswersFailure, ReservedBy
  <2>6. CASE ValidatedForNobody
    BY <2>6 DEF ValidatedForNobody
  <2> QED BY <1>2, <2>1, <2>2, <2>3, <2>4, <2>5, <2>6 DEF HandlerStep
<1>3. CASE ResponseStep
  <2> USE DEF responseOnly
  <2>1. CASE TerminalResponse
    BY <2>1 DEF TerminalResponse
  <2>2. CASE SendAccepted
    BY <2>2 DEF SendAccepted
  <2>3. CASE RelayControl
    BY <2>3 DEF RelayControl, Relaying
  <2>4. CASE RelayOutput
    BY <2>4 DEF RelayOutput
  <2>5. CASE OutputEnds
    BY <2>5 DEF OutputEnds
  <2>6. CASE SendFinished
    BY <2>6 DEF SendFinished
  <2>7. CASE ResponseDropped
    BY <2>7 DEF ResponseDropped, Typed
  <2> QED BY <1>3, <2>1, <2>2, <2>3, <2>4, <2>5, <2>6, <2>7 DEF ResponseStep
<1>4. CASE ReaderStep
  BY <1>4 DEF ReaderStep, ReaderAnswers, ReaderEnds
<1>5. CASE JobStep
  BY <1>5 DEF JobStep, JobStarts, JobWrites, JobCommits, JobFinishes, jobOnly
<1> QED BY <1>1, <1>2, <1>3, <1>4, <1>5, PluginAlone DEF Next
-----------------------------------------------------------------------------
(***************************************************************************)
(* Acknowledgements.                                                       *)
(***************************************************************************)
LEMMA AcknowledgedInitially == Init => Acknowledged
  BY DEF Init, Acknowledged, Holds

\* Sending an event that holds, or reading one.
LEMMA WireStillHolds ==
  ASSUME Typed, Acknowledged, UNCHANGED cancelled,
         reader \in {"answered", "done"} => reader' \in {"answered", "done"},
         NEW e \in WireEvents, Holds(e.event, cancelled', reader'),
         \/ UNCHANGED wire
         \/ wire' = Append(wire, e)
         \/ wire # <<>> /\ wire' = Tail(wire)
  PROVE  \A i \in DOMAIN wire' : Holds(wire'[i].event, cancelled', reader')
<1>1. wire \in Seq(WireEvents) /\ \A i \in DOMAIN wire : Holds(wire[i].event, cancelled', reader')
  BY DEF Typed, Acknowledged, Holds
<1>2. CASE UNCHANGED wire
  BY <1>1, <1>2
<1>3. CASE wire' = Append(wire, e)
  <2>1. \A i \in DOMAIN wire' : i \in DOMAIN wire \/ wire'[i] = e
    BY <1>1, <1>3, SentLast
  <2>2. \A i \in DOMAIN wire : wire'[i] = wire[i]
    BY <1>1, <1>3, SentLast
  <2> QED BY <1>1, <2>1, <2>2
<1>4. CASE wire # <<>> /\ wire' = Tail(wire)
  BY <1>1, <1>4, ReadFirst
<1> QED BY <1>2, <1>3, <1>4

LEMMA ClientKeepsAcknowledged ==
  ASSUME Typed, Acknowledged,
         UserPresses \/ TaskStep \/ ClientStep \/ StdoutTakes \/ StderrTakes \/ Deliver
           \/ ConnectionLost
  PROVE  Acknowledged'
<1>1. UNCHANGED <<pluginVars, jobVars>>
  BY PluginAlone
<1>2. UNCHANGED <<control, reader, cancelled, job, outcome, started>>
  BY <1>1 DEF pluginVars, jobVars
<1>3. CASE UNCHANGED <<disposition, wire>>
  BY <1>2, <1>3 DEF Acknowledged, Holds
<1>4. CASE ClientNotes
  <2>1. disposition' \in {disposition, "Queued", "NotQueued"} /\ UNCHANGED wire
    <3>1. Head(events) \in Interrupts
      BY <1>4, ReadFirst DEF ClientNotes, Typed
    <3> QED BY <1>4, <3>1 DEF ClientNotes, NotedDisposition, Interrupts
  <2> QED BY <1>2, <2>1 DEF Acknowledged, Holds
<1>5. CASE ClientReads
  <2>1. /\ wire # <<>> /\ wire' = Tail(wire)
        /\ Head(wire) \in WireEvents /\ Holds(Head(wire).event, cancelled, reader)
    BY <1>5, ReadFirst DEF ClientReads, Typed, Acknowledged
  <2>2. \A i \in DOMAIN wire' : Holds(wire'[i].event, cancelled', reader')
    BY <1>2, <2>1, WireStillHolds DEF Holds
  <2>3. \/ disposition' = disposition
        \/ disposition' = "Accepted" /\ Head(wire).event = "CancelAccepted"
        \/ disposition' = "TooLate" /\ Head(wire).event = "CancelTooLate"
    BY <1>5, <2>1
    DEF ClientReads, LostResponse, OnAccepted, OnOutput, OnAcknowledgement, Acknowledges,
        OnFinished, FailureReport, InvalidResponse, WireEvents, EventNames, Acknowledgements
  <2> QED BY <1>2, <2>1, <2>2, <2>3 DEF Acknowledged, Holds
<1>6. CASE ClientLosesResponse
  BY <1>3, <1>6 DEF ClientLosesResponse, LostResponse
<1> QED
  BY <1>3, <1>4, <1>5, <1>6
  DEF UserPresses, TaskStep, TaskPublishesCancel, TaskTellsCancel, TaskTellsDetach, ClientStep,
      StdoutTakes, StderrTakes, Deliver, ConnectionLost, clientVars

LEMMA HandlerKeepsAcknowledged ==
  ASSUME Typed, Held, Acknowledged, HandlerStep
  PROVE  Acknowledged'
<1> USE DEF clientVars, pluginVars, jobVars
<1>1. ~cancelled /\ UNCHANGED <<cancelled, disposition, control, started>>
      /\ (reader' = reader \/ (reader = "none" /\ reader' = "reading"))
  BY DEF HandlerStep, Reserve, FirstMessage, FirstMessageMissing, HandlerDropped, Validated,
         Admitted, NotAdmitted, AnswersFailure, ValidatedForNobody,
              Held, Early, Acknowledged
<1>2. Event("Status") \in WireEvents /\ Event("Response") \in WireEvents
      /\ Holds("Status", cancelled', reader') /\ Holds("Response", cancelled', reader')
      /\ Event("Status").event = "Status" /\ Event("Response").event = "Response"
  BY EventIsEvent DEF EventNames, Holds
<1>3. wire' \in {wire, Append(wire, Event("Status")), Append(wire, Event("Response"))}
  BY DEF HandlerStep, Reserve, FirstMessage, FirstMessageMissing, HandlerDropped, Validated,
         Admitted, NotAdmitted, AnswersFailure, ValidatedForNobody, Sends
<1>4. \A i \in DOMAIN wire' : Holds(wire'[i].event, cancelled', reader')
  BY <1>1, <1>2, <1>3, WireStillHolds
<1>5. /\ job' # "finished" => outcome' = "none"
      /\ started' => job' \in {"running", "committing", "finished"}
      /\ outcome' = "NotStarted" => ~started'
  BY <1>1 DEF HandlerStep, Reserve, FirstMessage, FirstMessageMissing, HandlerDropped,
              Validated, Admitted, NotAdmitted, AnswersFailure, ValidatedForNobody,
              Held, Early, Acknowledged
<1> QED BY <1>1, <1>4, <1>5 DEF Acknowledged, Holds

LEMMA ResponseKeepsAcknowledged ==
  ASSUME Typed, Held, Acknowledged, ResponseStep
  PROVE  Acknowledged'
<1> USE DEF responseOnly, clientVars, jobVars
<1>1. UNCHANGED <<cancelled, disposition, started, job, outcome>>
      /\ reader' \in {reader, "done"}
  BY DEF ResponseStep, TerminalResponse, SendAccepted, RelayControl, RelayOutput, OutputEnds,
         SendFinished, ResponseDropped
<1>2. (\A i \in DOMAIN control' : Holds(control'[i], cancelled', reader'))
  <2>1. control' = control \/ (control # <<>> /\ control' = Tail(control))
    BY DEF ResponseStep, TerminalResponse, SendAccepted, RelayControl, RelayOutput, OutputEnds,
           SendFinished, ResponseDropped
  <2>2. \A i \in DOMAIN control : Holds(control[i], cancelled', reader')
    BY <1>1 DEF Acknowledged, Holds, Typed
  <2> QED BY <2>1, <2>2, ReadFirst DEF Typed
<1>3. \E e \in WireEvents :
         Holds(e.event, cancelled', reader') /\ (wire' = wire \/ wire' = Append(wire, e))
  <2>1. CASE RelayControl /\ control # <<>>
    <3>1. /\ Head(control) \in Acknowledgements \cup {"Status"}
          /\ Holds(Head(control), cancelled, reader)
      BY <2>1, ReadFirst DEF Typed, Acknowledged
    <3>2. /\ Event(Head(control)) \in WireEvents
          /\ Event(Head(control)).event = Head(control)
      BY <3>1, EventIsEvent DEF Acknowledgements, EventNames
    <3>3. Holds(Head(control), cancelled', reader')
      BY <1>1, <2>1, <3>1 DEF Holds, RelayControl
    <3> QED BY <2>1, <3>2, <3>3 DEF RelayControl, Sends
  <2>2. /\ Event("Accepted") \in WireEvents /\ Holds(Event("Accepted").event, cancelled', reader')
        /\ Event("Output") \in WireEvents /\ Holds(Event("Output").event, cancelled', reader')
    BY EventIsEvent DEF EventNames, Holds
  <2>3. \A what \in JobOutcomes :
          Finished(what) \in WireEvents /\ Holds(Finished(what).event, cancelled', reader')
    BY EventIsEvent DEF Holds
  <2>4. SendFinished => outcome \in JobOutcomes
    BY DEF SendFinished, Typed
  <2>5. CASE ~(RelayControl /\ control # <<>>)
    BY <2>2, <2>3, <2>4, <2>5
    DEF ResponseStep, TerminalResponse, SendAccepted, RelayControl, RelayOutput, OutputEnds,
        SendFinished, ResponseDropped, Sends, JobOutcomes
  <2> QED BY <2>1, <2>5
<1>4. \A i \in DOMAIN wire' : Holds(wire'[i].event, cancelled', reader')
  BY <1>1, <1>3, WireStillHolds
<1> QED BY <1>1, <1>2, <1>4 DEF Acknowledged, Holds

LEMMA JobKeepsAcknowledged ==
  ASSUME Typed, Held, Acknowledged, ReaderStep \/ JobStep
  PROVE  Acknowledged'
<1> USE DEF clientVars, jobOnly
<1>1. UNCHANGED <<wire, disposition>>
  BY DEF ReaderStep, ReaderAnswers, ReaderEnds, JobStep, JobStarts, JobWrites, JobCommits,
         JobFinishes
<1>2. CASE ReaderAnswers
  <2>1. reader = "reading" /\ reader' = "answered" /\ ~cancelled
    BY <1>2 DEF ReaderAnswers, Acknowledged
  <2>2. \A i \in DOMAIN control' : Holds(control'[i], cancelled', reader')
    BY <1>2, <2>1 DEF ReaderAnswers, Holds
  <2>3. /\ \A i \in DOMAIN wire : Holds(wire'[i].event, cancelled', reader')
        /\ disposition \notin {"Accepted", "TooLate"}
    BY <1>1, <2>1 DEF Acknowledged, Holds
  <2>4. /\ cancelled' => job' \in {"running", "finished"} /\ outcome' # "Success"
        /\ job' # "finished" => outcome' = "none"
        /\ started' => job' \in {"running", "committing", "finished"}
        /\ outcome' = "NotStarted" => ~started'
    BY <1>2, <2>1 DEF ReaderAnswers, Cancellable, Acknowledged
  <2> QED BY <1>1, <2>1, <2>2, <2>3, <2>4 DEF Acknowledged, Holds
<1>3. CASE ReaderEnds
  <2>1. /\ reader' = "done" /\ UNCHANGED <<cancelled, job, outcome, started>>
        /\ control' \in {control, <<"Status">>}
    BY <1>3 DEF ReaderEnds, jobVars
  <2>2. \A i \in DOMAIN control' : Holds(control'[i], cancelled', reader')
    BY <2>1 DEF Acknowledged, Holds
  <2> QED BY <1>1, <2>1, <2>2 DEF Acknowledged, Holds
<1>4. CASE JobStep
  <2>1. UNCHANGED <<control, reader, cancelled>>
    BY <1>4 DEF JobStep, JobStarts, JobWrites, JobCommits, JobFinishes
  <2>2. /\ cancelled' => job' \in {"running", "finished"} /\ outcome' # "Success"
        /\ job' # "finished" => outcome' = "none"
        /\ started' => job' \in {"running", "committing", "finished"}
        /\ outcome' = "NotStarted" => ~started'
    BY <1>4, <2>1 DEF JobStep, JobStarts, JobWrites, JobCommits, JobFinishes, Acknowledged
  <2> QED BY <1>1, <2>1, <2>2 DEF Acknowledged, Holds
<1> QED BY <1>2, <1>3, <1>4 DEF ReaderStep

LEMMA StepKeepsAcknowledged ==
  ASSUME Typed, Held, Acknowledged, Next
  PROVE  Acknowledged'
  BY ClientKeepsAcknowledged, HandlerKeepsAcknowledged, ResponseKeepsAcknowledged,
     JobKeepsAcknowledged DEF Next
-----------------------------------------------------------------------------
(***************************************************************************)
(* The end of the stream, and what the client makes of it.                 *)
(***************************************************************************)
LEMMA ClosedInitially == Init => Closed
  BY DEF Init, Closed

LEMMA ReadsKeepClosed ==
  ASSUME Typed, Held, Acknowledged, Closed, ClientReads
  PROVE  Closed'
<1>1. /\ wire # <<>> /\ wire' = Tail(wire) /\ wire \in Seq(WireEvents)
      /\ Head(wire) = wire[1] /\ 1 \in DOMAIN wire /\ Head(wire) \in WireEvents
  BY ReadFirst DEF ClientReads, Typed
<1>2. UNCHANGED <<handler, reserved, response, job, outcome, buffered, started, cancelled>>
  BY DEF ClientReads, pluginVars, jobVars
<1>3. \A i \in DOMAIN wire' : wire'[i].event = "Finished" =>
        /\ i = Len(wire') /\ response = "Done"
        /\ \/ job = "finished" /\ wire'[i].what = outcome /\ buffered = 0
           \/ job = "none" /\ wire'[i].what = "NotStarted"
  <2>1. /\ Len(wire') = Len(wire) - 1 /\ DOMAIN wire' = 1..(Len(wire) - 1) /\ Len(wire) \in Nat
        /\ \A i \in DOMAIN wire' : wire'[i] = wire[i + 1] /\ i + 1 \in DOMAIN wire
    BY <1>1, ReadFirst
  <2> QED BY <2>1 DEF Closed
<1>4. exit = "none"
  BY DEF ClientReads, Closed
<1>5. CASE Head(wire).event = "Finished"
  <2>1. response = "Done"
    BY <1>1, <1>5 DEF Closed
  <2>2. ~Early
    BY <2>1 DEF Held
  <2>3. \/ job = "finished" /\ Head(wire).what = outcome
        \/ job = "none" /\ Head(wire).what = "NotStarted"
    BY <1>1, <1>5 DEF Closed
  <2>4. Head(wire).what = "NotStarted" => ~started
    BY <2>3 DEF Acknowledged
  <2>5. /\ exit' \in {"success", "stopped"} => Head(wire).what \in {"Success", "Cancelled"}
        /\ exit' = "success" => Head(wire).what = "Success" /\ cli' = "exited"
        /\ exit' = "notRun" => Head(wire).what = "NotStarted"
        /\ exit' # "none" => cli' \in {"reporting", "exited"}
    BY <1>1, <1>5 DEF ClientReads, OnFinished, FailureReport, Reports, Ends, WireEvents, JobOutcomes
  <2>6. Early' = Early
    BY <1>2 DEF Early
  <2> QED BY <1>2, <1>3, <2>1, <2>2, <2>3, <2>4, <2>5, <2>6 DEF Closed
<1>6. CASE Head(wire).event # "Finished"
  <2>1. /\ exit' \notin {"success", "stopped", "notRun"}
        /\ exit' # "none" => cli' \in {"reporting", "exited"}
    BY <1>1, <1>4, <1>6
    DEF ClientReads, LostResponse, OnAccepted, OnOutput, OnAcknowledgement, Acknowledges,
        InvalidResponse, Reports, Ends, WireEvents, EventNames, Acknowledgements
  <2> QED BY <1>2, <1>3, <2>1 DEF Closed
<1> QED BY <1>5, <1>6

LEMMA ClientKeepsClosed ==
  ASSUME Typed, Held, Acknowledged, Closed,
         UserPresses \/ TaskStep \/ ClientStep \/ StdoutTakes \/ StderrTakes \/ Deliver
           \/ ConnectionLost
  PROVE  Closed'
<1>1. UNCHANGED <<pluginVars, jobVars>>
  BY PluginAlone
<1>2. UNCHANGED <<handler, reserved, response, job, outcome, buffered, started, cancelled>>
      /\ Early' = Early
  BY <1>1 DEF pluginVars, jobVars, Early
<1>3. CASE UNCHANGED <<cli, exit, wire>>
  BY <1>2, <1>3 DEF Closed
<1>4. CASE ClientNotes
  <2>1. UNCHANGED wire
        /\ \/ exit' = exit /\ exit = "none"
           \/ exit' \in {"cancelled", "detached"} /\ cli' = "exited"
    BY <1>4 DEF ClientNotes, Closed
  <2> QED BY <1>2, <2>1 DEF Closed
<1>5. CASE ClientLosesResponse
  <2>1. UNCHANGED wire
        /\ exit' \in {"stoppingLost", "startFailed", "connectionLost"}
        /\ cli' \in {"reporting", "exited"}
    BY <1>5 DEF ClientLosesResponse, LostResponse, Reports, Ends
  <2> QED BY <1>2, <2>1 DEF Closed
<1>6. CASE StdoutTakes
  <2>1. UNCHANGED wire /\ exit = "none"
        /\ (exit' = exit \/ (exit' = "outputFailed" /\ cli' = "reporting"))
    BY <1>6 DEF StdoutTakes, Reports, Closed
  <2> QED BY <1>2, <2>1 DEF Closed
<1>7. CASE StderrTakes
  BY <1>2, <1>7 DEF StderrTakes, Closed
<1> QED
  BY <1>3, <1>4, <1>5, <1>6, <1>7, ReadsKeepClosed
  DEF UserPresses, TaskStep, TaskPublishesCancel, TaskTellsCancel, TaskTellsDetach, ClientStep,
      Deliver, ConnectionLost, clientVars

\* A stream that is not done has no end on the wire.
LEMMA NothingAfterTheEnd ==
  ASSUME Typed, Closed, response # "Done"
  PROVE  /\ \A i \in DOMAIN wire : wire[i].event # "Finished"
         /\ exit \notin {"success", "stopped"}
  BY DEF Closed

LEMMA HandlerKeepsClosed ==
  ASSUME Typed, Held, Closed, HandlerStep
  PROVE  Closed'
<1>1. Early
  BY DEF HandlerStep, Reserve, FirstMessage, FirstMessageMissing, HandlerDropped, Validated,
         ValidatedForNobody, Early
<1>2. response = "none" /\ exit # "notRun"
  BY <1>1 DEF Held, Closed
<1>3. UNCHANGED <<cli, exit>>
  BY DEF HandlerStep, Reserve, FirstMessage, FirstMessageMissing, HandlerDropped, Validated,
         ValidatedForNobody, clientVars
<1>4. wire' \in {wire, Append(wire, Event("Status")), Append(wire, Event("Response"))}
  BY DEF HandlerStep, Reserve, FirstMessage, FirstMessageMissing, HandlerDropped, Validated,
         Admitted, NotAdmitted, AnswersFailure, ValidatedForNobody, Sends
<1>5. response' # "AwaitCompletion"
  BY <1>2 DEF HandlerStep, Reserve, FirstMessage, FirstMessageMissing, HandlerDropped,
              Validated, Admitted, NotAdmitted, AnswersFailure, ValidatedForNobody, pluginVars
<1>6. \A i \in DOMAIN wire' : wire'[i].event # "Finished"
  <2>1. \A i \in DOMAIN wire : wire[i].event # "Finished"
    BY <1>2, NothingAfterTheEnd
  <2>2. /\ Event("Status") \in WireEvents /\ Event("Status").event # "Finished"
        /\ Event("Response") \in WireEvents /\ Event("Response").event # "Finished"
    BY EventIsEvent DEF EventNames
  <2>3. wire \in Seq(WireEvents)
    BY DEF Typed
  <2> QED BY <1>4, <2>1, <2>2, <2>3, SentLast
<1>7. exit \notin {"success", "stopped"}
  BY <1>2, NothingAfterTheEnd
<1> QED BY <1>2, <1>3, <1>5, <1>6, <1>7 DEF Closed

LEMMA ResponseKeepsClosed ==
  ASSUME Typed, Held, Closed, ResponseStep
  PROVE  Closed'
<1> USE DEF responseOnly, clientVars, jobVars
<1>1. /\ response # "Done" /\ response # "none"
      /\ UNCHANGED <<cli, exit, handler, job, started, outcome, cancelled>>
      /\ reserved' \subseteq reserved
  BY DEF ResponseStep, TerminalResponse, SendAccepted, RelayControl, RelayOutput, OutputEnds,
         SendFinished, ResponseDropped, Relaying
<1>2. /\ \A i \in DOMAIN wire : wire[i].event # "Finished"
      /\ exit \notin {"success", "stopped"}
  BY <1>1, NothingAfterTheEnd
<1>3. exit' = "notRun" => ~started' /\ ~Early' /\ job' \in {"none", "finished"}
  BY <1>1 DEF Closed, Early
<1>4. response' = "AwaitCompletion" => buffered' = 0 /\ (job' = "finished" \/ cancelled')
  BY <1>1 DEF ResponseStep, TerminalResponse, SendAccepted, RelayControl, RelayOutput,
              OutputEnds, SendFinished, ResponseDropped, Relaying, Closed
<1>5. \A i \in DOMAIN wire' : wire'[i].event = "Finished" =>
        /\ i = Len(wire') /\ response' = "Done"
        /\ \/ job' = "finished" /\ wire'[i].what = outcome' /\ buffered' = 0
           \/ job' = "none" /\ wire'[i].what = "NotStarted"
  <2>1. wire \in Seq(WireEvents)
    BY DEF Typed
  <2>2. CASE TerminalResponse
    <3>1. /\ Finished("NotStarted") \in WireEvents
          /\ Finished("NotStarted").what = "NotStarted"
      BY EventIsEvent DEF JobOutcomes
    <3>2. job' = "none" /\ response' = "Done" /\ wire' = Append(wire, Finished("NotStarted"))
      BY <2>2, <1>1 DEF TerminalResponse, Held, Sends
    <3> QED BY <1>2, <2>1, <3>1, <3>2, SentLast
  <2>3. CASE SendFinished
    <3>1. /\ Finished(outcome) \in WireEvents
          /\ Finished(outcome).what = outcome
      BY <2>3, EventIsEvent DEF SendFinished, Typed
    <3>2. /\ job' = "finished" /\ response' = "Done" /\ wire' = Append(wire, Finished(outcome))
          /\ buffered' = 0 /\ outcome' = outcome
      BY <2>3, <1>1 DEF SendFinished, Closed, Sends
    <3> QED BY <1>2, <2>1, <3>1, <3>2, SentLast
  <2>4. CASE RelayControl /\ control # <<>>
    <3>1. /\ Event(Head(control)) \in WireEvents
          /\ Event(Head(control)).event # "Finished"
      <4>1. Head(control) \in Acknowledgements \cup {"Status"}
        BY <2>4, ReadFirst DEF Typed
      <4> QED BY <4>1, EventIsEvent DEF EventNames, Acknowledgements
    <3>2. wire' = Append(wire, Event(Head(control)))
      BY <2>4 DEF RelayControl, Sends
    <3> QED BY <1>2, <2>1, <3>1, <3>2, SentLast
  <2>5. CASE SendAccepted \/ RelayOutput
    <3>1. \E e \in WireEvents : e.event # "Finished" /\ wire' = Append(wire, e)
      BY <2>5, EventIsEvent DEF SendAccepted, RelayOutput, Sends, EventNames
    <3> QED BY <1>2, <2>1, <3>1, SentLast
  <2>6. CASE wire' = wire
    BY <1>2, <2>6
  <2> QED
    BY <2>2, <2>3, <2>4, <2>5, <2>6
    DEF ResponseStep, RelayControl, OutputEnds, ResponseDropped
<1> QED BY <1>1, <1>2, <1>3, <1>4, <1>5 DEF Closed

LEMMA JobKeepsClosed ==
  ASSUME Typed, Held, Acknowledged, Closed, ReaderStep \/ JobStep
  PROVE  Closed'
<1> USE DEF clientVars, jobOnly
<1>1. UNCHANGED <<wire, response, cli, exit, handler>> /\ reserved' \subseteq reserved
  BY DEF ReaderStep, ReaderAnswers, ReaderEnds, JobStep, JobStarts, JobWrites, JobCommits,
         JobFinishes
<1>2. CASE ReaderStep
  <2>1. /\ UNCHANGED <<buffered, started>>
        /\ job \in {"none", "finished"} => UNCHANGED <<job, outcome>>
        /\ job' \in {job, "finished"}
        /\ cancelled => cancelled'
    BY <1>2 DEF ReaderStep, ReaderAnswers, ReaderEnds, Acknowledged, jobVars
  <2> QED BY <1>1, <2>1 DEF Closed, Early
<1>3. CASE JobStep
  <2>1. /\ job \in Live /\ UNCHANGED cancelled
        /\ buffered' = buffered \/ ~cancelled
    BY <1>3 DEF JobStep, JobStarts, JobWrites, JobCommits, JobFinishes, Live
  <2>2. /\ \A i \in DOMAIN wire : wire[i].event # "Finished"
        /\ exit \notin {"success", "stopped", "notRun"}
    BY <2>1 DEF Closed, Live
  <2> QED BY <1>1, <2>1, <2>2 DEF Closed, Live
<1> QED BY <1>2, <1>3

LEMMA StepKeepsClosed ==
  ASSUME Typed, Held, Acknowledged, Closed, Next
  PROVE  Closed'
  BY ClientKeepsClosed, HandlerKeepsClosed, ResponseKeepsClosed, JobKeepsClosed DEF Next
-----------------------------------------------------------------------------
(***************************************************************************)
(* The request, the cancel, and the interrupts.                            *)
(***************************************************************************)
LEMMA RequestedInitially == Init => Requested
  BY DEF Init, Requested

LEMMA StepKeepsRequested ==
  ASSUME Typed, Held, Requested, Next
  PROVE  Requested'
<1> USE DEF Requested, clientVars, taskVars, pluginVars, jobVars, responseOnly, jobOnly
<1>1. outbound \in Seq(Requests) /\ inbound \in Seq(Requests)
  BY DEF Typed
<1>2. CASE UNCHANGED <<outbound, inbound, handler, reserved, response, reader>>
  BY <1>2
<1>3. CASE TaskPublishesCancel
  <2>1. outbound' = outbound \/ outbound' = Append(outbound, "Cancel")
    BY <1>3 DEF TaskPublishesCancel
  <2>2. \A i \in DOMAIN outbound' :
          outbound'[i] = "Request" => i \in DOMAIN outbound /\ outbound[i] = "Request"
    BY <1>1, <2>1, SentLast DEF Requests
  <2> QED BY <1>3, <2>2 DEF TaskPublishesCancel
<1>4. CASE Deliver
  <2>1. /\ outbound # <<>> /\ outbound' = Tail(outbound)
        /\ inbound' = Append(inbound, Head(outbound))
        /\ UNCHANGED <<handler, reserved, response, reader>>
    BY <1>4 DEF Deliver
  <2>2. /\ Head(outbound) = outbound[1] /\ Head(outbound) \in Requests /\ 1 \in DOMAIN outbound
        /\ \A i \in DOMAIN outbound' : outbound'[i] = outbound[i + 1] /\ i + 1 \in DOMAIN outbound
                                       /\ i \in Nat \ {0}
    BY <1>1, <2>1, ReadFirst
  <2>3. \A i \in DOMAIN outbound' : outbound'[i] # "Request"
    BY <2>2
  <2>4. \A i \in DOMAIN inbound' :
          \/ i \in DOMAIN inbound /\ inbound'[i] = inbound[i]
          \/ i = Len(inbound) + 1 /\ inbound'[i] = outbound[1]
    BY <1>1, <2>1, <2>2, SentLast
  <2>5. outbound[1] = "Request" => Len(inbound) = 0
    BY <1>1, <2>2
  <2> QED BY <2>1, <2>2, <2>3, <2>4, <2>5
<1>5. CASE HandlerStep
  <2>1. CASE FirstMessage
    <3>1. /\ inbound # <<>> /\ inbound' = Tail(inbound) /\ UNCHANGED outbound
          /\ inbound[1] = "Request"
      BY <1>1, <2>1, ReadFirst DEF FirstMessage, AnswersFailure
    <3>2. \A i \in DOMAIN inbound' : inbound'[i] # "Request"
      BY <1>1, <3>1, ReadFirst
    <3>3. \A i \in DOMAIN outbound' : outbound'[i] # "Request"
      BY <3>1
    <3> QED BY <3>2, <3>3
  <2>2. CASE Reserve
    BY <2>2 DEF Reserve, Held
  <2>3. CASE FirstMessageMissing
    BY <2>3 DEF FirstMessageMissing
  <2>4. CASE HandlerDropped
    BY <2>4 DEF HandlerDropped
  <2>5. CASE Validated
    BY <2>5 DEF Validated
  <2>6. CASE ValidatedForNobody
    BY <2>6 DEF ValidatedForNobody
  <2> QED BY <1>5, <2>1, <2>2, <2>3, <2>4, <2>5, <2>6 DEF HandlerStep
<1>6. CASE ResponseStep
  <2>1. /\ UNCHANGED <<outbound, inbound>> /\ response # "none"
    BY <1>6 DEF ResponseStep, TerminalResponse, SendAccepted, RelayControl, RelayOutput,
                OutputEnds, SendFinished, ResponseDropped, Relaying
  <2> QED BY <2>1
<1>7. CASE ReaderStep
  <2>1. reader # "none" /\ UNCHANGED outbound
        /\ (inbound' = inbound \/ (inbound # <<>> /\ inbound' = Tail(inbound)))
    BY <1>7 DEF ReaderStep, ReaderAnswers, ReaderEnds
  <2>2. \A i \in DOMAIN inbound' : inbound'[i] # "Request"
    BY <1>1, <2>1, ReadFirst
  <2> QED BY <2>1, <2>2
<1>8. CASE JobStep
  BY <1>8 DEF JobStep, JobStarts, JobWrites, JobCommits, JobFinishes
<1> QED
  BY <1>2, <1>3, <1>4, <1>5, <1>6, <1>7, <1>8
  DEF Next, UserPresses, TaskStep, TaskTellsCancel, TaskTellsDetach, ClientStep, ClientNotes,
      ClientReads, ClientLosesResponse, StdoutTakes, StderrTakes, ConnectionLost
\* A message of the cancel comes from the cancel that was published.
LEMMA CancelWasSent ==
  ASSUME Typed, Requested, Next, ~TaskPublishesCancel, SentCancel'
  PROVE  SentCancel
<1> USE DEF SentCancel, clientVars, taskVars, pluginVars, jobVars, responseOnly, jobOnly
<1>1. /\ outbound \in Seq(Requests) /\ inbound \in Seq(Requests) /\ wire \in Seq(WireEvents)
      /\ control \in Seq(Acknowledgements \cup {"Status"})
  BY DEF Typed
<1>2. CASE UNCHANGED <<outbound, inbound, control, wire>>
  BY <1>2
<1>3. CASE Deliver
  <2>1. /\ outbound # <<>> /\ outbound' = Tail(outbound)
        /\ inbound' = Append(inbound, Head(outbound)) /\ UNCHANGED <<control, wire>>
    BY <1>3 DEF Deliver
  <2>2. /\ Head(outbound) = outbound[1] /\ Head(outbound) \in Requests /\ 1 \in DOMAIN outbound
        /\ \A i \in DOMAIN outbound' : outbound'[i] = outbound[i + 1] /\ i + 1 \in DOMAIN outbound
    BY <1>1, <2>1, ReadFirst
  <2>3. \A i \in DOMAIN inbound' :
          \/ i \in DOMAIN inbound /\ inbound'[i] = inbound[i]
          \/ inbound'[i] = outbound[1]
    BY <1>1, <2>1, <2>2, SentLast
  <2> QED BY <2>1, <2>2, <2>3
<1>4. CASE ClientReads
  <2>1. wire # <<>> /\ wire' = Tail(wire) /\ UNCHANGED <<outbound, inbound, control>>
    BY <1>4 DEF ClientReads
  <2>2. \A i \in DOMAIN wire' : wire'[i] = wire[i + 1] /\ i + 1 \in DOMAIN wire
    BY <1>1, <2>1, ReadFirst
  <2> QED BY <2>1, <2>2
<1>5. CASE HandlerStep
  <2>1. /\ UNCHANGED <<outbound, control>>
        /\ wire' \in {wire, Append(wire, Event("Status")), Append(wire, Event("Response"))}
        /\ inbound' = inbound \/ (inbound # <<>> /\ inbound' = Tail(inbound))
    BY <1>5 DEF HandlerStep, Reserve, FirstMessage, FirstMessageMissing, HandlerDropped,
                Validated, Admitted, NotAdmitted, AnswersFailure, ValidatedForNobody, Sends
  <2>2. \A i \in DOMAIN inbound' :
          \E k \in DOMAIN inbound : inbound'[i] = inbound[k]
    <3>1. CASE inbound' = inbound
      BY <3>1
    <3>2. CASE inbound # <<>> /\ inbound' = Tail(inbound)
      BY <1>1, <3>2, ReadFirst
    <3> QED BY <2>1, <3>1, <3>2
  <2>3. /\ Event("Status") \in WireEvents /\ Event("Status").event \notin Acknowledgements
        /\ Event("Response") \in WireEvents /\ Event("Response").event \notin Acknowledgements
    BY EventIsEvent DEF EventNames, Acknowledgements
  <2>4. \A i \in DOMAIN wire' :
          wire'[i].event \in Acknowledgements => i \in DOMAIN wire /\ wire'[i] = wire[i]
    BY <1>1, <2>1, <2>3, NewEvent
  <2> QED BY <2>1, <2>2, <2>4
<1>6. CASE RelayControl /\ control # <<>>
  <2>1. /\ UNCHANGED <<outbound, inbound>> /\ control' = Tail(control)
        /\ wire' = Append(wire, Event(Head(control)))
    BY <1>6 DEF RelayControl, Sends
  <2>2. /\ Head(control) = control[1] /\ 1 \in DOMAIN control
        /\ Head(control) \in Acknowledgements \cup {"Status"}
        /\ \A i \in DOMAIN control' : control'[i] = control[i + 1] /\ i + 1 \in DOMAIN control
    BY <1>1, <1>6, <2>1, ReadFirst
  <2>3. /\ Event(Head(control)) \in WireEvents
        /\ Event(Head(control)).event = control[1]
    BY <2>2, EventIsEvent DEF EventNames, Acknowledgements
  <2>4. \A i \in DOMAIN wire' :
          \/ i \in DOMAIN wire /\ wire'[i] = wire[i]
          \/ wire'[i] = Event(Head(control))
    BY <1>1, <2>1, <2>3, SentLast
  <2> QED BY <2>1, <2>2, <2>3, <2>4
<1>7. CASE ResponseStep /\ ~(RelayControl /\ control # <<>>)
  <2>1. UNCHANGED <<outbound, inbound, control>>
    BY <1>7 DEF ResponseStep, TerminalResponse, SendAccepted, RelayControl, RelayOutput,
                OutputEnds, SendFinished, ResponseDropped
  <2>2. \E e \in WireEvents :
          e.event \notin Acknowledgements /\ (wire' = wire \/ wire' = Append(wire, e))
    <3>1. /\ Event("Accepted") \in WireEvents /\ Event("Accepted").event = "Accepted"
          /\ Event("Output") \in WireEvents /\ Event("Output").event = "Output"
      BY EventIsEvent DEF EventNames
    <3>2. \A what \in JobOutcomes : Finished(what) \in WireEvents
                                    /\ Finished(what).event = "Finished"
      BY EventIsEvent
    <3>3. SendFinished => outcome \in JobOutcomes
      BY DEF SendFinished, Typed
    <3> QED
      BY <1>7, <3>1, <3>2, <3>3
      DEF ResponseStep, TerminalResponse, SendAccepted, RelayControl, RelayOutput, OutputEnds,
          SendFinished, ResponseDropped, Sends, JobOutcomes, Acknowledgements
  <2>3. \A i \in DOMAIN wire' :
          wire'[i].event \in Acknowledgements => i \in DOMAIN wire /\ wire'[i] = wire[i]
    BY <1>1, <2>2, NewEvent
  <2> QED BY <2>1, <2>3
<1>8. CASE ReaderAnswers
  <2>1. inbound # <<>> /\ reader = "reading"
    BY <1>8 DEF ReaderAnswers
  <2>2. 1 \in DOMAIN inbound /\ inbound[1] \in Requests
    BY <1>1, <2>1, ReadFirst
  <2>3. inbound[1] = "Cancel"
    BY <2>1, <2>2 DEF Requested, Requests
  <2> QED BY <2>2, <2>3
<1>9. CASE ReaderEnds
  <2>1. /\ UNCHANGED <<outbound, inbound, wire>> /\ control' \in {control, <<"Status">>}
    BY <1>9 DEF ReaderEnds
  <2> QED BY <2>1 DEF Acknowledgements
<1>10. CASE JobStep
  BY <1>2, <1>10 DEF JobStep, JobStarts, JobWrites, JobCommits, JobFinishes
<1> QED
  BY <1>2, <1>3, <1>4, <1>5, <1>6, <1>7, <1>8, <1>9, <1>10
  DEF Next, UserPresses, TaskStep, TaskTellsCancel, TaskTellsDetach, ClientStep, ClientNotes,
      ClientLosesResponse, StdoutTakes, StderrTakes, ConnectionLost, ReaderStep

LEMMA NotedInitially == Init => Noted
  BY DEF Init, Noted, SentCancel, Acknowledgements

LEMMA StepKeepsNoted ==
  ASSUME Typed, Requested, Noted, Next
  PROVE  Noted'
<1>1. ~TaskPublishesCancel => (SentCancel' => SentCancel)
  BY CancelWasSent
<1>2. CASE UNCHANGED <<task, events, interrupt, disposition>>
  <2>1. ~TaskPublishesCancel
    BY <1>2 DEF TaskPublishesCancel
  <2> QED BY <1>1, <1>2, <2>1 DEF Noted
<1>3. CASE TaskPublishesCancel
  <2>1. /\ task = "first" /\ events = <<>> /\ interrupt = "Attached" /\ ~SentCancel
        /\ disposition = "none"
    BY <1>3 DEF TaskPublishesCancel, Noted
  <2>2. UNCHANGED <<events, interrupt, disposition>>
    BY <1>3 DEF TaskPublishesCancel, clientVars
  <2>3. task' = "queued" \/ (task' = "notQueued" /\ ~SentCancel')
    <3>1. CASE UNCHANGED outbound
      BY <1>3, <2>1, <3>1 DEF TaskPublishesCancel, SentCancel, pluginVars
    <3> QED BY <1>3, <3>1 DEF TaskPublishesCancel
  <2> QED BY <2>1, <2>2, <2>3 DEF Noted
<1>4. CASE TaskTellsCancel
  <2>1. /\ task \in {"queued", "notQueued"} /\ events = <<>> /\ task' = "second"
        /\ events' = <<IF task = "queued" THEN "Queued" ELSE "NotQueued">>
        /\ UNCHANGED <<interrupt, disposition>>
    <3>1. events = <<>>
      BY <1>4 DEF TaskTellsCancel, Noted
    <3>2. \A e : Append(<<>>, e) = <<e>>
      OBVIOUS
    <3> QED BY <1>4, <3>1, <3>2 DEF TaskTellsCancel, clientVars
  <2>2. SentCancel' => SentCancel
    BY <1>1, <2>1 DEF TaskPublishesCancel
  <2> QED BY <2>1, <2>2 DEF Noted
<1>5. CASE TaskTellsDetach
  <2>1. /\ task = "second" /\ task' = "done" /\ events' = Append(events, "Detach")
        /\ UNCHANGED <<interrupt, disposition>> /\ events \in Seq(Interrupts)
    BY <1>5 DEF TaskTellsDetach, clientVars, Typed
  <2>2. SentCancel' => SentCancel
    BY <1>1, <2>1 DEF TaskPublishesCancel
  <2>3. /\ \A i \in DOMAIN events' :
             (i \in DOMAIN events /\ events'[i] = events[i]) \/ events'[i] = "Detach"
        /\ events # <<>> => events'[1] = events[1]
        /\ events' # <<>>
    BY <2>1, SentLast DEF Interrupts
  <2> QED BY <2>1, <2>2, <2>3 DEF Noted
<1>6. CASE ClientNotes
  <2>1. /\ events # <<>> /\ events' = Tail(events) /\ UNCHANGED task
        /\ events \in Seq(Interrupts)
        /\ task \notin {"first", "queued", "notQueued"}
    BY <1>6 DEF ClientNotes, taskVars, Typed, Noted
  <2>2. /\ Head(events) = events[1] /\ Head(events) \in Interrupts /\ 1 \in DOMAIN events
        /\ \A i \in DOMAIN events' : events'[i] = events[i + 1] /\ i + 1 \in DOMAIN events
    BY <2>1, ReadFirst
  <2>3. interrupt = "Attached" => Head(events) # "Detach"
    BY <2>1, <2>2 DEF Noted, Typed
  <2>4. /\ interrupt' # "Attached"
        /\ \/ disposition' = disposition /\ interrupt # "Attached"
           \/ disposition' = Head(events)
        /\ disposition' # "none"
    BY <1>6, <2>2, <2>3 DEF ClientNotes, NotedPhase, NotedDisposition, Interrupts, Noted
  <2>5. SentCancel' => SentCancel
    BY <1>1, <2>1 DEF TaskPublishesCancel
  <2> QED BY <2>1, <2>2, <2>4, <2>5 DEF Noted
<1>7. CASE ClientReads
  <2>1. /\ events = <<>> /\ UNCHANGED <<events, task>>
        /\ wire \in Seq(WireEvents) /\ wire # <<>>
    BY <1>7 DEF ClientReads, taskVars, Typed
  <2>2. Head(wire) = wire[1] /\ Head(wire) \in WireEvents /\ 1 \in DOMAIN wire
    BY <2>1, ReadFirst
  <2>3. \/ UNCHANGED <<interrupt, disposition>>
        \/ /\ Head(wire).event \in Acknowledgements
           /\ disposition' \in {"Accepted", "TooLate"} /\ interrupt' # "Attached"
    BY <1>7, <2>2
    DEF ClientReads, LostResponse, OnAccepted, OnOutput, OnAcknowledgement, Acknowledges,
        OnFinished, FailureReport, InvalidResponse, WireEvents, EventNames, Acknowledgements,
        JobOutcomes
  <2>4. CASE Head(wire).event \in Acknowledgements
    <3>1. SentCancel
      BY <2>2, <2>4 DEF SentCancel
    <3> QED BY <1>1, <2>1, <2>3, <3>1 DEF Noted, TaskPublishesCancel
  <2>5. CASE UNCHANGED <<interrupt, disposition>>
    BY <1>2, <2>1, <2>5
  <2> QED BY <2>3, <2>4, <2>5
<1>8. CASE ClientLosesResponse
  BY <1>2, <1>8 DEF ClientLosesResponse, LostResponse, taskVars
<1>9. CASE HandlerStep
  BY <1>2, <1>9 DEF HandlerStep, Reserve, FirstMessage, FirstMessageMissing, HandlerDropped,
                    Validated, ValidatedForNobody, clientVars, taskVars
<1>10. CASE ResponseStep
  BY <1>2, <1>10 DEF ResponseStep, TerminalResponse, SendAccepted, RelayControl, RelayOutput,
                     OutputEnds, SendFinished, ResponseDropped, responseOnly, clientVars,
                     taskVars
<1>11. CASE ReaderStep \/ JobStep
  BY <1>2, <1>11 DEF ReaderStep, ReaderAnswers, ReaderEnds, JobStep, JobStarts, JobWrites,
                     JobCommits, JobFinishes, jobOnly, clientVars, taskVars
<1> QED
  BY <1>2, <1>3, <1>4, <1>5, <1>6, <1>7, <1>8, <1>9, <1>10, <1>11
  DEF Next, UserPresses, TaskStep, ClientStep, StdoutTakes, StderrTakes, Deliver,
      ConnectionLost, clientVars, taskVars
-----------------------------------------------------------------------------
(***************************************************************************)
(* The order on the wire.                                                  *)
(***************************************************************************)
LEMMA AcceptedIsFirstInitially == Init => AcceptedIsFirst
  BY DEF Init, AcceptedIsFirst

Beginning == {"none", "terminal", "SendAccepted"}
Running == {"RelayOutput", "AwaitCompletion"}

\* The response goes on without sending that the request was accepted.
LEMMA SendingInOrder ==
  ASSUME Typed, AcceptedIsFirst, UNCHANGED accepted,
         response' \in Beginning => response \in Beginning,
         response' \in Running => response \in Running,
         \/ UNCHANGED wire
         \/ \E e \in WireEvents :
              /\ e.event # "Accepted" /\ wire' = Append(wire, e)
              /\ NeedsAccepted(e) => response \in Running
  PROVE  AcceptedIsFirst'
<1> USE DEF AcceptedIsFirst, AcceptedFirst, Beginning, Running
<1>1. CASE UNCHANGED wire
  BY <1>1
<1>2. CASE \E e \in WireEvents :
              /\ e.event # "Accepted" /\ wire' = Append(wire, e)
              /\ NeedsAccepted(e) => response \in Running
  <2>1. PICK e \in WireEvents :
              /\ e.event # "Accepted" /\ wire' = Append(wire, e)
              /\ NeedsAccepted(e) => response \in Running
    BY <1>2
  <2>2. wire \in Seq(WireEvents)
    BY DEF Typed
  <2>3. /\ Len(wire') = Len(wire) + 1 /\ Len(wire) \in Nat /\ DOMAIN wire = 1..Len(wire)
        /\ \A k \in 1..Len(wire) : wire'[k] = wire[k]
        /\ \A i \in DOMAIN wire' :
             \/ i \in 1..Len(wire) /\ wire'[i] = wire[i]
             \/ i = Len(wire) + 1 /\ wire'[i] = e
    BY <2>1, <2>2, SentLast, NewEvent
  <2>4. \A i \in DOMAIN wire' : NeedsAccepted(wire'[i]) => AcceptedFirst(i)'
    <3> SUFFICES ASSUME NEW i \in DOMAIN wire', NeedsAccepted(wire'[i])
                 PROVE  accepted \/ \E k \in 1..(i - 1) : wire'[k].event = "Accepted"
      OBVIOUS
    <3>1. accepted \/ \E k \in 1..(i - 1) : wire[k].event = "Accepted"
      BY <2>1, <2>3
    <3>2. i - 1 <= Len(wire) /\ i \in Nat
      BY <2>3
    <3> QED BY <3>1, <3>2, <2>3
  <2>5. \A i \in DOMAIN wire' : wire'[i].event = "Accepted" =>
          ~accepted /\ \A k \in DOMAIN wire' : wire'[k].event = "Accepted" => i = k
    BY <2>1, <2>3
  <2>6. response' \in Running =>
          accepted \/ \E k \in 1..(Len(wire') + 1 - 1) : wire'[k].event = "Accepted"
    BY <2>3
  <2>7. response' \in Beginning =>
          ~accepted /\ \A k \in DOMAIN wire' : wire'[k].event # "Accepted"
    BY <2>1, <2>3
  <2> QED BY <2>4, <2>5, <2>6, <2>7
<1> QED BY <1>1, <1>2

LEMMA ReadsInOrder ==
  ASSUME Typed, AcceptedIsFirst, ClientReads
  PROVE  AcceptedIsFirst'
<1>1. /\ wire # <<>> /\ wire' = Tail(wire) /\ wire \in Seq(WireEvents) /\ UNCHANGED response
  BY DEF ClientReads, Typed, pluginVars
<1>2. /\ Head(wire) = wire[1] /\ Head(wire) \in WireEvents /\ 1 \in DOMAIN wire
      /\ Len(wire') = Len(wire) - 1 /\ Len(wire) \in Nat \ {0} /\ DOMAIN wire = 1..Len(wire)
      /\ DOMAIN wire' = 1..(Len(wire) - 1)
      /\ \A i \in DOMAIN wire' : wire'[i] = wire[i + 1] /\ i + 1 \in DOMAIN wire
  BY <1>1, ReadFirst
<1>3. accepted' <=> accepted \/ wire[1].event = "Accepted"
  <2>1. CASE wire[1].event = "Accepted"
    <3>1. ~accepted
      BY <1>2, <2>1 DEF AcceptedIsFirst
    <3> QED BY <1>2, <2>1, <3>1 DEF ClientReads, OnAccepted
  <2>2. CASE wire[1].event # "Accepted"
    BY <1>2, <2>2
    DEF ClientReads, LostResponse, OnOutput, OnAcknowledgement, Acknowledges,
        OnFinished, FailureReport, InvalidResponse, WireEvents, EventNames, Acknowledgements, Typed
  <2> QED BY <2>1, <2>2
<1>4. \A i \in 1..Len(wire) : AcceptedFirst(i + 1) =>
        accepted' \/ \E k \in 1..(i - 1) : wire'[k].event = "Accepted"
  <2> SUFFICES ASSUME NEW i \in 1..Len(wire), AcceptedFirst(i + 1), ~accepted'
               PROVE  \E k \in 1..(i - 1) : wire'[k].event = "Accepted"
    OBVIOUS
  <2>1. PICK k \in 1..i : wire[k].event = "Accepted"
    <3>1. ~accepted /\ i + 1 - 1 = i
      BY <1>2, <1>3
    <3> QED BY <3>1 DEF AcceptedFirst
  <2>2. k # 1
    BY <1>3, <2>1
  <2>3. k - 1 \in 1..(i - 1) /\ k - 1 \in DOMAIN wire' /\ wire'[k - 1] = wire[k]
    BY <1>2, <2>2
  <2> QED BY <2>1, <2>3
<1>5. \A i \in DOMAIN wire' : NeedsAccepted(wire'[i]) =>
        accepted' \/ \E k \in 1..(i - 1) : wire'[k].event = "Accepted"
  BY <1>2, <1>4 DEF AcceptedIsFirst
<1>6. \A i \in DOMAIN wire' : wire'[i].event = "Accepted" =>
        ~accepted' /\ \A k \in DOMAIN wire' : wire'[k].event = "Accepted" => i = k
  <2> SUFFICES ASSUME NEW i \in DOMAIN wire', wire'[i].event = "Accepted"
               PROVE  ~accepted' /\ \A k \in DOMAIN wire' : wire'[k].event = "Accepted" => i = k
    OBVIOUS
  <2>1. ~accepted /\ \A k \in DOMAIN wire : wire[k].event = "Accepted" => i + 1 = k
    BY <1>2 DEF AcceptedIsFirst
  <2> QED BY <1>2, <1>3, <2>1
<1>7. response' \in {"RelayOutput", "AwaitCompletion"} =>
        accepted' \/ \E k \in 1..(Len(wire') + 1 - 1) : wire'[k].event = "Accepted"
  BY <1>1, <1>2, <1>4 DEF AcceptedIsFirst
<1>8. response' \in {"none", "terminal", "SendAccepted"} =>
        ~accepted' /\ \A k \in DOMAIN wire' : wire'[k].event # "Accepted"
  BY <1>1, <1>2, <1>3 DEF AcceptedIsFirst
<1> QED BY <1>5, <1>6, <1>7, <1>8 DEF AcceptedIsFirst, AcceptedFirst

LEMMA StepKeepsAcceptedIsFirst ==
  ASSUME Typed, Held, AcceptedIsFirst, Next
  PROVE  AcceptedIsFirst'
<1> USE DEF clientVars, taskVars, pluginVars, jobVars, responseOnly, jobOnly
<1>1. CASE UNCHANGED <<accepted, response, wire>>
  BY <1>1 DEF AcceptedIsFirst, AcceptedFirst
<1>2. CASE HandlerStep
  <2>1. Early /\ UNCHANGED accepted
    BY <1>2 DEF HandlerStep, Reserve, FirstMessage, FirstMessageMissing, HandlerDropped,
                Validated, ValidatedForNobody, Early
  <2>2. response = "none"
    BY <2>1 DEF Held
  <2>3. response' \in Beginning
    BY <1>2, <2>2 DEF HandlerStep, Reserve, FirstMessage, FirstMessageMissing, HandlerDropped,
                      Validated, Admitted, NotAdmitted, AnswersFailure, ValidatedForNobody,
                      Beginning
  <2>4. \E e \in WireEvents :
          e.event \in {"Status", "Response"} /\ (wire' = wire \/ wire' = Append(wire, e))
    <3>1. /\ Event("Status") \in WireEvents /\ Event("Status").event = "Status"
          /\ Event("Response") \in WireEvents /\ Event("Response").event = "Response"
      BY EventIsEvent DEF EventNames
    <3> QED
      BY <1>2, <3>1
      DEF HandlerStep, Reserve, FirstMessage, FirstMessageMissing, HandlerDropped, Validated,
          Admitted, NotAdmitted, AnswersFailure, ValidatedForNobody, Sends
  <2> QED
    BY <2>1, <2>2, <2>3, <2>4, SendingInOrder
    DEF Beginning, Running, NeedsAccepted, Acknowledgements
<1>3. CASE SendAccepted
  <2>1. /\ wire \in Seq(WireEvents) /\ Event("Accepted") \in WireEvents
        /\ Event("Accepted").event = "Accepted"
    BY EventIsEvent DEF Typed, EventNames
  <2>2. /\ ~accepted /\ \A k \in DOMAIN wire : wire[k].event # "Accepted"
        /\ UNCHANGED accepted /\ wire' = Append(wire, Event("Accepted"))
        /\ response' = "RelayOutput"
    BY <1>3 DEF SendAccepted, AcceptedIsFirst, Sends
  <2>3. /\ Len(wire') = Len(wire) + 1 /\ Len(wire) \in Nat /\ DOMAIN wire = 1..Len(wire)
        /\ wire'[Len(wire) + 1] = Event("Accepted")
        /\ \A i \in DOMAIN wire' :
             \/ i \in 1..Len(wire) /\ wire'[i] = wire[i]
             \/ i = Len(wire) + 1 /\ wire'[i] = Event("Accepted")
    BY <2>1, <2>2, SentLast, NewEvent
  <2>4. \A i \in 1..Len(wire) : ~NeedsAccepted(wire[i])
    BY <2>2, <2>3 DEF AcceptedIsFirst, AcceptedFirst
  <2>5. ~NeedsAccepted(Event("Accepted"))
    BY <2>1 DEF NeedsAccepted, Acknowledgements
  <2>6. accepted' \/ \E k \in 1..(Len(wire') + 1 - 1) : wire'[k].event = "Accepted"
    BY <2>1, <2>3
  <2> QED BY <2>1, <2>2, <2>3, <2>4, <2>5, <2>6 DEF AcceptedIsFirst, AcceptedFirst
<1>4. CASE ResponseStep /\ ~SendAccepted
  <2>1. /\ UNCHANGED accepted
        /\ response' \in Beginning => response \in Beginning
        /\ response' \in Running => response \in Running
    BY <1>4 DEF ResponseStep, TerminalResponse, RelayControl, RelayOutput, OutputEnds,
                SendFinished, ResponseDropped, Relaying, Beginning, Running
  <2>2. CASE TerminalResponse
    <3>1. /\ Finished("NotStarted") \in WireEvents
          /\ Finished("NotStarted").event = "Finished"
          /\ Finished("NotStarted").what = "NotStarted"
      BY EventIsEvent DEF JobOutcomes
    <3>2. wire' = Append(wire, Finished("NotStarted"))
      BY <2>2 DEF TerminalResponse, Sends
    <3> QED BY <2>1, <3>1, <3>2, SendingInOrder DEF NeedsAccepted, Acknowledgements
  <2>3. CASE RelayControl /\ control # <<>>
    <3>1. Head(control) \in Acknowledgements \cup {"Status"}
      BY <2>3, ReadFirst DEF Typed
    <3>2. /\ Event(Head(control)) \in WireEvents
          /\ Event(Head(control)).event # "Accepted"
      BY <3>1, EventIsEvent DEF EventNames, Acknowledgements
    <3>3. wire' = Append(wire, Event(Head(control))) /\ response \in Running
      BY <2>3 DEF RelayControl, Relaying, Running, Sends
    <3> QED BY <2>1, <3>2, <3>3, SendingInOrder
  <2>4. CASE RelayOutput
    <3>1. Event("Output") \in WireEvents /\ Event("Output").event # "Accepted"
      BY EventIsEvent DEF EventNames
    <3>2. wire' = Append(wire, Event("Output")) /\ response \in Running
      BY <2>4 DEF RelayOutput, Relaying, Running, Sends
    <3> QED BY <2>1, <3>1, <3>2, SendingInOrder
  <2>5. CASE SendFinished
    <3>1. Finished(outcome) \in WireEvents /\ Finished(outcome).event # "Accepted"
      BY <2>5, EventIsEvent DEF SendFinished, Typed
    <3>2. wire' = Append(wire, Finished(outcome)) /\ response \in Running
      BY <2>5 DEF SendFinished, Relaying, Running, Sends
    <3> QED BY <2>1, <3>1, <3>2, SendingInOrder
  <2>6. CASE UNCHANGED wire
    BY <2>1, <2>6, SendingInOrder
  <2> QED
    BY <1>4, <2>2, <2>3, <2>4, <2>5, <2>6
    DEF ResponseStep, RelayControl, OutputEnds, ResponseDropped
<1>5. CASE ClientNotes \/ ClientLosesResponse
  BY <1>1, <1>5 DEF ClientNotes, ClientLosesResponse, LostResponse
<1> QED
  BY <1>1, <1>2, <1>3, <1>4, <1>5, ReadsInOrder
  DEF Next, UserPresses, TaskStep, TaskPublishesCancel, TaskTellsCancel, TaskTellsDetach,
      ClientStep, StdoutTakes, StderrTakes, Deliver, ConnectionLost, ReaderStep, ReaderAnswers,
      ReaderEnds, JobStep, JobStarts, JobWrites, JobCommits, JobFinishes
-----------------------------------------------------------------------------
(***************************************************************************)
(* One answer to a cancel.                                                 *)
(***************************************************************************)
Answered == disposition \in {"Accepted", "TooLate"}

LEMMA AnsweredOnceInitially == Init => AnsweredOnce
  BY DEF Init, AnsweredOnce

\* The wire loses an event, or gets one that answers nothing.
LEMMA NoNewAnswer ==
  ASSUME Typed, AnsweredOnce,
         control' = control \/ control' \in {<<>>, <<"Status">>},
         reader' \in {"none", "reading"} => control' = <<>>,
         reader \in {"answered", "done"} => reader' \in {"answered", "done"},
         Answered' => Answered,
         \/ UNCHANGED wire
         \/ \E e \in WireEvents : e.event \notin Acknowledgements /\ wire' = Append(wire, e)
         \/ wire # <<>> /\ wire' = Tail(wire)
  PROVE  AnsweredOnce'
<1>1. wire \in Seq(WireEvents) /\ Len(control) \in Nat
  BY DEF Typed
<1>2. /\ Len(control') <= 1
      /\ control' = control \/ \A k \in DOMAIN control' : control'[k] = "Status"
  <2>1. CASE control' = control
    BY <2>1 DEF AnsweredOnce
  <2>2. CASE control' = <<>>
    <3>1. Len(<<>>) = 0 /\ DOMAIN <<>> = {}
      BY <1>1, NothingSent
    <3> QED BY <2>2, <3>1
  <2>3. CASE control' = <<"Status">>
    BY <2>3
  <2> QED BY <2>1, <2>2, <2>3
<1>3. \E shift \in {0, 1} : \A i \in DOMAIN wire' : wire'[i].event \in Acknowledgements =>
        i \in Nat /\ i + shift \in DOMAIN wire /\ wire'[i] = wire[i + shift]
  <2>1. CASE wire' = wire
    BY <1>1, <2>1
  <2>2. CASE \E e \in WireEvents : e.event \notin Acknowledgements /\ wire' = Append(wire, e)
    <3>1. PICK e \in WireEvents : e.event \notin Acknowledgements /\ wire' = Append(wire, e)
      BY <2>2
    <3>2. \A i \in DOMAIN wire' : wire'[i].event \in Acknowledgements =>
            i \in DOMAIN wire /\ wire'[i] = wire[i]
      BY <1>1, <3>1, NewEvent
    <3>3. \A i \in DOMAIN wire : i \in Nat /\ i + 0 = i
      BY <1>1
    <3> QED BY <3>2, <3>3
  <2>3. CASE wire # <<>> /\ wire' = Tail(wire)
    <3>1. \A i \in DOMAIN wire' : wire'[i] = wire[i + 1] /\ i + 1 \in DOMAIN wire /\ i \in Nat
      BY <1>1, <2>3, ReadFirst
    <3> QED BY <3>1
  <2> QED BY <2>1, <2>2, <2>3
<1>4. PICK shift \in {0, 1} : \A i \in DOMAIN wire' : wire'[i].event \in Acknowledgements =>
        i \in Nat /\ i + shift \in DOMAIN wire /\ wire'[i] = wire[i + shift]
  BY <1>3
<1>5. \A i, k \in DOMAIN wire' :
        wire'[i].event \in Acknowledgements /\ wire'[k].event \in Acknowledgements => i = k
  <2> SUFFICES ASSUME NEW i \in DOMAIN wire', NEW k \in DOMAIN wire',
                      wire'[i].event \in Acknowledgements, wire'[k].event \in Acknowledgements
               PROVE  i = k
    OBVIOUS
  <2>1. i + shift = k + shift
    BY <1>4 DEF AnsweredOnce
  <2>2. i \in Nat /\ k \in Nat /\ shift \in {0, 1}
    BY <1>4
  <2> QED BY <2>1, <2>2
<1>6. \A i \in DOMAIN wire' : wire'[i].event \in Acknowledgements =>
        /\ \A k \in DOMAIN control' : control'[k] \notin Acknowledgements
        /\ ~Answered'
        /\ reader' \in {"answered", "done"}
  BY <1>2, <1>4 DEF AnsweredOnce, Answered, Acknowledgements
<1>7. \A k \in DOMAIN control' : control'[k] \in Acknowledgements => ~Answered'
  BY <1>2 DEF AnsweredOnce, Answered, Acknowledgements
<1>8. Answered' => reader' \in {"answered", "done"}
  BY DEF AnsweredOnce, Answered
<1> QED BY <1>2, <1>5, <1>6, <1>7, <1>8 DEF AnsweredOnce, Answered

LEMMA StepKeepsAnsweredOnce ==
  ASSUME Typed, Held, AnsweredOnce, Next
  PROVE  AnsweredOnce'
<1> USE DEF clientVars, taskVars, pluginVars, jobVars, responseOnly, jobOnly
<1>1. CASE UNCHANGED <<control, reader, disposition, wire>>
  BY <1>1 DEF AnsweredOnce
<1>2. CASE ClientNotes
  <2>1. Head(events) \in Interrupts
    BY <1>2, ReadFirst DEF ClientNotes, Typed
  <2>2. UNCHANGED <<control, reader, wire>> /\ (Answered' => Answered)
    BY <1>2, <2>1 DEF ClientNotes, NotedDisposition, Interrupts, Answered
  <2> QED BY <2>2, NoNewAnswer DEF AnsweredOnce
<1>3. CASE ClientReads
  <2>1. /\ UNCHANGED <<control, reader>> /\ wire # <<>> /\ wire' = Tail(wire)
        /\ wire \in Seq(WireEvents)
    BY <1>3 DEF ClientReads, Typed
  <2>2. /\ Head(wire) = wire[1] /\ Head(wire) \in WireEvents /\ 1 \in DOMAIN wire
        /\ \A i \in DOMAIN wire' : /\ wire'[i] = wire[i + 1] /\ i + 1 \in DOMAIN wire
                                   /\ i + 1 # 1
    BY <2>1, ReadFirst
  <2>3. CASE Head(wire).event \in Acknowledgements
    <3>1. /\ \A i \in DOMAIN wire' : wire'[i].event \notin Acknowledgements
          /\ \A k \in DOMAIN control : control[k] \notin Acknowledgements
          /\ reader \in {"answered", "done"}
      BY <2>2, <2>3 DEF AnsweredOnce
    <3> QED BY <2>1, <3>1 DEF AnsweredOnce
  <2>4. CASE Head(wire).event \notin Acknowledgements
    <3>1. UNCHANGED disposition
      BY <1>3, <2>2, <2>4
      DEF ClientReads, LostResponse, OnAccepted, OnOutput, OnFinished, FailureReport,
          InvalidResponse, WireEvents, EventNames, Acknowledgements, JobOutcomes
    <3> QED BY <2>1, <3>1, NoNewAnswer DEF AnsweredOnce, Answered
  <2> QED BY <2>3, <2>4
<1>4. CASE ClientLosesResponse
  BY <1>1, <1>4 DEF ClientLosesResponse, LostResponse
<1>5. CASE HandlerStep
  <2>1. reader = "none" /\ UNCHANGED <<control, disposition>> /\ reader' \in {"none", "reading"}
    BY <1>5 DEF HandlerStep, Reserve, FirstMessage, FirstMessageMissing, HandlerDropped,
                Validated, Admitted, NotAdmitted, AnswersFailure, ValidatedForNobody, Held, Early
  <2>2. \E e \in WireEvents :
          e.event \notin Acknowledgements /\ (wire' = wire \/ wire' = Append(wire, e))
    <3>1. /\ Event("Status") \in WireEvents /\ Event("Status").event = "Status"
          /\ Event("Response") \in WireEvents /\ Event("Response").event = "Response"
      BY EventIsEvent DEF EventNames
    <3> QED
      BY <1>5, <3>1
      DEF HandlerStep, Reserve, FirstMessage, FirstMessageMissing, HandlerDropped, Validated,
          Admitted, NotAdmitted, AnswersFailure, ValidatedForNobody, Sends, Acknowledgements
  <2>3. control = <<>>
    BY <2>1 DEF AnsweredOnce
  <2> QED BY <2>1, <2>2, <2>3, NoNewAnswer DEF Answered
<1>6. CASE RelayControl /\ control # <<>>
  <2>1. /\ wire \in Seq(WireEvents) /\ control \in Seq(Acknowledgements \cup {"Status"})
        /\ UNCHANGED <<reader, disposition>>
        /\ control' = Tail(control) /\ wire' = Append(wire, Event(Head(control)))
    BY <1>6 DEF RelayControl, Sends, Typed
  <2>2. /\ Head(control) = control[1] /\ 1 \in DOMAIN control
        /\ Head(control) \in Acknowledgements \cup {"Status"}
        /\ Len(control') = Len(control) - 1 /\ Len(control) \in Nat \ {0}
        /\ control' \in Seq(Acknowledgements \cup {"Status"})
    BY <1>6, <2>1, ReadFirst
  <2>3. control' = <<>> /\ reader \in {"answered", "done"}
    <3>1. Len(control') = 0
      BY <2>2 DEF AnsweredOnce
    <3>2. control' = <<>>
      BY <2>2, <3>1, NothingSent
    <3> QED BY <1>6, <3>2 DEF AnsweredOnce, Typed
  <2>4. /\ Event(Head(control)) \in WireEvents
        /\ Event(Head(control)).event = control[1]
    BY <2>2, EventIsEvent DEF EventNames, Acknowledgements
  <2>5. CASE control[1] \in Acknowledgements
    <3>1. /\ \A i \in DOMAIN wire : wire[i].event \notin Acknowledgements
          /\ ~Answered
      BY <2>2, <2>5 DEF AnsweredOnce, Answered
    <3>2. \A i \in DOMAIN wire' : wire'[i].event \in Acknowledgements => i = Len(wire) + 1
      BY <2>1, <2>4, <3>1, NewEvent
    <3> QED BY <2>1, <2>3, <3>1, <3>2 DEF AnsweredOnce, Answered
  <2>6. CASE control[1] \notin Acknowledgements
    BY <2>1, <2>3, <2>4, <2>6, NoNewAnswer DEF Answered
  <2> QED BY <2>5, <2>6
<1>7. CASE ResponseStep /\ ~(RelayControl /\ control # <<>>)
  <2>1. /\ UNCHANGED <<control, disposition>>
        /\ reader' = reader \/ (reader' = "done" /\ response # "none")
    BY <1>7 DEF ResponseStep, TerminalResponse, SendAccepted, RelayControl, RelayOutput,
                OutputEnds, SendFinished, ResponseDropped, Relaying
  <2>2. \E e \in WireEvents :
          e.event \notin Acknowledgements /\ (wire' = wire \/ wire' = Append(wire, e))
    <3>1. /\ Event("Accepted") \in WireEvents /\ Event("Accepted").event = "Accepted"
          /\ Event("Output") \in WireEvents /\ Event("Output").event = "Output"
      BY EventIsEvent DEF EventNames
    <3>2. \A what \in JobOutcomes : Finished(what) \in WireEvents
                                    /\ Finished(what).event = "Finished"
      BY EventIsEvent
    <3>3. SendFinished => outcome \in JobOutcomes
      BY DEF SendFinished, Typed
    <3> QED
      BY <1>7, <3>1, <3>2, <3>3
      DEF ResponseStep, TerminalResponse, SendAccepted, RelayControl, RelayOutput, OutputEnds,
          SendFinished, ResponseDropped, Sends, JobOutcomes, Acknowledgements
  <2> QED BY <2>1, <2>2, NoNewAnswer DEF AnsweredOnce, Answered
<1>8. CASE ReaderAnswers
  <2>1. /\ reader = "reading" /\ reader' = "answered" /\ UNCHANGED <<wire, disposition>>
        /\ \E answer \in Acknowledgements : control' = <<answer>>
    BY <1>8 DEF ReaderAnswers, Acknowledgements
  <2>2. /\ \A i \in DOMAIN wire : wire[i].event \notin Acknowledgements
        /\ ~Answered
    BY <2>1 DEF AnsweredOnce, Answered
  <2> QED BY <2>1, <2>2 DEF AnsweredOnce, Answered
<1>9. CASE ReaderEnds
  <2>1. /\ reader' = "done" /\ UNCHANGED <<wire, disposition>>
        /\ control' \in {control, <<"Status">>}
    BY <1>9 DEF ReaderEnds
  <2> QED BY <2>1, NoNewAnswer DEF Answered
<1> QED
  BY <1>1, <1>2, <1>3, <1>4, <1>5, <1>6, <1>7, <1>8, <1>9
  DEF Next, UserPresses, TaskStep, TaskPublishesCancel, TaskTellsCancel, TaskTellsDetach,
      ClientStep, StdoutTakes, StderrTakes, Deliver, ConnectionLost, ReaderStep,
      JobStep, JobStarts, JobWrites, JobCommits, JobFinishes
-----------------------------------------------------------------------------
(***************************************************************************)
(* The client and the stream agree on what may come next.                  *)
(***************************************************************************)
LEMMA StepKeepsValid ==
  ASSUME Typed, Noted, AcceptedIsFirst, AnsweredOnce, NoInvalidResponse, Next
  PROVE  NoInvalidResponse'
<1> USE DEF clientVars, taskVars, pluginVars, jobVars, responseOnly, jobOnly
<1>1. CASE UNCHANGED exit
  BY <1>1 DEF NoInvalidResponse
<1>2. CASE ClientReads
  <2>1. /\ Head(wire) = wire[1] /\ Head(wire) \in WireEvents /\ 1 \in DOMAIN wire
    BY <1>2, ReadFirst DEF ClientReads, Typed
  <2>2. NeedsAccepted(Head(wire)) => accepted
    <3>1. AcceptedFirst(1) => accepted
      BY DEF AcceptedFirst
    <3> QED BY <2>1, <3>1 DEF AcceptedIsFirst
  <2>3. Head(wire).event = "Accepted" => ~accepted
    BY <2>1 DEF AcceptedIsFirst
  <2>4. Head(wire).event \in Acknowledgements =>
          accepted /\ (interrupt = "Attached" \/ disposition = "Queued")
    <3>1. SUFFICES ASSUME Head(wire).event \in Acknowledgements
                   PROVE  accepted /\ (interrupt = "Attached" \/ disposition = "Queued")
      OBVIOUS
    <3>2. disposition \notin {"Accepted", "TooLate"}
      BY <2>1, <3>1 DEF AnsweredOnce
    <3>3. SentCancel
      BY <2>1, <3>1 DEF SentCancel
    <3>4. disposition # "NotQueued" /\ (disposition = "none" <=> interrupt = "Attached")
      BY <3>3 DEF Noted
    <3>5. disposition \in Dispositions \cup {"none"}
      BY DEF Typed
    <3> QED BY <2>2, <3>1, <3>2, <3>4, <3>5 DEF NeedsAccepted, Dispositions
  <2>5. Head(wire).event = "Output" => accepted
    BY <2>2 DEF NeedsAccepted
  <2>6. Head(wire).event = "Finished" /\ Head(wire).what \in {"Success", "Cancelled"} => accepted
    BY <2>2 DEF NeedsAccepted
  <2>7. CASE Head(wire).event \in Acknowledgements
    <3>1. /\ accepted /\ (interrupt = "Attached" \/ disposition = "Queued")
          /\ \E d \in {"Accepted", "TooLate"} : OnAcknowledgement(d)
      BY <1>2, <2>4, <2>7 DEF ClientReads, Acknowledgements
    <3> QED
      BY <3>1 DEF OnAcknowledgement, Acknowledges, Ends, NoInvalidResponse
  <2>8. CASE Head(wire).event = "Finished"
    <3>1. OnFinished(Head(wire).what)
      BY <1>2, <2>8 DEF ClientReads
    <3>2. Head(wire).what \in JobOutcomes
      BY <2>1, <2>8 DEF WireEvents, EventNames
    <3> QED
      BY <2>6, <2>8, <3>1, <3>2
      DEF OnFinished, FailureReport, Reports, Ends, NoInvalidResponse, JobOutcomes
  <2>9. CASE Head(wire).event \notin Acknowledgements \cup {"Finished"}
    BY <1>2, <2>1, <2>3, <2>5, <2>9
    DEF ClientReads, LostResponse, OnAccepted, OnOutput, Reports, Ends, NoInvalidResponse,
        WireEvents, EventNames, Acknowledgements
  <2> QED BY <2>7, <2>8, <2>9
<1>3. CASE ClientNotes \/ ClientLosesResponse \/ StdoutTakes
  BY <1>3 DEF ClientNotes, ClientLosesResponse, LostResponse, StdoutTakes, Reports, Ends,
              NoInvalidResponse
<1> QED
  BY <1>1, <1>2, <1>3
  DEF Next, UserPresses, TaskStep, TaskPublishesCancel, TaskTellsCancel, TaskTellsDetach,
      ClientStep, StderrTakes, Deliver, ConnectionLost, HandlerStep, Reserve, FirstMessage,
      FirstMessageMissing, HandlerDropped, Validated, ValidatedForNobody, ResponseStep,
      TerminalResponse, SendAccepted, RelayControl, RelayOutput, OutputEnds, SendFinished,
      ResponseDropped, ReaderStep, ReaderAnswers, ReaderEnds, JobStep, JobStarts, JobWrites,
      JobCommits, JobFinishes
-----------------------------------------------------------------------------
(***************************************************************************)
(* No chunk is lost.                                                       *)
(***************************************************************************)
LEMMA NoOutputs == Outputs(<<>>) = 0
<1>1. {i \in DOMAIN <<>> : <<>>[i].event = "Output"} = {}
  OBVIOUS
<1> QED BY <1>1, FS_EmptySet DEF Outputs

LEMMA PrintingInitially == Init => Printing
  BY NoOutputs DEF Init, Printing

\* The plugin's steps that move no chunk.
LEMMA PrintingUndisturbed ==
  ASSUME Typed, Printing,
         UNCHANGED <<cli, interrupt, exit, printed, written, buffered>>,
         \/ UNCHANGED wire
         \/ \E e \in WireEvents : e.event # "Output" /\ wire' = Append(wire, e)
  PROVE  Printing'
<1>1. Outputs(wire') = Outputs(wire)
  <2>1. CASE UNCHANGED wire
    BY <2>1
  <2>2. CASE \E e \in WireEvents : e.event # "Output" /\ wire' = Append(wire, e)
    <3>1. PICK e \in WireEvents : e.event # "Output" /\ wire' = Append(wire, e)
      BY <2>2
    <3>2. wire \in Seq(WireEvents)
      BY DEF Typed
    <3>3. Outputs(wire) \in Nat /\ Outputs(Append(wire, e)) = Outputs(wire) + 0
      BY <3>1, <3>2, OutputsSent
    <3> QED BY <3>1, <3>3
  <2> QED BY <2>1, <2>2
<1>2. Printing' <=>
        /\ interrupt' = "Attached" /\ cli' \in {"starting", "reading", "writing"} =>
             printed' + (IF cli' = "writing" THEN 1 ELSE 0) + Outputs(wire') + buffered' = written'
        /\ exit' = "success" => printed' = written'
  BY DEF Printing, Outputs
<1> QED BY <1>1, <1>2 DEF Printing

LEMMA ReadingKeepsPrinting ==
  ASSUME Typed, Closed, Printing, ClientReads
  PROVE  Printing'
<1>1. /\ wire \in Seq(WireEvents) /\ Head(wire) \in WireEvents
      /\ 1 \in DOMAIN wire /\ Head(wire) = wire[1] /\ Len(wire) \in Nat
      /\ wire' = Tail(wire) /\ Tail(wire) \in Seq(WireEvents) /\ Len(Tail(wire)) = Len(wire) - 1
  BY ReadFirst DEF ClientReads, Typed
<1>2. Outputs(wire) = Outputs(wire') + (IF Head(wire).event = "Output" THEN 1 ELSE 0)
  BY <1>1, OutputsRead DEF ClientReads
<1>3. Outputs(wire') \in Nat
  BY <1>1, OutputsSent, EventIsEvent DEF EventNames
<1>4. /\ cli \in {"starting", "reading"} /\ exit = "none"
      /\ UNCHANGED <<printed, buffered, written>>
  BY DEF ClientReads, Closed, jobVars
<1>5. SUFFICES
        /\ interrupt' = "Attached" /\ cli' \in {"starting", "reading", "writing"} =>
             printed + (IF cli' = "writing" THEN 1 ELSE 0) + Outputs(wire') + buffered = written
        /\ exit' = "success" => printed = written
  BY <1>4 DEF Printing, Outputs
<1>6. ASSUME interrupt' = "Attached", cli' \in {"starting", "reading", "writing"}
      PROVE  printed + (IF cli' = "writing" THEN 1 ELSE 0) + Outputs(wire') + buffered = written
  <2>1. interrupt = "Attached"
        /\ (cli' = "writing" <=> Head(wire).event = "Output")
    BY <1>1, <1>4, <1>6
    DEF ClientReads, LostResponse, OnAccepted, OnOutput, OnAcknowledgement, Acknowledges,
        OnFinished, FailureReport, InvalidResponse, Reports, Ends, CancellationRequested,
        WireEvents, EventNames, Acknowledgements, JobOutcomes
  <2>2. printed + Outputs(wire) + buffered = written
    BY <1>2, <1>3, <1>4, <2>1 DEF Printing, Typed
  <2> QED BY <1>2, <1>3, <2>1, <2>2 DEF Typed
<1>7. ASSUME exit' = "success"
      PROVE  printed = written
  <2>1. /\ Head(wire).event = "Finished" /\ Head(wire).what = "Success"
        /\ interrupt = "Attached"
    BY <1>1, <1>4, <1>7
    DEF ClientReads, LostResponse, OnAccepted, OnOutput, OnAcknowledgement, Acknowledges,
        OnFinished, FailureReport, InvalidResponse, Reports, Ends, CancellationRequested,
        WireEvents, EventNames, Acknowledgements, JobOutcomes
  <2>2. Len(wire) = 1 /\ buffered = 0
    BY <1>1, <2>1 DEF Closed
  <2>3. wire' = <<>>
    BY <1>1, <2>2, NothingSent
  <2>4. Outputs(wire) = 0
    BY <1>2, <2>1, <2>3, NoOutputs
  <2> QED BY <1>4, <2>1, <2>2, <2>4 DEF Printing, Typed
<1> QED BY <1>6, <1>7

LEMMA StepKeepsPrinting ==
  ASSUME Typed, Held, Closed, Noted, Printing, Next
  PROVE  Printing'
<1> USE DEF clientVars, taskVars, pluginVars, jobVars, responseOnly, jobOnly
<1>1. Outputs(wire) \in Nat
  <2>1. wire \in Seq(WireEvents) /\ Event("Accepted") \in WireEvents
    BY EventIsEvent DEF Typed, EventNames
  <2> QED BY <2>1, OutputsSent
<1>2. Printing' <=>
        /\ interrupt' = "Attached" /\ cli' \in {"starting", "reading", "writing"} =>
             printed' + (IF cli' = "writing" THEN 1 ELSE 0) + Outputs(wire') + buffered' = written'
        /\ exit' = "success" => printed' = written'
  BY DEF Printing, Outputs
<1>3. CASE UNCHANGED <<cli, interrupt, exit, printed, written, buffered, wire>>
  BY <1>3, PrintingUndisturbed
<1>4. CASE ClientNotes
  <2>1. Head(events) = events[1] /\ Head(events) \in Interrupts
    BY <1>4, ReadFirst DEF ClientNotes, Typed
  <2>2. interrupt = "Attached" => Head(events) # "Detach"
    BY <1>4, <2>1 DEF ClientNotes, Noted, Typed
  <2>3. interrupt' # "Attached"
    BY <1>4, <2>1, <2>2 DEF ClientNotes, NotedPhase
  <2>4. exit' = "success" => exit = "success"
    BY <1>4 DEF ClientNotes
  <2> QED BY <1>2, <1>4, <2>3, <2>4 DEF ClientNotes, Printing
<1>5. CASE ClientReads
  BY <1>5, ReadingKeepsPrinting
<1>6. CASE ClientLosesResponse
  BY <1>2, <1>6 DEF ClientLosesResponse, LostResponse, Reports, Ends, Printing, Closed
<1>7. CASE StdoutTakes
  <2>1. exit = "none" /\ UNCHANGED <<wire, written, buffered, interrupt>>
    BY <1>7 DEF StdoutTakes, Closed
  <2>2. CASE cli' = "reading" /\ printed' = printed + 1 /\ UNCHANGED exit
    <3>1. interrupt = "Attached" => printed + 1 + Outputs(wire) + buffered = written
      BY <1>7 DEF StdoutTakes, Printing
    <3>2. Outputs(wire') = Outputs(wire)
      BY <2>1
    <3> QED BY <1>1, <1>2, <2>1, <2>2, <3>1, <3>2 DEF Typed
  <2>3. CASE Reports("outputFailed")
    BY <1>2, <2>3 DEF Reports
  <2> QED BY <1>7, <2>2, <2>3 DEF StdoutTakes
<1>8. CASE StderrTakes
  BY <1>2, <1>8 DEF StderrTakes, Printing
<1>9. CASE HandlerStep
  <2>1. /\ Event("Status") \in WireEvents /\ Event("Status").event = "Status"
        /\ Event("Response") \in WireEvents /\ Event("Response").event = "Response"
    BY EventIsEvent DEF EventNames
  <2>2. UNCHANGED <<cli, interrupt, exit, printed, written, buffered>>
    BY <1>9
    DEF HandlerStep, Reserve, FirstMessage, FirstMessageMissing, HandlerDropped, Validated,
        Admitted, NotAdmitted, AnswersFailure, ValidatedForNobody
  <2>3. \/ UNCHANGED wire
        \/ wire' = Append(wire, Event("Status")) \/ wire' = Append(wire, Event("Response"))
    BY <1>9
    DEF HandlerStep, Reserve, FirstMessage, FirstMessageMissing, HandlerDropped, Validated,
        Admitted, NotAdmitted, AnswersFailure, ValidatedForNobody, Sends
  <2> QED BY <2>1, <2>2, <2>3, PrintingUndisturbed
<1>10. CASE RelayOutput
  <2>1. /\ Event("Output") \in WireEvents /\ Event("Output").event = "Output"
        /\ wire \in Seq(WireEvents)
    BY EventIsEvent DEF EventNames, Typed
  <2>2. /\ buffered' = buffered - 1 /\ wire' = Append(wire, Event("Output"))
        /\ UNCHANGED <<cli, interrupt, exit, printed, written>>
    BY <1>10 DEF RelayOutput, Sends
  <2>3. Outputs(wire') = Outputs(wire) + 1
    BY <2>1, <2>2, OutputsSent
  <2>4. /\ interrupt = "Attached" /\ cli \in {"starting", "reading", "writing"} =>
             printed + (IF cli = "writing" THEN 1 ELSE 0) + Outputs(wire) + buffered = written
        /\ exit = "success" => printed = written
    BY DEF Printing
  <2>5. printed \in Nat /\ written \in Nat /\ buffered \in Nat
    BY DEF Typed
  <2> QED BY <1>1, <1>2, <2>2, <2>3, <2>4, <2>5
<1>11. CASE ResponseStep /\ ~RelayOutput
  <2>1. UNCHANGED <<cli, interrupt, exit, printed, written, buffered>>
    BY <1>11
    DEF ResponseStep, TerminalResponse, SendAccepted, RelayControl, OutputEnds, SendFinished,
        ResponseDropped
  <2>2. /\ Event("Accepted") \in WireEvents /\ Event("Accepted").event # "Output"
        /\ \A name \in Acknowledgements \cup {"Status"} :
             Event(name) \in WireEvents /\ Event(name).event # "Output"
    BY EventIsEvent DEF EventNames, Acknowledgements
  <2>3. \A what \in JobOutcomes :
          Finished(what) \in WireEvents /\ Finished(what).event # "Output"
    BY EventIsEvent
  <2>4. control # <<>> => Head(control) \in Acknowledgements \cup {"Status"}
    BY ReadFirst DEF Typed
  <2>5. job = "finished" => outcome \in JobOutcomes
    BY DEF Typed
  <2>6. \/ UNCHANGED wire
        \/ wire' = Append(wire, Event("Accepted"))
        \/ wire' = Append(wire, Finished("NotStarted"))
        \/ control # <<>> /\ wire' = Append(wire, Event(Head(control)))
        \/ job = "finished" /\ wire' = Append(wire, Finished(outcome))
    BY <1>11
    DEF ResponseStep, TerminalResponse, SendAccepted, RelayControl, OutputEnds, SendFinished,
        ResponseDropped, Sends
  <2>7. "NotStarted" \in JobOutcomes
    BY DEF JobOutcomes
  <2> QED BY <2>1, <2>2, <2>3, <2>4, <2>5, <2>6, <2>7, PrintingUndisturbed
<1>12. CASE JobWrites
  <2>1. /\ written' = written + 1 /\ buffered' = buffered + 1
        /\ UNCHANGED <<cli, interrupt, exit, printed, wire>>
        /\ exit # "success"
    BY <1>12 DEF JobWrites, Closed
  <2>2. interrupt = "Attached" /\ cli \in {"starting", "reading", "writing"} =>
          printed + (IF cli = "writing" THEN 1 ELSE 0) + Outputs(wire) + buffered = written
    BY DEF Printing
  <2>3. Outputs(wire') = Outputs(wire)
    BY <2>1
  <2>4. printed \in Nat /\ written \in Nat /\ buffered \in Nat
    BY DEF Typed
  <2> QED BY <1>1, <1>2, <2>1, <2>2, <2>3, <2>4
<1> QED
  BY <1>3, <1>4, <1>5, <1>6, <1>7, <1>8, <1>9, <1>10, <1>11, <1>12
  DEF Next, UserPresses, TaskStep, TaskPublishesCancel, TaskTellsCancel, TaskTellsDetach,
      ClientStep, Deliver, ConnectionLost, ReaderStep, ReaderAnswers, ReaderEnds, JobStep,
      JobStarts, JobCommits, JobFinishes
-----------------------------------------------------------------------------
LEMMA InitInv == Init => Inv
  BY TypedInitially, HeldInitially, AcknowledgedInitially, ClosedInitially, PrintingInitially,
     RequestedInitially, NotedInitially, AcceptedIsFirstInitially, AnsweredOnceInitially
  DEF Inv, Init, NoInvalidResponse

LEMMA StutteringKeepsInv ==
  ASSUME Inv, UNCHANGED vars
  PROVE  Inv'
<1> USE DEF Inv, vars, clientVars, taskVars, pluginVars, jobVars
<1>1. Typed' /\ Held' /\ Requested' /\ NoInvalidResponse'
  BY DEF Typed, Held, Early, Live, Requested, NoInvalidResponse
<1>2. Acknowledged' /\ Closed' /\ Printing'
  BY DEF Acknowledged, Holds, Closed, Early, Printing, Outputs
<1>3. Noted' /\ AcceptedIsFirst' /\ AnsweredOnce'
  BY DEF Noted, SentCancel, AcceptedIsFirst, AcceptedFirst, NeedsAccepted, AnsweredOnce
<1> QED BY <1>1, <1>2, <1>3

LEMMA NextKeepsInv == Inv /\ [Next]_vars => Inv'
<1>1. ASSUME Inv, Next PROVE Inv'
  BY <1>1, StepKeepsTypes, StepKeepsHeld, StepKeepsAcknowledged, StepKeepsClosed,
     StepKeepsPrinting, StepKeepsRequested, StepKeepsNoted, StepKeepsAcceptedIsFirst,
     StepKeepsAnsweredOnce, StepKeepsValid
  DEF Inv
<1> QED BY <1>1, StutteringKeepsInv

\* The invariant of the session: what is true of every message for as long as it
\* is on its way between execute_code, ExecRpc::execute and the scheduler's job.
THEOREM Invariance == Spec => []Inv
  BY InitInv, NextKeepsInv, PTL DEF Spec

-----------------------------------------------------------------------------
\* The reservation of an execution stream is held exactly while a request is
\* read, checked, queued or run, whatever becomes of the stream (rpc/exec.rs).
THEOREM ReservationExact == Spec => []ReservedWhileLive
<1>1. Inv => ReservedWhileLive
  BY DEF Inv, Typed, Held, Early, Live, ReservedWhileLive
<1> QED BY <1>1, Invariance, PTL

\* The acknowledgement the client noted is what cancel_execution decided, and
\* what the end of the job agrees with.
THEOREM AcknowledgementsTrue == Spec => []TruthfulAcknowledgement
<1>1. Inv => TruthfulAcknowledgement
  BY DEF Inv, Acknowledged, Holds, TruthfulAcknowledgement
<1> QED BY <1>1, Invariance, PTL

\* The client never takes the plugin's events for an invalid response, however
\* cancels, output, completion and acknowledgement race (cli exec/mod.rs).
THEOREM ResponsesValid == Spec => []NoInvalidResponse
<1>1. Inv => NoInvalidResponse
  BY DEF Inv
<1> QED BY <1>1, Invariance, PTL

\* What the client tells its user is true: a success has happened and is printed
\* to the last chunk, what is done is over, what was not run has not started.
THEOREM ExitsTrue == Spec => []TruthfulExit
<1>1. Inv => TruthfulExit
  BY DEF Inv, Closed, Printing, TruthfulExit
<1> QED BY <1>1, Invariance, PTL
=============================================================================
