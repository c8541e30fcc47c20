----------------------------- MODULE ValueBridge -----------------------------
(***************************************************************************)
(* What AutoLISP prints: the events that actl:print and actl:println send  *)
(* (exec/value/event.rs), the port they are written to (exec/value/port.rs)*)
(* under a lease on the execution's output (exec/io.rs), the printer that  *)
(* checks their order (exec/value/printer.rs) and its layout, which holds  *)
(* a list back until it knows whether it fits a line (printer_layout.rs).  *)
(*                                                                         *)
(* AutoCAD's main thread does all of it; the rpc thread may end the output *)
(* at any moment, also in the middle of an event.  A form may catch its    *)
(* errors and stop printing or start again wherever it likes, so any event *)
(* may follow any other.                                                   *)
(*                                                                         *)
(* A text is a token: "a" any value printed at once, "s" a symbol's first  *)
(* text and "t" its next ones, "q" the quote of a string and "c" its text, *)
(* "p" that of a println, "nl" the end of a line.  Widths and indents are  *)
(* not kept: where a list is broken into lines no token is lost.           *)
(***************************************************************************)
EXTENDS Naturals, Sequences, SequencesExt

CONSTANTS
  MaxForms,    \* forms of the source
  MaxDepth,    \* MAX_VALUE_DEPTH
  MaxEvents    \* bound on the events AutoLISP sends

ASSUME BridgeAssumption == MaxForms \in Nat \ {0} /\ MaxDepth \in Nat /\ MaxEvents \in Nat

VARIABLES
  exec,    \* mode, phase, forms taken, cancel_requested and outcome of the execution
  bridge,  \* ValueBridgeState
  port,    \* the port of the dispatch
  sink,    \* what the output answers: "Continue" or how it ended
  line,    \* what it accepted since the last line it ended
  last,    \* the last line it ended
  lines,   \* how many it ended in the phase
  events

vars == <<exec, bridge, port, sink, line, last, lines, events>>
output == <<line, last, lines>>

Kinds == {"Form", "EvalValue"}
Ends == {"Cancelled", "Stopped", "Disconnected"}
Failures == {"InvalidSequence", "LimitExceeded", "Abandoned", "MissingValue",
             "PostCommitCancelled"}
Results == {"Continue", "InvalidSequence", "LimitExceeded", "Inactive"} \cup Ends
ListStates == {"Empty", "Values", "AwaitingTail", "Complete"}
Atoms == {"none", "string", "symbol", "number", "name"}
Tokens == {"(", ")", ".", "a", "q", "c", "s", "t", "p", "nl"}
ValueEvents == {"BeginList", "EndList", "Dot", "Atom", "BeginString", "StringChunk", "EndString",
                "BeginSymbol", "NameChunk", "DigitChunk", "EndSymbol", "BadReal"}
Events == ValueEvents \cup {"BeginValue", "EndValue", "Println", "BadPrintln", "LongPrintln",
                            "Malformed"}

NoPrinter == [lists |-> <<>>, atom |-> "none", skipped |-> 0, roots |-> 0, held |-> <<>>,
              active |-> FALSE]
NoPort == [kind |-> "none"]

TypeOK ==
  /\ exec.mode \in {"Run", "Eval"}
  /\ exec.phase \in {"BetweenForms", "AwaitingForm", "EmitEvalValue", "AwaitingEmit", "Done"}
  /\ exec.forms \in 0..MaxForms /\ exec.cancel \in BOOLEAN
  /\ exec.outcome \in {"none", "Success", "Failure", "Cancelled"}
  /\ bridge.generation \in Nat /\ bridge.openKind \in Kinds \cup {"none"}
  /\ bridge.active \in BOOLEAN /\ bridge.claimed \in BOOLEAN
  /\ bridge.failure \in Failures \cup {"none"}
  /\ \/ port = NoPort
     \/ /\ port.kind \in Kinds /\ port.generation \in Nat
        /\ port.values \in Nat /\ port.result \in Results
        /\ port.printer.lists \in Seq(ListStates) /\ port.printer.atom \in Atoms
        /\ port.printer.held \in Seq(Tokens)
  /\ sink \in {"Continue"} \cup Ends
  /\ line \in Seq(Tokens) /\ last \in Seq(Tokens)
  /\ lines \in Nat /\ events \in 0..MaxEvents

Init ==
  /\ exec \in [mode : {"Run", "Eval"}, phase : {"BetweenForms"}, forms : {0}, cancel : {FALSE},
               outcome : {"none"}]
  /\ bridge = [generation |-> 0, openKind |-> "none", active |-> FALSE, claimed |-> FALSE,
               failure |-> "none"]
  /\ port = NoPort /\ sink = "Continue"
  /\ line = <<>> /\ last = <<>> /\ lines = 0 /\ events = 0

(***************************************************************************)
(* The lease (exec/io.rs): b is the state of the bridge.                   *)
(***************************************************************************)
Latch(b, failure) ==
  IF b.failure = "none" THEN [b EXCEPT !.failure = failure] ELSE b

BeginValueOutput(b, kind) ==
  LET known == IF b.openKind # "none" \/ b.active THEN Latch(b, "Abandoned") ELSE b
  IN  [known EXCEPT !.generation = @ + 1, !.openKind = kind, !.active = FALSE,
                    !.claimed = FALSE]

MayAcquire(b, kind) ==
  b.openKind = kind /\ b.failure = "none" /\ ~b.active /\ ~b.claimed

AcquireValueOutput(b) == [b EXCEPT !.active = TRUE, !.claimed = TRUE]

IsOpen(b, p) ==
  /\ b.openKind = p.kind /\ b.generation = p.generation
  /\ b.active /\ b.failure = "none"

ReleaseValueOutput(b, p, failure) ==
  IF b.generation # p.generation \/ b.openKind # p.kind THEN b
  ELSE [Latch(b, failure) EXCEPT !.active = FALSE]

CloseValueOutput(b, kind) ==
  LET checked == IF b.openKind # kind THEN Latch(b, "InvalidSequence") ELSE b
      abandoned == IF checked.active THEN Latch(checked, "Abandoned") ELSE checked
      missing == IF kind = "EvalValue" /\ ~b.claimed THEN Latch(abandoned, "MissingValue")
                 ELSE abandoned
  IN  [bridge |-> [missing EXCEPT !.openKind = "none", !.active = FALSE, !.failure = "none"],
       failure |-> missing.failure]

(***************************************************************************)
(* The printer: what an event makes of printer p, and the text it prints.  *)
(***************************************************************************)
Prints(p, text) == [ok |-> TRUE, printer |-> p, text |-> text]
Wrong(p) == [ok |-> FALSE, printer |-> p, text |-> <<>>]

\* before_value: a value is the root, or it is the next of the last list.
MayPlace(p) == p.lists = <<>> \/ p.lists[Len(p.lists)] # "Complete"
Place(p) ==
  IF p.lists = <<>> THEN [p EXCEPT !.roots = @ + 1]
  ELSE [p EXCEPT !.lists[Len(p.lists)] = IF @ = "AwaitingTail" THEN "Complete" ELSE "Values"]

Places(p, next, text) == IF MayPlace(p) THEN Prints(next, text) ELSE Wrong(p)

\* While a list that is too deep is skipped only its lists are counted.
Skips(p, event) ==
  Prints([p EXCEPT !.skipped = CASE event = "BeginList" -> @ + 1
                                 [] event = "EndList" -> @ - 1
                                 [] OTHER -> @], <<>>)

ListEvent(p, event) ==
  LET state == IF p.lists = <<>> THEN "none" ELSE p.lists[Len(p.lists)] IN
  IF p.atom # "none" THEN Wrong(p)
  ELSE CASE event = "BeginList" /\ Len(p.lists) = MaxDepth ->
              Places(p, [Place(p) EXCEPT !.skipped = 1], <<"a">>)
         [] event = "BeginList" /\ Len(p.lists) # MaxDepth ->
              Places(p, [Place(p) EXCEPT !.lists = Append(@, "Empty")], <<"(">>)
         [] event = "EndList" /\ state \notin {"none", "AwaitingTail"} ->
              Prints([p EXCEPT !.lists = Front(@)], <<")">>)
         [] event = "Dot" /\ state = "Values" ->
              Prints([p EXCEPT !.lists[Len(p.lists)] = "AwaitingTail"], <<".">>)
         [] OTHER -> Wrong(p)

\* SymbolState::push: a name chunk rules out that the symbol reads as a number or
\* as nil, which a digit chunk leaves open; such a symbol cannot end.
SymbolAfter(atom, event) ==
  IF event = "NameChunk" \/ atom = "name" THEN "name" ELSE "number"

\* A symbol is placed by its first text.
SymbolEvent(p, event) ==
  CASE event = "BeginSymbol" /\ p.atom = "none" ->
         Prints([p EXCEPT !.atom = "symbol"], <<>>)
    [] event \in {"NameChunk", "DigitChunk"} /\ p.atom \in {"symbol", "number", "name"} ->
         LET next == SymbolAfter(p.atom, event)
         IN  IF p.atom = "symbol"
             THEN Places(p, [Place(p) EXCEPT !.atom = next], <<"s">>)
             ELSE Prints([p EXCEPT !.atom = next], <<"t">>)
    [] event = "EndSymbol" /\ p.atom = "name" -> Prints([p EXCEPT !.atom = "none"], <<>>)
    [] OTHER -> Wrong(p)

AtomEvent(p, event) ==
  CASE event = "Atom" /\ p.atom = "none" -> Places(p, Place(p), <<"a">>)
    [] event = "BeginString" /\ p.atom = "none" ->
         Places(p, [Place(p) EXCEPT !.atom = "string"], <<"q">>)
    [] event = "StringChunk" /\ p.atom = "string" -> Prints(p, <<"c">>)
    [] event = "EndString" /\ p.atom = "string" ->
         Prints([p EXCEPT !.atom = "none"], <<"q">>)
    [] OTHER -> Wrong(p)

PrinterEvent(p, event) ==
  CASE event = "BadReal" -> Wrong(p)
    [] event # "BadReal" /\ p.skipped # 0 -> Skips(p, event)
    [] event # "BadReal" /\ p.skipped = 0 ->
         CASE event \in {"BeginList", "EndList", "Dot"} -> ListEvent(p, event)
           [] event \in {"BeginSymbol", "NameChunk", "DigitChunk", "EndSymbol"} ->
                SymbolEvent(p, event)
           [] OTHER -> AtomEvent(p, event)

MayFinish(p) == p.roots = 1 /\ p.atom = "none" /\ p.lists = <<>> /\ p.skipped = 0

Count(text, token) == Len(SelectSeq(text, LAMBDA t : t = token))

\* The layout keeps what begins with a list that is not closed, while it may
\* still fit; it never keeps anything else.
Unclosed(text, i) ==
  /\ text[i] = "("
  /\ \A j \in i..Len(text) : Count(SubSeq(text, i, j), "(") > Count(SubSeq(text, i, j), ")")
Drained(text) == {Len(text)} \cup {i - 1 : i \in {j \in DOMAIN text : Unclosed(text, j)}}

(***************************************************************************)
(* The port (exec/value/port.rs).                                          *)
(***************************************************************************)
NewPort(b) ==
  [kind |-> b.openKind, generation |-> b.generation, values |-> 0, result |-> sink,
   printer |-> NoPrinter]

\* A form may print again after a failed event.
FailForNow(p, result) == [p EXCEPT !.printer = NoPrinter]
Fail(p, result) == [p EXCEPT !.printer = NoPrinter, !.result = result]

Quiet(p) == [port |-> p, text |-> <<>>, writes |-> FALSE]
Invalid(p) == Quiet(Fail(p, "InvalidSequence"))
Writes(p, text) == [port |-> p, text |-> text, writes |-> TRUE]

BeginValue(p) ==
  IF p.printer.active \/ (p.kind = "EvalValue" /\ p.values # 0) THEN Invalid(p)
  ELSE Quiet([p EXCEPT !.printer = [NoPrinter EXCEPT !.active = TRUE]])

EndValue(p) ==
  IF ~p.printer.active \/ ~MayFinish(p.printer) \/ p.printer.held # <<>> THEN Invalid(p)
  ELSE Writes([p EXCEPT !.printer = NoPrinter, !.values = @ + 1], <<"nl">>)

Println(p, event) ==
  CASE p.kind # "Form" \/ p.printer.active \/ event = "BadPrintln" -> Invalid(p)
    [] p.kind = "Form" /\ ~p.printer.active /\ event = "LongPrintln" ->
         Quiet(Fail(p, "LimitExceeded"))
    [] p.kind = "Form" /\ ~p.printer.active /\ event = "Println" -> Writes(p, <<"p", "nl">>)

Value(p, event) ==
  LET printed == PrinterEvent(p.printer, event) IN
  IF p.printer.active /\ printed.ok
  THEN Writes([p EXCEPT !.printer = printed.printer], p.printer.held \o printed.text)
  ELSE Invalid(p)

\* NativeOutputPort::write: what event makes of port p, and what it writes.
Handle(p, event) ==
  CASE event = "Malformed" -> Invalid(p)
    [] event # "Malformed" /\ p.result # "Continue" -> Quiet(p)
    [] event # "Malformed" /\ p.result = "Continue" /\ ~IsOpen(bridge, p) ->
         Quiet([p EXCEPT !.result = "Inactive"])
    [] OTHER ->
         CASE event = "BeginValue" -> BeginValue(p)
           [] event = "EndValue" -> EndValue(p)
           [] event \in {"Println", "BadPrintln", "LongPrintln"} -> Println(p, event)
           [] OTHER -> Value(p, event)

BridgeFailure(p) ==
  CASE p.result \in {"InvalidSequence", "LimitExceeded"} -> p.result
    [] p.result = "Cancelled" /\ p.kind = "EvalValue" -> "PostCommitCancelled"
    [] OTHER -> "none"

\* An open printer is dropped with its port.
CompletionFailureOfResult(p) ==
  CASE p.result # "Continue" -> BridgeFailure(p)
    [] p.result = "Continue" /\ p.kind = "EvalValue" /\ p.values # 1 -> "MissingValue"
    [] OTHER -> "none"

\* A form that returns before it ended its value has abandoned it.
CompletionFailure(p) ==
  CASE p.result # "Continue" -> BridgeFailure(p)
    [] p.result = "Continue" /\ p.printer.active -> "Abandoned"
    [] p.result = "Continue" /\ ~p.printer.active /\ p.kind = "EvalValue" /\ p.values # 1 ->
         "MissingValue"
    [] OTHER -> "none"

Finish(b, p) == ReleaseValueOutput(b, p, CompletionFailure(p))

(***************************************************************************)
(* The output: it may end between two texts of an event.                   *)
(***************************************************************************)
MayEndAs(end) == end = "Cancelled" => exec.cancel

EndsLine(text) == text # <<>> /\ Last(text) = "nl"

Emitted(text) ==
  IF EndsLine(text)
  THEN last' = line \o Front(text) /\ line' = <<>> /\ lines' = lines + 1
  ELSE line' = line \o text /\ UNCHANGED <<last, lines>>

Accepts(p, text) ==
  \/ /\ sink = "Continue" /\ Emitted(text)
     /\ port' = p /\ UNCHANGED sink
  \/ /\ sink = "Continue"
     /\ \E n \in 0..Len(text), end \in Ends :
          /\ n < Len(text) \/ EndsLine(text)
          /\ MayEndAs(end) /\ Emitted(SubSeq(text, 1, n))
          /\ sink' = end /\ port' = Fail(p, end)
  \/ /\ sink # "Continue"
     /\ port' = Fail(p, sink) /\ UNCHANGED <<sink, output>>

\* What is drained of the text goes out, the rest is held.
Drains(p, text) ==
  \E drained \in Drained(text) :
    LET rest == SubSeq(text, drained + 1, Len(text))
    IN  Accepts(IF p.printer.active THEN [p EXCEPT !.printer.held = rest] ELSE p,
                SubSeq(text, 1, drained))

LispWrites(event) ==
  /\ port # NoPort /\ events < MaxEvents /\ events' = events + 1
  /\ LET handled == Handle(port, event)
     IN  IF handled.writes THEN Drains(handled.port, handled.text)
         ELSE port' = handled.port /\ UNCHANGED <<sink, output>>
  /\ UNCHANGED <<exec, bridge>>

\* The rpc thread cancels, or nobody reads any more.
OutputEnds ==
  /\ sink = "Continue" /\ exec.phase # "Done"
  /\ \E end \in Ends : MayEndAs(end) /\ sink' = end
  /\ UNCHANGED <<exec, bridge, port, output, events>>

(***************************************************************************)
(* The steps of the execution that concern its output (exec/state.rs), as  *)
(* the driver takes and completes them (host.cpp).                         *)
(***************************************************************************)
Ended(outcome) == [exec EXCEPT !.phase = "Done", !.outcome = outcome]

\* complete_step, with b the bridge after the port was finished.
StepCompletes(kind, b, succeeded) ==
  LET closed == CloseValueOutput(b, kind) IN
  /\ bridge' = closed.bridge /\ port' = NoPort
  /\ exec' = CASE ~succeeded \/ closed.failure # "none" -> Ended("Failure")
               [] succeeded /\ closed.failure = "none" /\ kind = "EvalValue" -> Ended("Success")
               [] OTHER -> IF exec.cancel THEN Ended("Cancelled")
                           ELSE [exec EXCEPT !.phase = "BetweenForms"]

\* The host opens the port of a step; it may be refused one, or may fail to
\* stage what AutoLISP shall evaluate.
OpenPort(kind, phase) ==
  LET open == AcquireValueOutput(BeginValueOutput(bridge, kind)) IN
  /\ MayAcquire(BeginValueOutput(bridge, kind), kind)
  /\ bridge' = open /\ port' = NewPort(open)
  /\ exec' = [exec EXCEPT !.phase = phase, !.forms = IF kind = "Form" THEN @ + 1 ELSE @]

StagingFails(kind) ==
  LET open == AcquireValueOutput(BeginValueOutput(bridge, kind))
      p == IF kind = "Form" THEN NewPort(open) ELSE Fail(NewPort(open), "InvalidSequence")
  IN  StepCompletes(kind, Finish(open, p), FALSE)

TakeForm ==
  /\ exec.phase = "BetweenForms" /\ ~exec.cancel
  /\ exec.forms < IF exec.mode = "Eval" THEN 1 ELSE MaxForms
  /\ \/ OpenPort("Form", "AwaitingForm")
     \/ StagingFails("Form")
     \/ StepCompletes("Form", BeginValueOutput(bridge, "Form"), FALSE)
  /\ UNCHANGED <<sink, output, events>>

CancelBetweenForms ==
  /\ exec.phase = "BetweenForms" /\ exec.cancel
  /\ exec' = Ended("Cancelled")
  /\ UNCHANGED <<bridge, port, sink, output, events>>

CommitUndoGroup ==
  /\ exec.phase = "BetweenForms" /\ ~exec.cancel /\ (exec.mode = "Eval" => exec.forms = 1)
  /\ \E succeeded \in BOOLEAN :
       exec' = CASE ~succeeded -> Ended("Failure")
                 [] succeeded /\ exec.mode = "Run" -> Ended("Success")
                 [] succeeded /\ exec.mode = "Eval" -> [exec EXCEPT !.phase = "EmitEvalValue"]
  /\ UNCHANGED <<bridge, port, sink, output, events>>

\* A step whose port was refused succeeds, and the bridge finds no value.
EmitEvalValue ==
  /\ exec.phase = "EmitEvalValue" /\ lines' = 0
  /\ \/ OpenPort("EvalValue", "AwaitingEmit")
     \/ StagingFails("EvalValue")
     \/ StepCompletes("EvalValue", BeginValueOutput(bridge, "EvalValue"), TRUE)
  /\ UNCHANGED <<sink, line, last, events>>

LispReturns(succeeded) ==
  /\ port # NoPort
  /\ StepCompletes(port.kind, Finish(bridge, port), succeeded)
  /\ UNCHANGED <<sink, output, events>>

\* recoverCancelledExecutionDriver: AutoCAD cancelled the driver.
DriverCancelled ==
  /\ port # NoPort
  /\ StepCompletes(port.kind, Finish(bridge, Fail(port, "InvalidSequence")), FALSE)
  /\ UNCHANGED <<sink, output, events>>

\* failExecutionDriver, and ExecState::abandon.
DriverFails ==
  /\ port # NoPort
  /\ bridge' = CloseValueOutput(Finish(bridge, port), port.kind).bridge
  /\ port' = NoPort /\ exec' = Ended("Failure")
  /\ UNCHANGED <<sink, output, events>>

RequestCancel ==
  /\ exec.phase \in {"BetweenForms", "AwaitingForm"} /\ ~exec.cancel
  /\ exec' = [exec EXCEPT !.cancel = TRUE]
  /\ UNCHANGED <<bridge, port, sink, output, events>>

Next ==
  \/ TakeForm
  \/ CancelBetweenForms
  \/ CommitUndoGroup
  \/ EmitEvalValue
  \/ \E event \in Events : LispWrites(event)
  \/ \E succeeded \in BOOLEAN : LispReturns(succeeded)
  \/ DriverCancelled
  \/ DriverFails
  \/ RequestCancel
  \/ OutputEnds

Spec == Init /\ [][Next]_vars

(***************************************************************************)
(* Properties.                                                             *)
(***************************************************************************)
\* What AutoLISP reads: the spans of text that are values, and those that are the
\* rest of a list after one of its values, up to its end.  Each follows from
\* shorter ones; known are those.
FormsValue(text, known, i, j) ==
  \/ text[i] = "a" /\ i = j
  \/ text[i] = "s" /\ \A k \in (i + 1)..j : text[k] = "t"
  \/ text[i] = "q" /\ text[j] = "q" /\ i < j /\ \A k \in (i + 1)..(j - 1) : text[k] = "c"
  \/ text[i] = "(" /\ text[j] = ")" /\ j = i + 1
  \/ text[i] = "(" /\ \E k \in (i + 1)..(j - 1) :
       <<"value", i + 1, k>> \in known /\ <<"rest", k + 1, j>> \in known

FormsRest(text, known, i, j) ==
  \/ text[i] = ")" /\ i = j
  \/ text[i] = "." /\ text[j] = ")" /\ <<"value", i + 1, j - 1>> \in known
  \/ \E k \in i..(j - 1) : <<"value", i, k>> \in known /\ <<"rest", k + 1, j>> \in known

Longer(text, known, n) ==
  known \cup
    {<<"value", i, i + n - 1>> : i \in {i \in 1..(Len(text) - n + 1) :
                                          FormsValue(text, known, i, i + n - 1)}} \cup
    {<<"rest", i, i + n - 1>> : i \in {i \in 1..(Len(text) - n + 1) :
                                         FormsRest(text, known, i, i + n - 1)}}

Spans(text) ==
  LET upTo[n \in 0..Len(text)] == IF n = 0 THEN {} ELSE Longer(text, upTo[n - 1], n)
  IN  upTo[Len(text)]

IsLine(text) == text = <<"p">> \/ <<"value", 1, Len(text)>> \in Spans(text)

\* Every line that ends in the output is the text of one println or of one
\* value that AutoLISP reads back, whatever order the events come in and
\* however often a form fails in the middle of a value and goes on printing:
\* lists and strings are closed, a dot has one value after it, what is left
\* of a value that failed is never the beginning of another line.
EveryLineIsOneValue == lines > 0 => IsLine(last)

\* An execution that succeeds, and whose output was not ended from outside,
\* printed whole lines only; an eval wrote the one line of its value after
\* the commit.
SuccessMeansWholeOutput ==
  exec.outcome = "Success" /\ sink = "Continue" =>
    line = <<>> /\ (exec.mode = "Eval" => lines = 1)
=============================================================================
