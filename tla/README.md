# A formal model of acadctl

acadctl drives a running AutoCAD for macOS from the command line.  The CLI
(`src/crates/cli`) talks gRPC over a local socket to a plugin that AutoCAD has
loaded; the plugin is a Rust library (`src/crates/plugin/src`) inside a C++
bundle (`src/crates/plugin/native`) and evaluates AutoLISP with a small library
of its own (`src/crates/plugin/lisp`).  AutoCAD may only be touched on its main
thread and only in the right context, while requests arrive on another thread:
what makes this program hard is the hand-over between the two.

This directory holds TLA+ modules of that hand-over, configurations for TLC,
and theorems that TLAPS proves for every value of the constants.
`PROJECT.json` has the index: components, runs, mutants, the source lines of
every definition, hazards and theorems.

To check a run: `tlc -config SchedulerMixed.cfg MCMutationScheduler`;
to check the proofs: `tlapm MutationSchedulerProofs.tla`.

## 1. The system

| component | state | operations | who calls it |
|---|---|---|---|
| mutation scheduler (`scheduler/queue.rs`) | queue, active job, `wake_pending`, `stopping`, `quarantined`, jobs with their wait | submit, admit, cancel, take and complete an action, driver steps, wake failed, reactor, timers, stop | rpc handlers, timer driver, AutoCAD's main thread |
| readiness timers (`scheduler/timer.rs`) | the deadline it sleeps to; one `Notify` permit | compute, sleep, be notified, fire | a tokio task on the rpc thread |
| execution state machine (`exec/state.rs`) | phase, cursor over the forms, cancel flag, outcome | take step, complete step, cancel, expire, abandon, finalize | the scheduler, under its lock |
| native result policy (`scheduler/native.rs`, `operation.rs`, `error.rs`) | none | which result quarantines, which answer it gives | completion of an action |
| execution output channel (`exec/output.rs`) | ready chunks, pending fragment, byte count, terminal state | emit (may block), flush, cancel, finish, stop, both drops, `next_chunk` | AutoCAD's main thread writes, the response stream reads |
| value output bridge (`exec/io.rs`, `exec/value/port.rs`) | the leased port with its generation | begin, write, finish | AutoLISP callbacks |
| AutoCAD host (`native/host.cpp`) | dispatch slot, driver phase, wakes accepted, callbacks outstanding | application-context callback, dispatch, driver, finalizer, reactors | AutoCAD |
| plugin lifecycle (`native/entry.cpp`, `rpc/server.rs`, `lib.rs`) | server thread, endpoint, accepted wakes | load, unload, restart of the endpoint | AutoCAD |
| drawing registry (`drawing.rs`) | ids by document token | snapshot, resolve | the scheduler |
| execution RPC session (`rpc/exec.rs`) | reservation, phase of the response stream | reserve, first message, admit, relay, control | the client |
| CLI execution client (`cli/.../exec`) | response phase, interrupt phase | send, read, interrupt, detach | the user |
| drawing RPCs, screenshots, CLI commands, instance discovery | none or per request | one request each | the user |
| form scanner (`lisp/src/lib.rs`), value printer | none: pure algorithms | scan, print | executions |

**How they interact.**  The rpc thread runs one single-threaded tokio runtime:
the request handlers and the timer driver.  A handler changes the scheduler
under its mutex, releases it, and may then ask AutoCAD for a callback
(`acadctl_wake_native_actions`).  AutoCAD runs the callback on its main thread;
it takes an action, performs it or hands it to the document's own context, and
completes it, both under the mutex again.  A dispatched execution is driven by
AutoLISP callbacks that take and complete one step at a time, and writes its
output into the channel that the response stream reads on the rpc thread.
Reactors on the main thread say that AutoCAD may have become quiescent.  An
unload stops the scheduler, and waits on the main thread for the rpc thread to
end.

**What is hard.**  A wake that is claimed under the lock but delivered after
it, and may be refused; a busy AutoCAD, whose job goes back to a queue that has
changed meanwhile; deadlines, retries, cancels and answers due at the same time;
a finalizer AutoCAD refuses to schedule; results that leave the drawing in
doubt; a main thread that blocks in `emit` until a reader, who may drop its
future or disconnect, makes room; an unload in the middle of any of these.
`PROJECT.json` lists the hazards at their lines.

**What makes each component correct.**

- Scheduler: every job is answered once; jobs start one at a time and in
  admission order; work that is ready always has a wake on its way, and never
  two; limits hold; nothing starts after a quarantine or a stop; an accepted
  cancel is never answered with success; "not started" is true.
- Timers: the driver never sleeps past a deadline it was told of, and a queued
  job expires even when AutoCAD never calls back.
- Output channel: text arrives once and in order; nothing is accepted after the
  end; the end is told only after what preceded it, unless output was discarded;
  buffers keep their limits; a writer blocked on AutoCAD's main thread is
  released.
- Execution driver: a dispatch has one finalizer, which ends it; "completed" is
  said only of a drawing that was left clean; the client is told what became of
  the changes; the user's document is active again at the end.
- Value bridge: every line a form prints is one `println` or one value that
  AutoLISP would read back, and a success has printed whole lines.
- Execution session: the client never sees an invalid response, tells the truth
  about how the execution ended and what became of its cancel, and hears Ctrl+C
  whatever it waits for; a stream is reserved for as long as it is live.
- Plugin lifecycle: the count of callbacks AutoCAD owes is exact, nothing of the
  plugin runs or may be called once it is unloaded, every load and unload returns.
- Drawing registry: an id names one document for as long as it is listed; no
  change of a drawing is missed; the host holds nothing that has been destroyed;
  a close does not lose unsaved work.
- Screenshot output: a path that was given out shows a whole picture, its own,
  until its retention is over; no process touches another's unfinished file.

## 2. The modules

| module | models | abstracts |
|---|---|---|
| `Exec` | `exec/state.rs`: `Exec` with every phase | the source to its number of forms; a failure to its drawing outcome |
| `NativeResult` | the tables of `native.rs`, `operation.rs`, `error.rs`, and what a screenshot comes to by its frames | error texts, pixels |
| `MutationScheduler` | `queue.rs`, `timer.rs`, and the parts of `host.cpp`, `entry.cpp` and `server.rs` that call them | the drawing registry to a choice; time to ticks |
| `SerialMutations` | the abstract specification: jobs start one at a time, in order | wakes, timers, AutoCAD |
| `OutputChannel` | `exec/output.rs` | a character to its length in UTF-8 |
| `OutputStreams` | the abstract specification: an ordered stream with an end | chunks, limits, blocking |
| `ExecDriver` | a dispatched execution: `documentContextDispatch_` and the undo groups of `host.cpp`, the driver in `exec.lsp`, and its steps in `scheduler/lisp.rs` | which LISP error or AutoCAD status; a form to what it does to the drawing |
| `ExecSession` | `rpc/exec.rs` and `cli/src/commands/exec`: one `acadctl exec` from end to end | texts and fields of requests; output to a count of chunks |
| `ValueBridge` | `exec/io.rs`, `exec/value/`: `port.rs`, `event.rs`, `println.rs`, `printer.rs`, `printer_layout.rs` | a printed text to a token; widths and indents |
| `DrawingRegistry` | `drawing.rs`, the subscriptions and reactors of `host.cpp`, the operations by id | names, paths, read-only |
| `PluginLifecycle` | `entry.cpp`, `rpc/server.rs`, `lib.rs`, the count of callbacks in `host.cpp` | what a callback does |
| `ScreenshotOutput` | `cli/src/commands/screenshot/output.rs` | a picture to its writer; time to units of the retention |
| `MCMutationScheduler`, `MCOutputChannel` | the same for TLC, with the constants of the configurations | |
| `MutationSchedulerProofs`, `OutputChannelProofs`, `ExecDriverProofs`, `ExecSessionProofs`, `ValueBridgeProofs`, `DrawingRegistryProofs`, `PluginLifecycleProofs`, `ScreenshotOutputProofs` | theorems and proofs | |

`MutationScheduler` extends `Exec` and `NativeResult`, and `ExecDriver` extends
`NativeResult`.  `SerialMutations` and `OutputStreams` are instantiated with
refinement mappings.  The other modules meet at a seam that is a small alphabet:
`ExecSession` sees a job as it starts, becomes too late to cancel, writes and
ends; `ValueBridge` sees the steps of an execution and a sink that goes on or
has ended; `PluginLifecycle` sees a wake and a callback.

### The scheduler

`Exec` is a library of operators on one record (`phase`, `mode`, `forms` left,
`cancel`, `handedOff`, `cause` of an unwind, `outcome`); each operator is a
method of `Exec`.  `MutationScheduler` keeps that record per job.

| variable | in the code |
|---|---|
| `nextId`, `pending`, `active`, `wakePending`, `stopping`, `quarantined` | `NEXT_JOB_ID` and the fields of `struct MutationScheduler` |
| `kind`, `wait`, `execution`, `answer` | the job's `Operation`, its `WaitState` (with the ticks that are left), its `Exec`, and what went through its completion sender |
| `main` | what AutoCAD's main thread does for the scheduler: `acting` in `processNextAction`, `scheduling` before `scheduleNextNativeAction`, `unloading` |
| `dispatched` | the dispatch slot of `host.cpp` is taken |
| `callbacks`, `claim`, `acceptWakes` | callbacks AutoCAD owes, a wake a thread has claimed and not yet delivered (or whose refusal it has not yet handled), and whether wakes are accepted |
| `timer`, `permit` | the timer driver's sleep, and the permit of `TIMERS_CHANGED` |

An action is one critical section.  `request_wake` sets `wake_pending` under the
lock and the caller delivers the wake after it, so a claim is a state of its
own: `WakeAccepted`, `WakeRefused` and `WakeFailed` interleave with everything
the other thread does, and a thread with a claim does nothing else.  A notify
that follows a critical section is taken with it: that loses no behaviour, since
a driver that computes in between would only be notified once more.

| actions | code |
|---|---|
| `SubmitOperation`, `AdmitExecution`, `AdmitEmptyExecution`, `CancelActive`, `CancelPending` | the request handlers |
| `TakeIdle`, `TakeExpired`, `TakeImmediate`, `TakeAndIssue` | `take_native_action` in the callback |
| `HostCompletes`, `HostDispatches`, `ScheduleNext` | `processNextAction`, `complete_native_action`, `scheduleNextNativeAction` |
| `DriverTakesStep`, `DriverCompletesStep`, `DriverAbandons` | the scheduler's side of the execution driver |
| `FinalizeHistory`, `FinalizeExecution`, `FinalizerNotScheduled` | the ends of a dispatch |
| `NativeStateMayBeReady` | the reactors |
| `TimerSleeps`, `TimerNotified`, `TimerFires`, `Tick` | the timer driver and the clock |
| `Stop`, `ServerShutsDown` | the part of `kUnloadAppMsg` that ends the scheduler and the rpc thread |

Requests the code refuses, or answers without changing the scheduler, are
absent: they are the negated guards.

### The output channel

Writers are the clones of `OutputSink`; a writer is `idle`, `emitting`, or
`waiting` on the condition variable.  A round of `emit`'s loop, from the lock to
the fragment that is taken, the end that is found or the wait, is one action
(`EmitFragment`, `EmitAfterPublishing`, `EmitEnds`, `EmitWaits`).  The reader is
`away` (outside `next_chunk`), `waiting`, `woken`, has `ended`, or is `gone`;
`DropRead` drops the future, as `select!` does.  `accepted` and `delivered` are
history variables.

### The execution driver

| variable | in the code |
|---|---|
| `dispatch`, `finalizers` | `documentContextDispatch_` with its phase and flags; finalizers AutoCAD has accepted |
| `execution`, `reported`, `answer`, `quarantined` | the active job's `Exec` and what the scheduler is told and answers |
| `active`, `alive`, `undo`, `changes` | AutoCAD: the active document, the target and its undo history, as far as the changes of the forms go |
| `symbols`, `status`, `lisp`, `nested`, `queued` | the bridge symbols, and the driver expression AutoLISP runs |
| `callback` | where `acadctlAdvanceExecution` is, between two calls into AutoCAD |
| `dispatches`, `interruptions` | counters that bound the model |

`HostStep` is the dispatch and the finalizer, `LispStep` the driver expression,
`AdvanceStep` the callback it makes for every step, one action per call into
AutoCAD, because each of them runs reactors and may destroy the document:
`TargetDestroyed`, `TargetReloaded`, `AnotherDocumentActivates`, `LispCancelled`
and `ExecutionInterrupted` come in between.  A reactor may also run inside the
UNDO commands of the callback.  A finalizer that AutoCAD refuses inside a
command destroys the dispatch that the loop further up still refers to, so the
loop's end is an action that looks at it again (`LoopEnds`).  AutoCAD may end
the driver without a report, but not one that never called the host
(`Unreported`).

### The execution session

The client's variables come first: what its main task awaits (`cli`), its
`ResponsePhase`, its `InterruptPhase` and `CancellationDisposition`, what stdout
took and what it tells at the end; then its interrupt task; then the stream in
both directions; the plugin's `handler`, `response` (`ResponsePhase` of
`rpc/exec.rs`), control reader and reservation; and the job.  The reservation is
the set of those who hold a clone of it.  `ClientStep`, `TaskStep`,
`HandlerStep`, `ResponseStep` and `ReaderStep` have one action per branch of a
`select!`, in the order of a biased one: a branch is enabled only when those
before it are not ready.  `StdoutTakes` and `StderrTakes` are the terminal,
`Deliver` and `ConnectionLost` the wire.

### The value bridge

`LispWrites` is one event of the printer's protocol, through the lease of the
bridge, the port, `println`'s or the printer's state and the layout that holds
back a list until it knows where it ends; every failure marks the port, and the
step that closes the form sees it.  `TakeForm`, `LispReturns`,
`EmitEvalValue`, `CommitUndoGroup`, `DriverCancelled` and `DriverFails` are the
steps of the execution that open and close a port.  A symbol's chunk either
makes it a name or leaves it one that may still be read as a number, which is
what the printer's escapes are for.

### The drawing registry

`document` and `database` are AutoCAD's, by address; an address may be used
again for a later document, and `made` tells the two apart.  `host` is the list
of subscriptions with the two flags beside it, `drawings` the registry,
`operation` the operation under way.  `RefreshDocumentSnapshot` is part of every
notification that calls it, with the reactors it attaches and detaches and what
AutoCAD answers them.  A database being destroyed tells the editor's reactor and
the database's own in either order.  A close has three phases: "native" once it
is taken, "closing" while AutoCAD has been asked to close, and `DocumentTaken`
once AutoCAD has taken the document; it fails only before that.

### The plugin lifecycle

`main` is what AutoCAD's main thread does in `kInitAppMsg`, `failInitialization`
or `kUnloadAppMsg`, one action for each step that can fail; `thread` is the rpc
thread with its endpoint, which it restarts after a failure; `wake` is the wake
that thread asks for, between reading `acceptNativeActionWakes` and counting the
callback; `queued` and `dispatch` are the callbacks AutoCAD owes and the
execution of which one may be the start.

### Screenshot output

`proc` is, per process, where it is in `publish`: the cleanup of old pictures,
file by file, creating a staging file, writing, syncing, publishing under its
name or at the destination, and dropping what is left.  `files` has the contents
with what of it is durable; `staging` and `published` are directories.
`CallFails` is a system call that fails, `Kill` a killed process, `PowerLoss` the
loss of what was not synced.

## 3. The runs

| run | bounds | shows |
|---|---|---|
| `scheduler_mixed` | 2 jobs of every kind, a fair AutoCAD, no unload | job accounting, wake bookkeeping, host ownership, the timer's knowledge; every job is answered |
| `scheduler_executions` | 2 executions of both modes, up to 2 forms, with unload; only the rpc thread and the clock are fair | untouched queue, truth of the answers about cancels and about what started; queued executions expire by themselves |
| `scheduler_stop` | 3 jobs of every kind over a queue of 2 and 1 execution, with unload | quarantine, the stopped queue, the limits, and the refinement to `SerialMutations` |
| `operation_expiry` (violation) | 1 drawing operation, fairness as in `scheduler_executions` | a queued operation does not expire by itself (see Findings) |
| `output_channel` | 2 writers, 4 characters of one and two bytes, chunks of 3 and a buffer of 5 bytes | notifications, refinement to `OutputStreams`, release of blocked writers |
| `exec_driver` | 1 dispatch of 1 form, 1 interruption, and the documents' own events | one finalizer, truthful answers, the context put back, and that every dispatch ends |
| `rollback_escape` (violation) | the same, with forms that may end the undo group | a rollback may leave changes (see Findings) |
| `exec_session` | 2 chunks, 2 presses of Ctrl+C, a buffer of 1 chunk, a wire of 2 events | what the client tells, the reservation; interrupts are heard |
| `drawing_registry` | 2 addresses of documents, 3 databases, 3 ids, 3 documents, 1 edit, 1 refusal | ids, changes, live objects, unsaved work |
| `plugin_lifecycle` | 5 wakes, 3 unloads | the count, a quiet end, every message returns |
| `value_bridge` | 2 forms, lists 2 deep, 8 events | lines are values, successes are whole |
| `screenshot_output` | 3 processes, a retention of 1 in 3 units of time, 1 fault | whole pictures under paths that keep them |

**Why the bounds are enough to be interesting.**  Two jobs are one that is
active or deferred and one that joins, is cancelled or expires behind it, which
is what order and wakes are about; three over a queue of two is the
smallest instance in which a full queue meets a job that comes back.  A timeout of
2 ticks with a first delay of 1 and a cap of 2 lets a job be deferred, retried,
deferred at the capped delay and expire.  Two forms tell a failure after an
evaluated form from one before.  In the channel, characters of one and two bytes
meet a chunk or a buffer with one byte left, which is where `utf8_prefix_len`
returns 0; a flush leaves a short last chunk that the next publication merges
into and splits at; and the buffer is smaller than what is emitted, so writers
block.  One form and one interruption take the driver through every place where
AutoCAD can end it, in both modes, with the document destroyed, reloaded or left
at each.  Two chunks over a buffer of one block the job, two presses are a
cancel and a detach, and a wire of two events lets an acknowledgement overtake
nothing but wait behind output.  Three documents over two addresses use an
address again while the other is open; three databases are one that dies, its
successor and another document's.  Five wakes over three unloads leave
a callback outstanding while an unload is refused and repeated.  Eight events
nest a list in a list with something on either side of it, and two forms are one
that ends badly and one after it.  Three processes are one that publishes, one
whose picture is old enough to be removed, and one that removes.

**Named bounds.**  `MaxSubmissions`, `MaxCharacters`, `MaxDispatches`,
`MaxInterruptions`, `MaxChunks`, `MaxPresses`, `MaxDocuments`, `MaxEdits`,
`MaxRefusals`, `MaxWakes`, `MaxUnloads`, `MaxEvents`, `MaxTime` and `MaxFaults`
count what would go on for ever, and bound the model only; `MaxForms` and
`MaxDepth` bound its inputs; the other constants are constants of the code with
smaller values.  Where the counters are spent these systems really stop, so
their configurations do not look for deadlocks; the scheduler's do.
`drawing_registry` and `screenshot_output` use symmetry, which is sound: they
check invariants and properties of single steps, and no name is special.

**Fairness.**

- `TimerFairness` (scheduler): the rpc thread is a tokio runtime that keeps
  polling ready tasks, a thread that has claimed a wake delivers it at once, and
  the clock advances.  Firing is strongly fair because `select!` picks a ready
  branch at random, so a due deadline is not passed over for ever.
- `HostFairness` (scheduler): AutoCAD runs the callbacks and dispatches it has
  accepted, and the execution's driver goes on or ends.  Only `scheduler_mixed`
  uses it.
- Channel: a writer inside `emit` runs until it returns or blocks.  That the
  client keeps reading is the client's choice and therefore the premise of
  `WritersAreReleased` alone; `EndReleasesWriters` needs no reader.
- `ExecDriver`: AutoCAD runs the finalizer and the history commands it accepted,
  starts the expression it was sent, and ends an expression that is nested or
  unwinds (weak).  The evaluation of forms and the callback are strongly fair,
  since documents may go and come between their steps; a form that never
  returns is thereby left out.
- `ExecSession`: the tasks of the two processes are polled: the interrupt task,
  the client's noting of interrupts, the handler, the response, the control
  reader (weak).  Nothing is assumed of the wire, of stdout, of stderr or of the
  job: `InterruptsAreHeard` is about all of them being stuck.
- `PluginLifecycle`: the main thread and the rpc thread go on, the thread that
  counts a wake finishes (weak), and a loop that keeps being offered the stop
  takes it (strong), since its endpoint may fail again and again.

Every property of these runs has a mutant: a plausible bug in a mapped
definition, defined beside it, under which TLC finds the property violated.
`TypeOK` of each module is not a property of a run: for the scheduler, the
channel, the driver, the value bridge and the lifecycle it is a theorem; for the rest
it tells the reader what the variables range over (`INVARIANT TypeOK` can be added to any
configuration).

### Findings

`operation_expiry`: `submit_operation_inner` (`scheduler/queue.rs:807`) queues an
operation with a deadline and does not notify the timer driver, while
`admit_execution` does (`queue.rs:724`).  A driver that sleeps without a
deadline (`timer.rs:32`) stays asleep.  If AutoCAD accepts the wake and never
runs the callback, the operation is not timed out, although its error says
"AutoCAD did not become ready within 60 seconds" (`scheduler/error.rs:161`).
`TimerKnowsItsDeadlines` is therefore stated with that exception, and
`PendingJobsExpire` holds for executions.

An undo or redo that finds AutoCAD busy *after* `stop()` returns to the stopped
queue and is not answered from there.  Its caller is gone by then, since the rpc
thread has been told to end; `StoppedQueueHoldsNoExecution` states what does hold.

`rollback_escape`: `rollbackUndoGroup` (`native/host.cpp:1219`) ends the
execution's undo group where it is still open and then issues one `U`.  A form
may call the `UNDO` command and end that group itself.  What it does afterwards
is outside it, and the one `U` takes back that and not the group; the client is
nevertheless told "Changes were rolled back"
(`cli/src/commands/exec/mod.rs:416`).  `FormsMayEscape` turns such forms on;
the other run of the module has them off, and what it says of rollbacks holds
for forms that leave the group alone.

Smaller observations, without a run of their own: a finalizer refused inside a
command of the callback destroys the dispatch while the loop that advances it
is further up the stack; `acceptNativeActionWakes` is not reset by an unload
that AutoCAD refuses later (`host.cpp:3320`); two cleanups at once can make one
screenshot fail, when the file is removed between `read_dir` and `metadata`
(`output.rs:348`); staging files that a killed process leaves are never
cleaned.

## 4. The proofs

TLAPS proves, for every value of the constants:

| theorem | property |
|---|---|
| `TypeCorrect` | `TypeOK` |
| `EveryWaitingJobIsHeld` | `JobsAccountedFor` |
| `AdmissionOrder` | `QueueInAdmissionOrder` |
| `DeferredAtHead` | `OnlyHeadDeferred` |
| `ActiveIsHosted` | `HostOwnsActive` |
| `OneWake` | `WakePendingIsOneWake` |
| `NoLostWake` | `ReadyWorkHasAWake` |
| `QuarantineEmpties` | `QuarantineIsFinal` |
| `QueuedExecutionsUntouched` | `PendingExecutionsUntouched` |
| `StopEmptiesTheQueue` | `StoppedQueueHoldsNoExecution` |
| `CancelIsKept` | `AcceptedCancelNeverSucceeds` |
| `NotStartedIsTrue` | `NotStartedMeansNoForm` |
| `LimitsHold` | `WithinCapacity` |
| `TimerIsInTime` | `TimerKnowsItsDeadlines` |
| `ImplementsSerialMutations` | `SerialSpec` |
| `ChannelTypeCorrect` | `TypeOK` of `OutputChannel` |
| `ReaderIsNotified` | `SleepingReaderIsNotified` |
| `Bounded` | `BufferIsBounded` (of `OutputChannelProofs`) |
| `ImplementsStream` | `StreamSpec` |
| `DispatchTypeCorrect` | `TypeOK` of `ExecDriver`, `OneFinalizer` |
| `EndsClean` | `ProvedMeansClean` |
| `RestoresContext` | `ContextRestored` |
| `TellsTheTruth` | `TruthfulOutcome`, where `FormsMayEscape` is off |
| `LifecycleTypeCorrect` | `TypeOK` of `PluginLifecycle` |
| `OutstandingExact` | `OutstandingIsExact` |
| `UnloadedQuiet` | `UnloadedMeansQuiet` |
| `WholePictures` | `PicturesAreWhole` |
| `PathsKept` | `PathsKeepTheirPicture` |
| `StagingOwned` | `StagingFilesAreOwned` |
| `ExitsTrue` | `TruthfulExit` |
| `ResponsesValid` | `NoInvalidResponse` |
| `AcknowledgementsTrue` | `TruthfulAcknowledgement` |
| `ReservationExact` | `ReservedWhileLive` |
| `BridgeTypes` | `TypeOK` of `ValueBridge` |
| `LinesAreValues` | `EveryLineIsOneValue` |
| `SuccessPrintsWhole` | `SuccessMeansWholeOutput` |
| `CloseKeepsUnsavedWork` | `UnsavedWorkSurvives` |
| `HostIsLive` | `HostHoldsLiveObjects` |
| `NoChangeIsMissed` | `ChangesAreNoticed` |
| `IdsAreKept` | `IdsFollowDocuments` |

Between them these are all the invariants, refinements and properties of single
steps that the passing runs check.  Only `SleepingReaderIsNotified` is inductive by
itself; the others rest on an invariant that says more.

### The scheduler

The assumptions are `SchedulerAssumption` and `MaxFormsAssumption` (limits
and times are positive, `RetryInitial <= RetryMax`, kinds and modes are among
those that exist).  The invariant is built in layers:

1. `Typed` = `TypeOK` and `ActiveIsOwned` (AutoCAD holds an action exactly when a
   job is active, and in one place).  The second part is needed for the types
   already: completing an action indexes every job function with `active`.
   The lemmas about `Exec` show that its operators keep an execution an execution.
   `MutationScheduler` and `ExecDriver` both extend `Exec`, and the proof module of
   each states what it needs of it.
2. `Accounted` = job accounting, admission order and the deferred head, with
   `WaitsMatchJobs` (a queued job has a wait, the active one is `Ready`) and
   `JobsSubmittedInOrder` (what is not submitted yet has an id not yet given).
   Without the former a job put back by `DeferActive` could be deferred behind
   the head; without the latter a new id could be one that is held.
   `QueueShrinks` does all actions that take jobs out of the queue at once.
3. `Woken` = the wake properties and `QuarantineIsFinal`, with
   `UnloadingIsStopping` and `SchedulingHasNoClaim`: between the completion of an
   action and `scheduleNextNativeAction` ready work has no wake, and it is the
   main thread being in that state, with no claim of its own, that closes the
   gap.  `WakeRequested` says what `RequestWake` guarantees, once for every
   handler.

Each layer has a lemma per group of actions (`RequestKeeps...`, `TakeKeeps...`,
`HostKeeps...`, ...), and `StepKeepsInv` puts them together.

4. `Driven` is about the executions: each is `Consistent` (its phase, cancel, hand-off
   and outcome agree, as those lemmas show of every operator of `Exec`), a queued one
   is as it was admitted, one that AutoCAD has just been given is so too or has
   expired, and a stopped scheduler neither acts nor queues executions.  `Steps` cuts
   all actions down to four kinds (an admission, the issue of the head,
   a completion, and `Quiet`, which takes jobs out and drives the active one), and
   the properties of executions and the limits are then proved of these four.

The limits rest on that: a completion puts one job back that was counted as the
active one, so the cardinality of what is held does not grow, and only an admission
adds to it, below the limit.  The timer's knowledge is kept because a tick shortens
the sleep and the deadlines alike, and because whatever sets a deadline leaves a
permit (`TimerSleepsOn`, `TimerLooksAgain`); its exception for operations is that of
the finding above.

The refinement rests on `Inv`.  The abstract state of a job is defined by its
answer; the invariant turns it into a function of `nextId`, `active` and `pending`
(`JobStateIs`), and the lemmas that follow say which abstract step a change of these
three is: `JobIsAdmitted`, `HeadIsStarted`, `JobsAreWithdrawn`, `ActiveIsCompleted`
(postponed, finished, or the halt of a quarantine), `StopRefines`, and
`NothingHappens` for the rest.

### The output channel

From `ChannelAssumption`: characters of any width up to a chunk, any chunk up to the
buffer, any number of writers.  `Kept` says that, until the output is discarded, what
was accepted is what was delivered followed by what is unread, that `queued_bytes` is
the length of the latter in bytes, and that no chunk is larger than a chunk may be.
Without the bytes the refinement cannot be shown either: publishing a fragment cuts
it at the room that the last chunk has left, and a chunk beyond the limit would leave
a negative room and no prefix to cut.  The unread text is in the chunks and the
fragment if there is a function that gives the text from each chunk on (`Holds`),
which each end of the queue changes in one place.  `EndIsComplete` says that an end
leaves no fragment behind.

### The execution driver

Three layers, each an invariant of every step of `HostStep`, `LispStep`,
`AdvanceStep` and the events in between:

1. `Ordered`: where the dispatch stands in AutoCAD.  The depth the host counts is the
   number of expressions that run, an invocation is queued only for a driver that has
   not started, the callback works on an execution or on nothing after a quarantine,
   and a dispatch that is finalizing has one finalizer.  Most of it is needed because
   a report of LISP may come while the host's callback is further up the stack.
2. `Clean`: what the drawing shows is known to the dispatch, while nothing is
   quarantined.  An open group is recorded as open or unknown, a symbol with a value
   as kept or staged.  `RestoresContext` needs only that the document to give back is
   remembered to the end (`RestoreKept`).
3. `Truth`: the phase of the execution says what the dispatch records of the group
   and of what is staged, since the answer is read off these two; and a conclusion
   that claims an unchanged drawing is only reached where it is unchanged.

The third has the hypothesis `~FormsMayEscape`, which is the setting of `exec_driver`;
`rollback_escape` shows that it is false without.

### The lifecycle

From `LifecycleAssumption` (the two bounds are natural numbers).  The count of
callbacks is one more than what AutoCAD has queued while a claimed wake has been
counted and not handed over, and a wake that was only claimed is not counted at
all: `OutstandingIsExact` has to say which.  What makes "unloaded" quiet is that
such a wake belongs to the rpc thread, which the unload joins: `WakeIsTheThreads`
says so, `ThreadIsHeld` that a running thread has its handle in the server
manager, `FinalizersCounted` that a finalizer in the queue is one of those
counted, and `GoneMeansQuiet` that the later steps of an unload keep what the
earlier ones established.

### The screenshots

From `OutputAssumption` (`Retention` at least 1): any number of processes, any
length of time, any number of faults.  `Owned` says that a staging name is the
name of the process at work on it, `Whole` that a published file is complete and
synced, `Timely` relates the clock to the processes, `CleansOldPictures` that
what a cleanup is about to remove is past its retention, and `Kept` that a path
given out is there.  The argument rests on names holding the time: a name removed
as too old cannot be published again, because a process at work started in this
unit of time or the one before.

### The session

From `SessionAssumption`; `NothingSent`, `SentLast`, `ReadFirst` and
`OutputsSent`, `OutputsRead` are the facts about sequences it rests on.  What a
client tells depends on messages that were sent in an earlier state, so the
invariant says of every message what stays true while it is on its way:

- `Held` ties the reservation to the phases of the handler, the response and the
  job, and says that a request which is not checked yet has neither.
- `Acknowledged`: an acknowledgement in the reader's hands, on the wire or noted
  describes the cancel, and a cancelled job cannot come to `Success`.
- `Closed`: `Finished` is the last event of its stream and carries the job's
  outcome, with the buffer empty.
- `Printing` counts the chunks: until an interrupt is noted, what is printed, on
  the wire and buffered is what was written.  With `Closed` it gives the output
  of a success to the last chunk.
- `AcceptedIsFirst`, `AnsweredOnce`, `Noted` and `Requested` are what the client's
  checks of the order of events rest on: the acceptance comes before all that
  needs it, a cancel is answered once, and the answer presupposes a cancel that
  the interrupt task did send.

### The value bridge

From `BridgeAssumption`: any number of forms and of events, lists of any depth.

The reader is a set of rules over the spans of a text, each from shorter spans, and
`Spans` applies them length by length.  `ReaderRules` is all that the rest uses of it:
what follows from spans by a rule is a span (`SpansClosed`).

A text that the printer has begun is not a value, so the invariant says of it what
would make it one.  `Has` says of an open list what its state promises: after a value,
that whatever text comes, if the reader finds the rest of a list there, then the
whole is a value; after a dot, that one value and the end make it so.  `Awaits` chains
the lists: in whatever way a value inside one ends, the list around it has the state
that the printer gave it already.  `Between` and `Shape` are that for each state of
the printer, and quantify over all texts that begin with what was printed (`Ext`), so
that every event is one use of the rules: `Placing` for a value that begins, `Closing`
for one that ends.  A second value at the top level is no value, but the printer
reports it at the end only; `Shape` says nothing from there on, and the end refuses.

The invariant has four more parts.  `Printing`: what the output accepted of the line,
with what the layout holds back, has the printer's shape as long as the port has not
failed; nothing is said of a port that has, since it writes no more.  `Leased`: a port
has the lease that the bridge opened, and the execution waits for it.  `Whole`: no
step begins within a line.  `Open`: only an execution that is done has an outcome.
`Whole` is what success rests on.  A form that returns well has its port's failure,
the lease's, or a value left open made into the failure of the step
(`CompletionFailure`), so the next step is reached with the line at its end.

### The drawing registry

From `RegistryAssumption`.  For closing (`Inv`), what the registry and the host's
subscriptions list plays no part, so that proof covers every list they could come to.
A database is one document's (`Owned`); while a close is under way its document is
not given another database, and no other document has unsaved work in the one
the close was aimed at (`Aimed`); unsaved work is marked, or its mark was saved
by the discard at work on it (`Marked`).

For the host (`Registry`), there is one subscription for every open document
(`OneEach`, `OpenOnes`).  It has its document's database or none, and a reactor only
in that (`Follows`).  A database that dies is known to it, and once the editor's
reactor has been told nothing but the address is left (`Buries`), so that freeing the
database leaves nobody with it whichever reactor heard first.  Where no reactor
watches, a refresh is due (`Watched`): that is what AutoCAD's refusals to attach or
to detach come to.  The ids need no more of the host than that its snapshot has one
entry per subscription: then a token that stays listed keeps its id, and another
gets one drawn against the snapshot before (`ReplaceFacts`).

The refresh, the retirement of a database and the snapshot are folds over the
subscriptions.  `FoldTurns` shows that such a fold is a loop, one turn per element;
what one turn does (`RefreshOne`) is then carried through by induction.

### Induction

The library's induction theorems take an operator as a parameter, which the provers
cannot instantiate.  What the proofs need of it they take from the well-foundedness of
the natural numbers (`WFMin`): a set of numbers that has 0 and successors is `Nat`
(`Induction`).  For a fold this gives, with the loop's body named by a record (`Turn`),
that the function which `FoldLeft` chooses exists and is determined.  That is done for
`Bytes` of the channel and for the three folds of the registry, once each, since a
lemma about all folds would again take an operator.  `Spans` of the value bridge is a
recursive function over lengths, of which the same has to be shown (`UpToExists`)
before it can be unfolded.

### Only model-checked

- Liveness (`EveryJobAnswered`, `PendingJobsExpire`, `EndReleasesWriters`,
  `WritersAreReleased`, `DispatchEnds`, `InterruptsAreHeard`,
  `EveryMessageReturns`): it rests on fairness and ENABLED, which TLAPS does not handle.
- `TruthfulOutcome` with forms that escape the undo group is false (see Findings).
- That these systems do not stop (deadlock) is TLC's for the scheduler.

## 5. Not modelled

- The form scanner (`lisp/src/lib.rs`) is a pure function over characters; the
  executions are modelled over the number of forms it yields.
- The AutoLISP library is evaluated by AutoCAD and has no part in the control of
  the program, other than the execution driver `exec.lsp`.
- The generated protocol, request validation and the local endpoint are types
  and conversions.
- The drawing RPC service and the CLI's drawing commands are one request each
  around a scheduler operation; process discovery, launching AutoCAD and the
  build are operating-system I/O.
- Of the screenshot pipeline, the capture in the plugin (pixel conversion and
  the bounds of a crop) is arithmetic over one frame; and the checks of what
  kind of file a destination is only refuse.
- Of the scheduler, the reservation of one screenshot at a time and the limit on
  queued source bytes; of the host, opening a drawing.
- Of the registry, names, paths, read-only, and what `Operation::complete`
  answers.
- Of the printer, widths, indents, numbers' texts and memory limits; a port that
  is dropped unfinished, which the host never does.

**Assumed of the outside.**  `beginExecuteInApplicationContext`, called on the
rpc thread, does not wait for the main thread (else an unload's join would hang).
AutoCAD gives no document a database and destroys it before any notification has
let the host see it, databases do not share an address (`Noticed`), and the
plugin is loaded before documents are open.  Ids are drawn afresh only against
the snapshot before (`drawing.rs:154`), as in the code, so an id of a drawing
closed earlier may come back by chance.  A screenshot takes less time than the
retention (`Tick`).

## 6. Plan

Done: all modules of section 2, and the proofs of `Exec`, `MutationScheduler` (with
its refinement), `OutputChannel` (with its refinement), `ExecDriver`, `ExecSession`,
`ValueBridge`, `DrawingRegistry`, `PluginLifecycle` and `ScreenshotOutput`.  Left: the
bounds of a screenshot's crop, and the form scanner as a function, checked against
resumed scans over bounded sources.
