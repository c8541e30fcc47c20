---------------------------- MODULE OutputChannel ----------------------------
(***************************************************************************)
(* The output channel of an execution (exec/output.rs).  Writers hold      *)
(* clones of OutputSink: in the plugin one of them emits on AutoCAD's main *)
(* thread, where it may block, while others end the stream from either     *)
(* thread.  The reader is the response stream on the rpc thread, which     *)
(* polls next_chunk and may drop the future (its select! has another       *)
(* branch) or the stream itself at any await.                              *)
(*                                                                         *)
(* A mutex guards the state, so an action is one critical section with the *)
(* notifications sent just after it.  The condition variable's waiters are *)
(* the writers in state "waiting"; the Notify is a permit, as there is one *)
(* reader.                                                                 *)
(*                                                                         *)
(* Text is a sequence of characters, numbered in the order the writers     *)
(* emit them; what matters of a character is its length in UTF-8.          *)
(***************************************************************************)
EXTENDS Naturals, FiniteSets, SequencesExt, FiniteSetsExt

CONSTANTS
  Writers,        \* the clones of OutputSink there may ever be
  Creator,        \* the one that channel() returns
  MaxCharacters,  \* bound on the characters ever emitted
  Width,          \* the bytes of each character
  ChunkBytes,     \* OUTPUT_CHUNK_BYTES
  BufferBytes     \* OUTPUT_BUFFER_BYTES

Characters == 1..MaxCharacters

ASSUME ChannelAssumption ==
  /\ Creator \in Writers
  /\ MaxCharacters \in Nat
  /\ ChunkBytes \in Nat
  /\ BufferBytes \in Nat
  /\ ChunkBytes <= BufferBytes
  /\ Width \in [Characters -> 1..ChunkBytes]

VARIABLES
  \* struct State
  ready, pending, queuedBytes, terminal,
  \* data_available, and the writers blocked on space_available
  permit, writer,
  \* what each writer's emit has left, and the next character of the program
  text, nextCharacter,
  \* the reader
  reader,
  \* history: all text accepted, and all text read
  accepted, delivered

stateVars   == <<ready, pending, queuedBytes, terminal>>
writerVars  == <<writer, text, nextCharacter>>
historyVars == <<accepted, delivered>>
vars == <<stateVars, permit, writerVars, reader, historyVars>>

Terminals == {"Disconnected", "Cancelled", "Stopped", "Finished"}

Bytes(t) == FoldLeft(LAMBDA sum, c : sum + Width[c], 0, t)

Prefix(t, n) == SubSeq(t, 1, n)
Rest(t, n)   == SubSeq(t, n + 1, Len(t))

\* utf8_prefix_len: the characters of t that fit into limit bytes.
PrefixLength(t, limit) == Max({n \in 0..Len(t) : Bytes(Prefix(t, n)) <= limit})

-----------------------------------------------------------------------------
(***************************************************************************)
(* publish_pending: the ready chunks after it.  The last of them is filled *)
(* up first.                                                               *)
(***************************************************************************)
Published(chunks, t) ==
  LET n == IF chunks = <<>> THEN 0 ELSE PrefixLength(t, ChunkBytes - Bytes(Last(chunks)))
      filled == IF n = 0 THEN chunks
                ELSE [chunks EXCEPT ![Len(chunks)] = @ \o Prefix(t, n)]
  IN IF n = Len(t) THEN filled ELSE Append(filled, Rest(t, n))

PublishPending ==
  /\ ready' = Published(ready, pending)
  /\ pending' = <<>>
  /\ UNCHANGED queuedBytes

Discard ==
  /\ ready' = <<>>
  /\ pending' = <<>>
  /\ queuedBytes' = 0

NotifyWriters == writer' = [w \in Writers |-> IF writer[w] = "waiting" THEN "emitting"
                                              ELSE writer[w]]

\* Mutant of WakeAll: the end is news for the reader only.
WakeReaderOnly == UNCHANGED writer /\ permit' = TRUE

WakeAll == NotifyWriters /\ permit' = TRUE

-----------------------------------------------------------------------------
(***************************************************************************)
(* OutputSink::emit: each step is one round of its outer loop, from the    *)
(* lock to the fragment that is taken, the result that ends it, or the     *)
(* wait that gives the lock up.                                            *)
(***************************************************************************)
Room(held) == Min({ChunkBytes - Bytes(held), BufferBytes - queuedBytes})

Emit(w, n) ==
  /\ writer[w] = "idle"
  /\ n > 0
  /\ nextCharacter + n <= MaxCharacters + 1
  /\ text' = [text EXCEPT ![w] = [i \in 1..n |-> nextCharacter + i - 1]]
  /\ nextCharacter' = nextCharacter + n
  /\ writer' = [writer EXCEPT ![w] = "emitting"]
  /\ UNCHANGED <<stateVars, permit, reader, historyVars>>

EmitEnds(w) ==
  /\ writer[w] = "emitting"
  /\ terminal # "none"
  /\ text' = [text EXCEPT ![w] = <<>>]
  /\ writer' = [writer EXCEPT ![w] = "idle"]
  /\ UNCHANGED <<stateVars, permit, nextCharacter, reader, historyVars>>

\* Mutant of TakeFragment: nobody is told of the chunk that is full.
TakeFragmentQuietly(w, chunks, held, n) ==
  LET fragment == held \o Prefix(text[w], n)
      full     == Bytes(fragment) = ChunkBytes
  IN /\ n > 0
     /\ pending' = IF full THEN <<>> ELSE fragment
     /\ ready' = IF full THEN Published(chunks, fragment) ELSE chunks
     /\ queuedBytes' = queuedBytes + Bytes(Prefix(text[w], n))
     /\ accepted' = accepted \o Prefix(text[w], n)
     /\ text' = [text EXCEPT ![w] = Rest(@, n)]
     /\ writer' = [writer EXCEPT ![w] = IF n = Len(text[w]) THEN "idle" ELSE "emitting"]
     /\ permit' = (permit \/ chunks # ready)

\* The writer adds n > 0 characters to the fragment that held already has.
TakeFragment(w, chunks, held, n) ==
  LET fragment == held \o Prefix(text[w], n)
      full     == Bytes(fragment) = ChunkBytes
  IN /\ n > 0
     /\ pending' = IF full THEN <<>> ELSE fragment
     /\ ready' = IF full THEN Published(chunks, fragment) ELSE chunks
     /\ queuedBytes' = queuedBytes + Bytes(Prefix(text[w], n))
     /\ accepted' = accepted \o Prefix(text[w], n)
     /\ text' = [text EXCEPT ![w] = Rest(@, n)]
     /\ writer' = [writer EXCEPT ![w] = IF n = Len(text[w]) THEN "idle" ELSE "emitting"]
     /\ permit' = (permit \/ full \/ chunks # ready)

EmitFragment(w) ==
  /\ writer[w] = "emitting"
  /\ terminal = "none"
  /\ TakeFragment(w, ready, pending, PrefixLength(text[w], Room(pending)))
  /\ UNCHANGED <<terminal, nextCharacter, reader, delivered>>

\* There is no room beside the pending fragment: it is published first.
EmitAfterPublishing(w) ==
  /\ writer[w] = "emitting"
  /\ terminal = "none"
  /\ pending # <<>>
  /\ PrefixLength(text[w], Room(pending)) = 0
  /\ TakeFragment(w, Published(ready, pending), <<>>, PrefixLength(text[w], Room(<<>>)))
  /\ UNCHANGED <<terminal, nextCharacter, reader, delivered>>

\* Nor is there room without it: the writer blocks.
EmitWaits(w) ==
  /\ writer[w] = "emitting"
  /\ terminal = "none"
  /\ PrefixLength(text[w], Room(pending)) = 0
  /\ PrefixLength(text[w], Room(<<>>)) = 0
  /\ PublishPending
  /\ permit' = (permit \/ pending # <<>>)
  /\ writer' = [writer EXCEPT ![w] = "waiting"]
  /\ UNCHANGED <<terminal, text, nextCharacter, reader, historyVars>>

EmitStep(w) == EmitEnds(w) \/ EmitFragment(w) \/ EmitAfterPublishing(w) \/ EmitWaits(w)

-----------------------------------------------------------------------------
(***************************************************************************)
(* The other methods of OutputSink.                                        *)
(***************************************************************************)
Flush(w) ==
  /\ writer[w] = "idle"
  /\ IF terminal = "none" THEN PublishPending ELSE UNCHANGED <<ready, pending, queuedBytes>>
  /\ permit' = TRUE
  /\ UNCHANGED <<terminal, writerVars, reader, historyVars>>

RequestCancel(w) ==
  /\ writer[w] = "idle"
  /\ PublishPending
  /\ terminal' = IF terminal \in {"Disconnected", "Stopped"} THEN terminal ELSE "Cancelled"
  /\ WakeAll
  /\ UNCHANGED <<text, nextCharacter, reader, historyVars>>

\* Mutant of Finish: the fragment that is pending is not published.
FinishUnpublished(w) ==
  /\ writer[w] = "idle"
  /\ UNCHANGED <<ready, pending, queuedBytes>>
  /\ terminal' = IF terminal = "none" THEN "Finished" ELSE terminal
  /\ WakeAll
  /\ UNCHANGED <<text, nextCharacter, reader, historyVars>>

Finish(w) ==
  /\ writer[w] = "idle"
  /\ PublishPending
  /\ terminal' = IF terminal = "none" THEN "Finished" ELSE terminal
  /\ WakeAll
  /\ UNCHANGED <<text, nextCharacter, reader, historyVars>>

Stop(w) ==
  /\ writer[w] = "idle"
  /\ Discard
  /\ terminal' = IF terminal = "Disconnected" THEN terminal ELSE "Stopped"
  /\ WakeAll
  /\ UNCHANGED <<text, nextCharacter, reader, historyVars>>

Alive == {w \in Writers : writer[w] \in {"idle", "emitting", "waiting"}}

Clone(w, copy) ==
  /\ w \in Alive
  /\ writer[copy] = "absent"
  /\ writer' = [writer EXCEPT ![copy] = "idle"]
  /\ UNCHANGED <<stateVars, permit, text, nextCharacter, reader, historyVars>>

\* The drop of the last clone ends a stream that has no end yet; no writer can be
\* waiting then.
Drop(w) ==
  LET ends == Alive = {w} /\ terminal = "none" IN
  /\ writer[w] = "idle"
  /\ writer' = [writer EXCEPT ![w] = "dropped"]
  /\ IF ends THEN Discard ELSE UNCHANGED <<ready, pending, queuedBytes>>
  /\ terminal' = IF ends THEN "Stopped" ELSE terminal
  /\ permit' = (permit \/ ends)
  /\ UNCHANGED <<text, nextCharacter, reader, historyVars>>

-----------------------------------------------------------------------------
(***************************************************************************)
(* OutputStream: next_chunk, its future, and the drop of the stream.       *)
(***************************************************************************)
Looks == reader \in {"away", "woken"}

\* Mutant of NextChunk: the writers are not told of the space.
NextChunkQuietly ==
  /\ Looks
  /\ ready # <<>>
  /\ ready' = Tail(ready)
  /\ queuedBytes' = queuedBytes - Bytes(Head(ready))
  /\ delivered' = delivered \o Head(ready)
  /\ reader' = "away"
  /\ UNCHANGED <<pending, terminal, permit, writerVars, accepted>>

NextChunk ==
  /\ Looks
  /\ ready # <<>>
  /\ ready' = Tail(ready)
  /\ queuedBytes' = queuedBytes - Bytes(Head(ready))
  /\ delivered' = delivered \o Head(ready)
  /\ reader' = "away"
  /\ NotifyWriters
  /\ UNCHANGED <<pending, terminal, permit, text, nextCharacter, accepted>>

NextIsNone ==
  /\ Looks
  /\ ready = <<>>
  /\ terminal # "none"
  /\ reader' = "ended"
  /\ UNCHANGED <<stateVars, permit, writerVars, historyVars>>

ReaderWaits ==
  /\ Looks
  /\ ready = <<>>
  /\ terminal = "none"
  /\ reader' = "waiting"
  /\ UNCHANGED <<stateVars, permit, writerVars, historyVars>>

ReaderWakes ==
  /\ reader = "waiting"
  /\ permit
  /\ permit' = FALSE
  /\ reader' = "woken"
  /\ UNCHANGED <<stateVars, writerVars, historyVars>>

\* The future is dropped; a notification it has not seen stays with the Notify.
DropRead ==
  /\ reader = "waiting"
  /\ reader' = "away"
  /\ UNCHANGED <<stateVars, permit, writerVars, historyVars>>

Disconnect ==
  /\ reader \in {"away", "waiting", "ended"}
  /\ reader' = IF reader = "ended" THEN "done" ELSE "gone"
  /\ terminal' = "Disconnected"
  /\ Discard
  /\ WakeAll
  /\ UNCHANGED <<text, nextCharacter, historyVars>>

-----------------------------------------------------------------------------
Init ==
  /\ ready = <<>>
  /\ pending = <<>>
  /\ queuedBytes = 0
  /\ terminal = "none"
  /\ permit = FALSE
  /\ writer = [w \in Writers |-> IF w = Creator THEN "idle" ELSE "absent"]
  /\ text = [w \in Writers |-> <<>>]
  /\ nextCharacter = 1
  /\ reader = "away"
  /\ accepted = <<>>
  /\ delivered = <<>>

ReaderStep == NextChunk \/ NextIsNone \/ ReaderWaits \/ ReaderWakes

WriterStep(w) ==
  \/ \E n \in Characters : Emit(w, n)
  \/ EmitStep(w)
  \/ Flush(w)
  \/ RequestCancel(w)
  \/ Finish(w)
  \/ Stop(w)
  \/ \E copy \in Writers : Clone(w, copy)
  \/ Drop(w)

Next ==
  \/ \E w \in Writers : WriterStep(w)
  \/ ReaderStep
  \/ DropRead
  \/ Disconnect

Spec == Init /\ [][Next]_vars

(***************************************************************************)
(* Fairness.  A writer inside emit runs until it returns or blocks.  That  *)
(* the reader keeps reading is the client's choice, so it is an assumption *)
(* of the one property that needs it.                                      *)
(***************************************************************************)
FairSpec == Spec /\ \A w \in Writers : WF_vars(EmitStep(w))

ReaderKeepsReading == WF_vars(ReaderStep)

-----------------------------------------------------------------------------
TypeOK ==
  /\ ready \in Seq(Seq(Characters))
  /\ pending \in Seq(Characters)
  /\ queuedBytes \in Nat
  /\ terminal \in Terminals \cup {"none"}
  /\ permit \in BOOLEAN
  /\ writer \in [Writers -> {"absent", "idle", "emitting", "waiting", "dropped"}]
  /\ text \in [Writers -> Seq(Characters)]
  /\ nextCharacter \in 1..(MaxCharacters + 1)
  /\ reader \in {"away", "waiting", "woken", "ended", "done", "gone"}
  /\ accepted \in Seq(Characters)
  /\ delivered \in Seq(Characters)

\* A reader that sleeps over a chunk or over the end of the stream has a
\* notification coming, also when it dropped an earlier read.
SleepingReaderIsNotified ==
  reader = "waiting" /\ (ready # <<>> \/ terminal # "none") => permit

\* An emit returns once the stream has an end, whether or not anybody reads: a
\* cancel, a stop and a disconnect release AutoCAD's main thread.
EndReleasesWriters ==
  \A w \in Writers :
    (terminal # "none" /\ writer[w] \in {"emitting", "waiting"})
      ~> writer[w] \notin {"emitting", "waiting"}

\* While the reader keeps reading, every emit returns.
WritersAreReleased ==
  ReaderKeepsReading =>
    \A w \in Writers :
      writer[w] \in {"emitting", "waiting"} ~> writer[w] \notin {"emitting", "waiting"}

-----------------------------------------------------------------------------
Stream ==
  INSTANCE OutputStreams WITH
    fate  <- CASE terminal = "none" -> "open"
               [] terminal \in {"Finished", "Cancelled"} -> "draining"
               [] terminal \in {"Stopped", "Disconnected"} -> "discarded",
    ended <- reader \in {"ended", "done"}

\* The channel implements an ordered stream with an end.
StreamSpec == Stream!Spec
=============================================================================
