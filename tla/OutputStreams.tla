---------------------------- MODULE OutputStreams ----------------------------
(***************************************************************************)
(* What the output channel of an execution promises its two ends, without  *)
(* chunks, limits or blocking: the reader is given what was accepted, once *)
(* and in order; once the stream has an end nothing is accepted any more,  *)
(* and the reader hears of the end only after everything accepted before   *)
(* it, unless the end was one that discards the output.                    *)
(***************************************************************************)
EXTENDS SequencesExt

VARIABLES
  accepted,     \* the text the channel has taken from its writers
  delivered,    \* the text it has given to the reader
  fate,         \* "open", "draining" (it ended, the rest is read) or "discarded"
  ended         \* the reader has been told that there is no more

vars == <<accepted, delivered, fate, ended>>

Init ==
  /\ accepted = <<>>
  /\ delivered = <<>>
  /\ fate = "open"
  /\ ended = FALSE

Accept ==
  /\ fate = "open"
  /\ IsStrictPrefix(accepted, accepted')
  /\ UNCHANGED <<delivered, fate, ended>>

Deliver ==
  /\ fate # "discarded"
  /\ ~ended
  /\ IsStrictPrefix(delivered, delivered')
  /\ IsPrefix(delivered', accepted)
  /\ UNCHANGED <<accepted, fate, ended>>

Close ==
  /\ \/ fate = "open" /\ fate' \in {"draining", "discarded"}
     \/ fate = "draining" /\ fate' = "discarded"
  /\ UNCHANGED <<accepted, delivered, ended>>

TellTheEnd ==
  /\ fate # "open"
  /\ fate = "draining" => delivered = accepted
  /\ ended' = TRUE
  /\ UNCHANGED <<accepted, delivered, fate>>

Next == Accept \/ Deliver \/ Close \/ TellTheEnd

Spec == Init /\ [][Next]_vars
=============================================================================
