--------------------------- MODULE MCOutputChannel ---------------------------
(***************************************************************************)
(* The output channel with chunks of three bytes in a buffer of two        *)
(* chunks, and characters of one and two bytes: a two-byte character meets *)
(* a chunk and a buffer with one byte left.                                *)
(***************************************************************************)
EXTENDS OutputChannel

MixedWidth == [c \in Characters |-> IF c % 2 = 0 THEN 1 ELSE 2]
=============================================================================
