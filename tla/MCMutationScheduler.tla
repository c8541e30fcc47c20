------------------------ MODULE MCMutationScheduler ------------------------
(***************************************************************************)
(* The mutation scheduler for TLC: all its constants are given by the      *)
(* configurations.                                                         *)
(***************************************************************************)
EXTENDS MutationScheduler
=============================================================================
