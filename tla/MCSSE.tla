------------------------------- MODULE MCSSE -------------------------------
(* Small instances of SSEBroadcaster for TLC. *)
EXTENDS SSEBroadcaster, TLC

ThreadSymmetry == Permutations(Threads)
=============================================================================
