------------------------------ MODULE MCUpdate ------------------------------
(* Small instances of UpdateService for TLC. *)
EXTENDS UpdateService, TLC

RunSymmetry == Permutations(Runs)
=============================================================================
