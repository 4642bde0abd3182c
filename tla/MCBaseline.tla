----------------------------- MODULE MCBaseline -----------------------------
(* A small instance of Baseline for TLC. *)
EXTENDS Baseline, TLC

WrapPerms == Permutations(Wraps)
=============================================================================
