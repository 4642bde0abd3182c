---------------------------- MODULE MCHashWatch ----------------------------
(* A small instance of HashWatch for TLC. *)
EXTENDS HashWatch, TLC

Perms == Permutations(Timers)
=============================================================================
