------------------------------ MODULE MCLogTail ------------------------------
(* LogTail for TLC. *)
EXTENDS LogTail, TLC

Perms == Permutations(Paths) \cup Permutations(Files) \cup Permutations(Tailers)
=============================================================================
