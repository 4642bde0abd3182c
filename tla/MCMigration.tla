----------------------------- MODULE MCMigration -----------------------------
(* Migration for TLC. *)
EXTENDS Migration, TLC

ProcPerms == Permutations(Procs)
=============================================================================
