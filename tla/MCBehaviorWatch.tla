--------------------------- MODULE MCBehaviorWatch ---------------------------
(* BehaviorWatch for TLC. *)
EXTENDS BehaviorWatch, TLC

PidPerms == Permutations(Pids)

(* Machines with procfs only, and such with anything besides. *)
OnlyProcfs == {{"procfs"}}
AnyMachine == {{"procfs"}, {"procfs", "auditd"}, {"procfs", "auditd", "ebpf"}}
=============================================================================
