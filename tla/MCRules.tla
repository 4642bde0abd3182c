------------------------------ MODULE MCRules ------------------------------
(* Rules for TLC: two default policies, told apart from what users write. *)
EXTENDS Rules

MCDefaults == <<[id |-> <<0, 1>>, syscall |-> "openat", action |-> "alert"],
                [id |-> <<0, 2>>, syscall |-> "connect", action |-> "warn"]>>
=============================================================================
