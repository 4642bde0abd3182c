------------------------------ MODULE PolicyDB ------------------------------
(***************************************************************************)
(* The behavioral policies of ccguard: which of those in the user's        *)
(* directory the daemon runs with, and what `ccguard policy check' says of *)
(* one file.  Which policies match an event is left to the constant        *)
(* Sensitive of EventPipe.                                                 *)
(***************************************************************************)
EXTENDS Lists

CONSTANT Defaults  \* the policies compiled into the binary, a sequence

Syscalls == {"execve", "openat", "connect"}

(* validatePolicy. *)
Valid(p) == p.syscall \in Syscalls /\ p.action \in {"alert", "warn"}

(* The built-in file holds nothing that is not valid. *)
ASSUME DefaultsAssumption ==
  /\ Len(Defaults) \in Nat
  /\ Defaults = [i \in 1..Len(Defaults) |-> Defaults[i]]
  /\ \A i \in 1..Len(Defaults) : Valid(Defaults[i])
-----------------------------------------------------------------------------
(* A mutant: one invalid policy costs its file all of them. *)
AcceptedAllOrNone(file) ==
  IF \A i \in 1..Len(file.policies) : Valid(file.policies[i])
    THEN file.policies ELSE <<>>

(* LoadDir, what one entry of the directory adds: a file that is not YAML,  *)
(* cannot be read or does not parse is skipped, and each invalid policy.    *)
Accepted(file) ==
  Chosen(file.policies, {i \in 1..Len(file.policies) : Valid(file.policies[i])})

Extensions == {".yaml", ".yml"}

Contribution(file) ==
  IF file.ext \in Extensions /\ file.parses THEN Accepted(file) ELSE <<>>

(* The walk goes through the entries in order and ends, with what it has,   *)
(* at the first one it cannot visit.                                        *)
WalkError(dir) == \E i \in 1..Len(dir) : ~ dir[i].visitable

Visited(dir) ==
  CHOOSE n \in 0..Len(dir) :
    /\ \A i \in 1..n : dir[i].visitable
    /\ n < Len(dir) => ~ dir[n + 1].visitable

LoadDir(dir) == FlattenSeq([i \in 1..Visited(dir) |-> Contribution(dir[i])])
-----------------------------------------------------------------------------
(* A mutant: an invalid policy is skipped here, too. *)
ParsedSilently(db, p) ==
  IF Valid(p) THEN [db EXCEPT !.policies = Append(@, p)] ELSE db

(* parseBytes, a loop of its own: a policy is added or counted as an error. *)
Parsed(db, p) ==
  IF Valid(p) THEN [db EXCEPT !.policies = Append(@, p)]
              ELSE [db EXCEPT !.errs = @ + 1]

ParseBytes(policies) ==
  LET db[n \in 0..Len(policies)] ==
        IF n = 0 THEN [policies |-> <<>>, errs |-> 0]
                 ELSE Parsed(db[n - 1], policies[n])
  IN db[Len(policies)]

(* LoadFile, of `ccguard policy check': one error for a file that cannot be *)
(* read or parsed; what the file is called does not matter to it.           *)
LoadFile(file) ==
  IF file.parses THEN ParseBytes(file.policies)
                 ELSE [policies |-> <<>>, errs |-> 1]
-----------------------------------------------------------------------------
(* LoadWithFallback: the built-in policies stand in whenever nothing was    *)
(* loaded.  `watch' goes on with what it returns, error or not.             *)
LoadWithFallback(dir) ==
  LET db == LoadDir(dir) IN
  IF WalkError(dir) THEN [policies |-> db, source |-> "", err |-> TRUE]
  ELSE IF Len(db) > 0 THEN [policies |-> db, source |-> "user", err |-> FALSE]
  ELSE [policies |-> ParseBytes(Defaults).policies, source |-> "built-in",
        err |-> FALSE]
=============================================================================
