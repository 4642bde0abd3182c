------------------------------ MODULE Migration ------------------------------
(***************************************************************************)
(* storage.Open and Store.Migrate.  Every ccguard command that uses the    *)
(* database migrates it first: the daemon, each `ccguard hook-wrap',       *)
(* `approve' and so on are processes that may do so at the same time.      *)
(* Migrate is no transaction but a series of statements, each of them      *)
(* atomic; another process may run any of its own between two of them, and *)
(* the process may be killed or refused the lock at each.                  *)
(*                                                                         *)
(* The schema is the set of the names of its tables, its indexes and the   *)
(* one column that was added later.                                        *)
(***************************************************************************)
EXTENDS Naturals, Sequences

CONSTANT Procs     \* processes; one that has ended may come again

Column == "events.ioc_id"

(* A mutant: the column before its table. *)
StepsColumnFirst == <<Column, "events", "behavior_events">>

(* What Migrate creates, in its order. *)
Steps == <<"approved_hashes", "approved_hashes_path_idx",
           "events", "events_ts_idx", "events_path_idx", Column,
           "hook_executions", "hook_executions_name_ts_idx", "baseline_stats",
           "behavior_events", "behavior_events_ts_idx", "behavior_events_pid_idx">>

Last == Len(Steps)
UpTo(n) == {Steps[i] : i \in 1..n}
Complete == UpTo(Last)

(* The table a statement of Migrate reads or changes, if it must exist. *)
Needs(o) ==
  CASE o = "approved_hashes_path_idx" -> {"approved_hashes"}
    [] o \in {"events_ts_idx", "events_path_idx", Column} -> {"events"}
    [] o = "hook_executions_name_ts_idx" -> {"hook_executions"}
    [] o \in {"behavior_events_ts_idx", "behavior_events_pid_idx"} -> {"behavior_events"}
    [] OTHER -> {}

VARIABLES
  schema,      \* the schema of the database file
  at,          \* [Procs -> the statement Migrate is at, 0 when it is not running]
  absent,      \* the processes whose table_info query did not show the column
  result,      \* how the last Migrate of each process ended
  overlapped,  \* history: whether another Migrate ran during the last one
  overtaken    \* history: how often its ALTER found the column there

vars == <<schema, at, absent, result, overlapped, overtaken>>

Results == {"none", "migrated", "interrupted", "duplicate column", "no such table"}
Running == {p \in Procs : at[p] # 0}

(* The type invariant: the schema is an initial part of what Migrate        *)
(* creates, and nobody has decided to ALTER but at the column.              *)
TypeOK ==
  /\ schema \in {UpTo(n) : n \in 0..Last}
  /\ at \in [Procs -> 0..Last]
  /\ absent \in SUBSET {p \in Procs : at[p] # 0 /\ Steps[at[p]] = Column}
  /\ result \in [Procs -> Results]
  /\ overlapped \in SUBSET Procs
  /\ overtaken \in [Procs -> Nat]

(* A new file, one an older ccguard left, or one a migration was cut in.    *)
Init ==
  /\ schema \in {UpTo(n) : n \in 0..Last}
  /\ at = [p \in Procs |-> 0]
  /\ absent = {}
  /\ result = [p \in Procs |-> "none"]
  /\ overlapped = {}
  /\ overtaken = [p \in Procs |-> 0]
-----------------------------------------------------------------------------
(* A command starts: Open, then the first statement. *)
Start(p) ==
  /\ at[p] = 0
  /\ at' = [at EXCEPT ![p] = 1]
  /\ result' = [result EXCEPT ![p] = "none"]
  /\ overlapped' = IF Running = {} THEN overlapped \ {p}
                   ELSE overlapped \cup Running \cup {p}
  /\ UNCHANGED <<schema, absent, overtaken>>

Ends(p, how) ==
  /\ at' = [at EXCEPT ![p] = 0]
  /\ absent' = absent \ {p}
  /\ result' = [result EXCEPT ![p] = how]

(* A mutant: the statement after the last one. *)
AdvancePast(p) ==
  at' = [at EXCEPT ![p] = @ + 1] /\ absent' = absent \ {p} /\ UNCHANGED result

Advance(p) ==
  IF at[p] = Last
    THEN Ends(p, "migrated")
    ELSE /\ at' = [at EXCEPT ![p] = @ + 1]
         /\ absent' = absent \ {p}
         /\ UNCHANGED result

(* Any error ends Migrate, and the command with it.  A mutant: it goes on.  *)
AbortGoesOn(p, how) == Advance(p)
Abort(p, how) == Ends(p, how)

(* CREATE ... IF NOT EXISTS. *)
Create(p) ==
  /\ p \in Running /\ Steps[at[p]] # Column
  /\ IF Needs(Steps[at[p]]) \subseteq schema
       THEN schema' = schema \cup {Steps[at[p]]} /\ Advance(p)
       ELSE UNCHANGED schema /\ Abort(p, "no such table")
  /\ UNCHANGED <<overlapped, overtaken>>

(* A mutant: the column is taken to be missing. *)
NeverShown == FALSE

(* addColumnIfMissing: what PRAGMA table_info shows ... *)
Shown == Column \in schema

QueryColumn(p) ==
  /\ p \in Running /\ Steps[at[p]] = Column /\ p \notin absent
  /\ IF Shown
       THEN Advance(p)
       ELSE absent' = absent \cup {p} /\ UNCHANGED <<at, result>>
  /\ UNCHANGED <<schema, overlapped, overtaken>>

(* ... and ALTER TABLE, a statement of its own. *)
AddColumn(p) ==
  /\ p \in absent
  /\ IF ~ Needs(Column) \subseteq schema
       THEN Abort(p, "no such table") /\ UNCHANGED <<schema, overtaken>>
     ELSE IF Column \in schema
       THEN /\ Abort(p, "duplicate column")
            /\ overtaken' = [overtaken EXCEPT ![p] = @ + 1]
            /\ UNCHANGED schema
     ELSE schema' = schema \cup {Column} /\ Advance(p) /\ UNCHANGED overtaken
  /\ UNCHANGED overlapped

(* The lock is not to be had within busy_timeout, the disk is full, or the  *)
(* process is killed: the statement has no effect.                          *)
Interrupted(p) ==
  /\ p \in Running
  /\ Abort(p, "interrupted")
  /\ UNCHANGED <<schema, overlapped, overtaken>>

Next ==
  \E p \in Procs :
    Start(p) \/ Create(p) \/ QueryColumn(p) \/ AddColumn(p) \/ Interrupted(p)

Spec == Init /\ [][Next]_vars
-----------------------------------------------------------------------------
(* A command that goes on after Migrate finds every table, index and column *)
(* it will use, whatever file it began with and whoever migrated with it    *)
(* (storage.go:63-142).                                                     *)
MigratedIsComplete ==
  \A p \in Procs : result[p] = "migrated" => schema = Complete

(* A Migrate no other one ran with succeeds on every file, that of an old   *)
(* version and one an interrupted Migrate left included, unless a statement *)
(* is refused: nobody has to repair a database by hand (storage.go:144-146, *)
(* "This makes column-level migrations idempotent").                        *)
AloneSucceeds ==
  \A p \in Procs :
    result[p] \notin {"none", "migrated", "interrupted"} => p \in overlapped

(* Of Migrates that run together only the ALTER can fail, and a command     *)
(* meets that once at most: when it is run again it succeeds, so a hook     *)
(* that hook-wrap did not run for this (hookwrap.go:74) is run the next     *)
(* time (storage.go:63, "Safe to call repeatedly").                         *)
OvertakenOnce ==
  \A p \in Procs : overtaken[p] <= 1 /\ result[p] # "no such table"
=============================================================================
