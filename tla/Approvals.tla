----------------------------- MODULE Approvals -----------------------------
(***************************************************************************)
(* The approved_hashes and events tables of the SQLite store, and the two  *)
(* commands that write approvals: `ccguard approve' and `ccguard init'.    *)
(*                                                                         *)
(* Each command is a process of its own: every statement it runs is one    *)
(* transaction, nothing holds the statements of a command together, and it *)
(* may be interrupted between any two of them.                             *)
(***************************************************************************)
EXTENDS ClaudeFiles

VARIABLES
  approved,    \* approved_hashes: a set of <<file, hash>>
  audit,       \* events: a set of [file, hash, kind]; times are left out
  cli,         \* the command that is running: [pc, file, hash, todo]
  revoked      \* history: the approvals ClearApproved has removed

approvalVars == <<approved, audit, cli, revoked>>

AuditKinds == {"approved", "approved-change", "unapproved-change",
               "ioc-match", "removed"}

AuditRow == [file : Files, hash : Contents \cup {Absent}, kind : AuditKinds]

Idle == [pc |-> "idle", file |-> Absent, hash |-> Absent, todo |-> {}]

CliType ==
  [pc   : {"idle", "clear", "resolve", "next", "insert", "record"},
   file : Files \cup {Absent},
   hash : Contents \cup {Absent},
   todo : SUBSET Files]

(* What insert and record work on is a real file and a real hash. *)
CliHolds == cli.pc \in {"insert", "record"} =>
              cli.file \in Files /\ cli.hash \in Contents

ApprovalsTypeOK ==
  /\ approved \in SUBSET (Files \X Contents)
  /\ audit \in SUBSET AuditRow
  /\ cli \in CliType
  /\ CliHolds
  /\ revoked \in SUBSET (Files \X Contents)

ApprovalsInit ==
  /\ approved = {} /\ audit = {} /\ revoked = {}
  /\ cli = Idle
-----------------------------------------------------------------------------
IsApproved(f, h) == <<f, h>> \in approved

CanHash(f) == content[f] # Absent /\ f \notin sealed

(* ccguard status: the state it prints for f, from a hash it takes itself. *)
Drift(f) == CanHash(f) /\ ~ IsApproved(f, content[f])

(* The INSERT OR REPLACE of Approve: the key of the table is the pair. *)
AfterApprove(f, h) == approved \cup {<<f, h>>}
-----------------------------------------------------------------------------
(* `ccguard approve f' hashes f; if it cannot, the command fails. *)
ApproveCommand(f) ==
  /\ CountOp
  /\ cli = Idle
  /\ CanHash(f)
  /\ cli' = [pc |-> "insert", file |-> f, hash |-> content[f], todo |-> {}]
  /\ UNCHANGED <<approved, audit, revoked>>

(* `ccguard init' refuses a non-empty baseline unless it is forced. *)
InitCommand(force) ==
  /\ CountOp
  /\ cli = Idle
  /\ approved = {} \/ force
  /\ cli' = [Idle EXCEPT !.pc = IF force THEN "clear" ELSE "resolve"]
  /\ UNCHANGED <<approved, audit, revoked>>

ClearApproved ==
  /\ cli.pc = "clear"
  /\ approved' = {}
  /\ revoked' = revoked \cup approved
  /\ cli' = [cli EXCEPT !.pc = "resolve"]
  /\ UNCHANGED <<audit, ops>>

ResolveTargets ==
  /\ cli.pc = "resolve"
  /\ cli' = [cli EXCEPT !.pc = "next",
                        !.todo = {f \in Files : content[f] # Absent}]
  /\ UNCHANGED <<approved, audit, revoked, ops>>

(* init hashes its next target, or skips the one it cannot read. *)
InitTarget(f) ==
  /\ cli.pc = "next"
  /\ f \in cli.todo
  /\ cli' = IF CanHash(f)
              THEN [cli EXCEPT !.pc = "insert", !.file = f,
                               !.hash = content[f], !.todo = @ \ {f}]
              ELSE [cli EXCEPT !.todo = @ \ {f}]
  /\ UNCHANGED <<approved, audit, revoked, ops>>

InsertApproval ==
  /\ cli.pc = "insert"
  /\ approved' = AfterApprove(cli.file, cli.hash)
  /\ cli' = [cli EXCEPT !.pc = "record"]
  /\ UNCHANGED <<audit, revoked, ops>>

(* The second statement of Approve, its event; then the next target. *)
RecordApproval ==
  /\ cli.pc = "record"
  /\ audit' = audit \cup
       {[file |-> cli.file, hash |-> cli.hash, kind |-> "approved"]}
  /\ cli' = [Idle EXCEPT !.pc = "next", !.todo = cli.todo]
  /\ UNCHANGED <<approved, revoked, ops>>

(* The command returns, fails at a statement, or is interrupted. *)
CommandEnds ==
  /\ cli # Idle
  /\ cli' = Idle
  /\ UNCHANGED <<approved, audit, revoked, ops>>

ApprovalsNext ==
  \/ \E f \in Files : ApproveCommand(f) \/ InitTarget(f)
  \/ \E force \in BOOLEAN : InitCommand(force)
  \/ ClearApproved \/ ResolveTargets
  \/ InsertApproval \/ RecordApproval
  \/ CommandEnds
=============================================================================
