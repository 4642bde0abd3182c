--------------------------- MODULE BehaviorWatch ---------------------------
(***************************************************************************)
(* Layer 4 of ccguard inside `ccguard watch': the backends, the ProcTree   *)
(* of ProcForest they share with the PID socket, and the EventPipe.        *)
(*                                                                         *)
(* SelectBackend chooses a backend when the daemon starts.  procfs polls   *)
(* /proc for new children of tracked processes; auditd tails the audit log *)
(* and keeps the records of tracked processes; eBPF never starts.          *)
(***************************************************************************)
EXTENDS ProcForest, EventPipe, LineReader

CONSTANTS
  BackendName, \* --behavior-backend: "auto", "off" or a backend
  Machines     \* the sets of backends that may be available at a start

Priority == [ebpf |-> 30, auditd |-> 20, procfs |-> 10]
Backends == DOMAIN Priority

ASSUME BehaviorAssumption ==
  /\ BackendName \in Backends \cup {"auto", "off"}
  /\ Machines \subseteq SUBSET Backends

VARIABLES
  backend,     \* the active backend, or "none"
  poll,        \* the backend's goroutine
  seen,        \* prevPIDs of procfs
  owed,        \* history: what the poll under way must not overlook
  unread,      \* the audit log from where auditd has read it: pieces of
               \* records, each known by the PID it names
  half         \* the PID of a record that is half written, or Gone

auditVars   == <<unread, half>>
backendVars == <<backend, poll, seen, owed, auditVars>>
vars == <<forestVars, pipeVars, backendVars>>

Idle == [pc |-> "idle", todo |-> {}, snap |-> {}, pid |-> Gone, ppid |-> Gone]
NoPoll == [Idle EXCEPT !.pc = "done"]

(* snap is the processes that lived when the round under way, or the last,  *)
(* began; auditd has it as history only.                                    *)
PollType == [pc : {"idle", "scan", "add", "send", "drain", "emit", "done"},
             todo : SUBSET Pids, snap : SUBSET Pids,
             pid : Pids \cup {Gone}, ppid : Pids \cup {Outside, Gone}]

(* The type invariant of Layer 4: the goroutine runs with the consumer, and  *)
(* has events in hand only where its backend sends.                         *)
TypeOK ==
  /\ ForestTypeOK /\ PipeTypeOK
  /\ backend \in Backends \cup {"none"}
  /\ poll \in PollType
  /\ poll.pc \in {"scan", "add", "send"} => backend = "procfs"
  /\ poll.pc \in {"drain", "emit"} => backend = "auditd"
  /\ outbox # <<>> => poll.pc \in {"scan", "add", "send", "emit"}
  /\ seen \in SUBSET Pids /\ owed \in SUBSET Live
  /\ unread \in Seq([line : Pids, part : {"all", "head", "rest"}])
  /\ half \in Pids \cup {Gone}

Init ==
  /\ ForestInit /\ PipeInit
  /\ backend = "none"
  /\ poll = NoPoll /\ seen = {} /\ owed = {} /\ unread = <<>> /\ half = Gone
-----------------------------------------------------------------------------
(* The operating system; nobody owes a process that has ended anything.     *)
(* The socket listens whenever a backend is active, started or not.         *)
Held == [pid |-> poll.pid, ppid |-> poll.ppid]

Listening == phase = "up" /\ backend # "none"

System ==
  /\ SystemNext(Listening, Held)
  /\ owed' = {c \in owed : parent'[c] = parent[c]}
  /\ UNCHANGED <<pipeVars, backend, poll, seen, auditVars>>

Register ==
  /\ phase # "down"
  /\ \E p \in notices : AddRoot(p)
  /\ UNCHANGED <<pipeVars, backendVars>>

(* The audit daemon appends the record of a system call, or a part of it;   *)
(* before auditd has the file open it writes what is never read.  Pieces    *)
(* count as births for the bound.                                           *)
AuditRecord ==
  /\ backend = "auditd" /\ poll.pc # "done"
  /\ births < MaxBirths /\ births' = births + 1
  /\ IF half # Gone
       THEN unread' = Append(unread, Piece(half, "rest")) /\ half' = Gone
       ELSE \E p \in Live, part \in {"all", "head"} :
              /\ unread' = Append(unread, Piece(p, part))
              /\ half' = IF part = "head" THEN p ELSE Gone
  /\ UNCHANGED <<parent, hooked, unsent, notices, tree, tainted, fresh,
                 pipeVars, backend, poll, seen, owed>>
-----------------------------------------------------------------------------
(* SelectBackend: by name, or the available one of the highest priority.    *)
SelectBackend(available) ==
  LET eligible == IF BackendName = "auto" THEN available
                  ELSE available \cap {BackendName} IN
  IF BackendName = "off" \/ eligible = {} THEN "none"
  ELSE CHOOSE b \in eligible : \A c \in eligible : Priority[c] <= Priority[b]

(* Start: auditd may not be able to open its log, and no other is tried. *)
Starts(b, opens) == b = "procfs" \/ (b = "auditd" /\ opens)

StartDaemon ==
  \E available \in Machines, opens \in BOOLEAN :
    LET b == SelectBackend(available) IN
    /\ PipeStarts(Starts(b, opens))
    /\ backend' = b
    /\ poll' = IF Starts(b, opens) THEN Idle ELSE NoPoll
    /\ seen' = {} /\ unread' = <<>> /\ half' = Gone
    /\ UNCHANGED <<forestVars, owed>>
-----------------------------------------------------------------------------
(* procfs, poll: the entries of /proc, less those the previous poll had ... *)
ToVisit == Live \ seen

StartPoll ==
  /\ poll.pc = "idle" /\ backend = "procfs"
  /\ poll' = [Idle EXCEPT !.pc = "scan", !.todo = ToVisit, !.snap = Live]
  /\ owed' = {c \in Live \ poll.snap : parent[c] \in tree}
  /\ fresh' = {}
  /\ UNCHANGED <<parent, hooked, unsent, notices, tree, tainted, births,
                 pipeVars, backend, seen, auditVars>>

(* ... are visited in the order of a Go map, which is any: readPPID ... *)
ReadPPID(p) ==
  /\ poll.pc = "scan" /\ p \in poll.todo
  /\ poll' = IF Alive(p)
               THEN [poll EXCEPT !.pc = "add", !.todo = @ \ {p},
                                 !.pid = p, !.ppid = parent[p]]
               ELSE [poll EXCEPT !.todo = @ \ {p}]
  /\ UNCHANGED <<forestVars, pipeVars, backend, seen, owed, auditVars>>

(* ... then AddChild and, for a child of the forest, an event. *)
AddChild ==
  /\ poll.pc = "add"
  /\ tree' = AfterAddChild(poll.pid, poll.ppid)
  /\ IF AddsChild(poll.ppid) THEN Find ELSE UNCHANGED pipeVars
  /\ owed' = IF AddsChild(poll.ppid) THEN owed \ {poll.pid} ELSE owed
  /\ poll' = [poll EXCEPT !.pc = "scan", !.pid = Gone, !.ppid = Gone]
  /\ UNCHANGED <<osVars, notices, backend, seen, auditVars>>

(* A mutant: prevPIDs is what /proc holds after the visits. *)
EvaluatedLate == Live

(* prevPIDs becomes the snapshot the visits were made from. *)
Evaluated == poll.snap

EndPoll ==
  /\ poll.pc = "scan" /\ poll.todo = {}
  /\ seen' = Evaluated
  /\ poll' = [poll EXCEPT !.pc = "send"]
  /\ UNCHANGED <<forestVars, pipeVars, backend, owed, auditVars>>

(* Start sends one event after the other. *)
Send ==
  /\ poll.pc = "send"
  /\ IF outbox = <<>>
       THEN poll' = [poll EXCEPT !.pc = "idle"] /\ UNCHANGED pipeVars
       ELSE SendOne /\ UNCHANGED poll
  /\ UNCHANGED <<forestVars, backend, seen, owed, auditVars>>
-----------------------------------------------------------------------------
(* auditd, drainAuditLog: the lines there are ... *)
StartDrain ==
  /\ poll.pc = "idle" /\ backend = "auditd"
  /\ poll' = [Idle EXCEPT !.pc = "drain", !.snap = Live]
  /\ fresh' = {}
  /\ UNCHANGED <<parent, hooked, unsent, notices, tree, tainted, births,
                 pipeVars, backend, seen, owed, auditVars>>

(* ... one after the other; a record whose beginning is missing does not    *)
(* parse, and one of a process that is not in the tree is ignored ...       *)
Concerns(whole, pid) == whole /\ pid \in tree

ReadRecord ==
  /\ poll.pc = "drain" /\ HasLine(unread, 0)
  /\ unread' = SubSeq(unread, LineEnd(unread, 0) + 1, Len(unread))
  /\ IF Concerns(WholeAt(unread, 0), LineAt(unread, 0))
       THEN Find /\ poll' = [poll EXCEPT !.pc = "emit"]
       ELSE UNCHANGED <<pipeVars, poll>>
  /\ UNCHANGED <<forestVars, backend, seen, owed, half>>

(* ... and its event is sent before the next is read, come what may. *)
Emit ==
  /\ poll.pc = "emit"
  /\ SendOne
  /\ poll' = [poll EXCEPT !.pc = "drain"]
  /\ UNCHANGED <<forestVars, backend, seen, owed, auditVars>>

(* At the end of the file, what there is of a record is thrown away. *)
DrainEnds ==
  /\ poll.pc = "drain" /\ ~ HasLine(unread, 0)
  /\ unread' = <<>>
  /\ poll' = [poll EXCEPT !.pc = "idle"]
  /\ UNCHANGED <<forestVars, pipeVars, backend, seen, owed, half>>
-----------------------------------------------------------------------------
Cleanup ==
  /\ poll.pc = "idle"
  /\ tree' = AfterCleanup
  /\ UNCHANGED <<osVars, notices, pipeVars, backendVars>>

(* A mutant: no backend looks at the context while it sends. *)
MayStopIdle == poll.pc = "idle"

(* ctx.Done is looked at between rounds, and by procfs while it sends. *)
MayStop == poll.pc = "idle" \/ (poll.pc = "send" /\ outbox # <<>>)

BackendStops ==
  /\ Stopping /\ MayStop
  /\ poll' = NoPoll
  /\ CloseChannel
  /\ UNCHANGED <<forestVars, backend, seen, owed, auditVars>>

ProcessEnds ==
  /\ PipeEnds
  /\ backend' = "none"
  /\ poll' = NoPoll /\ seen' = {} /\ owed' = {} /\ unread' = <<>> /\ half' = Gone
  /\ tree' = {} /\ notices' = {} /\ tainted' = {}
  /\ UNCHANGED <<parent, hooked, unsent, fresh, births>>

Elsewhere == UNCHANGED <<forestVars, backendVars>>

Backend ==
  \/ StartPoll \/ AddChild \/ EndPoll \/ Send
  \/ \E p \in Pids : ReadPPID(p)
  \/ StartDrain \/ ReadRecord \/ Emit \/ DrainEnds
  \/ Cleanup \/ BackendStops

Consumer == (Receive \/ Tick \/ ConsumerStops) /\ Elsewhere

Next ==
  \/ System \/ Register \/ AuditRecord
  \/ StartDaemon \/ (Shutdown /\ Elsewhere) \/ ProcessEnds
  \/ Backend \/ Consumer

Spec == Init /\ [][Next]_vars

(* The Go scheduler runs both goroutines, and a select that is offered an   *)
(* event, a tick or the end of the context again and again takes it some    *)
(* time.  The first birth is no event, hence the bound in EventsSettle.     *)
Fairness ==
  /\ WF_vars(Send) /\ WF_vars(EndPoll) /\ WF_vars(AddChild)
  /\ WF_vars(\E p \in Pids : ReadPPID(p))
  /\ WF_vars(ReadRecord) /\ WF_vars(Emit) /\ WF_vars(DrainEnds)
  /\ SF_vars(Receive /\ Elsewhere) /\ SF_vars(Tick /\ Elsewhere)
  /\ SF_vars(BackendStops) /\ WF_vars(ConsumerStops /\ Elsewhere)

FairSpec == Spec /\ Fairness
-----------------------------------------------------------------------------
(* Only hook-wraps and their descendants are in the tree; the exception the *)
(* backend accepts is a PID that was used again (behavior.go:14-17,         *)
(* procfs.go:26-28).                                                        *)
OnlyHooksTracked == tree \cap Live \subseteq hooked \cup tainted

(* A new child of a tracked process is reported by the poll that first sees *)
(* it, unless one of the two ends before it is reached, in whatever order   *)
(* the PIDs are visited and whatever is forked meanwhile (procfs.go:99-117).*)
ChildrenReported ==
  \A c \in owed : /\ poll.pc \in {"scan", "add"}
                  /\ c \in poll.todo \/ c = poll.pid

(* While the daemon runs, an event that was found is written, and alerted if *)
(* a policy matches it, unless its batch is given up: a slow consumer delays *)
(* the backend and never starves it (behavior.go:44-46).                     *)
EventsSettle ==
  \A n \in 1..(MaxBirths - 1) :
    n <= found /\ phase = "up" ~>
      \/ n \in dropped \/ phase # "up"
      \/ n \in ToSet(rows) /\ (n \in Sensitive => n \in alerts)

(* When the context is cancelled, the backend's goroutine ends and closes   *)
(* the channel (behavior.go:44, "The channel is closed when ctx is          *)
(* cancelled") - but for auditd's, which sends without looking at the       *)
(* context, when the channel is full and the consumer has gone first.       *)
Stuck == poll.pc = "emit" /\ Len(chan) = ChanCap /\ consumer = "done"

BackendEnds ==
  Stopping /\ poll.pc # "done" ~> closed \/ phase = "down" \/ Stuck

(* docs/BEHAVIOR.md:33, "The daemon tracks that PID and all of its          *)
(* descendants as the hook process forest": between rounds, the tree has    *)
(* every child of a tracked process of the forest that was there when the   *)
(* last round began.                                                        *)
TreeIsClosed ==
  poll.pc = "idle" =>
    \A c \in (poll.snap \cap Live) \ fresh :
      parent[c] \in tree \cap hooked => c \in tree
-----------------------------------------------------------------------------
(* The inductive invariant behind OnlyHooksTracked. *)
Vouched == hooked \cup tainted

(* Children of a live process, of a hook, of a tainted process. *)
FamiliesAgree ==
  \A c \in Live : parent[c] \in Pids =>
    /\ parent[c] \in Live
    /\ parent[c] \in hooked => c \in hooked
    /\ parent[c] \in tainted => c \in tainted

(* The child a poll has in hand is vouched for if its parent is, or may be. *)
InHandAgrees ==
  poll.pc = "add" =>
    /\ poll.pid \in Pids
    /\ poll.pid \in Live /\ poll.ppid \in tree \cup notices \cup Vouched =>
         poll.pid \in Vouched

HooksInv ==
  /\ parent \in [Pids -> Pids \cup {Outside, Gone}]
  /\ unsent \subseteq hooked /\ Vouched \subseteq Live
  /\ tree \subseteq Pids /\ notices \subseteq Pids
  /\ poll \in PollType
  /\ (tree \cup notices) \cap Live \subseteq Vouched
  /\ FamiliesAgree /\ InHandAgrees
=============================================================================
