----------------------------- MODULE HashWatch -----------------------------
(***************************************************************************)
(* Layer 1 of ccguard: hashwatch.Watcher inside `ccguard watch'.           *)
(*                                                                         *)
(* The Run loop receives the fsnotify events and, for each monitored path, *)
(* keeps one debounce timer in the map `pending'.  A timer that fires runs *)
(* a goroutine of its own: it takes the lock, deletes the map entry of its *)
(* path and then checks the file - stat, hash, IOC match, approval lookup, *)
(* audit event and alert - while the file, the approvals, other timers and *)
(* the shutdown of the daemon go on.                                       *)
(***************************************************************************)
EXTENDS Approvals

CONSTANTS
  KnownBad,    \* the contents some indicator of the IOC database matches
  Timers,      \* bound: the timers and checks that exist at a time
  NoTimer      \* stands for "no entry in the map"

ASSUME WatchAssumption ==
  /\ KnownBad \subseteq Contents
  /\ NoTimer \notin Timers

VARIABLES
  phase,       \* "down", "up", then "returned", "closed", "dbclosed"
  timer,       \* [Timers -> [st, file, hash, verdict, ok]]
  pending,     \* Watcher.pending: [Files -> Timers or NoTimer]
  alerts,      \* what the sink has printed at alert level
  warned,      \* history: files whose last check ended in a Warn
  refused,     \* history: rows whose INSERT the store did not take
  examined     \* history: files this daemon has hashed

watcherVars == <<phase, timer, pending, alerts, warned, refused, examined>>
vars == <<fileVars, approvalVars, watcherVars>>

Verdicts == {"approved-change", "unapproved-change", "ioc-match"}

(* `ok' is history: whether the hash was approved when it was stored. *)
Timer ==
  [st      : {"free", "armed", "fired", "stat", "hash", "lookup", "report"},
   file    : Files \cup {Absent},
   hash    : Contents \cup {Absent},
   verdict : Verdicts \cup {"none"},
   ok      : BOOLEAN]

Free == [st |-> "free", file |-> Absent, hash |-> Absent,
         verdict |-> "none", ok |-> FALSE]

(* A mutant: the closure of the timer loses its path. *)
ArmedNoPath(f) == [Free EXCEPT !.st = "armed"]

Armed(f) == [Free EXCEPT !.st = "armed", !.file = f]

TimerOK(t) ==
  /\ timer[t].st # "free" => timer[t].file \in Files
  /\ timer[t].st \in {"lookup", "report"} => timer[t].hash \in Contents
  /\ timer[t].st = "report" => timer[t].verdict \in Verdicts

WatcherTypeOK ==
  /\ phase \in {"down", "up", "returned", "closed", "dbclosed"}
  /\ timer \in [Timers -> Timer]
  /\ \A t \in Timers : TimerOK(t)
  /\ pending \in [Files -> Timers \cup {NoTimer}]
  /\ alerts \in SUBSET AuditRow
  /\ warned \in SUBSET Files
  /\ refused \in SUBSET AuditRow
  /\ examined \in SUBSET Files

(* The type invariant of the whole Layer 1 model. *)
TypeOK == FilesTypeOK /\ ApprovalsTypeOK /\ WatcherTypeOK

Init ==
  /\ FilesInit
  /\ ApprovalsInit
  /\ phase = "down"
  /\ timer = [t \in Timers |-> Free]
  /\ pending = [f \in Files |-> NoTimer]
  /\ alerts = {} /\ refused = {} /\ warned = {} /\ examined = {}
-----------------------------------------------------------------------------
(* NewWatcher: a watch on every directory that exists and, where the parent *)
(* of a missing one exists, on the parent.  Nothing is hashed at start.     *)
Start ==
  /\ phase = "down"
  /\ phase' = "up"
  /\ watched' = dirs
  /\ parents' \in SUBSET (Dirs \ dirs)
  /\ UNCHANGED <<worldVars, queue, overflow, blind, approvalVars,
                 timer, pending, alerts, warned, refused, examined>>

(* A mutant: one debounce timer for all paths. *)
AfterScheduleShared(f, t) ==
  [u \in Timers |-> IF u = t THEN Armed(f)
                    ELSE IF timer[u].st = "armed" THEN Free ELSE timer[u]]

(* scheduleCheck, under mu: Stop succeeds on a timer that has not fired. *)
AfterSchedule(f, t) ==
  [u \in Timers |->
     IF u = t THEN Armed(f)
     ELSE IF u = pending[f] /\ timer[u].st = "armed" THEN Free
     ELSE timer[u]]

ScheduleCheck(f) ==
  \E t \in Timers :
    /\ timer[t].st = "free"
    /\ timer' = AfterSchedule(f, t)
    /\ pending' = [pending EXCEPT ![f] = t]

(* IsMonitored(ev.Name), and not a pure chmod. *)
Relevant(e) == e.name \in Files /\ ~ e.chmod

HandleEvent ==
  /\ phase = "up"
  /\ queue # <<>>
  /\ queue' = Tail(queue)
  /\ IF Relevant(Head(queue))
       THEN ScheduleCheck(Head(queue).name)
       ELSE UNCHANGED <<timer, pending>>
  /\ UNCHANGED <<worldVars, overflow, watched, parents, blind, approvalVars,
                 phase, alerts, warned, refused, examined>>
-----------------------------------------------------------------------------
(* debounceWindow has passed: the goroutine starts and contends for mu. *)
Fire(t) ==
  /\ timer[t].st = "armed"
  /\ timer' = [timer EXCEPT ![t].st = "fired"]
  /\ UNCHANGED <<fileVars, approvalVars, phase, pending, alerts, warned,
                 refused, examined>>

(* It deletes the entry of its path, whichever timer the entry now names. *)
Unregister(t) ==
  /\ timer[t].st = "fired"
  /\ timer' = [timer EXCEPT ![t].st = "stat"]
  /\ pending' = [pending EXCEPT ![timer[t].file] = NoTimer]
  /\ UNCHANGED <<fileVars, approvalVars, phase, alerts, warned, refused,
                 examined>>

StoreOpen == phase # "dbclosed"

Row(f, h, k) == [file |-> f, hash |-> h, kind |-> k]

(* A mutant: an approved change leaves no row. *)
AfterRecordAlertsOnly(f, h, k) ==
  IF k = "approved-change" THEN audit ELSE audit \cup {Row(f, h, k)}

AfterRecord(f, h, k) == audit \cup {Row(f, h, k)}

(* The INSERT of RecordEvent or RecordIOCEvent, its error ignored.  A store  *)
(* that is open may refuse it too: it is busy, or the disk is full.          *)
Insert(f, h, k, stored) ==
  /\ stored => StoreOpen
  /\ audit' = IF stored THEN AfterRecord(f, h, k) ELSE audit
  /\ refused' = IF stored THEN refused ELSE refused \cup {Row(f, h, k)}

(* os.Stat finds no file: the removal is alerted and recorded. *)
StatMissing(t, stored) ==
  LET f == timer[t].file IN
  /\ timer[t].st = "stat"
  /\ content[f] = Absent
  /\ timer' = [timer EXCEPT ![t] = Free]
  /\ alerts' = alerts \cup {Row(f, Absent, "removed")}
  /\ Insert(f, Absent, "removed", stored)
  /\ dirty' = dirty \ {f}
  /\ warned' = warned \ {f}
  /\ UNCHANGED <<content, sealed, dirs, ops, notifyVars, approved, cli,
                 revoked, phase, pending, examined>>

StatFound(t) ==
  /\ timer[t].st = "stat"
  /\ content[timer[t].file] # Absent
  /\ timer' = [timer EXCEPT ![t].st = "hash"]
  /\ UNCHANGED <<fileVars, approvalVars, phase, pending, alerts, warned,
                 refused, examined>>

(* HashFile, the second read of the file; the IOC match works on its result. *)
HashRead(t) ==
  LET f == timer[t].file IN
  /\ timer[t].st = "hash"
  /\ CanHash(f)
  /\ timer' = [timer EXCEPT ![t].st = "lookup", ![t].hash = content[f],
                            ![t].ok = IsApproved(f, content[f])]
  /\ dirty' = dirty \ {f}
  /\ warned' = warned \ {f}
  /\ examined' = examined \cup {f}
  /\ UNCHANGED <<content, sealed, dirs, ops, notifyVars, approvalVars, phase,
                 pending, alerts, refused>>

(* os.Stat (other than "no such file") or HashFile fails: a Warn only. *)
ReadFails(t) ==
  LET f == timer[t].file IN
  /\ timer[t].st \in {"stat", "hash"}
  /\ f \in sealed \/ (timer[t].st = "hash" /\ content[f] = Absent)
  /\ timer' = [timer EXCEPT ![t] = Free]
  /\ warned' = warned \cup {f}
  /\ UNCHANGED <<fileVars, approvalVars, phase, pending, alerts, refused,
                 examined>>

(* Mutants: the lookup forgets the path; the indicators outrank the         *)
(* approvals; a hash nobody knows is let through.                           *)
VerdictAnyPath(f, h) ==
  IF \E g \in Files : IsApproved(g, h) THEN "approved-change"
  ELSE IF h \in KnownBad THEN "ioc-match"
  ELSE "unapproved-change"

VerdictIocFirst(f, h) ==
  IF h \in KnownBad THEN "ioc-match"
  ELSE IF IsApproved(f, h) THEN "approved-change"
  ELSE "unapproved-change"

VerdictUnknownPasses(f, h) ==
  IF h \in KnownBad /\ ~ IsApproved(f, h) THEN "ioc-match"
  ELSE "approved-change"

(* Which of the three reports a hash gets. *)
Verdict(f, h) ==
  IF IsApproved(f, h) THEN "approved-change"
  ELSE IF h \in KnownBad THEN "ioc-match"
  ELSE "unapproved-change"

(* IsApproved answers, if the store is open ... *)
Lookup(t) ==
  /\ timer[t].st = "lookup"
  /\ StoreOpen
  /\ timer' = [timer EXCEPT ![t].st = "report",
                 ![t].verdict = Verdict(timer[t].file, timer[t].hash)]
  /\ UNCHANGED <<fileVars, approvalVars, phase, pending, alerts, warned,
                 refused, examined>>

(* ... or fails, open or closed: a Warn, and the check is over. *)
LookupFails(t) ==
  /\ timer[t].st = "lookup"
  /\ timer' = [timer EXCEPT ![t] = Free]
  /\ warned' = warned \cup {timer[t].file}
  /\ UNCHANGED <<fileVars, approvalVars, phase, pending, alerts, refused,
                 examined>>

(* The row of the verdict, then the alert. *)
Report(t, stored) ==
  LET f == timer[t].file  h == timer[t].hash  v == timer[t].verdict IN
  /\ timer[t].st = "report"
  /\ timer' = [timer EXCEPT ![t] = Free]
  /\ Insert(f, h, v, stored)
  /\ alerts' = IF v = "approved-change" THEN alerts
               ELSE alerts \cup {Row(f, h, v)}
  /\ UNCHANGED <<fileVars, approved, cli, revoked, phase, pending, warned,
                 examined>>

Check(t) ==
  \/ StatFound(t) \/ HashRead(t) \/ ReadFails(t) \/ Lookup(t) \/ LookupFails(t)
  \/ \E stored \in BOOLEAN : StatMissing(t, stored) \/ Report(t, stored)
-----------------------------------------------------------------------------
(* Run returns on SIGINT or SIGTERM; events still queued stay unread. *)
RunReturns ==
  /\ phase = "up"
  /\ phase' = "returned"
  /\ UNCHANGED <<fileVars, approvalVars, timer, pending, alerts, warned,
                 refused, examined>>

(* Watcher.Close stops the timers the map names, then drops the watches. *)
CloseWatcher ==
  /\ phase = "returned"
  /\ phase' = "closed"
  /\ timer' = [t \in Timers |->
                 IF timer[t].st = "armed" /\ pending[timer[t].file] = t
                   THEN Free ELSE timer[t]]
  /\ pending' = [f \in Files |-> NoTimer]
  /\ watched' = {} /\ parents' = {} /\ queue' = <<>>
  /\ UNCHANGED <<worldVars, overflow, blind, approvalVars, alerts, warned,
                 refused, examined>>

CloseStore ==
  /\ phase = "closed"
  /\ phase' = "dbclosed"
  /\ UNCHANGED <<fileVars, approvalVars, timer, pending, alerts, warned,
                 refused, examined>>

(* The process ends after its shutdown, or is killed at any point of it:    *)
(* timers, checks and queue are gone, the tables stay.  What it had not     *)
(* read, nobody will read because of these events.                          *)
ProcessEnds ==
  /\ phase # "down"
  /\ phase' = "down"
  /\ timer' = [t \in Timers |-> Free]
  /\ pending' = [f \in Files |-> NoTimer]
  /\ watched' = {} /\ parents' = {} /\ queue' = <<>>
  /\ overflow' = FALSE
  /\ blind' = blind \cup dirty
  /\ examined' = {} /\ warned' = {} /\ refused' = {}
  /\ UNCHANGED <<worldVars, approvalVars, alerts>>

DaemonNext ==
  \/ Start \/ HandleEvent
  \/ RunReturns \/ CloseWatcher \/ CloseStore \/ ProcessEnds
  \/ \E t \in Timers : Fire(t) \/ Unregister(t) \/ Check(t)

Next ==
  \/ WorldNext /\ UNCHANGED <<approvalVars, watcherVars>>
  \/ ApprovalsNext /\ UNCHANGED <<diskVars, notifyVars, watcherVars>>
  \/ DaemonNext

Spec == Init /\ [][Next]_vars

(* The Go scheduler runs the Run loop, every timer and every goroutine. *)
Fairness ==
  /\ WF_vars(HandleEvent)
  /\ \A t \in Timers :
       WF_vars(Fire(t)) /\ WF_vars(Unregister(t)) /\ WF_vars(Check(t))
-----------------------------------------------------------------------------
(* f will still be read: an event, a timer or a check not past its read. *)
Queued(f)  == \E i \in 1..Len(queue) : Relevant(queue[i]) /\ queue[i].name = f
InState(f, S) == \E t \in Timers : timer[t].file = f /\ timer[t].st \in S

WillRead(f) ==
  Queued(f) \/ InState(f, {"armed", "fired", "stat"})
  \/ (content[f] # Absent /\ InState(f, {"hash"}))

(* Every change made under a watch is read, is about to be read, or could   *)
(* not be read and was warned about - whichever timers were stopped,        *)
(* replaced, or fired while a newer one took their map entry                *)
(* (watcher.go:143-159 and the two reads of check).                         *)
NoMissedChange ==
  phase = "up" =>
    \A f \in dirty \ blind : WillRead(f) \/ f \in warned \/ overflow

(* What ccguard status calls DRIFT on a file the daemon has read since it   *)
(* last changed is alerted, and in the audit log unless its INSERT failed,  *)
(* or the verdict is on its way, unless the approval it was judged by has   *)
(* been cleared since, or a Warn told that a later read or the lookup       *)
(* failed (watcher.go:179-228 against status.go:45-58).                     *)
Alerted(f) == \E k \in {"unapproved-change", "ioc-match"} :
                Row(f, content[f], k) \in alerts \cap (audit \cup refused)

InJudgement(f) ==
  \E t \in Timers : /\ timer[t].file = f /\ timer[t].hash = content[f]
                    /\ timer[t].st \in {"lookup", "report"}

DriftIsAlerted ==
  \A f \in examined \ dirty :
    Drift(f) => \/ Alerted(f) \/ InJudgement(f)
                \/ <<f, content[f]>> \in revoked
                \/ f \in warned

(* A content that was approved before it was read is not alerted on, unless *)
(* init --force cleared the approval in between.                            *)
NoFalseAlarm ==
  \A t \in Timers :
    timer[t].st = "report" /\ timer[t].verdict # "approved-change" =>
      ~ timer[t].ok \/ <<timer[t].file, timer[t].hash>> \in revoked

(* A changed file that stays unapproved is alerted on, in the end. *)
ChangeIsAlerted ==
  \A f \in Files, c \in Contents :
    (phase = "up" /\ content[f] = c /\ f \in dirty \ blind
       /\ ~ IsApproved(f, c))
      ~> \/ Alerted(f) \/ content[f] # c \/ f \in warned \/ overflow
         \/ IsApproved(f, c) \/ <<f, c>> \in revoked \/ phase # "up"
-----------------------------------------------------------------------------
(* Layer 1 as an Integrity watcher: what the goroutines have still to read  *)
(* is owed, what they have read and not reported is held.                   *)
Owed == {f \in Files : \/ phase = "up" /\ Queued(f)
                       \/ InState(f, {"armed", "fired", "stat", "hash"})}

Finding(t) == [file |-> timer[t].file, hash |-> timer[t].hash, verdict |-> timer[t].verdict]

Held == {Finding(t) : t \in {u \in Timers : timer[u].st \in {"lookup", "report"}}}

Promise == INSTANCE Integrity
  WITH disk <- content, view <- {f \in Files : DirOf(f) \in watched},
       lossy <- overflow, running <- phase = "up", owed <- Owed, held <- Held,
       rows <- {r \in audit : r.kind # "approved"}

(* No Stop, map entry or later event drops a look that is owed or a finding *)
(* that is held; a finding is judged once, by the approvals of that moment, *)
(* then told and recorded, or given up with a Warn when a statement fails;  *)
(* nothing else is (watcher.go:130-228).                                    *)
KeepsPromise == Promise!Spec
-----------------------------------------------------------------------------
(* The inductive invariant behind the safety properties. *)

(* A map entry names a timer of its path that has not passed Unregister. *)
Registered ==
  \A f \in Files : pending[f] # NoTimer =>
    timer[pending[f]].file = f /\ timer[pending[f]].st \in {"armed", "fired"}

(* Without a daemon nothing is watched, and no change counts as seen. *)
BlindWhenDown == phase = "down" => watched = {} /\ dirty \subseteq blind

(* DriftIsAlerted, of a file that may also be unreadable by now. *)
ReadIsJudged ==
  \A f \in examined \ dirty :
    content[f] # Absent =>
      \/ IsApproved(f, content[f]) \/ Alerted(f) \/ InJudgement(f)
      \/ <<f, content[f]>> \in revoked
      \/ f \in warned

(* A verdict agrees with the table, as it is or as it was before a clear. *)
Judged(t) == <<timer[t].file, timer[t].hash>>

VerdictJustified ==
  \A t \in Timers :
    /\ timer[t].st = "lookup" /\ timer[t].ok =>
         Judged(t) \in approved \cup revoked
    /\ timer[t].st = "report" /\ timer[t].verdict = "approved-change" =>
         Judged(t) \in approved \cup revoked
    /\ timer[t].st = "report" /\ timer[t].verdict # "approved-change" =>
         ~ timer[t].ok \/ Judged(t) \in revoked

(* Until its lookup a timer or check has no verdict. *)
Undecided == \A t \in Timers : timer[t].st # "report" => timer[t].verdict = "none"

IInv == /\ TypeOK /\ Registered /\ BlindWhenDown
        /\ NoMissedChange /\ ReadIsJudged /\ VerdictJustified /\ Undecided
=============================================================================
