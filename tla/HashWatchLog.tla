---------------------------- MODULE HashWatchLog ----------------------------
(***************************************************************************)
(* HashWatch with the order in which checks write to the audit log.  There *)
(* the log is a set; what its order adds is which row of a file, of those  *)
(* that checks wrote, is the newest.                                       *)
(***************************************************************************)
EXTENDS HashWatch

CONSTANT NoRow       \* stands for "no check has written a row of the file"

ASSUME LogAssumption == NoRow \notin Contents \cup {Absent}

VARIABLES
  newest,      \* [Files -> the hash in that row]
  beside,      \* history: [Files -> the hashes other checks of the file had
               \*           in hand when it was last looked at]
  unlogged     \* history: files of which a statement has failed since then

orderVars == <<newest, beside, unlogged>>
logVars == <<vars, orderVars>>

LogInit ==
  /\ Init
  /\ newest = [f \in Files |-> NoRow]
  /\ beside = [f \in Files |-> {}]
  /\ unlogged = {}

Holds(t, f) == timer[t].file = f /\ timer[t].st \in {"lookup", "report"}
InHand(f)   == \E t \in Timers : Holds(t, f)
Hands(f)    == {timer[t].hash : t \in {u \in Timers : Holds(u, f)}}

Look(f) == beside' = [beside EXCEPT ![f] = Hands(f)]

(* A row that got into the log is the newest of its file. *)
Write(f, h, k) ==
  newest' = IF Row(f, h, k) \in audit' THEN [newest EXCEPT ![f] = h] ELSE newest

LogRemoval(t, stored) ==
  LET f == timer[t].file IN
  /\ StatMissing(t, stored)
  /\ Look(f)
  /\ IF stored THEN Write(f, Absent, "removed") /\ unlogged' = unlogged \ {f}
               ELSE UNCHANGED newest /\ unlogged' = unlogged \cup {f}

LogRead(t) ==
  LET f == timer[t].file IN
  HashRead(t) /\ Look(f) /\ unlogged' = unlogged \ {f} /\ UNCHANGED newest

LogLookupFails(t) ==
  /\ LookupFails(t)
  /\ unlogged' = unlogged \cup {timer[t].file}
  /\ UNCHANGED <<newest, beside>>

LogReport(t, stored) ==
  LET f == timer[t].file IN
  /\ Report(t, stored)
  /\ IF stored THEN Write(f, timer[t].hash, timer[t].verdict) /\ UNCHANGED unlogged
               ELSE UNCHANGED newest /\ unlogged' = unlogged \cup {f}
  /\ UNCHANGED beside

(* The steps that neither look at a file nor run a statement to log it. *)
Between(t) == Fire(t) \/ Unregister(t) \/ StatFound(t) \/ ReadFails(t) \/ Lookup(t)

OtherNext ==
  \/ WorldNext /\ UNCHANGED <<approvalVars, watcherVars>>
  \/ ApprovalsNext /\ UNCHANGED <<diskVars, notifyVars, watcherVars>>
  \/ Start \/ HandleEvent
  \/ RunReturns \/ CloseWatcher \/ CloseStore \/ ProcessEnds
  \/ \E t \in Timers : Between(t)

LogNext ==
  \/ \E t \in Timers : LogRead(t) \/ LogLookupFails(t)
  \/ \E t \in Timers, stored \in BOOLEAN : LogRemoval(t, stored) \/ LogReport(t, stored)
  \/ OtherNext /\ UNCHANGED orderVars

LogSpec == LogInit /\ [][LogNext]_logVars

LogFairSpec == LogSpec /\ Fairness

(* The newest row of a file the daemon has read since it last changed, and  *)
(* of which no statement has failed since, is about what the file holds now *)
(* or about what another check had in hand at that read: two timers of a    *)
(* file may run their checks at once, and nothing orders their rows         *)
(* (watcher.go:153-158, 226).  An older row never outlives that.            *)
Possible(f) == {content[f]} \cup beside[f]

NewestRowIsRecent ==
  \A f \in examined \ (dirty \cup unlogged) : InHand(f) \/ newest[f] \in Possible(f)

(* What makes it inductive: so is all that checks of the file have in hand. *)
LogTypeOK ==
  /\ newest \in [Files -> Contents \cup {Absent, NoRow}]
  /\ beside \in [Files -> SUBSET Contents]

HandIsRecent ==
  \A f \in examined \ dirty, t \in Timers :
    Holds(t, f) => timer[t].hash \in Possible(f)

LogInv == LogTypeOK /\ HandIsRecent /\ NewestRowIsRecent
=============================================================================
