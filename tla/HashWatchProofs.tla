-------------------------- MODULE HashWatchProofs --------------------------
(* Proofs about the model of Layer 1, for every value of its constants. *)
EXTENDS HashWatchLog, TLAPS

-----------------------------------------------------------------------------
(* An event of an existing file or directory keeps the queue well typed. *)
LEMMA DeliverType ==
  ASSUME queue \in Seq(Event), overflow \in BOOLEAN,
         NEW n \in Files \cup Dirs, NEW b \in BOOLEAN,
         Deliver([name |-> n, chmod |-> b])
  PROVE  queue' \in Seq(Event) /\ overflow' \in BOOLEAN
<1>1. [name |-> n, chmod |-> b] \in Event
  BY DEF Event
<1> DEFINE e == [name |-> n, chmod |-> b]
<1> HIDE DEF e
<1>2. e \in Event /\ Deliver(e)
  BY <1>1 DEF e
<1>3. queue' \in Seq(Event)
  BY <1>2 DEF Deliver
<1>4. overflow' \in BOOLEAN
  BY <1>2 DEF Deliver
<1>5. QED
  BY <1>3, <1>4

(* Changes to the file system keep the state of the files well typed. *)
LEMMA WorldType ==
  ASSUME FilesTypeOK, WorldNext
  PROVE  FilesTypeOK'
<1> USE DEF FilesTypeOK, CountOp, Quiet
<1>1. ASSUME NEW f \in Files, NEW c \in Contents \cup {Absent}, Change(f, c)
      PROVE  FilesTypeOK'
  <2>1. content' \in [Files -> Contents \cup {Absent}] /\ sealed' \in SUBSET Files
        /\ dirty' \in SUBSET Files /\ blind' \in SUBSET Files /\ ops' \in Nat
    BY <1>1 DEF Change
  <2>2. queue' \in Seq(Event) /\ overflow' \in BOOLEAN
    BY <1>1, DeliverType DEF Change
  <2>3. QED
    BY <1>1, <2>1, <2>2 DEF Change
<1>2. ASSUME NEW f \in Files, Chmod(f)
      PROVE  FilesTypeOK'
  <2>1. queue' \in Seq(Event) /\ overflow' \in BOOLEAN
    BY <1>2, DeliverType DEF Chmod
  <2>2. QED
    BY <1>2, <2>1 DEF Chmod
<1>3. ASSUME NEW d \in Dirs, MakeDir(d) \/ RemoveDir(d)
      PROVE  FilesTypeOK'
  <2>1. queue' \in Seq(Event) /\ overflow' \in BOOLEAN
    BY <1>3, DeliverType DEF MakeDir, RemoveDir
  <2>2. QED
    BY <1>3, <2>1 DEF MakeDir, RemoveDir
<1>4. QED
  BY <1>1, <1>2, <1>3 DEF WorldNext

(* The commands keep the tables and their own state well typed. *)
LEMMA CommandType ==
  ASSUME FilesTypeOK, ApprovalsTypeOK, ApprovalsNext
  PROVE  ApprovalsTypeOK' /\ ops' \in Nat
<1> USE DEF FilesTypeOK, ApprovalsTypeOK, CliType, CliHolds, Idle, CountOp,
            CanHash
<1>1. ASSUME NEW f \in Files, ApproveCommand(f)
      PROVE  ApprovalsTypeOK' /\ ops' \in Nat
  BY <1>1 DEF ApproveCommand
<1>2. ASSUME NEW f \in Files, InitTarget(f)
      PROVE  ApprovalsTypeOK' /\ ops' \in Nat
  BY <1>2 DEF InitTarget
<1>3. ASSUME NEW force \in BOOLEAN, InitCommand(force)
      PROVE  ApprovalsTypeOK' /\ ops' \in Nat
  BY <1>3 DEF InitCommand
<1>4. CASE ClearApproved
  BY <1>4 DEF ClearApproved
<1>5. CASE ResolveTargets
  BY <1>5 DEF ResolveTargets
<1>6. CASE InsertApproval
  BY <1>6 DEF InsertApproval, AfterApprove
<1>7. CASE RecordApproval
  <2>1. cli.file \in Files /\ cli.hash \in Contents /\ cli.todo \in SUBSET Files
    BY <1>7 DEF RecordApproval
  <2>2. [file |-> cli.file, hash |-> cli.hash, kind |-> "approved"] \in AuditRow
    BY <2>1 DEF AuditRow, AuditKinds
  <2>3. audit' \in SUBSET AuditRow
    BY <1>7, <2>2 DEF RecordApproval
  <2>4. cli' \in CliType /\ CliHolds'
    BY <1>7, <2>1 DEF RecordApproval
  <2>5. QED
    BY <1>7, <2>3, <2>4 DEF RecordApproval
<1>8. CASE CommandEnds
  BY <1>8 DEF CommandEnds
<1>9. QED
  BY <1>1, <1>2, <1>3, <1>4, <1>5, <1>6, <1>7, <1>8 DEF ApprovalsNext
-----------------------------------------------------------------------------
(* Freed, re-armed and advanced timers are well typed. *)
LEMMA FreeType ==
  Free \in Timer /\ \A f \in Files : Armed(f) \in Timer
BY DEF Free, Armed, Timer, Verdicts

(* A row the daemon records is a row of the events table ... *)
LEMMA RowType ==
  ASSUME NEW f \in Files, NEW h \in Contents \cup {Absent}, NEW k \in AuditKinds
  PROVE  Row(f, h, k) \in AuditRow
BY DEF AuditRow, Row

(* ... whether the store takes it or not. *)
LEMMA InsertType ==
  ASSUME TypeOK, NEW f, NEW h, NEW k, Row(f, h, k) \in AuditRow,
         NEW stored \in BOOLEAN, Insert(f, h, k, stored)
  PROVE  audit' \in SUBSET AuditRow /\ refused' \in SUBSET AuditRow
BY DEF Insert, AfterRecord, TypeOK, ApprovalsTypeOK, WatcherTypeOK

(* The verdicts of a check are kinds of audit rows. *)
LEMMA VerdictKinds == Verdicts \subseteq AuditKinds
BY DEF Verdicts, AuditKinds

(* One timer takes a well-typed state, the others keep theirs. *)
LEMMA TimerUpdate ==
  ASSUME timer \in [Timers -> Timer], \A u \in Timers : TimerOK(u),
         NEW t \in Timers, NEW r \in Timer, timer' = [timer EXCEPT ![t] = r],
         r.st # "free" => r.file \in Files,
         r.st \in {"lookup", "report"} => r.hash \in Contents,
         r.st = "report" => r.verdict \in Verdicts
  PROVE  timer' \in [Timers -> Timer] /\ \A u \in Timers : TimerOK(u)'
BY DEF TimerOK

(* Steps that leave files or approvals alone keep them well typed. *)
LEMMA FilesKept ==
  ASSUME FilesTypeOK, UNCHANGED fileVars  PROVE  FilesTypeOK'
BY DEF FilesTypeOK, fileVars

LEMMA ApprovalsKept ==
  ASSUME ApprovalsTypeOK, UNCHANGED approvalVars  PROVE  ApprovalsTypeOK'
BY DEF ApprovalsTypeOK, approvalVars, CliHolds

(* Every step of a timer or check keeps the model well typed. *)
LEMMA CheckType ==
  ASSUME TypeOK, NEW t \in Timers, Fire(t) \/ Unregister(t) \/ Check(t)
  PROVE  TypeOK'
<1> USE DEF TypeOK, WatcherTypeOK
<1> DEFINE f == timer[t].file
           h == timer[t].hash
           v == timer[t].verdict
           TimersOK == timer \in [Timers -> Timer] /\ \A u \in Timers : TimerOK(u)
<1>1. /\ timer[t] \in Timer
      /\ timer[t].st # "free" => f \in Files
      /\ timer[t].st \in {"lookup", "report"} => h \in Contents
      /\ timer[t].st = "report" => v \in Verdicts
  BY DEF TimerOK
<1>2. Free.st = "free" /\ Free \in Timer
  BY FreeType DEF Free
<1>3. TimersOK
  OBVIOUS
<1> HIDE DEF TimersOK
<1>4. ASSUME timer' = [timer EXCEPT ![t] = Free]
      PROVE  TimersOK'
  BY <1>2, <1>3, <1>4, TimerUpdate DEF TimersOK
<1>5. CASE Fire(t)
  <2>1. timer' = [timer EXCEPT ![t] = [timer[t] EXCEPT !.st = "fired"]]
    BY <1>5 DEF Fire
  <2> DEFINE r == [timer[t] EXCEPT !.st = "fired"]
  <2>2. r \in Timer /\ r.st = "fired" /\ r.file \in Files
    BY <1>1, <1>5 DEF Timer, Fire
  <2>3. TimersOK'
    BY <1>3, <2>1, <2>2, TimerUpdate DEF TimersOK
  <2>4. QED
    BY <1>5, <2>3, FilesKept, ApprovalsKept DEF Fire, TimersOK
<1>6. CASE Unregister(t)
  <2>1. timer' = [timer EXCEPT ![t] = [timer[t] EXCEPT !.st = "stat"]]
    BY <1>6 DEF Unregister
  <2> DEFINE r == [timer[t] EXCEPT !.st = "stat"]
  <2>2. r \in Timer /\ r.st = "stat" /\ r.file \in Files
    BY <1>1, <1>6 DEF Timer, Unregister
  <2>3. TimersOK'
    BY <1>3, <2>1, <2>2, TimerUpdate DEF TimersOK
  <2>4. QED
    BY <1>1, <1>6, <2>3, FilesKept, ApprovalsKept DEF Unregister, TimersOK
<1>7. ASSUME NEW stored \in BOOLEAN, StatMissing(t, stored)
      PROVE  TypeOK'
  <2>1. f \in Files /\ timer' = [timer EXCEPT ![t] = Free]
    BY <1>1, <1>7 DEF StatMissing
  <2>2. TimersOK'
    BY <1>4, <2>1
  <2>3. Row(f, Absent, "removed") \in AuditRow
    BY <2>1 DEF AuditRow, AuditKinds, Row
  <2>4. /\ alerts' \in SUBSET AuditRow
        /\ audit' \in SUBSET AuditRow /\ refused' \in SUBSET AuditRow
    BY <1>7, <2>3, InsertType DEF StatMissing
  <2>5. FilesTypeOK'
    BY <1>7 DEF StatMissing, FilesTypeOK, notifyVars
  <2>6. ApprovalsTypeOK'
    BY <1>7, <2>4 DEF StatMissing, ApprovalsTypeOK, CliHolds
  <2>7. QED
    BY <1>7, <2>2, <2>4, <2>5, <2>6 DEF StatMissing, TimersOK
<1>8. CASE StatFound(t)
  <2>1. timer' = [timer EXCEPT ![t] = [timer[t] EXCEPT !.st = "hash"]]
    BY <1>8 DEF StatFound
  <2> DEFINE r == [timer[t] EXCEPT !.st = "hash"]
  <2>2. r \in Timer /\ r.st = "hash" /\ r.file \in Files
    BY <1>1, <1>8 DEF Timer, StatFound
  <2>3. TimersOK'
    BY <1>3, <2>1, <2>2, TimerUpdate DEF TimersOK
  <2>4. QED
    BY <1>8, <2>3, FilesKept, ApprovalsKept DEF StatFound, TimersOK
<1>9. CASE HashRead(t)
  <2>1. f \in Files /\ content[f] \in Contents
    BY <1>1, <1>9 DEF HashRead, CanHash, FilesTypeOK
  <2>2. timer' = [timer EXCEPT ![t] = [timer[t] EXCEPT !.st = "lookup",
                    !.hash = content[f], !.ok = IsApproved(f, content[f])]]
    BY <1>9 DEF HashRead
  <2>3. IsApproved(f, content[f]) \in BOOLEAN
    BY DEF IsApproved
  <2> DEFINE r == [timer[t] EXCEPT !.st = "lookup", !.hash = content[f],
                                   !.ok = IsApproved(f, content[f])]
  <2>4. /\ r \in Timer /\ r.st = "lookup"
        /\ r.file \in Files /\ r.hash \in Contents
    BY <1>1, <2>1, <2>3 DEF Timer
  <2>5. TimersOK'
    BY <1>3, <2>2, <2>4, TimerUpdate DEF TimersOK
  <2>6. FilesTypeOK'
    BY <1>9 DEF HashRead, FilesTypeOK, notifyVars
  <2>7. QED
    BY <1>9, <2>1, <2>5, <2>6, ApprovalsKept DEF HashRead, TimersOK
<1>10. CASE ReadFails(t)
  BY <1>1, <1>4, <1>10, FilesKept, ApprovalsKept DEF ReadFails, TimersOK
<1>11. CASE Lookup(t)
  <2>1. timer' = [timer EXCEPT ![t] = [timer[t] EXCEPT !.st = "report",
                                         !.verdict = Verdict(f, h)]]
    BY <1>11 DEF Lookup
  <2>2. Verdict(f, h) \in Verdicts
    BY DEF Verdict, Verdicts
  <2> DEFINE r == [timer[t] EXCEPT !.st = "report", !.verdict = Verdict(f, h)]
  <2>3. /\ r \in Timer /\ r.st = "report" /\ r.verdict \in Verdicts
        /\ r.file \in Files /\ r.hash \in Contents
    BY <1>1, <1>11, <2>2 DEF Timer, Lookup
  <2>4. TimersOK'
    BY <1>3, <2>1, <2>3, TimerUpdate DEF TimersOK
  <2>5. QED
    BY <1>11, <2>4, FilesKept, ApprovalsKept DEF Lookup, TimersOK
<1>12. CASE LookupFails(t)
  BY <1>1, <1>4, <1>12, FilesKept, ApprovalsKept DEF LookupFails, TimersOK
<1>13. ASSUME NEW stored \in BOOLEAN, Report(t, stored)
       PROVE  TypeOK'
  <2>1. f \in Files /\ h \in Contents /\ v \in Verdicts
    BY <1>1, <1>13 DEF Report
  <2>2. Row(f, h, v) \in AuditRow
    BY <2>1, RowType, VerdictKinds
  <2>3. /\ alerts' \in SUBSET AuditRow
        /\ audit' \in SUBSET AuditRow /\ refused' \in SUBSET AuditRow
    BY <1>13, <2>2, InsertType DEF Report
  <2>4. ApprovalsTypeOK'
    BY <1>13, <2>3 DEF Report, ApprovalsTypeOK, CliHolds
  <2>5. QED
    BY <1>4, <1>13, <2>3, <2>4, FilesKept DEF Report, TimersOK
<1>14. QED
  BY <1>5, <1>6, <1>7, <1>8, <1>9, <1>10, <1>11, <1>12, <1>13
     DEF Check

(* Handling an event keeps the model well typed. *)
LEMMA HandleEventType ==
  ASSUME TypeOK, HandleEvent
  PROVE  TypeOK'
<1> USE DEF TypeOK
<1>1. queue' \in Seq(Event) /\ Head(queue) \in Event
  BY DEF HandleEvent, FilesTypeOK
<1>2. FilesTypeOK'
  BY <1>1 DEF HandleEvent, FilesTypeOK, worldVars
<1>3. ApprovalsTypeOK'
  BY ApprovalsKept DEF HandleEvent
<1>4. /\ timer' \in [Timers -> Timer] /\ \A u \in Timers : TimerOK(u)'
      /\ pending' \in [Files -> Timers \cup {NoTimer}]
  <2>1. CASE Relevant(Head(queue))
    <3>1. PICK t \in Timers :
            /\ timer' = AfterSchedule(Head(queue).name, t)
            /\ pending' = [pending EXCEPT ![Head(queue).name] = t]
      BY <2>1 DEF HandleEvent, ScheduleCheck
    <3>2. Head(queue).name \in Files
      BY <2>1 DEF Relevant
    <3> DEFINE f == Head(queue).name
    <3>3. /\ Free \in Timer /\ Free.st = "free"
          /\ Armed(f) \in Timer /\ Armed(f).st = "armed" /\ Armed(f).file = f
      BY <3>2, FreeType DEF Armed, Free
    <3> HIDE DEF f
    <3>4. \A u \in Timers : timer'[u] \in {Armed(f), Free, timer[u]}
      BY <3>1 DEF AfterSchedule, f
    <3>5. timer' \in [Timers -> Timer]
      BY <3>1, <3>3 DEF AfterSchedule, WatcherTypeOK, f
    <3>6. ASSUME NEW u \in Timers
          PROVE  TimerOK(u)'
      BY <3>2, <3>3, <3>4 DEF TimerOK, WatcherTypeOK, f
    <3>7. QED
      BY <3>1, <3>2, <3>5, <3>6 DEF WatcherTypeOK, f
  <2>2. CASE ~ Relevant(Head(queue))
    BY <2>2 DEF HandleEvent, WatcherTypeOK, TimerOK
  <2>3. QED
    BY <2>1, <2>2
<1>5. QED
  BY <1>2, <1>3, <1>4 DEF HandleEvent, WatcherTypeOK

(* The life cycle of the daemon keeps the model well typed. *)
LEMMA LifeCycleType ==
  ASSUME TypeOK,
         Start \/ RunReturns \/ CloseWatcher \/ CloseStore \/ ProcessEnds
  PROVE  TypeOK'
<1> USE DEF TypeOK, WatcherTypeOK
<1>1. Free \in Timer /\ Free.st = "free"
  BY FreeType DEF Free
<1>2. CASE Start
  BY <1>2, ApprovalsKept DEF Start, FilesTypeOK, worldVars, TimerOK
<1>3. CASE RunReturns
  BY <1>3, FilesKept, ApprovalsKept DEF RunReturns, TimerOK
<1>4. CASE CloseWatcher
  <2>1. \A u \in Timers : timer'[u] = Free \/ timer'[u] = timer[u]
    BY <1>4 DEF CloseWatcher
  <2>2. timer' \in [Timers -> Timer]
    BY <1>1, <1>4 DEF CloseWatcher
  <2>3. \A u \in Timers : TimerOK(u)'
    BY <1>1, <2>1 DEF TimerOK
  <2>4. FilesTypeOK'
    BY <1>4 DEF CloseWatcher, FilesTypeOK, worldVars
  <2>5. QED
    BY <1>4, <2>2, <2>3, <2>4, ApprovalsKept DEF CloseWatcher
<1>5. CASE CloseStore
  BY <1>5, FilesKept, ApprovalsKept DEF CloseStore, TimerOK
<1>6. CASE ProcessEnds
  <2>1. timer' \in [Timers -> Timer] /\ \A u \in Timers : TimerOK(u)'
    BY <1>1, <1>6 DEF ProcessEnds, TimerOK
  <2>2. overflow' \in BOOLEAN
    BY <1>6 DEF ProcessEnds
  <2>3. FilesTypeOK'
    BY <1>6, <2>2 DEF ProcessEnds, FilesTypeOK, worldVars
  <2>4. QED
    BY <1>6, <2>1, <2>3, ApprovalsKept DEF ProcessEnds
<1>7. QED
  BY <1>2, <1>3, <1>4, <1>5, <1>6

(* Every step keeps the model well typed. *)
LEMMA TypeStep ==
  ASSUME TypeOK, [Next]_vars
  PROVE  TypeOK'
<1>1. CASE WorldNext /\ UNCHANGED <<approvalVars, watcherVars>>
  BY <1>1, WorldType, ApprovalsKept
     DEF TypeOK, WatcherTypeOK, TimerOK, watcherVars
<1>2. CASE ApprovalsNext /\ UNCHANGED <<diskVars, notifyVars, watcherVars>>
  <2>1. ApprovalsTypeOK' /\ ops' \in Nat
    BY <1>2, CommandType DEF TypeOK
  <2>2. FilesTypeOK'
    BY <1>2, <2>1 DEF TypeOK, FilesTypeOK, diskVars, notifyVars
  <2>3. QED
    BY <1>2, <2>1, <2>2 DEF TypeOK, WatcherTypeOK, TimerOK, watcherVars
<1>3. CASE DaemonNext
  BY <1>3, CheckType, HandleEventType, LifeCycleType DEF DaemonNext
<1>4. CASE UNCHANGED vars
  BY <1>4, FilesKept, ApprovalsKept
     DEF vars, watcherVars, TypeOK, WatcherTypeOK, TimerOK
<1>5. QED
  BY <1>1, <1>2, <1>3, <1>4 DEF Next

LEMMA TypeInit == Init => TypeOK
<1> SUFFICES ASSUME Init PROVE TypeOK
  OBVIOUS
<1>0. overflow \in BOOLEAN
  BY DEF Init, FilesInit
<1>1. FilesTypeOK
  BY <1>0 DEF Init, FilesInit, FilesTypeOK
<1>2. ApprovalsTypeOK
  BY DEF Init, ApprovalsInit, ApprovalsTypeOK, CliType, CliHolds, Idle
<1>3. WatcherTypeOK
  BY FreeType DEF Init, WatcherTypeOK, TimerOK, Free
<1>4. QED
  BY <1>1, <1>2, <1>3 DEF TypeOK

(* The variables of the Layer 1 model always have their types. *)
THEOREM TypeCorrect == Spec => []TypeOK
<1>1. TypeOK /\ [Next]_vars => TypeOK'
  BY TypeStep
<1>2. QED
  BY <1>1, TypeInit, PTL DEF Spec
-----------------------------------------------------------------------------
(* What one step does to the timers, in the form the invariants need. *)

(* Scheduling arms a free timer for its file; the only other timer that     *)
(* changes is an armed one of the same file, and it becomes free.           *)
LEMMA ScheduleEffect ==
  ASSUME TypeOK, Registered, NEW f \in Files, ScheduleCheck(f)
  PROVE  \E t \in Timers :
           /\ timer[t].st = "free"
           /\ timer'[t].st = "armed" /\ timer'[t].file = f
           /\ pending' = [pending EXCEPT ![f] = t]
           /\ \A u \in Timers \ {t} :
                \/ timer'[u] = timer[u] /\ (u = pending[f] => timer[u].st # "armed")
                \/ /\ timer[u].st = "armed" /\ timer[u].file = f
                   /\ timer'[u].st = "free" /\ u = pending[f]
<1>1. PICK t \in Timers :
        /\ timer[t].st = "free"
        /\ timer' = AfterSchedule(f, t)
        /\ pending' = [pending EXCEPT ![f] = t]
  BY DEF ScheduleCheck
<1>2. timer'[t].st = "armed" /\ timer'[t].file = f
  BY <1>1 DEF AfterSchedule, Armed, Free
<1>3. ASSUME NEW u \in Timers \ {t}
      PROVE  \/ timer'[u] = timer[u] /\ (u = pending[f] => timer[u].st # "armed")
             \/ /\ timer[u].st = "armed" /\ timer[u].file = f
                /\ timer'[u].st = "free" /\ u = pending[f]
  <2>1. CASE u = pending[f] /\ timer[u].st = "armed"
    <3>1. timer[u].file = f
      BY <2>1, WatchAssumption DEF Registered
    <3>2. timer'[u] = Free
      BY <1>1, <2>1 DEF AfterSchedule
    <3>3. QED
      BY <2>1, <3>1, <3>2 DEF Free
  <2>2. CASE ~ (u = pending[f] /\ timer[u].st = "armed")
    <3>1. timer'[u] = timer[u]
      BY <1>1, <2>2 DEF AfterSchedule
    <3>2. QED
      BY <2>2, <3>1
  <2>3. QED
    BY <2>1, <2>2
<1>4. QED
  BY <1>1, <1>2, <1>3

(* A step of the files or the commands leaves the daemon alone. *)
LEMMA DaemonKept ==
  ASSUME \/ WorldNext /\ UNCHANGED <<approvalVars, watcherVars>>
         \/ ApprovalsNext /\ UNCHANGED <<diskVars, notifyVars, watcherVars>>
         \/ UNCHANGED vars
  PROVE  UNCHANGED watcherVars
BY DEF vars, watcherVars

-----------------------------------------------------------------------------
(* The map of pending timers names live timers of the right file. *)
LEMMA RegisteredStep ==
  ASSUME TypeOK, Registered, [Next]_vars
  PROVE  Registered'
<1> USE DEF TypeOK, WatcherTypeOK, Registered
<1>1. CASE UNCHANGED watcherVars
  BY <1>1 DEF watcherVars
<1>2. CASE HandleEvent
  <2>1. CASE Relevant(Head(queue))
    <3> DEFINE f == Head(queue).name
    <3>1. f \in Files /\ ScheduleCheck(f)
      BY <1>2, <2>1 DEF HandleEvent, Relevant
    <3> HIDE DEF f
    <3>2. PICK t \in Timers :
            /\ timer[t].st = "free"
            /\ timer'[t].st = "armed" /\ timer'[t].file = f
            /\ pending' = [pending EXCEPT ![f] = t]
            /\ \A u \in Timers \ {t} :
                 \/ timer'[u] = timer[u] /\ (u = pending[f] => timer[u].st # "armed")
                 \/ /\ timer[u].st = "armed" /\ timer[u].file = f
                    /\ timer'[u].st = "free" /\ u = pending[f]
      BY <3>1, ScheduleEffect
    <3>3. ASSUME NEW g \in Files, pending'[g] # NoTimer
          PROVE  timer'[pending'[g]].file = g
                 /\ timer'[pending'[g]].st \in {"armed", "fired"}
      <4>1. CASE g = f
        BY <3>1, <3>2, <4>1
      <4>2. CASE g # f
        <5>1. pending'[g] = pending[g] /\ pending[g] \in Timers
          BY <3>1, <3>2, <3>3, <4>2
        <5>2. timer[pending[g]].file = g
              /\ timer[pending[g]].st \in {"armed", "fired"}
          BY <3>3, <5>1
        <5>3. timer'[pending[g]] = timer[pending[g]]
          BY <3>2, <4>2, <5>1, <5>2
        <5>4. QED
          BY <5>1, <5>2, <5>3
      <4>3. QED
        BY <4>1, <4>2
    <3>4. QED
      BY <3>3
  <2>2. CASE ~ Relevant(Head(queue))
    BY <1>2, <2>2 DEF HandleEvent
  <2>3. QED
    BY <2>1, <2>2
<1>3. CASE Start \/ RunReturns \/ CloseStore
  BY <1>3 DEF Start, RunReturns, CloseStore
<1>4. CASE CloseWatcher \/ ProcessEnds
  BY <1>4 DEF CloseWatcher, ProcessEnds
<1>5. ASSUME NEW t \in Timers, Fire(t)
      PROVE  Registered'
  BY <1>5 DEF Fire
<1>6. ASSUME NEW t \in Timers, Unregister(t)
      PROVE  Registered'
  <2>1. timer[t].file \in Files
    BY <1>6 DEF Unregister, TimerOK
  <2>2. QED
    BY <1>6, <2>1 DEF Unregister
<1>7. ASSUME NEW t \in Timers, Check(t)
      PROVE  Registered'
  <2>1. pending' = pending /\ timer[t].st \notin {"armed", "fired"}
        /\ \A u \in Timers \ {t} : timer'[u] = timer[u]
    BY <1>7 DEF Check, StatMissing, StatFound, HashRead, ReadFails, Lookup,
             LookupFails, Report
  <2>2. QED
    BY <2>1
<1>8. QED
  BY <1>1, <1>2, <1>3, <1>4, <1>5, <1>6, <1>7, DaemonKept DEF Next, DaemonNext

(* While the daemon is down nothing is watched and every change is blind. *)
LEMMA BlindStep ==
  ASSUME TypeOK, BlindWhenDown, [Next]_vars
  PROVE  BlindWhenDown'
<1> USE DEF BlindWhenDown
<1>1. CASE WorldNext /\ UNCHANGED <<approvalVars, watcherVars>>
  <2>1. ASSUME NEW f \in Files, NEW c \in Contents \cup {Absent}, Change(f, c)
        PROVE  BlindWhenDown'
    BY <1>1, <2>1 DEF Change, watcherVars
  <2>2. ASSUME NEW f \in Files, Chmod(f)
        PROVE  BlindWhenDown'
    BY <1>1, <2>2 DEF Chmod, watcherVars
  <2>3. ASSUME NEW d \in Dirs, MakeDir(d) \/ RemoveDir(d)
        PROVE  BlindWhenDown'
    BY <1>1, <2>3 DEF MakeDir, RemoveDir, watcherVars
  <2>4. QED
    BY <1>1, <2>1, <2>2, <2>3 DEF WorldNext
<1>2. CASE ApprovalsNext /\ UNCHANGED <<diskVars, notifyVars, watcherVars>>
  BY <1>2 DEF diskVars, notifyVars, watcherVars
<1>3. CASE Start \/ HandleEvent \/ RunReturns \/ CloseWatcher
           \/ CloseStore \/ ProcessEnds
  BY <1>3 DEF Start, HandleEvent, RunReturns, CloseWatcher, CloseStore,
              ProcessEnds, worldVars, fileVars
<1>4. ASSUME NEW t \in Timers, Fire(t) \/ Unregister(t) \/ Check(t)
      PROVE  BlindWhenDown'
  BY <1>4 DEF Fire, Unregister, Check, StatMissing, StatFound, HashRead,
              ReadFails, Lookup, LookupFails, Report, fileVars, notifyVars
<1>5. CASE UNCHANGED vars
  BY <1>5 DEF vars, fileVars, watcherVars
<1>6. QED
  BY <1>1, <1>2, <1>3, <1>4, <1>5 DEF Next, DaemonNext
-----------------------------------------------------------------------------
(* No change made under a watch is missed. *)

(* What a delivered event does to the queue. *)
LEMMA DeliverEffect ==
  ASSUME queue \in Seq(Event), NEW e \in Event, Deliver(e)
  PROVE  /\ overflow => overflow'
         /\ \A f \in Files : Queued(f) => Queued(f)'
         /\ Relevant(e) => Queued(e.name)' \/ overflow'
<1>1. CASE Len(queue) < MaxQueue
  <2>1. /\ queue' = Append(queue, e) /\ overflow' = overflow
        /\ Len(queue') = Len(queue) + 1 /\ Len(queue) \in Nat
        /\ queue'[Len(queue) + 1] = e
        /\ \A i \in 1..Len(queue) : queue'[i] = queue[i]
    BY <1>1 DEF Deliver
  <2>2. QED
    BY <2>1 DEF Queued
<1>2. CASE ~ (Len(queue) < MaxQueue)
  BY <1>2 DEF Deliver, Queued
<1>3. QED
  BY <1>1, <1>2

(* Receiving an event removes that event only. *)
LEMMA TailEffect ==
  ASSUME queue \in Seq(Event), queue # <<>>, queue' = Tail(queue),
         NEW f \in Files, Queued(f)
  PROVE  Queued(f)' \/ (Relevant(Head(queue)) /\ Head(queue).name = f)
<1>1. PICK i \in 1..Len(queue) : Relevant(queue[i]) /\ queue[i].name = f
  BY DEF Queued
<1>2. CASE i = 1
  BY <1>1, <1>2
<1>3. CASE i # 1
  <2>1. i - 1 \in 1..Len(queue') /\ queue'[i - 1] = queue[i]
    BY <1>1, <1>3
  <2>2. QED
    BY <1>1, <2>1 DEF Queued
<1>4. QED
  BY <1>2, <1>3

(* Changes of the file system: f is queued, lost to an overflow, or blind. *)
LEMMA NoMissedWorld ==
  ASSUME TypeOK, NoMissedChange, WorldNext, UNCHANGED watcherVars
  PROVE  NoMissedChange'
<1> USE DEF TypeOK, FilesTypeOK, Quiet
<1>0. phase' = phase /\ timer' = timer /\ warned' = warned
  BY DEF watcherVars
<1>1. ASSUME NEW f \in Files, NEW c \in Contents \cup {Absent}, Change(f, c),
             phase' = "up", NEW g \in dirty' \ blind'
      PROVE  WillRead(g)' \/ g \in warned' \/ overflow'
  <2> DEFINE e == [name |-> f, chmod |-> FALSE]
  <2>1. e \in Event /\ Relevant(e) /\ e.name = f
    BY DEF Event, Relevant
  <2> HIDE DEF e
  <2>2. CASE DirOf(f) \in watched
    <3>1. Deliver(e)
      BY <1>1, <2>2 DEF Change, e
    <3>2. /\ overflow => overflow'
          /\ \A h \in Files : Queued(h) => Queued(h)'
          /\ Queued(f)' \/ overflow'
      BY <2>1, <3>1, DeliverEffect
    <3>3. CASE g = f
      BY <3>2, <3>3 DEF WillRead
    <3>4. CASE g # f
      <4>1. g \in Files /\ g \in dirty \ blind /\ content'[g] = content[g]
        BY <1>1, <2>2, <3>4 DEF Change
      <4>2. WillRead(g) \/ g \in warned \/ overflow
        BY <1>0, <1>1, <4>1 DEF NoMissedChange
      <4>3. QED
        BY <1>0, <3>2, <4>1, <4>2 DEF WillRead, InState
    <3>5. QED
      BY <3>3, <3>4
  <2>3. CASE DirOf(f) \notin watched
    <3>1. g \in Files /\ g \in dirty \ blind /\ content'[g] = content[g]
          /\ queue' = queue /\ overflow' = overflow
      BY <1>1, <2>3 DEF Change
    <3>2. WillRead(g) \/ g \in warned \/ overflow
      BY <1>0, <1>1, <3>1 DEF NoMissedChange
    <3>3. QED
      BY <1>0, <3>1, <3>2 DEF WillRead, InState, Queued
  <2>4. QED
    BY <2>2, <2>3
<1>2. ASSUME \/ \E f \in Files : Chmod(f)
             \/ \E d \in Dirs : MakeDir(d) \/ RemoveDir(d),
             phase' = "up", NEW g \in dirty' \ blind'
      PROVE  WillRead(g)' \/ g \in warned' \/ overflow'
  <2>1. g \in Files /\ g \in dirty \ blind /\ content' = content
    BY <1>2 DEF Chmod, MakeDir, RemoveDir
  <2>2. (overflow => overflow') /\ (Queued(g) => Queued(g)')
    <3>1. CASE Quiet
      BY <3>1 DEF Queued
    <3>2. CASE \E e \in Event : Deliver(e)
      BY <2>1, <3>2, DeliverEffect
    <3>3. QED
      <4>1. \A n \in Files \cup Dirs, b \in BOOLEAN : [name |-> n, chmod |-> b] \in Event
        BY DEF Event
      <4>2. Quiet \/ \E n \in Files \cup Dirs, b \in BOOLEAN :
                        Deliver([name |-> n, chmod |-> b])
        BY <1>2 DEF Chmod, MakeDir, RemoveDir
      <4>3. QED
        BY <3>1, <3>2, <4>1, <4>2
  <2>3. WillRead(g) \/ g \in warned \/ overflow
    BY <1>0, <1>2, <2>1 DEF NoMissedChange
  <2>4. QED
    BY <1>0, <2>1, <2>2, <2>3 DEF WillRead, InState
<1>3. QED
  BY <1>1, <1>2 DEF WorldNext, NoMissedChange

(* An event that is handled leaves an armed timer behind. *)
LEMMA NoMissedEvent ==
  ASSUME TypeOK, Registered, NoMissedChange, HandleEvent
  PROVE  NoMissedChange'
<1> SUFFICES ASSUME NEW g \in dirty' \ blind'
             PROVE  WillRead(g)' \/ g \in warned' \/ overflow'
  BY DEF NoMissedChange
<1>1. /\ phase = "up" /\ queue # <<>> /\ queue' = Tail(queue)
      /\ content' = content /\ dirty' = dirty /\ blind' = blind
      /\ warned' = warned /\ overflow' = overflow
  BY DEF HandleEvent, worldVars
<1>2. g \in Files /\ (WillRead(g) \/ g \in warned \/ overflow)
  BY <1>1 DEF NoMissedChange, TypeOK, FilesTypeOK
<1>3. CASE ~ Relevant(Head(queue))
  <2>1. timer' = timer
    BY <1>3 DEF HandleEvent
  <2>2. Queued(g) => Queued(g)'
    BY <1>1, <1>2, <1>3, TailEffect DEF TypeOK, FilesTypeOK
  <2>3. QED
    BY <1>1, <1>2, <2>1, <2>2 DEF WillRead, InState
<1>4. CASE Relevant(Head(queue))
  <2>1. PICK f \in Files : f = Head(queue).name /\ ScheduleCheck(f)
    BY <1>4 DEF HandleEvent, Relevant
  <2>2. PICK t \in Timers :
          /\ timer[t].st = "free"
          /\ timer'[t].st = "armed" /\ timer'[t].file = f
          /\ \A u \in Timers \ {t} :
               \/ timer'[u] = timer[u]
               \/ timer[u].st = "armed" /\ timer[u].file = f
    BY <2>1, ScheduleEffect
  <2>3. InState(f, {"armed", "fired", "stat"})'
    BY <2>2 DEF InState
  <2>4. ASSUME g # f, NEW S, InState(g, S), "free" \notin S
        PROVE  InState(g, S)'
    BY <2>2, <2>4 DEF InState
  <2>5. Queued(g) => Queued(g)' \/ g = f
    BY <1>1, <1>2, <2>1, TailEffect DEF TypeOK, FilesTypeOK
  <2>6. QED
    BY <1>1, <1>2, <2>3, <2>4, <2>5 DEF WillRead
<1>5. QED
  BY <1>3, <1>4

(* A timer or check that moves on still reads its file, has read it, or warns. *)
LEMMA NoMissedCheck ==
  ASSUME TypeOK, NoMissedChange, NEW t \in Timers,
         Fire(t) \/ Unregister(t) \/ Check(t)
  PROVE  NoMissedChange'
<1> SUFFICES ASSUME phase' = "up", NEW g \in dirty' \ blind'
             PROVE  WillRead(g)' \/ g \in warned' \/ overflow'
  BY DEF NoMissedChange
<1> DEFINE f == timer[t].file
<1>1. /\ phase' = phase /\ queue' = queue /\ content' = content
      /\ overflow' = overflow /\ blind' = blind
      /\ g \in dirty \ blind /\ g \in Files
      /\ \A u \in Timers \ {t} : timer'[u] = timer[u]
  BY DEF Fire, Unregister, Check, StatMissing, StatFound, HashRead, ReadFails,
         Lookup, LookupFails, Report, fileVars, notifyVars, TypeOK, FilesTypeOK, WatcherTypeOK
<1>2. WillRead(g) \/ g \in warned \/ overflow
  BY <1>1 DEF NoMissedChange
<1>3. Queued(g) => Queued(g)'
  BY <1>1 DEF Queued
<1>4. ASSUME NEW S, g # f, InState(g, S)
      PROVE  InState(g, S)'
  BY <1>1, <1>4 DEF InState
<1>5. ASSUME NEW S, timer[t].st \notin S, InState(g, S)
      PROVE  InState(g, S)'
  BY <1>1, <1>5 DEF InState
<1>6. CASE g # f
  <2>1. g \in warned => g \in warned'
    BY <1>6 DEF Fire, Unregister, Check, StatMissing, StatFound, HashRead,
                ReadFails, Lookup, LookupFails, Report
  <2>2. QED
    BY <1>1, <1>2, <1>3, <1>4, <1>6, <2>1 DEF WillRead
<1>7. CASE g = f
  <2>1. CASE Fire(t)
    BY <1>7, <2>1 DEF Fire, WillRead, InState, TypeOK, WatcherTypeOK
  <2>2. CASE Unregister(t)
    BY <1>7, <2>2 DEF Unregister, WillRead, InState, TypeOK, WatcherTypeOK
  <2>3. CASE HashRead(t) \/ \E stored \in BOOLEAN : StatMissing(t, stored)
    BY <1>7, <2>3 DEF StatMissing, HashRead
  <2>4. CASE StatFound(t)
    BY <1>1, <1>7, <2>4 DEF StatFound, WillRead, InState, TypeOK, WatcherTypeOK
  <2>5. CASE ReadFails(t)
    BY <1>7, <2>5 DEF ReadFails
  <2>6. CASE Lookup(t) \/ LookupFails(t) \/ \E stored \in BOOLEAN : Report(t, stored)
    <3>1. timer[t].st \in {"lookup", "report"} /\ (g \in warned => g \in warned')
      BY <2>6 DEF Lookup, LookupFails, Report
    <3>2. QED
      BY <1>1, <1>2, <1>3, <1>5, <3>1 DEF WillRead
  <2>7. QED
    BY <2>1, <2>2, <2>3, <2>4, <2>5, <2>6 DEF Check
<1>8. QED
  BY <1>6, <1>7

LEMMA NoMissedStep ==
  ASSUME TypeOK, Registered, BlindWhenDown, NoMissedChange, [Next]_vars
  PROVE  NoMissedChange'
<1>1. CASE WorldNext /\ UNCHANGED <<approvalVars, watcherVars>>
  BY <1>1, NoMissedWorld
<1>2. CASE ApprovalsNext /\ UNCHANGED <<diskVars, notifyVars, watcherVars>>
  BY <1>2 DEF NoMissedChange, WillRead, Queued, InState, diskVars, notifyVars,
              watcherVars
<1>3. CASE Start
  BY <1>3 DEF Start, BlindWhenDown, NoMissedChange, worldVars
<1>4. CASE RunReturns \/ CloseWatcher \/ CloseStore \/ ProcessEnds
  BY <1>4 DEF RunReturns, CloseWatcher, CloseStore, ProcessEnds, NoMissedChange
<1>5. CASE UNCHANGED vars
  BY <1>5 DEF vars, NoMissedChange, WillRead, Queued, InState, fileVars,
              watcherVars
<1>6. QED
  BY <1>1, <1>2, <1>3, <1>4, <1>5, NoMissedEvent, NoMissedCheck
     DEF Next, DaemonNext
-----------------------------------------------------------------------------
(* A verdict agrees with the approvals it was made from. *)
LEMMA VerdictStep ==
  ASSUME TypeOK, VerdictJustified, [Next]_vars
  PROVE  VerdictJustified'
<1> USE DEF VerdictJustified, Judged
<1>1. CASE UNCHANGED <<timer, approved, revoked>>
  BY <1>1
<1>2. CASE ApprovalsNext /\ UNCHANGED watcherVars
  <2>1. timer' = timer
    BY <1>2 DEF watcherVars
  <2>2. /\ approved \cup revoked \subseteq approved' \cup revoked'
        /\ revoked \subseteq revoked'
    BY <1>2 DEF ApprovalsNext, ApproveCommand, InitTarget, InitCommand,
                ClearApproved, ResolveTargets, InsertApproval, RecordApproval,
                CommandEnds, AfterApprove
  <2>3. QED
    BY <2>1, <2>2
<1>3. CASE HandleEvent \/ CloseWatcher \/ ProcessEnds
  <2>1. /\ approved' = approved /\ revoked' = revoked
        /\ \A u \in Timers :
             timer'[u] = timer[u] \/ timer'[u].st \in {"free", "armed"}
    <3>1. approved' = approved /\ revoked' = revoked
      BY <1>3 DEF HandleEvent, CloseWatcher, ProcessEnds, approvalVars
    <3>2. CASE HandleEvent
      <4>1. CASE timer' = timer
        BY <3>1, <4>1
      <4>2. CASE \E f, t : timer' = AfterSchedule(f, t)
        BY <3>1, <4>2 DEF AfterSchedule, Armed, Free
      <4>3. QED
        BY <3>2, <4>1, <4>2 DEF HandleEvent, ScheduleCheck
    <3>3. CASE CloseWatcher \/ ProcessEnds
      BY <3>1, <3>3 DEF CloseWatcher, ProcessEnds, Free
    <3>4. QED
      BY <1>3, <3>2, <3>3
  <2>2. QED
    BY <2>1
<1>4. ASSUME NEW t \in Timers, NEW stored \in BOOLEAN,
             Fire(t) \/ Unregister(t) \/ StatMissing(t, stored) \/ StatFound(t)
             \/ ReadFails(t) \/ LookupFails(t) \/ Report(t, stored)
      PROVE  VerdictJustified'
  <2>1. /\ approved' = approved /\ revoked' = revoked
        /\ \A u \in Timers :
             timer'[u] = timer[u] \/ timer'[u].st \notin {"lookup", "report"}
    <3>1. approved' = approved /\ revoked' = revoked
      BY <1>4 DEF Fire, Unregister, StatMissing, StatFound, ReadFails,
                  LookupFails, Report, approvalVars
    <3>2. CASE timer' = [timer EXCEPT ![t] = Free]
      BY <3>1, <3>2 DEF Free, TypeOK, WatcherTypeOK
    <3>3. CASE Fire(t) \/ Unregister(t) \/ StatFound(t)
      BY <3>1, <3>3 DEF Fire, Unregister, StatFound, TypeOK, WatcherTypeOK, Timer
    <3>4. QED
      BY <1>4, <3>2, <3>3 DEF StatMissing, ReadFails, LookupFails, Report
  <2>2. QED
    BY <2>1
<1>5. ASSUME NEW t \in Timers, HashRead(t)
      PROVE  VerdictJustified'
  <2>1. /\ approved' = approved /\ revoked' = revoked
        /\ \A u \in Timers \ {t} : timer'[u] = timer[u]
        /\ timer'[t].st = "lookup"
        /\ timer'[t].file = timer[t].file
        /\ timer'[t].hash = content[timer[t].file]
        /\ timer'[t].ok = (<<timer[t].file, content[timer[t].file]>> \in approved)
    BY <1>5 DEF HashRead, IsApproved, approvalVars, TypeOK, WatcherTypeOK, Timer
  <2>2. QED
    BY <2>1
<1>6. ASSUME NEW t \in Timers, Lookup(t)
      PROVE  VerdictJustified'
  <2>1. /\ approved' = approved /\ revoked' = revoked
        /\ \A u \in Timers \ {t} : timer'[u] = timer[u]
    BY <1>6 DEF Lookup, approvalVars, TypeOK, WatcherTypeOK
  <2>2. /\ timer'[t].st = "report"
        /\ timer'[t].verdict = Verdict(timer[t].file, timer[t].hash)
        /\ timer'[t].file = timer[t].file /\ timer'[t].hash = timer[t].hash
        /\ timer'[t].ok = timer[t].ok
        /\ timer[t].st = "lookup"
    BY <1>6 DEF Lookup, TypeOK, WatcherTypeOK, Timer
  <2>3. Verdict(timer[t].file, timer[t].hash) = "approved-change"
          <=> Judged(t) \in approved
    BY DEF Verdict, IsApproved
  <2>4. QED
    BY <2>1, <2>2, <2>3
<1>7. CASE WorldNext /\ UNCHANGED <<approvalVars, watcherVars>>
  BY <1>1, <1>7 DEF approvalVars, watcherVars
<1>8. CASE UNCHANGED vars
  BY <1>1, <1>8 DEF vars, approvalVars, watcherVars
<1>9. CASE Start \/ RunReturns \/ CloseStore
  BY <1>1, <1>9 DEF Start, RunReturns, CloseStore, approvalVars
<1>10. QED
  BY <1>2, <1>3, <1>4, <1>5, <1>6, <1>7, <1>8, <1>9
     DEF Next, DaemonNext, Check, watcherVars
-----------------------------------------------------------------------------
(* What was read has been judged, or is being judged. *)

(* The judgement of a file, written out for a content c it holds. *)
Settles(f, c) ==
  \/ IsApproved(f, c)
  \/ \E k \in {"unapproved-change", "ioc-match"} :
       Row(f, c, k) \in alerts \cap (audit \cup refused)
  \/ \E t \in Timers : /\ timer[t].file = f /\ timer[t].hash = c
                        /\ timer[t].st \in {"lookup", "report"}
  \/ <<f, c>> \in revoked
  \/ f \in warned

LEMMA ReadIsJudgedIff ==
  ReadIsJudged <=>
    \A f \in examined \ dirty : content[f] # Absent => Settles(f, content[f])
BY DEF ReadIsJudged, Settles, Alerted, InJudgement

(* A step of a check keeps a judged file judged, unless it reads it again. *)
LEMMA SettlesCheck ==
  ASSUME TypeOK, VerdictJustified, NEW t \in Timers,
         Fire(t) \/ Unregister(t) \/ Check(t),
         NEW f, NEW c, Settles(f, c), f \in warned => f \in warned'
  PROVE  Settles(f, c)'
<1> USE DEF Settles
<1>1. /\ approved' = approved /\ revoked' = revoked
      /\ alerts \subseteq alerts' /\ audit \subseteq audit'
      /\ refused \subseteq refused'
      /\ \A u \in Timers \ {t} : timer'[u] = timer[u]
  BY DEF Fire, Unregister, Check, StatMissing, StatFound, HashRead, ReadFails,
         Lookup, LookupFails, Report, approvalVars, Insert, AfterRecord, TypeOK, WatcherTypeOK
<1>2. CASE ~ (/\ timer[t].file = f /\ timer[t].hash = c
              /\ timer[t].st \in {"lookup", "report"})
  BY <1>1, <1>2 DEF IsApproved
<1>3. CASE /\ timer[t].file = f /\ timer[t].hash = c
           /\ timer[t].st \in {"lookup", "report"}
  <2>1. CASE Lookup(t)
    <3>1. /\ timer'[t].st = "report"
          /\ timer'[t].file = f /\ timer'[t].hash = c
      BY <1>3, <2>1 DEF Lookup, TypeOK, WatcherTypeOK, Timer
    <3>2. QED
      BY <3>1
  <2>2. ASSUME NEW stored \in BOOLEAN, Report(t, stored)
        PROVE  Settles(f, c)'
    <3>1. timer[t].verdict \in Verdicts
      BY <2>2 DEF Report, TypeOK, WatcherTypeOK, TimerOK
    <3>2. CASE timer[t].verdict = "approved-change"
      BY <1>1, <1>3, <2>2, <3>2
         DEF Report, VerdictJustified, Judged, IsApproved
    <3>3. CASE timer[t].verdict # "approved-change"
      BY <1>3, <2>2, <3>1, <3>3 DEF Report, Insert, AfterRecord, Verdicts
    <3>4. QED
      BY <3>2, <3>3
  <2>3. CASE LookupFails(t)
    BY <1>3, <2>3 DEF LookupFails
  <2>4. QED
    BY <1>3, <2>1, <2>2, <2>3
       DEF Fire, Unregister, Check, StatMissing, StatFound, HashRead, ReadFails
<1>4. QED
  BY <1>2, <1>3

LEMMA ReadIsJudgedStep ==
  ASSUME TypeOK, VerdictJustified, ReadIsJudged, [Next]_vars
  PROVE  ReadIsJudged'
<1> SUFFICES ASSUME NEW f \in examined' \ dirty',
                    NEW c, c = content'[f], c # Absent
             PROVE  Settles(f, c)'
  BY DEF ReadIsJudged, Settles, Alerted, InJudgement
<1>1. ASSUME f \in examined \ dirty, content[f] = c
      PROVE  Settles(f, c)
  BY <1>1, ReadIsJudgedIff
<1>2. CASE WorldNext /\ UNCHANGED <<approvalVars, watcherVars>>
  <2>1. f \in examined \ dirty /\ content[f] = c
    <3>1. ASSUME NEW g \in Files, NEW d \in Contents \cup {Absent}, Change(g, d)
          PROVE  f \in examined \ dirty /\ content[f] = c
      BY <1>2, <3>1 DEF Change, watcherVars, TypeOK, FilesTypeOK, WatcherTypeOK
    <3>2. QED
      BY <1>2, <3>1 DEF WorldNext, Chmod, MakeDir, RemoveDir, watcherVars
  <2>2. QED
    BY <1>1, <1>2, <2>1 DEF Settles, IsApproved, approvalVars, watcherVars
<1>3. CASE ApprovalsNext /\ UNCHANGED <<diskVars, notifyVars, watcherVars>>
  <2>1. Settles(f, c) /\ content' = content
    BY <1>1, <1>3 DEF diskVars, watcherVars
  <2>2. /\ approved \cup revoked \subseteq approved' \cup revoked'
        /\ audit \subseteq audit'
    BY <1>3 DEF ApprovalsNext, ApproveCommand, InitTarget, InitCommand,
                ClearApproved, ResolveTargets, InsertApproval, RecordApproval,
                CommandEnds, AfterApprove
  <2>3. QED
    BY <1>3, <2>1, <2>2 DEF Settles, IsApproved, watcherVars
<1>4. CASE HandleEvent \/ CloseWatcher
  <2>1. /\ approved' = approved /\ revoked' = revoked /\ alerts' = alerts
        /\ audit' = audit /\ refused' = refused /\ warned' = warned
        /\ content' = content /\ f \in examined \ dirty
    BY <1>4 DEF HandleEvent, CloseWatcher, approvalVars, worldVars
  <2>2. ASSUME NEW u \in Timers, timer[u].st \in {"lookup", "report"}
        PROVE  timer'[u] = timer[u]
    <3>1. CASE HandleEvent
      <4>1. CASE timer' = timer
        BY <4>1
      <4>2. CASE \E g, t : timer[t].st = "free" /\ timer' = AfterSchedule(g, t)
        BY <2>2, <4>2 DEF AfterSchedule
      <4>3. QED
        BY <3>1, <4>1, <4>2 DEF HandleEvent, ScheduleCheck
    <3>2. CASE CloseWatcher
      BY <2>2, <3>2 DEF CloseWatcher
    <3>3. QED
      BY <1>4, <3>1, <3>2
  <2>3. QED
    BY <1>1, <2>1, <2>2 DEF Settles, IsApproved
<1>5. CASE ProcessEnds
  BY <1>5 DEF ProcessEnds
<1>6. CASE Start \/ RunReturns \/ CloseStore \/ UNCHANGED vars
  BY <1>1, <1>6 DEF Start, RunReturns, CloseStore, vars, Settles, IsApproved,
                    approvalVars, worldVars, fileVars, watcherVars
<1>7. ASSUME NEW t \in Timers, Fire(t) \/ Unregister(t) \/ Check(t)
      PROVE  Settles(f, c)'
  <2>1. content' = content
    BY <1>7 DEF Fire, Unregister, Check, StatMissing, StatFound, HashRead,
                ReadFails, Lookup, LookupFails, Report, fileVars
  <2>2. CASE HashRead(t) /\ timer[t].file = f
    BY <2>1, <2>2 DEF HashRead, Settles, TypeOK, WatcherTypeOK, Timer
  <2>3. CASE ~ (HashRead(t) /\ timer[t].file = f)
    <3>1. CASE timer[t].file = f /\ \E stored \in BOOLEAN : StatMissing(t, stored)
      BY <2>1, <3>1 DEF StatMissing
    <3>2. CASE ~ (timer[t].file = f /\ \E stored \in BOOLEAN : StatMissing(t, stored))
      <4>1. f \in examined \ dirty /\ (f \in warned => f \in warned')
        BY <1>7, <2>3, <3>2
           DEF Fire, Unregister, Check, StatMissing, StatFound, HashRead,
               ReadFails, Lookup, LookupFails, Report, fileVars
      <4>2. Settles(f, c)
        BY <1>1, <2>1, <4>1
      <4>3. QED
        BY <1>7, <2>1, <4>1, <4>2, SettlesCheck
    <3>3. QED
      BY <3>1, <3>2
  <2>4. QED
    BY <2>2, <2>3
<1>8. QED
  BY <1>2, <1>3, <1>4, <1>5, <1>6, <1>7 DEF Next, DaemonNext

-----------------------------------------------------------------------------
(* Only Lookup gives a verdict, and the check goes on to its report. *)
LEMMA UndecidedStep ==
  ASSUME TypeOK, Undecided, [Next]_vars
  PROVE  Undecided'
<1> USE DEF Undecided
<1>1. CASE UNCHANGED timer
  BY <1>1
<1>2. CASE HandleEvent /\ timer' # timer
  <2>1. PICK f, t : timer' = AfterSchedule(f, t)
    BY <1>2 DEF HandleEvent, ScheduleCheck
  <2>2. QED
    BY <2>1 DEF AfterSchedule, Armed, Free
<1>3. CASE CloseWatcher \/ ProcessEnds
  BY <1>3 DEF CloseWatcher, ProcessEnds, Free
<1>4. ASSUME NEW t \in Timers, Fire(t) \/ Unregister(t) \/ StatFound(t) \/ HashRead(t)
      PROVE  Undecided'
  <2>1. /\ \A u \in Timers \ {t} : timer'[u] = timer[u]
        /\ timer[t].st # "report" /\ timer'[t].verdict = timer[t].verdict
    BY <1>4 DEF Fire, Unregister, StatFound, HashRead, TypeOK, WatcherTypeOK, Timer
  <2>2. QED
    BY <2>1
<1>5. ASSUME NEW t \in Timers, NEW stored \in BOOLEAN,
             StatMissing(t, stored) \/ ReadFails(t) \/ Report(t, stored) \/ LookupFails(t)
      PROVE  Undecided'
  <2>1. timer' = [timer EXCEPT ![t] = Free]
    BY <1>5 DEF StatMissing, ReadFails, Report, LookupFails
  <2>2. QED
    BY <2>1 DEF Free, TypeOK, WatcherTypeOK
<1>6. ASSUME NEW t \in Timers, Lookup(t)
      PROVE  Undecided'
  <2>1. /\ \A u \in Timers \ {t} : timer'[u] = timer[u]
        /\ timer'[t].st = "report"
    BY <1>6 DEF Lookup, TypeOK, WatcherTypeOK, Timer
  <2>2. QED
    BY <2>1
<1>7. UNCHANGED watcherVars \/ Start \/ RunReturns \/ CloseStore => UNCHANGED timer
  BY DEF watcherVars, Start, RunReturns, CloseStore
<1>8. QED
  BY <1>1, <1>2, <1>3, <1>4, <1>5, <1>6, <1>7, DaemonKept
     DEF Next, DaemonNext, Check

-----------------------------------------------------------------------------
LEMMA Inductive == IInv /\ [Next]_vars => IInv'
BY TypeStep, RegisteredStep, BlindStep, NoMissedStep, ReadIsJudgedStep,
   VerdictStep, UndecidedStep DEF IInv

LEMMA Initially == Init => IInv
<1> SUFFICES ASSUME Init PROVE IInv
  OBVIOUS
<1>1. TypeOK
  BY TypeInit
<1>2. \A t \in Timers : timer[t].st = "free"
  BY DEF Init, Free
<1>3. Registered /\ VerdictJustified /\ Undecided
  BY <1>2 DEF Init, Registered, VerdictJustified, Undecided, Free
<1>4. BlindWhenDown /\ NoMissedChange /\ ReadIsJudged
  BY DEF Init, FilesInit, BlindWhenDown, NoMissedChange, ReadIsJudged
<1>5. QED
  BY <1>1, <1>3, <1>4 DEF IInv

LEMMA Invariance == Spec => []IInv
BY Initially, Inductive, PTL DEF Spec

(* A change made under a watch is read, will be read, or was warned about   *)
(* or lost to a reported overflow: watcher.go:130-182.                      *)
THEOREM ChangesAreNotMissed == Spec => []NoMissedChange
<1>1. IInv => NoMissedChange
  BY DEF IInv
<1>2. QED
  BY <1>1, Invariance, PTL

(* What `ccguard status' would call drift was alerted by the daemon that     *)
(* has read it, and logged or refused by the store: watcher.go:179-228.     *)
THEOREM DriftAlerts == Spec => []DriftIsAlerted
<1>1. IInv => DriftIsAlerted
  BY DEF IInv, ReadIsJudged, DriftIsAlerted, Drift, CanHash
<1>2. QED
  BY <1>1, Invariance, PTL

(* An approval that held when the file was read and was never cleared rules *)
(* an alert out: watcher.go:192-205.                                        *)
THEOREM NoFalseAlarms == Spec => []NoFalseAlarm
<1>1. IInv => NoFalseAlarm
  BY DEF IInv, VerdictJustified, Judged, NoFalseAlarm
<1>2. QED
  BY <1>1, Invariance, PTL

-----------------------------------------------------------------------------
(* Layer 1 is an Integrity watcher: what each step does to what is owed and  *)
(* to what is held.                                                          *)
ToRead == {"armed", "fired", "stat", "hash"}
Reporting == {"lookup", "report"}

LEMMA OwedIs ==
  ASSUME NEW f
  PROVE  f \in Owed <=> f \in Files /\ ((phase = "up" /\ Queued(f)) \/ InState(f, ToRead))
BY DEF Owed, ToRead

LEMMA HeldIs ==
  ASSUME NEW x
  PROVE  x \in Held <=> \E t \in Timers : timer[t].st \in Reporting /\ x = Finding(t)
BY DEF Held, Reporting

(* Only the timer or check t moves, and keeps its file while it is in use. *)
Moves(t) ==
  /\ \A u \in Timers \ {t} : timer'[u] = timer[u]
  /\ timer'[t].st # "free" => timer'[t].file = timer[t].file

LEMMA OwedMoves ==
  ASSUME TypeOK, NEW t \in Timers, timer[t].st # "free", Moves(t),
         phase' = phase, queue' = queue
  PROVE  LET f == timer[t].file IN
         /\ f \in Files
         /\ Owed \ {f} \subseteq Owed'
         /\ timer[t].st \in ToRead => f \in Owed
         /\ timer[t].st \in ToRead /\ timer'[t].st \notin ToRead => Owed' \subseteq Owed
         /\ (timer[t].st \in ToRead <=> timer'[t].st \in ToRead) => Owed' = Owed
<1> DEFINE f == timer[t].file
<1>1. f \in Files
  BY DEF TypeOK, WatcherTypeOK, TimerOK
<1>2. \A g : Queued(g)' <=> Queued(g)
  BY DEF Queued, Relevant
<1>3. ASSUME NEW g, g # f \/ (timer[t].st \in ToRead => timer'[t].st \in ToRead),
             InState(g, ToRead)
      PROVE  InState(g, ToRead)'
  <2>1. PICK u \in Timers : timer[u].file = g /\ timer[u].st \in ToRead
    BY <1>3 DEF InState
  <2>2. CASE u # t
    BY <2>1, <2>2 DEF Moves, InState
  <2>3. CASE u = t
    <3>1. timer'[t].st \in ToRead /\ timer'[t].st # "free"
      BY <1>3, <2>1, <2>3 DEF ToRead
    <3>2. QED
      BY <2>1, <2>3, <3>1 DEF Moves, InState
  <2>4. QED
    BY <2>2, <2>3
<1>4. ASSUME NEW g, timer'[t].st \in ToRead => timer[t].st \in ToRead,
             InState(g, ToRead)'
      PROVE  InState(g, ToRead)
  <2>1. PICK u \in Timers : timer'[u].file = g /\ timer'[u].st \in ToRead
    BY <1>4 DEF InState
  <2>2. CASE u # t
    BY <2>1, <2>2 DEF Moves, InState
  <2>3. CASE u = t
    <3>1. timer[t].st \in ToRead /\ timer'[t].st # "free"
      BY <1>4, <2>1, <2>3 DEF ToRead
    <3>2. QED
      BY <2>1, <2>3, <3>1 DEF Moves, InState
  <2>4. QED
    BY <2>2, <2>3
<1>5. \A g : g \in Owed' <=> g \in Files /\ ((phase = "up" /\ Queued(g)) \/ InState(g, ToRead)')
  BY <1>2, OwedIs DEF Owed, ToRead
<1>6. \A g : g \in Owed <=> g \in Files /\ ((phase = "up" /\ Queued(g)) \/ InState(g, ToRead))
  BY OwedIs
<1>7. timer[t].st \in ToRead => InState(f, ToRead)
  BY DEF InState
<1> HIDE DEF f
<1>8. Owed \ {f} \subseteq Owed'
  BY <1>3, <1>5, <1>6
<1>9. timer[t].st \in ToRead => f \in Owed
  BY <1>1, <1>6, <1>7
<1>10. timer[t].st \in ToRead /\ timer'[t].st \notin ToRead => Owed' \subseteq Owed
  BY <1>4, <1>5, <1>6
<1>11. (timer[t].st \in ToRead <=> timer'[t].st \in ToRead) => Owed' = Owed
  BY <1>3, <1>4, <1>5, <1>6
<1>12. QED
  BY <1>1, <1>8, <1>9, <1>10, <1>11 DEF f

LEMMA HeldMoves ==
  ASSUME NEW t \in Timers, Moves(t)
  PROVE  /\ timer[t].st \in Reporting => Finding(t) \in Held
         /\ Held \ {Finding(t)} \subseteq Held'
         /\ timer'[t].st \in Reporting => Finding(t)' \in Held'
         /\ Held' \subseteq Held \cup {Finding(t)'}
         /\ timer[t].st \notin Reporting => Held \subseteq Held'
         /\ timer'[t].st \notin Reporting => Held' \subseteq Held
<1>1. \A u \in Timers \ {t} : Finding(u)' = Finding(u) /\ timer'[u].st = timer[u].st
  BY DEF Moves, Finding
<1>2. \A x : x \in Held' <=> \E u \in Timers : timer'[u].st \in Reporting /\ x = Finding(u)'
  BY DEF Held, Reporting
<1>3. \A x : x \in Held <=> \E u \in Timers : timer[u].st \in Reporting /\ x = Finding(u)
  BY HeldIs
<1>4. QED
  BY <1>1, <1>2, <1>3

(* What the daemon has recorded or failed to: Integrity's rows.            *)
Changes == {r \in audit : r.kind # "approved"}

LEMMA RowRecorded ==
  ASSUME NEW f, NEW h, NEW k, k # "approved",
         NEW stored \in BOOLEAN, Insert(f, h, k, stored)
  PROVE  \/ Changes' = Changes \cup {Row(f, h, k)} /\ UNCHANGED refused
         \/ refused' = refused \cup {Row(f, h, k)} /\ UNCHANGED Changes
<1>1. Row(f, h, k).kind # "approved"
  BY DEF Row
<1>2. CASE stored
  <2>1. audit' = audit \cup {Row(f, h, k)} /\ refused' = refused
    BY <1>2 DEF Insert, AfterRecord
  <2>2. Changes' = Changes \cup {Row(f, h, k)}
    BY <1>1, <2>1 DEF Changes
  <2>3. QED
    BY <2>1, <2>2
<1>3. CASE ~ stored
  BY <1>3 DEF Insert, Changes
<1>4. QED
  BY <1>2, <1>3


(* What is left alone by a timer or check, seen from Integrity. *)
Around ==
  /\ content' = content /\ approved' = approved /\ watched' = watched
  /\ overflow' = overflow /\ phase' = phase /\ queue' = queue

LEMMA AroundKept ==
  ASSUME Around
  PROVE  UNCHANGED <<content, approved, {f \in Files : DirOf(f) \in watched},
                     overflow, phase = "up">>
BY DEF Around

(* A step that neither owes, holds nor says anything. *)
LEMMA Unseen ==
  ASSUME Around, Owed' = Owed, Held' = Held, UNCHANGED <<warned, alerts, audit, refused>>
  PROVE  UNCHANGED Promise!integrityVars
BY AroundKept DEF Promise!integrityVars

LEMMA CheckMoves ==
  ASSUME TypeOK, NEW t \in Timers, Check(t)
  PROVE  /\ Moves(t) /\ timer[t].st # "free" /\ timer[t].file \in Files
         /\ Around
<1>1. timer[t].st \in {"stat", "hash", "lookup", "report"}
  BY DEF Check, StatMissing, StatFound, HashRead, ReadFails, Lookup,
         LookupFails, Report
<1>2. timer[t].file \in Files /\ timer \in [Timers -> Timer]
  BY <1>1 DEF TypeOK, WatcherTypeOK, TimerOK
<1>3. Around
  BY DEF Check, StatMissing, StatFound, HashRead, ReadFails, Lookup,
         LookupFails, Report, Around, fileVars, notifyVars, approvalVars
<1>4. Moves(t)
  <2>1. ASSUME NEW stored \in BOOLEAN,
               StatMissing(t, stored) \/ ReadFails(t) \/ LookupFails(t) \/ Report(t, stored)
        PROVE  Moves(t)
    <3>1. timer' = [timer EXCEPT ![t] = Free]
      BY <2>1 DEF StatMissing, ReadFails, LookupFails, Report
    <3>2. QED
      BY <1>2, <3>1 DEF Moves, Free
  <2>2. CASE StatFound(t)
    BY <1>2, <2>2 DEF StatFound, Moves, Timer
  <2>3. CASE HashRead(t)
    BY <1>2, <2>3 DEF HashRead, Moves, Timer
  <2>4. CASE Lookup(t)
    BY <1>2, <2>4 DEF Lookup, Moves, Timer
  <2>5. QED
    BY <2>1, <2>2, <2>3, <2>4 DEF Check
<1>5. QED
  BY <1>1, <1>2, <1>3, <1>4

(* The effect of each step of a check. *)
LEMMA CheckPromise ==
  ASSUME TypeOK, Undecided, NEW t \in Timers, Check(t)
  PROVE  [Promise!Next]_Promise!integrityVars
<1> DEFINE f == timer[t].file
<1>1. Moves(t) /\ timer[t].st # "free" /\ f \in Files /\ Around
  BY CheckMoves
<1>2. timer \in [Timers -> Timer]
  BY DEF TypeOK, WatcherTypeOK
<1>3. /\ Owed \ {f} \subseteq Owed'
      /\ timer[t].st \in ToRead => f \in Owed
      /\ timer[t].st \in ToRead /\ timer'[t].st \notin ToRead => Owed' \subseteq Owed
      /\ (timer[t].st \in ToRead <=> timer'[t].st \in ToRead) => Owed' = Owed
  BY <1>1, OwedMoves DEF Around
<1>4. /\ timer[t].st \in Reporting => Finding(t) \in Held
      /\ Held \ {Finding(t)} \subseteq Held'
      /\ timer'[t].st \in Reporting => Finding(t)' \in Held'
      /\ Held' \subseteq Held \cup {Finding(t)'}
      /\ timer[t].st \notin Reporting => Held \subseteq Held'
      /\ timer'[t].st \notin Reporting => Held' \subseteq Held
  BY <1>1, HeldMoves
<1>5. UNCHANGED <<content, approved, {g \in Files : DirOf(g) \in watched},
                  overflow, phase = "up">>
  BY <1>1, AroundKept
<1>6. ASSUME NEW stored \in BOOLEAN, StatMissing(t, stored)
      PROVE  [Promise!Next]_Promise!integrityVars
  <2>1. /\ timer[t].st = "stat" /\ timer' = [timer EXCEPT ![t] = Free]
        /\ content[f] = Absent
        /\ alerts' = alerts \cup {Row(f, Absent, "removed")}
        /\ Insert(f, Absent, "removed", stored) /\ warned' = warned \ {f}
    BY <1>6 DEF StatMissing
  <2>2. timer'[t].st = "free"
    BY <1>2, <2>1 DEF Free
  <2>3. Promise!Discharged(f)
    BY <1>3, <2>1, <2>2 DEF Promise!Discharged, ToRead
  <2>4. Held' = Held
    BY <1>4, <2>1, <2>2 DEF Reporting
  <2>5. Promise!Recorded(Promise!Row(f, Absent, "removed"))
    <3>1. \/ Changes' = Changes \cup {Row(f, Absent, "removed")} /\ UNCHANGED refused
          \/ refused' = refused \cup {Row(f, Absent, "removed")} /\ UNCHANGED Changes
      BY <2>1, RowRecorded
    <3>2. QED
      BY <3>1 DEF Changes, Promise!Recorded, Promise!Row, Row
  <2>6. Promise!LookInVain(f)
    BY <1>5, <2>1, <2>3, <2>4, <2>5 DEF Promise!LookInVain, Promise!Row, Row
  <2>7. QED
    BY <1>1, <2>6 DEF Promise!Next
<1>7. CASE StatFound(t)
  <2>1. /\ timer[t].st = "stat" /\ timer' = [timer EXCEPT ![t].st = "hash"]
        /\ UNCHANGED <<warned, alerts, audit, refused>>
    BY <1>7 DEF StatFound, approvalVars
  <2>2. timer'[t].st = "hash"
    BY <1>2, <2>1 DEF Timer
  <2>3. Owed' = Owed
    BY <1>3, <2>1, <2>2 DEF ToRead
  <2>4. Held' = Held
    BY <1>4, <2>1, <2>2 DEF Reporting
  <2>5. QED
    BY <1>1, <2>1, <2>3, <2>4, Unseen
<1>8. CASE HashRead(t)
  <2>1. /\ timer[t].st = "hash" /\ CanHash(f)
        /\ timer' = [timer EXCEPT ![t].st = "lookup", ![t].hash = content[f],
                                  ![t].ok = IsApproved(f, content[f])]
        /\ warned' = warned \ {f} /\ UNCHANGED <<alerts, audit, refused>>
    BY <1>8 DEF HashRead, approvalVars
  <2>2. /\ timer'[t].st = "lookup" /\ timer'[t].file = f
        /\ timer'[t].hash = content[f] /\ timer'[t].verdict = timer[t].verdict
    BY <1>2, <2>1 DEF Timer
  <2>3. timer[t].verdict = "none"
    BY <2>1 DEF Undecided
  <2>4. Finding(t)' = Promise!Finding(f)
    BY <2>2, <2>3 DEF Finding, Promise!Finding
  <2>5. Promise!Discharged(f)
    BY <1>3, <2>1, <2>2 DEF Promise!Discharged, ToRead
  <2>6. Held' = Held \cup {Promise!Finding(f)}
    BY <1>4, <2>1, <2>2, <2>4 DEF Reporting
  <2>7. Promise!Look(f)
    BY <1>5, <2>1, <2>5, <2>6 DEF Promise!Look, CanHash
  <2>8. QED
    BY <1>1, <2>7 DEF Promise!Next
<1>9. CASE ReadFails(t)
  <2>1. /\ timer[t].st \in {"stat", "hash"} /\ timer' = [timer EXCEPT ![t] = Free]
        /\ warned' = warned \cup {f} /\ UNCHANGED <<alerts, audit, refused>>
    BY <1>9 DEF ReadFails, approvalVars
  <2>2. timer'[t].st = "free"
    BY <1>2, <2>1 DEF Free
  <2>3. Promise!Discharged(f)
    BY <1>3, <2>1, <2>2 DEF Promise!Discharged, ToRead
  <2>4. Held' = Held
    BY <1>4, <2>1, <2>2 DEF Reporting
  <2>5. Promise!GiveUp(f)
    BY <1>5, <2>1, <2>3, <2>4 DEF Promise!GiveUp
  <2>6. QED
    BY <1>1, <2>5 DEF Promise!Next
<1>10. CASE Lookup(t)
  <2> DEFINE x == Finding(t)
  <2>1. /\ timer[t].st = "lookup"
        /\ timer' = [timer EXCEPT ![t].st = "report",
                                  ![t].verdict = Verdict(timer[t].file, timer[t].hash)]
        /\ UNCHANGED <<warned, alerts, audit, refused>>
    BY <1>10 DEF Lookup, approvalVars
  <2>2. /\ timer'[t].st = "report" /\ timer'[t].file = f
        /\ timer'[t].hash = timer[t].hash
        /\ timer'[t].verdict = Verdict(timer[t].file, timer[t].hash)
    BY <1>2, <2>1 DEF Timer
  <2>3. timer[t].verdict = "none"
    BY <2>1 DEF Undecided
  <2>4. x.verdict = "none"
    BY <2>3 DEF Finding
  <2>5. Finding(t)' = Promise!Judged(x)
    <3>1. Promise!RightVerdict(x) = Verdict(timer[t].file, timer[t].hash)
      BY DEF Promise!RightVerdict, Verdict, IsApproved, Finding
    <3>2. QED
      BY <2>2, <3>1 DEF Finding, Promise!Judged
  <2> HIDE DEF x
  <2>6. Owed' = Owed
    BY <1>3, <2>1, <2>2 DEF ToRead
  <2>7. Promise!Judge(x)
    BY <1>4, <1>5, <2>1, <2>2, <2>4, <2>5, <2>6 DEF Promise!Judge, Reporting, x
  <2>8. QED
    BY <1>4, <2>1, <2>7 DEF Promise!Next, Reporting, x
<1>11. CASE LookupFails(t)
  <2> DEFINE x == Finding(t)
  <2>1. /\ timer[t].st = "lookup" /\ timer' = [timer EXCEPT ![t] = Free]
        /\ warned' = warned \cup {f} /\ UNCHANGED <<alerts, audit, refused>>
    BY <1>11 DEF LookupFails, approvalVars
  <2>2. timer'[t].st = "free"
    BY <1>2, <2>1 DEF Free
  <2>3. x.file = f /\ x.verdict = "none"
    BY <2>1 DEF Finding, Undecided
  <2>4. Owed' = Owed
    BY <1>3, <2>1, <2>2 DEF ToRead
  <2>5. Promise!Released(x)
    BY <1>4, <2>1, <2>2 DEF Promise!Released, Reporting
  <2> HIDE DEF x
  <2>6. Promise!Abandon(x)
    BY <1>5, <2>1, <2>3, <2>4, <2>5 DEF Promise!Abandon
  <2>7. QED
    BY <1>4, <2>1, <2>6 DEF Promise!Next, Reporting, x
<1>12. ASSUME NEW stored \in BOOLEAN, Report(t, stored)
       PROVE  [Promise!Next]_Promise!integrityVars
  <2> DEFINE x == Finding(t)
             v == timer[t].verdict
  <2>1. /\ timer[t].st = "report" /\ timer' = [timer EXCEPT ![t] = Free]
        /\ Insert(f, timer[t].hash, v, stored)
        /\ alerts' = IF v = "approved-change" THEN alerts
                     ELSE alerts \cup {Row(f, timer[t].hash, v)}
        /\ warned' = warned
    BY <1>12 DEF Report
  <2>2. timer'[t].st = "free"
    BY <1>2, <2>1 DEF Free
  <2>3. v \in Verdicts
    BY <2>1 DEF TypeOK, WatcherTypeOK, TimerOK
  <2>4. x.file = f /\ x.hash = timer[t].hash /\ x.verdict = v
    BY DEF Finding
  <2>5. v # "none" /\ v # "approved"
    BY <2>3 DEF Verdicts
  <2>6. Owed' = Owed
    BY <1>3, <2>1, <2>2 DEF ToRead
  <2>7. Promise!Released(x)
    BY <1>4, <2>1, <2>2 DEF Promise!Released, Reporting
  <2> HIDE DEF x
  <2>8. Promise!Recorded(Promise!Row(x.file, x.hash, x.verdict))
    <3> HIDE DEF f, v
    <3>1. Insert(x.file, x.hash, x.verdict, stored) /\ x.verdict # "approved"
      BY <2>1, <2>4, <2>5
    <3>2. \/ Changes' = Changes \cup {Row(x.file, x.hash, x.verdict)} /\ UNCHANGED refused
          \/ refused' = refused \cup {Row(x.file, x.hash, x.verdict)} /\ UNCHANGED Changes
      BY <3>1, RowRecorded
    <3>3. QED
      BY <3>2 DEF Changes, Promise!Recorded, Promise!Row, Row
  <2>9. Promise!Tell(x)
    BY <1>5, <2>1, <2>4, <2>5, <2>6, <2>7, <2>8 DEF Promise!Tell, Promise!Row, Row
  <2>10. QED
    BY <1>4, <2>1, <2>9 DEF Promise!Next, Reporting, x
<1>13. QED
  BY <1>6, <1>7, <1>8, <1>9, <1>10, <1>11, <1>12 DEF Check
(* Steps that leave the timers alone hold what they held. *)
LEMMA HeldKept ==
  ASSUME UNCHANGED timer  PROVE  Held' = Held
BY DEF Held, Finding

LEMMA OwedGrows ==
  ASSUME UNCHANGED <<timer, phase>>, \A f \in Files : Queued(f) => Queued(f)'
  PROVE  Owed \subseteq Owed'
BY DEF Owed, InState

(* A change of the file system is noticed, or reported lost. *)
LEMMA WorldPromise ==
  ASSUME TypeOK, WorldNext, UNCHANGED <<approvalVars, watcherVars>>
  PROVE  Promise!Next
<1> USE DEF TypeOK, FilesTypeOK, Quiet
<1>1. /\ UNCHANGED <<phase, timer, warned, alerts, audit, refused, approved>>
      /\ UNCHANGED {r \in audit : r.kind # "approved"}
  BY DEF watcherVars, approvalVars
<1>2. Held' = Held
  BY <1>1, HeldKept
<1>3. ASSUME NEW f \in Files, NEW c \in Contents \cup {Absent}, Change(f, c)
      PROVE  Promise!Next
  <2> DEFINE e == [name |-> f, chmod |-> FALSE]
  <2>1. e \in Event /\ Relevant(e) /\ e.name = f
    BY DEF Event, Relevant
  <2> HIDE DEF e
  <2>2. /\ overflow => overflow'
        /\ \A g \in Files : Queued(g) => Queued(g)'
        /\ DirOf(f) \in watched => Queued(f)' \/ overflow'
    <3>1. CASE DirOf(f) \in watched
      <4>1. Deliver(e)
        BY <1>3, <3>1 DEF Change, e
      <4>2. QED
        BY <2>1, <4>1, DeliverEffect
    <3>2. CASE DirOf(f) \notin watched
      BY <1>3, <3>2 DEF Change, Queued
    <3>3. QED
      BY <3>1, <3>2
  <2>3. Promise!Noticed
    BY <1>1, <2>2, OwedGrows DEF Promise!Noticed
  <2>4. phase = "up" /\ f \in {g \in Files : DirOf(g) \in watched} => f \in Owed' \/ overflow'
    BY <1>1, <2>2 DEF Owed
  <2>5. /\ content' = [content EXCEPT ![f] = c]
        /\ UNCHANGED {g \in Files : DirOf(g) \in watched}
    BY <1>3 DEF Change
  <2>6. Promise!Change(f)
    BY <1>1, <1>2, <2>3, <2>4, <2>5 DEF Promise!Change
  <2>7. QED
    BY <2>6 DEF Promise!Next
<1>4. ASSUME \/ \E f \in Files : Chmod(f)
             \/ \E d \in Dirs : MakeDir(d) \/ RemoveDir(d)
      PROVE  Promise!Next
  <2>1. content' = content
    BY <1>4 DEF Chmod, MakeDir, RemoveDir
  <2>2. /\ overflow => overflow'
        /\ \A g \in Files : Queued(g) => Queued(g)'
    <3>1. CASE Quiet
      BY <3>1 DEF Queued
    <3>2. CASE \E e \in Event : Deliver(e)
      BY <3>2, DeliverEffect
    <3>3. \A n \in Files \cup Dirs, b \in BOOLEAN : [name |-> n, chmod |-> b] \in Event
      BY DEF Event
    <3>4. Quiet \/ \E n \in Files \cup Dirs, b \in BOOLEAN :
                      Deliver([name |-> n, chmod |-> b])
      BY <1>4 DEF Chmod, MakeDir, RemoveDir
    <3>5. QED
      BY <3>1, <3>2, <3>3, <3>4
  <2>3. Promise!Noticed
    BY <1>1, <2>2, OwedGrows DEF Promise!Noticed
  <2>4. Promise!Stir
    BY <1>1, <1>2, <2>1, <2>3 DEF Promise!Stir
  <2>5. QED
    BY <2>4 DEF Promise!Next
<1>5. QED
  BY <1>3, <1>4 DEF WorldNext

(* The commands decide what is approved, and record that and nothing else. *)
LEMMA CommandPromise ==
  ASSUME TypeOK, TypeOK', ApprovalsNext, UNCHANGED <<diskVars, notifyVars, watcherVars>>
  PROVE  Promise!Next
<1>1. UNCHANGED <<content, watched, overflow, queue, phase, timer, warned, alerts, refused>>
  BY DEF diskVars, notifyVars, watcherVars
<1>2. Held' = Held /\ Owed' = Owed
  BY <1>1 DEF Held, Finding, Owed, InState, Queued
<1>3. \/ audit' = audit
      \/ audit' = audit \cup {[file |-> cli.file, hash |-> cli.hash, kind |-> "approved"]}
  BY DEF ApprovalsNext, ApproveCommand, InitTarget, InitCommand, ClearApproved,
         ResolveTargets, InsertApproval, RecordApproval, CommandEnds
<1>4. UNCHANGED {r \in audit : r.kind # "approved"}
  <2> DEFINE r == [file |-> cli.file, hash |-> cli.hash, kind |-> "approved"]
  <2>1. r.kind = "approved"
    OBVIOUS
  <2> HIDE DEF r
  <2>2. QED
    BY <1>3, <2>1 DEF r
<1>5. approved' \in SUBSET (Files \X Contents)
  BY DEF TypeOK, ApprovalsTypeOK
<1>6. Promise!Command
  BY <1>1, <1>2, <1>4, <1>5 DEF Promise!Command
<1>7. QED
  BY <1>6 DEF Promise!Next

(* An event that is received leaves its file with an armed timer. *)
LEMMA EventPromise ==
  ASSUME TypeOK, Registered, HandleEvent
  PROVE  Promise!Next
<1>1. /\ UNCHANGED <<content, approved, overflow, phase, warned, alerts, audit, refused>>
      /\ queue \in Seq(Event) /\ queue # <<>> /\ queue' = Tail(queue)
  BY DEF HandleEvent, worldVars, approvalVars, TypeOK, FilesTypeOK
<1>2. CASE Relevant(Head(queue))
  <2> DEFINE f == Head(queue).name
  <2>1. f \in Files /\ ScheduleCheck(f)
    BY <1>2 DEF HandleEvent, Relevant
  <2> HIDE DEF f
  <2>2. PICK t \in Timers :
          /\ timer[t].st = "free"
          /\ timer'[t].st = "armed" /\ timer'[t].file = f
          /\ pending' = [pending EXCEPT ![f] = t]
          /\ \A u \in Timers \ {t} :
               \/ timer'[u] = timer[u] /\ (u = pending[f] => timer[u].st # "armed")
               \/ /\ timer[u].st = "armed" /\ timer[u].file = f
                  /\ timer'[u].st = "free" /\ u = pending[f]
    BY <2>1, ScheduleEffect
  <2>3. \A u \in Timers : timer[u].st \in Reporting \/ timer'[u].st \in Reporting
                            => u # t /\ timer'[u] = timer[u]
    BY <2>2 DEF Reporting
  <2>4. Held' = Held
    BY <2>3 DEF Held, Finding, Reporting
  <2>5. ASSUME NEW g \in Owed
        PROVE  g \in Owed'
    <3>1. g \in Files /\ ((phase = "up" /\ Queued(g)) \/ InState(g, ToRead))
      BY <2>5, OwedIs
    <3>2. CASE g = f
      BY <2>2, <3>1, <3>2 DEF Owed, InState
    <3>3. CASE g # f /\ phase = "up" /\ Queued(g)
      <4>1. Queued(g)'
        BY <1>1, <3>1, <3>3, TailEffect DEF f
      <4>2. QED
        BY <1>1, <3>1, <3>3, <4>1 DEF Owed
    <3>4. CASE g # f /\ InState(g, ToRead)
      <4>1. PICK u \in Timers : timer[u].file = g /\ timer[u].st \in ToRead
        BY <3>4 DEF InState
      <4>2. u # t /\ timer'[u] = timer[u]
        BY <2>2, <3>4, <4>1 DEF ToRead
      <4>3. QED
        BY <3>1, <4>1, <4>2 DEF Owed, InState, ToRead
    <3>5. QED
      BY <3>1, <3>2, <3>3, <3>4
  <2>6. Promise!Stir
    BY <1>1, <2>4, <2>5 DEF Promise!Stir, Promise!Noticed
  <2>7. QED
    BY <2>6 DEF Promise!Next
<1>3. CASE ~ Relevant(Head(queue))
  <2>1. timer' = timer
    BY <1>3 DEF HandleEvent
  <2>2. \A g \in Files : Queued(g) => Queued(g)'
    BY <1>1, <1>3, TailEffect
  <2>3. Promise!Stir
    BY <1>1, <2>1, <2>2, HeldKept, OwedGrows DEF Promise!Stir, Promise!Noticed
  <2>4. QED
    BY <2>3 DEF Promise!Next
<1>4. QED
  BY <1>2, <1>3

(* A timer that fires, or leaves the map, still owes the same look. *)
LEMMA TimerPromise ==
  ASSUME TypeOK, NEW t \in Timers, Fire(t) \/ Unregister(t)
  PROVE  UNCHANGED Promise!integrityVars
<1>1. /\ timer[t].st \in ToRead /\ timer'[t].st \in ToRead
      /\ Moves(t) /\ Around /\ UNCHANGED <<warned, alerts, audit, refused>>
  BY DEF Fire, Unregister, TypeOK, WatcherTypeOK, Timer, ToRead, Moves, Around,
         fileVars, notifyVars, approvalVars
<1>2. timer[t].st # "free" /\ timer[t].st \notin Reporting /\ timer'[t].st \notin Reporting
  BY <1>1 DEF ToRead, Reporting
<1>3. Owed' = Owed
  BY <1>1, <1>2, OwedMoves DEF Around
<1>4. Held' = Held
  BY <1>1, <1>2, HeldMoves
<1>5. QED
  BY <1>1, <1>3, <1>4, Unseen

(* The daemon starts, shuts down step by step, or is killed. *)
LEMMA LifePromise ==
  ASSUME TypeOK, Start \/ RunReturns \/ CloseWatcher \/ CloseStore \/ ProcessEnds
  PROVE  [Promise!Next]_Promise!integrityVars
<1>1. CASE Start
  <2>1. UNCHANGED <<content, approved, overflow, queue, timer, warned, alerts, audit, refused>>
        /\ phase = "down" /\ phase' = "up"
    BY <1>1 DEF Start, worldVars, approvalVars
  <2>2. Held' = Held
    BY <2>1, HeldKept
  <2>3. Owed \subseteq Owed'
    BY <2>1 DEF Owed, InState
  <2>4. Promise!Start
    BY <2>1, <2>2, <2>3 DEF Promise!Start, Promise!Noticed
  <2>5. QED
    BY <2>4 DEF Promise!Next
<1>2. CASE RunReturns
  <2>1. UNCHANGED <<content, approved, overflow, queue, timer, warned, alerts, audit, refused>>
        /\ phase = "up" /\ phase' = "returned"
    BY <1>2 DEF RunReturns, fileVars, approvalVars
  <2>2. Held' = Held
    BY <2>1, HeldKept
  <2>3. Owed' \subseteq Owed
    BY <2>1 DEF Owed, InState
  <2>4. Promise!Leave
    BY <2>1, <2>2, <2>3 DEF Promise!Leave
  <2>5. QED
    BY <2>4 DEF Promise!Next
<1>3. CASE CloseWatcher
  <2>1. UNCHANGED <<content, approved, overflow, warned, alerts, audit, refused>>
        /\ phase = "returned" /\ phase' = "closed"
    BY <1>3 DEF CloseWatcher, worldVars, approvalVars
  <2>2. \A u \in Timers : \/ timer'[u] = timer[u]
                          \/ timer[u].st = "armed" /\ timer'[u].st = "free"
    BY <1>3 DEF CloseWatcher, Free
  <2>3. Held' = Held
    <3>1. \A u \in Timers : timer[u].st \in Reporting \/ timer'[u].st \in Reporting
                              => timer'[u] = timer[u]
      BY <2>2 DEF Reporting
    <3>2. QED
      BY <3>1 DEF Held, Finding, Reporting
  <2>4. Owed' \subseteq Owed
    BY <2>1, <2>2 DEF Owed, InState
  <2>5. Promise!Leave
    BY <2>1, <2>3, <2>4 DEF Promise!Leave
  <2>6. QED
    BY <2>5 DEF Promise!Next
<1>4. CASE CloseStore
  <2>1. /\ UNCHANGED <<content, approved, watched, overflow, queue, timer, warned>>
        /\ UNCHANGED <<alerts, audit, refused>>
        /\ phase # "up" /\ phase' # "up"
    BY <1>4 DEF CloseStore, fileVars, approvalVars
  <2>2. Held' = Held /\ Owed' = Owed
    BY <2>1 DEF Held, Finding, Owed, InState
  <2>3. QED
    BY <2>1, <2>2 DEF Promise!integrityVars
<1>5. CASE ProcessEnds
  <2>1. UNCHANGED <<content, approved, alerts, audit>>
        /\ phase' = "down" /\ warned' = {} /\ refused' = {}
    BY <1>5 DEF ProcessEnds, worldVars, approvalVars
  <2>2. \A u \in Timers : timer'[u].st = "free"
    BY <1>5 DEF ProcessEnds, Free
  <2>3. Held' = {} /\ Owed' = {}
    BY <2>1, <2>2 DEF Held, Owed, InState
  <2>4. Promise!End
    BY <2>1, <2>3 DEF Promise!End
  <2>5. QED
    BY <2>4 DEF Promise!Next
<1>6. QED
  BY <1>1, <1>2, <1>3, <1>4, <1>5

LEMMA IdlePromise ==
  ASSUME UNCHANGED vars
  PROVE  UNCHANGED Promise!integrityVars
BY DEF vars, fileVars, approvalVars, watcherVars, Promise!integrityVars, Owed,
       Queued, InState, Held, Finding

LEMMA PromiseStep ==
  ASSUME IInv, IInv', [Next]_vars
  PROVE  [Promise!Next]_Promise!integrityVars
BY WorldPromise, CommandPromise, EventPromise, TimerPromise, CheckPromise,
   LifePromise, IdlePromise DEF IInv, Next, DaemonNext

LEMMA PromiseInit == Init => Promise!Init
<1> SUFFICES ASSUME Init PROVE Promise!Init
  OBVIOUS
<1>1. \A t \in Timers : timer[t].st = "free"
  BY DEF Init, Free
<1>2. Owed = {} /\ Held = {}
  BY <1>1 DEF Init, Owed, InState, Held
<1>3. QED
  BY <1>2 DEF Init, FilesInit, ApprovalsInit, Promise!Init

(* Layer 1 implements Integrity: a change made under a watch is owed a look  *)
(* that no timer, map entry or later event takes away; every look is judged  *)
(* once, told, and recorded or refused by the store, or else it is warned    *)
(* that it could not be judged: watcher.go:130-228.                          *)
THEOREM LayerKeepsPromise == Spec => KeepsPromise
<1>1. IInv /\ IInv' /\ [Next]_vars => [Promise!Next]_Promise!integrityVars
  BY PromiseStep
<1>2. QED
  BY <1>1, PromiseInit, Invariance, PTL DEF Spec, KeepsPromise, Promise!Spec
-----------------------------------------------------------------------------
(* The newest row of a file, in the model with an order of rows.             *)
LEMMA LogStepIsStep == [LogNext]_logVars => [Next]_vars
BY DEF LogNext, LogRemoval, LogRead, LogLookupFails, LogReport, OtherNext, Between,
       Next, DaemonNext, Check, logVars

LEMMA LogInvariance == LogSpec => []IInv
BY Initially, Inductive, LogStepIsStep, PTL DEF LogSpec, LogInit

(* What a step that neither looks nor writes must leave alone. *)
LEMMA LogCalm ==
  ASSUME LogInv, UNCHANGED orderVars,
         \A t \in Timers : \A f : Holds(t, f)' => Holds(t, f) /\ timer'[t].hash = timer[t].hash,
         \A f \in examined' \ dirty' : f \in examined \ dirty /\ content'[f] = content[f],
         examined' = {} \/ \A f : InHand(f) => InHand(f)'
  PROVE  LogInv'
<1>1. LogTypeOK'
  BY DEF LogInv, LogTypeOK, orderVars
<1>2. HandIsRecent'
  BY DEF LogInv, HandIsRecent, Possible, orderVars
<1>3. NewestRowIsRecent'
  BY DEF LogInv, NewestRowIsRecent, Possible, orderVars
<1>4. QED
  BY <1>1, <1>2, <1>3 DEF LogInv

LEMMA OtherKeepsLog ==
  ASSUME TypeOK, LogInv, OtherNext, UNCHANGED orderVars
  PROVE  LogInv'
<1> USE DEF TypeOK, FilesTypeOK, WatcherTypeOK
<1>1. CASE WorldNext /\ UNCHANGED <<approvalVars, watcherVars>>
  <2>1. UNCHANGED <<timer, phase, examined>>
    BY <1>1 DEF watcherVars
  <2>2. \A f \in examined' \ dirty' : f \in examined \ dirty /\ content'[f] = content[f]
    BY <1>1, <2>1 DEF WorldNext, Change, Chmod, MakeDir, RemoveDir
  <2>3. QED
    BY <2>1, <2>2, LogCalm DEF Holds, InHand
<1>2. CASE ApprovalsNext /\ UNCHANGED <<diskVars, notifyVars, watcherVars>>
  <2>1. UNCHANGED <<timer, phase, examined, content, dirty>>
    BY <1>2 DEF watcherVars, diskVars
  <2>2. QED
    BY <2>1, LogCalm DEF Holds, InHand
<1>3. CASE Start \/ RunReturns \/ CloseStore
  <2>1. UNCHANGED <<timer, examined, content, dirty>>
    BY <1>3 DEF Start, RunReturns, CloseStore, fileVars, worldVars
  <2>2. QED
    BY <2>1, LogCalm DEF Holds, InHand
<1>4. CASE HandleEvent
  <2>1. UNCHANGED <<phase, examined, content, dirty>>
    BY <1>4 DEF HandleEvent, worldVars
  <2>2. \A u \in Timers : timer[u].st \in Reporting \/ timer'[u].st \in Reporting
                            => timer'[u] = timer[u]
    <3>1. CASE timer' = timer
      BY <3>1
    <3>2. CASE \E f \in Files : ScheduleCheck(f)
      BY <3>2 DEF ScheduleCheck, AfterSchedule, Armed, Free, Reporting
    <3>3. QED
      BY <1>4, <3>1, <3>2 DEF HandleEvent, Relevant
  <2>3. QED
    BY <2>1, <2>2, LogCalm DEF Holds, InHand, Reporting
<1>5. CASE CloseWatcher
  <2>1. UNCHANGED <<examined, content, dirty>>
    BY <1>5 DEF CloseWatcher, worldVars
  <2>2. \A u \in Timers : timer[u].st \in Reporting \/ timer'[u].st \in Reporting
                            => timer'[u] = timer[u]
    BY <1>5 DEF CloseWatcher, Free, Reporting
  <2>3. QED
    BY <2>1, <2>2, LogCalm DEF Holds, InHand, Reporting
<1>6. CASE ProcessEnds
  <2>1. examined' = {} /\ \A u \in Timers : timer'[u].st = "free"
    BY <1>6 DEF ProcessEnds, Free
  <2>2. QED
    BY <2>1, LogCalm DEF Holds
<1>7. ASSUME NEW t \in Timers, Between(t)
      PROVE  LogInv'
  <2>1. UNCHANGED <<phase, examined, content, dirty>>
    BY <1>7 DEF Between, Fire, Unregister, StatFound, ReadFails, Lookup, fileVars
  <2>2. \A u \in Timers \ {t} : timer'[u] = timer[u]
    BY <1>7 DEF Between, Fire, Unregister, StatFound, ReadFails, Lookup
  <2>3. CASE Lookup(t)
    <3>1. /\ timer[t].st \in Reporting /\ timer'[t].st \in Reporting
          /\ timer'[t].file = timer[t].file /\ timer'[t].hash = timer[t].hash
      BY <2>3 DEF Lookup, Timer, Reporting
    <3>2. QED
      BY <2>1, <2>2, <3>1, LogCalm DEF Holds, InHand, Reporting
  <2>4. CASE ~ Lookup(t)
    <3>1. timer'[t].st \notin Reporting /\ timer[t].st \notin Reporting
      <4>1. CASE Fire(t) \/ Unregister(t) \/ StatFound(t)
        BY <4>1 DEF Fire, Unregister, StatFound, Timer, Reporting
      <4>2. CASE ReadFails(t)
        BY <4>2 DEF ReadFails, Free, Reporting
      <4>3. QED
        BY <1>7, <2>4, <4>1, <4>2 DEF Between
    <3>2. QED
      BY <2>1, <2>2, <3>1, LogCalm DEF Holds, InHand, Reporting
  <2>5. QED
    BY <2>3, <2>4
<1>8. QED
  BY <1>1, <1>2, <1>3, <1>4, <1>5, <1>6, <1>7 DEF OtherNext

(* What checks hold are contents, and a look notes all of it. *)
LEMMA LookEffect ==
  ASSUME TypeOK, LogInv, NEW f \in Files, Look(f)
  PROVE  /\ beside' \in [Files -> SUBSET Contents]
         /\ \A g \in Files \ {f} : beside'[g] = beside[g]
         /\ \A u \in Timers : Holds(u, f) => timer[u].hash \in beside'[f]
<1>1. Hands(f) \in SUBSET Contents
  BY DEF Hands, Holds, TypeOK, WatcherTypeOK, TimerOK
<1>2. beside' = [beside EXCEPT ![f] = Hands(f)] /\ beside \in [Files -> SUBSET Contents]
  BY DEF Look, LogInv, LogTypeOK
<1>3. \A u \in Timers : Holds(u, f) => timer[u].hash \in Hands(f)
  BY DEF Hands
<1>4. QED
  BY <1>1, <1>2, <1>3

(* The files that are known to be read are files. *)
LEMMA ExaminedFiles ==
  ASSUME TypeOK  PROVE  examined \subseteq Files
BY DEF TypeOK, WatcherTypeOK

(* A removal is looked at and written in one step. *)
LEMMA RemovalKeepsLog ==
  ASSUME TypeOK, LogInv, NEW t \in Timers, NEW stored \in BOOLEAN, LogRemoval(t, stored)
  PROVE  LogInv'
<1> DEFINE f == timer[t].file
<1>1. f \in Files /\ timer \in [Timers -> Timer]
  BY DEF LogRemoval, StatMissing, TypeOK, WatcherTypeOK, TimerOK
<1>2. /\ timer[t].st = "stat" /\ timer' = [timer EXCEPT ![t] = Free]
      /\ content[f] = Absent /\ Insert(f, Absent, "removed", stored)
      /\ dirty' = dirty \ {f} /\ UNCHANGED <<content, examined>>
      /\ Look(f)
      /\ IF stored THEN Write(f, Absent, "removed") /\ unlogged' = unlogged \ {f}
                   ELSE UNCHANGED newest /\ unlogged' = unlogged \cup {f}
  BY DEF LogRemoval, StatMissing
<1> HIDE DEF f
<1>3. \A u \in Timers : \A g : Holds(u, g)' <=> Holds(u, g)
  BY <1>1, <1>2 DEF Holds, Free
<1>4. \A u \in Timers : \A g : Holds(u, g) => timer'[u].hash = timer[u].hash
  BY <1>1, <1>2 DEF Holds
<1>5. /\ beside' \in [Files -> SUBSET Contents]
      /\ \A g \in Files \ {f} : beside'[g] = beside[g]
      /\ \A u \in Timers : Holds(u, f) => timer[u].hash \in beside'[f]
  BY <1>1, <1>2, LookEffect
<1>6. newest \in [Files -> Contents \cup {Absent, NoRow}]
  BY DEF LogInv, LogTypeOK
<1>7. IF stored THEN newest' = [newest EXCEPT ![f] = Absent] ELSE newest' = newest
  BY <1>2 DEF Write, Insert, AfterRecord
<1>8. LogTypeOK'
  BY <1>1, <1>5, <1>6, <1>7 DEF LogTypeOK
<1>9. HandIsRecent'
  <2>1. ASSUME NEW g \in examined' \ dirty', NEW u \in Timers, Holds(u, g)'
        PROVE  timer'[u].hash \in Possible(g)'
    <3>1. Holds(u, g) /\ timer'[u].hash = timer[u].hash /\ g \in Files
      BY <1>2, <1>3, <1>4, <2>1, ExaminedFiles
    <3>2. CASE g = f
      BY <1>5, <3>1, <3>2 DEF Possible
    <3>3. CASE g # f
      <4>1. g \in examined \ dirty
        BY <1>2, <2>1, <3>3
      <4>2. timer[u].hash \in Possible(g)
        BY <3>1, <4>1 DEF LogInv, HandIsRecent
      <4>3. QED
        BY <1>2, <1>5, <3>1, <3>3, <4>2 DEF Possible
    <3>4. QED
      BY <3>2, <3>3
  <2>2. QED
    BY <2>1 DEF HandIsRecent
<1>10. NewestRowIsRecent'
  <2>1. ASSUME NEW g \in examined' \ (dirty' \cup unlogged'), ~ InHand(g)'
        PROVE  newest'[g] \in Possible(g)'
    <3>1. g \in Files /\ ~ InHand(g)
      BY <1>2, <1>3, <2>1, ExaminedFiles DEF InHand
    <3>2. CASE g = f
      <4>1. stored
        BY <1>2, <2>1, <3>2
      <4>2. newest'[g] = Absent
        BY <1>1, <1>6, <1>7, <3>2, <4>1
      <4>3. QED
        BY <1>2, <3>2, <4>2 DEF Possible
    <3>3. CASE g # f
      <4>1. g \in examined \ (dirty \cup unlogged)
        BY <1>2, <2>1, <3>3
      <4>2. newest[g] \in Possible(g)
        BY <3>1, <4>1 DEF LogInv, NewestRowIsRecent
      <4>3. newest'[g] = newest[g]
        BY <1>1, <1>6, <1>7, <3>1, <3>3
      <4>4. QED
        BY <1>2, <1>5, <3>1, <3>3, <4>2, <4>3 DEF Possible
    <3>4. QED
      BY <3>2, <3>3
  <2>2. QED
    BY <2>1 DEF NewestRowIsRecent
<1>11. QED
  BY <1>8, <1>9, <1>10 DEF LogInv

(* A read puts the file in one more hand, with what it holds. *)
LEMMA ReadKeepsLog ==
  ASSUME TypeOK, LogInv, NEW t \in Timers, LogRead(t)
  PROVE  LogInv'
<1> DEFINE f == timer[t].file
<1>1. f \in Files /\ timer \in [Timers -> Timer]
  BY DEF LogRead, HashRead, TypeOK, WatcherTypeOK, TimerOK
<1>2. /\ timer[t].st = "hash"
      /\ timer' = [timer EXCEPT ![t].st = "lookup", ![t].hash = content[f],
                                ![t].ok = IsApproved(f, content[f])]
      /\ dirty' = dirty \ {f} /\ examined' = examined \cup {f}
      /\ UNCHANGED <<content, newest>> /\ Look(f) /\ unlogged' = unlogged \ {f}
  BY DEF LogRead, HashRead
<1>3. /\ timer'[t].st = "lookup" /\ timer'[t].file = f /\ timer'[t].hash = content[f]
      /\ \A u \in Timers \ {t} : timer'[u] = timer[u]
  BY <1>1, <1>2 DEF Timer
<1>4. timer[t].file = f
  OBVIOUS
<1> HIDE DEF f
<1>5. /\ \A g : ~ Holds(t, g)
      /\ \A g : Holds(t, g)' <=> g = f
      /\ \A u \in Timers \ {t} : \A g : Holds(u, g)' <=> Holds(u, g)
  BY <1>2, <1>3 DEF Holds
<1>6. /\ beside' \in [Files -> SUBSET Contents]
      /\ \A g \in Files \ {f} : beside'[g] = beside[g]
      /\ \A u \in Timers : Holds(u, f) => timer[u].hash \in beside'[f]
  BY <1>1, <1>2, LookEffect
<1>7. LogTypeOK'
  BY <1>2, <1>6 DEF LogInv, LogTypeOK
<1>8. HandIsRecent'
  <2>1. ASSUME NEW g \in examined' \ dirty', NEW u \in Timers, Holds(u, g)'
        PROVE  timer'[u].hash \in Possible(g)'
    <3>1. CASE u = t
      <4>1. g = f
        BY <1>5, <2>1, <3>1
      <4>2. QED
        BY <1>2, <1>3, <3>1, <4>1 DEF Possible
    <3>2. CASE u # t /\ g = f
      BY <1>3, <1>5, <1>6, <2>1, <3>2 DEF Possible
    <3>3. CASE u # t /\ g # f
      <4>1. g \in examined \ dirty /\ g \in Files /\ Holds(u, g)
        BY <1>2, <1>5, <2>1, <3>3, ExaminedFiles
      <4>2. timer[u].hash \in Possible(g)
        BY <4>1 DEF LogInv, HandIsRecent
      <4>3. QED
        BY <1>2, <1>3, <1>6, <3>3, <4>1, <4>2 DEF Possible
    <3>4. QED
      BY <3>1, <3>2, <3>3
  <2>2. QED
    BY <2>1 DEF HandIsRecent
<1>9. NewestRowIsRecent'
  <2>1. ASSUME NEW g \in examined' \ (dirty' \cup unlogged'), ~ InHand(g)'
        PROVE  newest'[g] \in Possible(g)'
    <3>1. g # f /\ ~ InHand(g)
      BY <1>5, <2>1 DEF InHand
    <3>2. g \in examined \ (dirty \cup unlogged) /\ g \in Files
      BY <1>2, <2>1, <3>1, ExaminedFiles
    <3>3. newest[g] \in Possible(g)
      BY <3>1, <3>2 DEF LogInv, NewestRowIsRecent
    <3>4. QED
      BY <1>2, <1>6, <3>1, <3>2, <3>3 DEF Possible
  <2>2. QED
    BY <2>1 DEF NewestRowIsRecent
<1>10. QED
  BY <1>7, <1>8, <1>9 DEF LogInv

(* A check that ends with a report or with a failed lookup: what it held was  *)
(* recent, and the row, if the store took it, is of that.                     *)
LEMMA HandKeepsLog ==
  ASSUME TypeOK, LogInv, NEW t \in Timers,
         timer[t].st \in {"lookup", "report"}, timer' = [timer EXCEPT ![t] = Free],
         UNCHANGED <<content, dirty, examined, beside>>,
         \/ newest' = [newest EXCEPT ![timer[t].file] = timer[t].hash] /\ UNCHANGED unlogged
         \/ UNCHANGED newest /\ unlogged' = unlogged \cup {timer[t].file}
  PROVE  LogInv'
<1> DEFINE f == timer[t].file
           h == timer[t].hash
<1>1. f \in Files /\ h \in Contents /\ timer \in [Timers -> Timer]
  BY DEF TypeOK, WatcherTypeOK, TimerOK
<1>2. timer[t].file = f /\ timer[t].hash = h /\ Holds(t, f)
  BY DEF Holds
<1>3. \/ newest' = [newest EXCEPT ![f] = h] /\ UNCHANGED unlogged
      \/ UNCHANGED newest /\ unlogged' = unlogged \cup {f}
  OBVIOUS
<1> HIDE DEF f, h
<1>4. /\ \A g : ~ Holds(t, g)'
      /\ \A u \in Timers \ {t} : \A g : Holds(u, g)' <=> Holds(u, g)
      /\ \A u \in Timers \ {t} : timer'[u] = timer[u]
  BY <1>1 DEF Holds, Free
<1>5. LogTypeOK'
  BY <1>1, <1>3 DEF LogInv, LogTypeOK
<1>6. HandIsRecent'
  BY <1>4 DEF LogInv, HandIsRecent, Possible
<1>7. NewestRowIsRecent'
  <2>1. ASSUME NEW g \in examined' \ (dirty' \cup unlogged'), ~ InHand(g)'
        PROVE  newest'[g] \in Possible(g)'
    <3>1. g \in examined \ (dirty \cup unlogged) /\ g \in Files /\ Possible(g)' = Possible(g)
      BY <1>3, <2>1, ExaminedFiles DEF Possible
    <3>2. CASE g = f
      <4>1. newest' = [newest EXCEPT ![f] = h]
        BY <1>3, <2>1, <3>2
      <4>2. h \in Possible(g)
        BY <1>2, <3>1, <3>2 DEF LogInv, HandIsRecent
      <4>3. QED
        BY <3>1, <3>2, <4>1, <4>2 DEF LogInv, LogTypeOK
    <3>3. CASE g # f
      <4>1. ~ InHand(g)
        BY <1>2, <1>4, <2>1, <3>3 DEF InHand, Holds
      <4>2. newest[g] \in Possible(g)
        BY <3>1, <4>1 DEF LogInv, NewestRowIsRecent
      <4>3. newest'[g] = newest[g]
        BY <1>1, <1>3, <3>1, <3>3 DEF LogInv, LogTypeOK
      <4>4. QED
        BY <3>1, <4>2, <4>3
    <3>4. QED
      BY <3>2, <3>3
  <2>2. QED
    BY <2>1 DEF NewestRowIsRecent
<1>8. QED
  BY <1>5, <1>6, <1>7 DEF LogInv

LEMMA LookupFailsKeepsLog ==
  ASSUME TypeOK, LogInv, NEW t \in Timers, LogLookupFails(t)
  PROVE  LogInv'
<1>1. /\ timer[t].st \in {"lookup", "report"} /\ timer' = [timer EXCEPT ![t] = Free]
      /\ UNCHANGED <<content, dirty, examined, beside, newest>>
      /\ unlogged' = unlogged \cup {timer[t].file}
  BY DEF LogLookupFails, LookupFails, fileVars
<1>2. QED
  BY <1>1, HandKeepsLog

LEMMA ReportKeepsLog ==
  ASSUME TypeOK, LogInv, NEW t \in Timers, NEW stored \in BOOLEAN, LogReport(t, stored)
  PROVE  LogInv'
<1>1. /\ timer[t].st \in {"lookup", "report"} /\ timer' = [timer EXCEPT ![t] = Free]
      /\ UNCHANGED <<content, dirty, examined, beside>>
      /\ Insert(timer[t].file, timer[t].hash, timer[t].verdict, stored)
  BY DEF LogReport, Report, fileVars
<1>2. CASE stored
  <2>1. newest' = [newest EXCEPT ![timer[t].file] = timer[t].hash] /\ UNCHANGED unlogged
    BY <1>1, <1>2 DEF LogReport, Write, Insert, AfterRecord
  <2>2. QED
    BY <1>1, <2>1, HandKeepsLog
<1>3. CASE ~ stored
  <2>1. UNCHANGED newest /\ unlogged' = unlogged \cup {timer[t].file}
    BY <1>3 DEF LogReport
  <2>2. QED
    BY <1>1, <2>1, HandKeepsLog
<1>4. QED
  BY <1>2, <1>3

LEMMA LogStep == IInv /\ LogInv /\ [LogNext]_logVars => LogInv'
<1> SUFFICES ASSUME IInv, LogInv, [LogNext]_logVars PROVE LogInv'
  OBVIOUS
<1>1. TypeOK
  BY DEF IInv
<1>2. CASE UNCHANGED logVars
  <2>1. UNCHANGED <<orderVars, timer, examined, content, dirty>>
    BY <1>2 DEF logVars, vars, fileVars, watcherVars
  <2>2. QED
    BY <2>1, LogCalm DEF Holds, InHand
<1>3. QED
  BY <1>1, <1>2, OtherKeepsLog, RemovalKeepsLog, ReadKeepsLog, LookupFailsKeepsLog,
     ReportKeepsLog DEF LogNext

LEMMA LogBegins == LogInit => LogInv
<1> SUFFICES ASSUME LogInit PROVE LogInv
  OBVIOUS
<1>1. examined = {} /\ \A t \in Timers : timer[t].st = "free"
  BY DEF LogInit, Init, Free
<1>2. LogTypeOK
  BY DEF LogInit, LogTypeOK
<1>3. HandIsRecent /\ NewestRowIsRecent
  BY <1>1 DEF HandIsRecent, NewestRowIsRecent, Holds
<1>4. QED
  BY <1>2, <1>3 DEF LogInv

(* Unless a statement about it failed, the newest row of a file that was read *)
(* since it last changed says what it holds, or what an overlapping check had *)
(* read: watcher.go:153-228.                                                  *)
THEOREM NewestRows == LogSpec => []NewestRowIsRecent
<1>1. LogInv => NewestRowIsRecent
  BY DEF LogInv
<1>2. QED
  BY <1>1, LogBegins, LogStep, LogInvariance, PTL DEF LogSpec
=============================================================================
