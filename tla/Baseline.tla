------------------------------ MODULE Baseline ------------------------------
(***************************************************************************)
(* Layer 2 of ccguard: baseline.Detector over the hook_executions and      *)
(* baseline_stats tables.                                                  *)
(*                                                                         *)
(* Every `ccguard hook-wrap' is a process with a Detector of its own, the  *)
(* watch daemon has one for its log tailer and for RefreshAllStats, and    *)
(* `ccguard baseline reset' deletes.  They share nothing but the database, *)
(* and RecordAndCheck, RefreshAllStats and ResetHook are sequences of      *)
(* single statements: any of them may run between two of another's.        *)
(*                                                                         *)
(* An execution is its duration.  The mean and the standard deviation a    *)
(* stats row holds are kept as the count, the sum and the sum of squares   *)
(* they are computed from, and z-scores are compared without division, so  *)
(* the arithmetic is exact (durations are small naturals).                 *)
(***************************************************************************)
EXTENDS Integers, Sequences

CONSTANTS
  Hooks,                  \* hook names
  Durations,              \* bound: the durations, in ms, that occur
  MinSamples, Window,     \* Config
  WarnZ, AlertZ,
  Wraps,                  \* hook-wrap processes
  Daemon,                 \* the watch daemon
  LogParser,              \* whether the log tailer of the daemon has a parser:
                          \* watch itself passes none
  Resetter,               \* the `baseline reset' command
  NoStats,                \* stands for "no stats row"
  MaxRecords,             \* bound: no recorder starts on a hook after so many
  MaxResets               \* bound: reset commands

Recorders == Wraps \cup {Daemon}
Actors    == Recorders \cup {Resetter}

ASSUME BaselineAssumption ==
  /\ Durations \subseteq Nat
  /\ MinSamples \in Nat /\ Window \in Nat \ {0}
  /\ WarnZ \in Nat /\ AlertZ \in Nat
  /\ Daemon \notin Wraps /\ Resetter \notin Recorders
  /\ LogParser \in BOOLEAN
  /\ NoStats \notin [count : Nat, sum : Nat, sumsq : Nat]
  /\ MaxRecords \in Nat /\ MaxResets \in Nat

VARIABLES
  execs,       \* hook_executions: [Hooks -> Seq(Durations)], oldest first
  stats,       \* baseline_stats: [Hooks -> Stats or NoStats]
  rec,         \* what each recorder is doing
  reset,       \* what the reset command is doing
  hot,         \* Detector.lastAlert: the hooks each recorder alerted on
               \* less than Cooldown ago
  total,       \* history: executions of each hook recorded since it was
               \* last reset by a reset that nobody overlapped
  anomalies,   \* events: the hooks with a baseline-anomaly row since then
  disturbed,   \* history: actors whose operation failed or was overlapped
               \* by another on the same hook
  resets       \* reset commands so far, for MaxResets

vars == <<execs, stats, rec, reset, hot, total, anomalies, disturbed, resets>>

Stats == [count : Nat, sum : Nat, sumsq : Nat]
Levels == {"none", "warn", "alert"}

Recorder ==
  [pc     : {"idle", "record", "read", "upsert", "report", "next"},
   job    : {"record", "refresh"},
   hooks  : SUBSET Hooks,          \* the hook it is working on, if any
   todo   : SUBSET Hooks,          \* those RefreshAllStats has left
   dur    : Durations \cup {-1},
   level  : Levels,
   found  : Nat,                   \* history: executions there were to judge by
   snap   : Seq(Durations)]        \* what RecentExecutions returned

Idle == [pc |-> "idle", job |-> "record", hooks |-> {}, todo |-> {},
         dur |-> -1, level |-> "none", found |-> 0,
         snap |-> <<>>]

(* The type invariant of Layer 2: every variable has its type, and only a    *)
(* recorded execution is ever on its way to a report.                       *)
TypeOK ==
  /\ execs \in [Hooks -> Seq(Durations)]
  /\ stats \in [Hooks -> Stats \cup {NoStats}]
  /\ rec \in [Recorders -> Recorder]
  /\ \A p \in Recorders : rec[p].pc \in {"record", "report"} => rec[p].job = "record"
  /\ reset \in [pc : {"idle", "stats", "execs"}, hooks : SUBSET Hooks]
  /\ hot \in [Recorders -> SUBSET Hooks]
  /\ total \in [Hooks -> Nat]
  /\ anomalies \in SUBSET Hooks
  /\ disturbed \in SUBSET Actors
  /\ resets \in Nat

Init ==
  /\ execs = [h \in Hooks |-> <<>>]
  /\ stats = [h \in Hooks |-> NoStats]
  /\ rec = [p \in Recorders |-> Idle]
  /\ reset = [pc |-> "idle", hooks |-> {}]
  /\ hot = [p \in Recorders |-> {}]
  /\ total = [h \in Hooks |-> 0]
  /\ anomalies = {} /\ disturbed = {}
  /\ resets = 0
-----------------------------------------------------------------------------
(* The pure parts of the detector. *)

(* The newest Window executions, the result of RecentExecutions. *)
Recent(s) ==
  IF Len(s) <= Window THEN s ELSE SubSeq(s, Len(s) - Window + 1, Len(s))

Sum(s) ==
  LET upTo[n \in 0..Len(s)] == IF n = 0 THEN 0 ELSE upTo[n - 1] + s[n]
  IN upTo[Len(s)]

SumSq(s) == Sum([i \in 1..Len(s) |-> s[i] * s[i]])

Summary(s) == [count |-> Len(s), sum |-> Sum(s), sumsq |-> SumSq(s)]

(* count * (count - 1) times the sample variance. *)
Spread(s) == s.count * s.sumsq - s.sum * s.sum

(* (d - mean) / stddev >= z, for a positive stddev. *)
ZScoreAtLeast(s, d, z) ==
  LET away == d * s.count - s.sum IN
  /\ away >= 0
  /\ away * away * (s.count - 1) >= z * z * s.count * Spread(s)

(* checkAnomaly: still learning, or no variance to compare against. *)
Silent(s) == s = NoStats \/ s.count < MinSamples \/ Spread(s) = 0

(* A mutant: no row and no variance count as learning, few samples do not. *)
CheckWithoutLearning(s, d) ==
  IF s = NoStats \/ Spread(s) = 0 THEN "none"
  ELSE IF ZScoreAtLeast(s, d, AlertZ) THEN "alert"
  ELSE IF ZScoreAtLeast(s, d, WarnZ) THEN "warn"
  ELSE "none"

CheckAnomaly(s, d) ==
  IF Silent(s) THEN "none"
  ELSE IF ZScoreAtLeast(s, d, AlertZ) THEN "alert"
  ELSE IF ZScoreAtLeast(s, d, WarnZ) THEN "warn"
  ELSE "none"
-----------------------------------------------------------------------------
(* Bookkeeping for the properties: who works on which hooks. *)
HooksOf(a) == IF a = Resetter THEN reset.hooks
              ELSE rec[a].hooks \cup rec[a].todo

Overlaps(a, H) == {b \in Actors \ {a} : HooksOf(b) \cap H # {}}

Begin(a, H) ==
  disturbed' = IF Overlaps(a, H) = {} THEN disturbed \ {a}
               ELSE disturbed \cup Overlaps(a, H) \cup {a}

Fails(a) == disturbed' = disturbed \cup {a}

(* The hooks of a reset, if nobody overlapped it: they learn anew. *)
Anew == IF Resetter \in disturbed THEN {} ELSE reset.hooks
-----------------------------------------------------------------------------
(* RecordAndCheck, steps 1 and 2: the stored stats are read and judged by.  *)
(* A hook-wrap is a new process, with an empty lastAlert; the daemon gets   *)
(* its executions from log lines, if anything parses them.                  *)
StartRecord(p, h, d) ==
  /\ p \in Wraps \/ LogParser
  /\ rec[p].pc = "idle"
  /\ total[h] < MaxRecords
  /\ rec' = [rec EXCEPT ![p] =
       [Idle EXCEPT !.pc = "record", !.hooks = {h}, !.dur = d,
                    !.level = CheckAnomaly(stats[h], d),
                    !.found = Len(execs[h])]]
  /\ hot' = IF p \in Wraps THEN [hot EXCEPT ![p] = {}] ELSE hot
  /\ Begin(p, {h})
  /\ UNCHANGED <<execs, stats, reset, total, anomalies, resets>>

(* Step 3: the execution is inserted. *)
RecordExecution(p) ==
  \E h \in rec[p].hooks :
    /\ rec[p].pc = "record"
    /\ execs' = [execs EXCEPT ![h] = Append(@, rec[p].dur)]
    /\ total' = [total EXCEPT ![h] = @ + 1]
    /\ rec' = [rec EXCEPT ![p].pc = "read"]
    /\ UNCHANGED <<stats, reset, hot, anomalies, disturbed, resets>>

(* A mutant: a refreshed row is judged and reported like a recorded one. *)
AfterRecomputeReport(p) == "report"

(* Step 4, recomputeStats: first the window is read ... *)
AfterRecompute(p) == IF rec[p].job = "record" THEN "report" ELSE "next"

ReadWindow(p) ==
  \E h \in rec[p].hooks :
    /\ rec[p].pc = "read"
    /\ IF execs[h] = <<>>
         THEN rec' = [rec EXCEPT ![p].pc = AfterRecompute(p)]
         ELSE rec' = [rec EXCEPT ![p].pc = "upsert", ![p].snap = Recent(execs[h])]
    /\ UNCHANGED <<execs, stats, reset, hot, total, anomalies, disturbed, resets>>

(* A mutant: the row is computed before the new execution is in the window. *)
SummaryWithoutLast(s) == Summary(SubSeq(s, 1, Len(s) - 1))

(* ... then the row is replaced by what the window gives. *)
NewRow(s) == Summary(s)

UpsertStats(p) ==
  \E h \in rec[p].hooks :
    /\ rec[p].pc = "upsert"
    /\ stats' = [stats EXCEPT ![h] = NewRow(rec[p].snap)]
    /\ rec' = [rec EXCEPT ![p].pc = AfterRecompute(p), ![p].snap = <<>>]
    /\ UNCHANGED <<execs, reset, hot, total, anomalies, disturbed, resets>>

(* Step 5, consumeAlertBudget: one alert or warning per hook and Cooldown   *)
(* of this Detector; only an alert is written to the audit log.             *)
Report(p) ==
  \E h \in rec[p].hooks :
    /\ rec[p].pc = "report"
    /\ IF rec[p].level # "none" /\ h \notin hot[p]
         THEN /\ hot' = [hot EXCEPT ![p] = @ \cup {h}]
              /\ anomalies' = IF rec[p].level = "alert" THEN anomalies \cup {h}
                              ELSE anomalies
         ELSE UNCHANGED <<hot, anomalies>>
    /\ rec' = [rec EXCEPT ![p] = Idle]
    /\ UNCHANGED <<execs, stats, reset, total, disturbed, resets>>

(* Cooldown has passed since everybody's last alert on h. *)
CooldownPasses(h) ==
  /\ \E p \in Recorders : h \in hot[p]
  /\ hot' = [p \in Recorders |-> hot[p] \ {h}]
  /\ UNCHANGED <<execs, stats, rec, reset, total, anomalies, disturbed, resets>>

(* RefreshAllStats at the start of watch: the hooks that have executions. *)
StartRefresh ==
  LET H == {h \in Hooks : execs[h] # <<>>} IN
  /\ rec[Daemon].pc = "idle"
  /\ rec' = [rec EXCEPT ![Daemon] =
                [Idle EXCEPT !.pc = "next", !.job = "refresh", !.todo = H]]
  /\ Begin(Daemon, H)
  /\ UNCHANGED <<execs, stats, reset, hot, total, anomalies, resets>>

RefreshNext ==
  /\ rec[Daemon].pc = "next"
  /\ IF rec[Daemon].todo = {}
       THEN rec' = [rec EXCEPT ![Daemon] = Idle]
       ELSE \E h \in rec[Daemon].todo :
              rec' = [rec EXCEPT ![Daemon].pc = "read", ![Daemon].hooks = {h},
                                 ![Daemon].todo = @ \ {h}]
  /\ UNCHANGED <<execs, stats, reset, hot, total, anomalies, disturbed, resets>>

(* A statement fails: an execution that cannot be recorded ends the         *)
(* operation, stats that cannot be updated end a refresh and cost a         *)
(* recorder only a warning.                                                 *)
StatementFails(p) ==
  /\ rec[p].pc \in {"record", "read", "upsert"}
  /\ rec' = IF rec[p].pc = "record" \/ rec[p].job = "refresh"
              THEN [rec EXCEPT ![p] = Idle]
              ELSE [rec EXCEPT ![p].pc = "report", ![p].snap = <<>>]
  /\ Fails(p)
  /\ UNCHANGED <<execs, stats, reset, hot, total, anomalies, resets>>

(* The process is killed; a new one starts with an empty lastAlert. *)
Killed(p) ==
  /\ rec[p].pc # "idle"
  /\ rec' = [rec EXCEPT ![p] = Idle]
  /\ hot' = [hot EXCEPT ![p] = {}]
  /\ Fails(p)
  /\ UNCHANGED <<execs, stats, reset, total, anomalies, resets>>
-----------------------------------------------------------------------------
(* `ccguard baseline reset', of one hook or of all: two statements. *)
StartReset(H) ==
  /\ reset.pc = "idle"
  /\ resets < MaxResets
  /\ resets' = resets + 1
  /\ reset' = [pc |-> "stats", hooks |-> H]
  /\ Begin(Resetter, H)
  /\ UNCHANGED <<execs, stats, rec, hot, total, anomalies>>

DeleteStats ==
  /\ reset.pc = "stats"
  /\ stats' = [h \in Hooks |-> IF h \in reset.hooks THEN NoStats ELSE stats[h]]
  /\ reset' = [reset EXCEPT !.pc = "execs"]
  /\ UNCHANGED <<execs, rec, hot, total, anomalies, disturbed, resets>>

DeleteExecutions ==
  /\ reset.pc = "execs"
  /\ execs' = [h \in Hooks |-> IF h \in reset.hooks THEN <<>> ELSE execs[h]]
  /\ total' = [h \in Hooks |-> IF h \in Anew THEN 0 ELSE total[h]]
  /\ anomalies' = anomalies \ Anew
  /\ reset' = [pc |-> "idle", hooks |-> {}]
  /\ UNCHANGED <<stats, rec, hot, disturbed, resets>>

ResetFails ==
  /\ reset.pc # "idle"
  /\ reset' = [pc |-> "idle", hooks |-> {}]
  /\ Fails(Resetter)
  /\ UNCHANGED <<execs, stats, rec, hot, total, anomalies, resets>>
-----------------------------------------------------------------------------
RecorderNext(p) ==
  \/ \E h \in Hooks, d \in Durations : StartRecord(p, h, d)
  \/ RecordExecution(p) \/ ReadWindow(p) \/ UpsertStats(p) \/ Report(p)
  \/ StatementFails(p) \/ Killed(p)

Next ==
  \/ \E p \in Recorders : RecorderNext(p)
  \/ StartRefresh \/ RefreshNext
  \/ \E h \in Hooks : CooldownPasses(h)
  \/ \E H \in {{h} : h \in Hooks} \cup {Hooks} : StartReset(H)
  \/ DeleteStats \/ DeleteExecutions \/ ResetFails

Spec == Init /\ [][Next]_vars
-----------------------------------------------------------------------------
(* Whatever overlaps, fails, is reset or is cut short, a hook is never      *)
(* judged before MinSamples executions of it were recorded, and a reset     *)
(* that nobody overlapped starts the count again: neither half of it may    *)
(* leave anything to judge by (baseline.go:29-31, 159-174 and 183-186).     *)
NoEarlyAnomaly ==
  /\ \A p \in Recorders : rec[p].level # "none" =>
       \A h \in rec[p].hooks : total[h] >= MinSamples
  /\ \A h \in anomalies : total[h] > MinSamples

(* The row of h is that of its newest executions, and is there iff any is.  *)
Agree(h) ==
  stats[h] = IF execs[h] = <<>> THEN NoStats ELSE Summary(Recent(execs[h]))

Finishes(a, h) ==
  /\ h \in HooksOf(a)
  /\ IF a = Resetter THEN reset.pc = "execs" /\ reset'.pc = "idle"
     ELSE rec[a].pc = "upsert" /\ rec'[a].pc \in {"report", "next"}
          /\ h \in rec[a].hooks

(* An operation nobody overlapped and no error cut short leaves the two     *)
(* tables in agreement on its hook, however they were before: a stale row,  *)
(* left by an overlap or by half a reset, does not outlive the next quiet   *)
(* execution or reset (baseline.go:101-107, 161-166).                       *)
QuietOperationsAgree ==
  [][\A a \in Actors, h \in Hooks :
       Finishes(a, h) /\ a \notin disturbed' => Agree(h)']_vars

(* baseline.go:159: ResetHook deletes statistics and history, "returning    *)
(* that hook to the learning phase"; in that phase, of fewer than           *)
(* MinSamples executions, "no alerts are emitted" (baseline.go:29).         *)
ResetRestartsLearning ==
  \A p \in Recorders : rec[p].level # "none" => rec[p].found >= MinSamples
=============================================================================
