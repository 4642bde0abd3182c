# A verification project for ccguard

ccguard watches the settings of Claude Code. It is a Go program of one binary:
a daemon (`ccguard watch`), a wrapper around every hook (`ccguard hook-wrap`)
and a few commands, which share one SQLite file. This directory holds TLA+
models of it, the TLC runs that check them, and proofs that TLAPS checks.

`PROJECT.json` lists the components, runs, mutants, hazards and theorems, and
maps each definition to the lines it stands for. Paths below are relative to
`src/`.

## 1. Inventory

| Component | State | Operations | Interacts with |
|---|---|---|---|
| Layer 1, `internal/hashwatch` | `Watcher.pending` (path to timer), the inotify watches, the fsnotify queue, running timers and checks | `NewWatcher`, `Run`, `handleEvent`, `scheduleCheck`, timer closures, `check`, `Close` | file system (events, two reads), store, IOC database, sink |
| Approvals and audit log, `internal/storage` with `init.go`, `approve.go`, `status.go` | tables `approved_hashes`, `events` | `Approve`, `IsApproved`, `ClearApproved`, `CountApproved`, `RecordEvent`, `RecordIOCEvent` | written by commands, read and written by the daemon |
| Layer 2, `internal/baseline` | tables `hook_executions`, `baseline_stats`; `Detector.lastAlert` in each process | `RecordAndCheck`, `RefreshAllStats`, `ResetHook`, `ResetAll` | the store only: hook-wraps, daemon and reset command share nothing else |
| hook-wrap, `hookwrap.go` | none of its own | `notifyDaemon`, `runWrap` | the PID socket, the detector, the wrapped command |
| Layer 4 tree and procfs backend, `internal/behavior` | `ProcTree.pids`, `prevPIDs`, the event channel | `AddRoot`, `AddChild`, `Cleanup`, `poll`, `Start` | `/proc`, socket goroutines, the consumer |
| Layer 4 pipeline, `behavior_watch.go` | the batch; table `behavior_events` | `listenPIDSocket`, `handlePIDConn`, `processBehaviorEvents` | channel, policies, store, sink |
| auditd and eBPF backends, `SelectBackend` | the position in the audit log | `SelectBackend`, `Start`, `drainAuditLog` | ProcTree, channel, the audit daemon |
| IOC database, `internal/ioc` | the indicators, loaded once | `LoadDir`, `Match` | Layer 1 |
| Policies, `internal/policy` | the policies, loaded once | `LoadDir`, `LoadFile`, `LoadWithFallback`, `Eval` | Layer 4, `policy check` |
| Log tailer, `internal/baseline/logtailer.go` | paths seen; a position in each open file | `Run`, `discover`, `tailFile`, `drainLines` | the writers of the logs, detector; `watch` gives it no parser |
| Schema, `internal/storage` | tables, indexes and one added column | `Open`, `Migrate`, `addColumnIfMissing` | every command migrates before it does anything |
| Config, alert sink, printing commands | none; a mutex; none | | |

What is hard about it, and what makes each part correct:

* **Layer 1** runs one goroutine per fired timer beside the event loop. A timer
  that has fired but waits for the lock cannot be stopped any more and deletes
  the map entry of its successor; `check` reads the file twice and the approval
  once, with gaps; commands of other processes change approvals in those gaps;
  fsnotify drops events; shutdown closes the store under running checks.
  any of its statements may fail, and errors of an `INSERT` are ignored.
  Correct means: no change is lost, drift is alerted, and recorded if the store
  takes the row, approved content is not, and all of it happens in the end.
* **Layer 2** has no transactions: read-judge-insert-recompute and the two
  deletes of a reset interleave freely among processes. Correct means: no
  judgement while learning, and statistics that describe the executions.
* **Layer 4** walks a process table that changes under it, in map order and
  each PID once, while roots arrive late and PIDs are reused; its events pass a
  bounded channel, a batch and a store that fails. Correct means: only hooks are
  tracked, each child is reported, each event is written once and in order.
* **The log tailer** keeps paths where it means files, reads a file that is
  being written, and is restarted at will. Correct means: lines are recorded once
  and in order, and only what was torn when it was read is lost.
* **Migration** is a series of statements that several processes may run at the
  same time and be killed in. Correct means: who succeeds finds everything, and
  nobody fails for good.
* **The rule sets** are pure: globs with `**`, loading with broken files among
  the good ones, and a check that promises what the daemon will load.

## 2. The modules

| Module | Models | Extends |
|---|---|---|
| `ClaudeFiles` | external: files, modes, directories, inotify watches, the bounded event queue | |
| `Approvals` | `approved_hashes`, `events`; `approve` and `init [--force]` statement by statement | `ClaudeFiles` |
| `Integrity` | abstract: what Layer 1 promises of the files it watches | |
| `HashWatch` | the whole of Layer 1, its properties, the refinement mapping to `Integrity` and the inductive invariant | `Approvals` |
| `HashWatchHistory` | `HashWatch` with a history of contents, for two documented claims | `HashWatch` |
| `HashWatchLog` | `HashWatch` with the order of the rows its checks write; the instance for liveness | `HashWatch` |
| `HashWatchProofs` | six theorems about `HashWatch`, the refinement among them | `HashWatchLog` |
| `Baseline` | Layer 2 with any number of hook-wraps, the daemon and the reset command | |
| `BaselineProofs` | three theorems about `Baseline` | `Induction` |
| `EventLog` | abstract: what the pipeline promises of events | |
| `EventPipe` | outbox, channel, consumer, batch, flushes and shutdown; the refinement mapping to `EventLog` | |
| `ProcForest` | processes and PIDs (external), hook-wrap's notification, `ProcTree` | |
| `LineReader` | external: `bufio.Reader.ReadString` on a file that grows | |
| `BehaviorWatch` | backend selection, the procfs and auditd backends, PID socket; composes | `ProcForest`, `EventPipe`, `LineReader` |
| `EventLogProofs` | order in `EventLog` | |
| `BehaviorProofs` | five theorems about `BehaviorWatch`, the refinement among them | `Induction` |
| `LogTail` | Mode A's discovery and tails, with a parser that accepts some lines | `LineReader` |
| `LogTailProofs` | five theorems about `LogTail` | `Induction` |
| `Migration` | `Open` and `Migrate` in several processes | |
| `MigrationProofs` | four theorems about `Migration` | |
| `Lists` | what the loops that append to a result build | |
| `IocDB`, `PolicyDB` | the rule sets, as operators and recursive functions | `Lists` |
| `Rules` | calls of those, on bounded inputs | `IocDB`, `PolicyDB` |
| `RulesProofs` | four theorems about `Rules` | `Induction` |
| `Induction` | induction and recursion over the naturals, for sets and functions | |
| `MC...` | instances for TLC: symmetry sets and constants | |

### Layer 1: `ClaudeFiles`, `Approvals`, `HashWatch`

`timer[t]` is a timer together with the goroutine it becomes:

    free -> armed -> fired -> stat -> hash -> lookup -> report -> free
            Stop     lock     os.Stat HashFile  IsApproved  Record*, Alert

`armed` is a `time.AfterFunc` that has not expired, `fired` one that has and
waits for `mu`; only an armed timer can be stopped, which is what `Stop` does
in Go. `Unregister` deletes the map entry of the path, whichever timer it names
(`watcher.go:154-156`). `pending` is the map. Each later step is one read or
statement of `check`, so that files, approvals and other checks move in between.
`phase` follows `watch`: up, `Run` returned, watcher closed, store closed, down.
`ProcessEnds` also kills the daemon at any point.

The variables `dirty`, `blind`, `warned`, `examined`, `refused`, `revoked`,
`overflow` and the field `ok` are histories: no guard reads them.

`content` abstracts files to values: a content is its own hash (SHA-256 taken as
injective). Whether an indicator matches is the constant `KnownBad`; matching
itself is `IocDB`. `sealed` files stand for any reason a read fails other than
absence. Any statement of the daemon may fail at any time, open store or closed
(busy beyond its timeout, a full disk): `Insert` then leaves the log as it is and
puts the row into `refused`, since the code ignores the error and alerts all the
same (`watcher.go:169,199,209,222`), and `LookupFails` warns and gives the
finding up (`watcher.go:192-196`). A record and its alert are one step: in
between, only killing the process can be observed, which leaves one of the two
without the other; of a content that several indicators match, the code's series
of rows and alerts is one row and one alert. One command of `Approvals` runs at a
time. A monitored name is never a directory (the silent return of
`watcher.go:175-177`), and the parent of a watch path is not removed.

`Integrity` knows no timers, map, queue or phases of shutdown. A change in
view makes it owe the file a look; a look turns into a finding, or into a report
of the removal or a warning; a finding is judged by the approvals of one moment and
then told, its row taken or refused by the store, or it is given up with a warning. `Promise` maps Layer 1 to it: owed is what has an event, a timer or a
check that has not hashed yet, a finding is what a check past `HashFile` has in
hand, and the rows are those of the audit log that no command wrote. `Fire`,
`Unregister` and `StatFound` are stutters; a timer that is stopped is one too, since
another has been armed for its file.

`HashWatchLog` adds the order of rows as far as it can be asked about: the hash in
the newest row that a check wrote of a file, what other checks of the file had in
hand when it was last looked at (`beside`), and the files of which a statement
has failed since (`unlogged`).

### Layer 2: `Baseline`

`rec[p]` is the program counter of a recorder, `reset` that of the reset
command; every statement is a step and may fail, every process may be killed.
`stats[h]` keeps count, sum and sum of squares instead of mean and deviation,
which is what both are computed from, and `ZScoreAtLeast` compares without
dividing: exact where the code rounds. Reading the row and judging by it are one
step, since judging touches nothing shared. `hot[p]` holds the hooks p alerted
on less than `Cooldown` ago, `CooldownPasses` is the clock. The log tailer is
the daemon as a recorder; `watch` gives it a parser that parses nothing, so the
run that reports a disagreement sets `LogParser = FALSE`. What comes before a
line is recorded is `LogTail`; here the daemon records one line at a time. `total` counts the executions ever
recorded of a hook, and `anomalies` are the hooks with an anomaly in the audit log;
a reset that nobody overlapped starts both again (`Anew`), as it should.

### Layer 4: `ProcForest`, `EventPipe`, `BehaviorWatch`

`parent` is the process table. Hook-wraps send their PID, or fail to, before
they fork. `StartDaemon` runs `SelectBackend` over a set of available backends
that the constant `Machines` allows, and `Start` of the one chosen, which for
eBPF always fails and for auditd may; the socket listens either way
(`watch.go:120-131`).

`poll` is the program counter of the backend's goroutine:

    procfs:  idle -> scan -> add -> scan ... -> send -> idle
    auditd:  idle -> drain -> emit -> drain ... -> idle

A procfs round is a snapshot of `/proc`, then one PID after the other in any
order, `readPPID` and `AddChild` in separate steps, so that processes fork, end
and get reused PIDs in between; then `prevPIDs`, then the sends one by one. An
auditd round reads the lines its log holds, drops what is torn or of an
untracked process, and sends each event before it reads on: in `emit` the
context is not looked at (`auditd.go:107`), and there is no `AddChild`. A record
is known by its PID; other fields, and rotation of the log, are left out, as is
a seek that fails right after the open.

`EventPipe` is what both share: the channel of `ChanCap`, the consumer, the
batch of `BatchMax`, flushes that fail, and the shutdown in which nobody waits
for anybody. `Receive` is the whole handler of one event, up to the flush of a
full batch. Events are numbered as they are found; `Sensitive` are the numbers
some policy matches. A flush of an empty batch does nothing, as in the code, and
never holds up the consumer's end. `Promise` maps it to `EventLog`:
the log is the rows, and what is pending is the batch, the channel and the
outbox in that order. A flush of a full batch, say, is one `Write` of the oldest
events, and the end of the process a `LoseNewest` or a `LoseOldest` of all.

`Cleanup` holds the mutex throughout, and is one step: a PID that changes hands
while it runs is seen before or after. `hooked`, `tainted`, `fresh`, `owed`,
`dropped` and `found` are histories, as is `snap` with auditd. `tainted` are
exactly three kinds of live processes: those whose PID was in the tree, in a
connection or in the hand of a poll when they got it; the child that a poll has in
hand while the PID of its parent is used again (`Misled`); and the descendants of
both. PID reuse is an accepted limitation (`procfs.go:26-28`), and the history
confines the exception to those.

### Log tailer: `LineReader`, `LogTail`

The text of a file is a sequence of pieces: a line written at once, or its head
and later its rest. `LineEnd` is where `ReadString` stops. `named` maps names to
files, because `discover` remembers names and a tail holds a file. Each call of
`ReadString` with the recording of its line is a step (`Drain`), and so is its
end at EOF (`DrainEnds`), which throws the torn piece away. A line that the
parser refuses or the store does not take goes to `skipped`. Files only grow:
truncation in place is not modelled. `blind` is a history of the paths that
were seen and whose file could not be opened or is no more the one it was.

### Schema: `Migration`

The schema is the set of its objects; `Steps` is the order in which `Migrate`
creates them, and `Init` is any initial part of it: a new file, one of an older
version, one on which a migration was interrupted. `QueryColumn` and `AddColumn`
are the two statements of `addColumnIfMissing`. `Interrupted` is the refusal of
a statement and the death of the process alike. What is given up is concurrency
within a statement: SQLite serialises them.

### Rules: `IocDB`, `PolicyDB`, `Rules`

`GlobMatch` is `globMatchParts` with the same split points, as the set of places
of the path from which on each rest of the pattern matches; `Covers` is the reference, what docs/IOC_FORMAT.md promises.
`filepath.Match` within a component is external and reduced to a literal and a
star. A directory is the sequence of entries the walk meets. For indicators an
entry may also be gone or denied, since `ioc.LoadDir` tells the two apart.
Policies are validated by two loops in the code, and are here: `LoadDir` of the
daemon picks what is `Accepted` of each file it visits, and `ParseBytes`, of `policy check`
and of the built-in policies, goes policy by policy and counts errors. A policy
is where it stands, its syscall and its action, which is what makes it valid.

## 3. The runs

| Run | Checks | Bounds |
|---|---|---|
| `hashwatch_safety` | `TypeOK`, `NoMissedChange`, `DriftIsAlerted`, `NoFalseAlarm`, `KeepsPromise` | 1 directory, 2 files, 2 contents (one known bad), 2 timers, queue of 2, 3 changes and commands; 1.85M states |
| `hashwatch_live` | `NewestRowIsRecent`, `ChangeIsAlerted` | `HashWatchLog`, the same with 1 file; 166k states |
| `hashwatch_transitions` | `EveryTransitionRecorded`, violated | 1 file |
| `hashwatch_latedir` | `FirstChangeDetected`, violated | 1 file |
| `baseline_safety` | `TypeOK`, `NoEarlyAnomaly`, `QuietOperationsAgree` | 1 hook, durations 1, 2, 9, `MinSamples` = `Window` = 3, 4 recordings, 1 hook-wrap and the daemon, 1 reset; 5.4M states |
| `baseline_reset` | `ResetRestartsLearning`, violated | 2 hook-wraps |
| `behavior_safety` | `TypeOK`, `OnlyHooksTracked`, `ChildrenReported`, `InOrderOnce`, `WritesInOrder` | procfs; 3 PIDs, 4 processes, channel of 1, batches of 2; 3.05M states |
| `behavior_live` | `EventsSettle`, `BackendEnds` | every backend; 2 PIDs, 3 processes and audit records; 266k states |
| `behavior_descendants` | `TreeIsClosed`, violated | every backend; 3 PIDs, 3 processes |
| `rules` | `GlobFindsCover`, `NoPolicyLost`, `CheckedIsLoaded`, `NoIndicatorLost` | patterns and paths of at most 4 parts over 2 names; 2 policy files of at most 2 policies, 3 indicator files; 172k states |
| `logtail` | `TypeOK`, `LinesInOrder`, `OncePerName`, `NothingPassedOver`, `SeenIsTailed` | 2 names, 2 files, 2 tails, 2 lines, 2 starts; 4.7M states |
| `migration` | `TypeOK`, `MigratedIsComplete`, `AloneSucceeds`, `OvertakenOnce` | 3 processes, any number of runs; 25k states |

Why these bounds are enough to be interesting. Two timers let a fired timer
delete the entry of a newer one and let two checks of a file overlap; two files
tell a lookup by path from one by hash alone; a queue of two overflows within
three operations, and three operations suffice to approve, clear and change.
`MinSamples` = 3 with four recorded executions reaches both sides of the
threshold, and the durations 1, 2, 9 reach every level. Three is the least that
tests the threshold: two executions of different durations already have a
deviation to judge by, so that only `count < MinSamples` keeps them from being
judged. A reset among them starts the count again. Four births over three PIDs reuse a PID; a channel of one blocks
the backend in the middle of a poll's events, batches of two fill and also wait
for the ticker. An audit record counts as a birth, so that two of them with one
hook-wrap fill the channel behind a consumer that has gone. Two names and two
files give a rename onto a name that was seen, a new file under an old name and
a file with two tails; two lines, each perhaps torn, are enough for the tails to
differ in order. Three processes let one overtake a second while a third starts.
Symmetry is used on timers, hook-wraps, PIDs, processes, names, files and tails,
in runs without liveness properties only, and only where no definition chooses
among them. Deadlock is checked in every run but `rules`, whose calls return, and
`logtail`, where all bounds may be used up with the daemon down.

What the properties say, beyond their comments in the modules:

* `NoMissedChange` is the debounce argument: whatever stops, replaces or outruns
  whatever, a changed file has an event, a timer or an unfinished check, or a
  warning. It excepts overflows and changes no watch saw.
* `DriftIsAlerted` relates three parties: what `status` would print now, what
  the daemon judged then, and what a command did in between. The alert is in the
  audit log too, unless that very row was refused; where the lookup failed, a
  warning was given instead.
* `KeepsPromise` speaks of steps where these two speak of states: nothing is alerted
  or recorded that a look did not find, a finding is never judged twice or by two
  moments of the table, and none is dropped but with a warning or with the process.
  A statement that fails costs the row it was for and nothing else.
* `NewestRowIsRecent` says how far the newest row can be trusted: it is about what the
  last look found, or about what another check of the file had in hand at that
  look, since nothing orders their rows; never about anything older. After a
  statement that failed nothing is said until the next look.
* `ChangeIsAlerted` is about timers that are stopped, replaced and run late. A file
  that is written again and again within the window is never hashed at all; that
  starvation is outside the run, where `MaxOps` ends every series of writes.
* `NoEarlyAnomaly` counts executions from the last reset that nobody overlapped, so it
  also says that such a reset leaves nothing to judge by: it fails if either
  `DELETE` is missing or the threshold is off by one.
* `QuietOperationsAgree` is the most that holds of two tables without a
  transaction: an operation that was not overlapped and did not fail leaves them
  in agreement, however they were before. Without "not overlapped" it is false:
  two recorders can leave the older window's row.
* `InOrderOnce` accounts for every event found: written, on its way, or dropped
  for a stated reason, never two of these.
* `WritesInOrder` is the same as a refinement: no step of the code does anything
  to events that `EventLog` cannot.
* `BackendEnds` excepts one state, `Stuck`: auditd in a send on a full channel
  after the consumer has returned. Nothing but the end of the process ends it.
* `SeenIsTailed` says which paths are lost: those whose open failed and those
  whose file was renamed or removed, until the daemon is started again.
* `AloneSucceeds` and `OvertakenOnce` together bound what a user can meet: only
  the `ALTER` can fail, only in company, and once.
* `NoPolicyLost` says nothing of a directory whose YAML files hold no valid policy at
  all: the documents and the code disagree there (below).
* `CheckedIsLoaded` compares two loops, one file against a whole directory, and all
  that may come between them: what is a YAML file, a walk that ends, the fallback.
* `ChildrenReported` is what one poll owes: a child that is new in its snapshot, of a
  parent tracked when it began.

### Disagreements between documents and code

Four runs expect a violation. Each checks what a document or comment says, and
`PROJECT.json` quotes it:

1. `EveryTransitionRecorded` (docs/THREAT_MODEL.md:51): write A, write B, one
   hash: A has no row.
2. `FirstChangeDetected` (`init.go:61`, `watcher.go:81`): the parent of a missing
   `.claude` is watched, but the directory itself never is once it appears.
3. `ResetRestartsLearning` (`baseline.go:159-160`): a recorder reads its window,
   the reset deletes both tables, the recorder upserts the old row, and the next
   execution is judged by it.
4. `TreeIsClosed` (docs/BEHAVIOR.md:33): auditd never calls `AddChild`; and a
   procfs poll visits a command before its hook-wrap is registered, remembers its
   PID and never looks again.

Five more are plain enough to need no run:

* docs/BASELINE.md:77 and `baseline.go:43` have `--baseline-cooldown` suppress
  repeated alerts per hook; `lastAlert` lives in a process (`baseline.go:201-209`),
  and every hook-wrap is one (`CooldownPasses`, `hot`).
* docs/POLICY_FORMAT.md:101 says an empty allowlist matches no connect event;
  `matchPolicy` skips an empty list (`policy.go:255`), so it matches all.
* docs/POLICY_FORMAT.md:69-70 and `policy.go:66` have `command_basename_in` compared
  with the base name of `argv[0]`; for an interpreter with an argument the code
  takes that of `argv[1]` (`behavior_watch.go:166-193`), so that a policy that names
  `bash` misses `bash script.sh`, and `sh -c` is known as `-c`.
* docs/BEHAVIOR.md:19-22 and `policy.go:83-84,154-157` fall back to the built-in
  policies only where the directory has no `*.yaml` file; `LoadWithFallback` does
  whenever nothing was loaded (`policy.go:163`), so also where there are YAML
  files and all are broken or invalid (`LoadWithFallback`).
* `behavior.go:150-151` says `SelectBackend` reports `active` as false when no
  backend could be started; it only asks `Available`, so a backend whose `Start`
  fails is active and nothing monitors (`StartDaemon`, `Starts`).

### Fairness

`HashWatch!Fairness`: the Run loop receives, a timer expires, a goroutine that
waits for the mutex gets it and a check goes on. All are the Go runtime's; the
mutex is held for a map operation only. `HandleEvent` needs a free timer in the
model, so the bound `Timers` is never what blocks for ever: checks end.
No fairness is assumed of users, commands, the world or signals.

`BehaviorWatch!Fairness`: weak fairness of the backend's own steps (always
enabled once reached, except a send to a full channel) and strong fairness of
`Receive` and `Tick`. Go's `select` picks uniformly among ready cases, so one that
is ready again and again is taken with probability one; weak fairness would not
do, because each of the two disables the other for a while. Nothing is assumed
of `StartPoll`, `Cleanup`, processes or shutdown: an event that was found does
not need another poll. auditd's `ReadRecord`, `Emit` and `DrainEnds` are fair as
steps of a goroutine that is not blocked. `BackendStops` is strongly fair: between
rounds `ctx.Done` is ready each time the select is reached, beside two tickers.
`ConsumerStops` is weakly fair, since nothing disables it once the context is
cancelled.

Runs of `LogTail`, `Migration` and `Baseline` have no liveness property: a tail
polls for as long as the daemon lives, and the other two are programs that end,
in which nobody waits for anybody.

## 4. What is proved

All for every value of the constants that satisfies the named assumptions
(`FilesAssumption`, `WatchAssumption`, `BaselineAssumption`, `ForestAssumption`,
`PipeAssumption`, `BehaviorAssumption`, `LogTailAssumption`,
`LogAssumption`, `RulesAssumption`, `DefaultsAssumption`): sentinels are not
members of what they stand beside, bounds are natural numbers, and the built-in
policies are valid. `Migration`
needs no assumption.

* **Layer 1** (`HashWatchProofs`): `[]TypeOK`, `[]NoMissedChange`,
  `[]DriftIsAlerted`, `[]NoFalseAlarm`. The inductive invariant is `IInv`.
  `NoMissedChange` alone is not inductive: a stopped timer must have been
  pending for its own path (`Registered`), and while the daemon is down
  nothing may count as seen (`BlindWhenDown`). `DriftIsAlerted` is
  strengthened to `ReadIsJudged`, which also covers files that became unreadable
  after they were read, since a file may become readable again.
  `VerdictJustified` carries a verdict back to the table it was made from.
  `Spec => KeepsPromise` is the refinement: `OwedMoves` and `HeldMoves` say what the
  step of one check does to what is owed and held, `ScheduleEffect` that a stopped
  timer leaves its file with another, `DeliverEffect` and `TailEffect` that the queue
  loses an event to its handler or to an overflow only. It needs `Registered`, for
  `Stop`, and that no check has a verdict before its lookup (`Undecided`).
  `LogSpec => []NewestRowIsRecent` adds that all that checks of a file have in hand
  is what it holds or what they had when it was last looked at (`HandIsRecent`).
* **Layer 2** (`BaselineProofs`): `[]NoEarlyAnomaly`. The invariant `BInv` says
  that a stats row, and a window somebody holds, count no more than the
  executions recorded since the last quiet reset (`Counted`), that who judged did so by a row of
  at least `MinSamples` (`JudgedLate`), and the order of a recorder's steps
  (`InOrder`): its own execution comes before its report, hence the strict
  inequality for the audit log. A quiet reset starts the totals again, so it is
  also needed that nobody then holds a window or a row from before (`QInv`).
  `[]QuietOperationsAgree` is about an operation from its first statement to its
  last: if nobody overlapped it, nobody else is at work (`Alone`), the window it
  holds is the one in the table (`WindowHeld`), and after a `DELETE` of a reset
  the rows are gone (`RowsGone`). `[]TypeOK` needs that the sums over a window are
  numbers, which is induction over the window.
* **Layer 4, the tree** (`BehaviorProofs`): `[]OnlyHooksTracked`. The invariant
  `HooksInv` adds that descent agrees with the histories (`FamiliesAgree`), that
  what sits in unhandled connections is vouched for too, and that the PID and
  parent a poll has in hand cannot smuggle in a stranger when either is reused
  (`InHandAgrees`). `[]ChildrenReported` adds `OwedInv`: a child that is owed an
  event still has the parent it is owed for and is still to be visited, or is in
  hand with that very parent.
* **Layer 4, the pipe**: `Spec => WritesInOrder`, that `BehaviorWatch` implements
  `EventLog`. Each action of `EventPipe` does one thing to the four sequences
  outbox, channel, batch and rows: it moves the border between two of them,
  appends to the first, or takes a piece away at one end. `BehaviorProofs` shows
  one by one that this is a step of `EventLog` or a stutter under the mapping,
  from no more than that they are sequences (`OnlySeqs`).
  `EventLogProofs!AlwaysInOrder` says of the abstract log that each event is in
  one place and in order; `[]InOrderOnce` of the code follows through the refinement
  (`OrderKept`).
* **Layer 4, types**: `[]TypeOK`, with `Round`: events are in hand only where a
  backend sends them, auditd's one at a time. That a line read from the log is a
  record needs where `ReadString` stops (`NewlineBehind`), and that in turn
  the least element of a set of naturals (`Induction!Least`).
* **Log tailer** (`LogTailProofs`): `[]TypeOK`, `[]NothingPassedOver`,
  `[]SeenIsTailed` and `[]LinesInOrder`. The last is the deep one: a file has no
  record of its own of what was read, so order follows from there being one
  reader at a time and from each reader starting at the end. `OneEach` (a path has
  one goroutine) and `Owned` (a goroutine's file has had the goroutine's name) make it one
  reader for a file of one name; `Kept` says that what is recorded lies before
  that reader's position, and `Numbered` that later positions hold later lines.
  `[]OncePerName` counts: each record of a line is `Credited` to one of the names its
  file has had, two records never to the same, and a name that still has a
  reader ahead of the line has its credit free (`CInv`).
* **Rule sets** (`RulesProofs`): all four properties of the run, for inputs of any
  size. What the loops return rests on what joining the lists of a list
  (`FlattenSeq`) contains (`FlattenHolds`) and how long it is (`FlattenLength`),
  both by induction over the lists; `Chosen` inherits them. `CheckIsTrustworthy` sets
  that against what `parseBytes` has after each policy (`ParsedAll`), which is
  induction over its loop. `GlobsAreCovers` takes
  the recursion of `globMatchParts` as an equation, shows that the sets of places
  from which the rest of the pattern covers the rest of the path solve it
  (`StartsStep`), and that any solution is that one, from the end of the pattern
  backwards (`GlobMatchRests`).
* **Induction** (`Induction`): the library's induction theorems take an operator as
  a parameter, which the provers cannot instantiate. `Smallest` gets the least
  element of a set of naturals from the well-foundedness of `<`; `Induction` and
  `InductionUpTo` follow for sets, and `Recursion` for functions given by a first
  value and a step.
* **Migration** (`MigrationProofs`): all four invariants of its run. A process
  has created, or found, whatever comes before its statement; two that run
  overlap; and who found the column missing runs beside whoever adds it
  (`OrderInv`).

Model-checked only: the three liveness properties, which are beyond this prover,
and the four violations. Every invariant and both refinements of the passing runs
are theorems.

No module declares a `RECURSIVE` operator.

## 5. Not modelled, and why

* Logs that are truncated or rotated in place, of the audit daemon and of the
  tailer alike: files only grow here. Renaming and removal are modelled.
* `policy init` (`policy_cmd.go`): it overwrites one file, and if it is interrupted leaves
  a part of it, which is a broken file as `NoPolicyLost` has them.
* Configuration: values are read once. Two of them break what they configure
  rather than any step of it: a window below `MinSamples` never starts detection
  (`baseline.go:212`), and a daemon and a hook with different `XDG_RUNTIME_DIR`
  have different sockets.
* `ioc check` on a relative path: docs/IOC_FORMAT.md:45 speaks of absolute ones;
  `IocDB` has the path as given.
* hook-wrap's exit code and measured time, the alert sink, the commands that
  print: formatting and reading.
* `DB.Eval` and `matchPolicy`, the translation of a behavior event into what policies
  compare, and `effectiveCmdBasename`: a filter and a conversion without state, of
  which a property would only repeat the conditions. `EventPipe` has their result
  as the constant `Sensitive`; where they differ from the documents is listed above.
* The eBPF backend beyond that its `Start` fails: it is a skeleton.
* The layers in one state space: they share the store only, and no table is
  shared except `events`, to which all append.
* The order of the audit rows beyond which of a file's, of those a check wrote, is the
  newest: the table is a set in `Approvals`.
* Time beyond order: debounce, tickers and deadlines are steps that may happen
  when they can.

## 6. The plan

Done, most important first: Layer 1, checked and proved to implement
`Integrity`; Layer 2, checked and proved; Layer 4 with its three backends, checked,
with all its safety properties proved; `EventLog` and the refinement; the log
tailer; migration; the rule sets against reference definitions; the disagreements
as runs.

Left: truncation in place, for `LogTail` and auditd, that is, a position behind
the end of the file.
