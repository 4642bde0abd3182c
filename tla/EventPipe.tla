----------------------------- MODULE EventPipe -----------------------------
(***************************************************************************)
(* The way of a behavioural event inside `ccguard watch': a backend's      *)
(* goroutine sends what it has found over a bounded channel, and           *)
(* processBehaviorEvents matches each event against the policies and       *)
(* writes them to behavior_events in batches; the main goroutine cancels   *)
(* the context, closes the store and ends the process without waiting for  *)
(* either.  BehaviorWatch composes this with the backends.                 *)
(*                                                                         *)
(* Events are numbered in the order in which a backend found them.         *)
(***************************************************************************)
EXTENDS Naturals, Sequences, SequencesExt

CONSTANTS
  ChanCap,     \* capacity of the event channel (256)
  BatchMax,    \* events that force a flush (100)
  Sensitive    \* the events, by number, that some policy matches

ASSUME PipeAssumption ==
  /\ ChanCap \in Nat /\ BatchMax \in Nat \ {0}
  /\ Sensitive \subseteq Nat

VARIABLES
  phase,       \* "down", "up", "cancelled", "closed"
  outbox,      \* events a backend has found and not sent
  chan,        \* the channel
  closed,      \* the channel is closed
  consumer,    \* processBehaviorEvents: "idle", "running", "done"
  batch,       \* its unwritten events
  rows,        \* behavior_events, oldest first
  alerts,      \* the events whose policy match the sink has printed
  matchRows,   \* events: the rows of such matches
  dropped,     \* history: events given up
  found        \* history: events found so far, the number of the last one

pipeVars == <<phase, outbox, chan, closed, consumer, batch, rows, alerts,
              matchRows, dropped, found>>

PipeTypeOK ==
  /\ phase \in {"down", "up", "cancelled", "closed"}
  /\ outbox \in Seq(Nat) /\ chan \in Seq(Nat) /\ batch \in Seq(Nat)
  /\ Len(chan) <= ChanCap /\ Len(batch) < BatchMax
  /\ closed \in BOOLEAN
  /\ consumer \in {"idle", "running", "done"}
  /\ rows \in Seq(Nat) /\ dropped \in SUBSET Nat
  /\ alerts \in SUBSET Sensitive /\ matchRows \in SUBSET alerts
  /\ found \in Nat

PipeInit ==
  /\ phase = "down"
  /\ outbox = <<>> /\ chan = <<>> /\ closed = FALSE
  /\ consumer = "idle" /\ batch = <<>>
  /\ rows = <<>> /\ dropped = {} /\ alerts = {} /\ matchRows = {}
  /\ found = 0

Stopping == phase \in {"cancelled", "closed"}
-----------------------------------------------------------------------------
(* The backend's side.  An event is found ... *)
Find ==
  /\ found' = found + 1 /\ outbox' = Append(outbox, found + 1)
  /\ UNCHANGED <<phase, chan, closed, consumer, batch, rows, alerts,
                 matchRows, dropped>>

(* ... and sent: a full channel blocks the sender. *)
SendOne ==
  /\ outbox # <<>> /\ Len(chan) < ChanCap
  /\ chan' = Append(chan, Head(outbox)) /\ outbox' = Tail(outbox)
  /\ UNCHANGED <<phase, closed, consumer, batch, rows, alerts, matchRows,
                 dropped, found>>

(* The goroutine returns, with what it has not sent, and closes the channel. *)
CloseChannel ==
  /\ closed' = TRUE
  /\ dropped' = dropped \cup ToSet(outbox) /\ outbox' = <<>>
  /\ UNCHANGED <<phase, chan, consumer, batch, rows, alerts, matchRows, found>>
-----------------------------------------------------------------------------
(* Mutants: the batch is not truncated; one event too many is collected;    *)
(* the ticker flushes only what is full.                                    *)
AfterFlushKept(b) == b
FullLate(b) == Len(b) > BatchMax
FlushDueFull == Len(batch) >= BatchMax

AfterFlush(b) == <<>>
Full(b)  == Len(b) >= BatchMax
FlushDue == batch # <<>>

(* A mutant: the batch before this one is written last. *)
WrittenFirst(b) == b \o rows

Written(b) == rows \o b

(* flush: one transaction for the whole batch, or a Warn; the batch is      *)
(* forgotten either way.  An empty one is neither written nor lost.         *)
Flush(b) ==
  /\ batch' = AfterFlush(b)
  /\ \/ phase # "closed" /\ rows' = Written(b) /\ UNCHANGED dropped
     \/ dropped' = dropped \cup ToSet(b) /\ UNCHANGED rows

(* Every match is alerted and recorded, the error of RecordEvent ignored. *)
Evaluate(n) ==
  /\ alerts' = IF n \in Sensitive THEN alerts \cup {n} ELSE alerts
  /\ \/ phase # "closed" /\ matchRows' = matchRows \cup ({n} \cap Sensitive)
     \/ UNCHANGED matchRows

Receive ==
  /\ consumer = "running"
  /\ chan # <<>>
  /\ chan' = Tail(chan)
  /\ LET b == Append(batch, Head(chan)) IN
       IF Full(b)
         THEN Flush(b)
         ELSE batch' = b /\ UNCHANGED <<rows, dropped>>
  /\ Evaluate(Head(chan))
  /\ UNCHANGED <<phase, outbox, closed, consumer, found>>

Tick ==
  /\ consumer = "running"
  /\ FlushDue
  /\ Flush(batch)
  /\ UNCHANGED <<phase, outbox, chan, closed, consumer, alerts, matchRows, found>>

(* ctx.Done, or the channel closed and empty: the last flush. *)
ConsumerStops ==
  /\ consumer = "running"
  /\ Stopping \/ (closed /\ chan = <<>>)
  /\ Flush(batch)
  /\ consumer' = "done"
  /\ UNCHANGED <<phase, outbox, chan, closed, alerts, matchRows, found>>
-----------------------------------------------------------------------------
(* The main goroutine: a consumer runs if a backend has started. *)
PipeStarts(started) ==
  /\ phase = "down"
  /\ phase' = "up" /\ closed' = FALSE
  /\ consumer' = IF started THEN "running" ELSE "idle"
  /\ UNCHANGED <<outbox, chan, batch, rows, alerts, matchRows, dropped, found>>

Shutdown ==
  /\ \/ phase = "up" /\ phase' = "cancelled"
     \/ phase = "cancelled" /\ phase' = "closed"
  /\ UNCHANGED <<outbox, chan, closed, consumer, batch, rows, alerts,
                 matchRows, dropped, found>>

(* The process ends after its shutdown, or is killed at any point of it. *)
PipeEnds ==
  /\ phase # "down"
  /\ phase' = "down"
  /\ dropped' = dropped \cup ToSet(outbox \o chan \o batch)
  /\ outbox' = <<>> /\ chan' = <<>> /\ batch' = <<>>
  /\ closed' = FALSE /\ consumer' = "idle"
  /\ UNCHANGED <<rows, alerts, matchRows, found>>
-----------------------------------------------------------------------------
(* What was found is written in the order it was found, once, and nothing   *)
(* is lost but a batch that could not be written and what is on its way     *)
(* when the daemon stops (behavior_watch.go:79-147, procfs.go:67-74).       *)
OnTheWay == rows \o batch \o chan \o outbox

InOrderOnce ==
  /\ \A i, j \in 1..Len(OnTheWay) : i < j => OnTheWay[i] < OnTheWay[j]
  /\ ToSet(OnTheWay) \cup dropped = 1..found
  /\ ToSet(OnTheWay) \cap dropped = {}

(* The same as steps: the pipeline is an EventLog.                          *)
Promise == INSTANCE EventLog
  WITH log <- rows, pending <- batch \o chan \o outbox,
       lost <- dropped, count <- found

WritesInOrder == Promise!Spec
=============================================================================
