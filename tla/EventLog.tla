------------------------------ MODULE EventLog ------------------------------
(***************************************************************************)
(* What Layer 4 promises of behavioural events, whichever backend finds    *)
(* them: they are written in the order in which they were found, each      *)
(* once, and an event that is lost is lost for good, with what is on its   *)
(* way before it, after it or around it.                                   *)
(***************************************************************************)
EXTENDS Naturals, Sequences

VARIABLES
  log,        \* the events written, oldest first
  pending,    \* those found and not written yet
  lost,       \* those given up
  count       \* events found, the number of the last one

eventVars == <<log, pending, lost, count>>

Init == log = <<>> /\ pending = <<>> /\ lost = {} /\ count = 0

Find ==
  /\ count' = count + 1
  /\ pending' = Append(pending, count + 1)
  /\ UNCHANGED <<log, lost>>

(* The oldest k events are written together. *)
Write ==
  /\ \E k \in 1..Len(pending) :
       /\ log' = log \o SubSeq(pending, 1, k)
       /\ pending' = SubSeq(pending, k + 1, Len(pending))
  /\ UNCHANGED <<lost, count>>

(* The oldest are given up, a batch that could not be written; or the       *)
(* newest, or all, when something stops.                                    *)
LoseOldest ==
  /\ \E k \in 1..Len(pending) :
       /\ lost' = lost \cup {pending[i] : i \in 1..k}
       /\ pending' = SubSeq(pending, k + 1, Len(pending))
  /\ UNCHANGED <<log, count>>

LoseNewest ==
  /\ \E k \in 0..(Len(pending) - 1) :
       /\ lost' = lost \cup {pending[i] : i \in (k + 1)..Len(pending)}
       /\ pending' = SubSeq(pending, 1, k)
  /\ UNCHANGED <<log, count>>

Next == Find \/ Write \/ LoseOldest \/ LoseNewest

Spec == Init /\ [][Next]_eventVars
-----------------------------------------------------------------------------
OnTheWay == log \o pending

(* Every event found is in one place, and the order is that of the numbers. *)
InOrder ==
  /\ \A i, j \in 1..Len(OnTheWay) : i < j => OnTheWay[i] < OnTheWay[j]
  /\ {OnTheWay[i] : i \in 1..Len(OnTheWay)} \cup lost = 1..count
  /\ {OnTheWay[i] : i \in 1..Len(OnTheWay)} \cap lost = {}
=============================================================================
