--------------------------- MODULE BaselineProofs ---------------------------
(* Proofs about the model of Layer 2, for every value of its constants. *)
EXTENDS Baseline, Induction, SequenceTheorems

(* A recorder works on one hook, and has a duration to record there; it      *)
(* holds a snapshot only until it is written, and a refresh judges nothing.  *)
InOrder(r) == /\ \A g, h \in r.hooks : g = h
              /\ r.pc = "record" => r.dur \in Durations
              /\ r.pc # "upsert" => r.snap = <<>>
              /\ r.pc = "next" => r.job = "refresh"
              /\ r.job = "refresh" => r.level = "none"

(* The part of the type invariant the argument needs: what the sums of a     *)
(* stats row are does not matter to it, how many executions it counts does.  *)
Shape ==
  /\ execs \in [Hooks -> Seq(Durations)]
  /\ stats = [h \in Hooks |-> stats[h]]
  /\ rec \in [Recorders -> Recorder]
  /\ \A p \in Recorders : InOrder(rec[p])
  /\ total \in [Hooks -> Nat]
  /\ anomalies \in SUBSET Hooks

(* No table and no snapshot counts more than was ever recorded. *)
Counted ==
  /\ \A h \in Hooks :
       /\ Len(execs[h]) <= total[h]
       /\ stats[h] # NoStats => stats[h].count \in Nat /\ stats[h].count <= total[h]
  /\ \A p \in Recorders : \A h \in rec[p].hooks : Len(rec[p].snap) <= total[h]

(* What was judged anomalous had its samples, and one more once recorded. *)
JudgedLate ==
  /\ \A p \in Recorders : rec[p].level # "none" =>
       \A h \in rec[p].hooks :
         /\ total[h] >= MinSamples
         /\ rec[p].pc \in {"read", "upsert", "report"} => total[h] > MinSamples
  /\ \A h \in anomalies : total[h] > MinSamples

BInv == Shape /\ Counted /\ JudgedLate

(* A quiet actor has its hooks to itself.  The window a quiet recorder holds *)
(* is still that of the table, and a quiet reset has left no row.            *)
Alone ==
  \A a \in Actors \ disturbed : \A b \in Actors \ {a} : HooksOf(a) \cap HooksOf(b) = {}

WindowHeld ==
  \A p \in Recorders \ disturbed : rec[p].pc = "upsert" =>
    \A h \in rec[p].hooks : execs[h] # <<>> /\ rec[p].snap = Recent(execs[h])

RowsGone ==
  Resetter \notin disturbed /\ reset.pc = "execs" =>
    \A h \in reset.hooks : stats[h] = NoStats

QInv == /\ BInv /\ reset \in [pc : {"idle", "stats", "execs"}, hooks : SUBSET Hooks]
        /\ Alone /\ WindowHeld /\ RowsGone

-----------------------------------------------------------------------------
(* The window of a sequence is a sequence, and not a longer one. *)
LEMMA RecentBound ==
  ASSUME NEW s \in Seq(Durations)
  PROVE  Recent(s) \in Seq(Durations) /\ Len(Recent(s)) <= Len(s)
<1>1. CASE Len(s) <= Window
  BY <1>1 DEF Recent
<1>2. CASE ~ (Len(s) <= Window)
  <2>1. Window \in Nat \ {0} /\ Len(s) \in Nat
    BY BaselineAssumption
  <2> DEFINE a == Len(s) - Window + 1
  <2>2. a \in 1..Len(s) + 1 /\ Len(s) - a + 1 = Window
    BY <1>2, <2>1
  <2>3. Recent(s) = SubSeq(s, a, Len(s))
    BY <1>2 DEF Recent
  <2>4. SubSeq(s, a, Len(s)) \in Seq(Durations)
        /\ Len(SubSeq(s, a, Len(s))) = Len(s) - a + 1
    BY <2>1, <2>2
  <2>5. QED
    BY <1>2, <2>1, <2>2, <2>3, <2>4
<1>3. QED
  BY <1>1, <1>2

(* A judgement other than "none" rests on a row of enough samples. *)
LEMMA AnomalyNeedsSamples ==
  ASSUME NEW s, NEW d, CheckAnomaly(s, d) # "none"
  PROVE  s # NoStats /\ ~ (s.count < MinSamples)
BY DEF CheckAnomaly, Silent

LEMMA AnomalyLevel ==
  ASSUME NEW s, NEW d
  PROVE  CheckAnomaly(s, d) \in Levels
BY DEF CheckAnomaly, Levels

LEMMA IdleRecorder ==
  Idle \in Recorder /\ Idle.level = "none" /\ Idle.hooks = {} /\ Idle.snap = <<>>
BY DEF Idle, Recorder, Levels

-----------------------------------------------------------------------------
(* One recorder moves: what has to hold of its new record. *)
LEMMA RecorderMoves ==
  ASSUME BInv, NEW p \in Recorders, NEW r \in Recorder, InOrder(r),
         rec' = [rec EXCEPT ![p] = r],
         total' = total, execs' = execs, stats' = stats,
         anomalies' \in SUBSET Hooks,
         \A h \in anomalies' : total[h] > MinSamples,
         \A h \in r.hooks : Len(r.snap) <= total[h],
         r.level # "none" =>
           \A h \in r.hooks :
             /\ total[h] >= MinSamples
             /\ r.pc \in {"read", "upsert", "report"} => total[h] > MinSamples
  PROVE  BInv'
<1>1. \A q \in Recorders : rec'[q] = IF q = p THEN r ELSE rec[q]
  BY DEF BInv, Shape
<1>2. Shape'
  BY <1>1 DEF BInv, Shape, InOrder
<1>3. Counted'
  BY <1>1 DEF BInv, Counted
<1>4. JudgedLate'
  BY <1>1 DEF BInv, JudgedLate
<1>5. QED
  BY <1>2, <1>3, <1>4 DEF BInv

LEMMA RecorderStep ==
  ASSUME BInv, NEW p \in Recorders, RecorderNext(p)
  PROVE  BInv'
<1> USE BaselineAssumption
<1>0. /\ rec[p] \in Recorder
      /\ \A h \in rec[p].hooks : h \in Hooks /\ Len(rec[p].snap) <= total[h]
      /\ total \in [Hooks -> Nat] /\ InOrder(rec[p])
  BY DEF BInv, Shape, Counted, Recorder
<1>1. ASSUME NEW h \in Hooks, NEW d \in Durations, StartRecord(p, h, d)
      PROVE  BInv'
  <2> DEFINE level == CheckAnomaly(stats[h], d)
  <2> DEFINE r == [Idle EXCEPT !.pc = "record", !.hooks = {h}, !.dur = d,
                     !.level = level, !.found = Len(execs[h])]
  <2>1. level \in Levels /\ Len(execs[h]) \in Nat
    BY AnomalyLevel DEF BInv, Shape
  <2>2. level # "none" => total[h] >= MinSamples
    BY <1>0, AnomalyNeedsSamples DEF BInv, Counted
  <2>3. rec' = [rec EXCEPT ![p] = r] /\ total' = total /\ execs' = execs
        /\ stats' = stats /\ anomalies' = anomalies
    BY <1>1 DEF StartRecord
  <2> HIDE DEF level
  <2>4. /\ r.hooks = {h} /\ r.snap = <<>> /\ r.pc = "record"
        /\ r.level = level /\ r.dur = d /\ r.job = "record"
    BY DEF Idle
  <2>10. r \in Recorder
    <3>1. {h} \in SUBSET Hooks /\ d \in Durations \cup {-1}
      OBVIOUS
    <3>2. QED
      BY <2>1, <3>1, IdleRecorder DEF Recorder
  <2> HIDE DEF r
  <2>9. InOrder(r)
    BY <2>4 DEF InOrder
  <2>5. \A g \in r.hooks : Len(r.snap) <= total[g]
    BY <1>0, <2>4
  <2>6. anomalies' \in SUBSET Hooks /\ \A g \in anomalies' : total[g] > MinSamples
    BY <2>3 DEF BInv, Shape, JudgedLate
  <2>7. r.level # "none" =>
          \A g \in r.hooks :
            /\ total[g] >= MinSamples
            /\ r.pc \in {"read", "upsert", "report"} => total[g] > MinSamples
    BY <2>2, <2>4
  <2>8. QED
    BY <2>3, <2>5, <2>6, <2>7, <2>9, <2>10, RecorderMoves
<1>2. CASE RecordExecution(p)
  <2>1. PICK h \in rec[p].hooks :
          /\ rec[p].pc = "record"
          /\ execs' = [execs EXCEPT ![h] = Append(@, rec[p].dur)]
          /\ total' = [total EXCEPT ![h] = @ + 1]
          /\ rec' = [rec EXCEPT ![p].pc = "read"]
          /\ stats' = stats /\ anomalies' = anomalies
    BY <1>2 DEF RecordExecution
  <2>2. /\ h \in Hooks /\ rec[p].dur \in Durations
        /\ \A g \in rec[p].hooks : g = h
    BY <1>0, <2>1 DEF BInv, Shape, InOrder
  <2>3. /\ total' \in [Hooks -> Nat] /\ total'[h] = total[h] + 1
        /\ \A g \in Hooks : total'[g] >= total[g]
    BY <1>0, <2>1, <2>2
  <2>4. /\ execs' \in [Hooks -> Seq(Durations)]
        /\ Len(execs'[h]) = Len(execs[h]) + 1 /\ Len(execs[h]) \in Nat
        /\ \A g \in Hooks : g # h => execs'[g] = execs[g]
    BY <2>1, <2>2 DEF BInv, Shape
  <2>5. /\ rec' \in [Recorders -> Recorder]
        /\ \A q \in Recorders : q # p => rec'[q] = rec[q]
        /\ rec'[p].hooks = rec[p].hooks /\ rec'[p].snap = rec[p].snap
        /\ rec'[p].level = rec[p].level /\ rec'[p].pc = "read"
    BY <2>1 DEF BInv, Shape, Recorder
  <2>6. Shape'
    BY <2>1, <2>3, <2>4, <2>5 DEF BInv, Shape, InOrder
  <2>7. Counted'
    <3>1. ASSUME NEW g \in Hooks
          PROVE  /\ Len(execs'[g]) <= total'[g]
                 /\ stats'[g] # NoStats => stats'[g].count \in Nat
                                          /\ stats'[g].count <= total'[g]
      BY <2>1, <2>2, <2>3, <2>4, <1>0 DEF BInv, Counted, Shape
    <3>2. ASSUME NEW q \in Recorders, NEW g \in rec'[q].hooks
          PROVE  Len(rec'[q].snap) <= total'[g]
      <4>1. /\ g \in rec[q].hooks /\ rec'[q].snap = rec[q].snap
            /\ rec[q] \in Recorder
        BY <2>5 DEF BInv, Shape
      <4>2. g \in Hooks /\ Len(rec[q].snap) \in Nat
        BY <4>1 DEF Recorder
      <4>3. Len(rec[q].snap) <= total[g]
        BY <4>1 DEF BInv, Counted
      <4>4. QED
        BY <1>0, <2>3, <4>1, <4>2, <4>3
    <3>3. QED
      BY <3>1, <3>2 DEF Counted
  <2>8. JudgedLate'
    <3>1. ASSUME NEW q \in Recorders, rec'[q].level # "none",
                 NEW g \in rec'[q].hooks
          PROVE  /\ total'[g] >= MinSamples
                 /\ rec'[q].pc \in {"read", "upsert", "report"} =>
                      total'[g] > MinSamples
      <4>1. CASE q = p
        BY <1>0, <2>1, <2>2, <2>3, <2>5, <3>1, <4>1 DEF BInv, JudgedLate
      <4>2. CASE q # p
        <5>1. g \in Hooks /\ total[g] >= MinSamples
              /\ (rec'[q].pc \in {"read", "upsert", "report"} => total[g] > MinSamples)
          BY <2>5, <3>1, <4>2 DEF BInv, JudgedLate, Shape, Recorder
        <5>2. QED
          BY <1>0, <2>3, <5>1
      <4>3. QED
        BY <4>1, <4>2
    <3>2. ASSUME NEW g \in anomalies'
          PROVE  total'[g] > MinSamples
      BY <1>0, <2>1, <2>3, <3>2 DEF BInv, JudgedLate, Shape
    <3>3. QED
      BY <3>1, <3>2 DEF JudgedLate
  <2>9. QED
    BY <2>6, <2>7, <2>8 DEF BInv
<1>3. ASSUME NEW r \in Recorder, InOrder(r), rec' = [rec EXCEPT ![p] = r],
             r.hooks = rec[p].hooks, r.level = rec[p].level,
             r.pc = rec[p].pc \/ rec[p].pc \in {"read", "upsert", "report"},
             UNCHANGED <<execs, stats, total, anomalies>>,
             \A h \in r.hooks : Len(r.snap) <= total[h]
      PROVE  BInv'
  <2>1. \A g \in anomalies' : total[g] > MinSamples
    BY <1>3 DEF BInv, JudgedLate
  <2>2. r.level # "none" =>
          \A h \in r.hooks :
            /\ total[h] >= MinSamples
            /\ r.pc \in {"read", "upsert", "report"} => total[h] > MinSamples
    BY <1>3 DEF BInv, JudgedLate
  <2>3. QED
    BY <1>3, <2>1, <2>2, RecorderMoves DEF BInv, Shape
<1>4. ASSUME rec' = [rec EXCEPT ![p] = Idle], total' = total, execs' = execs,
             stats' = stats, anomalies' \in SUBSET Hooks,
             \A g \in anomalies' : total[g] > MinSamples
      PROVE  BInv'
  BY <1>4, IdleRecorder, RecorderMoves DEF InOrder, Idle
<1>5. CASE ReadWindow(p)
  <2>1. PICK h \in rec[p].hooks :
          /\ rec[p].pc = "read"
          /\ \/ rec' = [rec EXCEPT ![p].pc = AfterRecompute(p)]
             \/ rec' = [rec EXCEPT ![p].pc = "upsert", ![p].snap = Recent(execs[h])]
          /\ UNCHANGED <<execs, stats, total, anomalies>>
    BY <1>5 DEF ReadWindow
  <2>2. h \in Hooks /\ execs[h] \in Seq(Durations) /\ (\A g \in rec[p].hooks : g = h)
    BY <1>0, <2>1 DEF BInv, Shape, InOrder
  <2>3. CASE rec' = [rec EXCEPT ![p].pc = AfterRecompute(p)]
    <3> DEFINE r == [rec[p] EXCEPT !.pc = AfterRecompute(p)]
    <3>1. /\ r \in Recorder /\ r.hooks = rec[p].hooks /\ r.level = rec[p].level
          /\ r.snap = rec[p].snap /\ r.job = rec[p].job /\ r.pc = AfterRecompute(p)
      BY <1>0 DEF Recorder, AfterRecompute
    <3>2. rec' = [rec EXCEPT ![p] = r]
      BY <2>3
    <3> HIDE DEF r
    <3>3. InOrder(r)
      BY <1>0, <2>1, <3>1 DEF InOrder, AfterRecompute, Recorder
    <3>4. QED
      BY <1>0, <1>3, <2>1, <3>1, <3>2, <3>3
  <2>4. CASE rec' = [rec EXCEPT ![p].pc = "upsert", ![p].snap = Recent(execs[h])]
    <3> DEFINE r == [rec[p] EXCEPT !.pc = "upsert", !.snap = Recent(execs[h])]
    <3>1. Recent(execs[h]) \in Seq(Durations) /\ Len(Recent(execs[h])) <= total[h]
      BY <1>0, <2>2, RecentBound DEF BInv, Counted
    <3>2. /\ r \in Recorder /\ r.hooks = rec[p].hooks /\ r.pc = "upsert"
          /\ r.level = rec[p].level /\ r.snap = Recent(execs[h])
          /\ r.job = rec[p].job
      BY <1>0, <3>1 DEF Recorder
    <3>3. rec' = [rec EXCEPT ![p] = r]
      BY <2>4
    <3>4. \A g \in r.hooks : Len(r.snap) <= total[g]
      BY <2>2, <3>1, <3>2
    <3> HIDE DEF r
    <3>5. InOrder(r)
      BY <1>0, <3>2 DEF InOrder
    <3>6. QED
      BY <1>3, <2>1, <3>2, <3>3, <3>4, <3>5
  <2>5. QED
    BY <2>1, <2>3, <2>4
<1>6. CASE UpsertStats(p)
  <2>1. PICK h \in rec[p].hooks :
          /\ rec[p].pc = "upsert"
          /\ stats' = [stats EXCEPT ![h] = NewRow(rec[p].snap)]
          /\ rec' = [rec EXCEPT ![p].pc = AfterRecompute(p), ![p].snap = <<>>]
          /\ UNCHANGED <<execs, total, anomalies>>
    BY <1>6 DEF UpsertStats
  <2>2. h \in Hooks /\ (\A g \in rec[p].hooks : g = h)
        /\ rec[p].snap \in Seq(Durations) /\ Len(rec[p].snap) <= total[h]
    BY <1>0, <2>1 DEF BInv, Shape, InOrder, Recorder
  <2> DEFINE r == [rec[p] EXCEPT !.pc = AfterRecompute(p), !.snap = <<>>]
  <2>31. <<>> \in Seq(Durations)
    OBVIOUS
  <2>32. /\ r \in Recorder
         /\ r.hooks = rec[p].hooks /\ r.snap = <<>> /\ r.job = rec[p].job
         /\ r.level = rec[p].level /\ r.pc = AfterRecompute(p)
    BY <1>0, <2>31 DEF Recorder, AfterRecompute
  <2>33. rec' = [rec EXCEPT ![p] = r]
    BY <2>1
  <2> HIDE DEF r
  <2>3. /\ rec' \in [Recorders -> Recorder]
        /\ \A q \in Recorders : q # p => rec'[q] = rec[q]
        /\ rec'[p].hooks = rec[p].hooks /\ rec'[p].snap = <<>>
        /\ rec'[p].level = rec[p].level /\ rec'[p].pc \in {"report", "next"}
    BY <2>32, <2>33, <2>2 DEF BInv, Shape, AfterRecompute
  <2>34. InOrder(r)
    BY <1>0, <2>32 DEF InOrder, AfterRecompute, Recorder
  <2>4. /\ stats' = [g \in Hooks |-> stats'[g]]
        /\ stats'[h].count = Len(rec[p].snap)
        /\ \A g \in Hooks : g # h => stats'[g] = stats[g]
    BY <2>1, <2>2 DEF BInv, Shape, NewRow, Summary
  <2>5. Shape'
    BY <2>1, <2>3, <2>33, <2>34, <2>4 DEF BInv, Shape
  <2>6. Counted'
    BY <1>0, <2>1, <2>2, <2>3, <2>4 DEF BInv, Counted, Shape
  <2>7. JudgedLate'
    BY <2>1, <2>3 DEF BInv, JudgedLate
  <2>8. QED
    BY <2>5, <2>6, <2>7 DEF BInv
<1>7. CASE Report(p)
  <2>1. PICK h \in rec[p].hooks :
          /\ rec[p].pc = "report"
          /\ anomalies' = anomalies
             \/ (rec[p].level # "none" /\ anomalies' = anomalies \cup {h})
          /\ rec' = [rec EXCEPT ![p] = Idle]
          /\ UNCHANGED <<execs, stats, total>>
    BY <1>7 DEF Report
  <2>2. anomalies' \in SUBSET Hooks /\ \A g \in anomalies' : total[g] > MinSamples
    BY <1>0, <2>1 DEF BInv, Shape, JudgedLate
  <2>3. QED
    BY <1>4, <2>1, <2>2
<1>8. CASE StatementFails(p)
  <2>1. UNCHANGED <<execs, stats, total, anomalies>>
        /\ rec[p].pc \in {"record", "read", "upsert"}
    BY <1>8 DEF StatementFails
  <2>2. CASE rec' = [rec EXCEPT ![p] = Idle]
    BY <1>4, <2>1, <2>2 DEF BInv, Shape, JudgedLate
  <2>3. CASE /\ rec[p].pc # "record"
             /\ rec' = [rec EXCEPT ![p].pc = "report", ![p].snap = <<>>]
    <3> DEFINE r == [rec[p] EXCEPT !.pc = "report", !.snap = <<>>]
    <3>0. <<>> \in Seq(Durations)
      OBVIOUS
    <3>1. /\ r \in Recorder /\ r.hooks = rec[p].hooks /\ r.pc = "report"
          /\ r.level = rec[p].level /\ r.snap = <<>> /\ r.job = rec[p].job
      BY <1>0, <3>0 DEF Recorder
    <3>2. rec' = [rec EXCEPT ![p] = r]
      BY <2>3
    <3> HIDE DEF r
    <3>4. InOrder(r)
      BY <3>1 DEF BInv, Shape, InOrder
    <3>3. \A h \in r.hooks : Len(r.snap) <= total[h]
      BY <1>0, <3>1
    <3>5. QED
      BY <1>3, <2>1, <2>3, <3>1, <3>2, <3>3, <3>4
  <2>4. QED
    BY <1>8, <2>2, <2>3 DEF StatementFails
<1>9. CASE Killed(p)
  BY <1>4, <1>9 DEF Killed, BInv, Shape, JudgedLate
<1>10. QED
  BY <1>1, <1>2, <1>5, <1>6, <1>7, <1>8, <1>9 DEF RecorderNext

LEMMA BInvStep ==
  ASSUME QInv, [Next]_vars
  PROVE  BInv'
<1> USE BaselineAssumption
<1>0. BInv
  BY DEF QInv
<1>1. CASE StartRefresh
  <2> DEFINE H == {h \in Hooks : execs[h] # <<>>}
             r == [Idle EXCEPT !.pc = "next", !.job = "refresh", !.todo = H]
  <2>1. /\ r.hooks = {} /\ r.level = "none" /\ r.snap = <<>>
        /\ r.pc = "next" /\ r.job = "refresh"
    BY DEF Idle
  <2>2. Daemon \in Recorders /\ rec' = [rec EXCEPT ![Daemon] = r]
        /\ UNCHANGED <<execs, stats, total, anomalies>>
    BY <1>1 DEF StartRefresh, Recorders
  <2>3. H \in SUBSET Hooks
    OBVIOUS
  <2> HIDE DEF H
  <2>4. r \in Recorder
    BY <2>3, IdleRecorder DEF Recorder
  <2> HIDE DEF r
  <2>5. InOrder(r) /\ r.hooks = {} /\ r.level = "none"
    BY <2>1 DEF InOrder
  <2>6. QED
    BY <1>0, <2>2, <2>4, <2>5, RecorderMoves DEF BInv, Shape, JudgedLate
<1>2. CASE RefreshNext
  <2>1. /\ Daemon \in Recorders /\ rec[Daemon] \in Recorder
        /\ UNCHANGED <<execs, stats, total, anomalies>>
        /\ rec[Daemon].pc = "next" /\ InOrder(rec[Daemon])
    BY <1>0, <1>2 DEF RefreshNext, Recorders, BInv, Shape
  <2>2. anomalies' \in SUBSET Hooks /\ \A g \in anomalies' : total[g] > MinSamples
    BY <1>0, <2>1 DEF BInv, Shape, JudgedLate
  <2>3. CASE rec' = [rec EXCEPT ![Daemon] = Idle]
    BY <1>0, <2>1, <2>2, <2>3, IdleRecorder, RecorderMoves DEF InOrder, Idle
  <2>4. ASSUME NEW h \in rec[Daemon].todo,
               rec' = [rec EXCEPT ![Daemon].pc = "read", ![Daemon].hooks = {h},
                                  ![Daemon].todo = @ \ {h}]
        PROVE  BInv'
    <3> DEFINE r == [rec[Daemon] EXCEPT !.pc = "read", !.hooks = {h},
                                        !.todo = @ \ {h}]
    <3>1. rec' = [rec EXCEPT ![Daemon] = r]
      BY <2>4
    <3>2. {h} \in SUBSET Hooks /\ rec[Daemon].todo \ {h} \in SUBSET Hooks
      BY <2>1 DEF Recorder
    <3>3. /\ r \in Recorder /\ r.hooks = {h} /\ r.pc = "read"
          /\ r.snap = rec[Daemon].snap /\ r.level = rec[Daemon].level
          /\ r.job = rec[Daemon].job
      BY <2>1, <3>2 DEF Recorder
    <3> HIDE DEF r
    <3>4. InOrder(r) /\ r.level = "none" /\ r.snap = <<>>
      BY <2>1, <3>3 DEF InOrder
    <3>5. \A g \in r.hooks : Len(r.snap) <= total[g]
      BY <1>0, <3>2, <3>3, <3>4 DEF BInv, Shape
    <3>6. QED
      BY <1>0, <2>1, <2>2, <3>1, <3>3, <3>4, <3>5, RecorderMoves
  <2>5. QED
    BY <1>2, <2>3, <2>4 DEF RefreshNext
<1>3. CASE UNCHANGED <<execs, stats, rec, total, anomalies>>
  BY <1>0, <1>3 DEF BInv, Shape, Counted, JudgedLate, InOrder
<1>4. CASE DeleteStats
  <2>1. /\ \A h \in Hooks : stats'[h] = NoStats \/ stats'[h] = stats[h]
        /\ stats' = [h \in Hooks |-> stats'[h]]
        /\ UNCHANGED <<execs, rec, total, anomalies>>
    BY <1>4 DEF DeleteStats
  <2>2. Shape' /\ JudgedLate'
    BY <1>0, <2>1 DEF BInv, Shape, JudgedLate, InOrder
  <2>3. Counted'
    BY <1>0, <2>1 DEF BInv, Counted
  <2>4. QED
    BY <1>0, <2>2, <2>3 DEF BInv
<1>5. CASE DeleteExecutions
  <2>1. /\ execs' = [h \in Hooks |-> IF h \in reset.hooks THEN <<>> ELSE execs[h]]
        /\ total' = [h \in Hooks |-> IF h \in Anew THEN 0 ELSE total[h]]
        /\ anomalies' = anomalies \ Anew
        /\ reset.pc = "execs" /\ Anew \subseteq reset.hooks
        /\ UNCHANGED <<stats, rec>>
    BY <1>5 DEF DeleteExecutions, Anew
  <2>2. \A h \in Hooks : execs'[h] = <<>> \/ (execs'[h] = execs[h] /\ h \notin Anew)
    BY <2>1
  <2>3. execs' \in [Hooks -> Seq(Durations)] /\ total' \in [Hooks -> Nat]
        /\ anomalies' \in SUBSET Hooks
    BY <1>0, <2>1 DEF BInv, Shape
  <2>4. Shape'
    BY <1>0, <2>1, <2>3 DEF BInv, Shape, InOrder
  <2>5. ASSUME NEW h \in Anew
        PROVE  /\ stats[h] = NoStats
               /\ \A p \in Recorders : h \notin rec[p].hooks
    <3>1. Resetter \notin disturbed /\ h \in reset.hooks
      BY <2>5 DEF Anew
    <3>2. ASSUME NEW p \in Recorders PROVE h \notin rec[p].hooks
      <4>1. HooksOf(Resetter) \cap HooksOf(p) = {}
        BY <3>1 DEF QInv, Alone, Actors
      <4>2. rec[p].hooks \subseteq HooksOf(p) /\ HooksOf(Resetter) = reset.hooks
        BY DEF HooksOf
      <4>3. QED
        BY <3>1, <4>1, <4>2
    <3>3. QED
      BY <2>1, <3>1, <3>2 DEF QInv, RowsGone
  <2>6. \A h \in Hooks : h \notin Anew => total'[h] = total[h]
    BY <2>1
  <2>7. ASSUME NEW p \in Recorders, NEW h \in rec[p].hooks
        PROVE  h \in Hooks /\ total'[h] = total[h]
    BY <1>0, <2>5, <2>6 DEF BInv, Shape, Recorder
  <2>8. Counted'
    <3>1. ASSUME NEW h \in Hooks
          PROVE  /\ Len(execs'[h]) <= total'[h]
                 /\ stats'[h] # NoStats => stats'[h].count \in Nat
                                           /\ stats'[h].count <= total'[h]
      <4>1. CASE h \in Anew
        BY <2>1, <2>2, <2>3, <2>5, <4>1
      <4>2. CASE h \notin Anew
        BY <1>0, <2>1, <2>2, <2>3, <2>6, <4>2 DEF BInv, Counted
      <4>3. QED
        BY <4>1, <4>2
    <3>2. \A p \in Recorders : \A h \in rec[p].hooks : Len(rec[p].snap) <= total'[h]
      BY <1>0, <2>7 DEF BInv, Counted
    <3>3. QED
      BY <2>1, <3>1, <3>2 DEF Counted
  <2>9. JudgedLate'
    BY <1>0, <2>1, <2>3, <2>6, <2>7 DEF BInv, JudgedLate
  <2>10. QED
    BY <2>4, <2>8, <2>9 DEF BInv
<1>6. QED
  BY <1>0, <1>1, <1>2, <1>3, <1>4, <1>5, RecorderStep
     DEF Next, vars, CooldownPasses, StartReset, ResetFails

LEMMA BInvBegins ==
  ASSUME Init
  PROVE  BInv
<1> USE DEF Init
<1>1. rec \in [Recorders -> Recorder] /\ total \in [Hooks -> Nat]
      /\ execs \in [Hooks -> Seq(Durations)]
  BY IdleRecorder
<1>2. \A p \in Recorders : rec[p] = Idle
  OBVIOUS
<1>3. Shape
  BY <1>1, <1>2 DEF Shape, InOrder, Idle
<1>4. \A h \in Hooks : execs[h] = <<>> /\ total[h] = 0 /\ stats[h] = NoStats
  OBVIOUS
<1>5. Counted
  BY <1>2, <1>4, IdleRecorder DEF Counted
<1>6. JudgedLate
  BY <1>2, IdleRecorder DEF JudgedLate
<1>7. QED
  BY <1>3, <1>5, <1>6 DEF BInv

-----------------------------------------------------------------------------
LEMMA Began ==
  ASSUME Alone, NEW a \in Actors, NEW H, Begin(a, H), HooksOf(a)' = H,
         \A b \in Actors \ {a} : HooksOf(b)' = HooksOf(b)
  PROVE  Alone'
<1> SUFFICES ASSUME NEW c \in Actors \ disturbed', NEW b \in Actors \ {c}
             PROVE  HooksOf(c)' \cap HooksOf(b)' = {}
  BY DEF Alone
<1>1. CASE c = a
  <2>1. Overlaps(a, H) = {}
    BY <1>1 DEF Begin
  <2>2. HooksOf(b) \cap H = {}
    BY <1>1, <2>1 DEF Overlaps
  <2>3. QED
    BY <1>1, <2>2
<1>2. CASE c # a /\ b = a
  <2>1. c \notin Overlaps(a, H)
    BY <1>2 DEF Begin
  <2>2. HooksOf(c) \cap H = {}
    BY <1>2, <2>1 DEF Overlaps
  <2>3. QED
    BY <1>2, <2>2
<1>3. CASE c # a /\ b # a
  <2>1. c \notin disturbed
    BY <1>3 DEF Begin
  <2>2. QED
    BY <1>3, <2>1 DEF Alone
<1>4. QED
  BY <1>1, <1>2, <1>3

LEMMA Shrinks ==
  ASSUME Alone, \A b \in Actors : HooksOf(b)' \subseteq HooksOf(b),
         disturbed \subseteq disturbed'
  PROVE  Alone'
BY DEF Alone

(* What a step does to the hooks of one recorder. *)
LEMMA OthersHooks ==
  ASSUME NEW p \in Recorders, NEW r, rec \in [Recorders -> Recorder],
         rec' = [rec EXCEPT ![p] = r]
  PROVE  /\ \A q \in Recorders \ {p} : rec'[q] = rec[q]
         /\ rec'[p] = r
         /\ HooksOf(p)' = r.hooks \cup r.todo
         /\ \A q \in Recorders \ {p} : HooksOf(q)' = HooksOf(q)
<1>1. Resetter \notin Recorders
  BY BaselineAssumption
<1>2. /\ \A q \in Recorders \ {p} : rec'[q] = rec[q]
      /\ rec'[p] = r
  OBVIOUS
<1>3. \A q \in Recorders : /\ HooksOf(q) = rec[q].hooks \cup rec[q].todo
                           /\ HooksOf(q)' = rec'[q].hooks \cup rec'[q].todo
  BY <1>1 DEF HooksOf
<1>4. QED
  BY <1>2, <1>3

(* A recorder starts on a hook, or on all. *)
LEMMA RecorderBegins ==
  ASSUME QInv, NEW p \in Recorders, NEW r, NEW H, r.hooks \cup r.todo = H,
         r.pc # "upsert", rec' = [rec EXCEPT ![p] = r], Begin(p, H),
         UNCHANGED <<execs, stats, reset>>
  PROVE  Alone' /\ WindowHeld' /\ RowsGone'
<1>0. p \in Actors /\ Resetter \notin Recorders /\ Actors = Recorders \cup {Resetter}
  BY BaselineAssumption DEF Actors
<1>1. /\ \A q \in Recorders \ {p} : rec'[q] = rec[q]
      /\ rec'[p] = r
      /\ HooksOf(p)' = H
      /\ \A q \in Recorders \ {p} : HooksOf(q)' = HooksOf(q)
  BY OthersHooks DEF QInv, BInv, Shape
<1>2. HooksOf(Resetter)' = HooksOf(Resetter)
  BY DEF HooksOf
<1>3. Alone'
  <2>1. \A b \in Actors \ {p} : HooksOf(b)' = HooksOf(b)
    BY <1>0, <1>1, <1>2
  <2>2. QED
    BY <1>0, <1>1, <2>1, Began DEF QInv
<1>4. \A b \in Actors \ {p} : b \notin disturbed' => b \notin disturbed
  BY DEF Begin
<1>5. WindowHeld'
  <2> SUFFICES ASSUME NEW q \in Recorders \ disturbed', rec'[q].pc = "upsert",
                      NEW h \in rec'[q].hooks
               PROVE  execs'[h] # <<>> /\ rec'[q].snap = Recent(execs'[h])
    BY DEF WindowHeld, Recent
  <2>1. q # p /\ rec'[q] = rec[q] /\ q \notin disturbed
    BY <1>0, <1>1, <1>4
  <2>2. QED
    BY <2>1 DEF QInv, WindowHeld
<1>6. RowsGone'
  BY <1>0, <1>4 DEF QInv, RowsGone
<1>7. QED
  BY <1>3, <1>5, <1>6

(* A recorder takes a step that changes neither table. *)
LEMMA RecorderReads ==
  ASSUME QInv, NEW p \in Recorders, NEW r,
         r.hooks \cup r.todo \subseteq rec[p].hooks \cup rec[p].todo,
         r.pc = "upsert" => \A h \in r.hooks : execs[h] # <<>> /\ r.snap = Recent(execs[h]),
         rec' = [rec EXCEPT ![p] = r], disturbed \subseteq disturbed',
         UNCHANGED <<execs, stats, reset>>
  PROVE  Alone' /\ WindowHeld' /\ RowsGone'
<1>0. p \in Actors /\ Resetter \notin Recorders /\ Actors = Recorders \cup {Resetter}
  BY BaselineAssumption DEF Actors
<1>1. /\ \A q \in Recorders \ {p} : rec'[q] = rec[q]
      /\ rec'[p] = r
      /\ HooksOf(p)' = r.hooks \cup r.todo
      /\ \A q \in Recorders \ {p} : HooksOf(q)' = HooksOf(q)
  BY OthersHooks DEF QInv, BInv, Shape
<1>2. HooksOf(Resetter)' = HooksOf(Resetter) /\ HooksOf(p) = rec[p].hooks \cup rec[p].todo
  BY <1>0 DEF HooksOf
<1>3. Alone'
  BY <1>0, <1>1, <1>2, Shrinks DEF QInv
<1>5. WindowHeld'
  <2> SUFFICES ASSUME NEW q \in Recorders \ disturbed', rec'[q].pc = "upsert",
                      NEW h \in rec'[q].hooks
               PROVE  execs'[h] # <<>> /\ rec'[q].snap = Recent(execs'[h])
    BY DEF WindowHeld, Recent
  <2>1. CASE q = p
    BY <1>1, <2>1
  <2>2. CASE q # p
    BY <1>1, <2>2 DEF QInv, WindowHeld
  <2>3. QED
    BY <2>1, <2>2
<1>6. RowsGone'
  BY DEF QInv, RowsGone
<1>7. QED
  BY <1>3, <1>5, <1>6

(* A recorder changes a table on a hook of its own, and on no quiet other's. *)
LEMMA RecorderWrites ==
  ASSUME QInv, NEW p \in Recorders, NEW r, NEW h \in rec[p].hooks,
         r.hooks = rec[p].hooks, r.todo = rec[p].todo, r.pc # "upsert",
         rec' = [rec EXCEPT ![p] = r], disturbed' = disturbed, reset' = reset,
         \A g \in Hooks \ {h} : execs'[g] = execs[g] /\ stats'[g] = stats[g]
  PROVE  Alone' /\ WindowHeld' /\ RowsGone'
<1>0. p \in Actors /\ Resetter \notin Recorders /\ Actors = Recorders \cup {Resetter}
  BY BaselineAssumption DEF Actors
<1>1. /\ \A q \in Recorders \ {p} : rec'[q] = rec[q]
      /\ rec'[p] = r
      /\ HooksOf(p)' = r.hooks \cup r.todo
      /\ \A q \in Recorders \ {p} : HooksOf(q)' = HooksOf(q)
  BY OthersHooks DEF QInv, BInv, Shape
<1>2. /\ HooksOf(Resetter)' = HooksOf(Resetter) /\ HooksOf(Resetter) = reset.hooks
      /\ \A q \in Recorders : HooksOf(q) = rec[q].hooks \cup rec[q].todo
  BY <1>0 DEF HooksOf
<1>3. Alone'
  BY <1>0, <1>1, <1>2, Shrinks DEF QInv
<1>4. \A b \in Actors \ {p} : b \notin disturbed => h \notin HooksOf(b)
  BY <1>0, <1>2 DEF QInv, Alone
<1>5. WindowHeld'
  <2> SUFFICES ASSUME NEW q \in Recorders \ disturbed, rec'[q].pc = "upsert",
                      NEW g \in rec'[q].hooks
               PROVE  execs'[g] # <<>> /\ rec'[q].snap = Recent(execs'[g])
    BY DEF WindowHeld, Recent
  <2>1. q # p /\ rec'[q] = rec[q] /\ rec[q] \in Recorder
    BY <1>1 DEF QInv, BInv, Shape
  <2>2. g \in Hooks /\ g # h
    BY <1>0, <1>2, <1>4, <2>1 DEF Recorder
  <2>3. execs'[g] = execs[g]
    BY <2>2
  <2>4. QED
    BY <2>1, <2>3 DEF QInv, WindowHeld
<1>6. RowsGone'
  <2> SUFFICES ASSUME Resetter \notin disturbed, reset.pc = "execs", NEW g \in reset.hooks
               PROVE  stats'[g] = NoStats
    BY DEF RowsGone
  <2>1. g \in Hooks /\ g # h
    BY <1>0, <1>2, <1>4 DEF QInv
  <2>2. QED
    BY <2>1 DEF QInv, RowsGone
<1>7. QED
  BY <1>3, <1>5, <1>6

LEMMA QuietRecorder ==
  ASSUME QInv, NEW p \in Recorders, RecorderNext(p)
  PROVE  Alone' /\ WindowHeld' /\ RowsGone'
<1> USE BaselineAssumption
<1>0. /\ rec \in [Recorders -> Recorder] /\ rec[p] \in Recorder
      /\ \A g, h \in rec[p].hooks : g = h
      /\ execs = [h \in Hooks |-> execs[h]] /\ stats = [h \in Hooks |-> stats[h]]
      /\ rec[p].hooks \subseteq Hooks
  BY DEF QInv, BInv, Shape, InOrder, Recorder
<1>1. /\ Idle.hooks = {} /\ Idle.todo = {} /\ Idle.pc = "idle"
  BY DEF Idle
<1>2. ASSUME NEW h \in Hooks, NEW d \in Durations, StartRecord(p, h, d)
      PROVE  Alone' /\ WindowHeld' /\ RowsGone'
  <2> DEFINE r == [Idle EXCEPT !.pc = "record", !.hooks = {h}, !.dur = d,
                     !.level = CheckAnomaly(stats[h], d), !.found = Len(execs[h])]
  <2>1. r.hooks \cup r.todo = {h} /\ r.pc # "upsert"
    BY DEF Idle
  <2>2. /\ rec' = [rec EXCEPT ![p] = r] /\ Begin(p, {h})
        /\ UNCHANGED <<execs, stats, reset>>
    BY <1>2 DEF StartRecord
  <2> HIDE DEF r
  <2>3. QED
    BY <2>1, <2>2, RecorderBegins
<1>3. CASE RecordExecution(p)
  <2>1. PICK h \in rec[p].hooks :
          /\ execs' = [execs EXCEPT ![h] = Append(@, rec[p].dur)]
          /\ rec' = [rec EXCEPT ![p].pc = "read"]
          /\ UNCHANGED <<stats, reset, disturbed>>
    BY <1>3 DEF RecordExecution
  <2> DEFINE r == [rec[p] EXCEPT !.pc = "read"]
  <2>2. /\ r.hooks = rec[p].hooks /\ r.todo = rec[p].todo /\ r.pc # "upsert"
        /\ rec' = [rec EXCEPT ![p] = r]
    BY <1>0, <2>1 DEF Recorder
  <2> HIDE DEF r
  <2>3. \A g \in Hooks \ {h} : execs'[g] = execs[g] /\ stats'[g] = stats[g]
    BY <1>0, <2>1
  <2>4. disturbed' = disturbed /\ reset' = reset
    BY <2>1
  <2>5. QED
    BY <2>2, <2>3, <2>4, RecorderWrites
<1>4. CASE ReadWindow(p)
  <2>1. PICK h \in rec[p].hooks :
          /\ IF execs[h] = <<>>
               THEN rec' = [rec EXCEPT ![p].pc = AfterRecompute(p)]
               ELSE rec' = [rec EXCEPT ![p].pc = "upsert", ![p].snap = Recent(execs[h])]
          /\ UNCHANGED <<execs, stats, reset, disturbed>>
    BY <1>4 DEF ReadWindow
  <2>2. CASE execs[h] = <<>>
    <3> DEFINE r == [rec[p] EXCEPT !.pc = AfterRecompute(p)]
    <3>1. /\ r.hooks = rec[p].hooks /\ r.todo = rec[p].todo /\ r.pc # "upsert"
          /\ rec' = [rec EXCEPT ![p] = r]
      BY <1>0, <2>1, <2>2 DEF Recorder, AfterRecompute
    <3> HIDE DEF r
    <3>2. QED
      BY <2>1, <3>1, RecorderReads
  <2>3. CASE execs[h] # <<>>
    <3> DEFINE r == [rec[p] EXCEPT !.pc = "upsert", !.snap = Recent(execs[h])]
    <3>1. /\ r.hooks = rec[p].hooks /\ r.todo = rec[p].todo
          /\ r.snap = Recent(execs[h]) /\ rec' = [rec EXCEPT ![p] = r]
      BY <1>0, <2>1, <2>3 DEF Recorder
    <3> HIDE DEF r
    <3>2. \A g \in r.hooks : execs[g] # <<>> /\ r.snap = Recent(execs[g])
      BY <1>0, <2>3, <3>1
    <3>3. QED
      BY <2>1, <3>1, <3>2, RecorderReads
  <2>4. QED
    BY <2>2, <2>3
<1>5. CASE UpsertStats(p)
  <2>1. PICK h \in rec[p].hooks :
          /\ stats' = [stats EXCEPT ![h] = NewRow(rec[p].snap)]
          /\ rec' = [rec EXCEPT ![p].pc = AfterRecompute(p), ![p].snap = <<>>]
          /\ UNCHANGED <<execs, reset, disturbed>>
    BY <1>5 DEF UpsertStats
  <2> DEFINE r == [rec[p] EXCEPT !.pc = AfterRecompute(p), !.snap = <<>>]
  <2>2. /\ r.hooks = rec[p].hooks /\ r.todo = rec[p].todo /\ r.pc # "upsert"
        /\ rec' = [rec EXCEPT ![p] = r]
    BY <1>0, <2>1 DEF Recorder, AfterRecompute
  <2> HIDE DEF r
  <2>3. \A g \in Hooks \ {h} : execs'[g] = execs[g] /\ stats'[g] = stats[g]
    BY <1>0, <2>1
  <2>4. disturbed' = disturbed /\ reset' = reset
    BY <2>1
  <2>5. QED
    BY <2>2, <2>3, <2>4, RecorderWrites
<1>6. ASSUME rec' = [rec EXCEPT ![p] = Idle], disturbed \subseteq disturbed',
             UNCHANGED <<execs, stats, reset>>
      PROVE  Alone' /\ WindowHeld' /\ RowsGone'
  BY <1>1, <1>6, RecorderReads
<1>7. CASE Report(p) \/ Killed(p)
  BY <1>6, <1>7 DEF Report, Killed, Fails
<1>8. CASE StatementFails(p)
  <2>1. disturbed \subseteq disturbed' /\ UNCHANGED <<execs, stats, reset>>
    BY <1>8 DEF StatementFails, Fails
  <2>2. CASE rec' = [rec EXCEPT ![p] = Idle]
    BY <1>6, <2>1, <2>2
  <2>3. CASE rec' = [rec EXCEPT ![p].pc = "report", ![p].snap = <<>>]
    <3> DEFINE r == [rec[p] EXCEPT !.pc = "report", !.snap = <<>>]
    <3>1. /\ r.hooks = rec[p].hooks /\ r.todo = rec[p].todo /\ r.pc # "upsert"
          /\ rec' = [rec EXCEPT ![p] = r]
      BY <1>0, <2>3 DEF Recorder
    <3> HIDE DEF r
    <3>2. QED
      BY <2>1, <3>1, RecorderReads
  <2>4. QED
    BY <1>8, <2>2, <2>3 DEF StatementFails
<1>9. QED
  BY <1>2, <1>3, <1>4, <1>5, <1>7, <1>8 DEF RecorderNext

LEMMA QInvStep ==
  ASSUME QInv, [Next]_vars
  PROVE  QInv'
<1> USE BaselineAssumption
<1>0. /\ Actors = Recorders \cup {Resetter} /\ Resetter \notin Recorders
      /\ Daemon \in Recorders /\ rec \in [Recorders -> Recorder]
      /\ \A q \in Recorders : /\ HooksOf(q) = rec[q].hooks \cup rec[q].todo
                              /\ HooksOf(q)' = rec'[q].hooks \cup rec'[q].todo
      /\ HooksOf(Resetter) = reset.hooks /\ HooksOf(Resetter)' = reset'.hooks
  BY DEF Actors, Recorders, HooksOf, QInv, BInv, Shape
<1>1. BInv'
  BY BInvStep
<1> DEFINE ResetType == [pc : {"idle", "stats", "execs"}, hooks : SUBSET Hooks]
<1>2. reset \in ResetType
  BY DEF QInv
<1> DEFINE Rest == reset' \in ResetType /\ Alone' /\ WindowHeld' /\ RowsGone'
<1>3. ASSUME UNCHANGED <<execs, stats, rec, reset, disturbed>> PROVE Rest
  <2>1. /\ execs' = execs /\ stats' = stats /\ rec' = rec /\ reset' = reset
        /\ disturbed' = disturbed
    BY <1>3
  <2>2. Alone'
    BY <1>0, <2>1, Shrinks DEF QInv
  <2>3. WindowHeld' /\ RowsGone'
    BY <2>1 DEF QInv, WindowHeld, RowsGone, Recent
  <2>4. QED
    BY <1>2, <2>1, <2>2, <2>3
<1>4. ASSUME NEW p \in Recorders, RecorderNext(p) PROVE Rest
  <2>1. reset' = reset
    BY <1>4 DEF RecorderNext, StartRecord, RecordExecution, ReadWindow, UpsertStats,
                Report, StatementFails, Killed
  <2>2. QED
    BY <1>2, <1>4, <2>1, QuietRecorder
<1>5. ASSUME StartRefresh PROVE Rest
  <2> DEFINE H == {h \in Hooks : execs[h] # <<>>}
             r == [Idle EXCEPT !.pc = "next", !.job = "refresh", !.todo = H]
  <2>1. r.hooks \cup r.todo = H /\ r.pc # "upsert"
    BY DEF Idle
  <2>2. /\ rec' = [rec EXCEPT ![Daemon] = r] /\ Begin(Daemon, H)
        /\ UNCHANGED <<execs, stats, reset>>
    BY <1>5 DEF StartRefresh
  <2> HIDE DEF H, r
  <2>3. QED
    BY <1>0, <1>2, <2>1, <2>2, RecorderBegins
<1>6. ASSUME RefreshNext PROVE Rest
  <2>1. UNCHANGED <<execs, stats, reset, disturbed>>
    BY <1>6 DEF RefreshNext
  <2>2. ASSUME rec' = [rec EXCEPT ![Daemon] = Idle] PROVE Rest
    <3>1. Idle.hooks = {} /\ Idle.todo = {} /\ Idle.pc = "idle"
      BY DEF Idle
    <3>2. QED
      BY <1>0, <1>2, <2>1, <2>2, <3>1, RecorderReads
  <2>3. ASSUME NEW h \in rec[Daemon].todo,
               rec' = [rec EXCEPT ![Daemon].pc = "read", ![Daemon].hooks = {h},
                                  ![Daemon].todo = @ \ {h}]
        PROVE  Rest
    <3> DEFINE r == [rec[Daemon] EXCEPT !.pc = "read", !.hooks = {h}, !.todo = @ \ {h}]
    <3>1. rec' = [rec EXCEPT ![Daemon] = r]
      BY <2>3
    <3>2. rec[Daemon] \in Recorder
      BY <1>0
    <3>3. r.hooks = {h} /\ r.todo = rec[Daemon].todo \ {h} /\ r.pc # "upsert"
      BY <3>2 DEF Recorder
    <3> HIDE DEF r
    <3>4. QED
      BY <1>0, <1>2, <2>1, <3>1, <3>3, RecorderReads
  <2>4. QED
    BY <1>6, <2>2, <2>3 DEF RefreshNext
<1>7. ASSUME NEW H \in SUBSET Hooks, StartReset(H) PROVE Rest
  <2>1. /\ reset' = [pc |-> "stats", hooks |-> H] /\ Begin(Resetter, H)
        /\ UNCHANGED <<execs, stats, rec>>
    BY <1>7 DEF StartReset
  <2>2. \A b \in Actors \ {Resetter} : HooksOf(b)' = HooksOf(b)
    BY <1>0, <2>1
  <2>3. Alone'
    BY <1>0, <2>1, <2>2, Began DEF QInv
  <2>4. \A q \in Recorders : q \notin disturbed' => q \notin disturbed
    BY <1>0, <2>1 DEF Begin
  <2>5. WindowHeld'
    BY <2>1, <2>4 DEF QInv, WindowHeld, Recent
  <2>6. RowsGone' /\ reset' \in ResetType
    BY <2>1 DEF RowsGone
  <2>7. QED
    BY <2>3, <2>5, <2>6
<1>8. ASSUME DeleteStats PROVE Rest
  <2>1. /\ stats' = [h \in Hooks |-> IF h \in reset.hooks THEN NoStats ELSE stats[h]]
        /\ reset' = [reset EXCEPT !.pc = "execs"]
        /\ UNCHANGED <<execs, rec, disturbed>>
    BY <1>8 DEF DeleteStats
  <2>2. reset' \in ResetType /\ reset'.hooks = reset.hooks
    BY <1>2, <2>1
  <2>3. Alone'
    BY <1>0, <2>1, <2>2, Shrinks DEF QInv
  <2>4. WindowHeld'
    BY <2>1 DEF QInv, WindowHeld, Recent
  <2>5. RowsGone'
    BY <1>2, <2>1, <2>2 DEF RowsGone
  <2>6. QED
    BY <2>2, <2>3, <2>4, <2>5
<1>9. ASSUME DeleteExecutions PROVE Rest
  <2>1. /\ execs' = [h \in Hooks |-> IF h \in reset.hooks THEN <<>> ELSE execs[h]]
        /\ reset.pc = "execs" /\ reset' = [pc |-> "idle", hooks |-> {}]
        /\ UNCHANGED <<stats, rec, disturbed>>
    BY <1>9 DEF DeleteExecutions
  <2>2. Alone'
    BY <1>0, <2>1, Shrinks DEF QInv
  <2>3. WindowHeld'
    <3> SUFFICES ASSUME NEW q \in Recorders \ disturbed, rec[q].pc = "upsert",
                        NEW h \in rec[q].hooks
                 PROVE  execs'[h] = execs[h]
      BY <2>1 DEF QInv, WindowHeld, Recent
    <3>1. h \in Hooks
      BY <1>0 DEF Recorder
    <3>2. h \notin reset.hooks
      BY <1>0 DEF QInv, Alone
    <3>3. QED
      BY <2>1, <3>1, <3>2
  <2>4. RowsGone' /\ reset' \in ResetType
    BY <2>1 DEF RowsGone
  <2>5. QED
    BY <2>2, <2>3, <2>4
<1>10. ASSUME ResetFails PROVE Rest
  <2>1. /\ reset' = [pc |-> "idle", hooks |-> {}] /\ disturbed \subseteq disturbed'
        /\ UNCHANGED <<execs, stats, rec>>
    BY <1>10 DEF ResetFails, Fails
  <2>2. Alone'
    BY <1>0, <2>1, Shrinks DEF QInv
  <2>3. WindowHeld'
    BY <2>1 DEF QInv, WindowHeld, Recent
  <2>4. RowsGone' /\ reset' \in ResetType
    BY <2>1 DEF RowsGone
  <2>5. QED
    BY <2>2, <2>3, <2>4
<1>11. Rest
  BY <1>3, <1>4, <1>5, <1>6, <1>7, <1>8, <1>9, <1>10 DEF Next, vars, CooldownPasses
<1>12. QED
  BY <1>1, <1>11 DEF QInv

(* Only a statement that is carried out finishes a quiet operation. *)
LEMMA QuietFinish ==
  ASSUME QInv, [Next]_vars, NEW a \in Actors, NEW h \in Hooks,
         Finishes(a, h), a \notin disturbed'
  PROVE  Agree(h)'
<1> USE BaselineAssumption
<1>0. /\ Actors = Recorders \cup {Resetter} /\ Resetter \notin Recorders
      /\ Daemon \in Recorders /\ rec \in [Recorders -> Recorder]
      /\ execs = [g \in Hooks |-> execs[g]] /\ stats = [g \in Hooks |-> stats[g]]
      /\ Idle.pc = "idle"
  BY DEF Actors, Recorders, QInv, BInv, Shape, Idle
<1>1. CASE a = Resetter
  <2>1. h \in reset.hooks /\ reset.pc = "execs" /\ reset'.pc = "idle"
    BY <1>1 DEF Finishes, HooksOf
  <2>2. DeleteExecutions \/ ResetFails
    BY <2>1 DEF Next, vars, RecorderNext, StartRecord, RecordExecution, ReadWindow,
                UpsertStats, Report, StatementFails, Killed, StartRefresh, RefreshNext,
                CooldownPasses, StartReset, DeleteStats
  <2>3. DeleteExecutions /\ Resetter \notin disturbed
    BY <1>1, <2>2 DEF ResetFails, Fails, DeleteExecutions
  <2>4. /\ execs'[h] = <<>> /\ stats' = stats
    BY <2>1, <2>3 DEF DeleteExecutions
  <2>5. stats[h] = NoStats
    BY <2>1, <2>3 DEF QInv, RowsGone
  <2>6. QED
    BY <2>4, <2>5 DEF Agree
<1>2. CASE a \in Recorders
  <2>1. /\ h \in rec[a].hooks /\ rec[a].pc = "upsert" /\ rec'[a].pc \in {"report", "next"}
    BY <1>0, <1>2 DEF Finishes
  <2>2. UpsertStats(a)
    <3>1. ASSUME NEW p \in Recorders, RecorderNext(p) PROVE UpsertStats(a)
      <4>1. \E r : rec' = [rec EXCEPT ![p] = r]
        BY <3>1 DEF RecorderNext, StartRecord, RecordExecution, ReadWindow, UpsertStats,
                    Report, StatementFails, Killed
      <4>2. p = a
        BY <1>0, <2>1, <4>1
      <4>3. ~ StatementFails(a)
        BY DEF StatementFails, Fails
      <4>4. QED
        BY <1>0, <1>2, <2>1, <3>1, <4>2, <4>3
           DEF RecorderNext, StartRecord, RecordExecution, ReadWindow, Report, Killed
    <3>2. rec' # rec
      BY <2>1
    <3>3. ~ StartRefresh /\ ~ RefreshNext
      BY <1>0, <1>2, <2>1 DEF StartRefresh, RefreshNext
    <3>4. QED
      BY <3>1, <3>2, <3>3 DEF Next, vars, CooldownPasses, StartReset, DeleteStats,
                              DeleteExecutions, ResetFails
  <2>3. PICK g \in rec[a].hooks :
          /\ stats' = [stats EXCEPT ![g] = NewRow(rec[a].snap)]
          /\ UNCHANGED <<execs, disturbed>>
    BY <2>2 DEF UpsertStats
  <2>4. g = h
    BY <1>2, <2>1 DEF QInv, BInv, Shape, InOrder
  <2>5. execs[h] # <<>> /\ rec[a].snap = Recent(execs[h])
    BY <1>2, <2>1, <2>3 DEF QInv, WindowHeld
  <2>6. stats'[h] = Summary(Recent(execs[h])) /\ execs' = execs
    BY <1>0, <2>3, <2>4, <2>5 DEF NewRow
  <2>7. Agree(h)' <=> stats'[h] = IF execs'[h] = <<>> THEN NoStats
                                  ELSE Summary(Recent(execs'[h]))
    BY DEF Agree
  <2>8. QED
    BY <2>5, <2>6, <2>7
<1>3. QED
  BY <1>0, <1>1, <1>2

LEMMA QInvBegins ==
  ASSUME Init
  PROVE  QInv
<1>1. BInv
  BY BInvBegins
<1>2. \A a \in Actors : HooksOf(a) = {}
  BY IdleRecorder, BaselineAssumption DEF Init, HooksOf, Actors, Idle
<1>3. QED
  BY <1>1, <1>2 DEF Init, QInv, Alone, WindowHeld, RowsGone, Idle

(* Whatever recorders, refreshes, resets, failures and kills do, no hook is  *)
(* judged anomalous before MinSamples executions of it were recorded, nor    *)
(* before as many were since a reset that nobody overlapped.                 *)
THEOREM NoAnomalyWhileLearning == Spec => []NoEarlyAnomaly
<1>1. Init => QInv
  BY QInvBegins
<1>2. QInv /\ [Next]_vars => QInv'
  BY QInvStep
<1>3. QInv => NoEarlyAnomaly
  BY DEF QInv, BInv, JudgedLate, NoEarlyAnomaly
<1>4. QED
  BY <1>1, <1>2, <1>3, PTL DEF Spec

(* An execution, a refresh or a reset that nobody overlapped and no error    *)
(* cut short leaves the row of its hook that of its window, however both     *)
(* tables were before.                                                       *)
THEOREM QuietAgree == Spec => QuietOperationsAgree
<1>1. Init => QInv
  BY QInvBegins
<1>2. QInv /\ [Next]_vars => QInv'
  BY QInvStep
<1>3. QInv /\ [Next]_vars =>
        [\A a \in Actors, h \in Hooks :
           Finishes(a, h) /\ a \notin disturbed' => Agree(h)']_vars
  BY QuietFinish
<1>4. QED
  BY <1>1, <1>2, <1>3, PTL DEF Spec, QuietOperationsAgree
-----------------------------------------------------------------------------
(* The sums of a window: there is a function as Sum defines it, it has       *)
(* natural numbers for values, and so has Sum.                              *)
LEMMA SumExists ==
  ASSUME NEW m \in Nat, NEW s \in [1..m -> Nat]
  PROVE  \E f : f = [n \in 0..m |-> IF n = 0 THEN 0 ELSE f[n - 1] + s[n]]
<1> DEFINE V == Nat
           base == 0
           step == [x \in V \X (1..m) |-> x[1] + s[x[2]]]
<1>1. step \in [V \X (1..m) -> V]
  OBVIOUS
<1>2. \A v \in V, n \in 1..m : step[<<v, n>>] = v + s[n]
  OBVIOUS
<1>3. base \in V
  OBVIOUS
<1> HIDE DEF step, V, base
<1>4. PICK f \in [0..m -> V] :
        f[0] = base /\ \A n \in 1..m : f[n] = step[<<f[n - 1], n>>]
  <2>1. step \in Steps(V, m)
    BY <1>1 DEF Steps
  <2>2. HasSolution(V, base, m, step)
    BY <1>3, <2>1, Recursion
  <2>3. QED
    BY <2>2 DEF HasSolution
<1>5. f = [n \in 0..m |-> IF n = 0 THEN 0 ELSE f[n - 1] + s[n]]
  <2>1. \A n \in 0..m : n = 0 \/ (n \in 1..m /\ n - 1 \in 0..m)
    OBVIOUS
  <2>2. \A n \in 1..m : f[n - 1] \in V
    BY <1>4
  <2>3. \A n \in 1..m : f[n] = f[n - 1] + s[n]
    BY <1>2, <1>4, <2>2
  <2>4. \A n \in 0..m : f[n] = IF n = 0 THEN 0 ELSE f[n - 1] + s[n]
    BY <1>4, <2>1, <2>3 DEF base
  <2>5. QED
    BY <1>4, <2>4
<1>6. QED
  BY <1>5

LEMMA SumType ==
  ASSUME NEW s \in Seq(Nat)
  PROVE  Sum(s) \in Nat
<1> DEFINE m == Len(s)
           g == CHOOSE f : f = [n \in 0..m |-> IF n = 0 THEN 0 ELSE f[n - 1] + s[n]]
<1>1. m \in Nat /\ s \in [1..m -> Nat] /\ \A n \in 1..m : s[n] \in Nat
  OBVIOUS
<1>2. Sum(s) = g[m]
  BY DEF Sum
<1> HIDE DEF m
<1>3. \E f : f = [n \in 0..m |-> IF n = 0 THEN 0 ELSE f[n - 1] + s[n]]
  BY <1>1, SumExists
<1>4. g = [n \in 0..m |-> IF n = 0 THEN 0 ELSE g[n - 1] + s[n]]
  BY <1>3
<1> HIDE DEF g
<1>5. g[0] = 0 /\ \A n \in 1..m : g[n] = g[n - 1] + s[n]
  BY <1>1, <1>4
<1> DEFINE T == {n \in Nat : g[n] \in Nat}
<1>6. 0 \in T
  BY <1>5
<1>7. ASSUME NEW n \in 1..m, n - 1 \in T PROVE n \in T
  <2>1. g[n] = g[n - 1] + s[n] /\ s[n] \in Nat /\ n \in Nat
    BY <1>1, <1>5
  <2>2. QED
    BY <1>7, <2>1
<1> HIDE DEF T
<1>8. \A n \in 0..m : n \in T
  BY <1>1, <1>6, <1>7, InductionUpTo
<1>9. m \in T
  BY <1>1, <1>8
<1>10. QED
  BY <1>2, <1>9 DEF T

LEMMA SummaryType ==
  ASSUME NEW s \in Seq(Durations)
  PROVE  Summary(s) \in Stats
<1> DEFINE squares == [i \in 1..Len(s) |-> s[i] * s[i]]
<1>1. Durations \subseteq Nat
  BY BaselineAssumption
<1>2. /\ Len(s) \in Nat /\ s \in [1..Len(s) -> Durations]
      /\ \A i \in 1..Len(s) : s[i] \in Nat
  <2>1. Len(s) \in Nat /\ s \in [1..Len(s) -> Durations]
    BY LenProperties
  <2>2. QED
    BY <1>1, <2>1
<1>3. s \in Seq(Nat)
  <2>1. s \in [1..Len(s) -> Nat]
    BY <1>2
  <2>2. QED
    BY <1>2, <2>1
<1>4. squares \in Seq(Nat)
  <2>1. \A n \in Nat : n * n \in Nat
    OBVIOUS
  <2>2. squares \in [1..Len(s) -> Nat]
    BY <1>2, <2>1
  <2>3. QED
    BY <1>2, <2>2
<1>5. Sum(s) \in Nat /\ SumSq(s) \in Nat
  BY <1>3, <1>4, SumType DEF SumSq
<1>6. QED
  BY <1>2, <1>5 DEF Summary, Stats

(* A recorder reports only what it records. *)
Jobs == \A p \in Recorders : rec[p].pc \in {"record", "report"} => rec[p].job = "record"

Histories ==
  /\ hot \in [Recorders -> SUBSET Hooks]
  /\ disturbed \in SUBSET Actors
  /\ resets \in Nat

TInv == QInv /\ Jobs /\ stats \in [Hooks -> Stats \cup {NoStats}] /\ Histories

LEMMA JobsStep ==
  ASSUME TInv, [Next]_vars
  PROVE  Jobs'
<1>1. /\ rec \in [Recorders -> Recorder] /\ Daemon \in Recorders
      /\ Idle.pc = "idle" /\ Jobs
  BY DEF TInv, QInv, BInv, Shape, Recorders, Idle
<1>2. ASSUME NEW p \in Recorders, NEW r, rec' = [rec EXCEPT ![p] = r],
             r.pc \in {"record", "report"} => r.job = "record"
      PROVE  Jobs'
  BY <1>1, <1>2 DEF Jobs
<1>3. ASSUME NEW p \in Recorders, NEW next, rec' = [rec EXCEPT ![p].pc = next],
             next \in {"record", "report"} => rec[p].job = "record"
      PROVE  Jobs'
  <2> DEFINE r == [rec[p] EXCEPT !.pc = next]
  <2>1. r.pc = next /\ r.job = rec[p].job /\ rec' = [rec EXCEPT ![p] = r]
    BY <1>1, <1>3 DEF Recorder
  <2> HIDE DEF r
  <2>2. QED
    BY <1>2, <1>3, <2>1
<1>4. ASSUME NEW p \in Recorders, NEW next, NEW w,
             rec' = [rec EXCEPT ![p].pc = next, ![p].snap = w],
             next \in {"record", "report"} => rec[p].job = "record"
      PROVE  Jobs'
  <2> DEFINE r == [rec[p] EXCEPT !.pc = next, !.snap = w]
  <2>1. r.pc = next /\ r.job = rec[p].job /\ rec' = [rec EXCEPT ![p] = r]
    BY <1>1, <1>4 DEF Recorder
  <2> HIDE DEF r
  <2>2. QED
    BY <1>2, <1>4, <2>1
<1>5. \A p \in Recorders : AfterRecompute(p) \in {"record", "report"} => rec[p].job = "record"
  BY DEF AfterRecompute
<1>6. ASSUME NEW p \in Recorders, RecorderNext(p) PROVE Jobs'
  <2>1. ASSUME NEW h \in Hooks, NEW d \in Durations, StartRecord(p, h, d) PROVE Jobs'
    <3> DEFINE r == [Idle EXCEPT !.pc = "record", !.hooks = {h}, !.dur = d,
                       !.level = CheckAnomaly(stats[h], d), !.found = Len(execs[h])]
    <3>1. r.job = "record"
      BY DEF Idle
    <3>2. rec' = [rec EXCEPT ![p] = r]
      BY <2>1 DEF StartRecord
    <3> HIDE DEF r
    <3>3. QED
      BY <1>2, <3>1, <3>2
  <2>2. CASE RecordExecution(p)
    BY <1>3, <2>2 DEF RecordExecution
  <2>3. CASE ReadWindow(p)
    <3>1. \/ rec' = [rec EXCEPT ![p].pc = AfterRecompute(p)]
          \/ \E h : rec' = [rec EXCEPT ![p].pc = "upsert", ![p].snap = Recent(execs[h])]
      BY <2>3 DEF ReadWindow
    <3>2. QED
      BY <1>3, <1>4, <1>5, <3>1
  <2>4. CASE UpsertStats(p)
    <3>1. rec' = [rec EXCEPT ![p].pc = AfterRecompute(p), ![p].snap = <<>>]
      BY <2>4 DEF UpsertStats
    <3>2. QED
      BY <1>4, <1>5, <3>1
  <2>5. CASE Report(p) \/ Killed(p)
    BY <1>1, <1>2, <2>5 DEF Report, Killed
  <2>6. CASE StatementFails(p)
    <3>1. CASE rec[p].job = "refresh" \/ rec[p].pc = "record"
      BY <1>1, <1>2, <2>6, <3>1 DEF StatementFails
    <3>2. CASE ~ (rec[p].job = "refresh" \/ rec[p].pc = "record")
      <4>1. rec[p].job = "record"
        BY <1>1, <3>2 DEF Recorder
      <4>2. QED
        BY <1>4, <2>6, <3>2, <4>1 DEF StatementFails
    <3>3. QED
      BY <3>1, <3>2
  <2>7. QED
    BY <1>6, <2>1, <2>2, <2>3, <2>4, <2>5, <2>6 DEF RecorderNext
<1>7. CASE StartRefresh
  <2> DEFINE r == [Idle EXCEPT !.pc = "next", !.job = "refresh",
                               !.todo = {h \in Hooks : execs[h] # <<>>}]
  <2>1. r.pc = "next"
    BY DEF Idle
  <2>2. rec' = [rec EXCEPT ![Daemon] = r]
    BY <1>7 DEF StartRefresh
  <2> HIDE DEF r
  <2>3. QED
    BY <1>1, <1>2, <2>1, <2>2
<1>8. CASE RefreshNext
  <2>1. CASE rec' = [rec EXCEPT ![Daemon] = Idle]
    BY <1>1, <1>2, <2>1
  <2>2. ASSUME NEW h \in rec[Daemon].todo,
               rec' = [rec EXCEPT ![Daemon].pc = "read", ![Daemon].hooks = {h},
                                  ![Daemon].todo = @ \ {h}]
        PROVE  Jobs'
    <3> DEFINE r == [rec[Daemon] EXCEPT !.pc = "read", !.hooks = {h}, !.todo = @ \ {h}]
    <3>1. rec' = [rec EXCEPT ![Daemon] = r]
      BY <2>2
    <3>2. rec[Daemon] \in Recorder
      BY <1>1
    <3>3. r.pc = "read"
      BY <3>2 DEF Recorder
    <3> HIDE DEF r
    <3>4. QED
      BY <1>1, <1>2, <3>1, <3>3
  <2>3. QED
    BY <1>8, <2>1, <2>2 DEF RefreshNext
<1>9. ASSUME rec' = rec PROVE Jobs'
  BY <1>1, <1>9 DEF Jobs
<1>10. QED
  BY <1>6, <1>7, <1>8, <1>9 DEF Next, vars, CooldownPasses, StartReset, DeleteStats,
                                DeleteExecutions, ResetFails

LEMMA StatsStep ==
  ASSUME TInv, [Next]_vars
  PROVE  stats' \in [Hooks -> Stats \cup {NoStats}]
<1>1. stats \in [Hooks -> Stats \cup {NoStats}]
  BY DEF TInv
<1>2. ASSUME NEW p \in Recorders, UpsertStats(p)
      PROVE  stats' \in [Hooks -> Stats \cup {NoStats}]
  <2>1. PICK h \in rec[p].hooks : stats' = [stats EXCEPT ![h] = NewRow(rec[p].snap)]
    BY <1>2 DEF UpsertStats
  <2>2. rec[p].snap \in Seq(Durations)
    BY DEF TInv, QInv, BInv, Shape, Recorder
  <2>3. NewRow(rec[p].snap) \in Stats
    BY <2>2, SummaryType DEF NewRow
  <2>4. QED
    BY <1>1, <2>1, <2>3
<1>3. CASE DeleteStats
  BY <1>1, <1>3 DEF DeleteStats
<1>4. CASE stats' = stats
  BY <1>1, <1>4
<1>5. QED
  BY <1>2, <1>3, <1>4
     DEF Next, vars, RecorderNext, StartRecord, RecordExecution, ReadWindow, Report,
         StatementFails, Killed, StartRefresh, RefreshNext, CooldownPasses, StartReset,
         DeleteExecutions, ResetFails

LEMMA HistoriesStep ==
  ASSUME TInv, [Next]_vars
  PROVE  Histories'
<1>1. /\ hot \in [Recorders -> SUBSET Hooks] /\ disturbed \in SUBSET Actors /\ resets \in Nat
      /\ Recorders \subseteq Actors /\ Resetter \in Actors /\ Daemon \in Recorders
      /\ \A p \in Recorders : rec[p].hooks \subseteq Hooks
  BY DEF TInv, Histories, Recorders, Actors, QInv, BInv, Shape, Recorder
<1>2. hot' \in [Recorders -> SUBSET Hooks]
  <2>1. CASE hot' = hot
    BY <1>1, <2>1
  <2>2. ASSUME NEW p \in Recorders, RecorderNext(p), hot' # hot
        PROVE  hot' \in [Recorders -> SUBSET Hooks]
    <3>1. \/ hot' = [hot EXCEPT ![p] = {}]
          \/ \E h \in rec[p].hooks : hot' = [hot EXCEPT ![p] = @ \cup {h}]
      BY <2>2 DEF RecorderNext, StartRecord, RecordExecution, ReadWindow, UpsertStats,
                  Report, StatementFails, Killed
    <3>2. QED
      BY <1>1, <3>1
  <2>3. ASSUME NEW h \in Hooks, CooldownPasses(h)
        PROVE  hot' \in [Recorders -> SUBSET Hooks]
    BY <1>1, <2>3 DEF CooldownPasses
  <2>4. QED
    BY <2>1, <2>2, <2>3 DEF Next, vars, StartRefresh, RefreshNext, StartReset,
                            DeleteStats, DeleteExecutions, ResetFails
<1>3. disturbed' \in SUBSET Actors
  <2>1. \A H : \A a \in Actors : Begin(a, H) => disturbed' \in SUBSET Actors
    BY <1>1 DEF Begin, Overlaps
  <2>2. \A a \in Actors : Fails(a) => disturbed' \in SUBSET Actors
    BY <1>1 DEF Fails
  <2>3. \/ disturbed' = disturbed
        \/ \E a \in Actors : \E H : Begin(a, H)
        \/ \E a \in Actors : Fails(a)
    BY <1>1 DEF Next, vars, RecorderNext, StartRecord, RecordExecution, ReadWindow,
                UpsertStats, Report, StatementFails, Killed, StartRefresh, RefreshNext,
                CooldownPasses, StartReset, DeleteStats, DeleteExecutions, ResetFails
  <2>4. QED
    BY <1>1, <2>1, <2>2, <2>3
<1>4. resets' = resets \/ resets' = resets + 1
  BY DEF Next, vars, RecorderNext, StartRecord, RecordExecution, ReadWindow,
         UpsertStats, Report, StatementFails, Killed, StartRefresh, RefreshNext,
         CooldownPasses, StartReset, DeleteStats, DeleteExecutions, ResetFails
<1>5. QED
  BY <1>1, <1>2, <1>3, <1>4 DEF Histories

(* Every variable has its type; in particular the row of a hook is a summary *)
(* of numbers, and nothing is reported that was not recorded.               *)
THEOREM TypeCorrect == Spec => []TypeOK
<1>1. Init => TInv
  <2> SUFFICES ASSUME Init PROVE TInv
    OBVIOUS
  <2>1. QInv
    BY QInvBegins
  <2>2. Jobs /\ Histories /\ stats \in [Hooks -> Stats \cup {NoStats}]
    BY DEF Init, Jobs, Histories, Idle
  <2>3. QED
    BY <2>1, <2>2 DEF TInv
<1>2. TInv /\ [Next]_vars => TInv'
  BY QInvStep, JobsStep, StatsStep, HistoriesStep DEF TInv
<1>3. TInv => TypeOK
  BY DEF TInv, QInv, BInv, Shape, Jobs, Histories, TypeOK
<1>4. QED
  BY <1>1, <1>2, <1>3, PTL DEF Spec
=============================================================================
