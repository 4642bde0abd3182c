--------------------------- MODULE MigrationProofs ---------------------------
(* Proofs about Migrate, for any number of processes. *)
EXTENDS Migration, TLAPS

(* Two that run have overlapped; who found the column missing and was alone *)
(* is still right; who was overtaken once will not look for it again.       *)
OrderInv ==
  /\ \A p \in Running : UpTo(at[p] - 1) \subseteq schema
  /\ \A p, q \in Running : p # q => p \in overlapped
  /\ \A p \in absent : p \in overlapped \/ Column \notin schema
  /\ \A p \in Procs : overtaken[p] = 1 => Column \in schema /\ p \notin absent
  /\ \A p \in Procs : result[p] = "duplicate column" => p \in overlapped

IInv == TypeOK /\ OrderInv /\ MigratedIsComplete /\ OvertakenOnce

(* The statements of Migrate: there is one ALTER, not the last, and whatever *)
(* one needs is created before it.                                           *)
LEMMA StepsFacts ==
  /\ Last = 12 /\ Steps[6] = Column
  /\ \A i \in 1..Last : Steps[i] = Column => i = 6
  /\ \A i \in 1..Last : Needs(Steps[i]) \subseteq UpTo(i - 1)
<1>1. Last = 12
  BY DEF Last, Steps
<1>2. Steps[6] = Column
  BY DEF Steps
<1>3. \A i \in 1..Last : Steps[i] = Column => i = 6
  BY <1>1 DEF Steps, Column
<1>4. ASSUME NEW i \in 1..Last
      PROVE  Needs(Steps[i]) \subseteq UpTo(i - 1)
  <2>1. i \in 1..12
    BY <1>1
  <2>2. /\ Steps[1] \in UpTo(1) /\ 1 \in 1..4
        /\ Steps[3] \in UpTo(3) /\ Steps[3] \in UpTo(4) /\ Steps[3] \in UpTo(5)
        /\ Steps[7] \in UpTo(7)
        /\ Steps[10] \in UpTo(10) /\ Steps[10] \in UpTo(11)
    BY DEF UpTo
  <2>3. CASE i \in {1, 3, 7, 9, 10}
    <3>1. Needs(Steps[i]) = {}
      BY <2>3 DEF Needs, Steps, Column
    <3>2. QED
      BY <3>1
  <2>4. CASE i = 2
    <3>1. Needs(Steps[i]) = {Steps[1]}
      BY <2>4 DEF Needs, Steps, Column
    <3>2. QED
      BY <2>2, <2>4, <3>1
  <2>5. CASE i \in {4, 5, 6}
    <3>1. Needs(Steps[i]) = {Steps[3]}
      BY <2>5 DEF Needs, Steps, Column
    <3>2. QED
      BY <2>2, <2>5, <3>1
  <2>6. CASE i = 8
    <3>1. Needs(Steps[i]) = {Steps[7]}
      BY <2>6 DEF Needs, Steps, Column
    <3>2. QED
      BY <2>2, <2>6, <3>1
  <2>7. CASE i \in {11, 12}
    <3>1. Needs(Steps[i]) = {Steps[10]}
      BY <2>7 DEF Needs, Steps, Column
    <3>2. QED
      BY <2>2, <2>7, <3>1
  <2>8. QED
    BY <2>1, <2>3, <2>4, <2>5, <2>6, <2>7
<1>5. QED
  BY <1>1, <1>2, <1>3, <1>4

LEMMA ZeroIsNone == 0 \in 0..Last
BY StepsFacts

(* A schema that is an initial part, and has all that comes before a         *)
(* statement, is one with what the statement creates.                        *)
LEMMA StaysInitial ==
  ASSUME NEW S \in {UpTo(n) : n \in 0..Last}, NEW k \in 1..Last,
         UpTo(k - 1) \subseteq S
  PROVE  /\ S \cup {Steps[k]} \in {UpTo(n) : n \in 0..Last}
         /\ UpTo(k) \subseteq S \cup {Steps[k]}
         /\ k = Last => S \cup {Steps[k]} = Complete
<1>0. Last \in Nat
  BY StepsFacts
<1>1. PICK n \in 0..Last : S = UpTo(n)
  OBVIOUS
<1>2. UpTo(k) = UpTo(k - 1) \cup {Steps[k]}
  BY <1>0 DEF UpTo
<1>3. CASE n >= k
  <2>1. S \cup {Steps[k]} = S
    BY <1>0, <1>1, <1>3 DEF UpTo
  <2>2. k = Last => n = Last
    BY <1>0, <1>3
  <2>3. QED
    BY <1>1, <1>2, <2>1, <2>2 DEF Complete
<1>4. CASE n < k
  <2>1. UpTo(n) \subseteq UpTo(k - 1)
    BY <1>0, <1>4 DEF UpTo
  <2>2. S \cup {Steps[k]} = UpTo(k)
    BY <1>1, <1>2, <2>1
  <2>3. QED
    BY <1>0, <2>2 DEF Complete
<1>5. QED
  BY <1>0, <1>3, <1>4
(* What the invariant says of a process that runs. *)
LEMMA RunningFacts ==
  ASSUME IInv, NEW p \in Running
  PROVE  /\ p \in Procs /\ at[p] \in 1..Last
         /\ UpTo(at[p] - 1) \subseteq schema
         /\ Needs(Steps[at[p]]) \subseteq schema
<1>1. p \in Procs /\ at[p] \in 0..Last /\ at[p] # 0
  BY DEF IInv, TypeOK, Running
<1>2. at[p] \in 1..Last
  BY <1>1, StepsFacts
<1>3. UpTo(at[p] - 1) \subseteq schema
  BY DEF IInv, OrderInv
<1>4. Needs(Steps[at[p]]) \subseteq UpTo(at[p] - 1)
  BY <1>2, StepsFacts
<1>5. QED
  BY <1>1, <1>2, <1>3, <1>4
-----------------------------------------------------------------------------
(* A process has what its statement creates and goes on. *)
LEMMA AdvanceKeeps ==
  ASSUME IInv, NEW p \in Running, Advance(p),
         schema' = schema \cup {Steps[at[p]]},
         UNCHANGED <<overlapped, overtaken>>
  PROVE  IInv'
<1>0. /\ Last \in Nat /\ Last = 12
      /\ schema \in {UpTo(n) : n \in 0..Last}
      /\ at \in [Procs -> 0..Last] /\ at[p] \in 1..Last /\ p \in Procs
      /\ absent \subseteq Running
      /\ \A q \in absent : Steps[at[q]] = Column
      /\ result \in [Procs -> Results]
      /\ UpTo(at[p] - 1) \subseteq schema
  <2>1. Last = 12 /\ at[p] \in 1..Last /\ p \in Procs /\ UpTo(at[p] - 1) \subseteq schema
    BY StepsFacts, RunningFacts
  <2>2. TypeOK
    BY DEF IInv
  <2>3. absent \subseteq Running /\ \A q \in absent : Steps[at[q]] = Column
    BY <2>2 DEF TypeOK, Running
  <2>4. QED
    BY <2>1, <2>2, <2>3 DEF TypeOK
<1>1. /\ schema' \in {UpTo(n) : n \in 0..Last}
      /\ UpTo(at[p]) \subseteq schema'
      /\ at[p] = Last => schema' = Complete
      /\ schema \subseteq schema'
  BY <1>0, StaysInitial
<1>2. /\ absent' = absent \ {p}
      /\ at' = [at EXCEPT ![p] = IF at[p] = Last THEN 0 ELSE at[p] + 1]
      /\ \/ result' = result
         \/ at[p] = Last /\ result' = [result EXCEPT ![p] = "migrated"]
  <2>1. CASE at[p] = Last
    BY <1>0, <2>1 DEF Advance, Ends
  <2>2. CASE at[p] # Last
    BY <1>0, <2>2 DEF Advance, Ends
  <2>3. QED
    BY <2>1, <2>2
<1>3. /\ at' \in [Procs -> 0..Last]
      /\ \A q \in Procs : q # p => at'[q] = at[q]
      /\ at'[p] # 0 => at'[p] - 1 = at[p]
      /\ Running' \subseteq Running
  BY <1>0, <1>2 DEF Running
<1>4. /\ result' \in [Procs -> Results]
      /\ \A q \in Procs : result'[q] = result[q] \/ (q = p /\ result'[q] = "migrated")
      /\ \A q \in Procs : result'[q] = "migrated" =>
           result[q] = "migrated" \/ at[p] = Last
  BY <1>0, <1>2 DEF Results
<1>5. TypeOK'
  <2>1. absent' \in SUBSET {q \in Procs : at'[q] # 0 /\ Steps[at'[q]] = Column}
    BY <1>0, <1>2, <1>3 DEF Running
  <2>2. overlapped' \in SUBSET Procs /\ overtaken' \in [Procs -> Nat]
    BY DEF IInv, TypeOK
  <2>3. QED
    BY <1>1, <1>3, <1>4, <2>1, <2>2 DEF TypeOK
<1>6. MigratedIsComplete'
  <2>1. schema = Complete => schema' = Complete
    <3>1. \A n \in 0..Last : UpTo(n) \subseteq Complete
      BY <1>0 DEF UpTo, Complete
    <3>2. QED
      BY <1>1, <3>1
  <2>2. QED
    BY <1>1, <1>4, <2>1 DEF IInv, MigratedIsComplete
<1>7. OvertakenOnce'
  BY <1>4 DEF IInv, OvertakenOnce
<1>8. OrderInv'
  <2>1. \A q \in Running' : UpTo(at'[q] - 1) \subseteq schema'
    BY <1>0, <1>1, <1>3 DEF IInv, OrderInv, Running
  <2>2. \A q, r \in Running' : q # r => q \in overlapped'
    BY <1>3 DEF IInv, OrderInv
  <2>3. \A q \in absent' : q \in overlapped' \/ Column \notin schema'
    BY <1>0, <1>2 DEF IInv, OrderInv
  <2>4. \A q \in Procs : overtaken'[q] = 1 => Column \in schema' /\ q \notin absent'
    BY <1>1, <1>2 DEF IInv, OrderInv
  <2>5. \A q \in Procs : result'[q] = "duplicate column" => q \in overlapped'
    BY <1>4 DEF IInv, OrderInv
  <2>6. QED
    BY <2>1, <2>2, <2>3, <2>4, <2>5 DEF OrderInv
<1>9. QED
  BY <1>5, <1>6, <1>7, <1>8 DEF IInv

(* A Migrate ends with an error; whoever is counted as overtaken then has    *)
(* the column.                                                              *)
LEMMA EndKeeps ==
  ASSUME IInv, NEW p \in Running, NEW how \in {"interrupted", "duplicate column"},
         Ends(p, how), UNCHANGED <<schema, overlapped>>,
         how = "duplicate column" => p \in overlapped,
         overtaken' \in [Procs -> Nat],
         \A q \in Procs : overtaken'[q] <= 1,
         \A q \in Procs : overtaken'[q] = 1 => Column \in schema /\ q \notin absent \ {p}
  PROVE  IInv'
<1>0. /\ Last = 12
      /\ at \in [Procs -> 0..Last] /\ p \in Procs
      /\ result \in [Procs -> Results]
  BY StepsFacts, RunningFacts DEF IInv, TypeOK
<1>1. /\ absent' = absent \ {p} /\ at' = [at EXCEPT ![p] = 0]
      /\ result' = [result EXCEPT ![p] = how]
      /\ schema' = schema /\ overlapped' = overlapped
  BY DEF Ends
<1>2. /\ at' \in [Procs -> 0..Last] /\ Running' = Running \ {p}
      /\ \A q \in Procs : q # p => at'[q] = at[q]
  <2>0. 0 \in 0..Last
    BY ZeroIsNone
  <2>1. at' = [at EXCEPT ![p] = 0]
    BY <1>1
  <2>2. at' \in [Procs -> 0..Last]
    BY <1>0, <2>0, <2>1
  <2>3. at'[p] = 0 /\ \A q \in Procs : q # p => at'[q] = at[q]
    BY <1>0, <2>1
  <2>4. QED
    BY <2>2, <2>3 DEF Running
<1>3. result' \in [Procs -> Results] /\ result'[p] = how
      /\ \A q \in Procs : q # p => result'[q] = result[q]
  BY <1>0, <1>1 DEF Results
<1>4. TypeOK'
  <2>1. absent' \in SUBSET {q \in Procs : at'[q] # 0 /\ Steps[at'[q]] = Column}
    BY <1>1, <1>2 DEF IInv, TypeOK
  <2>2. QED
    BY <1>1, <1>2, <1>3, <2>1 DEF IInv, TypeOK
<1>5. MigratedIsComplete'
  BY <1>1, <1>3 DEF IInv, MigratedIsComplete
<1>6. OvertakenOnce'
  BY <1>3 DEF IInv, OvertakenOnce
<1>7. OrderInv'
  <2>1. \A q \in Running' : UpTo(at'[q] - 1) \subseteq schema'
    BY <1>1, <1>2 DEF IInv, OrderInv, Running
  <2>2. /\ \A q, r \in Running' : q # r => q \in overlapped'
        /\ \A q \in absent' : q \in overlapped' \/ Column \notin schema'
    BY <1>1, <1>2 DEF IInv, OrderInv
  <2>3. \A q \in Procs : overtaken'[q] = 1 => Column \in schema' /\ q \notin absent'
    BY <1>1
  <2>4. \A q \in Procs : result'[q] = "duplicate column" => q \in overlapped'
    BY <1>1, <1>3 DEF IInv, OrderInv
  <2>5. QED
    BY <2>1, <2>2, <2>3, <2>4 DEF OrderInv
<1>8. QED
  BY <1>4, <1>5, <1>6, <1>7 DEF IInv

LEMMA StartKeeps ==
  ASSUME IInv, NEW p \in Procs, Start(p)
  PROVE  IInv'
<1>0. /\ Last = 12 /\ at \in [Procs -> 0..Last] /\ result \in [Procs -> Results]
      /\ at[p] = 0 /\ p \notin absent
      /\ overlapped \subseteq Procs
  BY StepsFacts DEF IInv, TypeOK, Start
<1>1. /\ at' = [at EXCEPT ![p] = 1] /\ result' = [result EXCEPT ![p] = "none"]
      /\ schema' = schema /\ absent' = absent /\ overtaken' = overtaken
      /\ overlapped' = IF Running = {} THEN overlapped \ {p}
                       ELSE overlapped \cup Running \cup {p}
  BY DEF Start
<1>2. /\ at' \in [Procs -> 0..Last] /\ Running' = Running \cup {p}
      /\ \A q \in Procs : q # p => at'[q] = at[q]
      /\ at'[p] = 1 /\ Running \subseteq Procs
  BY <1>0, <1>1 DEF Running
<1>3. result' \in [Procs -> Results] /\ result'[p] = "none"
      /\ \A q \in Procs : q # p => result'[q] = result[q]
  BY <1>0, <1>1 DEF Results
<1>4. overlapped' \subseteq Procs
      /\ \A q \in Procs : q # p /\ q \in overlapped => q \in overlapped'
  BY <1>0, <1>1, <1>2
<1>5. TypeOK'
  <2>1. absent' \in SUBSET {q \in Procs : at'[q] # 0 /\ Steps[at'[q]] = Column}
    BY <1>0, <1>1, <1>2 DEF IInv, TypeOK
  <2>2. QED
    BY <1>1, <1>2, <1>3, <1>4, <2>1 DEF IInv, TypeOK
<1>6. MigratedIsComplete' /\ OvertakenOnce'
  BY <1>1, <1>3 DEF IInv, MigratedIsComplete, OvertakenOnce
<1>7. OrderInv'
  <2>1. \A q \in Running' : UpTo(at'[q] - 1) \subseteq schema'
    <3>1. UpTo(at'[p] - 1) = {}
      BY <1>2 DEF UpTo
    <3>2. QED
      BY <1>1, <1>2, <3>1 DEF IInv, OrderInv, Running
  <2>2. \A q, r \in Running' : q # r => q \in overlapped'
    BY <1>1, <1>2
  <2>3. \A q \in absent' : q \in overlapped' \/ Column \notin schema'
    BY <1>0, <1>1, <1>4 DEF IInv, TypeOK, OrderInv
  <2>4. \A q \in Procs : overtaken'[q] = 1 => Column \in schema' /\ q \notin absent'
    BY <1>1 DEF IInv, OrderInv
  <2>5. \A q \in Procs : result'[q] = "duplicate column" => q \in overlapped'
    BY <1>3, <1>4 DEF IInv, OrderInv
  <2>6. QED
    BY <2>1, <2>2, <2>3, <2>4, <2>5 DEF OrderInv
<1>8. QED
  BY <1>5, <1>6, <1>7 DEF IInv
-----------------------------------------------------------------------------
LEMMA IInvStep ==
  ASSUME IInv, [Next]_vars
  PROVE  IInv'
<1>0. \A p \in Running :
        /\ p \in Procs /\ at[p] \in 1..Last
        /\ Needs(Steps[at[p]]) \subseteq schema
  BY RunningFacts
<1>1. ASSUME NEW p \in Procs, Create(p)
      PROVE  IInv'
  BY <1>0, <1>1, AdvanceKeeps DEF Create
<1>2. ASSUME NEW p \in Procs, QueryColumn(p)
      PROVE  IInv'
  <2>1. CASE Column \in schema
    <3>1. schema' = schema \cup {Steps[at[p]]}
      BY <1>2, <2>1 DEF QueryColumn, Shown
    <3>2. QED
      BY <1>2, <2>1, <3>1, AdvanceKeeps DEF QueryColumn, Shown
  <2>2. CASE Column \notin schema
    <3>1. /\ p \in Running /\ Steps[at[p]] = Column
          /\ absent' = absent \cup {p}
          /\ UNCHANGED <<at, result, schema, overlapped, overtaken>>
      BY <1>2, <2>2 DEF QueryColumn, Shown
    <3>2. Running' = Running
      BY <3>1 DEF Running
    <3>3. TypeOK'
      BY <3>1 DEF IInv, TypeOK, Running
    <3>4. OrderInv'
      BY <2>2, <3>1, <3>2 DEF IInv, OrderInv
    <3>5. QED
      BY <3>1, <3>3, <3>4 DEF IInv, MigratedIsComplete, OvertakenOnce
  <2>3. QED
    BY <2>1, <2>2
<1>3. ASSUME NEW p \in Procs, AddColumn(p)
      PROVE  IInv'
  <2>1. /\ p \in Running /\ Steps[at[p]] = Column /\ p \in absent
        /\ Needs(Column) \subseteq schema
    BY <1>0, <1>3 DEF AddColumn, IInv, TypeOK, Running
  <2>2. CASE Column \in schema
    <3>1. /\ Ends(p, "duplicate column") /\ UNCHANGED <<schema, overlapped>>
          /\ overtaken' = [overtaken EXCEPT ![p] = @ + 1]
      BY <1>3, <2>1, <2>2 DEF AddColumn, Abort
    <3>2. /\ overtaken \in [Procs -> Nat] /\ p \in Procs /\ p \in overlapped
          /\ \A q \in Procs : overtaken[q] <= 1
          /\ overtaken[p] # 1
      BY <1>3, <2>1, <2>2 DEF IInv, TypeOK, OrderInv, OvertakenOnce
    <3>3. overtaken[p] = 0
      BY <3>2
    <3>4. overtaken' \in [Procs -> Nat] /\ \A q \in Procs : overtaken'[q] <= 1
      <4>1. overtaken' = [overtaken EXCEPT ![p] = 0 + 1]
        BY <3>1, <3>3
      <4>2. overtaken' = [overtaken EXCEPT ![p] = 1]
        BY <4>1
      <4>3. overtaken' \in [Procs -> Nat]
        BY <3>2, <4>2
      <4>4. overtaken'[p] = 1 /\ \A q \in Procs : q # p => overtaken'[q] = overtaken[q]
        BY <3>2, <4>2
      <4>5. QED
        BY <3>2, <4>3, <4>4
    <3>5. \A q \in Procs : overtaken'[q] = 1 => q = p \/ overtaken[q] = 1
      BY <3>1, <3>2
    <3>6. \A q \in Procs : overtaken'[q] = 1 => Column \in schema /\ q \notin absent \ {p}
      BY <2>2, <3>5 DEF IInv, OrderInv
    <3>7. QED
      BY <2>1, <3>1, <3>2, <3>4, <3>6, EndKeeps
  <2>3. CASE Column \notin schema
    BY <1>3, <2>1, <2>3, AdvanceKeeps DEF AddColumn
  <2>4. QED
    BY <2>2, <2>3
<1>4. ASSUME NEW p \in Procs, Interrupted(p)
      PROVE  IInv'
  <2>1. /\ p \in Running /\ Ends(p, "interrupted")
        /\ UNCHANGED <<schema, overlapped, overtaken>>
    BY <1>4 DEF Interrupted, Abort
  <2>2. /\ overtaken' \in [Procs -> Nat]
        /\ \A q \in Procs : overtaken'[q] <= 1
        /\ \A q \in Procs : overtaken'[q] = 1 => Column \in schema /\ q \notin absent \ {p}
    BY <2>1 DEF IInv, TypeOK, OrderInv, OvertakenOnce
  <2>3. QED
    BY <2>1, <2>2, EndKeeps
<1>5. CASE UNCHANGED vars
  BY <1>5 DEF vars, IInv, TypeOK, OrderInv, MigratedIsComplete, OvertakenOnce, Running
<1>6. QED
  BY <1>1, <1>2, <1>3, <1>4, <1>5, StartKeeps DEF Next

LEMMA IInvInit == Init => IInv
<1> SUFFICES ASSUME Init PROVE IInv
  OBVIOUS
<1>1. Running = {}
  BY DEF Init, Running
<1>2. TypeOK
  BY StepsFacts DEF Init, TypeOK, Results
<1>3. QED
  BY <1>1, <1>2 DEF Init, IInv, OrderInv, MigratedIsComplete, OvertakenOnce

LEMMA IInvAlways == Spec => []IInv
BY IInvInit, IInvStep, PTL DEF Spec
-----------------------------------------------------------------------------
(* The database is always one Migrate could have left half way, and every    *)
(* process is at a statement of its own.                                     *)
THEOREM TypeCorrect == Spec => []TypeOK
<1>1. IInv => TypeOK
  BY DEF IInv
<1>2. QED
  BY <1>1, IInvAlways, PTL

(* A Migrate that returns no error leaves a complete schema.                 *)
THEOREM SuccessIsComplete == Spec => []MigratedIsComplete
<1>1. IInv => MigratedIsComplete
  BY DEF IInv
<1>2. QED
  BY <1>1, IInvAlways, PTL

(* Without another Migrate meanwhile, Migrate succeeds on every file.        *)
THEOREM SucceedsAlone == Spec => []AloneSucceeds
<1>1. IInv => AloneSucceeds
  BY DEF IInv, TypeOK, OrderInv, OvertakenOnce, AloneSucceeds, Results
<1>2. QED
  BY <1>1, IInvAlways, PTL

(* The race for the column costs a process one run at most.                  *)
THEOREM RaceLostOnce == Spec => []OvertakenOnce
<1>1. IInv => OvertakenOnce
  BY DEF IInv
<1>2. QED
  BY <1>1, IInvAlways, PTL
=============================================================================
