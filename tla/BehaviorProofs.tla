--------------------------- MODULE BehaviorProofs ---------------------------
(***************************************************************************)
(* Proofs about the model of Layer 4, for every value of its constants:     *)
(* first of the pipe, whose every step is a step of the EventLog or changes *)
(* nothing of it, then of the processes, the backends and the whole.        *)
(*                                                                         *)
(* The four sequences of the pipeline are one, cut in four: a step moves a  *)
(* cut, appends to the end, or takes a piece away.                          *)
(***************************************************************************)
EXTENDS BehaviorWatch, Induction, SequenceTheorems

OnlySeqs ==
  /\ outbox \in Seq(Nat) /\ chan \in Seq(Nat) /\ batch \in Seq(Nat)
  /\ rows \in Seq(Nat) /\ dropped \in SUBSET Nat /\ found \in Nat

Waiting == batch \o chan \o outbox
-----------------------------------------------------------------------------
LEMMA Assoc ==
  ASSUME NEW s \in Seq(Nat), NEW p \in Seq(Nat), NEW q \in Seq(Nat)
  PROVE  (s \o p) \o q = s \o (p \o q)
BY ConcatAssociative, SMTT(30)

LEMMA Joined ==
  ASSUME NEW b \in Seq(Nat), NEW r \in Seq(Nat)
  PROVE  /\ b \o r \in Seq(Nat)
         /\ Len(b) \in Nat /\ Len(r) \in Nat /\ Len(b \o r) = Len(b) + Len(r)
         /\ \A i \in 1..Len(b) : (b \o r)[i] = b[i]
         /\ \A i \in 1..Len(r) : (b \o r)[Len(b) + i] = r[i]
<1>1. Len(b) \in Nat /\ Len(r) \in Nat
  BY LenProperties
<1>2. /\ b \o r \in Seq(Nat) /\ Len(b \o r) = Len(b) + Len(r)
      /\ \A i \in 1..(Len(b) + Len(r)) :
           (b \o r)[i] = IF i <= Len(b) THEN b[i] ELSE r[i - Len(b)]
  BY ConcatProperties
<1>3. \A i \in 1..Len(b) : i \in 1..(Len(b) + Len(r)) /\ i <= Len(b)
  BY <1>1
<1>4. \A i \in 1..Len(r) : /\ Len(b) + i \in 1..(Len(b) + Len(r))
                           /\ ~ Len(b) + i <= Len(b) /\ (Len(b) + i) - Len(b) = i
  BY <1>1
<1>5. \A i \in 1..Len(b) : (b \o r)[i] = b[i]
  BY <1>2, <1>3
<1>6. \A i \in 1..Len(r) : (b \o r)[Len(b) + i] = r[i]
  <2> SUFFICES ASSUME NEW i \in 1..Len(r) PROVE (b \o r)[Len(b) + i] = r[i]
    OBVIOUS
  <2>1. (b \o r)[Len(b) + i] = r[(Len(b) + i) - Len(b)]
    BY <1>2, <1>4
  <2>2. QED
    BY <1>4, <2>1
<1>7. QED
  BY <1>1, <1>2, <1>5, <1>6

(* The two halves of a joined sequence, and what is in them. *)
LEMMA Halves ==
  ASSUME NEW b \in Seq(Nat), NEW r \in Seq(Nat)
  PROVE  /\ SubSeq(b \o r, 1, Len(b)) = b
         /\ SubSeq(b \o r, Len(b) + 1, Len(b \o r)) = r
<1> DEFINE s == b \o r
           p == SubSeq(s, 1, Len(b))
           q == SubSeq(s, Len(b) + 1, Len(s))
<1>1. /\ s \in Seq(Nat) /\ Len(b) \in Nat /\ Len(r) \in Nat
      /\ Len(s) = Len(b) + Len(r)
      /\ \A i \in 1..Len(b) : s[i] = b[i]
      /\ \A i \in 1..Len(r) : s[Len(b) + i] = r[i]
  BY Joined
<1>2. \A i \in 1..Len(s) : s[i] \in Nat
  BY <1>1, ElementOfSeq
<1> HIDE DEF s
<1>3. p = b
  <2>1. \A i \in 1..Len(b) : s[i] \in Nat
    BY <1>1, <1>2
  <2>2. /\ p \in Seq(Nat)
        /\ Len(p) = IF 1 <= Len(b) THEN Len(b) - 1 + 1 ELSE 0
        /\ \A i \in 1..(Len(b) - 1 + 1) : p[i] = s[1 + i - 1]
    BY <1>1, <2>1, SubSeqProperties
  <2> HIDE DEF p
  <2>3. Len(p) = Len(b) /\ \A i \in 1..Len(p) : p[i] = b[i]
    BY <1>1, <2>2
  <2>4. QED
    BY <2>2, <2>3, SeqEqual
<1>4. q = r
  <2>1. \A i \in (Len(b) + 1)..Len(s) : s[i] \in Nat
    BY <1>1, <1>2
  <2>2. Len(b) + 1 \in Int /\ Len(s) \in Int
    BY <1>1
  <2>3. /\ q \in Seq(Nat)
        /\ Len(q) = IF Len(b) + 1 <= Len(s) THEN Len(s) - (Len(b) + 1) + 1 ELSE 0
        /\ \A i \in 1..(Len(s) - (Len(b) + 1) + 1) : q[i] = s[(Len(b) + 1) + i - 1]
    BY <2>1, <2>2, SubSeqProperties
  <2> HIDE DEF q
  <2>4. Len(q) = Len(r) /\ Len(s) - (Len(b) + 1) + 1 = Len(r)
    BY <1>1, <2>3
  <2>5. \A i \in 1..Len(r) : (Len(b) + 1) + i - 1 = Len(b) + i
    BY <1>1
  <2>6. \A i \in 1..Len(q) : q[i] = r[i]
    BY <1>1, <2>3, <2>4, <2>5
  <2>7. QED
    BY <2>3, <2>4, <2>6, SeqEqual
<1>5. QED
  BY <1>3, <1>4 DEF s

LEMMA InHalves ==
  ASSUME NEW b \in Seq(Nat), NEW r \in Seq(Nat)
  PROVE  /\ {(b \o r)[i] : i \in 1..Len(b)} = ToSet(b)
         /\ {(b \o r)[i] : i \in (Len(b) + 1)..Len(b \o r)} = ToSet(r)
<1> DEFINE s == b \o r
           l == Len(b)
           m == Len(r)
<1>1. /\ l \in Nat /\ m \in Nat /\ Len(s) = l + m
      /\ \A i \in 1..l : s[i] = b[i]
      /\ \A i \in 1..m : s[l + i] = r[i]
  BY Joined
<1>2. ToSet(b) = {b[i] : i \in 1..l} /\ ToSet(r) = {r[i] : i \in 1..m}
  BY LenProperties DEF ToSet
<1> HIDE DEF s, l, m
<1>3. {s[i] : i \in 1..l} = {b[i] : i \in 1..l}
  BY <1>1
<1>4. {s[i] : i \in (l + 1)..Len(s)} = {r[i] : i \in 1..m}
  <2>1. \A i \in 1..m : l + i \in (l + 1)..Len(s) /\ s[l + i] = r[i]
    BY <1>1
  <2>2. \A i \in (l + 1)..Len(s) : i - l \in 1..m /\ l + (i - l) = i
    BY <1>1
  <2>3. \A i \in (l + 1)..Len(s) : \E j \in 1..m : s[i] = r[j]
    BY <2>1, <2>2
  <2>4. \A j \in 1..m : \E i \in (l + 1)..Len(s) : r[j] = s[i]
    BY <2>1
  <2>5. ASSUME NEW x \in {s[i] : i \in (l + 1)..Len(s)} PROVE x \in {r[j] : j \in 1..m}
    <3>1. PICK i \in (l + 1)..Len(s) : x = s[i]
      OBVIOUS
    <3>2. QED
      BY <2>3, <3>1
  <2>6. ASSUME NEW x \in {r[j] : j \in 1..m} PROVE x \in {s[i] : i \in (l + 1)..Len(s)}
    <3>1. PICK j \in 1..m : x = r[j]
      OBVIOUS
    <3>2. QED
      BY <2>4, <3>1
  <2>7. QED
    BY <2>5, <2>6
<1>5. QED
  BY <1>2, <1>3, <1>4 DEF s, l, m
LEMMA ToSetJoined ==
  ASSUME NEW b \in Seq(Nat), NEW r \in Seq(Nat)
  PROVE  ToSet(b \o r) = ToSet(b) \cup ToSet(r)
<1>1. /\ Len(b) \in Nat /\ Len(b \o r) \in Nat /\ Len(b) <= Len(b \o r)
      /\ b \o r \in Seq(Nat)
  BY Joined
<1>2. ToSet(b \o r) = {(b \o r)[i] : i \in 1..Len(b \o r)}
  BY <1>1, LenProperties DEF ToSet
<1>3. 1..Len(b \o r) = 1..Len(b) \cup (Len(b) + 1)..Len(b \o r)
  BY <1>1
<1>4. {(b \o r)[i] : i \in 1..Len(b \o r)}
        = {(b \o r)[i] : i \in 1..Len(b)} \cup
          {(b \o r)[i] : i \in (Len(b) + 1)..Len(b \o r)}
  BY <1>3
<1>5. QED
  BY <1>2, <1>4, InHalves

LEMMA ToSetNat ==
  ASSUME NEW b \in Seq(Nat)
  PROVE  ToSet(b) \in SUBSET Nat
BY DEF ToSet
-----------------------------------------------------------------------------
LEMMA Length ==
  ASSUME NEW b \in Seq(Nat), b # <<>>
  PROVE  Len(b) \in Nat /\ Len(b) # 0
BY EmptySeq

(* The first piece, of events b, is written; is lost; or the last is lost. *)
LEMMA IsWrite ==
  ASSUME NEW b \in Seq(Nat), NEW r \in Seq(Nat), b # <<>>,
         Waiting = b \o r, Waiting' = r, rows' = rows \o b,
         UNCHANGED <<dropped, found>>
  PROVE  Promise!Write
<1>1. Len(b) \in 1..Len(b \o r)
  BY Joined, Length
<1>2. b = SubSeq(Waiting, 1, Len(b)) /\ r = SubSeq(Waiting, Len(b) + 1, Len(Waiting))
  BY Halves
<1>3. \E k \in 1..Len(Waiting) :
        /\ rows' = rows \o SubSeq(Waiting, 1, k)
        /\ Waiting' = SubSeq(Waiting, k + 1, Len(Waiting))
  BY <1>1, <1>2
<1>4. QED
  BY <1>3 DEF Promise!Write, Waiting

LEMMA IsLoseOldest ==
  ASSUME NEW b \in Seq(Nat), NEW r \in Seq(Nat), b # <<>>,
         Waiting = b \o r, Waiting' = r, dropped' = dropped \cup ToSet(b),
         UNCHANGED <<rows, found>>
  PROVE  Promise!LoseOldest
<1>1. Len(b) \in 1..Len(b \o r)
  BY Joined, Length
<1>2. /\ r = SubSeq(b \o r, Len(b) + 1, Len(b \o r))
      /\ ToSet(b) = {(b \o r)[i] : i \in 1..Len(b)}
  <2>1. r = SubSeq(b \o r, Len(b) + 1, Len(b \o r))
    BY Halves
  <2>2. ToSet(b) = {(b \o r)[i] : i \in 1..Len(b)}
    BY InHalves
  <2>3. QED
    BY <2>1, <2>2
<1>3. \E k \in 1..Len(Waiting) :
        /\ dropped' = dropped \cup {Waiting[i] : i \in 1..k}
        /\ Waiting' = SubSeq(Waiting, k + 1, Len(Waiting))
  BY <1>1, <1>2
<1>4. QED
  BY <1>3 DEF Promise!LoseOldest, Waiting

LEMMA IsLoseNewest ==
  ASSUME NEW b \in Seq(Nat), NEW r \in Seq(Nat), r # <<>>,
         Waiting = b \o r, Waiting' = b, dropped' = dropped \cup ToSet(r),
         UNCHANGED <<rows, found>>
  PROVE  Promise!LoseNewest
<1>1. Len(b) \in 0..(Len(b \o r) - 1)
  BY Joined, Length
<1>2. /\ b = SubSeq(Waiting, 1, Len(b))
      /\ ToSet(r) = {Waiting[i] : i \in (Len(b) + 1)..Len(Waiting)}
  BY Halves, InHalves
<1>3. \E k \in 0..(Len(Waiting) - 1) :
        /\ dropped' = dropped \cup {Waiting[i] : i \in (k + 1)..Len(Waiting)}
        /\ Waiting' = SubSeq(Waiting, 1, k)
  BY <1>1, <1>2
<1>4. QED
  BY <1>3 DEF Promise!LoseNewest, Waiting

(* A flush of b, when r is what is behind it. *)
LEMMA FlushSteps ==
  ASSUME rows \in Seq(Nat), NEW b \in Seq(Nat), NEW r \in Seq(Nat),
         Waiting = b \o r, Waiting' = r, Flush(b), UNCHANGED found
  PROVE  [Promise!Next]_Promise!eventVars
<1>1. CASE b = <<>>
  <2>0. ToSet(b) = {}
    BY <1>1 DEF ToSet
  <2>1. rows' = rows /\ dropped' = dropped
    BY <1>1, <2>0, ConcatEmptySeq DEF Flush, Written
  <2>2. Waiting' = Waiting
    BY <1>1, ConcatEmptySeq
  <2>3. QED
    BY <2>1, <2>2 DEF Promise!eventVars, Waiting
<1>2. CASE b # <<>> /\ rows' = rows \o b /\ dropped' = dropped
  BY <1>2, IsWrite DEF Promise!Next
<1>3. CASE b # <<>> /\ dropped' = dropped \cup ToSet(b) /\ rows' = rows
  BY <1>3, IsLoseOldest DEF Promise!Next
<1>4. QED
  BY <1>1, <1>2, <1>3 DEF Flush, Written

LEMMA FlushTyped ==
  ASSUME rows \in Seq(Nat), dropped \in SUBSET Nat, NEW b \in Seq(Nat), Flush(b)
  PROVE  batch' \in Seq(Nat) /\ rows' \in Seq(Nat) /\ dropped' \in SUBSET Nat
<1>1. rows \o b \in Seq(Nat) /\ ToSet(b) \in SUBSET Nat
  BY Joined, ToSetNat
<1>2. dropped \cup ToSet(b) \in SUBSET Nat
  BY <1>1
<1>3. batch' = <<>> /\ <<>> \in Seq(Nat)
  BY DEF Flush, AfterFlush
<1>4. \/ rows' = rows \o b /\ dropped' = dropped
      \/ rows' = rows /\ dropped' = dropped \cup ToSet(b)
  BY DEF Flush, Written
<1>5. CASE rows' = rows \o b /\ dropped' = dropped
  BY <1>1, <1>3, <1>5
<1>6. CASE rows' = rows /\ dropped' = dropped \cup ToSet(b)
  BY <1>2, <1>3, <1>6
<1>7. QED
  BY <1>4, <1>5, <1>6

LEMMA SameEvents ==
  ASSUME UNCHANGED <<rows, dropped, found>>, Waiting' = Waiting
  PROVE  [Promise!Next]_Promise!eventVars
BY DEF Promise!eventVars, Waiting
-----------------------------------------------------------------------------
LEMMA FindSteps ==
  ASSUME OnlySeqs, Find
  PROVE  [Promise!Next]_Promise!eventVars
<1>1. found + 1 \in Nat /\ <<found + 1>> \in Seq(Nat)
  BY DEF OnlySeqs
<1>2. batch \o chan \in Seq(Nat) /\ outbox \in Seq(Nat)
  BY Joined DEF OnlySeqs
<1>3. /\ Waiting \in Seq(Nat)
      /\ (batch \o chan) \o (outbox \o <<found + 1>>) = Waiting \o <<found + 1>>
  BY <1>1, <1>2, Assoc, Joined DEF Waiting
<1>4. /\ Append(outbox, found + 1) = outbox \o <<found + 1>>
      /\ Append(Waiting, found + 1) = Waiting \o <<found + 1>>
  BY <1>1, <1>2, <1>3, AppendIsConcat
<1>5. /\ Waiting' = Append(Waiting, found + 1)
      /\ found' = found + 1 /\ rows' = rows /\ dropped' = dropped
  BY <1>3, <1>4 DEF Find, Waiting
<1>6. QED
  BY <1>5 DEF Promise!Next, Promise!Find, Waiting

(* To move the head of one piece to the end of the one before it. *)
LEMMA MoveHead ==
  ASSUME NEW s \in Seq(Nat), NEW t \in Seq(Nat), t # <<>>
  PROVE  /\ Append(s, Head(t)) \in Seq(Nat) /\ Append(s, Head(t)) # <<>>
         /\ Tail(t) \in Seq(Nat)
         /\ Append(s, Head(t)) \o Tail(t) = s \o t
<1>1. Head(t) \in Nat /\ Tail(t) \in Seq(Nat) /\ <<Head(t)>> \in Seq(Nat)
  BY HeadTailProperties
<1>2. Append(s, Head(t)) = s \o <<Head(t)>>
  BY <1>1, AppendIsConcat
<1>3. <<Head(t)>> \o Tail(t) = t
  <2>1. Len(t) \in Nat /\ Len(t) # 0
    BY Length
  <2>2. 1 \in 1..Len(t) /\ Len(t) \in 1..Len(t)
    BY <2>1
  <2>3. SubSeq(t, 1, Len(t)) = <<t[1]>> \o SubSeq(t, 1 + 1, Len(t))
    BY <2>2, SubSeqRecursiveFirst
  <2>4. Tail(t) = SubSeq(t, 2, Len(t)) /\ SubSeq(t, 1, Len(t)) = t /\ Head(t) = t[1]
    BY TailIsSubSeq, SubSeqFull
  <2>5. QED
    BY <2>3, <2>4
<1>4. (s \o <<Head(t)>>) \o Tail(t) = s \o (<<Head(t)>> \o Tail(t))
  BY <1>1, Assoc
<1>5. Append(s, Head(t)) \in Seq(Nat) /\ Append(s, Head(t)) # <<>>
  BY <1>1, AppendProperties
<1>6. QED
  BY <1>1, <1>2, <1>3, <1>4, <1>5

LEMMA SendSteps ==
  ASSUME OnlySeqs, SendOne
  PROVE  [Promise!Next]_Promise!eventVars
<1>1. /\ outbox # <<>> /\ chan' = Append(chan, Head(outbox)) /\ outbox' = Tail(outbox)
      /\ UNCHANGED <<batch, rows, dropped, found>>
  BY DEF SendOne
<1>2. /\ chan \in Seq(Nat) /\ outbox \in Seq(Nat) /\ batch \in Seq(Nat)
  BY DEF OnlySeqs
<1>3. /\ chan' \in Seq(Nat) /\ outbox' \in Seq(Nat)
      /\ chan' \o outbox' = chan \o outbox
  BY <1>1, <1>2, MoveHead
<1>4. /\ (batch \o chan') \o outbox' = batch \o (chan' \o outbox')
      /\ (batch \o chan) \o outbox = batch \o (chan \o outbox)
  BY <1>2, <1>3, Assoc
<1>5. Waiting' = Waiting
  BY <1>1, <1>3, <1>4 DEF Waiting
<1>6. QED
  BY <1>1, <1>5, SameEvents

LEMMA CloseSteps ==
  ASSUME OnlySeqs, CloseChannel
  PROVE  [Promise!Next]_Promise!eventVars
<1>1. /\ outbox' = <<>> /\ dropped' = dropped \cup ToSet(outbox)
      /\ UNCHANGED <<chan, batch, rows, found>>
  BY DEF CloseChannel
<1>2. batch \o chan \in Seq(Nat) /\ outbox \in Seq(Nat)
  BY Joined DEF OnlySeqs
<1>3. Waiting' = batch \o chan /\ Waiting = (batch \o chan) \o outbox
  BY <1>1, <1>2, ConcatEmptySeq DEF Waiting
<1>4. CASE outbox = <<>>
  <2>1. ToSet(outbox) = {}
    BY <1>4 DEF ToSet
  <2>2. dropped' = dropped /\ Waiting' = Waiting
    BY <1>1, <1>2, <1>3, <1>4, <2>1, ConcatEmptySeq
  <2>3. QED
    BY <1>1, <2>2, SameEvents
<1>5. CASE outbox # <<>>
  BY <1>1, <1>2, <1>3, <1>5, IsLoseNewest DEF Promise!Next
<1>6. QED
  BY <1>4, <1>5

LEMMA ReceiveSteps ==
  ASSUME OnlySeqs, Receive
  PROVE  [Promise!Next]_Promise!eventVars
<1> DEFINE b == Append(batch, Head(chan))
<1>1. /\ chan # <<>> /\ chan' = Tail(chan) /\ outbox' = outbox /\ found' = found
      /\ IF Full(b) THEN Flush(b) ELSE batch' = b /\ UNCHANGED <<rows, dropped>>
  BY DEF Receive
<1>2. /\ chan \in Seq(Nat) /\ outbox \in Seq(Nat) /\ batch \in Seq(Nat)
      /\ rows \in Seq(Nat)
  BY DEF OnlySeqs
<1>3. b \in Seq(Nat) /\ Tail(chan) \in Seq(Nat) /\ b \o Tail(chan) = batch \o chan
  BY <1>1, <1>2, MoveHead
<1> HIDE DEF b
<1>4. CASE Full(b)
  <2>1. Tail(chan) \o outbox \in Seq(Nat)
    BY <1>2, <1>3, Joined
  <2>2. (b \o Tail(chan)) \o outbox = b \o (Tail(chan) \o outbox)
    BY <1>2, <1>3, Assoc
  <2>3. Flush(b)
    BY <1>1, <1>4
  <2>4. Waiting = b \o (Tail(chan) \o outbox)
    BY <1>3, <2>2 DEF Waiting
  <2>5. batch' = <<>>
    BY <2>3 DEF Flush, AfterFlush
  <2>6. <<>> \o Tail(chan) = Tail(chan)
    BY <1>3, ConcatEmptySeq
  <2>7. Waiting' = Tail(chan) \o outbox
    BY <1>1, <2>5, <2>6 DEF Waiting
  <2>8. QED
    BY <1>1, <1>2, <1>3, <2>1, <2>3, <2>4, <2>7, FlushSteps
<1>5. CASE ~ Full(b)
  <2>1. batch' = b /\ UNCHANGED <<rows, dropped>>
    BY <1>1, <1>5
  <2>2. Waiting' = Waiting
    BY <1>1, <1>3, <2>1 DEF Waiting
  <2>3. QED
    BY <1>1, <2>1, <2>2, SameEvents
<1>6. QED
  BY <1>4, <1>5

(* A flush of the whole batch: by the ticker, or when the consumer stops. *)
LEMMA FlushBatch ==
  ASSUME OnlySeqs, Flush(batch), UNCHANGED <<chan, outbox, found>>
  PROVE  [Promise!Next]_Promise!eventVars
<1>1. /\ chan \in Seq(Nat) /\ outbox \in Seq(Nat) /\ batch \in Seq(Nat)
      /\ rows \in Seq(Nat)
  BY DEF OnlySeqs
<1>2. chan \o outbox \in Seq(Nat)
  BY <1>1, Joined
<1>3. (batch \o chan) \o outbox = batch \o (chan \o outbox)
  BY <1>1, Assoc
<1>4. batch' = <<>> /\ <<>> \o chan = chan
  BY <1>1, ConcatEmptySeq DEF Flush, AfterFlush
<1>5. Waiting = batch \o (chan \o outbox) /\ Waiting' = chan \o outbox
  BY <1>3, <1>4 DEF Waiting
<1>6. QED
  BY <1>1, <1>2, <1>5, FlushSteps

LEMMA EndSteps ==
  ASSUME OnlySeqs, PipeEnds
  PROVE  [Promise!Next]_Promise!eventVars
<1>1. /\ dropped' = dropped \cup ToSet(outbox \o chan \o batch)
      /\ outbox' = <<>> /\ chan' = <<>> /\ batch' = <<>>
      /\ UNCHANGED <<rows, found>>
  BY DEF PipeEnds
<1>2. /\ chan \in Seq(Nat) /\ outbox \in Seq(Nat) /\ batch \in Seq(Nat)
      /\ outbox \o chan \in Seq(Nat) /\ batch \o chan \in Seq(Nat)
      /\ Waiting \in Seq(Nat) /\ <<>> \in Seq(Nat)
  BY Joined DEF OnlySeqs, Waiting
<1>3. ToSet(outbox \o chan \o batch) = ToSet(Waiting)
  <2>1. ToSet(outbox \o chan) = ToSet(outbox) \cup ToSet(chan)
    BY <1>2, ToSetJoined
  <2>2. ToSet((outbox \o chan) \o batch) = ToSet(outbox \o chan) \cup ToSet(batch)
    BY <1>2, ToSetJoined
  <2>3. ToSet(batch \o chan) = ToSet(batch) \cup ToSet(chan)
    BY <1>2, ToSetJoined
  <2>4. ToSet((batch \o chan) \o outbox) = ToSet(batch \o chan) \cup ToSet(outbox)
    BY <1>2, ToSetJoined
  <2>5. QED
    BY <2>1, <2>2, <2>3, <2>4 DEF Waiting
<1>4. Waiting' = <<>> /\ Waiting = Waiting \o <<>>
  <2>1. <<>> \o <<>> = <<>>
    BY <1>2, ConcatEmptySeq
  <2>2. Waiting \o <<>> = Waiting
    BY <1>2, ConcatEmptySeq
  <2>3. QED
    BY <1>1, <2>1, <2>2 DEF Waiting
<1>5. CASE Waiting = <<>>
  <2>1. ToSet(Waiting) = {}
    BY <1>5 DEF ToSet
  <2>2. QED
    BY <1>1, <1>3, <1>4, <1>5, <2>1, SameEvents
<1>6. CASE Waiting # <<>>
  <2>1. dropped' = dropped \cup ToSet(Waiting)
    BY <1>1, <1>3
  <2>2. QED
    BY <1>1, <1>2, <1>4, <1>6, <2>1, IsLoseOldest DEF Promise!Next
<1>7. QED
  BY <1>5, <1>6
-----------------------------------------------------------------------------
PipeNext ==
  \/ Find \/ SendOne \/ CloseChannel
  \/ Receive \/ Tick \/ ConsumerStops
  \/ \E started \in BOOLEAN : PipeStarts(started)
  \/ Shutdown \/ PipeEnds
  \/ UNCHANGED pipeVars

(* Whatever the pipeline does is something the event log does. *)
LEMMA PipeSteps ==
  ASSUME OnlySeqs, PipeNext
  PROVE  [Promise!Next]_Promise!eventVars
<1>1. CASE Tick \/ ConsumerStops
  BY <1>1, FlushBatch DEF Tick, ConsumerStops
<1>2. CASE (\E started \in BOOLEAN : PipeStarts(started)) \/ Shutdown \/ UNCHANGED pipeVars
  <2>1. UNCHANGED <<rows, dropped, found, batch, chan, outbox>>
    BY <1>2 DEF PipeStarts, Shutdown, pipeVars
  <2>2. QED
    BY <2>1, SameEvents DEF Waiting
<1>3. QED
  BY <1>1, <1>2, FindSteps, SendSteps, CloseSteps, ReceiveSteps, EndSteps DEF PipeNext

(* The pieces stay sequences of event numbers. *)
LEMMA PipeTyped ==
  ASSUME OnlySeqs, PipeNext
  PROVE  OnlySeqs'
<1>1. CASE Find
  BY <1>1, AppendProperties DEF Find, OnlySeqs
<1>2. CASE SendOne
  BY <1>2, MoveHead DEF SendOne, OnlySeqs
<1>3. CASE CloseChannel
  <2>1. /\ outbox' = <<>> /\ dropped' = dropped \cup ToSet(outbox)
        /\ UNCHANGED <<chan, batch, rows, found>>
    BY <1>3 DEF CloseChannel
  <2>2. ToSet(outbox) \in SUBSET Nat
    BY ToSetNat DEF OnlySeqs
  <2>3. dropped' \in SUBSET Nat
    BY <2>1, <2>2 DEF OnlySeqs
  <2>4. <<>> \in Seq(Nat)
    OBVIOUS
  <2>5. QED
    BY <2>1, <2>3, <2>4 DEF OnlySeqs
<1>4. CASE Receive
  <2> DEFINE b == Append(batch, Head(chan))
  <2>1. b \in Seq(Nat) /\ Tail(chan) \in Seq(Nat)
    BY <1>4, MoveHead DEF Receive, OnlySeqs
  <2>2. /\ chan' = Tail(chan) /\ outbox' = outbox /\ found' = found
        /\ IF Full(b) THEN Flush(b) ELSE batch' = b /\ UNCHANGED <<rows, dropped>>
    BY <1>4 DEF Receive
  <2> HIDE DEF b
  <2>3. batch' \in Seq(Nat) /\ rows' \in Seq(Nat) /\ dropped' \in SUBSET Nat
    <3>1. CASE Full(b)
      BY <2>1, <2>2, <3>1, FlushTyped DEF OnlySeqs
    <3>2. CASE ~ Full(b)
      BY <2>1, <2>2, <3>2 DEF OnlySeqs
    <3>3. QED
      BY <3>1, <3>2
  <2>4. QED
    BY <2>1, <2>2, <2>3 DEF OnlySeqs
<1>5. CASE Tick \/ ConsumerStops
  <2>1. Flush(batch) /\ UNCHANGED <<outbox, chan, found>>
    BY <1>5 DEF Tick, ConsumerStops
  <2>2. QED
    BY <2>1, FlushTyped DEF OnlySeqs
<1>6. CASE (\E started \in BOOLEAN : PipeStarts(started)) \/ Shutdown \/ UNCHANGED pipeVars
  BY <1>6 DEF PipeStarts, Shutdown, pipeVars, OnlySeqs
<1>7. CASE PipeEnds
  <2>1. outbox \o chan \o batch \in Seq(Nat)
    BY Joined DEF OnlySeqs
  <2>2. ToSet(outbox \o chan \o batch) \in SUBSET Nat
    BY <2>1, ToSetNat
  <2>3. /\ outbox' = <<>> /\ chan' = <<>> /\ batch' = <<>>
        /\ dropped' = dropped \cup ToSet(outbox \o chan \o batch)
        /\ UNCHANGED <<rows, found>>
    BY <1>7 DEF PipeEnds
  <2>4. dropped' \in SUBSET Nat
    BY <2>2, <2>3 DEF OnlySeqs
  <2>5. <<>> \in Seq(Nat)
    OBVIOUS
  <2>6. QED
    BY <2>3, <2>4, <2>5 DEF OnlySeqs
<1>8. QED
  BY <1>1, <1>2, <1>3, <1>4, <1>5, <1>6, <1>7 DEF PipeNext

LEMMA PipeBegins ==
  ASSUME PipeInit
  PROVE  OnlySeqs /\ Promise!Init
<1>1. <<>> \o <<>> \o <<>> = <<>>
  OBVIOUS
<1>2. QED
  BY <1>1 DEF PipeInit, OnlySeqs, Promise!Init
-----------------------------------------------------------------------------
(* The bounds of the channel and of the batch, and the rest of the types. *)
Bounded ==
  /\ phase \in {"down", "up", "cancelled", "closed"}
  /\ Len(chan) <= ChanCap /\ Len(batch) < BatchMax
  /\ closed \in BOOLEAN
  /\ consumer \in {"idle", "running", "done"}
  /\ alerts \in SUBSET Sensitive /\ matchRows \in SUBSET alerts

LEMMA PipeTypeIs == PipeTypeOK <=> OnlySeqs /\ Bounded
BY DEF PipeTypeOK, OnlySeqs, Bounded

LEMMA EmptyBounds ==
  Len(<<>>) <= ChanCap /\ Len(<<>>) < BatchMax
BY PipeAssumption

LEMMA FlushBounds ==
  ASSUME NEW b, Flush(b)
  PROVE  Len(batch') < BatchMax
BY EmptyBounds DEF Flush, AfterFlush

LEMMA ReceiveBounds ==
  ASSUME OnlySeqs, Bounded, Receive
  PROVE  Bounded'
<1> DEFINE b == Append(batch, Head(chan))
<1>1. /\ chan \in Seq(Nat) /\ chan # <<>> /\ chan' = Tail(chan)
      /\ IF Full(b) THEN Flush(b) ELSE batch' = b
      /\ Evaluate(Head(chan))
      /\ UNCHANGED <<phase, closed, consumer>>
  BY DEF Receive, OnlySeqs
<1>2. Len(chan') <= ChanCap
  <2>1. Len(chan) \in Nat /\ Len(chan) # 0 /\ Len(chan) <= ChanCap
    BY <1>1, Length DEF Bounded
  <2>2. Len(Tail(chan)) = Len(chan) - 1
    BY <1>1, HeadTailProperties
  <2>3. QED
    BY <1>1, <2>1, <2>2, PipeAssumption
<1>3. Len(batch') < BatchMax
  <2>1. b \in Seq(Nat)
    BY <1>1, MoveHead DEF OnlySeqs
  <2> HIDE DEF b
  <2>2. CASE Full(b)
    BY <1>1, <2>2, FlushBounds
  <2>3. CASE ~ Full(b)
    <3>1. batch' = b /\ ~ Len(b) >= BatchMax
      BY <1>1, <2>3 DEF Full
    <3>2. Len(b) \in Nat /\ BatchMax \in Nat
      BY <2>1, LenProperties, PipeAssumption
    <3>3. QED
      BY <3>1, <3>2
  <2>4. QED
    BY <2>2, <2>3
<1>4. alerts' \in SUBSET Sensitive /\ matchRows' \in SUBSET alerts'
  BY <1>1 DEF Evaluate, Bounded
<1>5. QED
  BY <1>1, <1>2, <1>3, <1>4 DEF Bounded

LEMMA PipeBounds ==
  ASSUME OnlySeqs, Bounded, PipeNext
  PROVE  Bounded'
<1>1. CASE Find \/ CloseChannel
  BY <1>1 DEF Find, CloseChannel, Bounded
<1>2. CASE SendOne
  <2>1. /\ outbox \in Seq(Nat) /\ outbox # <<>> /\ chan \in Seq(Nat)
        /\ Len(chan) < ChanCap /\ chan' = Append(chan, Head(outbox))
        /\ UNCHANGED <<phase, closed, consumer, batch, alerts, matchRows>>
    BY <1>2 DEF SendOne, OnlySeqs
  <2>2. Head(outbox) \in Nat
    BY <2>1, HeadTailProperties
  <2>3. Len(chan') = Len(chan) + 1 /\ Len(chan) \in Nat
    BY <2>1, <2>2, AppendProperties, LenProperties
  <2>4. Len(chan') <= ChanCap
    BY <2>1, <2>3, PipeAssumption
  <2>5. QED
    BY <2>1, <2>4 DEF Bounded
<1>3. CASE Receive
  BY <1>3, ReceiveBounds
<1>4. CASE Tick \/ ConsumerStops
  <2>1. Len(batch') < BatchMax
    BY <1>4, FlushBounds DEF Tick, ConsumerStops
  <2>2. QED
    BY <1>4, <2>1 DEF Tick, ConsumerStops, Bounded
<1>5. CASE (\E started \in BOOLEAN : PipeStarts(started)) \/ Shutdown \/ UNCHANGED pipeVars
  BY <1>5 DEF PipeStarts, Shutdown, pipeVars, Bounded
<1>6. CASE PipeEnds
  BY <1>6, EmptyBounds DEF PipeEnds, Bounded
<1>7. QED
  BY <1>1, <1>2, <1>3, <1>4, <1>5, <1>6 DEF PipeNext

(* The pipeline keeps its types, and so its bounds. *)
LEMMA PipeKeepsTypes ==
  ASSUME PipeTypeOK, PipeNext
  PROVE  PipeTypeOK'
BY PipeTypeIs, PipeTyped, PipeBounds DEF PipeTypeOK, OnlySeqs, Bounded

LEMMA PipeBeginsTyped ==
  ASSUME PipeInit
  PROVE  PipeTypeOK
<1>1. <<>> \in Seq(Nat)
  OBVIOUS
<1>2. QED
  BY <1>1, EmptyBounds DEF PipeInit, PipeTypeOK
-----------------------------------------------------------------------------
(* A family has its head, and every child of a member. *)
LEMMA FamilyIsClosed ==
  ASSUME NEW q
  PROVE  /\ Family(q) \subseteq Live
         /\ q \in Live => q \in Family(q)
         /\ \A d \in Live : parent[d] \in Family(q) => d \in Family(q)
<1> DEFINE Closed(F) == q \in F /\ \A d \in Live : parent[d] \in F => d \in F
<1>1. Family(q) = {c \in Live : \A F \in SUBSET Pids : Closed(F) => c \in F}
  BY DEF Family
<1>2. ASSUME NEW d \in Live, parent[d] \in Family(q) PROVE d \in Family(q)
  <2>1. \A F \in SUBSET Pids : Closed(F) => parent[d] \in F
    BY <1>1, <1>2
  <2>2. \A F \in SUBSET Pids : Closed(F) => d \in F
    BY <2>1
  <2>3. QED
    BY <1>1, <2>2
<1>3. QED
  BY <1>1, <1>2

(* Whoever gets a PID the daemon already deals with is tainted, the child of *)
(* a hook is one, and the child of a tainted process is tainted.             *)
LEMMA BornKeeps ==
  ASSUME HooksInv, NEW p \in Pids, NEW from \in Live \cup {Outside},
         Born(p, from, Held),
         hooked' = hooked \/ hooked' = hooked \cup {p},
         from \in hooked => p \in hooked',
         unsent' \subseteq hooked',
         UNCHANGED <<notices, tree, poll>>
  PROVE  HooksInv'
<1> USE ForestAssumption
<1>1. /\ p \notin Live
      /\ parent' = [parent EXCEPT ![p] = from]
      /\ parent \in [Pids -> Pids \cup {Outside, Gone}]
      /\ tree \subseteq Pids /\ notices \subseteq Pids /\ poll \in PollType
      /\ notices' = notices /\ tree' = tree /\ poll' = poll
  BY DEF HooksInv, Born, Live, Alive
<1>2. from \in Pids \cup {Outside} /\ from # Gone /\ Live \subseteq Pids
  BY DEF Live, Alive
<1>3. /\ parent' \in [Pids -> Pids \cup {Outside, Gone}]
      /\ parent'[p] = from
      /\ \A q \in Pids : q # p => parent'[q] = parent[q]
  BY <1>1, <1>2
<1>4. Live' = Live \cup {p}
  BY <1>2, <1>3 DEF Live, Alive
<1>5. \A c \in Live : parent[c] \in Pids => parent[c] \in Live
  BY DEF HooksInv, FamiliesAgree
<1> DEFINE misled == tainted \cup Misled(p, Held)
<1>6. /\ tainted' = misled \/ tainted' = misled \cup {p}
      /\ p \in tree \cup notices \cup {poll.pid} => p \in tainted'
      /\ from \in misled => p \in tainted'
  BY DEF Born, Held
<1>61. /\ misled \subseteq Live /\ tainted \subseteq misled
       /\ \A d \in Live : parent[d] \in misled => d \in misled
  <2>1. tainted \subseteq Live
    BY DEF HooksInv, Vouched
  <2>2. /\ Misled(p, Held) \subseteq Live
        /\ \A d \in Live : parent[d] \in Misled(p, Held) => d \in Misled(p, Held)
    BY FamilyIsClosed DEF Misled
  <2>3. \A d \in Live : parent[d] \in tainted => d \in tainted
    BY <1>2, <2>1 DEF HooksInv, FamiliesAgree
  <2>4. QED
    BY <2>1, <2>2, <2>3
<1>62. p = poll.ppid /\ poll.pid \in Live => poll.pid \in misled
  BY FamilyIsClosed DEF Misled, Held
<1> HIDE DEF misled
<1>63. Vouched \subseteq Vouched' /\ tainted \subseteq tainted'
  BY <1>6, <1>61 DEF Vouched
<1>7. Vouched' \subseteq Live'
  BY <1>4, <1>6, <1>61 DEF HooksInv, Vouched
<1>8. (tree' \cup notices') \cap Live' \subseteq Vouched'
  <2>1. (tree \cup notices) \cap Live \subseteq Vouched
    BY DEF HooksInv
  <2>2. p \in tree \cup notices => p \in Vouched'
    BY <1>6 DEF Vouched
  <2>3. QED
    BY <1>1, <1>4, <1>63, <2>1, <2>2
<1>9. FamiliesAgree'
  <2> SUFFICES ASSUME NEW c \in Live', parent'[c] \in Pids
               PROVE  /\ parent'[c] \in Live'
                      /\ parent'[c] \in hooked' => c \in hooked'
                      /\ parent'[c] \in tainted' => c \in tainted'
    BY DEF FamiliesAgree
  <2>1. CASE c = p
    <3>1. from \in Live /\ parent'[c] = from /\ from # p
      BY <1>1, <1>2, <1>3, <2>1, ForestAssumption
    <3>2. from \in hooked' => c \in hooked'
      BY <2>1, <3>1
    <3>3. from \in tainted' => c \in tainted'
      BY <1>6, <2>1, <3>1
    <3>4. QED
      BY <1>4, <3>1, <3>2, <3>3
  <2>2. CASE c # p
    <3>1. c \in Live /\ parent'[c] = parent[c] /\ parent[c] \in Live /\ parent[c] # p
      BY <1>1, <1>2, <1>3, <1>4, <1>5, <2>2
    <3>2. /\ parent[c] \in hooked => c \in hooked
          /\ parent[c] \in tainted => c \in tainted
      BY <1>2, <3>1 DEF HooksInv, FamiliesAgree
    <3>3. parent[c] \in hooked' => c \in hooked'
      BY <3>1, <3>2
    <3>4. parent[c] \in tainted' => c \in tainted'
      BY <1>6, <1>61, <3>1
    <3>5. QED
      BY <1>4, <3>1, <3>3, <3>4
  <2>3. QED
    BY <2>1, <2>2
<1>10. InHandAgrees'
  <2> SUFFICES ASSUME poll.pc = "add", poll.pid \in Live',
                      poll.ppid \in tree \cup notices \cup Vouched'
               PROVE  poll.pid \in Vouched'
    BY <1>1 DEF HooksInv, InHandAgrees
  <2>1. poll.pid \in Pids
    BY <1>2, <1>4
  <2>2. poll.ppid \in Pids
    BY <1>1, <1>2, <1>4, <1>7
  <2>3. CASE p \in {poll.pid, poll.ppid}
    BY <1>4, <1>6, <1>62, <2>3 DEF Vouched
  <2>4. CASE p \notin {poll.pid, poll.ppid}
    <3>1. Misled(p, Held) = {}
      BY <2>4 DEF Misled, Held
    <3>2. Vouched' \subseteq Vouched \cup {p}
      BY <1>6, <3>1 DEF Vouched, misled
    <3>3. QED
      BY <1>4, <1>63, <2>4, <3>2 DEF HooksInv, InHandAgrees
  <2>5. QED
    BY <2>3, <2>4
<1>11. QED
  BY <1>1, <1>3, <1>7, <1>8, <1>9, <1>10 DEF HooksInv

(* The end of a process leaves its children to a parent outside the forest. *)
LEMMA ExitKeeps ==
  ASSUME HooksInv, NEW p \in Pids, Exit(p), poll' = poll
  PROVE  HooksInv'
<1> USE ForestAssumption
<1>1. /\ parent' = [q \in Pids |-> IF q = p THEN Gone
                       ELSE IF parent[q] = p THEN Outside ELSE parent[q]]
      /\ hooked' = hooked \ {p} /\ unsent' = unsent \ {p}
      /\ tainted' = tainted \ {p}
      /\ notices' = notices /\ tree' = tree
  BY DEF Exit
<1>2. /\ parent \in [Pids -> Pids \cup {Outside, Gone}]
      /\ tree \subseteq Pids /\ notices \subseteq Pids /\ poll \in PollType
      /\ unsent \subseteq hooked /\ Vouched \subseteq Live
      /\ (tree \cup notices) \cap Live \subseteq Vouched
  BY DEF HooksInv
<1>3. parent' \in [Pids -> Pids \cup {Outside, Gone}]
  BY <1>1, <1>2
<1>4. Live' = Live \ {p} /\ Live \subseteq Pids
  BY <1>1, <1>2 DEF Live, Alive
<1>5. Vouched' = Vouched \ {p}
  BY <1>1 DEF Vouched
<1>6. FamiliesAgree'
  <2> SUFFICES ASSUME NEW c \in Live', parent'[c] \in Pids
               PROVE  /\ parent'[c] \in Live'
                      /\ parent'[c] \in hooked' => c \in hooked'
                      /\ parent'[c] \in tainted' => c \in tainted'
    BY DEF FamiliesAgree
  <2>1. c \in Live /\ c # p /\ parent'[c] = parent[c] /\ parent[c] # p
    BY <1>1, <1>4
  <2>2. QED
    BY <1>1, <1>4, <2>1 DEF HooksInv, FamiliesAgree
<1>7. InHandAgrees'
  BY <1>1, <1>4, <1>5 DEF HooksInv, InHandAgrees
<1>8. QED
  BY <1>1, <1>2, <1>3, <1>4, <1>5, <1>6, <1>7 DEF HooksInv

(* A step that changes no family: what the tree and the notices may become. *)
LEMMA FamiliesKept ==
  ASSUME HooksInv, parent' = parent, hooked' = hooked, tainted' = tainted,
         unsent' \subseteq unsent,
         tree' \subseteq Pids, notices' \subseteq Pids,
         (tree' \cup notices') \cap Live \subseteq Vouched,
         poll' \in PollType, InHandAgrees'
  PROVE  HooksInv'
<1>1. Live' = Live /\ Vouched' = Vouched
  BY DEF Live, Alive, Vouched
<1>2. FamiliesAgree'
  BY <1>1 DEF HooksInv, FamiliesAgree
<1>3. QED
  BY <1>1, <1>2 DEF HooksInv

LEMMA SystemKeeps ==
  ASSUME HooksInv, System
  PROVE  HooksInv'
<1>0. /\ poll' = poll /\ unsent \subseteq hooked
      /\ Live \subseteq Pids
  BY DEF System, HooksInv, Live
<1>1. ASSUME NEW p \in Pids, SpawnOther(p, Held)
      PROVE  HooksInv'
  <2>1. Outside \notin hooked
    BY <1>0, ForestAssumption DEF HooksInv, Vouched
  <2>2. QED
    BY <1>0, <1>1, <2>1, BornKeeps DEF SpawnOther
<1>2. ASSUME NEW p \in Pids, SpawnHook(p, Held)
      PROVE  HooksInv'
  BY <1>0, <1>2, BornKeeps DEF SpawnHook
<1>3. ASSUME NEW p \in Pids, Exit(p)
      PROVE  HooksInv'
  BY <1>0, <1>3, ExitKeeps
<1>4. ASSUME NEW p \in Pids, Notify(p, Listening)
      PROVE  HooksInv'
  <2>1. /\ parent' = parent /\ hooked' = hooked /\ tainted' = tainted
        /\ tree' = tree /\ unsent' \subseteq unsent
        /\ notices' \subseteq notices \cup {p} /\ p \in hooked
    BY <1>0, <1>4 DEF Notify
  <2>2. p \in Vouched
    BY <2>1 DEF Vouched
  <2>3. Live' = Live /\ Vouched' = Vouched
    BY <2>1 DEF Live, Alive, Vouched
  <2>4. InHandAgrees'
    BY <1>0, <2>1, <2>2, <2>3 DEF HooksInv, InHandAgrees
  <2>5. QED
    BY <1>0, <2>1, <2>2, <2>4, FamiliesKept DEF HooksInv
<1>5. ASSUME NEW p \in Pids, NEW c \in Pids, Fork(p, c, Held)
      PROVE  HooksInv'
  <2>1. /\ p \in Live /\ Born(c, p, Held)
        /\ hooked' = hooked \/ hooked' = hooked \cup {c}
        /\ p \in hooked => c \in hooked'
        /\ unsent' = unsent /\ UNCHANGED <<notices, tree>>
    BY <1>5 DEF Fork, Live
  <2>2. QED
    BY <1>0, <2>1, BornKeeps
<1>6. QED
  BY <1>1, <1>2, <1>3, <1>4, <1>5 DEF System, SystemNext

LEMMA HooksInvStep ==
  ASSUME HooksInv, [Next]_vars
  PROVE  HooksInv'
<1> USE ForestAssumption
<1>0. /\ poll \in PollType /\ tree \subseteq Pids /\ notices \subseteq Pids
      /\ (tree \cup notices) \cap Live \subseteq Vouched
      /\ InHandAgrees /\ Live \subseteq Pids
  BY DEF HooksInv, Live
(* The tree or the notices change, the hand of the poll does not. *)
<1>1. ASSUME UNCHANGED <<parent, hooked, unsent, tainted>>,
             tree' \cup notices' \subseteq tree \cup notices,
             poll' \in PollType,
             poll' = poll \/ poll'.pc # "add"
      PROVE  HooksInv'
  <2>1. Live' = Live /\ Vouched' = Vouched
    BY <1>1 DEF Live, Alive, Vouched
  <2>2. InHandAgrees'
    BY <1>0, <1>1, <2>1 DEF InHandAgrees
  <2>3. QED
    BY <1>0, <1>1, <2>2, FamiliesKept
<1>2. CASE Register
  BY <1>0, <1>1, <1>2 DEF Register, AddRoot, osVars, backendVars
<1>3. ASSUME UNCHANGED <<forestVars, poll>>
      PROVE  HooksInv'
  BY <1>0, <1>1, <1>3 DEF forestVars
<1>4. CASE StartDaemon
  <2>1. poll' \in PollType /\ poll'.pc # "add"
    BY <1>4 DEF StartDaemon, Idle, NoPoll, PollType
  <2>2. QED
    BY <1>1, <1>4, <2>1 DEF StartDaemon, forestVars
<1>5. CASE StartPoll
  <2> DEFINE r == [Idle EXCEPT !.pc = "scan", !.todo = ToVisit, !.snap = Live]
  <2>1. ToVisit \in SUBSET Pids /\ Live \in SUBSET Pids
    BY <1>0 DEF ToVisit
  <2>2. r \in PollType /\ r.pc = "scan"
    BY <2>1 DEF Idle, PollType
  <2>3. poll' = r /\ UNCHANGED <<parent, hooked, unsent, notices, tree, tainted>>
    BY <1>5 DEF StartPoll
  <2> HIDE DEF r
  <2>4. QED
    BY <1>1, <2>2, <2>3
<1>6. ASSUME NEW p \in Pids, ReadPPID(p)
      PROVE  HooksInv'
  <2>1. UNCHANGED <<parent, hooked, unsent, notices, tree, tainted>>
    BY <1>6 DEF ReadPPID, forestVars
  <2>2. CASE ~ Alive(p)
    <3>1. poll' \in PollType /\ poll'.pc # "add"
      BY <1>0, <1>6, <2>2 DEF ReadPPID, PollType
    <3>2. QED
      BY <1>1, <2>1, <3>1
  <2>3. CASE Alive(p)
    <3>0. parent[p] \in Pids \cup {Outside, Gone} /\ p \in Live
      BY <2>3 DEF HooksInv, Live
    <3>1. poll' \in PollType /\ poll'.pid = p /\ poll'.ppid = parent[p]
      BY <1>0, <1>6, <2>3, <3>0 DEF ReadPPID, PollType
    <3>2. Live' = Live /\ Vouched' = Vouched
      BY <2>1 DEF Live, Alive, Vouched
    <3>3. parent[p] \in Pids =>
            /\ parent[p] \in Live
            /\ parent[p] \in hooked => p \in hooked
            /\ parent[p] \in tainted => p \in tainted
      BY <3>0 DEF HooksInv, FamiliesAgree
    <3>4. parent[p] \in tree \cup notices \cup Vouched => p \in Vouched
      <4>1. parent[p] \in tree \cup notices \cup Vouched => parent[p] \in Pids
        BY <1>0 DEF HooksInv
      <4>2. QED
        BY <1>0, <3>3, <4>1 DEF Vouched
    <3>5. InHandAgrees'
      BY <2>1, <3>1, <3>2, <3>4 DEF InHandAgrees
    <3>6. QED
      BY <1>0, <2>1, <3>1, <3>5, FamiliesKept
  <2>4. QED
    BY <2>2, <2>3
<1>7. CASE AddChild
  <2>1. UNCHANGED <<parent, hooked, unsent, notices, tainted>>
        /\ tree' = AfterAddChild(poll.pid, poll.ppid) /\ poll.pc = "add"
    BY <1>7 DEF AddChild, osVars
  <2>2. poll' \in PollType /\ poll'.pc = "scan"
    BY <1>0, <1>7 DEF AddChild, PollType
  <2>3. tree' \subseteq tree \cup {poll.pid}
        /\ (tree' # tree => poll.ppid \in tree)
    BY <2>1 DEF AfterAddChild, AddsChild
  <2>4. Live' = Live
    BY <2>1 DEF Live, Alive
  <2>5. tree' \cap Live \subseteq Vouched
    BY <1>0, <2>1, <2>3 DEF InHandAgrees
  <2>6. tree' \subseteq Pids
    BY <1>0, <2>1, <2>3 DEF InHandAgrees
  <2>7. InHandAgrees'
    BY <2>2 DEF InHandAgrees
  <2>8. QED
    BY <1>0, <2>1, <2>2, <2>5, <2>6, <2>7, FamiliesKept
<1>8. CASE EndPoll
  <2>1. poll' \in PollType /\ poll'.pc = "send"
    BY <1>0, <1>8 DEF EndPoll, PollType
  <2>2. QED
    BY <1>1, <1>8, <2>1 DEF EndPoll, forestVars
<1>9. CASE Cleanup
  BY <1>0, <1>1, <1>9 DEF Cleanup, AfterCleanup, osVars, backendVars
<1>10. CASE Send
  <2>1. poll' \in PollType /\ (poll' = poll \/ poll'.pc = "idle")
    BY <1>0, <1>10 DEF Send, PollType
  <2>2. QED
    BY <1>1, <1>10, <2>1 DEF Send, forestVars
<1>11. CASE BackendStops
  <2>1. poll' \in PollType /\ poll'.pc = "done"
    BY <1>11 DEF BackendStops, NoPoll, Idle, PollType
  <2>2. QED
    BY <1>1, <1>11, <2>1 DEF BackendStops, forestVars
<1>12. CASE ProcessEnds
  <2>1. poll' \in PollType /\ poll'.pc = "done"
    BY <1>12 DEF ProcessEnds, NoPoll, Idle, PollType
  <2>2. /\ UNCHANGED <<parent, hooked, unsent>>
        /\ tree' = {} /\ notices' = {} /\ tainted' = {}
    BY <1>12 DEF ProcessEnds
  <2>3. Live' = Live /\ Vouched' = hooked
    BY <2>2 DEF Live, Alive, Vouched
  <2>4. FamiliesAgree' /\ InHandAgrees'
    BY <2>1, <2>2, <2>3 DEF HooksInv, FamiliesAgree, InHandAgrees
  <2>5. hooked \subseteq Live
    BY DEF HooksInv, Vouched
  <2>6. QED
    BY <2>1, <2>2, <2>3, <2>4, <2>5 DEF HooksInv
<1>13. CASE Consumer \/ (Shutdown /\ Elsewhere) \/ UNCHANGED vars
  BY <1>3, <1>13 DEF Consumer, Elsewhere, vars, backendVars
<1>14. CASE AuditRecord
  <2>1. /\ UNCHANGED <<parent, hooked, unsent, notices, tree, tainted>>
        /\ poll' = poll
    BY <1>14 DEF AuditRecord
  <2>2. QED
    BY <1>0, <1>1, <2>1
<1>15. CASE StartDrain
  <2> DEFINE r == [Idle EXCEPT !.pc = "drain", !.snap = Live]
  <2>1. r \in PollType /\ r.pc = "drain"
    BY <1>0 DEF Idle, PollType
  <2>2. poll' = r /\ UNCHANGED <<parent, hooked, unsent, notices, tree, tainted>>
    BY <1>15 DEF StartDrain
  <2> HIDE DEF r
  <2>3. QED
    BY <1>1, <2>1, <2>2
<1>16. CASE ReadRecord \/ Emit \/ DrainEnds
  <2>1. poll' = poll \/ \E c \in {"idle", "drain", "emit"} : poll' = [poll EXCEPT !.pc = c]
    BY <1>16 DEF ReadRecord, Emit, DrainEnds
  <2>2. poll' \in PollType /\ (poll' = poll \/ poll'.pc # "add")
    BY <1>0, <2>1 DEF PollType
  <2>3. UNCHANGED <<parent, hooked, unsent, notices, tree, tainted>>
    BY <1>16 DEF ReadRecord, Emit, DrainEnds, forestVars
  <2>4. QED
    BY <1>1, <2>2, <2>3
<1>17. QED
  BY <1>2, <1>4, <1>5, <1>6, <1>7, <1>8, <1>9, <1>10, <1>11, <1>12, <1>13,
     <1>14, <1>15, <1>16, SystemKeeps DEF Next, Backend

-----------------------------------------------------------------------------
LEMMA HooksInvBegins == Init => HooksInv
BY ForestAssumption
   DEF Init, ForestInit, HooksInv, FamiliesAgree, InHandAgrees, Vouched, Live,
       Alive, NoPoll, Idle, PollType

(* Only hook-wraps and what descends from them is ever in the ProcTree, PIDs *)
(* that were used again apart - whatever is forked, ended, registered late   *)
(* or polled in between, for any number of processes.                        *)
THEOREM TreeHoldsHooks == Spec => []OnlyHooksTracked
<1>1. Init => HooksInv
  BY HooksInvBegins
<1>2. HooksInv /\ [Next]_vars => HooksInv'
  BY HooksInvStep
<1>3. HooksInv => OnlyHooksTracked
  BY DEF HooksInv, OnlyHooksTracked, Vouched
<1>4. QED
  BY <1>1, <1>2, <1>3, PTL DEF Spec
-----------------------------------------------------------------------------
(* A child that is owed an event still has the parent it is owed for, and is *)
(* still to be visited, or is in hand with that parent.                      *)
OwedInv ==
  /\ phase = "down" => poll.pc = "done"
  /\ poll.pc \in {"drain", "emit"} => backend # "procfs"
  /\ backend = "procfs" /\ poll.pc \in {"idle", "send"} => seen \subseteq poll.snap
  /\ \A c \in owed :
       /\ c \in Live /\ parent[c] \in tree
       /\ poll.pc \in {"scan", "add"}
       /\ \/ c \in poll.todo
          \/ poll.pc = "add" /\ c = poll.pid /\ poll.ppid = parent[c]

LEMMA OwedInvStep ==
  ASSUME HooksInv, OwedInv, [Next]_vars
  PROVE  OwedInv'
<1>0. /\ poll \in PollType /\ Live \subseteq Pids
      /\ poll.pc \notin {"scan", "add"} => owed = {}
  BY DEF HooksInv, OwedInv, Live
(* Nothing of the poll changes, and no child loses what it is owed for. *)
<1>1. ASSUME UNCHANGED <<phase, backend, poll, seen>>, owed' \subseteq owed,
             \A c \in owed' : parent'[c] = parent[c],
             tree \subseteq tree'
      PROVE  OwedInv'
  <2>1. ASSUME NEW c \in owed'
        PROVE  c \in Live' /\ parent'[c] \in tree' /\ parent'[c] = parent[c] /\ c \in owed
    BY <1>1, <2>1 DEF OwedInv, Live, Alive
  <2>2. QED
    BY <1>1, <2>1 DEF OwedInv
(* Nothing is owed before or after. *)
<1>2. ASSUME owed = {}, owed' = owed,
             phase' = "down" => poll'.pc = "done",
             poll'.pc \in {"drain", "emit"} => backend' # "procfs",
             backend' = "procfs" /\ poll'.pc \in {"idle", "send"}
               => seen' \subseteq poll'.snap
      PROVE  OwedInv'
  BY <1>2 DEF OwedInv
<1>3. CASE System
  BY <1>1, <1>3 DEF System, SystemNext, SpawnOther, SpawnHook, Exit, Notify, Fork, pipeVars
<1>4. CASE Register
  BY <1>1, <1>4 DEF Register, AddRoot, osVars, pipeVars, backendVars
<1>5. CASE AuditRecord
  BY <1>1, <1>5 DEF AuditRecord, pipeVars
<1>6. CASE StartDaemon
  <2>1. PICK available \in Machines, opens \in BOOLEAN :
          /\ PipeStarts(Starts(SelectBackend(available), opens))
          /\ poll' = IF Starts(SelectBackend(available), opens) THEN Idle ELSE NoPoll
          /\ seen' = {} /\ owed' = owed
    BY <1>6 DEF StartDaemon
  <2>2. phase = "down" /\ phase' = "up"
    BY <2>1 DEF PipeStarts
  <2>3. owed = {}
    BY <1>0, <2>2 DEF OwedInv
  <2>4. poll'.pc \in {"idle", "done"}
    BY <2>1 DEF Idle, NoPoll
  <2>5. QED
    BY <1>2, <2>1, <2>2, <2>3, <2>4
<1>7. CASE Shutdown /\ Elsewhere
  <2>1. phase # "down" /\ phase' # "down"
    BY <1>7 DEF Shutdown
  <2>2. UNCHANGED <<parent, tree, backend, poll, seen, owed>>
    BY <1>7 DEF Elsewhere, forestVars, backendVars
  <2>3. Live' = Live
    BY <2>2 DEF Live, Alive
  <2>4. QED
    BY <2>1, <2>2, <2>3 DEF OwedInv
<1>8. CASE ProcessEnds
  BY <1>8 DEF ProcessEnds, NoPoll, Idle, OwedInv
<1>9. CASE StartPoll
  <2>1. /\ poll.pc = "idle" /\ backend = "procfs" /\ backend' = "procfs"
        /\ poll'.pc = "scan" /\ poll'.todo = Live \ seen
        /\ owed' = {c \in Live \ poll.snap : parent[c] \in tree}
        /\ UNCHANGED <<parent, tree, phase>>
    BY <1>9 DEF StartPoll, Idle, ToVisit, pipeVars
  <2>2. seen \subseteq poll.snap /\ phase # "down"
    BY <2>1 DEF OwedInv
  <2>3. Live' = Live
    BY <2>1 DEF Live, Alive
  <2>4. \A c \in owed' : c \in Live' /\ parent'[c] \in tree' /\ c \in poll'.todo
    BY <2>1, <2>2, <2>3
  <2>5. QED
    BY <2>1, <2>2, <2>4 DEF OwedInv
<1>10. ASSUME NEW p \in Pids, ReadPPID(p)
       PROVE  OwedInv'
  <2>1. /\ poll.pc = "scan" /\ p \in poll.todo
        /\ UNCHANGED <<parent, tree, phase, backend, seen, owed>>
    BY <1>10 DEF ReadPPID, forestVars, pipeVars
  <2>2. Live' = Live
    BY <2>1 DEF Live, Alive
  <2>3. CASE ~ Alive(p)
    <3>1. poll'.pc = "scan" /\ poll'.todo = poll.todo \ {p}
      BY <1>0, <1>10, <2>1, <2>3 DEF ReadPPID, PollType
    <3>2. p \notin owed
      BY <2>3 DEF OwedInv, Live
    <3>3. QED
      BY <2>1, <2>2, <3>1, <3>2 DEF OwedInv
  <2>4. CASE Alive(p)
    <3>1. /\ poll'.pc = "add" /\ poll'.todo = poll.todo \ {p}
          /\ poll'.pid = p /\ poll'.ppid = parent[p]
      BY <1>0, <1>10, <2>1, <2>4 DEF ReadPPID, PollType
    <3>2. QED
      BY <2>1, <2>2, <3>1 DEF OwedInv
  <2>5. QED
    BY <2>3, <2>4
<1>11. CASE AddChild
  <2>1. /\ poll.pc = "add" /\ poll'.pc = "scan" /\ poll'.todo = poll.todo
        /\ UNCHANGED <<parent, phase, backend, seen>> /\ tree \subseteq tree'
        /\ owed' = IF poll.ppid \in tree THEN owed \ {poll.pid} ELSE owed
    BY <1>0, <1>11 DEF AddChild, PollType, osVars, pipeVars, Find, AfterAddChild, AddsChild
  <2>2. Live' = Live
    BY <2>1 DEF Live, Alive
  <2>3. \A c \in owed' : c \in owed /\ c \in poll.todo
    BY <2>1 DEF OwedInv
  <2>4. \A c \in owed' : c \in Live' /\ parent'[c] \in tree' /\ c \in poll'.todo
    BY <2>1, <2>2, <2>3 DEF OwedInv
  <2>5. phase' = "down" => FALSE
    BY <2>1 DEF OwedInv
  <2>6. QED
    BY <2>1, <2>4, <2>5 DEF OwedInv
<1>12. CASE EndPoll
  <2>1. /\ poll.pc = "scan" /\ poll.todo = {} /\ poll'.pc = "send"
        /\ seen' = poll.snap /\ poll'.snap = poll.snap
        /\ UNCHANGED <<phase, backend, owed>>
    BY <1>0, <1>12 DEF EndPoll, Evaluated, PollType, pipeVars
  <2>2. owed = {} /\ phase # "down"
    BY <2>1 DEF OwedInv
  <2>3. QED
    BY <1>2, <2>1, <2>2
<1>13. CASE Send
  <2>1. /\ poll.pc = "send" /\ poll'.pc \in {"send", "idle"} /\ poll'.snap = poll.snap
        /\ UNCHANGED <<phase, backend, seen, owed>>
    BY <1>0, <1>13 DEF Send, PollType, SendOne, pipeVars
  <2>2. owed = {} /\ phase # "down"
    BY <1>0, <2>1 DEF OwedInv
  <2>3. QED
    BY <1>2, <2>1, <2>2 DEF OwedInv
<1>14. CASE StartDrain
  <2>1. /\ poll.pc = "idle" /\ poll'.pc = "drain" /\ backend = "auditd"
        /\ UNCHANGED <<phase, backend, seen, owed>>
    BY <1>14 DEF StartDrain, Idle, pipeVars
  <2>2. owed = {} /\ phase # "down"
    BY <1>0, <2>1 DEF OwedInv
  <2>3. QED
    BY <1>2, <2>1, <2>2
<1>15. CASE ReadRecord \/ Emit \/ DrainEnds
  <2>1. /\ poll.pc \in {"drain", "emit"} /\ poll'.pc \in {"drain", "emit", "idle"}
        /\ UNCHANGED <<phase, backend, seen, owed>>
    BY <1>0, <1>15 DEF ReadRecord, Emit, DrainEnds, PollType, SendOne, Find, pipeVars
  <2>2. owed = {} /\ phase # "down" /\ backend # "procfs"
    BY <1>0, <2>1 DEF OwedInv
  <2>3. QED
    BY <1>2, <2>1, <2>2
<1>16. CASE Cleanup
  <2>1. /\ poll.pc = "idle" /\ UNCHANGED <<phase, backend, poll, seen, owed>>
    BY <1>16 DEF Cleanup, pipeVars, backendVars
  <2>2. owed = {}
    BY <1>0, <2>1
  <2>3. QED
    BY <1>2, <2>1, <2>2 DEF OwedInv
<1>17. CASE BackendStops
  <2>1. /\ poll.pc \in {"idle", "send"} /\ poll'.pc = "done" /\ owed' = owed
    BY <1>17 DEF BackendStops, MayStop, NoPoll, Idle
  <2>2. owed = {}
    BY <1>0, <2>1
  <2>3. QED
    BY <1>2, <2>1, <2>2
<1>18. CASE Consumer
  <2>1. UNCHANGED <<phase, parent, tree, backend, poll, seen, owed>>
    BY <1>18 DEF Consumer, Receive, Tick, ConsumerStops, Elsewhere, forestVars, backendVars
  <2>2. QED
    BY <1>1, <2>1
<1>19. CASE UNCHANGED vars
  <2>1. UNCHANGED <<phase, parent, tree, backend, poll, seen, owed>>
    BY <1>19 DEF vars, forestVars, pipeVars, backendVars
  <2>2. QED
    BY <1>1, <2>1
<1>20. QED
  BY <1>3, <1>4, <1>5, <1>6, <1>7, <1>8, <1>9, <1>10, <1>11, <1>12, <1>13,
     <1>14, <1>15, <1>16, <1>17, <1>18, <1>19 DEF Next, Backend

(* Of the children of tracked processes that a poll of procfs is the first   *)
(* to see, none is passed over: each is reported before the poll ends,       *)
(* unless it or its parent ends first.                                       *)
THEOREM NoChildOverlooked == Spec => []ChildrenReported
<1>1. Init => HooksInv /\ OwedInv
  <2>1. Init => HooksInv
    BY HooksInvBegins
  <2>2. Init => OwedInv
    BY DEF Init, PipeInit, NoPoll, Idle, OwedInv
  <2>3. QED
    BY <2>1, <2>2
<1>2. HooksInv /\ OwedInv /\ [Next]_vars => HooksInv' /\ OwedInv'
  BY HooksInvStep, OwedInvStep
<1>3. OwedInv => ChildrenReported
  BY DEF OwedInv, ChildrenReported
<1>4. QED
  BY <1>1, <1>2, <1>3, PTL DEF Spec
-----------------------------------------------------------------------------
(* Layer 4 implements the EventLog: what its backends, its consumer and the  *)
(* main goroutine do to the pipeline is what the EventPipe does.             *)
LogProofs == INSTANCE EventLogProofs
  WITH log <- rows, pending <- batch \o chan \o outbox,
       lost <- dropped, count <- found

LEMMA StepsOfThePipe ==
  ASSUME [Next]_vars
  PROVE  PipeNext
<1>1. CASE System \/ Register \/ AuditRecord
  BY <1>1 DEF System, Register, AuditRecord, PipeNext
<1>2. CASE StartDaemon
  <2>1. PICK available \in Machines, opens \in BOOLEAN :
          PipeStarts(Starts(SelectBackend(available), opens))
    BY <1>2 DEF StartDaemon
  <2>2. Starts(SelectBackend(available), opens) \in BOOLEAN
    BY DEF Starts
  <2>3. QED
    BY <2>1, <2>2 DEF PipeNext
<1>3. CASE Shutdown \/ ProcessEnds \/ Consumer
  BY <1>3 DEF ProcessEnds, Consumer, PipeNext
<1>4. CASE StartPoll \/ EndPoll \/ StartDrain \/ DrainEnds \/ Cleanup
           \/ \E p \in Pids : ReadPPID(p)
  BY <1>4 DEF StartPoll, EndPoll, StartDrain, DrainEnds, Cleanup, ReadPPID, PipeNext
<1>5. CASE AddChild
  BY <1>5 DEF AddChild, PipeNext
<1>6. CASE Send \/ Emit
  BY <1>6 DEF Send, Emit, PipeNext
<1>7. CASE ReadRecord
  BY <1>7 DEF ReadRecord, PipeNext
<1>8. CASE BackendStops
  BY <1>8 DEF BackendStops, PipeNext
<1>9. CASE UNCHANGED vars
  BY <1>9 DEF vars, PipeNext
<1>10. QED
  BY <1>1, <1>2, <1>3, <1>4, <1>5, <1>6, <1>7, <1>8, <1>9 DEF Next, Backend
-----------------------------------------------------------------------------
(* Layer 4 is an EventLog, whichever backend runs and however often it is    *)
(* started and stopped: what it writes, it writes oldest first.              *)
THEOREM ImplementsTheLog == Spec => WritesInOrder
<1>1. Init => OnlySeqs /\ Promise!Init
  BY PipeBegins DEF Init
<1>2. OnlySeqs /\ [Next]_vars => OnlySeqs'
  BY StepsOfThePipe, PipeTyped
<1>3. OnlySeqs /\ [Next]_vars => [Promise!Next]_Promise!eventVars
  BY StepsOfThePipe, PipeSteps
<1>4. QED
  BY <1>1, <1>2, <1>3, PTL DEF Spec, WritesInOrder, Promise!Spec

(* EventLog here and in the module of its proofs are the same, definition by *)
(* definition.                                                               *)
LEMMA TheSameLog ==
  /\ Promise!Init <=> LogProofs!Init
  /\ [Promise!Next]_Promise!eventVars <=> [LogProofs!Next]_LogProofs!eventVars
<1>1. Promise!Init <=> LogProofs!Init
  BY DEF Promise!Init, LogProofs!Init
<1>2. Promise!eventVars = LogProofs!eventVars
  BY DEF Promise!eventVars, LogProofs!eventVars
<1>3. Promise!Find <=> LogProofs!Find
  BY DEF Promise!Find, LogProofs!Find
<1>4. Promise!Write <=> LogProofs!Write
  BY DEF Promise!Write, LogProofs!Write
<1>5. Promise!LoseOldest <=> LogProofs!LoseOldest
  BY DEF Promise!LoseOldest, LogProofs!LoseOldest
<1>6. Promise!LoseNewest <=> LogProofs!LoseNewest
  BY DEF Promise!LoseNewest, LogProofs!LoseNewest
<1>7. Promise!Next <=> LogProofs!Next
  BY <1>3, <1>4, <1>5, <1>6, Zenon DEF Promise!Next, LogProofs!Next
<1>8. [Promise!Next]_Promise!eventVars <=> [LogProofs!Next]_LogProofs!eventVars
  <2>1. Promise!eventVars' = LogProofs!eventVars'
    BY DEF Promise!eventVars, LogProofs!eventVars
  <2>2. QED
    BY <1>2, <1>7, <2>1, Zenon
<1>9. QED
  BY <1>1, <1>8

LEMMA LogOrdered ==
  ASSUME OnlySeqs, LogProofs!InOrder
  PROVE  InOrderOnce
<1>1. /\ rows \in Seq(Nat) /\ batch \in Seq(Nat) /\ chan \in Seq(Nat)
      /\ outbox \in Seq(Nat)
  BY DEF OnlySeqs
<1>2. batch \o chan \in Seq(Nat) /\ rows \o batch \in Seq(Nat)
  BY <1>1, Joined
<1>3. OnTheWay = LogProofs!OnTheWay
  <2>1. (rows \o batch) \o chan = rows \o (batch \o chan)
    BY <1>1, Assoc
  <2>2. (rows \o (batch \o chan)) \o outbox = rows \o ((batch \o chan) \o outbox)
    BY <1>1, <1>2, Assoc
  <2>3. QED
    BY <2>1, <2>2 DEF OnTheWay, LogProofs!OnTheWay
<1>4. OnTheWay \in Seq(Nat)
  <2>1. (rows \o batch) \o chan \in Seq(Nat)
    BY <1>1, <1>2, Joined
  <2>2. QED
    BY <1>1, <2>1, Joined DEF OnTheWay
<1>5. /\ \A i, j \in 1..Len(OnTheWay) : i < j => OnTheWay[i] < OnTheWay[j]
      /\ {OnTheWay[i] : i \in 1..Len(OnTheWay)} \cup dropped = 1..found
      /\ {OnTheWay[i] : i \in 1..Len(OnTheWay)} \cap dropped = {}
  BY <1>3 DEF LogProofs!InOrder
<1>6. ToSet(OnTheWay) = {OnTheWay[i] : i \in 1..Len(OnTheWay)}
  BY <1>4, LenProperties DEF ToSet
<1>7. QED
  BY <1>5, <1>6 DEF InOrderOnce

(* Hence the rows, the batch, the channel and the events to send are in the  *)
(* order of discovery, and every event is in one place or lost.              *)
THEOREM OrderKept == Spec => []InOrderOnce
<1>1. Init => OnlySeqs /\ LogProofs!Inv
  BY PipeBegins, LogProofs!InvBegins, TheSameLog DEF Init
<1>2. OnlySeqs /\ [Next]_vars => OnlySeqs'
  BY StepsOfThePipe, PipeTyped
<1>3. OnlySeqs /\ LogProofs!Inv /\ [Next]_vars => LogProofs!Inv'
  BY StepsOfThePipe, PipeSteps, LogProofs!InvStep, TheSameLog
<1>4. OnlySeqs /\ LogProofs!Inv => InOrderOnce
  BY LogOrdered DEF LogProofs!Inv
<1>5. QED
  BY <1>1, <1>2, <1>3, <1>4, PTL DEF Spec
-----------------------------------------------------------------------------
(* What the types of Layer 4 need beside HooksInv and OwedInv: the processes  *)
(* younger than the last snapshot live; the goroutine is one of the active   *)
(* backend, and has events in hand only where it sends, auditd one at a time. *)
Young == fresh \in SUBSET Live /\ births \in Nat

Round ==
  /\ backend \in Backends \cup {"none"}
  /\ poll.pc \in {"scan", "add", "send"} => backend = "procfs"
  /\ poll.pc \in {"drain", "emit"} => backend = "auditd"
  /\ outbox # <<>> => poll.pc \in {"scan", "add", "send", "emit"}
  /\ poll.pc = "emit" => Len(outbox) = 1
  /\ seen \in SUBSET Pids
  /\ half \in Pids \cup {Gone}

Records == [line : Pids, part : {"all", "head", "rest"}]

TInv == HooksInv /\ OwedInv /\ PipeTypeOK /\ Young /\ Round /\ unread \in Seq(Records)

LEMMA YoungStep ==
  ASSUME TInv, [Next]_vars
  PROVE  Young'
<1>1. fresh \subseteq Live /\ births \in Nat /\ parent \in [Pids -> Pids \cup {Outside, Gone}]
  BY DEF TInv, Young, HooksInv
<1>2. ASSUME UNCHANGED <<parent, births>>, fresh' = fresh \/ fresh' = {}
      PROVE  Young'
  BY <1>1, <1>2 DEF Young, Live, Alive
<1>3. ASSUME NEW p \in Pids, NEW from \in Pids \cup {Outside}, Born(p, from, Held)
      PROVE  Young'
  <2>1. /\ births' = births + 1 /\ parent' = [parent EXCEPT ![p] = from]
        /\ fresh' = fresh \cup {p}
    BY <1>3 DEF Born
  <2>2. \A q \in Live \cup {p} : q \in Pids /\ parent'[q] # Gone
    BY <1>1, <2>1, ForestAssumption DEF Live, Alive
  <2>3. fresh' \subseteq Live'
    BY <1>1, <2>1, <2>2 DEF Live, Alive
  <2>4. births' \in Nat
    BY <1>1, <2>1
  <2>5. QED
    BY <2>3, <2>4 DEF Young
<1>4. ASSUME NEW p \in Pids, Exit(p)
      PROVE  Young'
  <2>1. /\ births' = births /\ fresh' = fresh \ {p}
        /\ parent' = [q \in Pids |-> IF q = p THEN Gone
                         ELSE IF parent[q] = p THEN Outside ELSE parent[q]]
    BY <1>4 DEF Exit
  <2>2. \A q \in Live \ {p} : q \in Live'
    BY <2>1, ForestAssumption DEF Live, Alive
  <2>3. QED
    BY <1>1, <2>1, <2>2 DEF Young
<1>5. CASE System
  <2>1. SystemNext(Listening, Held)
    BY <1>5 DEF System
  <2>2. CASE \E p \in Pids : Notify(p, Listening)
    BY <1>2, <2>2 DEF Notify
  <2>3. CASE \E p \in Pids : SpawnOther(p, Held) \/ SpawnHook(p, Held)
    BY <1>3, <2>3 DEF SpawnOther, SpawnHook
  <2>4. CASE \E p, c \in Pids : Fork(p, c, Held)
    BY <1>3, <2>4 DEF Fork
  <2>5. QED
    BY <1>4, <2>1, <2>2, <2>3, <2>4 DEF SystemNext
<1>6. CASE AuditRecord
  BY <1>1, <1>6 DEF AuditRecord, Young, Live, Alive
<1>7. CASE Register \/ StartDaemon \/ (Shutdown /\ Elsewhere) \/ ProcessEnds
           \/ Consumer \/ UNCHANGED vars
  <2>1. UNCHANGED <<parent, births, fresh>>
    BY <1>7 DEF Register, AddRoot, StartDaemon, Elsewhere, ProcessEnds, Consumer,
                vars, forestVars, osVars
  <2>2. QED
    BY <1>2, <2>1
<1>8. CASE Backend
  <2>1. UNCHANGED <<parent, births>> /\ (fresh' = fresh \/ fresh' = {})
    BY <1>8 DEF Backend, StartPoll, AddChild, EndPoll, Send, ReadPPID, StartDrain,
                ReadRecord, Emit, DrainEnds, Cleanup, BackendStops, forestVars, osVars
  <2>2. QED
    BY <1>2, <2>1
<1>9. QED
  BY <1>5, <1>6, <1>7, <1>8 DEF Next

(* The backend that is chosen is one there is. *)
LEMMA Selected ==
  ASSUME NEW available \in Machines
  PROVE  SelectBackend(available) \in Backends \cup {"none"}
<1> DEFINE eligible == IF BackendName = "auto" THEN available
                       ELSE available \cap {BackendName}
<1>1. Backends = {"ebpf", "auditd", "procfs"}
  BY DEF Backends, Priority
<1>2. Priority["ebpf"] = 30 /\ Priority["auditd"] = 20 /\ Priority["procfs"] = 10
  BY DEF Priority
<1>3. eligible \subseteq Backends
  BY BehaviorAssumption
<1> HIDE DEF eligible
<1>4. eligible # {} => \E b \in eligible : \A c \in eligible : Priority[c] <= Priority[b]
  <2>1. CASE "ebpf" \in eligible
    <3>1. \A c \in eligible : Priority[c] <= Priority["ebpf"]
      BY <1>1, <1>2, <1>3
    <3>2. QED
      BY <2>1, <3>1
  <2>2. CASE "ebpf" \notin eligible /\ "auditd" \in eligible
    <3>1. \A c \in eligible : Priority[c] <= Priority["auditd"]
      BY <1>1, <1>2, <1>3, <2>2
    <3>2. QED
      BY <2>2, <3>1
  <2>3. CASE "ebpf" \notin eligible /\ "auditd" \notin eligible
    <3>1. eligible \subseteq {"procfs"}
      BY <1>1, <1>3, <2>3
    <3>2. \A b, c \in eligible : Priority[c] <= Priority[b]
      BY <1>2, <3>1
    <3>3. QED
      BY <3>2
  <2>4. QED
    BY <2>1, <2>2, <2>3
<1>5. eligible # {} =>
        (CHOOSE b \in eligible : \A c \in eligible : Priority[c] <= Priority[b]) \in eligible
  BY <1>4
<1>6. QED
  BY <1>3, <1>5 DEF SelectBackend, eligible

LEMMA RoundStep ==
  ASSUME TInv, [Next]_vars
  PROVE  Round'
<1>1. /\ poll \in PollType /\ outbox \in Seq(Nat) /\ found \in Nat
      /\ phase = "down" => poll.pc = "done"
  BY DEF TInv, HooksInv, OwedInv, PipeTypeOK
<1>2. Round
  BY DEF TInv
<1>3. Idle.pc = "idle" /\ NoPoll.pc = "done"
  BY DEF Idle, NoPoll
<1>4. ASSUME UNCHANGED <<backend, poll, outbox, seen>>, half' \in Pids \cup {Gone}
      PROVE  Round'
  BY <1>2, <1>4 DEF Round
<1>5. CASE System \/ Register \/ (Shutdown /\ Elsewhere) \/ Consumer \/ Cleanup
           \/ UNCHANGED vars
  <2>1. UNCHANGED <<backend, poll, outbox, seen, half>>
    BY <1>5 DEF System, Register, Shutdown, Elsewhere, Consumer, Receive, Tick,
                ConsumerStops, Cleanup, vars, pipeVars, backendVars, auditVars
  <2>2. QED
    BY <1>2, <1>4, <2>1 DEF Round
<1>6. CASE AuditRecord
  <2>1. UNCHANGED <<backend, poll, outbox, seen>>
    BY <1>6 DEF AuditRecord, pipeVars
  <2>2. half' \in Pids \cup {Gone}
    BY <1>6 DEF AuditRecord, Live
  <2>3. QED
    BY <1>4, <2>1, <2>2
<1>7. CASE StartDaemon
  <2>1. PICK available \in Machines, opens \in BOOLEAN :
          LET b == SelectBackend(available) IN
          /\ PipeStarts(Starts(b, opens)) /\ backend' = b
          /\ poll' = IF Starts(b, opens) THEN Idle ELSE NoPoll
          /\ seen' = {} /\ half' = Gone
    BY <1>7 DEF StartDaemon
  <2>2. phase = "down" /\ outbox' = outbox
    BY <2>1 DEF PipeStarts
  <2>3. outbox' = <<>>
    BY <1>1, <1>2, <2>2 DEF Round
  <2>4. backend' \in Backends \cup {"none"}
    BY <2>1, Selected
  <2>5. poll'.pc \in {"idle", "done"}
    BY <1>3, <2>1
  <2>6. QED
    BY <2>1, <2>3, <2>4, <2>5 DEF Round
<1>8. CASE ProcessEnds
  BY <1>3, <1>8 DEF ProcessEnds, PipeEnds, Round
<1>9. CASE BackendStops
  BY <1>2, <1>3, <1>9 DEF BackendStops, CloseChannel, auditVars, Round
(* The poll goes on to another step, with nothing found and nothing sent. *)
<1>10. ASSUME UNCHANGED <<backend, outbox, half>>, seen' \in SUBSET Pids,
              poll'.pc \in {"scan", "add", "send"} => backend = "procfs",
              poll'.pc = "drain" => backend = "auditd",
              poll'.pc # "emit",
              outbox # <<>> => poll'.pc \in {"scan", "add", "send"}
       PROVE  Round'
  BY <1>2, <1>10 DEF Round
<1>11. CASE StartPoll
  <2>1. /\ poll.pc = "idle" /\ backend = "procfs" /\ poll'.pc = "scan"
        /\ UNCHANGED <<backend, outbox, seen, half>>
    BY <1>11 DEF StartPoll, Idle, pipeVars, auditVars
  <2>2. QED
    BY <1>2, <1>10, <2>1 DEF Round
<1>12. CASE \E p \in Pids : ReadPPID(p)
  <2>1. /\ poll.pc = "scan" /\ poll'.pc \in {"scan", "add"}
        /\ UNCHANGED <<backend, outbox, seen, half>>
    BY <1>1, <1>12 DEF ReadPPID, PollType, pipeVars, auditVars
  <2>2. QED
    BY <1>2, <1>10, <2>1 DEF Round
<1>13. CASE AddChild
  <2>1. /\ poll.pc = "add" /\ poll'.pc = "scan"
        /\ UNCHANGED <<backend, seen, half>>
    BY <1>1, <1>13 DEF AddChild, PollType, auditVars
  <2>2. QED
    BY <1>2, <2>1 DEF Round
<1>14. CASE EndPoll
  <2>1. /\ poll.pc = "scan" /\ poll'.pc = "send" /\ seen' = poll.snap
        /\ UNCHANGED <<backend, outbox, half>>
    BY <1>1, <1>14 DEF EndPoll, Evaluated, PollType, pipeVars, auditVars
  <2>2. seen' \in SUBSET Pids
    BY <1>1, <2>1 DEF PollType
  <2>3. QED
    BY <1>2, <1>10, <2>1, <2>2 DEF Round
<1>15. CASE Send
  <2>1. poll.pc = "send" /\ UNCHANGED <<backend, seen, half>>
    BY <1>15 DEF Send, auditVars
  <2>2. CASE outbox = <<>>
    <3>1. poll'.pc = "idle" /\ outbox' = outbox
      BY <1>1, <1>15, <2>2 DEF Send, PollType, pipeVars
    <3>2. QED
      BY <1>2, <1>10, <2>1, <2>2, <3>1 DEF Round
  <2>3. CASE outbox # <<>>
    <3>1. poll' = poll
      BY <1>15, <2>3 DEF Send
    <3>2. QED
      BY <1>2, <2>1, <3>1 DEF Round
  <2>4. QED
    BY <2>2, <2>3
<1>16. CASE StartDrain
  <2>1. /\ poll.pc = "idle" /\ backend = "auditd" /\ poll'.pc = "drain"
        /\ UNCHANGED <<backend, outbox, seen, half>>
    BY <1>16 DEF StartDrain, Idle, pipeVars, auditVars
  <2>2. QED
    BY <1>2, <1>10, <2>1 DEF Round
<1>17. CASE ReadRecord
  <2>1. poll.pc = "drain" /\ UNCHANGED <<backend, seen, half>>
    BY <1>17 DEF ReadRecord
  <2>2. outbox = <<>>
    BY <1>2, <2>1 DEF Round
  <2>3. \/ Find /\ poll' = [poll EXCEPT !.pc = "emit"]
        \/ UNCHANGED <<pipeVars, poll>>
    BY <1>17 DEF ReadRecord
  <2>4. CASE UNCHANGED <<pipeVars, poll>>
    BY <1>2, <1>4, <2>1, <2>4 DEF pipeVars, Round
  <2>5. CASE Find /\ poll' = [poll EXCEPT !.pc = "emit"]
    <3>1. poll'.pc = "emit"
      BY <1>1, <2>5 DEF PollType
    <3>2. outbox' = Append(outbox, found + 1) /\ found + 1 \in Nat
      BY <1>1, <2>5 DEF Find
    <3>3. Len(outbox') = Len(outbox) + 1
      BY <1>1, <3>2, AppendProperties
    <3>4. Len(outbox') = 1
      BY <2>2, <3>3
    <3>5. QED
      BY <1>2, <2>1, <3>1, <3>4 DEF Round
  <2>6. QED
    BY <2>3, <2>4, <2>5
<1>18. CASE Emit
  <2>1. /\ poll.pc = "emit" /\ poll'.pc = "drain" /\ outbox' = Tail(outbox)
        /\ outbox # <<>> /\ UNCHANGED <<backend, seen, half>>
    BY <1>1, <1>18 DEF Emit, SendOne, PollType, auditVars
  <2>2. Len(outbox) = 1
    BY <1>2, <2>1 DEF Round
  <2>3. outbox' \in Seq(Nat) /\ Len(outbox') = 0
    BY <1>1, <2>1, <2>2, HeadTailProperties
  <2>4. outbox' = <<>>
    BY <2>3, EmptySeq
  <2>5. QED
    BY <1>2, <2>1, <2>4 DEF Round
<1>19. CASE DrainEnds
  <2>1. /\ poll.pc = "drain" /\ poll'.pc = "idle"
        /\ UNCHANGED <<backend, outbox, seen, half>>
    BY <1>1, <1>19 DEF DrainEnds, PollType, pipeVars
  <2>2. QED
    BY <1>2, <1>10, <2>1 DEF Round
<1>20. QED
  BY <1>5, <1>6, <1>7, <1>8, <1>9, <1>11, <1>12, <1>13, <1>14, <1>15, <1>16,
     <1>17, <1>18, <1>19 DEF Next, Backend

(* ReadString stops at a newline behind the position. *)
LEMMA NewlineBehind ==
  ASSUME NEW S, NEW w \in Seq(S), NEW k \in Nat, HasLine(w, k)
  PROVE  LineEnd(w, k) \in (k + 1)..Len(w) /\ w[LineEnd(w, k)] \in S
<1>1. Len(w) \in Nat
  BY LenProperties
<1>2. Newlines(w, k) \in SUBSET Nat /\ Newlines(w, k) # {}
  BY <1>1 DEF Newlines, HasLine
<1>3. LineEnd(w, k) \in Newlines(w, k)
  BY <1>2, Least DEF LineEnd
<1>4. LineEnd(w, k) \in (k + 1)..Len(w)
  BY <1>3 DEF Newlines
<1>5. QED
  BY <1>1, <1>4, ElementOfSeq

LEMMA RecordsStep ==
  ASSUME TInv, [Next]_vars
  PROVE  unread' \in Seq(Records)
<1>1. unread \in Seq(Records) /\ half \in Pids \cup {Gone} /\ <<>> \in Seq(Records)
  BY DEF TInv, Round
<1>2. CASE AuditRecord
  <2>1. \E x \in Records : unread' = Append(unread, x)
    <3>1. CASE half # Gone
      <4>1. Piece(half, "rest") \in Records
        BY <1>1, <3>1 DEF Piece, Records
      <4>2. QED
        BY <1>2, <3>1, <4>1 DEF AuditRecord
    <3>2. CASE half = Gone
      <4>1. \A p \in Live, part \in {"all", "head"} : Piece(p, part) \in Records
        BY DEF Piece, Records, Live
      <4>2. QED
        BY <1>2, <3>2, <4>1 DEF AuditRecord
    <3>3. QED
      BY <3>1, <3>2
  <2>2. QED
    BY <1>1, <2>1, AppendProperties
<1>3. CASE ReadRecord
  <2> DEFINE e == LineEnd(unread, 0)
             l == Len(unread)
  <2>1. HasLine(unread, 0) /\ unread' = SubSeq(unread, e + 1, l)
    BY <1>3 DEF ReadRecord
  <2>2. e \in (0 + 1)..l /\ l \in Nat
    BY <1>1, <2>1, NewlineBehind, LenProperties
  <2>3. \A i \in 1..l : unread[i] \in Records
    BY <1>1, ElementOfSeq
  <2> HIDE DEF e, l
  <2>4. e + 1 \in Int /\ l \in Int /\ \A i \in (e + 1)..l : unread[i] \in Records
    BY <2>2, <2>3
  <2>5. QED
    BY <1>1, <2>1, <2>4, SubSeqProperties
<1>4. CASE StartDaemon \/ ProcessEnds \/ DrainEnds
  BY <1>1, <1>4 DEF StartDaemon, ProcessEnds, DrainEnds
<1>5. CASE System \/ Register \/ (Shutdown /\ Elsewhere) \/ Consumer
           \/ StartPoll \/ AddChild \/ EndPoll \/ Send \/ (\E p \in Pids : ReadPPID(p))
           \/ StartDrain \/ Emit \/ Cleanup \/ BackendStops \/ UNCHANGED vars
  <2>1. unread' = unread
    BY <1>5 DEF System, Register, Elsewhere, Consumer, StartPoll, AddChild, EndPoll,
                Send, ReadPPID, StartDrain, Emit, Cleanup, BackendStops, vars,
                backendVars, auditVars
  <2>2. QED
    BY <1>1, <2>1
<1>6. QED
  BY <1>2, <1>3, <1>4, <1>5 DEF Next, Backend

(* The channel holds no more than its capacity and the batch is written      *)
(* before it is full, whatever backend runs; events wait for the channel only *)
(* in a goroutine of the active backend, and auditd's holds one.             *)
THEOREM TypesKept == Spec => []TypeOK
<1>1. Init => TInv
  <2>1. ASSUME Init PROVE TInv
    <3>1. HooksInv /\ PipeTypeOK
      BY <2>1, HooksInvBegins, PipeBeginsTyped DEF Init
    <3>2. OwedInv
      BY <2>1 DEF Init, PipeInit, NoPoll, Idle, OwedInv
    <3>3. Young
      BY <2>1 DEF Init, ForestInit, Young
    <3>4. Round /\ unread \in Seq(Records)
      BY <2>1 DEF Init, PipeInit, NoPoll, Idle, Round
    <3>5. QED
      BY <3>1, <3>2, <3>3, <3>4 DEF TInv
  <2>2. QED
    BY <2>1
<1>2. TInv /\ [Next]_vars => TInv'
  <2>1. ASSUME TInv, [Next]_vars PROVE TInv'
    <3>1. HooksInv' /\ OwedInv'
      BY <2>1, HooksInvStep, OwedInvStep DEF TInv
    <3>2. PipeTypeOK'
      BY <2>1, StepsOfThePipe, PipeKeepsTypes DEF TInv
    <3>3. QED
      BY <2>1, <3>1, <3>2, YoungStep, RoundStep, RecordsStep DEF TInv
  <2>2. QED
    BY <2>1
<1>3. TInv => TypeOK
  <2>1. HooksInv => /\ hooked \in SUBSET Live /\ unsent \in SUBSET hooked
                    /\ tainted \in SUBSET Live
    BY DEF HooksInv, Vouched
  <2>2. OwedInv => owed \in SUBSET Live
    BY DEF OwedInv
  <2>3. QED
    BY <2>1, <2>2 DEF TInv, TypeOK, ForestTypeOK, HooksInv, Young, Round, Records
<1>4. QED
  BY <1>1, <1>2, <1>3, PTL DEF Spec
=============================================================================
