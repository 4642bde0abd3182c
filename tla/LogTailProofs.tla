---------------------------- MODULE LogTailProofs ----------------------------
(* Proofs about the log tailer: its types, and the lines and paths it passes *)
EXTENDS LogTail, Induction, SequenceTheorems, FiniteSetTheorems

(* A goroutine was started for a path, and has a file once it has opened it; *)
(* a daemon that is down has nothing in its maps.                            *)
Aimed ==
  /\ \A t \in Tailers : tail[t].pc # "free" => tail[t].path \in Paths
  /\ daemon = "down" => seen = {} /\ scan = {}

TInv == TypeOK /\ Aimed

Placed(t) ==
  tail[t].pc \in {"wait", "drain"} =>
    tail[t].file \in Files /\ tail[t].pos \in tail[t].from..Len(text[tail[t].file])

(* The lines a tail has passed. *)
Passed(t) ==
  tail[t].pc \in {"wait", "drain"} =>
    LET f == tail[t].file IN
    \A i \in (tail[t].from + 1)..tail[t].pos :
      text[f][i].part = "all" =>
        \/ text[f][i].line \in skipped
        \/ \E k \in 1..Len(recorded[f]) : recorded[f][k] = text[f][i].line

PInv == TInv /\ \A t \in Tailers : Passed(t)
SInv == TInv /\ SeenIsTailed

(* t tails the path p. *)
Tails(t, p) ==
  /\ tail[t].path = p
  /\ tail[t].pc = "open" \/ (tail[t].file = named[p] /\ tail[t].pc # "free")
-----------------------------------------------------------------------------
(* ReadString stops at the first newline behind the position. *)
LEMMA FirstNewline ==
  ASSUME NEW S, NEW w \in Seq(S), NEW k \in Nat, HasLine(w, k)
  PROVE  /\ LineEnd(w, k) \in (k + 1)..Len(w)
         /\ w[LineEnd(w, k)] \in S /\ EndsLine(w[LineEnd(w, k)])
         /\ \A i \in (k + 1)..(LineEnd(w, k) - 1) : w[i].part # "all"
<1> DEFINE T == Newlines(w, k)
           e == LineEnd(w, k)
<1>1. Len(w) \in Nat
  BY LenProperties
<1>2. T \in SUBSET Nat /\ T # {}
  BY <1>1 DEF Newlines, HasLine
<1>3. e \in T /\ \A y \in T : e <= y
  BY <1>2, Least DEF LineEnd
<1>4. /\ \A i \in (k + 1)..Len(w) : EndsLine(w[i]) => i \in T
      /\ e \in (k + 1)..Len(w) /\ EndsLine(w[e])
  BY <1>3 DEF Newlines
<1> HIDE DEF T, e
<1>5. ASSUME NEW i \in (k + 1)..(e - 1) PROVE w[i].part # "all"
  <2>1. i \in (k + 1)..Len(w) /\ ~ e <= i
    BY <1>1, <1>4
  <2>2. ~ EndsLine(w[i])
    BY <1>3, <1>4, <2>1
  <2>3. QED
    BY <2>2 DEF EndsLine
<1>6. e \in 1..Len(w)
  BY <1>1, <1>4
<1>7. w[e] \in S
  BY <1>6, ElementOfSeq
<1>8. QED
  BY <1>4, <1>5, <1>7 DEF e

LEMMA Longer ==
  ASSUME NEW S, NEW w \in Seq(S), NEW x \in S
  PROVE  /\ Append(w, x) \in Seq(S) /\ Len(w) \in Nat
         /\ Len(Append(w, x)) = Len(w) + 1
         /\ \A i \in 1..Len(w) : Append(w, x)[i] = w[i]
         /\ Append(w, x)[Len(w) + 1] = x
BY AppendProperties, LenProperties
-----------------------------------------------------------------------------
(* What a step of one goroutine leaves as it was. *)
LEMMA OneTail ==
  ASSUME TInv, NEW t \in Tailers, NEW r \in TailType,
         tail' = [tail EXCEPT ![t] = r],
         r.pc # "free" => r.path \in Paths,
         r.pc \in {"wait", "drain"} =>
           r.file \in Files /\ r.pos \in r.from..Len(text[r.file]),
         text' = text
  PROVE  /\ tail' \in [Tailers -> TailType]
         /\ \A u \in Tailers : Placed(u)'
         /\ \A u \in Tailers : tail'[u].pc # "free" => tail'[u].path \in Paths
<1>1. /\ tail \in [Tailers -> TailType]
      /\ \A u \in Tailers : Placed(u)
      /\ \A u \in Tailers : tail[u].pc # "free" => tail[u].path \in Paths
  BY DEF TInv, TypeOK, Aimed, Placed
<1>2. \A u \in Tailers : tail'[u] = IF u = t THEN r ELSE tail[u]
  BY <1>1
<1>3. tail' \in [Tailers -> TailType]
  BY <1>1
<1>4. ASSUME NEW u \in Tailers PROVE Placed(u)'
  BY <1>1, <1>2 DEF Placed
<1>5. ASSUME NEW u \in Tailers PROVE tail'[u].pc # "free" => tail'[u].path \in Paths
  BY <1>1, <1>2
<1>6. QED
  BY <1>3, <1>4, <1>5

(* The rest of TInv, of what a step of a tail may change. *)
LEMMA TailStep ==
  ASSUME TInv, tail' \in [Tailers -> TailType],
         \A u \in Tailers : Placed(u)',
         \A u \in Tailers : tail'[u].pc # "free" => tail'[u].path \in Paths,
         blind' \in SUBSET Paths, recorded' \in [Files -> Seq(Nat)],
         skipped' \in SUBSET Nat,
         UNCHANGED <<fileVars, runVars, seen, scan, scanning>>
  PROVE  TInv'
BY DEF TInv, TypeOK, Aimed, Placed, fileVars, runVars

(* The writer appends a piece. *)
LEMMA WriteAppends ==
  ASSUME TInv, NEW f \in Files, Write(f)
  PROVE  /\ \E x \in Pieces : text' = [text EXCEPT ![f] = Append(@, x)]
         /\ lines' \in Nat
<1>1. text[f] \in Seq(Pieces) /\ lines \in Nat
  BY DEF TInv, TypeOK
<1>2. CASE Torn(f)
  <2>1. /\ text' = [text EXCEPT ![f] = Append(@, Piece(@[Len(@)].line, "rest"))]
        /\ lines' = lines /\ text[f] # <<>>
    BY <1>2 DEF Write, Torn
  <2>2. Len(text[f]) \in 1..Len(text[f])
    BY <1>1, <2>1, EmptySeq, LenProperties
  <2>3. text[f][Len(text[f])] \in Pieces
    BY <1>1, <2>2, ElementOfSeq
  <2>4. Piece(text[f][Len(text[f])].line, "rest") \in Pieces
    BY <2>3 DEF Pieces, Piece
  <2>5. text' = [text EXCEPT ![f] = Append(text[f], Piece(text[f][Len(text[f])].line, "rest"))]
    BY <2>1
  <2>6. QED
    BY <1>1, <2>1, <2>4, <2>5
<1>3. CASE ~ Torn(f)
  <2>1. PICK part \in {"all", "head"} :
          text' = [text EXCEPT ![f] = Append(@, Piece(lines + 1, part))]
    BY <1>3 DEF Write
  <2>2. lines' = lines + 1
    BY <1>3 DEF Write
  <2>3. Piece(lines + 1, part) \in Pieces
    BY <1>1 DEF Pieces, Piece
  <2>4. \E x \in Pieces : text' = [text EXCEPT ![f] = Append(@, x)]
    BY <2>1, <2>3
  <2>5. lines' \in Nat
    BY <1>1, <2>2
  <2>6. QED
    BY <2>4, <2>5
<1>4. QED
  BY <1>2, <1>3

LEMMA WriteKeeps ==
  ASSUME TInv, NEW f \in Files, Write(f)
  PROVE  TInv'
<1>1. PICK x \in Pieces : text' = [text EXCEPT ![f] = Append(@, x)]
  BY WriteAppends
<1>2. lines' \in Nat
  BY WriteAppends
<1>3. UNCHANGED <<named, names, runVars, seen, scan, scanning, tail, blind,
                  recorded, skipped>>
  BY DEF Write
<1>4. text \in [Files -> Seq(Pieces)]
  BY DEF TInv, TypeOK
<1>5. /\ Append(text[f], x) \in Seq(Pieces) /\ Len(text[f]) \in Nat
      /\ Len(Append(text[f], x)) = Len(text[f]) + 1
  BY <1>4, Longer
<1>6. /\ text' \in [Files -> Seq(Pieces)]
      /\ \A g \in Files : text'[g] = IF g = f THEN Append(text[f], x) ELSE text[g]
  BY <1>1, <1>4, <1>5
<1>7. \A g \in Files : Len(text[g]) \in Nat
  BY <1>4, LenProperties
<1>8. ASSUME NEW t \in Tailers, tail[t].pc \in {"wait", "drain"}
      PROVE  tail[t].file \in Files /\ tail[t].pos \in tail[t].from..Len(text'[tail[t].file])
  <2>1. /\ tail[t].file \in Files /\ tail[t] \in TailType
        /\ tail[t].pos \in tail[t].from..Len(text[tail[t].file])
    BY <1>8 DEF TInv, TypeOK
  <2>2. tail[t].from \in Nat /\ tail[t].pos \in Nat
    BY <2>1 DEF TailType
  <2>3. Len(text'[tail[t].file]) \in Nat /\ Len(text[tail[t].file]) <= Len(text'[tail[t].file])
    BY <1>5, <1>6, <1>7, <2>1
  <2>4. QED
    BY <1>7, <2>1, <2>2, <2>3
<1>9. QED
  BY <1>2, <1>3, <1>6, <1>8 DEF TInv, TypeOK, Aimed, runVars

LEMMA FreeTyped ==
  Free \in TailType /\ Free.pc = "free" /\ Free.path = Absent
BY DEF Free, TailType

(* One ReadString of drainLines: where it stands then. *)
LEMMA DrainTyped ==
  ASSUME TInv, NEW t \in Tailers, Drain(t)
  PROVE  LET f == tail[t].file
             w == text[f]
             k == tail[t].pos
             e == LineEnd(w, k) IN
         /\ f \in Files /\ w \in Seq(Pieces) /\ k \in Nat
         /\ tail[t].from \in Nat /\ tail[t].from <= k
         /\ e \in (k + 1)..Len(w) /\ w[e].line \in Nat
         /\ \A i \in (k + 1)..(e - 1) : w[i].part # "all"
<1> DEFINE f == tail[t].file
           w == text[f]
           k == tail[t].pos
<1>1. tail[t].pc = "drain" /\ HasLine(w, k)
  BY DEF Drain
<1>2. tail[t] \in TailType /\ f \in Files /\ k \in tail[t].from..Len(w)
  BY <1>1 DEF TInv, TypeOK
<1>3. w \in Seq(Pieces)
  BY <1>2 DEF TInv, TypeOK
<1>4. k \in Nat /\ tail[t].from \in Nat
  BY <1>2 DEF TailType
<1>5. Len(w) \in Nat
  BY <1>3, LenProperties
<1>6. tail[t].from <= k
  BY <1>2, <1>4, <1>5
<1> HIDE DEF f, w, k
<1>7. /\ LineEnd(w, k) \in (k + 1)..Len(w) /\ w[LineEnd(w, k)] \in Pieces
      /\ \A i \in (k + 1)..(LineEnd(w, k) - 1) : w[i].part # "all"
  BY <1>1, <1>3, <1>4, FirstNewline
<1>8. w[LineEnd(w, k)].line \in Nat
  BY <1>7 DEF Pieces
<1>9. QED
  BY <1>2, <1>3, <1>4, <1>6, <1>7, <1>8 DEF f, w, k

LEMMA DrainKeeps ==
  ASSUME TInv, NEW t \in Tailers, Drain(t)
  PROVE  TInv'
<1> DEFINE f == tail[t].file
           e == LineEnd(text[f], tail[t].pos)
           r == [tail[t] EXCEPT !.pos = e]
           n == LineAt(text[f], tail[t].pos)
<1>1. /\ f \in Files /\ text[f] \in Seq(Pieces)
      /\ tail[t].pos \in Nat /\ tail[t].from \in Nat /\ tail[t].from <= tail[t].pos
      /\ e \in (tail[t].pos + 1)..Len(text[f]) /\ n \in Nat
  BY DrainTyped DEF LineAt
<1>2. /\ tail' = [tail EXCEPT ![t].pos = e]
      /\ \/ recorded' = [recorded EXCEPT ![f] = Append(@, n)] /\ skipped' = skipped
         \/ skipped' = skipped \cup {n} /\ recorded' = recorded
      /\ UNCHANGED <<fileVars, runVars, seen, scan, scanning, blind>>
      /\ tail[t].pc = "drain"
  BY DEF Drain
<1>3. /\ tail \in [Tailers -> TailType] /\ tail[t] \in TailType
      /\ recorded \in [Files -> Seq(Nat)]
      /\ skipped \in SUBSET Nat /\ blind \in SUBSET Paths
      /\ tail[t].path \in Paths
  BY <1>2 DEF TInv, TypeOK, Aimed
<1>4. Len(text[f]) \in Nat
  BY <1>1, LenProperties
<1> HIDE DEF e, n
<1>5. e \in Nat /\ e \in tail[t].from..Len(text[f])
  BY <1>1, <1>4
<1>6. tail' = [tail EXCEPT ![t] = r]
  BY <1>2, <1>3
<1>7. /\ r \in TailType /\ r.path = tail[t].path /\ r.file = f
      /\ r.from = tail[t].from /\ r.pos = e
  BY <1>3, <1>5 DEF TailType
<1>8. text' = text
  BY <1>2 DEF fileVars
<1> HIDE DEF r
<1>9. /\ tail' \in [Tailers -> TailType]
      /\ \A u \in Tailers : Placed(u)'
      /\ \A u \in Tailers : tail'[u].pc # "free" => tail'[u].path \in Paths
  BY <1>1, <1>3, <1>5, <1>6, <1>7, <1>8, OneTail
<1>10. recorded' \in [Files -> Seq(Nat)]
  <2>1. Append(recorded[f], n) \in Seq(Nat)
    BY <1>1, <1>3, Longer
  <2>2. QED
    BY <1>2, <1>3, <2>1
<1>11. skipped' \in SUBSET Nat /\ blind' \in SUBSET Paths
  BY <1>1, <1>2, <1>3
<1>12. QED
  BY <1>2, <1>9, <1>10, <1>11, TailStep

(* The other steps of a goroutine record and skip nothing. *)
LEMMA TailKeeps ==
  ASSUME TInv, NEW t \in Tailers, TailNext(t)
  PROVE  TInv'
<1>1. /\ tail \in [Tailers -> TailType] /\ tail[t] \in TailType
      /\ blind \in SUBSET Paths /\ recorded \in [Files -> Seq(Nat)]
      /\ skipped \in SUBSET Nat
      /\ named \in [Paths -> Files \cup {Absent}] /\ text \in [Files -> Seq(Pieces)]
      /\ tail[t].pc # "free" => tail[t].path \in Paths
      /\ tail[t].pc \in {"wait", "drain"} =>
           /\ tail[t].file \in Files
           /\ tail[t].pos \in tail[t].from..Len(text[tail[t].file])
  BY DEF TInv, TypeOK, Aimed
(* The goroutine ends. *)
<1>2. ASSUME tail' = [tail EXCEPT ![t] = Free], blind' \in SUBSET Paths,
             UNCHANGED <<fileVars, runVars, seen, scan, scanning, recorded, skipped>>
      PROVE  TInv'
  <2>1. text' = text
    BY <1>2 DEF fileVars
  <2>2. Free.pc \notin {"wait", "drain"}
    BY FreeTyped
  <2>3. /\ tail' \in [Tailers -> TailType]
        /\ \A u \in Tailers : Placed(u)'
        /\ \A u \in Tailers : tail'[u].pc # "free" => tail'[u].path \in Paths
    BY <1>2, <2>1, <2>2, FreeTyped, OneTail
  <2>4. QED
    BY <1>1, <1>2, <2>3, TailStep
(* It goes on with r. *)
<1>3. ASSUME NEW r \in TailType, tail' = [tail EXCEPT ![t] = r],
             r.path \in Paths, r.file \in Files,
             r.pos \in r.from..Len(text[r.file]),
             UNCHANGED <<fileVars, runVars, seen, scan, scanning, blind, recorded, skipped>>
      PROVE  TInv'
  <2>1. text' = text
    BY <1>3 DEF fileVars
  <2>2. /\ tail' \in [Tailers -> TailType]
        /\ \A u \in Tailers : Placed(u)'
        /\ \A u \in Tailers : tail'[u].pc # "free" => tail'[u].path \in Paths
    BY <1>3, <2>1, OneTail
  <2>3. QED
    BY <1>1, <1>3, <2>2, TailStep
<1>4. CASE OpenFails(t)
  BY <1>1, <1>2, <1>4 DEF OpenFails
<1>5. CASE Open(t)
  <2> DEFINE f == named[tail[t].path]
             l == Len(text[f])
             r == [tail[t] EXCEPT !.pc = "wait", !.file = f, !.from = l, !.pos = l]
  <2>1. /\ tail[t].pc = "open" /\ f # Absent /\ tail' = [tail EXCEPT ![t] = r]
        /\ UNCHANGED <<fileVars, runVars, seen, scan, scanning, blind, recorded, skipped>>
    BY <1>1, <1>5 DEF Open, SeekEnd
  <2>2. tail[t].path \in Paths /\ f \in Files
    BY <1>1, <2>1
  <2>3. l \in Nat
    BY <1>1, <2>2, LenProperties
  <2>4. /\ r \in TailType /\ r.path = tail[t].path /\ r.file = f
        /\ r.from = l /\ r.pos = l
    <3> HIDE DEF f, l
    <3>1. QED
      BY <1>1, <2>2, <2>3 DEF TailType
  <2>5. r.pos \in r.from..Len(text[r.file])
    BY <2>3, <2>4
  <2> HIDE DEF r, f, l
  <2>6. QED
    BY <1>3, <2>1, <2>2, <2>4, <2>5
<1>6. CASE Tick(t)
  <2> DEFINE r == [tail[t] EXCEPT !.pc = "drain"]
  <2>1. /\ tail[t].pc = "wait" /\ tail' = [tail EXCEPT ![t] = r]
        /\ UNCHANGED <<fileVars, runVars, seen, scan, scanning, blind, recorded, skipped>>
    BY <1>1, <1>6 DEF Tick
  <2>2. /\ r \in TailType /\ r.path = tail[t].path /\ r.file = tail[t].file
        /\ r.from = tail[t].from /\ r.pos = tail[t].pos
    BY <1>1 DEF TailType
  <2> HIDE DEF r
  <2>3. QED
    BY <1>1, <1>3, <2>1, <2>2
<1>7. CASE DrainEnds(t)
  <2> DEFINE l == Len(text[tail[t].file])
             r == [tail[t] EXCEPT !.pc = "wait", !.pos = l]
  <2>1. /\ tail[t].pc = "drain" /\ tail' = [tail EXCEPT ![t] = r]
        /\ UNCHANGED <<fileVars, runVars, seen, scan, scanning, blind, recorded, skipped>>
    BY <1>7 DEF DrainEnds, AfterEof
  <2>2. l \in Nat /\ tail[t].from \in Nat /\ tail[t].pos \in Nat
    BY <1>1, <2>1, LenProperties DEF TailType
  <2>3. l \in tail[t].from..l
    BY <1>1, <2>1, <2>2
  <2>4. /\ r \in TailType /\ r.path = tail[t].path /\ r.file = tail[t].file
        /\ r.from = tail[t].from /\ r.pos = l
    <3> HIDE DEF l
    <3>1. QED
      BY <1>1, <2>2 DEF TailType
  <2>5. r.pos \in r.from..Len(text[r.file])
    BY <2>3, <2>4
  <2> HIDE DEF r, l
  <2>6. QED
    BY <1>1, <1>3, <2>1, <2>4, <2>5
<1>8. CASE TailStops(t)
  BY <1>1, <1>2, <1>8 DEF TailStops
<1>9. QED
  BY <1>4, <1>5, <1>6, <1>7, <1>8, DrainKeeps DEF TailNext

LEMMA NamesKept ==
  ASSUME TInv, (\E p \in Paths, f \in Files : Create(p, f)) \/
               (\E p, q \in Paths : Rename(p, q)) \/ (\E p \in Paths : Remove(p))
  PROVE  TInv'
<1>1. /\ named \in [Paths -> Files \cup {Absent}] /\ names \in [Files -> SUBSET Paths]
      /\ blind \in SUBSET Paths
  BY DEF TInv, TypeOK
<1>2. ASSUME named' \in [Paths -> Files \cup {Absent}], names' \in [Files -> SUBSET Paths],
             blind' \in SUBSET Paths,
             UNCHANGED <<text, lines, runVars, seen, scan, scanning, tail,
                         recorded, skipped>>
      PROVE  TInv'
  BY <1>2 DEF TInv, TypeOK, Aimed, runVars
<1>3. CASE \E p \in Paths, f \in Files : Create(p, f)
  <2>1. PICK p \in Paths, f \in Files : Create(p, f)
    BY <1>3
  <2>2. /\ named' = [named EXCEPT ![p] = f] /\ names' = [names EXCEPT ![f] = {p}]
        /\ UNCHANGED <<text, lines, runVars, seen, scan, scanning, tail, blind,
                       recorded, skipped>>
    BY <2>1 DEF Create
  <2>3. named' \in [Paths -> Files \cup {Absent}] /\ names' \in [Files -> SUBSET Paths]
    BY <1>1, <2>2
  <2>4. QED
    BY <1>1, <1>2, <2>2, <2>3
<1>4. CASE \E p, q \in Paths : Rename(p, q)
  <2>1. PICK p \in Paths, q \in Paths : Rename(p, q)
    BY <1>4
  <2>2. /\ named' = [named EXCEPT ![q] = named[p], ![p] = Absent]
        /\ names' = [names EXCEPT ![named[p]] = @ \cup {q}]
        /\ blind' = blind \cup ({p, q} \cap seen)
        /\ UNCHANGED <<text, lines, runVars, seen, scan, scanning, tail,
                       recorded, skipped>>
    BY <2>1 DEF Rename
  <2>3. named' \in [Paths -> Files \cup {Absent}]
    BY <1>1, <2>2
  <2>4. names' \in [Files -> SUBSET Paths]
    BY <1>1, <2>2
  <2>5. blind' \in SUBSET Paths
    BY <1>1, <2>2
  <2>6. QED
    BY <1>2, <2>2, <2>3, <2>4, <2>5
<1>5. CASE \E p \in Paths : Remove(p)
  <2>1. PICK p \in Paths : Remove(p)
    BY <1>5
  <2>2. /\ named' = [named EXCEPT ![p] = Absent]
        /\ blind' = blind \cup ({p} \cap seen)
        /\ UNCHANGED <<text, lines, names, runVars, seen, scan, scanning, tail,
                       recorded, skipped>>
    BY <2>1 DEF Remove
  <2>3. named' \in [Paths -> Files \cup {Absent}] /\ blind' \in SUBSET Paths
    BY <1>1, <2>2
  <2>4. QED
    BY <1>1, <1>2, <2>2, <2>3
<1>6. QED
  BY <1>3, <1>4, <1>5

(* The scan, and the daemon's start and end. *)
LEMMA DaemonKeeps ==
  ASSUME TInv, StartDaemon \/ Cancel \/ ProcessEnds \/ Discover \/ ScanStops
  PROVE  TInv'
<1>1. CASE StartDaemon
  <2>1. /\ daemon' = "up" /\ starts' = starts + 1
        /\ UNCHANGED <<fileVars, seen, tail, blind, recorded, skipped>>
        /\ scanning' \in {scanning, TRUE} /\ scan' \in {scan, {p \in Paths : named[p] # Absent}}
    BY <1>1 DEF StartDaemon
  <2>2. /\ starts \in Nat /\ scan \in SUBSET Paths /\ scanning \in BOOLEAN
        /\ {p \in Paths : named[p] # Absent} \in SUBSET Paths
    BY DEF TInv, TypeOK
  <2>3. scanning' \in BOOLEAN
    BY <2>1, <2>2
  <2>4. scan' \in SUBSET Paths
    <3>1. scan' = scan \/ scan' = {p \in Paths : named[p] # Absent}
      BY <2>1
    <3>2. QED
      BY <2>2, <3>1
  <2>5. starts' \in Nat
    BY <2>1, <2>2
  <2>6. QED
    BY <2>1, <2>3, <2>4, <2>5 DEF TInv, TypeOK, Aimed, fileVars
<1>2. CASE Cancel
  BY <1>2 DEF Cancel, TInv, TypeOK, Aimed, fileVars
<1>3. CASE ProcessEnds
  <2>1. /\ daemon' = "down" /\ seen' = {} /\ scan' = {} /\ scanning' = FALSE
        /\ blind' = {} /\ tail' = [t \in Tailers |-> Free]
        /\ UNCHANGED <<fileVars, starts, recorded, skipped>>
    BY <1>3 DEF ProcessEnds
  <2>2. /\ tail' \in [Tailers -> TailType]
        /\ \A t \in Tailers : tail'[t] = Free
    BY <2>1, FreeTyped
  <2>3. \A t \in Tailers : tail'[t].pc = "free"
    BY <2>2, FreeTyped
  <2>4. QED
    BY <2>1, <2>2, <2>3 DEF TInv, TypeOK, Aimed, fileVars
<1>4. CASE Discover
  <2>1. /\ scan' = {p \in Paths : named[p] # Absent} /\ daemon # "down"
        /\ UNCHANGED <<fileVars, runVars, seen, scanning, tail, blind, recorded, skipped>>
    BY <1>4 DEF Discover
  <2>2. scan' \in SUBSET Paths
    BY <2>1
  <2>3. QED
    BY <2>1, <2>2 DEF TInv, TypeOK, Aimed, fileVars, runVars
<1>5. CASE ScanStops
  BY <1>5 DEF ScanStops, TInv, TypeOK, Aimed, fileVars, runVars
<1>6. QED
  BY <1>1, <1>2, <1>3, <1>4, <1>5

LEMMA LookKeeps ==
  ASSUME TInv, NEW p \in Paths, Look(p)
  PROVE  TInv'
<1>1. /\ p \in scan /\ scan' = scan \ {p}
      /\ UNCHANGED <<fileVars, runVars, scanning, blind, recorded, skipped>>
  BY DEF Look
<1>2. daemon # "down" /\ scan' \in SUBSET Paths /\ seen \cup {p} \in SUBSET Paths
  BY <1>1 DEF TInv, TypeOK, Aimed
<1>3. CASE p \in seen
  <2>1. UNCHANGED <<seen, tail>>
    BY <1>3 DEF Look
  <2>2. QED
    BY <1>1, <1>2, <2>1 DEF TInv, TypeOK, Aimed, fileVars, runVars
<1>4. CASE p \notin seen
  <2>1. PICK t \in Tailers : tail' = [tail EXCEPT ![t] = [Free EXCEPT !.pc = "open", !.path = p]]
    BY <1>4 DEF Look
  <2>2. seen' = seen \cup {p}
    BY <1>4 DEF Look, SeenAfter
  <2> DEFINE r == [Free EXCEPT !.pc = "open", !.path = p]
  <2>3. r \in TailType /\ r.pc = "open" /\ r.path = p
    BY DEF Free, TailType
  <2>4. text' = text
    BY <1>1 DEF fileVars
  <2> HIDE DEF r
  <2>5. /\ tail' \in [Tailers -> TailType]
        /\ \A u \in Tailers : Placed(u)'
        /\ \A u \in Tailers : tail'[u].pc # "free" => tail'[u].path \in Paths
    BY <2>1, <2>3, <2>4, OneTail DEF r
  <2>6. QED
    BY <1>1, <1>2, <2>2, <2>5 DEF TInv, TypeOK, Aimed, Placed, fileVars, runVars
<1>5. QED
  BY <1>3, <1>4

LEMMA TInvStep ==
  ASSUME TInv, [Next]_vars
  PROVE  TInv'
<1>1. CASE UNCHANGED vars
  BY <1>1 DEF vars, TInv, TypeOK, Aimed, fileVars, runVars
<1>2. QED
  BY <1>1, NamesKept, WriteKeeps, DaemonKeeps, LookKeeps, TailKeeps
     DEF Next, Environment

LEMMA TInvBegins ==
  ASSUME Init
  PROVE  TInv
<1>1. \A t \in Tailers : tail[t] = Free
  BY DEF Init
<1>2. tail \in [Tailers -> TailType] /\ \A t \in Tailers : tail[t].pc = "free"
  BY <1>1, FreeTyped DEF Init
<1>3. text \in [Files -> Seq(Pieces)] /\ recorded \in [Files -> Seq(Nat)]
  <2>1. <<>> \in Seq(Pieces) /\ <<>> \in Seq(Nat)
    OBVIOUS
  <2>2. QED
    BY <2>1 DEF Init
<1>4. named \in [Paths -> Files \cup {Absent}] /\ names \in [Files -> SUBSET Paths]
  BY DEF Init
<1>5. QED
  BY <1>2, <1>3, <1>4 DEF Init, TInv, TypeOK, Aimed

(* A tail is never past the end of its file, whatever is appended, renamed   *)
(* or torn while it reads, and is at a position it could have come to.       *)
THEOREM TypeCorrect == Spec => []TypeOK
<1>1. Init => TInv
  BY TInvBegins
<1>2. TInv /\ [Next]_vars => TInv'
  BY TInvStep
<1>3. TInv => TypeOK
  BY DEF TInv
<1>4. QED
  BY <1>1, <1>2, <1>3, PTL DEF Spec
-----------------------------------------------------------------------------
(* Files and what is recorded of them only grow. *)
Grows ==
  /\ \A f \in Files : \A i \in 1..Len(text[f]) : text'[f][i] = text[f][i]
  /\ \A f \in Files : \A k \in 1..Len(recorded[f]) :
       k \in 1..Len(recorded'[f]) /\ recorded'[f][k] = recorded[f][k]
  /\ skipped \subseteq skipped'

LEMMA PassedStays ==
  ASSUME TInv, Grows, NEW t \in Tailers, Passed(t),
         tail'[t].pc \in {"wait", "drain"} =>
           /\ tail[t].pc \in {"wait", "drain"} /\ tail'[t].file = tail[t].file
           /\ tail'[t].from = tail[t].from /\ tail'[t].pos = tail[t].pos
  PROVE  Passed(t)'
<1> SUFFICES ASSUME tail'[t].pc \in {"wait", "drain"},
                    NEW i \in (tail[t].from + 1)..tail[t].pos,
                    text'[tail[t].file][i].part = "all"
             PROVE  \/ text'[tail[t].file][i].line \in skipped'
                    \/ \E k \in 1..Len(recorded'[tail[t].file]) :
                         recorded'[tail[t].file][k] = text'[tail[t].file][i].line
  BY DEF Passed
<1> DEFINE f == tail[t].file
<1>1. /\ tail[t] \in TailType /\ f \in Files /\ tail[t].pos \in tail[t].from..Len(text[f])
      /\ text[f] \in Seq(Pieces)
  BY DEF TInv, TypeOK
<1>2. tail[t].from \in Nat /\ tail[t].pos \in Nat /\ Len(text[f]) \in Nat
  BY <1>1, LenProperties DEF TailType
<1>3. i \in 1..Len(text[f])
  BY <1>1, <1>2
<1>4. text'[f][i] = text[f][i]
  BY <1>1, <1>3 DEF Grows
<1>5. \/ text[f][i].line \in skipped
      \/ \E k \in 1..Len(recorded[f]) : recorded[f][k] = text[f][i].line
  BY <1>4 DEF Passed
<1> HIDE DEF f
<1>6. CASE text[f][i].line \in skipped
  BY <1>4, <1>6 DEF Grows, f
<1>7. CASE \E k \in 1..Len(recorded[f]) : recorded[f][k] = text[f][i].line
  <2>1. PICK k \in 1..Len(recorded[f]) : recorded[f][k] = text[f][i].line
    BY <1>7
  <2>2. k \in 1..Len(recorded'[f]) /\ recorded'[f][k] = recorded[f][k]
    BY <1>1, <2>1 DEF Grows
  <2>3. QED
    BY <1>4, <2>1, <2>2 DEF f
<1>8. QED
  BY <1>5, <1>6, <1>7

LEMMA SameFiles ==
  ASSUME UNCHANGED <<text, recorded, skipped>>
  PROVE  Grows
BY DEF Grows

LEMMA WriteGrows ==
  ASSUME TInv, NEW f \in Files, Write(f)
  PROVE  Grows
<1>1. PICK x \in Pieces : text' = [text EXCEPT ![f] = Append(@, x)]
  BY WriteAppends
<1>2. UNCHANGED <<recorded, skipped>>
  BY DEF Write
<1>3. text \in [Files -> Seq(Pieces)]
  BY DEF TInv, TypeOK
<1>4. \A g \in Files : text'[g] = IF g = f THEN Append(text[f], x) ELSE text[g]
  BY <1>1, <1>3
<1>5. \A i \in 1..Len(text[f]) : Append(text[f], x)[i] = text[f][i]
  BY <1>3, Longer
<1>6. QED
  BY <1>2, <1>4, <1>5 DEF Grows

(* What a complete line adds to what is recorded or skipped. *)
LEMMA DrainGrows ==
  ASSUME TInv, NEW t \in Tailers, Drain(t)
  PROVE  LET f == tail[t].file
             n == LineAt(text[f], tail[t].pos) IN
         /\ Grows
         /\ n \in skipped' \/ \E k \in 1..Len(recorded'[f]) : recorded'[f][k] = n
<1> DEFINE f == tail[t].file
           n == LineAt(text[f], tail[t].pos)
<1>1. f \in Files /\ n \in Nat
  BY DrainTyped DEF LineAt
<1>2. /\ \/ recorded' = [recorded EXCEPT ![f] = Append(@, n)] /\ skipped' = skipped
         \/ skipped' = skipped \cup {n} /\ recorded' = recorded
      /\ text' = text
  BY DEF Drain, fileVars
<1>3. recorded \in [Files -> Seq(Nat)]
  BY DEF TInv, TypeOK
<1> HIDE DEF f, n
<1>4. CASE skipped' = skipped \cup {n} /\ recorded' = recorded
  BY <1>2, <1>4 DEF Grows, f, n
<1>5. CASE recorded' = [recorded EXCEPT ![f] = Append(@, n)] /\ skipped' = skipped
  <2>1. \A g \in Files : recorded'[g] = IF g = f THEN Append(recorded[f], n) ELSE recorded[g]
    BY <1>1, <1>3, <1>5
  <2>2. /\ Len(recorded[f]) \in Nat
        /\ Len(Append(recorded[f], n)) = Len(recorded[f]) + 1
        /\ \A k \in 1..Len(recorded[f]) : Append(recorded[f], n)[k] = recorded[f][k]
        /\ Append(recorded[f], n)[Len(recorded[f]) + 1] = n
    BY <1>1, <1>3, Longer
  <2>3. \A k \in 1..Len(recorded[f]) : k \in 1..Len(Append(recorded[f], n))
    BY <2>2
  <2>4. Grows
    BY <1>2, <1>5, <2>1, <2>2, <2>3 DEF Grows
  <2>5. Len(recorded[f]) + 1 \in 1..Len(recorded'[f])
    <3>1. recorded'[f] = Append(recorded[f], n)
      BY <1>1, <2>1
    <3>2. Len(recorded[f]) + 1 \in 1..(Len(recorded[f]) + 1)
      BY <2>2
    <3>3. QED
      BY <2>2, <3>1, <3>2
  <2>6. recorded'[f][Len(recorded[f]) + 1] = n
    BY <1>1, <2>1, <2>2
  <2>7. QED
    BY <2>4, <2>5, <2>6 DEF f, n
<1>6. QED
  BY <1>2, <1>4, <1>5

(* Up to the newline there was nothing but pieces of a torn line. *)
LEMMA DrainPasses ==
  ASSUME TInv, NEW t \in Tailers, Drain(t), Passed(t)
  PROVE  Passed(t)'
<1> DEFINE f == tail[t].file
           k == tail[t].pos
           e == LineEnd(text[f], k)
           done(i) == \/ text[f][i].line \in skipped'
                      \/ \E j \in 1..Len(recorded'[f]) : recorded'[f][j] = text[f][i].line
<1>1. /\ f \in Files /\ text[f] \in Seq(Pieces) /\ k \in Nat
      /\ tail[t].from \in Nat /\ tail[t].from <= k
      /\ e \in (k + 1)..Len(text[f])
      /\ \A i \in (k + 1)..(e - 1) : text[f][i].part # "all"
  BY DrainTyped
<1>2. Grows /\ done(e)
  BY DrainGrows DEF LineAt
<1>3. text' = text /\ tail' = [tail EXCEPT ![t].pos = e] /\ tail[t].pc = "drain"
  BY DEF Drain, fileVars
<1>4. tail \in [Tailers -> TailType] /\ tail[t] \in TailType
  BY DEF TInv, TypeOK
<1>5. tail'[t] = [tail[t] EXCEPT !.pos = e]
  BY <1>3, <1>4
<1>6. tail'[t].file = f /\ tail'[t].from = tail[t].from /\ tail'[t].pos = e
  BY <1>4, <1>5 DEF TailType
<1>7. \A i \in (tail[t].from + 1)..k : text[f][i].part = "all" =>
        \/ text[f][i].line \in skipped
        \/ \E j \in 1..Len(recorded[f]) : recorded[f][j] = text[f][i].line
  BY <1>3 DEF Passed
<1>8. Len(text[f]) \in Nat
  BY <1>1, LenProperties
<1> HIDE DEF f, k, e
<1>9. ASSUME NEW i \in (tail[t].from + 1)..e, text[f][i].part = "all"
      PROVE  done(i)
  <2>1. e \in Nat
    BY <1>1, <1>8
  <2>2. CASE i <= k
    <3>1. i \in (tail[t].from + 1)..k
      BY <1>1, <2>1, <2>2
    <3>2. CASE text[f][i].line \in skipped
      BY <1>2, <3>2 DEF Grows
    <3>3. CASE \E j \in 1..Len(recorded[f]) : recorded[f][j] = text[f][i].line
      <4>1. PICK j \in 1..Len(recorded[f]) : recorded[f][j] = text[f][i].line
        BY <3>3
      <4>2. j \in 1..Len(recorded'[f]) /\ recorded'[f][j] = recorded[f][j]
        BY <1>1, <1>2, <4>1 DEF Grows
      <4>3. QED
        BY <4>1, <4>2
    <3>4. QED
      BY <1>7, <1>9, <3>1, <3>2, <3>3
  <2>3. CASE i \in (k + 1)..(e - 1)
    BY <1>1, <1>9, <2>3
  <2>4. CASE i = e
    BY <1>2, <2>4
  <2>5. i <= k \/ i \in (k + 1)..(e - 1) \/ i = e
    BY <1>1, <2>1
  <2>6. QED
    BY <2>2, <2>3, <2>4, <2>5
<1>10. QED
  BY <1>3, <1>6, <1>9 DEF Passed

(* The other steps of a goroutine. *)
LEMMA TailPasses ==
  ASSUME TInv, NEW t \in Tailers, TailNext(t), Passed(t)
  PROVE  Passed(t)'
<1>1. /\ tail \in [Tailers -> TailType] /\ tail[t] \in TailType
      /\ text \in [Files -> Seq(Pieces)]
      /\ named \in [Paths -> Files \cup {Absent}]
      /\ tail[t].pc # "free" => tail[t].path \in Paths
      /\ tail[t].pc \in {"wait", "drain"} =>
           /\ tail[t].file \in Files
           /\ tail[t].pos \in tail[t].from..Len(text[tail[t].file])
  BY DEF TInv, TypeOK, Aimed
<1>2. CASE OpenFails(t) \/ TailStops(t)
  <2>1. tail' = [tail EXCEPT ![t] = Free]
    BY <1>2 DEF OpenFails, TailStops
  <2>2. tail'[t].pc \notin {"wait", "drain"}
    BY <1>1, <2>1, FreeTyped
  <2>3. QED
    BY <2>2 DEF Passed
<1>3. CASE Open(t)
  <2> DEFINE l == Len(text[named[tail[t].path]])
  <2>1. tail' = [tail EXCEPT ![t] = [@ EXCEPT !.pc = "wait", !.file = named[tail[t].path],
                                              !.from = l, !.pos = l]]
    BY <1>3 DEF Open, SeekEnd
  <2>2. tail[t].path \in Paths /\ named[tail[t].path] \in Files
    BY <1>1, <1>3 DEF Open
  <2>3. l \in Nat
    BY <1>1, <2>2, LenProperties
  <2> HIDE DEF l
  <2>4. tail'[t].from = l /\ tail'[t].pos = l
    BY <1>1, <2>1 DEF TailType
  <2>5. (tail'[t].from + 1)..tail'[t].pos = {}
    BY <2>3, <2>4
  <2>6. QED
    BY <2>5 DEF Passed
<1>4. CASE Tick(t)
  <2>1. /\ tail[t].pc = "wait" /\ tail' = [tail EXCEPT ![t].pc = "drain"]
        /\ UNCHANGED <<text, recorded, skipped>>
    BY <1>4 DEF Tick, fileVars
  <2>2. /\ tail'[t].file = tail[t].file /\ tail'[t].from = tail[t].from
        /\ tail'[t].pos = tail[t].pos
    BY <1>1, <2>1 DEF TailType
  <2>3. QED
    BY <2>1, <2>2, SameFiles, PassedStays
<1>5. CASE Drain(t)
  BY <1>5, DrainPasses
<1>6. CASE DrainEnds(t)
  <2> DEFINE f == tail[t].file
             l == Len(text[f])
  <2>1. /\ tail[t].pc = "drain" /\ ~ HasLine(text[f], tail[t].pos)
        /\ tail' = [tail EXCEPT ![t] = [tail[t] EXCEPT !.pc = "wait", !.pos = l]]
        /\ UNCHANGED <<text, recorded, skipped>>
    BY <1>6 DEF DrainEnds, AfterEof, fileVars
  <2>2. f \in Files /\ tail[t].pos \in Nat /\ tail[t].from \in Nat /\ l \in Nat
    BY <1>1, <2>1, LenProperties DEF TailType
  <2>3. \A i \in (tail[t].pos + 1)..l : text[f][i].part # "all"
    BY <2>1 DEF HasLine, Newlines, EndsLine
  <2>4. \A i \in (tail[t].from + 1)..tail[t].pos : text[f][i].part = "all" =>
          \/ text[f][i].line \in skipped
          \/ \E j \in 1..Len(recorded[f]) : recorded[f][j] = text[f][i].line
    BY <2>1 DEF Passed
  <2> HIDE DEF f, l
  <2>5. tail'[t].file = f /\ tail'[t].from = tail[t].from /\ tail'[t].pos = l
    BY <1>1, <2>1 DEF TailType, f
  <2>6. \A i \in (tail[t].from + 1)..l :
          i \in (tail[t].from + 1)..tail[t].pos \/ i \in (tail[t].pos + 1)..l
    BY <2>2
  <2>7. \A i \in (tail[t].from + 1)..l : text[f][i].part = "all" =>
          \/ text[f][i].line \in skipped
          \/ \E j \in 1..Len(recorded[f]) : recorded[f][j] = text[f][i].line
    BY <2>3, <2>4, <2>6
  <2>8. QED
    BY <2>1, <2>5, <2>7 DEF Passed
<1>7. QED
  BY <1>2, <1>3, <1>4, <1>5, <1>6 DEF TailNext

(* No step of a goroutine takes anything away from what it has passed. *)
LEMMA TailGrows ==
  ASSUME TInv, NEW t \in Tailers, TailNext(t)
  PROVE  /\ Grows
         /\ \A u \in Tailers \ {t} : tail'[u] = tail[u]
<1>1. tail \in [Tailers -> TailType]
  BY DEF TInv, TypeOK
<1>2. CASE Drain(t)
  <2>1. \A u \in Tailers \ {t} : tail'[u] = tail[u]
    BY <1>1, <1>2 DEF Drain
  <2>2. QED
    BY <1>2, <2>1, DrainGrows
<1>3. CASE OpenFails(t) \/ Open(t) \/ Tick(t) \/ DrainEnds(t) \/ TailStops(t)
  <2>1. UNCHANGED <<text, recorded, skipped>>
    BY <1>3 DEF OpenFails, Open, Tick, DrainEnds, TailStops, fileVars
  <2>2. \A u \in Tailers \ {t} : tail'[u] = tail[u]
    BY <1>1, <1>3 DEF OpenFails, Open, Tick, DrainEnds, TailStops
  <2>3. QED
    BY <2>1, <2>2, SameFiles
<1>4. QED
  BY <1>2, <1>3 DEF TailNext

LEMMA PassedStep ==
  ASSUME PInv, [Next]_vars, NEW t \in Tailers
  PROVE  Passed(t)'
<1>1. TInv /\ Passed(t) /\ tail \in [Tailers -> TailType]
  BY DEF PInv, TInv, TypeOK
<1>2. ASSUME Grows, tail' = tail PROVE Passed(t)'
  BY <1>1, <1>2, PassedStays
<1>3. CASE Environment
  <2>1. tail' = tail
    BY <1>3 DEF Environment, Create, Rename, Remove, Write
  <2>2. CASE \E f \in Files : Write(f)
    BY <1>1, <1>2, <2>1, <2>2, WriteGrows
  <2>3. CASE ~ \E f \in Files : Write(f)
    <3>1. UNCHANGED <<text, recorded, skipped>>
      BY <1>3, <2>3 DEF Environment, Create, Rename, Remove
    <3>2. QED
      BY <1>2, <2>1, <3>1, SameFiles
  <2>4. QED
    BY <2>2, <2>3
<1>4. CASE StartDaemon \/ Cancel \/ Discover \/ ScanStops \/ UNCHANGED vars
  <2>1. UNCHANGED <<text, recorded, skipped, tail>>
    BY <1>4 DEF StartDaemon, Cancel, Discover, ScanStops, vars, fileVars
  <2>2. QED
    BY <1>2, <2>1, SameFiles
<1>5. CASE ProcessEnds
  <2>1. tail'[t].pc = "free"
    BY <1>5, FreeTyped DEF ProcessEnds
  <2>2. QED
    BY <2>1 DEF Passed
<1>6. CASE \E p \in Paths : Look(p)
  <2>1. PICK p \in Paths : Look(p)
    BY <1>6
  <2>2. UNCHANGED <<text, recorded, skipped>>
    BY <2>1 DEF Look, fileVars
  <2>3. \/ tail' = tail
        \/ \E u \in Tailers : tail' = [tail EXCEPT ![u] = [Free EXCEPT !.pc = "open", !.path = p]]
    BY <2>1 DEF Look
  <2>4. tail'[t] = tail[t] \/ tail'[t] = [Free EXCEPT !.pc = "open", !.path = p]
    BY <1>1, <2>3
  <2>5. CASE tail'[t] = tail[t]
    BY <1>1, <2>2, <2>5, SameFiles, PassedStays
  <2>6. CASE tail'[t] = [Free EXCEPT !.pc = "open", !.path = p]
    <3>1. tail'[t].pc = "open"
      BY <2>6 DEF Free
    <3>2. QED
      BY <3>1 DEF Passed
  <2>7. QED
    BY <2>4, <2>5, <2>6
<1>7. CASE \E u \in Tailers : TailNext(u)
  <2>1. PICK u \in Tailers : TailNext(u)
    BY <1>7
  <2>2. CASE u = t
    BY <1>1, <2>1, <2>2, TailPasses
  <2>3. CASE u # t
    <3>1. Grows /\ tail'[t] = tail[t]
      BY <1>1, <2>1, <2>3, TailGrows
    <3>2. QED
      BY <1>1, <3>1, PassedStays
  <2>4. QED
    BY <2>2, <2>3
<1>8. QED
  BY <1>3, <1>4, <1>5, <1>6, <1>7 DEF Next

(* No line that was written at once is passed over, however the pieces of    *)
(* other lines fall about the reads.                                         *)
THEOREM NoLineSkipped == Spec => []NothingPassedOver
<1>1. Init => PInv
  <2>1. Init => \A t \in Tailers : tail[t].pc = "free"
    BY FreeTyped DEF Init
  <2>2. QED
    BY <2>1, TInvBegins DEF PInv, Passed
<1>2. PInv /\ [Next]_vars => PInv'
  BY TInvStep, PassedStep DEF PInv
<1>3. PInv => NothingPassedOver
  BY DEF PInv, Passed, NothingPassedOver
<1>4. QED
  BY <1>1, <1>2, <1>3, PTL DEF Spec
-----------------------------------------------------------------------------
(* What keeps the paths tailed: those that are not lost still are. *)
LEMMA StillTailed ==
  ASSUME SeenIsTailed,
         daemon' = "up" => daemon = "up",
         \A p \in seen' \ blind' :
           \/ \E t \in Tailers : Tails(t, p)'
           \/ /\ p \in seen \ blind
              /\ \A t \in Tailers : Tails(t, p) => Tails(t, p)'
  PROVE  SeenIsTailed'
BY DEF SeenIsTailed, Tails

LEMMA NamesTailed ==
  ASSUME SInv, Environment
  PROVE  SeenIsTailed'
<1>1. /\ named \in [Paths -> Files \cup {Absent}] /\ tail' = tail /\ seen' = seen
      /\ daemon' = daemon /\ seen \subseteq Paths
  BY DEF SInv, TInv, TypeOK, Environment, Create, Rename, Remove, Write, runVars
<1>2. ASSUME NEW p \in seen' \ blind'
      PROVE  /\ p \in seen \ blind
             /\ \A t \in Tailers : Tails(t, p) => Tails(t, p)'
  <2>1. CASE \E q \in Paths, f \in Files : Create(q, f)
    <3>1. PICK q \in Paths, f \in Files : Create(q, f)
      BY <2>1
    <3>2. named[q] = Absent /\ named' = [named EXCEPT ![q] = f] /\ blind' = blind
      BY <3>1 DEF Create
    <3>3. \A r \in Paths : r # q => named'[r] = named[r]
      BY <1>1, <3>2
    <3>4. ASSUME NEW t \in Tailers, Tails(t, p) PROVE Tails(t, p)'
      <4>1. CASE p # q
        BY <1>1, <1>2, <3>3, <3>4, <4>1 DEF Tails
      <4>2. CASE p = q
        <5>1. tail[t] \in TailType /\ (tail[t].pc \in {"wait", "drain"} => tail[t].file # Absent)
          BY LogTailAssumption DEF SInv, TInv, TypeOK
        <5>2. tail[t].pc = "open"
          BY <3>2, <3>4, <4>2, <5>1 DEF Tails, TailType
        <5>3. QED
          BY <1>1, <3>4, <5>2 DEF Tails
      <4>3. QED
        BY <4>1, <4>2
    <3>5. QED
      BY <1>1, <1>2, <3>2, <3>4
  <2>2. CASE \E q, s \in Paths : Rename(q, s)
    <3>1. PICK q \in Paths, s \in Paths : Rename(q, s)
      BY <2>2
    <3>2. /\ named' = [named EXCEPT ![s] = named[q], ![q] = Absent]
          /\ blind' = blind \cup ({q, s} \cap seen)
      BY <3>1 DEF Rename
    <3>3. p \notin {q, s} /\ p \in seen \ blind
      BY <1>1, <1>2, <3>2
    <3>4. named'[p] = named[p]
      BY <1>1, <3>2, <3>3
    <3>5. QED
      BY <1>1, <3>3, <3>4 DEF Tails
  <2>3. CASE \E q \in Paths : Remove(q)
    <3>1. PICK q \in Paths : Remove(q)
      BY <2>3
    <3>2. /\ named' = [named EXCEPT ![q] = Absent]
          /\ blind' = blind \cup ({q} \cap seen)
      BY <3>1 DEF Remove
    <3>3. p # q /\ p \in seen \ blind
      BY <1>1, <1>2, <3>2
    <3>4. named'[p] = named[p]
      BY <1>1, <3>2, <3>3
    <3>5. QED
      BY <1>1, <3>3, <3>4 DEF Tails
  <2>4. CASE \E f \in Files : Write(f)
    BY <1>1, <1>2, <2>4 DEF Write, Tails
  <2>5. QED
    BY <2>1, <2>2, <2>3, <2>4 DEF Environment
<1>3. SeenIsTailed
  BY DEF SInv
<1>4. QED
  BY <1>1, <1>2, <1>3, StillTailed

LEMMA LookTailed ==
  ASSUME SInv, NEW q \in Paths, Look(q)
  PROVE  SeenIsTailed'
<1>1. /\ tail \in [Tailers -> TailType] /\ UNCHANGED <<named, daemon, blind>>
  BY DEF SInv, TInv, TypeOK, Look, fileVars, runVars
<1>2. SeenIsTailed
  BY DEF SInv
<1>3. CASE q \in seen
  BY <1>1, <1>2, <1>3 DEF Look, SeenIsTailed
<1>4. CASE q \notin seen
  <2>1. PICK t \in Tailers :
          /\ tail[t].pc = "free"
          /\ tail' = [tail EXCEPT ![t] = [Free EXCEPT !.pc = "open", !.path = q]]
    BY <1>4 DEF Look
  <2>2. seen' = seen \cup {q}
    BY <1>4 DEF Look, SeenAfter
  <2>3. tail'[t].pc = "open" /\ tail'[t].path = q
    BY <1>1, <2>1 DEF Free
  <2>4. Tails(t, q)'
    BY <2>3 DEF Tails
  <2>5. ASSUME NEW u \in Tailers, NEW p, Tails(u, p) PROVE Tails(u, p)'
    <3>1. u # t
      BY <2>1, <2>5 DEF Tails
    <3>2. tail'[u] = tail[u]
      BY <1>1, <2>1, <3>1
    <3>3. QED
      BY <1>1, <2>5, <3>2 DEF Tails
  <2>6. QED
    BY <1>1, <1>2, <2>2, <2>4, <2>5, StillTailed
<1>5. QED
  BY <1>3, <1>4

LEMMA TailTailed ==
  ASSUME SInv, NEW t \in Tailers, TailNext(t)
  PROVE  SeenIsTailed'
<1>1. /\ tail \in [Tailers -> TailType] /\ tail[t] \in TailType
      /\ UNCHANGED <<named, daemon, seen>>
      /\ named \in [Paths -> Files \cup {Absent}]
  BY DEF SInv, TInv, TypeOK, TailNext, OpenFails, Open, Tick, Drain, DrainEnds,
         TailStops, fileVars, runVars
<1>2. SeenIsTailed
  BY DEF SInv
<1>3. \A u \in Tailers : u # t => tail'[u] = tail[u]
  BY TailGrows DEF SInv
<1>4. ASSUME NEW p, NEW u \in Tailers, u # t, Tails(u, p) PROVE Tails(u, p)'
  BY <1>1, <1>3, <1>4 DEF Tails
<1>5. CASE OpenFails(t)
  <2>1. blind' = blind \cup {tail[t].path}
    BY <1>5 DEF OpenFails
  <2>2. ASSUME NEW p \in seen' \ blind', Tails(t, p) PROVE FALSE
    BY <2>1, <2>2 DEF Tails
  <2>3. QED
    BY <1>1, <1>2, <1>4, <2>1, <2>2, StillTailed
<1>6. CASE TailStops(t)
  BY <1>1, <1>6 DEF TailStops, SeenIsTailed
<1>7. CASE Open(t) \/ Tick(t) \/ Drain(t) \/ DrainEnds(t)
  <2>1. blind' = blind
    BY <1>7 DEF Open, Tick, Drain, DrainEnds
  <2>2. ASSUME NEW p, Tails(t, p) PROVE Tails(t, p)'
    <3>1. CASE Open(t)
      <4>1. tail' = [tail EXCEPT ![t] = [@ EXCEPT !.pc = "wait", !.file = named[tail[t].path],
                                                  !.from = SeekEnd(named[tail[t].path]),
                                                  !.pos = SeekEnd(named[tail[t].path])]]
        BY <3>1 DEF Open
      <4>2. /\ tail'[t].path = tail[t].path /\ tail'[t].file = named[tail[t].path]
            /\ tail'[t].pc = "wait"
        BY <1>1, <4>1 DEF TailType
      <4>3. QED
        BY <1>1, <2>2, <4>2 DEF Tails
    <3>2. CASE Tick(t) \/ Drain(t) \/ DrainEnds(t)
      <4>1. \/ tail' = [tail EXCEPT ![t].pc = "drain"]
            \/ tail' = [tail EXCEPT ![t].pos = LineEnd(text[tail[t].file], tail[t].pos)]
            \/ tail' = [tail EXCEPT ![t] = [tail[t] EXCEPT !.pc = "wait",
                                              !.pos = Len(text[tail[t].file])]]
        BY <3>2 DEF Tick, Drain, DrainEnds, AfterEof
      <4>2. tail[t].pc \in {"wait", "drain"}
        BY <3>2 DEF Tick, Drain, DrainEnds
      <4>3. /\ tail'[t].path = tail[t].path /\ tail'[t].file = tail[t].file
            /\ tail'[t].pc \in {"wait", "drain"}
        <5>1. CASE tail' = [tail EXCEPT ![t].pc = "drain"]
          BY <1>1, <5>1 DEF TailType
        <5>2. CASE tail' = [tail EXCEPT ![t].pos = LineEnd(text[tail[t].file], tail[t].pos)]
          BY <1>1, <4>2, <5>2 DEF TailType
        <5>3. CASE tail' = [tail EXCEPT ![t] = [tail[t] EXCEPT !.pc = "wait",
                                                !.pos = Len(text[tail[t].file])]]
          BY <1>1, <5>3 DEF TailType
        <5>4. QED
          BY <4>1, <5>1, <5>2, <5>3
      <4>4. QED
        BY <1>1, <2>2, <4>2, <4>3 DEF Tails
    <3>3. QED
      BY <1>7, <3>1, <3>2
  <2>3. QED
    BY <1>1, <1>2, <1>4, <2>1, <2>2, StillTailed
<1>8. QED
  BY <1>5, <1>6, <1>7 DEF TailNext

LEMMA TailedStep ==
  ASSUME SInv, [Next]_vars
  PROVE  SeenIsTailed'
<1>1. SeenIsTailed /\ (daemon = "down" => seen = {})
  BY DEF SInv, TInv, Aimed
<1>2. CASE StartDaemon
  <2>1. seen' = {}
    BY <1>1, <1>2 DEF StartDaemon
  <2>2. QED
    BY <2>1 DEF SeenIsTailed
<1>3. CASE Cancel \/ ProcessEnds
  BY <1>3 DEF Cancel, ProcessEnds, SeenIsTailed
<1>4. CASE Discover \/ ScanStops \/ UNCHANGED vars
  <2>1. UNCHANGED <<named, daemon, seen, tail, blind>>
    BY <1>4 DEF Discover, ScanStops, vars, fileVars, runVars
  <2>2. QED
    BY <1>1, <2>1 DEF SeenIsTailed
<1>5. QED
  BY <1>2, <1>3, <1>4, NamesTailed, LookTailed, TailTailed DEF Next

(* A path the daemon has seen has a goroutine that reads, or is about to     *)
(* open, the file of that name, unless it is one of the paths it has lost.   *)
THEOREM NoPathForgotten == Spec => []SeenIsTailed
<1>1. Init => SInv
  BY TInvBegins DEF Init, SInv, SeenIsTailed
<1>2. SInv /\ [Next]_vars => SInv'
  BY TInvStep, TailedStep DEF SInv
<1>3. SInv => SeenIsTailed
  BY DEF SInv
<1>4. QED
  BY <1>1, <1>2, <1>3, PTL DEF Spec
-----------------------------------------------------------------------------
(* The lines of a file are numbered as they were begun. *)
Numbered(f) ==
  /\ \A i \in 1..Len(text[f]) : text[f][i].line <= lines
  /\ \A i, j \in 1..Len(text[f]) : i < j =>
       /\ text[f][i].line <= text[f][j].line
       /\ EndsLine(text[f][i]) => text[f][i].line < text[f][j].line

LEMMA NumberedStep ==
  ASSUME TInv, [Next]_vars, NEW f \in Files, Numbered(f)
  PROVE  Numbered(f)'
<1>1. text \in [Files -> Seq(Pieces)] /\ lines \in Nat
  BY DEF TInv, TypeOK
<1>2. ASSUME UNCHANGED <<text, lines>> PROVE Numbered(f)'
  BY <1>2 DEF Numbered
<1>3. ASSUME NEW g \in Files, Write(g)
      PROVE  Numbered(f)'
  <2> DEFINE w == text[g]
             l == Len(w)
  <2>1. PICK x : /\ text' = [text EXCEPT ![g] = Append(@, x)] /\ x \in Pieces
                 /\ \/ Torn(g) /\ x.line = w[l].line /\ lines' = lines
                    \/ x.line = lines + 1 /\ lines' = lines + 1
    <3>1. CASE Torn(g)
      <4>1. /\ text' = [text EXCEPT ![g] = Append(@, Piece(@[Len(@)].line, "rest"))]
            /\ lines' = lines /\ w # <<>>
        BY <1>3, <3>1 DEF Write, Torn
      <4>2. l \in 1..l /\ w \in Seq(Pieces)
        BY <1>1, <4>1, EmptySeq, LenProperties
      <4>3. w[l] \in Pieces
        BY <4>2, ElementOfSeq
      <4>4. Piece(w[l].line, "rest") \in Pieces /\ Piece(w[l].line, "rest").line = w[l].line
        BY <4>3 DEF Pieces, Piece
      <4>5. text' = [text EXCEPT ![g] = Append(@, Piece(w[l].line, "rest"))]
        BY <4>1
      <4>6. QED
        BY <3>1, <4>1, <4>4, <4>5
    <3>2. CASE ~ Torn(g)
      <4>1. PICK part \in {"all", "head"} :
              text' = [text EXCEPT ![g] = Append(@, Piece(lines + 1, part))]
        BY <1>3, <3>2 DEF Write
      <4>2. lines' = lines + 1
        BY <1>3, <3>2 DEF Write
      <4>3. Piece(lines + 1, part) \in Pieces /\ Piece(lines + 1, part).line = lines + 1
        BY <1>1 DEF Pieces, Piece
      <4>4. QED
        BY <4>1, <4>2, <4>3
    <3>3. QED
      BY <3>1, <3>2
  <2>2. lines' \in Nat /\ lines <= lines'
    BY <1>1, <2>1
  <2>3. ASSUME NEW i \in 1..Len(text[f]) PROVE text[f][i].line \in Nat
    <3>1. text[f][i] \in Pieces
      BY <1>1, ElementOfSeq
    <3>2. QED
      BY <3>1 DEF Pieces
  <2>4. CASE f # g
    <3>1. text'[f] = text[f]
      BY <1>1, <2>1, <2>4
    <3>2. \A i \in 1..Len(text[f]) : text[f][i].line <= lines'
      BY <1>1, <2>2, <2>3 DEF Numbered
    <3>3. QED
      BY <3>1, <3>2 DEF Numbered
  <2>5. CASE f = g
    <3>1. /\ w \in Seq(Pieces) /\ l \in Nat /\ text'[f] = Append(w, x)
          /\ Len(Append(w, x)) = l + 1
          /\ \A i \in 1..l : Append(w, x)[i] = w[i]
          /\ Append(w, x)[l + 1] = x
      BY <1>1, <2>1, <2>5, Longer
    <3>2. \A i \in 1..l : w[i].line \in Nat /\ w[i].line <= lines
      BY <2>3, <2>5 DEF Numbered
    <3>3. x.line \in Nat
      BY <2>1 DEF Pieces
    <3> HIDE DEF w, l
    <3>4. x.line <= lines' /\ \A i \in 1..l : w[i].line <= x.line
                            /\ (EndsLine(w[i]) => w[i].line < x.line)
      <4>1. CASE x.line = lines + 1 /\ lines' = lines + 1
        BY <1>1, <3>2, <4>1
      <4>2. CASE Torn(g) /\ x.line = w[l].line /\ lines' = lines
        <5>1. ~ EndsLine(w[l]) /\ l \in 1..l
          <6>1. w # <<>> /\ ~ EndsLine(w[l])
            BY <4>2 DEF Torn, w, l
          <6>2. QED
            BY <3>1, <6>1, EmptySeq DEF l
        <5>2. ASSUME NEW i \in 1..l
              PROVE  w[i].line <= w[l].line /\ (EndsLine(w[i]) => w[i].line < w[l].line)
          <6>1. CASE i = l
            BY <3>2, <5>1, <6>1
          <6>2. CASE i # l
            <7>1. i < l
              BY <3>1, <6>2
            <7>2. QED
              BY <2>5, <5>1, <7>1 DEF Numbered, w, l
          <6>3. QED
            BY <6>1, <6>2
        <5>3. x.line <= lines'
          BY <3>2, <4>2, <5>1
        <5>4. QED
          BY <4>2, <5>2, <5>3
      <4>3. QED
        BY <2>1, <4>1, <4>2 DEF w, l
    <3>5. ASSUME NEW i \in 1..(l + 1)
          PROVE  Append(w, x)[i].line <= lines'
      <4>1. CASE i \in 1..l
        BY <1>1, <2>2, <3>1, <3>2, <4>1
      <4>2. CASE i = l + 1
        BY <3>1, <3>4, <4>2
      <4>3. QED
        BY <3>1, <4>1, <4>2
    <3>6. ASSUME NEW i \in 1..(l + 1), NEW j \in 1..(l + 1), i < j
          PROVE  /\ Append(w, x)[i].line <= Append(w, x)[j].line
                 /\ EndsLine(Append(w, x)[i]) => Append(w, x)[i].line < Append(w, x)[j].line
      <4>1. i \in 1..l /\ Append(w, x)[i] = w[i]
        BY <3>1, <3>6
      <4>2. CASE j \in 1..l
        <5>1. Append(w, x)[j] = w[j]
          BY <3>1, <4>2
        <5>2. QED
          BY <2>5, <3>6, <4>1, <4>2, <5>1 DEF Numbered, w, l
      <4>3. CASE j = l + 1
        <5>1. Append(w, x)[j] = x
          BY <3>1, <4>3
        <5>2. QED
          BY <3>4, <4>1, <5>1
      <4>4. QED
        BY <3>1, <4>2, <4>3
    <3>7. QED
      BY <3>1, <3>5, <3>6 DEF Numbered
  <2>6. QED
    BY <2>4, <2>5
<1>4. CASE UNCHANGED vars
  BY <1>2, <1>4 DEF vars, fileVars
<1>5. CASE StartDaemon \/ Cancel \/ ProcessEnds \/ Discover \/ ScanStops
           \/ \E p \in Paths : Look(p)
  BY <1>2, <1>5 DEF StartDaemon, Cancel, ProcessEnds, Discover, ScanStops, Look, fileVars
<1>6. CASE \E t \in Tailers : TailNext(t)
  BY <1>2, <1>6 DEF TailNext, OpenFails, Open, Tick, Drain, DrainEnds, TailStops, fileVars
<1>7. CASE (\E p \in Paths, g \in Files : Create(p, g)) \/
           (\E p, q \in Paths : Rename(p, q)) \/ (\E p \in Paths : Remove(p))
  BY <1>2, <1>7 DEF Create, Rename, Remove
<1>8. QED
  BY <1>3, <1>4, <1>5, <1>6, <1>7 DEF Next, Environment

(* A tail reads a file under a name the file has had, and no two have the    *)
(* same: the path of each is in discover's map.                             *)
OneEach ==
  /\ \A t \in Tailers : tail[t].pc # "free" => tail[t].path \in seen
  /\ \A t, u \in Tailers : /\ tail[t].pc # "free" /\ tail[u].pc # "free"
                           /\ tail[t].path = tail[u].path
                           => t = u

Owned ==
  /\ \A p \in Paths : named[p] # Absent => p \in names[named[p]]
  /\ \A t \in Tailers : tail[t].pc \in {"wait", "drain"} =>
       tail[t].path \in names[tail[t].file]

(* What a step of one goroutine does to it. *)
LEMMA OneStep ==
  ASSUME TInv, NEW t \in Tailers, TailNext(t)
  PROVE  /\ \A u \in Tailers \ {t} : tail'[u] = tail[u]
         /\ UNCHANGED <<named, names, seen>>
         /\ \/ tail'[t].pc = "free"
            \/ /\ tail[t].pc = "open" /\ tail'[t].path = tail[t].path
               /\ tail'[t].file = named[tail[t].path]
               /\ tail'[t].file \in Files
               /\ tail'[t].pos = Len(text[tail'[t].file])
            \/ /\ tail[t].pc \in {"wait", "drain"} /\ tail'[t].pc \in {"wait", "drain"}
               /\ tail'[t].path = tail[t].path /\ tail'[t].file = tail[t].file
<1>1. /\ tail \in [Tailers -> TailType] /\ tail[t] \in TailType
      /\ named \in [Paths -> Files \cup {Absent}]
      /\ tail[t].pc # "free" => tail[t].path \in Paths
  BY DEF TInv, TypeOK, Aimed
<1>2. \A u \in Tailers \ {t} : tail'[u] = tail[u]
  BY TailGrows
<1>3. UNCHANGED <<named, names, seen>>
  BY DEF TailNext, OpenFails, Open, Tick, Drain, DrainEnds, TailStops, fileVars
<1>4. CASE OpenFails(t) \/ TailStops(t)
  <2>1. tail' = [tail EXCEPT ![t] = Free]
    BY <1>4 DEF OpenFails, TailStops
  <2>2. tail'[t].pc = "free"
    BY <1>1, <2>1, FreeTyped
  <2>3. QED
    BY <1>2, <1>3, <2>2
<1>5. CASE Open(t)
  <2> DEFINE f == named[tail[t].path]
             l == Len(text[f])
  <2>1. /\ tail[t].pc = "open" /\ f # Absent
        /\ tail' = [tail EXCEPT ![t] = [@ EXCEPT !.pc = "wait", !.file = f,
                                                  !.from = l, !.pos = l]]
    BY <1>5 DEF Open, SeekEnd
  <2>2. f \in Files
    BY <1>1, <2>1
  <2> HIDE DEF f, l
  <2>3. tail'[t].path = tail[t].path /\ tail'[t].file = f /\ tail'[t].pos = l
    BY <1>1, <2>1 DEF TailType
  <2>4. QED
    BY <1>2, <1>3, <2>1, <2>2, <2>3 DEF f, l
<1>6. CASE Tick(t) \/ Drain(t) \/ DrainEnds(t)
  <2>1. \/ tail' = [tail EXCEPT ![t].pc = "drain"]
        \/ tail' = [tail EXCEPT ![t].pos = LineEnd(text[tail[t].file], tail[t].pos)]
        \/ tail' = [tail EXCEPT ![t] = [tail[t] EXCEPT !.pc = "wait",
                                          !.pos = Len(text[tail[t].file])]]
    BY <1>6 DEF Tick, Drain, DrainEnds, AfterEof
  <2>2. tail[t].pc \in {"wait", "drain"}
    BY <1>6 DEF Tick, Drain, DrainEnds
  <2>3. /\ tail'[t].path = tail[t].path /\ tail'[t].file = tail[t].file
        /\ tail'[t].pc \in {"wait", "drain"}
    <3>1. CASE tail' = [tail EXCEPT ![t].pc = "drain"]
      BY <1>1, <3>1 DEF TailType
    <3>2. CASE tail' = [tail EXCEPT ![t].pos = LineEnd(text[tail[t].file], tail[t].pos)]
      BY <1>1, <2>2, <3>2 DEF TailType
    <3>3. CASE tail' = [tail EXCEPT ![t] = [tail[t] EXCEPT !.pc = "wait",
                                            !.pos = Len(text[tail[t].file])]]
      BY <1>1, <3>3 DEF TailType
    <3>4. QED
      BY <2>1, <3>1, <3>2, <3>3
  <2>4. QED
    BY <1>2, <1>3, <2>2, <2>3
<1>7. QED
  BY <1>4, <1>5, <1>6 DEF TailNext

LEMMA OneEachStep ==
  ASSUME TInv, OneEach, [Next]_vars
  PROVE  OneEach'
<1>1. tail \in [Tailers -> TailType]
  BY DEF TInv, TypeOK
<1>2. CASE Environment \/ StartDaemon \/ Cancel \/ Discover \/ ScanStops \/ UNCHANGED vars
  <2>1. UNCHANGED <<seen, tail>>
    BY <1>2 DEF Environment, Create, Rename, Remove, Write, StartDaemon, Cancel,
                Discover, ScanStops, vars
  <2>2. QED
    BY <2>1 DEF OneEach
<1>3. CASE ProcessEnds
  <2>1. \A t \in Tailers : tail'[t].pc = "free"
    BY <1>3, FreeTyped DEF ProcessEnds
  <2>2. QED
    BY <2>1 DEF OneEach
<1>4. ASSUME NEW p \in Paths, Look(p) PROVE OneEach'
  <2>1. CASE p \in seen
    BY <1>4, <2>1 DEF Look, OneEach
  <2>2. CASE p \notin seen
    <3>1. seen' = seen \cup {p}
      BY <1>4, <2>2 DEF Look, SeenAfter
    <3>2. PICK t \in Tailers : tail' = [tail EXCEPT ![t] = [Free EXCEPT !.pc = "open", !.path = p]]
      BY <1>4, <2>2 DEF Look
    <3>3. tail'[t].path = p /\ \A u \in Tailers : u # t => tail'[u] = tail[u]
      BY <1>1, <3>2 DEF Free
    <3>4. QED
      BY <2>2, <3>1, <3>3 DEF OneEach
  <2>3. QED
    BY <2>1, <2>2
<1>5. ASSUME NEW t \in Tailers, TailNext(t) PROVE OneEach'
  <2>1. /\ \A u \in Tailers : u # t => tail'[u] = tail[u]
        /\ seen' = seen
        /\ tail'[t].pc = "free" \/ (tail[t].pc # "free" /\ tail'[t].path = tail[t].path)
    BY <1>5, OneStep
  <2>2. QED
    BY <2>1 DEF OneEach
<1>6. QED
  BY <1>2, <1>3, <1>4, <1>5 DEF Next

LEMMA OwnedStep ==
  ASSUME TInv, Owned, [Next]_vars
  PROVE  Owned'
<1>1. /\ tail \in [Tailers -> TailType] /\ named \in [Paths -> Files \cup {Absent}]
      /\ names \in [Files -> SUBSET Paths]
      /\ \A t \in Tailers : tail[t].pc \in {"wait", "drain"} => tail[t].file \in Files
      /\ \A t \in Tailers : tail[t].pc # "free" => tail[t].path \in Paths
  BY DEF TInv, TypeOK, Aimed
<1>2. ASSUME UNCHANGED <<named, names>>,
             \A t \in Tailers : tail'[t] = tail[t] \/ tail'[t].pc \in {"free", "open"}
      PROVE  Owned'
  BY <1>2 DEF Owned
<1>3. ASSUME NEW p \in Paths, NEW f \in Files, Create(p, f) PROVE Owned'
  <2>1. /\ names[f] = {} /\ named' = [named EXCEPT ![p] = f]
        /\ names' = [names EXCEPT ![f] = {p}] /\ tail' = tail
    BY <1>3 DEF Create
  <2>2. /\ \A q \in Paths : named'[q] = IF q = p THEN f ELSE named[q]
        /\ \A g \in Files : names'[g] = IF g = f THEN {p} ELSE names[g]
    BY <1>1, <2>1
  <2>3. ASSUME NEW q \in Paths, named'[q] # Absent PROVE q \in names'[named'[q]]
    <3>1. CASE q = p
      BY <2>2, <3>1
    <3>2. CASE q # p
      <4>1. named'[q] = named[q] /\ named[q] \in Files
        BY <1>1, <2>2, <2>3, <3>2
      <4>2. q \in names[named[q]]
        BY <2>3, <4>1 DEF Owned
      <4>3. named[q] # f
        BY <2>1, <4>2
      <4>4. QED
        BY <2>2, <4>1, <4>2, <4>3
    <3>3. QED
      BY <3>1, <3>2
  <2>4. ASSUME NEW t \in Tailers, tail[t].pc \in {"wait", "drain"}
        PROVE  tail[t].path \in names'[tail[t].file]
    <3>1. tail[t].file \in Files /\ tail[t].path \in names[tail[t].file]
      BY <1>1, <2>4 DEF Owned
    <3>2. tail[t].file # f
      BY <2>1, <3>1
    <3>3. QED
      BY <2>2, <3>1, <3>2
  <2>5. QED
    BY <2>1, <2>3, <2>4 DEF Owned
<1>4. ASSUME NEW p \in Paths, NEW q \in Paths, Rename(p, q) PROVE Owned'
  <2>1. /\ named[p] # Absent /\ named[q] = Absent /\ tail' = tail
        /\ named' = [named EXCEPT ![q] = named[p], ![p] = Absent]
        /\ names' = [names EXCEPT ![named[p]] = @ \cup {q}]
    BY <1>4 DEF Rename
  <2>2. named[p] \in Files /\ p # q
    BY <1>1, <2>1
  <2>3. \A r \in Paths : named'[r] = IF r = p THEN Absent ELSE IF r = q THEN named[p] ELSE named[r]
    BY <1>1, <2>1, <2>2
  <2>4. /\ \A g \in Files : names[g] \subseteq names'[g]
        /\ q \in names'[named[p]]
    BY <1>1, <2>1, <2>2
  <2>5. ASSUME NEW r \in Paths, named'[r] # Absent PROVE r \in names'[named'[r]]
    <3>1. CASE r = q
      BY <2>2, <2>3, <2>4, <3>1
    <3>2. CASE r # q
      <4>1. named'[r] = named[r] /\ named[r] \in Files
        BY <1>1, <2>3, <2>5, <3>2
      <4>2. r \in names[named[r]]
        BY <2>5, <4>1 DEF Owned
      <4>3. QED
        BY <2>4, <4>1, <4>2
    <3>3. QED
      BY <3>1, <3>2
  <2>6. QED
    BY <1>1, <2>1, <2>4, <2>5 DEF Owned
<1>5. ASSUME NEW p \in Paths, Remove(p) PROVE Owned'
  <2>1. /\ named' = [named EXCEPT ![p] = Absent] /\ names' = names /\ tail' = tail
    BY <1>5 DEF Remove
  <2>2. \A q \in Paths : named'[q] = IF q = p THEN Absent ELSE named[q]
    BY <1>1, <2>1
  <2>3. QED
    BY <2>1, <2>2 DEF Owned
<1>6. CASE \E f \in Files : Write(f)
  BY <1>2, <1>6 DEF Write
<1>7. CASE StartDaemon \/ Cancel \/ Discover \/ ScanStops \/ UNCHANGED vars
  BY <1>2, <1>7 DEF StartDaemon, Cancel, Discover, ScanStops, vars, fileVars
<1>8. CASE ProcessEnds
  <2>1. \A t \in Tailers : tail'[t].pc = "free"
    BY <1>8, FreeTyped DEF ProcessEnds
  <2>2. UNCHANGED <<named, names>>
    BY <1>8 DEF ProcessEnds, fileVars
  <2>3. QED
    BY <1>2, <2>1, <2>2
<1>9. ASSUME NEW p \in Paths, Look(p) PROVE Owned'
  <2>1. UNCHANGED <<named, names>>
    BY <1>9 DEF Look, fileVars
  <2>2. \/ tail' = tail
        \/ \E t \in Tailers : tail' = [tail EXCEPT ![t] = [Free EXCEPT !.pc = "open", !.path = p]]
    BY <1>9 DEF Look
  <2>3. [Free EXCEPT !.pc = "open", !.path = p].pc = "open"
    BY DEF Free
  <2>4. \A t \in Tailers : tail'[t] = tail[t] \/ tail'[t].pc = "open"
    BY <1>1, <2>2, <2>3
  <2>5. QED
    BY <1>2, <2>1, <2>4
<1>10. ASSUME NEW t \in Tailers, TailNext(t) PROVE Owned'
  <2>1. /\ \A u \in Tailers : u # t => tail'[u] = tail[u]
        /\ UNCHANGED <<named, names>>
    BY <1>10, OneStep
  <2>2. tail'[t].pc \in {"wait", "drain"} => tail'[t].path \in names'[tail'[t].file]
    <3>1. CASE tail'[t].pc = "free"
      BY <3>1
    <3>2. CASE /\ tail[t].pc = "open" /\ tail'[t].path = tail[t].path
               /\ tail'[t].file = named[tail[t].path] /\ tail'[t].file \in Files
      <4>1. tail[t].path \in Paths /\ named[tail[t].path] # Absent
        BY <1>1, <3>2, LogTailAssumption
      <4>2. tail[t].path \in names[named[tail[t].path]]
        BY <4>1 DEF Owned
      <4>3. QED
        BY <2>1, <3>2, <4>2
    <3>3. CASE /\ tail[t].pc \in {"wait", "drain"}
               /\ tail'[t].path = tail[t].path /\ tail'[t].file = tail[t].file
      BY <2>1, <3>3 DEF Owned
    <3>4. QED
      BY <1>10, <3>1, <3>2, <3>3, OneStep
  <2>3. QED
    BY <2>1, <2>2 DEF Owned
<1>11. QED
  BY <1>3, <1>4, <1>5, <1>6, <1>7, <1>8, <1>9, <1>10 DEF Next, Environment

(* What is recorded of a file are lines of it, and of a file of one name     *)
(* lines its tail has passed, in their order.                               *)
Reads(t, f) == tail[t].pc \in {"wait", "drain"} /\ tail[t].file = f

IsLine(f, j, n) ==
  /\ j \in 1..Len(text[f]) /\ EndsLine(text[f][j]) /\ text[f][j].line = n
  /\ OneName(f) => \A t \in Tailers : Reads(t, f) => j <= tail[t].pos

Kept(f) == \A k \in 1..Len(recorded[f]) : \E j : IsLine(f, j, recorded[f][k])

Rising(f) ==
  OneName(f) => \A i, j \in 1..Len(recorded[f]) : i < j => recorded[f][i] < recorded[f][j]

LInv == TInv /\ OneEach /\ Owned /\ \A f \in Files : Numbered(f) /\ Kept(f) /\ Rising(f)

(* A goroutine only goes forward. *)
LEMMA Forward ==
  ASSUME TInv, NEW t \in Tailers, TailNext(t), tail[t].pc \in {"wait", "drain"},
         tail'[t].pc \in {"wait", "drain"}
  PROVE  tail[t].pos <= tail'[t].pos
<1>1. /\ tail \in [Tailers -> TailType] /\ tail[t] \in TailType
      /\ text \in [Files -> Seq(Pieces)] /\ tail[t].file \in Files
      /\ tail[t].pos \in tail[t].from..Len(text[tail[t].file])
  BY DEF TInv, TypeOK
<1>2. tail[t].pos \in Nat /\ tail[t].from \in Nat /\ Len(text[tail[t].file]) \in Nat
  BY <1>1, LenProperties DEF TailType
<1>3. CASE Tick(t)
  <2>1. tail'[t].pos = tail[t].pos
    BY <1>1, <1>3 DEF Tick, TailType
  <2>2. QED
    BY <1>2, <2>1
<1>4. CASE Drain(t)
  <2> DEFINE e == LineEnd(text[tail[t].file], tail[t].pos)
  <2>1. e \in (tail[t].pos + 1)..Len(text[tail[t].file])
    BY <1>4, DrainTyped
  <2>2. tail' = [tail EXCEPT ![t].pos = e]
    BY <1>4 DEF Drain
  <2> HIDE DEF e
  <2>3. tail'[t].pos = e
    BY <1>1, <2>2 DEF TailType
  <2>4. QED
    BY <1>2, <2>1, <2>3
<1>5. CASE DrainEnds(t)
  <2> DEFINE l == Len(text[tail[t].file])
  <2>1. tail' = [tail EXCEPT ![t] = [tail[t] EXCEPT !.pc = "wait", !.pos = l]]
    BY <1>5 DEF DrainEnds, AfterEof
  <2>2. tail[t].pos <= l
    BY <1>1, <1>2
  <2> HIDE DEF l
  <2>3. tail'[t].pos = l
    BY <1>1, <2>1 DEF TailType
  <2>4. QED
    BY <2>2, <2>3
<1>6. CASE OpenFails(t) \/ Open(t) \/ TailStops(t)
  <2>1. tail[t].pc = "open" \/ tail' = [tail EXCEPT ![t] = Free]
    BY <1>6 DEF OpenFails, Open, TailStops
  <2>2. QED
    BY <1>1, <2>1, FreeTyped
<1>7. QED
  BY <1>3, <1>4, <1>5, <1>6 DEF TailNext

(* A file that has one name never had another. *)
LEMMA StillSingle ==
  ASSUME TInv, [Next]_vars, NEW f \in Files, OneName(f)'
  PROVE  OneName(f)
<1>1. names \in [Files -> SUBSET Paths] /\ named \in [Paths -> Files \cup {Absent}]
  BY DEF TInv, TypeOK
<1>2. ASSUME names' = names PROVE OneName(f)
  BY <1>2 DEF OneName
<1>3. ASSUME NEW p \in Paths, NEW g \in Files, Create(p, g) PROVE OneName(f)
  <2>1. names[g] = {} /\ names' = [names EXCEPT ![g] = {p}]
    BY <1>3 DEF Create
  <2>2. QED
    BY <1>1, <2>1 DEF OneName
<1>4. ASSUME NEW p \in Paths, NEW q \in Paths, Rename(p, q) PROVE OneName(f)
  <2>1. names' = [names EXCEPT ![named[p]] = @ \cup {q}]
    BY <1>4 DEF Rename
  <2>2. names[f] \subseteq names'[f]
    BY <1>1, <2>1
  <2>3. QED
    BY <2>2 DEF OneName
<1>5. CASE (\E p \in Paths : Remove(p)) \/ (\E g \in Files : Write(g))
  BY <1>2, <1>5 DEF Remove, Write
<1>6. CASE UNCHANGED vars \/ StartDaemon \/ Cancel \/ ProcessEnds \/ Discover
           \/ ScanStops \/ \E p \in Paths : Look(p)
  BY <1>2, <1>6 DEF vars, fileVars, StartDaemon, Cancel, ProcessEnds, Discover,
                    ScanStops, Look
<1>7. CASE \E t \in Tailers : TailNext(t)
  BY <1>2, <1>7, OneStep
<1>8. QED
  BY <1>3, <1>4, <1>5, <1>6, <1>7 DEF Next, Environment

(* Nothing is recorded of f, and its readers go on or have just opened it. *)
LEMMA QuietFor ==
  ASSUME LInv, TInv', NEW f \in Files, OneName(f)' => OneName(f),
         recorded'[f] = recorded[f],
         \A i \in 1..Len(text[f]) : i \in 1..Len(text'[f]) /\ text'[f][i] = text[f][i],
         \A t \in Tailers : Reads(t, f)' =>
           \/ Reads(t, f) /\ tail[t].pos <= tail'[t].pos
           \/ tail'[t].pos = Len(text[f])
  PROVE  Kept(f)' /\ Rising(f)'
<1>1. Rising(f)'
  BY DEF LInv, Rising
<1>2. ASSUME NEW k \in 1..Len(recorded[f])
      PROVE  \E j : IsLine(f, j, recorded[f][k])'
  <2>1. PICK j : IsLine(f, j, recorded[f][k])
    BY DEF LInv, Kept
  <2>2. /\ j \in 1..Len(text'[f]) /\ EndsLine(text'[f][j])
        /\ text'[f][j].line = recorded[f][k]
    BY <2>1 DEF IsLine
  <2>3. ASSUME OneName(f)', NEW t \in Tailers, Reads(t, f)'
        PROVE  j <= tail'[t].pos
    <3>1. j \in 1..Len(text[f]) /\ Len(text[f]) \in Nat
      <4>1. text[f] \in Seq(Pieces)
        BY DEF LInv, TInv, TypeOK
      <4>2. QED
        BY <2>1, <4>1, LenProperties DEF IsLine
    <3>2. CASE Reads(t, f) /\ tail[t].pos <= tail'[t].pos
      <4>1. j <= tail[t].pos
        BY <2>1, <2>3, <3>2 DEF IsLine
      <4>2. tail[t] \in TailType /\ tail'[t] \in TailType
        BY DEF LInv, TInv, TypeOK
      <4>3. tail[t].pos \in Nat /\ tail'[t].pos \in Nat
        BY <4>2 DEF TailType
      <4>4. QED
        BY <3>1, <3>2, <4>1, <4>3
    <3>3. CASE tail'[t].pos = Len(text[f])
      BY <3>1, <3>3
    <3>4. QED
      BY <2>3, <3>2, <3>3
  <2>4. IsLine(f, j, recorded[f][k])'
    BY <2>2, <2>3 DEF IsLine
  <2>5. QED
    BY <2>4
<1>3. QED
  BY <1>1, <1>2 DEF Kept

(* A line, n, is recorded of the file it was read from. *)
LEMMA RecordedInOrder ==
  ASSUME LInv, NEW t \in Tailers, Drain(t), NEW f \in Files, tail[t].file = f,
         OneName(f)' => OneName(f),
         recorded' = [recorded EXCEPT ![f] = Append(@, LineAt(text[f], tail[t].pos))]
  PROVE  Kept(f)' /\ Rising(f)'
<1>1. PICK k, e, n, r : /\ k = tail[t].pos /\ e = LineEnd(text[f], k)
                        /\ n = text[f][e].line /\ r = recorded[f]
  OBVIOUS
<1>2. /\ text[f] \in Seq(Pieces) /\ k \in Nat
      /\ e \in (k + 1)..Len(text[f]) /\ n \in Nat
  BY <1>1, DrainTyped DEF LInv
<1>3. /\ tail[t].pc = "drain" /\ tail' = [tail EXCEPT ![t].pos = e]
      /\ HasLine(text[f], k) /\ UNCHANGED <<text, names>>
  BY <1>1 DEF Drain, fileVars
<1>4. EndsLine(text[f][e])
  BY <1>1, <1>2, <1>3, FirstNewline
<1>5. /\ tail \in [Tailers -> TailType] /\ tail[t] \in TailType
      /\ recorded \in [Files -> Seq(Nat)]
  BY DEF LInv, TInv, TypeOK
<1>6. /\ tail'[t].file = f /\ tail'[t].pos = e
      /\ \A u \in Tailers : u # t => tail'[u] = tail[u]
  BY <1>3, <1>5 DEF TailType
<1>7. r \in Seq(Nat) /\ recorded'[f] = Append(r, n)
  BY <1>1, <1>5 DEF LineAt
<1>8. /\ Len(r) \in Nat /\ Len(Append(r, n)) = Len(r) + 1
      /\ \A i \in 1..Len(r) : Append(r, n)[i] = r[i]
      /\ Append(r, n)[Len(r) + 1] = n
  BY <1>2, <1>7, Longer
<1>9. Len(text[f]) \in Nat /\ e \in 1..Len(text[f]) /\ e \in Nat
  <2>1. Len(text[f]) \in Nat
    BY <1>2, LenProperties
  <2>2. QED
    BY <1>2, <2>1
<1>10. Numbered(f) /\ Kept(f) /\ Rising(f) /\ Reads(t, f)
  BY <1>3 DEF LInv, Reads
(* No other goroutine reads a file of one name. *)
<1>11. ASSUME OneName(f), NEW u \in Tailers, Reads(u, f) PROVE u = t
  <2>1. tail[u].path \in names[f] /\ tail[t].path \in names[f]
    BY <1>10, <1>11 DEF LInv, Owned, Reads
  <2>2. tail[u].path = tail[t].path
    BY <1>11, <2>1 DEF OneName
  <2>3. tail[u].pc # "free" /\ tail[t].pc # "free"
    BY <1>3, <1>11 DEF Reads
  <2>4. QED
    BY <2>2, <2>3 DEF LInv, OneEach
<1>12. ASSUME NEW j \in 1..Len(text[f]), NEW m, EndsLine(text[f][j]), text[f][j].line = m,
              OneName(f) => j <= e
       PROVE  IsLine(f, j, m)'
  <2>1. ASSUME OneName(f)', NEW u \in Tailers, Reads(u, f)'
        PROVE  j <= tail'[u].pos
    <3>1. CASE u = t
      BY <1>6, <1>12, <2>1, <3>1
    <3>2. CASE u # t
      <4>1. Reads(u, f)
        BY <1>6, <2>1, <3>2 DEF Reads
      <4>2. QED
        BY <1>11, <2>1, <3>2, <4>1
    <3>3. QED
      BY <3>1, <3>2
  <2>2. QED
    BY <1>3, <1>12, <2>1 DEF IsLine
(* What was recorded before is behind the line that is read. *)
<1>13. ASSUME NEW i \in 1..Len(r)
       PROVE  \E j \in 1..Len(text[f]) :
                /\ EndsLine(text[f][j]) /\ text[f][j].line = r[i]
                /\ OneName(f) => j < e
  <2>1. PICK j : IsLine(f, j, r[i])
    BY <1>1, <1>10 DEF Kept
  <2>2. j \in 1..Len(text[f]) /\ EndsLine(text[f][j]) /\ text[f][j].line = r[i]
    BY <2>1 DEF IsLine
  <2>3. OneName(f) => j <= k
    BY <1>1, <1>10, <2>1 DEF IsLine
  <2>4. OneName(f) => j < e
    BY <1>2, <1>9, <2>2, <2>3
  <2>5. QED
    BY <2>2, <2>4
<1>14. ASSUME NEW i \in 1..Len(Append(r, n))
       PROVE  \E j : IsLine(f, j, Append(r, n)[i])'
  <2>1. PICK m : m = Append(r, n)[i]
    OBVIOUS
  <2>2. \E j : IsLine(f, j, m)'
    <3>1. CASE i \in 1..Len(r)
      <4>1. m = r[i]
        BY <1>8, <2>1, <3>1
      <4>2. PICK j \in 1..Len(text[f]) :
              /\ EndsLine(text[f][j]) /\ text[f][j].line = r[i] /\ (OneName(f) => j < e)
        BY <1>13, <3>1
      <4>3. OneName(f) => j <= e
        BY <1>9, <4>2
      <4>4. QED
        BY <1>12, <4>1, <4>2, <4>3
    <3>2. CASE i = Len(r) + 1
      <4>1. m = n /\ e <= e
        BY <1>8, <1>9, <2>1, <3>2
      <4>2. QED
        BY <1>1, <1>4, <1>9, <1>12, <4>1
    <3>3. QED
      BY <1>8, <3>1, <3>2
  <2>3. QED
    BY <2>1, <2>2 DEF IsLine
<1>15. Kept(f)'
  BY <1>7, <1>14 DEF Kept, IsLine
<1>16. ASSUME OneName(f)', NEW i \in 1..Len(Append(r, n)), NEW j \in 1..Len(Append(r, n)),
              i < j
       PROVE  Append(r, n)[i] < Append(r, n)[j]
  <2>1. i \in 1..Len(r) /\ Append(r, n)[i] = r[i]
    BY <1>8, <1>16
  <2>2. CASE j \in 1..Len(r)
    <3>1. r[i] < r[j]
      BY <1>1, <1>10, <1>16, <2>1, <2>2 DEF Rising
    <3>2. QED
      BY <1>8, <2>1, <2>2, <3>1
  <2>3. CASE j = Len(r) + 1
    <3>1. PICK m \in 1..Len(text[f]) :
            /\ EndsLine(text[f][m]) /\ text[f][m].line = r[i] /\ (OneName(f) => m < e)
      BY <1>13, <2>1
    <3>2. text[f][m].line < text[f][e].line
      BY <1>9, <1>10, <1>16, <3>1 DEF Numbered
    <3>3. QED
      BY <1>1, <1>8, <2>1, <2>3, <3>1, <3>2
  <2>4. QED
    BY <1>8, <2>2, <2>3
<1>17. Rising(f)'
  BY <1>7, <1>16 DEF Rising
<1>18. QED
  BY <1>15, <1>17

LEMMA TextGrows ==
  ASSUME TInv, [Next]_vars, NEW f \in Files, NEW i \in 1..Len(text[f])
  PROVE  i \in 1..Len(text'[f]) /\ text'[f][i] = text[f][i]
<1>1. text \in [Files -> Seq(Pieces)]
  BY DEF TInv, TypeOK
<1>2. CASE text' = text
  BY <1>2
<1>3. ASSUME NEW g \in Files, Write(g)
      PROVE  i \in 1..Len(text'[f]) /\ text'[f][i] = text[f][i]
  <2>1. PICK x \in Pieces : text' = [text EXCEPT ![g] = Append(@, x)]
    BY <1>3, WriteAppends
  <2>2. CASE g = f
    <3>1. text'[f] = Append(text[f], x)
      BY <1>1, <2>1, <2>2
    <3>2. /\ Len(text[f]) \in Nat /\ Len(Append(text[f], x)) = Len(text[f]) + 1
          /\ Append(text[f], x)[i] = text[f][i]
      BY <1>1, <2>1, Longer
    <3>3. QED
      BY <3>1, <3>2
  <2>3. CASE g # f
    BY <1>1, <2>1, <2>3
  <2>4. QED
    BY <2>2, <2>3
<1>4. CASE ~ \E g \in Files : Write(g)
  <2>1. text' = text
    BY <1>4 DEF Next, Environment, Create, Rename, Remove, StartDaemon, Cancel,
                ProcessEnds, Discover, ScanStops, Look, TailNext, OpenFails, Open,
                Tick, Drain, DrainEnds, TailStops, vars, fileVars
  <2>2. QED
    BY <1>2, <2>1
<1>5. QED
  BY <1>3, <1>4

(* Who reads f after a step has read it before, or has just opened it. *)
LEMMA Readers ==
  ASSUME TInv, [Next]_vars, NEW f \in Files, NEW u \in Tailers, Reads(u, f)'
  PROVE  \/ Reads(u, f) /\ tail[u].pos <= tail'[u].pos
         \/ tail'[u].pos = Len(text[f])
<1>1. /\ tail \in [Tailers -> TailType] /\ tail[u] \in TailType /\ tail[u].pos \in Nat
  BY DEF TInv, TypeOK, TailType
<1>2. CASE tail'[u] = tail[u]
  BY <1>1, <1>2 DEF Reads
<1>3. CASE Environment \/ StartDaemon \/ Cancel \/ Discover \/ ScanStops \/ UNCHANGED vars
  <2>1. tail' = tail
    BY <1>3 DEF Environment, Create, Rename, Remove, Write, StartDaemon, Cancel,
                Discover, ScanStops, vars
  <2>2. QED
    BY <1>2, <2>1
<1>4. CASE ProcessEnds
  <2>1. tail'[u].pc = "free"
    BY <1>4, FreeTyped DEF ProcessEnds
  <2>2. QED
    BY <2>1 DEF Reads
<1>5. ASSUME NEW p \in Paths, Look(p)
      PROVE  \/ Reads(u, f) /\ tail[u].pos <= tail'[u].pos
             \/ tail'[u].pos = Len(text[f])
  <2>1. \/ tail' = tail
        \/ \E t \in Tailers : tail' = [tail EXCEPT ![t] = [Free EXCEPT !.pc = "open", !.path = p]]
    BY <1>5 DEF Look
  <2>2. [Free EXCEPT !.pc = "open", !.path = p].pc = "open"
    BY DEF Free
  <2>3. tail'[u] = tail[u] \/ tail'[u].pc = "open"
    BY <1>1, <2>1, <2>2
  <2>4. tail'[u] = tail[u]
    BY <2>3 DEF Reads
  <2>5. QED
    BY <1>2, <2>4
<1>6. ASSUME NEW t \in Tailers, TailNext(t)
      PROVE  \/ Reads(u, f) /\ tail[u].pos <= tail'[u].pos
             \/ tail'[u].pos = Len(text[f])
  <2>1. CASE t # u
    <3>1. tail'[u] = tail[u]
      BY <1>6, <2>1, OneStep
    <3>2. QED
      BY <1>2, <3>1
  <2>2. CASE t = u
    <3>1. \/ tail'[u].pos = Len(text[tail'[u].file])
          \/ tail[u].pc \in {"wait", "drain"} /\ tail'[u].file = tail[u].file
      BY <1>6, <2>2, OneStep DEF Reads
    <3>2. tail'[u].pc \in {"wait", "drain"} /\ tail'[u].file = f
      BY DEF Reads
    <3>3. CASE tail[u].pc \in {"wait", "drain"} /\ tail'[u].file = tail[u].file
      <4>1. tail[u].pos <= tail'[u].pos
        BY <1>6, <2>2, <3>2, <3>3, Forward
      <4>2. QED
        BY <3>2, <3>3, <4>1 DEF Reads
    <3>4. QED
      BY <3>1, <3>2, <3>3
  <2>3. QED
    BY <2>1, <2>2
<1>7. QED
  BY <1>3, <1>4, <1>5, <1>6 DEF Next

LEMMA KeptStep ==
  ASSUME LInv, TInv', [Next]_vars, NEW f \in Files
  PROVE  Kept(f)' /\ Rising(f)'
<1>0. TInv /\ recorded \in [Files -> Seq(Nat)]
  BY DEF LInv, TInv, TypeOK
<1>1. OneName(f)' => OneName(f)
  BY <1>0, StillSingle
<1>2. CASE recorded'[f] = recorded[f]
  <2>1. \A i \in 1..Len(text[f]) : i \in 1..Len(text'[f]) /\ text'[f][i] = text[f][i]
    BY <1>0, TextGrows
  <2>2. \A t \in Tailers : Reads(t, f)' =>
          \/ Reads(t, f) /\ tail[t].pos <= tail'[t].pos
          \/ tail'[t].pos = Len(text[f])
    BY <1>0, Readers
  <2>3. QED
    BY <1>1, <1>2, <2>1, <2>2, QuietFor
<1>3. CASE recorded'[f] # recorded[f]
  <2>1. PICK t \in Tailers : Drain(t)
    BY <1>3 DEF Next, Environment, Create, Rename, Remove, Write, StartDaemon, Cancel,
                ProcessEnds, Discover, ScanStops, Look, TailNext, OpenFails, Open,
                Tick, DrainEnds, TailStops, vars
  <2>2. recorded' = [recorded EXCEPT ![tail[t].file] =
                       Append(@, LineAt(text[tail[t].file], tail[t].pos))]
    BY <1>3, <2>1 DEF Drain
  <2>3. tail[t].file = f
    BY <1>0, <1>3, <2>2
  <2>4. QED
    BY <1>1, <2>1, <2>2, <2>3, RecordedInOrder
<1>4. QED
  BY <1>2, <1>3

LEMMA LInvBegins == Init => LInv
<1>1. ASSUME Init PROVE LInv
  <2>1. TInv
    BY <1>1, TInvBegins
  <2>2. /\ \A t \in Tailers : tail[t].pc = "free"
        /\ \A p \in Paths : named[p] = Absent
        /\ \A f \in Files : text[f] = <<>> /\ recorded[f] = <<>>
    BY <1>1, FreeTyped DEF Init
  <2>3. OneEach /\ Owned
    BY <2>2 DEF OneEach, Owned
  <2>4. \A f \in Files : Numbered(f) /\ Kept(f) /\ Rising(f)
    BY <2>2 DEF Numbered, Kept, Rising
  <2>5. QED
    BY <2>1, <2>3, <2>4 DEF LInv
<1>2. QED
  BY <1>1

LEMMA LInvStep ==
  ASSUME LInv, [Next]_vars
  PROVE  LInv'
<1>1. TInv'
  BY TInvStep DEF LInv
<1>2. OneEach' /\ Owned'
  BY OneEachStep, OwnedStep DEF LInv
<1>3. \A f \in Files : Numbered(f)'
  BY NumberedStep DEF LInv
<1>4. \A f \in Files : Kept(f)' /\ Rising(f)'
  BY <1>1, KeptStep
<1>5. QED
  BY <1>1, <1>2, <1>3, <1>4 DEF LInv

(* The lines of a file that has had one name are recorded in their order and *)
(* once each, however often the daemon is started and the directory scanned. *)
THEOREM RecordsInOrder == Spec => []LinesInOrder
<1>1. LInv /\ [Next]_vars => LInv'
  BY LInvStep
<1>2. LInv => LinesInOrder
  BY DEF LInv, Rising, LinesInOrder
<1>3. QED
  BY <1>1, <1>2, LInvBegins, PTL DEF Spec
-----------------------------------------------------------------------------
(* How often a line is recorded.  Each record of f can be credited to a name *)
(* the file has had, no two of one line to the same: whoever reads f under   *)
(* that name is past the line, and a goroutine that opens f later starts     *)
(* behind it, also after the daemon was started again.                       *)
Credit(f, c) ==
  /\ c \in [1..Len(recorded[f]) -> names[f]]
  /\ \A i, j \in 1..Len(recorded[f]) :
       recorded[f][i] = recorded[f][j] /\ c[i] = c[j] => i = j
  /\ \A i \in 1..Len(recorded[f]) : \E j \in 1..Len(text[f]) :
       /\ EndsLine(text[f][j]) /\ text[f][j].line = recorded[f][i]
       /\ \A t \in Tailers : Reads(t, f) /\ tail[t].path = c[i] => j <= tail[t].pos

Credited(f) == IsFiniteSet(names[f]) /\ \E c : Credit(f, c)

CInv == LInv /\ \A f \in Files : Credited(f)

LEMMA SamePath ==
  ASSUME TInv, [Next]_vars, NEW f \in Files, NEW u \in Tailers,
         Reads(u, f), Reads(u, f)'
  PROVE  tail'[u].path = tail[u].path
<1>1. tail \in [Tailers -> TailType]
  BY DEF TInv, TypeOK
<1>2. CASE Environment \/ StartDaemon \/ Cancel \/ Discover \/ ScanStops \/ UNCHANGED vars
  BY <1>2 DEF Environment, Create, Rename, Remove, Write, StartDaemon, Cancel,
              Discover, ScanStops, vars
<1>3. CASE ProcessEnds
  BY <1>3, FreeTyped DEF ProcessEnds, Reads
<1>4. ASSUME NEW p \in Paths, Look(p) PROVE tail'[u] = tail[u]
  <2>1. \/ tail' = tail
        \/ \E t \in Tailers : /\ tail[t].pc = "free"
                              /\ tail' = [tail EXCEPT ![t] = [Free EXCEPT !.pc = "open", !.path = p]]
    BY <1>4 DEF Look
  <2>2. tail[u].pc # "free"
    BY DEF Reads
  <2>3. QED
    BY <1>1, <2>1, <2>2
<1>5. ASSUME NEW t \in Tailers, TailNext(t) PROVE tail'[u].path = tail[u].path
  <2>1. \/ tail'[u] = tail[u] \/ tail'[u].pc = "free"
        \/ tail'[u].path = tail[u].path
    BY <1>5, OneStep
  <2>2. QED
    BY <2>1 DEF Reads
<1>6. QED
  BY <1>2, <1>3, <1>4, <1>5 DEF Next

(* A file keeps the names it has had. *)
LEMMA NamesStay ==
  ASSUME TInv, [Next]_vars, NEW f \in Files, IsFiniteSet(names[f])
  PROVE  names[f] \subseteq names'[f] /\ IsFiniteSet(names'[f])
<1>1. names \in [Files -> SUBSET Paths]
  BY DEF TInv, TypeOK
<1>2. CASE names' = names
  BY <1>2
<1>3. ASSUME NEW p \in Paths, NEW g \in Files, Create(p, g)
      PROVE  names[f] \subseteq names'[f] /\ IsFiniteSet(names'[f])
  <2>1. names[g] = {} /\ names' = [names EXCEPT ![g] = {p}]
    BY <1>3 DEF Create
  <2>2. IsFiniteSet({p})
    BY FS_Singleton
  <2>3. QED
    BY <1>1, <2>1, <2>2
<1>4. ASSUME NEW p \in Paths, NEW q \in Paths, Rename(p, q)
      PROVE  names[f] \subseteq names'[f] /\ IsFiniteSet(names'[f])
  <2>1. names' = [names EXCEPT ![named[p]] = @ \cup {q}]
    BY <1>4 DEF Rename
  <2>2. IsFiniteSet(names[f] \cup {q})
    BY FS_AddElement
  <2>3. names'[f] = names[f] \/ names'[f] = names[f] \cup {q}
    BY <1>1, <2>1
  <2>4. QED
    BY <2>2, <2>3
<1>5. CASE (\E p \in Paths : Remove(p)) \/ (\E g \in Files : Write(g))
  BY <1>2, <1>5 DEF Remove, Write
<1>6. CASE UNCHANGED vars \/ StartDaemon \/ Cancel \/ ProcessEnds \/ Discover
           \/ ScanStops \/ \E p \in Paths : Look(p)
  BY <1>2, <1>6 DEF vars, fileVars, StartDaemon, Cancel, ProcessEnds, Discover,
                    ScanStops, Look
<1>7. CASE \E t \in Tailers : TailNext(t)
  BY <1>2, <1>7, OneStep
<1>8. QED
  BY <1>3, <1>4, <1>5, <1>6, <1>7 DEF Next, Environment

(* Nothing is recorded of f: the credit stays as it is. *)
LEMMA CreditStays ==
  ASSUME TInv, TInv', [Next]_vars, NEW f \in Files, NEW c, Credit(f, c),
         names[f] \subseteq names'[f], recorded'[f] = recorded[f]
  PROVE  Credit(f, c)'
<1>1. c \in [1..Len(recorded'[f]) -> names'[f]]
  BY DEF Credit
<1>2. \A i, j \in 1..Len(recorded'[f]) :
        recorded'[f][i] = recorded'[f][j] /\ c[i] = c[j] => i = j
  BY DEF Credit
<1>3. ASSUME NEW i \in 1..Len(recorded[f])
      PROVE  \E j \in 1..Len(text'[f]) :
               /\ EndsLine(text'[f][j]) /\ text'[f][j].line = recorded[f][i]
               /\ \A t \in Tailers : Reads(t, f)' /\ tail'[t].path = c[i] => j <= tail'[t].pos
  <2>1. PICK j \in 1..Len(text[f]) :
          /\ EndsLine(text[f][j]) /\ text[f][j].line = recorded[f][i]
          /\ \A t \in Tailers : Reads(t, f) /\ tail[t].path = c[i] => j <= tail[t].pos
    BY DEF Credit
  <2>2. j \in 1..Len(text'[f]) /\ text'[f][j] = text[f][j]
    BY TextGrows
  <2>3. Len(text[f]) \in Nat
    <3>1. text[f] \in Seq(Pieces)
      BY DEF TInv, TypeOK
    <3>2. QED
      BY <3>1, LenProperties
  <2>4. ASSUME NEW t \in Tailers, Reads(t, f)', tail'[t].path = c[i]
        PROVE  j <= tail'[t].pos
    <3>1. \/ Reads(t, f) /\ tail[t].pos <= tail'[t].pos
          \/ tail'[t].pos = Len(text[f])
      BY <2>4, Readers
    <3>2. CASE Reads(t, f) /\ tail[t].pos <= tail'[t].pos
      <4>1. tail[t].path = c[i]
        BY <2>4, <3>2, SamePath
      <4>2. j <= tail[t].pos
        BY <2>1, <3>2, <4>1
      <4>3. tail[t] \in TailType /\ tail'[t] \in TailType
        BY DEF TInv, TypeOK
      <4>4. tail[t].pos \in Nat /\ tail'[t].pos \in Nat
        BY <4>3 DEF TailType
      <4>5. QED
        BY <2>3, <3>2, <4>2, <4>4
    <3>3. CASE tail'[t].pos = Len(text[f])
      BY <2>3, <3>3
    <3>4. QED
      BY <3>1, <3>2, <3>3
  <2>5. QED
    BY <2>1, <2>2, <2>4
<1>4. QED
  BY <1>1, <1>2, <1>3 DEF Credit, Reads

(* A line of f is recorded: it is credited to the name it was read under. *)
LEMMA CreditGrows ==
  ASSUME LInv, NEW t \in Tailers, Drain(t), NEW f \in Files, tail[t].file = f,
         recorded' = [recorded EXCEPT ![f] = Append(@, LineAt(text[f], tail[t].pos))],
         Credited(f)
  PROVE  Credited(f)'
<1>1. PICK k, e, n, r, w : /\ k = tail[t].pos /\ e = LineEnd(text[f], k)
                           /\ n = text[f][e].line /\ r = recorded[f] /\ w = tail[t].path
  OBVIOUS
<1>2. PICK c : Credit(f, c)
  BY DEF Credited
<1>3. /\ text[f] \in Seq(Pieces) /\ k \in Nat
      /\ e \in (k + 1)..Len(text[f]) /\ n \in Nat
  BY <1>1, DrainTyped DEF LInv
<1>4. /\ tail[t].pc = "drain" /\ tail' = [tail EXCEPT ![t].pos = e]
      /\ HasLine(text[f], k) /\ UNCHANGED <<text, names>>
  BY <1>1 DEF Drain, fileVars
<1>5. EndsLine(text[f][e])
  BY <1>1, <1>3, <1>4, FirstNewline
<1>6. /\ tail \in [Tailers -> TailType] /\ tail[t] \in TailType
      /\ recorded \in [Files -> Seq(Nat)]
  BY DEF LInv, TInv, TypeOK
<1>7. /\ tail'[t].file = f /\ tail'[t].pos = e /\ tail'[t].path = w
      /\ \A u \in Tailers : u # t => tail'[u] = tail[u]
  BY <1>1, <1>4, <1>6 DEF TailType
<1>8. r \in Seq(Nat) /\ recorded'[f] = Append(r, n)
  BY <1>1, <1>6 DEF LineAt
<1>9. /\ Len(r) \in Nat /\ Len(Append(r, n)) = Len(r) + 1
      /\ \A i \in 1..Len(r) : Append(r, n)[i] = r[i]
      /\ Append(r, n)[Len(r) + 1] = n
  BY <1>3, <1>8, Longer
<1>10. Len(text[f]) \in Nat /\ e \in 1..Len(text[f]) /\ e \in Nat /\ k < e
  <2>1. Len(text[f]) \in Nat
    BY <1>3, LenProperties
  <2>2. QED
    BY <1>3, <2>1
<1>11. Numbered(f) /\ Reads(t, f) /\ w \in names[f]
  BY <1>1, <1>4 DEF LInv, Owned, Reads
<1> DEFINE d == [i \in 1..(Len(r) + 1) |-> IF i = Len(r) + 1 THEN w ELSE c[i]]
<1>12. /\ d \in [1..(Len(r) + 1) -> names[f]] /\ d[Len(r) + 1] = w
       /\ \A i \in 1..Len(r) : i \in 1..(Len(r) + 1) /\ d[i] = c[i]
  BY <1>1, <1>2, <1>9, <1>11 DEF Credit
<1> HIDE DEF d
<1>13. ASSUME NEW i \in 1..Len(r)
       PROVE  \E j \in 1..Len(text[f]) :
                /\ EndsLine(text[f][j]) /\ text[f][j].line = r[i]
                /\ \A u \in Tailers : Reads(u, f) /\ tail[u].path = c[i] => j <= tail[u].pos
  BY <1>1, <1>2 DEF Credit
(* The line was not read under this name before. *)
<1>14. ASSUME NEW i \in 1..Len(r), r[i] = n PROVE c[i] # w
  <2>1. SUFFICES ASSUME c[i] = w PROVE FALSE
    OBVIOUS
  <2>2. PICK j \in 1..Len(text[f]) :
                /\ EndsLine(text[f][j]) /\ text[f][j].line = r[i]
                /\ \A u \in Tailers : Reads(u, f) /\ tail[u].path = c[i] => j <= tail[u].pos
    BY <1>13
  <2>3. j <= k
    BY <1>1, <1>11, <2>1, <2>2
  <2>4. j < e
    BY <1>10, <1>3, <2>3
  <2>5. text[f][j].line < text[f][e].line
    BY <1>10, <1>11, <2>2, <2>4 DEF Numbered
  <2>6. QED
    BY <1>1, <1>3, <1>14, <2>2, <2>5
<1>15. ASSUME NEW i \in 1..(Len(r) + 1), NEW j \in 1..(Len(r) + 1),
              Append(r, n)[i] = Append(r, n)[j], d[i] = d[j]
       PROVE  i = j
  <2>1. CASE i \in 1..Len(r) /\ j \in 1..Len(r)
    <3>1. r[i] = r[j] /\ c[i] = c[j]
      BY <1>9, <1>12, <1>15, <2>1
    <3>2. QED
      BY <1>1, <1>2, <2>1, <3>1 DEF Credit
  <2>2. CASE i \in 1..Len(r) /\ j = Len(r) + 1
    BY <1>9, <1>12, <1>14, <1>15, <2>2
  <2>3. CASE j \in 1..Len(r) /\ i = Len(r) + 1
    BY <1>9, <1>12, <1>14, <1>15, <2>3
  <2>4. CASE i = Len(r) + 1 /\ j = Len(r) + 1
    BY <2>4
  <2>5. QED
    BY <1>9, <2>1, <2>2, <2>3, <2>4
<1>16. ASSUME NEW i \in 1..(Len(r) + 1)
       PROVE  \E j \in 1..Len(text[f]) :
                /\ EndsLine(text[f][j]) /\ text[f][j].line = Append(r, n)[i]
                /\ \A u \in Tailers : Reads(u, f)' /\ tail'[u].path = d[i] => j <= tail'[u].pos
  <2>1. CASE i = Len(r) + 1
    <3>1. ASSUME NEW u \in Tailers, Reads(u, f)', tail'[u].path = d[i] PROVE e <= tail'[u].pos
      <4>1. CASE u = t
        BY <1>7, <1>10, <4>1
      <4>2. CASE u # t
        <5>1. tail[u].pc # "free" /\ tail[u].path = w
          BY <1>7, <1>12, <2>1, <3>1, <4>2 DEF Reads
        <5>2. u = t
          BY <1>1, <1>4, <5>1 DEF LInv, OneEach
        <5>3. QED
          BY <4>2, <5>2
      <4>3. QED
        BY <4>1, <4>2
    <3>2. QED
      BY <1>1, <1>5, <1>9, <1>10, <2>1, <3>1
  <2>2. CASE i \in 1..Len(r)
    <3>1. PICK j \in 1..Len(text[f]) :
                /\ EndsLine(text[f][j]) /\ text[f][j].line = r[i]
                /\ \A u \in Tailers : Reads(u, f) /\ tail[u].path = c[i] => j <= tail[u].pos
      BY <1>13, <2>2
    <3>2. ASSUME NEW u \in Tailers, Reads(u, f)', tail'[u].path = d[i] PROVE j <= tail'[u].pos
      <4>1. CASE u = t
        <5>1. j <= k
          BY <1>1, <1>7, <1>11, <1>12, <2>2, <3>1, <3>2, <4>1
        <5>2. QED
          BY <1>3, <1>7, <1>10, <4>1, <5>1
      <4>2. CASE u # t
        BY <1>7, <1>12, <2>2, <3>1, <3>2, <4>2 DEF Reads
      <4>3. QED
        BY <4>1, <4>2
    <3>3. QED
      BY <1>9, <2>2, <3>1, <3>2
  <2>3. QED
    BY <1>9, <2>1, <2>2
<1>17. Credit(f, d)'
  <2>1. 1..Len(recorded'[f]) = 1..(Len(r) + 1) /\ names' = names /\ text' = text
    BY <1>4, <1>8, <1>9
  <2>2. d \in [1..Len(recorded'[f]) -> names'[f]]
    BY <1>12, <2>1
  <2>3. ASSUME NEW i \in 1..Len(recorded'[f]), NEW j \in 1..Len(recorded'[f]),
               recorded'[f][i] = recorded'[f][j], d[i] = d[j]
        PROVE  i = j
    <3>1. i \in 1..(Len(r) + 1) /\ j \in 1..(Len(r) + 1)
      BY <2>1
    <3>2. Append(r, n)[i] = Append(r, n)[j]
      BY <1>8, <2>3
    <3>3. QED
      BY <1>15, <2>3, <3>1, <3>2
  <2>4. ASSUME NEW i \in 1..Len(recorded'[f])
        PROVE  \E j \in 1..Len(text'[f]) :
                 /\ EndsLine(text'[f][j]) /\ text'[f][j].line = recorded'[f][i]
                 /\ \A u \in Tailers : Reads(u, f)' /\ tail'[u].path = d[i] => j <= tail'[u].pos
    <3>1. i \in 1..(Len(r) + 1) /\ recorded'[f][i] = Append(r, n)[i]
      BY <1>8, <2>1
    <3>2. PICK j \in 1..Len(text[f]) :
            /\ EndsLine(text[f][j]) /\ text[f][j].line = Append(r, n)[i]
            /\ \A u \in Tailers : Reads(u, f)' /\ tail'[u].path = d[i] => j <= tail'[u].pos
      BY <1>16, <3>1
    <3>3. j \in 1..Len(text'[f]) /\ EndsLine(text'[f][j]) /\ text'[f][j].line = recorded'[f][i]
      BY <2>1, <3>1, <3>2
    <3>4. QED
      BY <3>2, <3>3
  <2>5. QED
    BY <2>2, <2>3, <2>4 DEF Credit
<1>18. IsFiniteSet(names'[f])
  BY <1>4 DEF Credited
<1>19. QED
  BY <1>17, <1>18 DEF Credited

LEMMA CreditStep ==
  ASSUME LInv, TInv', [Next]_vars, NEW f \in Files, Credited(f)
  PROVE  Credited(f)'
<1>1. TInv /\ recorded \in [Files -> Seq(Nat)]
  BY DEF LInv, TInv, TypeOK
<1>2. CASE recorded'[f] = recorded[f]
  <2>1. PICK c : Credit(f, c)
    BY DEF Credited
  <2>2. names[f] \subseteq names'[f] /\ IsFiniteSet(names'[f])
    BY <1>1, NamesStay DEF Credited
  <2>3. Credit(f, c)'
    BY <1>1, <1>2, <2>1, <2>2, CreditStays
  <2>4. QED
    BY <2>2, <2>3 DEF Credited
<1>3. CASE recorded'[f] # recorded[f]
  <2>1. PICK t \in Tailers : Drain(t)
    BY <1>3 DEF Next, Environment, Create, Rename, Remove, Write, StartDaemon, Cancel,
                ProcessEnds, Discover, ScanStops, Look, TailNext, OpenFails, Open,
                Tick, DrainEnds, TailStops, vars
  <2>2. recorded' = [recorded EXCEPT ![tail[t].file] =
                       Append(@, LineAt(text[tail[t].file], tail[t].pos))]
    BY <1>3, <2>1 DEF Drain
  <2>3. tail[t].file = f
    BY <1>1, <1>3, <2>2
  <2>4. QED
    BY <2>1, <2>2, <2>3, CreditGrows
<1>4. QED
  BY <1>2, <1>3

(* The records of one line are no more than the names they are credited to. *)
LEMMA CreditBounds ==
  ASSUME NEW f \in Files, NEW n, Credited(f)
  PROVE  Cardinality({i \in 1..Len(recorded[f]) : recorded[f][i] = n}) <= Cardinality(names[f])
<1> DEFINE O == {i \in 1..Len(recorded[f]) : recorded[f][i] = n}
<1>1. PICK c : Credit(f, c)
  BY DEF Credited
<1> DEFINE g == [i \in O |-> c[i]]
<1>2. g \in [O -> names[f]]
  BY <1>1 DEF Credit
<1>3. \A i, j \in O : g[i] = g[j] => i = j
  BY <1>1 DEF Credit
<1>4. IsFiniteSet(names[f])
  BY DEF Credited
<1> HIDE DEF g, O
<1>5. g \in Injection(O, names[f])
  BY <1>2, <1>3 DEF Injection, IsInjective
<1>6. Cardinality(O) <= Cardinality(names[f])
  BY <1>4, <1>5, FS_Injection
<1>7. QED
  BY <1>6 DEF O


(* However a file is renamed and the daemon restarted, a line of it is       *)
(* recorded at most once for each name ending in .log that the file has had. *)
THEOREM OncePerEachName == Spec => []OncePerName
<1>1. Init => CInv
  <2>1. ASSUME Init, NEW f \in Files PROVE Credited(f)
    <3>1. names[f] = {} /\ recorded[f] = <<>>
      BY <2>1 DEF Init
    <3>2. IsFiniteSet(names[f])
      BY <3>1, FS_EmptySet
    <3>3. [i \in 1..0 |-> 0] \in [1..Len(recorded[f]) -> names[f]]
      BY <3>1
    <3>4. 1..Len(recorded[f]) = {}
      BY <3>1
    <3>5. Credit(f, [i \in 1..0 |-> 0])
      BY <3>3, <3>4 DEF Credit
    <3>6. QED
      BY <3>2, <3>5 DEF Credited
  <2>2. QED
    BY <2>1, LInvBegins DEF CInv
<1>2. CInv /\ [Next]_vars => CInv'
  <2>1. ASSUME CInv, [Next]_vars PROVE CInv'
    <3>1. LInv'
      BY <2>1, LInvStep DEF CInv
    <3>2. TInv'
      BY <3>1 DEF LInv
    <3>3. \A f \in Files : Credited(f)'
      BY <2>1, <3>2, CreditStep DEF CInv
    <3>4. QED
      BY <3>1, <3>3 DEF CInv
  <2>2. QED
    BY <2>1
<1>3. CInv => OncePerName
  BY CreditBounds DEF CInv, OncePerName
<1>4. QED
  BY <1>1, <1>2, <1>3, PTL DEF Spec
=============================================================================
