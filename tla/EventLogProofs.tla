--------------------------- MODULE EventLogProofs ---------------------------
(* Proofs about the abstract event log. *)
EXTENDS EventLog, SequenceTheorems, TLAPS

Typed == log \in Seq(Nat) /\ pending \in Seq(Nat) /\ lost \in SUBSET Nat /\ count \in Nat

Inv == Typed /\ InOrder

(* InOrder, of any sequence, lost events and count. *)
Sound(w, gone, n) ==
  /\ \A i, j \in 1..Len(w) : i < j => w[i] < w[j]
  /\ {w[i] : i \in 1..Len(w)} \cup gone = 1..n
  /\ {w[i] : i \in 1..Len(w)} \cap gone = {}

(* v is what is left of w when the places out of it are taken away. *)
Leaves(l, r, w, v, out, at) ==
  /\ \A i \in 1..l : w[i] \in Nat
  /\ \A i \in 1..r : at[i] \in 1..l /\ at[i] \notin out /\ v[i] = w[at[i]]
  /\ \A i, j \in 1..r : i < j => at[i] < at[j]
  /\ \A m \in 1..l : m \in out \/ \E i \in 1..r : at[i] = m
  /\ out \subseteq 1..l

Fits(l, w, gone, n) ==
  /\ \A i, j \in 1..l : i < j => w[i] < w[j]
  /\ {w[i] : i \in 1..l} \cup gone = 1..n
  /\ {w[i] : i \in 1..l} \cap gone = {}

(* Two images of sets, and how to see that they are equal or disjoint. *)
LEMMA SameImage ==
  ASSUME NEW A, NEW B, NEW f, NEW g,
         \A x \in A : \E y \in B : f[x] = g[y],
         \A y \in B : \E x \in A : g[y] = f[x]
  PROVE  {f[x] : x \in A} = {g[y] : y \in B}
OBVIOUS

LEMMA NoImage ==
  ASSUME NEW A, NEW B, NEW f, NEW g, \A x \in A : \A y \in B : f[x] # g[y]
  PROVE  {f[x] : x \in A} \cap {g[y] : y \in B} = {}
OBVIOUS

(* What is kept of an ordered sequence is ordered; and the rest goes to what *)
(* is lost, so that every event stays in one place.                          *)
LEMMA Keeping ==
  ASSUME NEW l \in Nat, NEW r \in Nat, NEW n \in Nat,
         NEW w, NEW v, NEW out, NEW gone, NEW at,
         Leaves(l, r, w, v, out, at), Fits(l, w, gone, n)
  PROVE  Fits(r, v, gone \cup {w[i] : i \in out}, n)
<1> USE DEF Leaves, Fits
<1>1. \A i, j \in 1..r : i < j => v[i] < v[j]
  <2> SUFFICES ASSUME NEW i \in 1..r, NEW j \in 1..r, i < j PROVE v[i] < v[j]
    OBVIOUS
  <2>1. at[i] \in 1..l /\ at[j] \in 1..l /\ at[i] < at[j]
    OBVIOUS
  <2>2. w[at[i]] < w[at[j]]
    BY <2>1
  <2>3. QED
    BY <2>2
<1>2. {w[i] : i \in 1..l} = {v[i] : i \in 1..r} \cup {w[i] : i \in out}
  <2>1. ASSUME NEW m \in 1..l
        PROVE  w[m] \in {v[i] : i \in 1..r} \cup {w[i] : i \in out}
    <3>1. CASE m \in out
      BY <3>1
    <3>2. CASE \E i \in 1..r : at[i] = m
      BY <3>2
    <3>3. QED
      BY <3>1, <3>2
  <2>2. ASSUME NEW i \in 1..r
        PROVE  v[i] \in {w[m] : m \in 1..l}
    <3>1. at[i] \in 1..l /\ v[i] = w[at[i]]
      OBVIOUS
    <3>2. QED
      BY <3>1
  <2>3. {w[i] : i \in out} \subseteq {w[m] : m \in 1..l}
    OBVIOUS
  <2>4. QED
    BY <2>1, <2>2, <2>3
<1>3. \A i \in 1..r : \A m \in out : v[i] # w[m]
  <2> SUFFICES ASSUME NEW i \in 1..r, NEW m \in out PROVE v[i] # w[m]
    OBVIOUS
  <2>1. at[i] \in 1..l /\ m \in 1..l /\ at[i] # m /\ v[i] = w[at[i]]
    OBVIOUS
  <2>2. at[i] < m \/ m < at[i]
    BY <2>1
  <2>3. w[at[i]] < w[m] \/ w[m] < w[at[i]]
    BY <2>1, <2>2
  <2>4. w[at[i]] \in Nat /\ w[m] \in Nat
    BY <2>1
  <2>5. QED
    BY <2>1, <2>3, <2>4
<1>4. {v[i] : i \in 1..r} \cap {w[i] : i \in out} = {}
  BY <1>3, NoImage
<1>5. {v[i] : i \in 1..r} \cup (gone \cup {w[i] : i \in out}) = 1..n
  BY <1>2
<1>6. {v[i] : i \in 1..r} \cap (gone \cup {w[i] : i \in out}) = {}
  BY <1>2, <1>4
<1>7. QED
  BY <1>1, <1>5, <1>6

(* To take g out of an ordered sequence and to put it with what is lost. *)
LEMMA Losing ==
  ASSUME NEW a \in Seq(Nat), NEW g \in Seq(Nat), NEW b \in Seq(Nat),
         NEW gone \in SUBSET Nat, NEW n \in Nat,
         Sound((a \o g) \o b, gone, n)
  PROVE  Sound(a \o b, gone \cup {g[i] : i \in 1..Len(g)}, n)
<1> DEFINE w == (a \o g) \o b
           v == a \o b
           la == Len(a)
           lg == Len(g)
           lb == Len(b)
           out == (la + 1)..(la + lg)
           at == [i \in 1..(la + lb) |-> IF i <= la THEN i ELSE i + lg]
<1>1. la \in Nat /\ lg \in Nat /\ lb \in Nat
  BY LenProperties
<1>2. /\ a \o g \in Seq(Nat) /\ Len(a \o g) = la + lg
      /\ \A i \in 1..(la + lg) : (a \o g)[i] = IF i <= la THEN a[i] ELSE g[i - la]
  BY ConcatProperties
<1>3. /\ w \in Seq(Nat) /\ Len(w) = (la + lg) + lb
      /\ \A i \in 1..((la + lg) + lb) :
           w[i] = IF i <= la + lg THEN (a \o g)[i] ELSE b[i - (la + lg)]
  BY <1>2, ConcatProperties
<1>4. /\ v \in Seq(Nat) /\ Len(v) = la + lb
      /\ \A i \in 1..(la + lb) : v[i] = IF i <= la THEN a[i] ELSE b[i - la]
  BY ConcatProperties
<1>5. \A i \in 1..Len(w) : w[i] \in Nat
  BY <1>3, ElementOfSeq
<1>s. Sound(w, gone, n)
  OBVIOUS
<1> HIDE DEF w, v, la, lg, lb, at, out
<1>6. \A i \in 1..(la + lb) :
        at[i] \in 1..((la + lg) + lb) /\ at[i] \notin out /\ v[i] = w[at[i]]
  <2> SUFFICES ASSUME NEW i \in 1..(la + lb)
               PROVE  at[i] \in 1..((la + lg) + lb) /\ at[i] \notin out /\ v[i] = w[at[i]]
    OBVIOUS
  <2>1. CASE i <= la
    <3>1. at[i] = i
      BY <2>1 DEF at
    <3>2. /\ i \in 1..((la + lg) + lb) /\ i \in 1..(la + lg) /\ i \notin out
          /\ i <= la + lg
      BY <1>1, <2>1 DEF out
    <3>3. v[i] = a[i]
      BY <1>4, <2>1
    <3>4. w[i] = (a \o g)[i] /\ (a \o g)[i] = a[i]
      BY <1>2, <1>3, <2>1, <3>2
    <3>5. QED
      BY <3>1, <3>2, <3>3, <3>4
  <2>2. CASE ~ i <= la
    <3>1. at[i] = i + lg
      BY <2>2 DEF at
    <3>2. i + lg \in 1..((la + lg) + lb) /\ i + lg \notin out
          /\ ~ i + lg <= la + lg /\ (i + lg) - (la + lg) = i - la
      BY <1>1, <2>2 DEF out
    <3>3. v[i] = b[i - la]
      BY <1>4, <2>2
    <3>4. w[i + lg] = b[(i + lg) - (la + lg)]
      BY <1>3, <3>2
    <3>5. QED
      BY <3>1, <3>2, <3>3, <3>4
  <2>3. QED
    BY <2>1, <2>2
<1>7. \A i, j \in 1..(la + lb) : i < j => at[i] < at[j]
  <2> SUFFICES ASSUME NEW i \in 1..(la + lb), NEW j \in 1..(la + lb), i < j
               PROVE  at[i] < at[j]
    OBVIOUS
  <2>1. /\ at[i] = IF i <= la THEN i ELSE i + lg
        /\ at[j] = IF j <= la THEN j ELSE j + lg
    BY DEF at
  <2>2. QED
    BY <1>1, <2>1
<1>8. \A m \in 1..((la + lg) + lb) : m \in out \/ \E i \in 1..(la + lb) : at[i] = m
  <2> SUFFICES ASSUME NEW m \in 1..((la + lg) + lb), m \notin out
               PROVE  \E i \in 1..(la + lb) : at[i] = m
    OBVIOUS
  <2>1. CASE m <= la
    <3>1. m \in 1..(la + lb)
      BY <1>1, <2>1
    <3>2. at[m] = m
      BY <2>1, <3>1 DEF at
    <3>3. QED
      BY <3>1, <3>2
  <2>2. CASE m > la + lg
    <3>1. m - lg \in 1..(la + lb) /\ ~ m - lg <= la /\ (m - lg) + lg = m
      BY <1>1, <2>2
    <3>2. at[m - lg] = m
      BY <3>1 DEF at
    <3>3. QED
      BY <3>1, <3>2
  <2>3. m <= la \/ m > la + lg
    BY <1>1 DEF out
  <2>4. QED
    BY <2>1, <2>2, <2>3
<1>9. out \subseteq 1..((la + lg) + lb)
  BY <1>1 DEF out
<1>10. {w[i] : i \in out} = {g[i] : i \in 1..lg}
  <2>1. \A i \in out : i - la \in 1..lg /\ w[i] = g[i - la]
    <3> SUFFICES ASSUME NEW i \in out PROVE i - la \in 1..lg /\ w[i] = g[i - la]
      OBVIOUS
    <3>1. /\ i \in 1..((la + lg) + lb) /\ i \in 1..(la + lg)
          /\ i <= la + lg /\ ~ i <= la /\ i - la \in 1..lg
      BY <1>1 DEF out
    <3>2. w[i] = (a \o g)[i] /\ (a \o g)[i] = g[i - la]
      BY <1>2, <1>3, <3>1
    <3>3. QED
      BY <3>1, <3>2
  <2>2. \A i \in 1..lg : la + i \in out /\ (la + i) - la = i
    BY <1>1 DEF out
  <2>3. \A i \in 1..lg : la + i \in out /\ w[la + i] = g[i]
    BY <2>1, <2>2
  <2>4. \A i \in out : \E j \in 1..lg : w[i] = g[j]
    BY <2>1
  <2>5. \A j \in 1..lg : \E i \in out : g[j] = w[i]
    BY <2>3
  <2>6. ASSUME NEW x \in {w[i] : i \in out} PROVE x \in {g[j] : j \in 1..lg}
    <3>1. PICK i \in out : x = w[i]
      OBVIOUS
    <3>2. QED
      BY <2>4, <3>1
  <2>7. ASSUME NEW x \in {g[j] : j \in 1..lg} PROVE x \in {w[i] : i \in out}
    <3>1. PICK j \in 1..lg : x = g[j]
      OBVIOUS
    <3>2. QED
      BY <2>5, <3>1
  <2>8. QED
    BY <2>6, <2>7
<1>11. (la + lg) + lb \in Nat /\ la + lb \in Nat
  BY <1>1
<1>12. Fits((la + lg) + lb, w, gone, n)
  BY <1>3, <1>s DEF Sound, Fits
<1>13. Leaves((la + lg) + lb, la + lb, w, v, out, at)
  <2>1. \A i \in 1..((la + lg) + lb) : w[i] \in Nat
    BY <1>3, <1>5
  <2>2. QED
    BY <1>6, <1>7, <1>8, <1>9, <2>1 DEF Leaves
<1>14. Fits(la + lb, v, gone \cup {w[i] : i \in out}, n)
  BY <1>11, <1>12, <1>13, Keeping
<1>15. Sound(v, gone \cup {g[i] : i \in 1..lg}, n)
  BY <1>4, <1>10, <1>14 DEF Sound, Fits
<1>16. QED
  BY <1>15 DEF v, lg

(* To append the next event. *)
LEMMA Finding ==
  ASSUME NEW w \in Seq(Nat), NEW gone \in SUBSET Nat, NEW n \in Nat,
         Sound(w, gone, n)
  PROVE  Sound(Append(w, n + 1), gone, n + 1)
<1> DEFINE v == Append(w, n + 1)
           l == Len(w)
<1>1. /\ l \in Nat /\ Len(v) = l + 1
      /\ \A i \in 1..l : v[i] = w[i]
      /\ v[l + 1] = n + 1
  BY AppendProperties, LenProperties
<1>2. /\ \A i, j \in 1..l : i < j => w[i] < w[j]
      /\ {w[i] : i \in 1..l} \cup gone = 1..n
      /\ {w[i] : i \in 1..l} \cap gone = {}
  BY DEF Sound
<1> HIDE DEF v, l
<1>3. \A i \in 1..l : w[i] \in 1..n
  BY <1>2
<1>4. \A i, j \in 1..(l + 1) : i < j => v[i] < v[j]
  <2> SUFFICES ASSUME NEW i \in 1..(l + 1), NEW j \in 1..(l + 1), i < j
               PROVE  v[i] < v[j]
    OBVIOUS
  <2>1. i \in 1..l /\ v[i] = w[i] /\ w[i] \in 1..n
    BY <1>1, <1>3
  <2>2. CASE j \in 1..l
    BY <1>1, <1>2, <2>1, <2>2
  <2>3. CASE j = l + 1
    BY <1>1, <2>1, <2>3
  <2>4. QED
    BY <1>1, <2>2, <2>3
<1>5. {v[i] : i \in 1..(l + 1)} = {w[i] : i \in 1..l} \cup {n + 1}
  <2>1. 1..(l + 1) = 1..l \cup {l + 1}
    BY <1>1
  <2>2. QED
    BY <1>1, <2>1
<1>6. 1..(n + 1) = 1..n \cup {n + 1} /\ n + 1 \notin 1..n
  OBVIOUS
<1>7. {v[i] : i \in 1..(l + 1)} \cup gone = 1..(n + 1)
  BY <1>2, <1>5, <1>6
<1>8. {v[i] : i \in 1..(l + 1)} \cap gone = {}
  BY <1>2, <1>5, <1>6
<1>9. QED
  BY <1>1, <1>4, <1>7, <1>8 DEF Sound, v
-----------------------------------------------------------------------------
(* The two parts of what is on its way. *)
LEMMA Parts ==
  ASSUME NEW s \in Seq(Nat), NEW k \in 0..Len(s)
  PROVE  /\ SubSeq(s, 1, k) \in Seq(Nat) /\ SubSeq(s, k + 1, Len(s)) \in Seq(Nat)
         /\ SubSeq(s, 1, k) \o SubSeq(s, k + 1, Len(s)) = s
         /\ {SubSeq(s, 1, k)[i] : i \in 1..Len(SubSeq(s, 1, k))} = {s[i] : i \in 1..k}
         /\ {SubSeq(s, k + 1, Len(s))[i] : i \in 1..Len(SubSeq(s, k + 1, Len(s)))}
              = {s[i] : i \in (k + 1)..Len(s)}
<1> DEFINE l == Len(s)
           p == SubSeq(s, 1, k)
           q == SubSeq(s, k + 1, l)
<1>1. l \in Nat /\ k \in Nat /\ k <= l
  BY LenProperties
<1>2. \A i \in 1..l : s[i] \in Nat
  BY ElementOfSeq
<1>3. /\ p \in Seq(Nat) /\ Len(p) = k
      /\ \A i \in 1..k : p[i] = s[i]
  <2>1. \A i \in 1..k : s[i] \in Nat
    BY <1>1, <1>2
  <2>2. /\ p \in Seq(Nat) /\ Len(p) = (IF 1 <= k THEN k - 1 + 1 ELSE 0)
        /\ \A i \in 1..(k - 1 + 1) : p[i] = s[1 + i - 1]
    BY <1>1, <2>1, SubSeqProperties
  <2> HIDE DEF p
  <2>3. QED
    BY <1>1, <2>2
<1>4. /\ q \in Seq(Nat) /\ Len(q) = l - k
      /\ \A i \in 1..(l - k) : q[i] = s[k + i]
  <2>1. \A i \in (k + 1)..l : s[i] \in Nat
    BY <1>1, <1>2
  <2>2. k + 1 \in Int /\ l \in Int
    BY <1>1
  <2>3. /\ q \in Seq(Nat) /\ Len(q) = (IF k + 1 <= l THEN l - (k + 1) + 1 ELSE 0)
        /\ \A i \in 1..(l - (k + 1) + 1) : q[i] = s[(k + 1) + i - 1]
    BY <2>1, <2>2, SubSeqProperties
  <2> HIDE DEF q, l
  <2>4. Len(q) = l - k /\ l - (k + 1) + 1 = l - k
    BY <1>1, <2>3
  <2>5. \A i \in 1..(l - k) : (k + 1) + i - 1 = k + i
    BY <1>1
  <2>6. QED
    BY <2>3, <2>4, <2>5
<1>5. p \o q = s
  <2>1. 1 \in 1..(l + 1) /\ k \in (1 - 1)..l /\ l \in k..l
    BY <1>1
  <2>2. p \o q = SubSeq(s, 1, l)
    BY <2>1, ConcatAdjacentSubSeq
  <2>3. QED
    BY <2>2, SubSeqFull
<1> HIDE DEF p, q, l
<1>6. {p[i] : i \in 1..Len(p)} = {s[i] : i \in 1..k}
  BY <1>3
<1>7. {q[i] : i \in 1..Len(q)} = {s[i] : i \in (k + 1)..l}
  <2>1. \A i \in 1..(l - k) : k + i \in (k + 1)..l /\ q[i] = s[k + i]
    BY <1>1, <1>4
  <2>2. \A i \in (k + 1)..l : i - k \in 1..(l - k) /\ k + (i - k) = i
    BY <1>1
  <2>3. \A i \in (k + 1)..l : i - k \in 1..(l - k) /\ q[i - k] = s[i]
    BY <1>4, <2>2
  <2>4. {q[i] : i \in 1..(l - k)} = {s[i] : i \in (k + 1)..l}
    BY <2>1, <2>3, SameImage
  <2>5. QED
    BY <1>4, <2>4
<1>8. QED
  BY <1>3, <1>4, <1>5, <1>6, <1>7 DEF p, q, l

LEMMA Regroup ==
  ASSUME NEW s \in Seq(Nat), NEW p \in Seq(Nat), NEW q \in Seq(Nat)
  PROVE  (s \o p) \o q = s \o (p \o q)
BY ConcatAssociative, SMTT(30)

LEMMA InvBegins ==
  ASSUME Init
  PROVE  Inv
<1>1. log = <<>> /\ pending = <<>> /\ lost = {} /\ count = 0
  BY DEF Init
<1>2. log \o pending = <<>> /\ Len(log \o pending) = 0
  BY <1>1
<1>3. 1..count = {}
  BY <1>1
<1>4. QED
  BY <1>1, <1>2, <1>3 DEF Inv, Typed, InOrder, OnTheWay

LEMMA InvStep ==
  ASSUME Inv, [Next]_eventVars
  PROVE  Inv'
<1>1. /\ log \in Seq(Nat) /\ pending \in Seq(Nat)
      /\ lost \in SUBSET Nat /\ count \in Nat
      /\ Sound(log \o pending, lost, count)
  BY DEF Inv, Typed, InOrder, OnTheWay, Sound
<1>2. SUFFICES Typed' /\ Sound(log' \o pending', lost', count')
  BY DEF Inv, InOrder, OnTheWay, Sound
<1>3. CASE Find
  <2>1. /\ count' = count + 1 /\ pending' = Append(pending, count + 1)
        /\ log' = log /\ lost' = lost
    BY <1>3 DEF Find
  <2>2. count + 1 \in Nat
    BY <1>1
  <2>3. Append(pending, count + 1) \in Seq(Nat)
    BY <1>1, <2>2, AppendProperties
  <2>4. log \o Append(pending, count + 1) = Append(log \o pending, count + 1)
    <3>1. <<count + 1>> \in Seq(Nat)
      BY <2>2
    <3>2. log \o pending \in Seq(Nat)
      BY <1>1, ConcatProperties
    <3>3. log \o (pending \o <<count + 1>>) = (log \o pending) \o <<count + 1>>
      BY <1>1, <3>1, ConcatAssociative
    <3>4. QED
      BY <1>1, <2>2, <3>2, <3>3, AppendIsConcat
  <2>5. Sound(log' \o pending', lost', count')
    <3>1. log \o pending \in Seq(Nat)
      BY <1>1, ConcatProperties
    <3>2. Sound(Append(log \o pending, count + 1), lost, count + 1)
      BY <1>1, <3>1, Finding
    <3>3. QED
      BY <2>1, <2>4, <3>2
  <2>6. QED
    BY <1>1, <2>1, <2>2, <2>3, <2>5 DEF Typed
<1>4. CASE Write
  <2>1. PICK k \in 1..Len(pending) :
          /\ log' = log \o SubSeq(pending, 1, k)
          /\ pending' = SubSeq(pending, k + 1, Len(pending))
    BY <1>4 DEF Write
  <2>2. lost' = lost /\ count' = count
    BY <1>4 DEF Write
  <2>3. k \in 0..Len(pending)
    BY <1>1, <2>1
  <2> DEFINE p == SubSeq(pending, 1, k)
             q == SubSeq(pending, k + 1, Len(pending))
  <2>4. p \in Seq(Nat) /\ q \in Seq(Nat) /\ p \o q = pending
    BY <1>1, <2>3, Parts
  <2>5. log' = log \o p /\ pending' = q
    BY <2>1
  <2> HIDE DEF p, q
  <2>6. log \o p \in Seq(Nat)
    BY <1>1, <2>4, ConcatProperties
  <2>7. (log \o p) \o q = log \o pending
    <3>1. log \in Seq(Nat) /\ p \in Seq(Nat) /\ q \in Seq(Nat)
      BY <1>1, <2>4
    <3>2. (log \o p) \o q = log \o (p \o q)
      BY <3>1, Regroup
    <3>3. QED
      BY <2>4, <3>2
  <2>8. QED
    BY <1>1, <2>2, <2>4, <2>5, <2>6, <2>7 DEF Typed
<1>5. CASE LoseOldest
  <2>1. PICK k \in 1..Len(pending) :
          /\ lost' = lost \cup {pending[i] : i \in 1..k}
          /\ pending' = SubSeq(pending, k + 1, Len(pending))
    BY <1>5 DEF LoseOldest
  <2>2. log' = log /\ count' = count
    BY <1>5 DEF LoseOldest
  <2>3. k \in 0..Len(pending)
    BY <1>1, <2>1
  <2> DEFINE p == SubSeq(pending, 1, k)
             q == SubSeq(pending, k + 1, Len(pending))
  <2>4. /\ p \in Seq(Nat) /\ q \in Seq(Nat) /\ p \o q = pending
        /\ {p[i] : i \in 1..Len(p)} = {pending[i] : i \in 1..k}
    BY <1>1, <2>3, Parts
  <2>5. pending' = q /\ lost' = lost \cup {p[i] : i \in 1..Len(p)}
    BY <2>1, <2>4
  <2> HIDE DEF p, q
  <2>6. (log \o p) \o q = log \o pending
    <3>1. log \in Seq(Nat) /\ p \in Seq(Nat) /\ q \in Seq(Nat)
      BY <1>1, <2>4
    <3>2. (log \o p) \o q = log \o (p \o q)
      BY <3>1, Regroup
    <3>3. QED
      BY <2>4, <3>2
  <2>7. Sound(log \o q, lost \cup {p[i] : i \in 1..Len(p)}, count)
    BY <1>1, <2>4, <2>6, Losing
  <2>8. {p[i] : i \in 1..Len(p)} \subseteq Nat
    BY <2>4, ElementOfSeq
  <2>9. QED
    BY <1>1, <2>2, <2>4, <2>5, <2>7, <2>8 DEF Typed
<1>6. CASE LoseNewest
  <2>1. PICK k \in 0..(Len(pending) - 1) :
          /\ lost' = lost \cup {pending[i] : i \in (k + 1)..Len(pending)}
          /\ pending' = SubSeq(pending, 1, k)
    BY <1>6 DEF LoseNewest
  <2>2. log' = log /\ count' = count
    BY <1>6 DEF LoseNewest
  <2>3. k \in 0..Len(pending)
    BY <1>1, <2>1, LenProperties
  <2> DEFINE p == SubSeq(pending, 1, k)
             q == SubSeq(pending, k + 1, Len(pending))
  <2>4. /\ p \in Seq(Nat) /\ q \in Seq(Nat) /\ p \o q = pending
        /\ {q[i] : i \in 1..Len(q)} = {pending[i] : i \in (k + 1)..Len(pending)}
    BY <1>1, <2>3, Parts
  <2>5. pending' = p /\ lost' = lost \cup {q[i] : i \in 1..Len(q)}
    BY <2>1, <2>4
  <2> HIDE DEF p, q
  <2>6. /\ log \o p \in Seq(Nat) /\ <<>> \in Seq(Nat)
    BY <1>1, <2>4, ConcatProperties
  <2>7. ((log \o p) \o q) \o <<>> = log \o pending
    <3>1. (log \o p) \o q = log \o pending
      <4>1. log \in Seq(Nat) /\ p \in Seq(Nat) /\ q \in Seq(Nat)
        BY <1>1, <2>4
      <4>2. (log \o p) \o q = log \o (p \o q)
        BY <4>1, Regroup
      <4>3. QED
        BY <2>4, <4>2
    <3>2. log \o pending \in Seq(Nat)
      BY <1>1, ConcatProperties
    <3>3. QED
      BY <3>1, <3>2, ConcatEmptySeq
  <2>8. Sound((log \o p) \o <<>>, lost \cup {q[i] : i \in 1..Len(q)}, count)
    BY <1>1, <2>4, <2>6, <2>7, Losing
  <2>9. (log \o p) \o <<>> = log \o p
    BY <2>6, ConcatEmptySeq
  <2>10. {q[i] : i \in 1..Len(q)} \subseteq Nat
    BY <2>4, ElementOfSeq
  <2>11. QED
    BY <1>1, <2>2, <2>4, <2>5, <2>8, <2>9, <2>10 DEF Typed
<1>7. CASE UNCHANGED eventVars
  BY <1>1, <1>7 DEF eventVars, Typed
<1>8. QED
  BY <1>3, <1>4, <1>5, <1>6, <1>7 DEF Next
-----------------------------------------------------------------------------
(* However events are found, written and lost, what is written and what is   *)
(* on its way is in order, and every event is there once or lost.            *)
THEOREM AlwaysInOrder == Spec => []InOrder
<1>1. Init => Inv
  BY InvBegins
<1>2. Inv /\ [Next]_eventVars => Inv'
  BY InvStep
<1>3. Inv => InOrder
  BY DEF Inv
<1>4. QED
  BY <1>1, <1>2, <1>3, PTL DEF Spec
=============================================================================
