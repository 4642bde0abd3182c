----------------------------- MODULE RulesProofs -----------------------------
(* Proofs about the rule sets: what the loops that build lists return, the   *)
(* backtracking of globs, and the properties of Rules, for inputs of any    *)
(* size.                                                                    *)
EXTENDS Rules, Induction, SequenceTheorems, FiniteSetTheorems

(* F has the values a loop that joins the lists of ss goes through. *)
Joins(S, ss, F) ==
  /\ F \in [0..Len(ss) -> Seq(S)] /\ F[0] = <<>>
  /\ \A n \in 1..Len(ss) : F[n] = F[n - 1] \o ss[n]

LEMMA JoinsExist ==
  ASSUME NEW S, NEW ss \in Seq(Seq(S))
  PROVE  \E F : Joins(S, ss, F)
<1> DEFINE V == Seq(S)
           m == Len(ss)
           base == <<>>
           step == [x \in V \X (1..m) |-> x[1] \o ss[x[2]]]
<1>1. m \in Nat /\ \A n \in 1..m : ss[n] \in V
  BY LenProperties, ElementOfSeq
<1>2. \A v \in V, n \in 1..m : v \o ss[n] \in V
  BY <1>1, ConcatProperties
<1>3. step \in [V \X (1..m) -> V] /\ base \in V
  BY <1>2
<1>4. \A v \in V, n \in 1..m : step[<<v, n>>] = v \o ss[n]
  OBVIOUS
<1> HIDE DEF step, V, base
<1>5. PICK F \in [0..m -> V] : F[0] = base /\ \A n \in 1..m : F[n] = step[<<F[n - 1], n>>]
  <2>1. step \in Steps(V, m)
    BY <1>3 DEF Steps
  <2> HIDE DEF m
  <2>2. HasSolution(V, base, m, step)
    BY <1>1, <1>3, <2>1, Recursion
  <2>3. QED
    BY <2>2 DEF HasSolution
<1>6. \A n \in 1..m : F[n - 1] \in V
  <2> HIDE DEF m
  <2>1. \A n \in 1..m : n - 1 \in 0..m
    BY <1>1
  <2>2. QED
    BY <1>5, <2>1
<1>7. Joins(S, ss, F)
  BY <1>4, <1>5, <1>6 DEF Joins, base, V
<1>8. QED
  BY <1>7

LEMMA FlattenJoins ==
  ASSUME NEW S, NEW ss \in Seq(Seq(S)), NEW F, Joins(S, ss, F)
  PROVE  FlattenSeq(ss) = F[Len(ss)]
<1> DEFINE m == Len(ss)
           Solves(f) == f = [i \in 1..m |-> IF i = 1 THEN ss[i] ELSE f[i - 1] \o ss[i]]
           g == CHOOSE f : Solves(f)
           h == [i \in 1..m |-> F[i]]
<1>1. m \in Nat
  BY LenProperties
<1>2. \A n \in 1..m : ss[n] \in Seq(S)
  BY ElementOfSeq
<1>3. CASE m = 0
  <2>1. FlattenSeq(ss) = ss /\ ss = <<>>
    BY <1>3, EmptySeq DEF FlattenSeq
  <2>2. QED
    BY <1>3, <2>1 DEF Joins
<1>4. CASE m # 0
  <2>1. FlattenSeq(ss) = g[m]
    BY <1>4 DEF FlattenSeq
  <2>2. Solves(h)
    <3>1. ASSUME NEW i \in 1..m PROVE h[i] = IF i = 1 THEN ss[i] ELSE h[i - 1] \o ss[i]
      <4>1. h[i] = F[i] /\ F[i] = F[i - 1] \o ss[i]
        BY DEF Joins
      <4>2. CASE i = 1
        <5>1. F[0] = <<>> /\ ss[1] \in Seq(S) /\ i - 1 = 0
          BY <1>2, <4>2 DEF Joins
        <5>2. <<>> \o ss[1] = ss[1]
          BY <5>1, ConcatEmptySeq
        <5>3. QED
          BY <4>1, <4>2, <5>1, <5>2
      <4>3. CASE i # 1
        <5>1. i - 1 \in 1..m
          BY <1>1, <4>3
        <5>2. h[i - 1] = F[i - 1]
          BY <5>1
        <5>3. QED
          BY <4>1, <4>3, <5>2
      <4>4. QED
        BY <4>2, <4>3
    <3>2. QED
      BY <3>1
  <2>3. Solves(g)
    <3> HIDE DEF h, Solves
    <3>1. \E f : Solves(f)
      BY <2>2
    <3>2. QED
      BY <3>1
  <2> HIDE DEF g, h
  <2>4. /\ \A i \in 1..m : g[i] = IF i = 1 THEN ss[i] ELSE g[i - 1] \o ss[i]
        /\ \A i \in 1..m : F[i] = IF i = 1 THEN ss[i] ELSE h[i - 1] \o ss[i]
    BY <2>2, <2>3 DEF h
  <2> DEFINE T == {n \in Nat : n \in 1..m => g[n] = F[n]}
  <2>5. 0 \in T
    OBVIOUS
  <2>6. ASSUME NEW n \in 1..m, n - 1 \in T PROVE n \in T
    <3>1. CASE n = 1
      BY <2>4, <3>1
    <3>2. CASE n # 1
      <4>1. n - 1 \in 1..m
        BY <1>1, <3>2
      <4>2. g[n - 1] = F[n - 1] /\ h[n - 1] = F[n - 1]
        BY <2>6, <4>1 DEF h
      <4>3. QED
        BY <2>4, <3>2, <4>2
    <3>3. QED
      BY <3>1, <3>2
  <2> HIDE DEF T, Solves
  <2>7. \A n \in 0..m : n \in T
    BY <1>1, <2>5, <2>6, InductionUpTo
  <2>8. g[m] = F[m]
    BY <1>1, <1>4, <2>7 DEF T
  <2>9. QED
    BY <2>1, <2>8
<1>5. QED
  BY <1>3, <1>4

Holds(s, x) == \E k \in 1..Len(s) : x = s[k]

LEMMA ConcatHolds ==
  ASSUME NEW S, NEW u \in Seq(S), NEW v \in Seq(S), NEW x
  PROVE  Holds(u \o v, x) <=> Holds(u, x) \/ Holds(v, x)
<1>1. /\ Len(u) \in Nat /\ Len(v) \in Nat /\ Len(u \o v) = Len(u) + Len(v)
      /\ \A i \in 1..(Len(u) + Len(v)) : (u \o v)[i] = IF i <= Len(u) THEN u[i] ELSE v[i - Len(u)]
  BY LenProperties, ConcatProperties
<1>2. ASSUME NEW k \in 1..Len(u) PROVE k \in 1..Len(u \o v) /\ (u \o v)[k] = u[k]
  BY <1>1
<1>3. ASSUME NEW k \in 1..Len(v)
      PROVE  Len(u) + k \in 1..Len(u \o v) /\ (u \o v)[Len(u) + k] = v[k]
  BY <1>1
<1>4. ASSUME NEW k \in 1..Len(u \o v)
      PROVE  \/ k \in 1..Len(u) /\ (u \o v)[k] = u[k]
             \/ k - Len(u) \in 1..Len(v) /\ (u \o v)[k] = v[k - Len(u)]
  BY <1>1
<1>5. QED
  BY <1>2, <1>3, <1>4 DEF Holds

(* What the lists hold is what the list they are joined to holds. *)
LEMMA FlattenHolds ==
  ASSUME NEW S, NEW ss \in Seq(Seq(S))
  PROVE  /\ FlattenSeq(ss) \in Seq(S)
         /\ \A x : Holds(FlattenSeq(ss), x) <=> \E i \in 1..Len(ss) : Holds(ss[i], x)
<1> DEFINE m == Len(ss)
<1>1. m \in Nat /\ \A n \in 1..m : ss[n] \in Seq(S)
  BY LenProperties, ElementOfSeq
<1>2. PICK F : Joins(S, ss, F)
  BY JoinsExist
<1>3. FlattenSeq(ss) = F[m]
  BY <1>2, FlattenJoins
<1>4. /\ F \in [0..m -> Seq(S)] /\ F[0] = <<>>
      /\ \A n \in 1..m : F[n] = F[n - 1] \o ss[n]
  BY <1>2 DEF Joins
<1> HIDE DEF m
<1> DEFINE T == {n \in 0..m : \A x : Holds(F[n], x) <=> \E i \in 1..n : Holds(ss[i], x)}
<1>5. 0 \in T
  BY <1>1, <1>4 DEF Holds
<1>6. ASSUME NEW n \in 1..m, n - 1 \in T PROVE n \in T
  <2>1. n - 1 \in 0..m /\ n \in 0..m
    BY <1>1
  <2>2. F[n - 1] \in Seq(S) /\ ss[n] \in Seq(S) /\ F[n] = F[n - 1] \o ss[n]
    BY <1>1, <1>4, <2>1
  <2>3. \A x : Holds(F[n], x) <=> Holds(F[n - 1], x) \/ Holds(ss[n], x)
    BY <2>2, ConcatHolds
  <2>4. \A i : i \in 1..n <=> i \in 1..(n - 1) \/ i = n
    BY <1>1
  <2>5. \A x : Holds(F[n - 1], x) <=> \E i \in 1..(n - 1) : Holds(ss[i], x)
    BY <1>6
  <2>6. \A x : Holds(F[n], x) <=> \E i \in 1..n : Holds(ss[i], x)
    BY <2>3, <2>4, <2>5
  <2>7. QED
    BY <2>1, <2>6
<1> HIDE DEF T
<1>7. \A n \in 0..m : n \in T
  BY <1>1, <1>5, <1>6, InductionUpTo
<1>8. m \in T
  BY <1>1, <1>7
<1>9. F[m] \in Seq(S)
  BY <1>1, <1>4
<1>10. \A x : Holds(F[m], x) <=> \E i \in 1..m : Holds(ss[i], x)
  BY <1>8 DEF T
<1>11. QED
  BY <1>3, <1>9, <1>10 DEF m

(* How long the joined list is: U has as many elements in row n as the n-th  *)
(* list has.                                                                *)
LEMMA FlattenLength ==
  ASSUME NEW S, NEW ss \in Seq(Seq(S)), NEW U, NEW row \in [U -> 1..Len(ss)],
         \A n \in 1..Len(ss) :
           LET R == {x \in U : row[x] = n} IN IsFiniteSet(R) /\ Cardinality(R) = Len(ss[n])
  PROVE  IsFiniteSet(U) /\ Len(FlattenSeq(ss)) = Cardinality(U)
<1> DEFINE m == Len(ss)
           R == [n \in 1..m |-> {x \in U : row[x] = n}]
           B == [n \in 0..m |-> {x \in U : row[x] <= n}]
<1>1. m \in Nat /\ \A n \in 1..m : ss[n] \in Seq(S)
  BY LenProperties, ElementOfSeq
<1>2. PICK F : Joins(S, ss, F)
  BY JoinsExist
<1>3. FlattenSeq(ss) = F[m]
  BY <1>2, FlattenJoins
<1>4. /\ F \in [0..m -> Seq(S)] /\ F[0] = <<>>
      /\ \A n \in 1..m : F[n] = F[n - 1] \o ss[n]
  BY <1>2 DEF Joins
<1>5. \A n \in 1..m : IsFiniteSet(R[n]) /\ Cardinality(R[n]) = Len(ss[n])
  OBVIOUS
<1>6. \A x \in U : row[x] \in 1..m
  OBVIOUS
<1> HIDE DEF m
<1>7. \A n \in 1..m : n - 1 \in 0..m /\ n \in 0..m /\ 0 \in 0..m /\ m \in 0..m
  BY <1>1
<1>8. B[0] = {} /\ B[m] = U
  <2>1. 0 \in 0..m /\ m \in 0..m
    BY <1>1
  <2>2. \A x \in U : ~ row[x] <= 0 /\ row[x] <= m
    BY <1>1, <1>6
  <2>3. QED
    BY <2>1, <2>2
<1>9. \A n \in 1..m : B[n] = B[n - 1] \cup R[n] /\ B[n - 1] \cap R[n] = {}
  <2>1. TAKE n \in 1..m
  <2>2. \A x \in U : /\ (row[x] <= n <=> (row[x] <= n - 1 \/ row[x] = n))
                      /\ ~ (row[x] <= n - 1 /\ row[x] = n)
    BY <1>1, <1>6
  <2>3. B[n] = {x \in U : row[x] <= n} /\ B[n - 1] = {x \in U : row[x] <= n - 1}
    BY <1>7
  <2>4. R[n] = {x \in U : row[x] = n}
    OBVIOUS
  <2> HIDE DEF B, R
  <2>5. QED
    BY <2>2, <2>3, <2>4
<1> HIDE DEF B, R
<1> DEFINE T == {n \in 0..m : IsFiniteSet(B[n]) /\ Cardinality(B[n]) = Len(F[n])}
<1>10. 0 \in T
  <2>1. Len(F[0]) = 0 /\ 0 \in 0..m
    BY <1>1, <1>4
  <2>2. QED
    BY <1>8, <2>1, FS_EmptySet
<1>11. ASSUME NEW n \in 1..m, n - 1 \in T PROVE n \in T
  <2>1. F[n - 1] \in Seq(S) /\ ss[n] \in Seq(S) /\ F[n] = F[n - 1] \o ss[n]
    BY <1>1, <1>4, <1>7
  <2>2. Len(F[n]) = Len(F[n - 1]) + Len(ss[n])
    BY <2>1, ConcatProperties
  <2>3. Len(F[n - 1]) \in Nat /\ Len(ss[n]) \in Nat
    BY <2>1, LenProperties
  <2>4. /\ IsFiniteSet(B[n - 1]) /\ Cardinality(B[n - 1]) = Len(F[n - 1])
        /\ IsFiniteSet(R[n]) /\ Cardinality(R[n]) = Len(ss[n])
    BY <1>5, <1>11
  <2>5. /\ IsFiniteSet(B[n - 1] \cup R[n])
        /\ Cardinality(B[n - 1] \cup R[n]) = Cardinality(B[n - 1]) + Cardinality(R[n])
                                               - Cardinality(B[n - 1] \cap R[n])
    BY <2>4, FS_Union
  <2>6. Cardinality(B[n - 1] \cap R[n]) = 0
    BY <1>9, FS_EmptySet
  <2>7. IsFiniteSet(B[n]) /\ Cardinality(B[n]) = Len(F[n])
    <3>1. /\ IsFiniteSet(B[n])
          /\ Cardinality(B[n]) = Cardinality(B[n - 1]) + Cardinality(R[n]) - 0
      BY <1>9, <2>5, <2>6
    <3>2. Cardinality(B[n]) = Len(F[n - 1]) + Len(ss[n]) - 0
      BY <2>4, <3>1
    <3>3. \A a, b \in Nat : a + b - 0 = a + b
      OBVIOUS
    <3>4. Cardinality(B[n]) = Len(F[n])
      BY <2>2, <2>3, <3>2, <3>3
    <3>5. QED
      BY <3>1, <3>4
  <2>8. QED
    BY <1>7, <2>7
<1> HIDE DEF T
<1>12. \A n \in 0..m : n \in T
  BY <1>1, <1>10, <1>11, InductionUpTo
<1>13. m \in T
  BY <1>1, <1>12
<1>14. QED
  BY <1>3, <1>8, <1>13 DEF T
-----------------------------------------------------------------------------
(* The loops that append what they accept of a list. *)
Singly(s, K) == [i \in 1..Len(s) |-> IF i \in K THEN <<s[i]>> ELSE <<>>]

LEMMA SinglyType ==
  ASSUME NEW V, NEW s \in Seq(V), NEW K
  PROVE  /\ Singly(s, K) \in Seq(Seq(V)) /\ Len(Singly(s, K)) = Len(s)
         /\ \A i \in 1..Len(s) : Singly(s, K)[i] = IF i \in K THEN <<s[i]>> ELSE <<>>
         /\ Chosen(s, K) = FlattenSeq(Singly(s, K))
<1>1. Len(s) \in Nat /\ \A i \in 1..Len(s) : s[i] \in V
  BY LenProperties, ElementOfSeq
<1>2. \A x \in V : <<x>> \in Seq(V)
  OBVIOUS
<1>3. \A i \in 1..Len(s) : (IF i \in K THEN <<s[i]>> ELSE <<>>) \in Seq(V)
  BY <1>1, <1>2
<1>4. Singly(s, K) \in [1..Len(s) -> Seq(V)]
  BY <1>3 DEF Singly
<1>5. Singly(s, K) \in Seq(Seq(V)) /\ Len(Singly(s, K)) = Len(s)
  BY <1>1, <1>4 DEF Singly
<1>6. QED
  BY <1>5 DEF Singly, Chosen

LEMMA ChosenHolds ==
  ASSUME NEW V, NEW s \in Seq(V), NEW K
  PROVE  /\ Chosen(s, K) \in Seq(V)
         /\ \A x : Holds(Chosen(s, K), x) <=> \E i \in 1..Len(s) : i \in K /\ x = s[i]
<1>1. /\ Singly(s, K) \in Seq(Seq(V)) /\ Len(Singly(s, K)) = Len(s)
      /\ \A i \in 1..Len(s) : Singly(s, K)[i] = IF i \in K THEN <<s[i]>> ELSE <<>>
      /\ Chosen(s, K) = FlattenSeq(Singly(s, K))
  BY SinglyType
<1>2. \A y, x : Holds(<<y>>, x) <=> x = y
  BY DEF Holds
<1>3. \A x : ~ Holds(<<>>, x)
  BY DEF Holds
<1>4. ASSUME NEW x, NEW i \in 1..Len(s)
      PROVE  Holds(Singly(s, K)[i], x) <=> i \in K /\ x = s[i]
  <2>1. CASE i \in K
    <3>1. Singly(s, K)[i] = <<s[i]>>
      BY <1>1, <2>1
    <3>2. QED
      BY <1>2, <2>1, <3>1
  <2>2. CASE i \notin K
    <3>1. Singly(s, K)[i] = <<>>
      BY <1>1, <2>2
    <3>2. QED
      BY <1>3, <2>2, <3>1
  <2>3. QED
    BY <2>1, <2>2
<1>5. /\ FlattenSeq(Singly(s, K)) \in Seq(V)
      /\ \A x : Holds(FlattenSeq(Singly(s, K)), x)
                  <=> \E i \in 1..Len(Singly(s, K)) : Holds(Singly(s, K)[i], x)
  BY <1>1, FlattenHolds
<1>6. ASSUME NEW x
      PROVE  Holds(Chosen(s, K), x) <=> \E i \in 1..Len(s) : i \in K /\ x = s[i]
  <2>1. Holds(Chosen(s, K), x) <=> \E i \in 1..Len(s) : Holds(Singly(s, K)[i], x)
    BY <1>1, <1>5, Zenon
  <2>2. QED
    BY <1>4, <2>1, Zenon
<1>7. QED
  BY <1>1, <1>5, <1>6

LEMMA ChosenLength ==
  ASSUME NEW V, NEW s \in Seq(V), NEW K \in SUBSET (1..Len(s))
  PROVE  IsFiniteSet(K) /\ Len(Chosen(s, K)) = Cardinality(K)
<1> DEFINE ss == Singly(s, K)
           row == [x \in K |-> x]
<1>1. /\ ss \in Seq(Seq(V)) /\ Len(ss) = Len(s)
      /\ \A i \in 1..Len(s) : ss[i] = IF i \in K THEN <<s[i]>> ELSE <<>>
      /\ Chosen(s, K) = FlattenSeq(ss)
  BY SinglyType
<1> HIDE DEF ss
<1>2. row \in [K -> 1..Len(ss)]
  BY <1>1
<1>3. ASSUME NEW n \in 1..Len(ss)
      PROVE  LET R == {x \in K : row[x] = n} IN IsFiniteSet(R) /\ Cardinality(R) = Len(ss[n])
  <2> DEFINE R == {x \in K : row[x] = n}
  <2>1. CASE n \in K
    <3>1. R = {n}
      BY <2>1
    <3>2. ss[n] = <<s[n]>>
      BY <1>1, <2>1
    <3>3. Len(ss[n]) = 1
      BY <3>2
    <3> HIDE DEF R
    <3>4. IsFiniteSet(R) /\ Cardinality(R) = Len(ss[n])
      BY <3>1, <3>3, FS_Singleton
    <3>5. QED
      BY <3>4 DEF R
  <2>2. CASE n \notin K
    <3>1. R = {}
      BY <2>2
    <3>2. ss[n] = <<>>
      BY <1>1, <2>2
    <3>3. Len(ss[n]) = 0
      BY <3>2
    <3> HIDE DEF R
    <3>4. IsFiniteSet(R) /\ Cardinality(R) = Len(ss[n])
      BY <3>1, <3>3, FS_EmptySet
    <3>5. QED
      BY <3>4 DEF R
  <2>3. QED
    BY <2>1, <2>2
<1> HIDE DEF row
<1>4. IsFiniteSet(K) /\ Len(FlattenSeq(ss)) = Cardinality(K)
  BY <1>1, <1>2, <1>3, FlattenLength
<1>5. QED
  BY <1>1, <1>4

LEMMA ChosenOne ==
  ASSUME NEW x, NEW K
  PROVE  Chosen(<<x>>, K) # <<>> <=> 1 \in K
<1>1. <<x>> \in Seq({x}) /\ Len(<<x>>) = 1
  OBVIOUS
<1>2. /\ Chosen(<<x>>, K) \in Seq({x})
      /\ \A y : Holds(Chosen(<<x>>, K), y) <=> \E i \in 1..1 : i \in K /\ y = <<x>>[i]
  <2>1. PICK s \in Seq({x}) : s = <<x>>
    BY <1>1
  <2>2. /\ Chosen(s, K) \in Seq({x})
        /\ \A y : Holds(Chosen(s, K), y) <=> \E i \in 1..Len(s) : i \in K /\ y = s[i]
    BY ChosenHolds
  <2>3. QED
    BY <1>1, <2>1, <2>2
<1>3. Holds(Chosen(<<x>>, K), x) <=> 1 \in K
  BY <1>2
<1>4. Chosen(<<x>>, K) = <<>> => ~ Holds(Chosen(<<x>>, K), x)
  BY DEF Holds
<1>5. ASSUME Chosen(<<x>>, K) # <<>> PROVE Holds(Chosen(<<x>>, K), x)
  <2>1. PICK s \in Seq({x}) : s = Chosen(<<x>>, K)
    BY <1>2
  <2>2. Len(s) \in Nat /\ Len(s) # 0
    BY <1>5, <2>1, EmptySeq, LenProperties
  <2>3. 1 \in 1..Len(s)
    BY <2>2
  <2>4. s[1] = x
    BY <2>3, ElementOfSeq
  <2>5. QED
    BY <2>1, <2>3, <2>4 DEF Holds
<1>6. QED
  BY <1>3, <1>4, <1>5
-----------------------------------------------------------------------------
(* The calls: what was asked, and what the answer is if there is one. *)
Asked ==
  \/ input \in [call : {"glob"}, pat : Globs, path : Paths]
  \/ input \in [call : {"load"}, dir : PolicyDirs]
  \/ \E dir \in PolicyDirs : \E at \in DOMAIN dir :
       input = [call |-> "check", dir |-> dir, at |-> at]
  \/ input \in [call : {"iocs"}, dir : IocDirs]

PathGlob == [kind |-> "file_path_glob", values |-> {input.pat}]

Matches == Match(<<PathGlob>>, input.path, "") # <<>>

Says(c, r) == [call |-> c, result |-> r]

Answered ==
  \/ answer = Unanswered
  \/ input.call = "glob" /\ answer = Says("glob", Matches)
  \/ input.call = "load" /\ answer = Says("load", LoadWithFallback(input.dir))
  \/ input.call = "check" /\ answer = Says("check", LoadFile(input.dir[input.at]))
  \/ input.call = "iocs" /\ answer = Says("iocs", LoadIndicators(input.dir))

RInv == Asked /\ Answered

LEMMA AnswersKept == Spec => []RInv
<1>1. Init => RInv
  BY DEF Init, RInv, Asked, Answered
<1>2. RInv /\ [Next]_vars => RInv'
  <2>1. ASSUME Asked, input' = input PROVE Asked'
    BY <2>1 DEF Asked
  <2>2. ASSUME CallMatch PROVE Answered'
    BY <2>2 DEF CallMatch, Answered, Matches, PathGlob, Says
  <2>3. ASSUME CallLoad PROVE Answered'
    BY <2>3 DEF CallLoad, Answered, Says
  <2>4. ASSUME CallCheck PROVE Answered'
    BY <2>4 DEF CallCheck, Answered, Says
  <2>5. ASSUME CallLoadIocs PROVE Answered'
    BY <2>5 DEF CallLoadIocs, Answered, Says
  <2>6. ASSUME Answered, UNCHANGED vars PROVE Answered'
    BY <2>6 DEF Answered, vars, Matches, PathGlob
  <2>7. Next => input' = input
    BY DEF Next, CallMatch, CallLoad, CallCheck, CallLoadIocs
  <2>8. UNCHANGED vars => input' = input
    BY DEF vars
  <2>9. QED
    BY <2>1, <2>2, <2>3, <2>4, <2>5, <2>6, <2>7, <2>8 DEF RInv, Next
<1>3. QED
  BY <1>1, <1>2, PTL DEF Spec

LEMMA TheAnswer ==
  ASSUME RInv
  PROVE  /\ answer.call = "glob" =>
              input.call = "glob" /\ answer.result = Matches
         /\ answer.call = "load" => input.call = "load" /\ answer.result = LoadWithFallback(input.dir)
         /\ answer.call = "check" =>
              input.call = "check" /\ answer.result = LoadFile(input.dir[input.at])
         /\ answer.call = "iocs" => input.call = "iocs" /\ answer.result = LoadIndicators(input.dir)
<1>1. \A c, r : Says(c, r).call = c /\ Says(c, r).result = r
  BY DEF Says
<1>2. Unanswered.call = "none"
  BY DEF Unanswered
<1>3. QED
  BY <1>1, <1>2 DEF RInv, Answered

LEMMA Bounded ==
  ASSUME NEW S, NEW n \in Nat, NEW s \in SeqsUpTo(S, n)
  PROVE  s \in Seq(S) /\ Len(s) \in 0..n
<1>1. PICK k \in 0..n : s \in [1..k -> S]
  BY DEF SeqsUpTo
<1>2. k \in Nat
  OBVIOUS
<1>3. s \in Seq(S) /\ Len(s) = k
  BY <1>1, <1>2
<1>4. QED
  BY <1>3
-----------------------------------------------------------------------------
(* A walk in order that ends at the first place in T ends somewhere. *)
LEMMA WalkStops ==
  ASSUME NEW m \in Nat, NEW T
  PROVE  \E n \in 0..m : (\A i \in 1..n : i \notin T) /\ (n < m => n + 1 \in T)
<1> DEFINE U == {n \in Nat : n \in 1..m /\ n \in T}
<1>1. CASE U = {}
  <2>1. \A i \in 1..m : i \notin T
    BY <1>1
  <2>2. m \in 0..m /\ ~ m < m
    OBVIOUS
  <2>3. QED
    BY <2>1, <2>2
<1>2. CASE U # {}
  <2>1. PICK x \in U : \A y \in U : x <= y
    BY <1>2, Smallest
  <2>2. x \in 1..m /\ x \in T /\ (x - 1) + 1 = x /\ x - 1 \in 0..m
    BY <2>1
  <2>3. \A i \in 1..(x - 1) : i \in 1..m /\ i \in Nat /\ ~ x <= i
    BY <2>2
  <2>4. \A i \in 1..(x - 1) : i \notin T
    BY <2>1, <2>3
  <2>5. QED
    BY <2>2, <2>4
<1>3. QED
  BY <1>1, <1>2

(* The walk of the IOC directory ends at the first entry it cannot visit. *)
LEMMA WalkEnds ==
  ASSUME NEW S, NEW dir \in Seq(S)
  PROVE  LET n == LoadedUpTo(dir) IN
         /\ n \in 0..Len(dir) /\ \A i \in 1..n : ~ EndsWalk(dir[i])
         /\ n < Len(dir) => EndsWalk(dir[n + 1])
<1> DEFINE Stops(n) == /\ \A i \in 1..n : ~ EndsWalk(dir[i])
                       /\ n < Len(dir) => EndsWalk(dir[n + 1])
           T == {n \in 1..Len(dir) : EndsWalk(dir[n])}
<1>1. Len(dir) \in Nat
  BY LenProperties
<1>2. \E n \in 0..Len(dir) : Stops(n)
  <2> HIDE DEF T
  <2>1. PICK n \in 0..Len(dir) :
          (\A i \in 1..n : i \notin T) /\ (n < Len(dir) => n + 1 \in T)
    BY <1>1, WalkStops
  <2>2. \A i \in 1..n : i \in 1..Len(dir)
    BY <1>1
  <2>3. Stops(n)
    BY <2>1, <2>2 DEF T
  <2>4. QED
    BY <2>3
<1>3. LoadedUpTo(dir) = CHOOSE n \in 0..Len(dir) : Stops(n)
  BY DEF LoadedUpTo
<1> HIDE DEF Stops
<1>4. LoadedUpTo(dir) \in 0..Len(dir) /\ Stops(LoadedUpTo(dir))
  BY <1>2, <1>3
<1>5. QED
  BY <1>4 DEF Stops

(* Every indicator of a well-formed file is loaded, or the walk ended before. *)
THEOREM IndicatorsAreKept == Spec => []NoIndicatorLost
<1>1. RInv => NoIndicatorLost
  <2> SUFFICES ASSUME RInv, answer.call = "iocs"
               PROVE  LET vanished == {i \in 1..Len(input.dir) : input.dir[i].visit = "gone"}
                          loaded   == {answer.result.indicators[k] :
                                         k \in DOMAIN answer.result.indicators}
                      IN /\ ~ answer.result.err /\ vanished = {}
                              => loaded = WellFormed(input.dir)
                         /\ \A i \in WellFormed(input.dir) \ loaded :
                              \E j \in 1..(i - 1) : input.dir[j].visit # "ok"
    BY DEF NoIndicatorLost
  <2>1. input.call = "iocs" /\ answer.result = LoadIndicators(input.dir)
    BY TheAnswer
  <2>2. input.dir \in IocDirs
    BY <2>1 DEF RInv, Asked
  <2>3. PICK dir : dir = input.dir
    OBVIOUS
  <2> DEFINE E == [visit : {"ok", "gone", "denied"}, ext : {".yaml", ".txt"}, parses : BOOLEAN]
  <2>4. PICK d \in SeqsUpTo(E, MaxFiles + 1) :
          dir = [i \in DOMAIN d |-> [visit |-> d[i].visit, ext |-> d[i].ext,
                                     parses |-> d[i].parses, indicators |-> <<i>>]]
    BY <2>2, <2>3 DEF IocDirs
  <2>5. d \in Seq(E) /\ Len(d) \in Nat /\ DOMAIN d = 1..Len(d)
    <3>1. MaxFiles + 1 \in Nat
      BY RulesAssumption
    <3> HIDE DEF E
    <3>2. d \in Seq(E)
      BY <3>1, Bounded
    <3>3. QED
      BY <3>2, LenProperties
  <2> DEFINE m == Len(d)
             n == LoadedUpTo(dir)
             ss == [i \in 1..n |-> IF dir[i].ext = ".yaml" /\ dir[i].parses
                                     THEN dir[i].indicators ELSE <<>>]
             loaded == {answer.result.indicators[k] : k \in DOMAIN answer.result.indicators}
  <2>6. /\ \A i \in 1..m : dir[i].indicators = <<i>>
        /\ Len(dir) = m /\ dir \in Seq({dir[i] : i \in 1..m})
    <3>1. DOMAIN dir = 1..m /\ dir \in [1..m -> {dir[i] : i \in 1..m}]
      BY <2>4, <2>5
    <3>2. \A i \in 1..m : dir[i].indicators = <<i>>
      BY <2>4, <2>5
    <3>3. QED
      BY <2>5, <3>1, <3>2
  <2>7. /\ n \in 0..m /\ \A i \in 1..n : ~ EndsWalk(dir[i])
        /\ n < m => EndsWalk(dir[n + 1])
    BY <2>6, WalkEnds
  <2>8. /\ answer.result.indicators = FlattenSeq(ss)
        /\ answer.result.err = (n < m /\ dir[n + 1].visit # "gone")
    BY <2>1, <2>3, <2>6 DEF LoadIndicators
  <2> HIDE DEF n, m
  <2>9. n \in Nat /\ m \in Nat /\ \A i \in 1..n : i \in 1..m /\ i \in Nat
    BY <2>5, <2>7 DEF m
  <2>10. ss \in Seq(Seq(Nat)) /\ Len(ss) = n
    <3>1. \A i \in 1..n : (IF dir[i].ext = ".yaml" /\ dir[i].parses
                             THEN dir[i].indicators ELSE <<>>) \in Seq(Nat)
      <4>1. <<>> \in Seq(Nat) /\ \A i \in Nat : <<i>> \in Seq(Nat)
        OBVIOUS
      <4>2. \A i \in 1..n : dir[i].indicators \in Seq(Nat)
        BY <2>6, <2>9, <4>1
      <4>3. QED
        BY <4>1, <4>2
    <3>2. ss \in [1..n -> Seq(Nat)]
      BY <3>1
    <3>3. QED
      BY <2>9, <3>2
  <2>11. \A x : (\E i \in 1..n : Holds(ss[i], x))
                  <=> x \in 1..n /\ dir[x].ext = ".yaml" /\ dir[x].parses
    <3>1. ASSUME NEW i \in 1..n, NEW x
          PROVE  Holds(ss[i], x) <=> x = i /\ dir[i].ext = ".yaml" /\ dir[i].parses
      <4>1. CASE dir[i].ext = ".yaml" /\ dir[i].parses
        <5>1. ss[i] = <<i>>
          BY <2>6, <2>9, <4>1
        <5> HIDE DEF ss
        <5>2. QED
          BY <4>1, <5>1 DEF Holds
      <4>2. CASE ~ (dir[i].ext = ".yaml" /\ dir[i].parses)
        <5>1. ss[i] = <<>>
          BY <4>2
        <5> HIDE DEF ss
        <5>2. QED
          BY <4>2, <5>1 DEF Holds
      <4>3. QED
        BY <4>1, <4>2
    <3> HIDE DEF ss
    <3>2. QED
      BY <3>1
  <2> HIDE DEF ss
  <2>12. /\ FlattenSeq(ss) \in Seq(Nat)
         /\ \A x : Holds(FlattenSeq(ss), x)
                     <=> x \in 1..n /\ dir[x].ext = ".yaml" /\ dir[x].parses
    BY <2>10, <2>11, FlattenHolds
  <2>13. \A x : x \in loaded <=> Holds(FlattenSeq(ss), x)
    <3>1. DOMAIN FlattenSeq(ss) = 1..Len(FlattenSeq(ss))
      BY <2>12, LenProperties
    <3>2. QED
      BY <2>8, <3>1 DEF Holds
  <2>14. loaded = {x \in 1..n : dir[x].ext = ".yaml" /\ dir[x].parses}
    BY <2>12, <2>13
  <2> HIDE DEF loaded
  <2>15. WellFormed(dir) = {i \in 1..m : dir[i].visit = "ok" /\ dir[i].ext = ".yaml" /\ dir[i].parses}
    BY <2>6 DEF WellFormed
  <2>16. \A i \in 1..n : dir[i].visit = "ok"
    BY <2>7 DEF EndsWalk
  <2>17. ASSUME ~ answer.result.err, {i \in 1..m : dir[i].visit = "gone"} = {}
         PROVE  loaded = WellFormed(dir)
    <3>1. ASSUME n < m PROVE FALSE
      <4>1. n + 1 \in 1..m
        BY <2>9, <3>1
      <4>2. QED
        BY <2>8, <2>17, <3>1, <4>1
    <3>2. n = m
      BY <2>7, <2>9, <3>1
    <3>3. QED
      BY <2>14, <2>15, <2>16, <3>2
  <2>18. ASSUME NEW i \in WellFormed(dir) \ loaded
         PROVE  \E j \in 1..(i - 1) : dir[j].visit # "ok"
    <3>1. i \in 1..m /\ i \notin 1..n /\ dir[i].visit = "ok"
      BY <2>14, <2>15, <2>18
    <3>2. n < m /\ n + 1 \in 1..i /\ i \in Nat
      BY <2>9, <3>1
    <3>3. dir[n + 1].visit # "ok"
      BY <2>7, <3>2 DEF EndsWalk
    <3>4. n + 1 \in 1..(i - 1)
      BY <2>9, <3>1, <3>2, <3>3
    <3>5. QED
      BY <3>3, <3>4
  <2>19. QED
    BY <2>3, <2>6, <2>17, <2>18 DEF loaded
<1>2. QED
  BY <1>1, AnswersKept, PTL
-----------------------------------------------------------------------------
(* The policies of the directories, and what they and their entries are. *)
Pol == [id : Nat \X Nat, syscall : {"execve", "ptrace"}, action : {"warn", "block"}]

LEMMA ValidIsGood ==
  \A p \in Pol : Valid(p) <=> p.syscall = Good.syscall /\ p.action = Good.action
<1>1. Good.syscall = "execve" /\ Good.action = "warn"
  BY DEF Good
<1>2. QED
  BY <1>1 DEF Valid, Pol, Syscalls

LEMMA PolicyDirType ==
  ASSUME NEW dir \in PolicyDirs
  PROVE  /\ Len(dir) \in Nat /\ DOMAIN dir = 1..Len(dir)
         /\ dir \in Seq({dir[i] : i \in 1..Len(dir)})
         /\ \A i \in 1..Len(dir) :
              /\ dir[i].visitable \in BOOLEAN /\ dir[i].parses \in BOOLEAN
              /\ dir[i].ext \in {".yaml", ".yml", ".txt"}
              /\ dir[i].policies \in Seq(Pol) /\ Len(dir[i].policies) \in 0..2
              /\ \A j \in 1..Len(dir[i].policies) : dir[i].policies[j].id = <<i, j>>
<1>1. PICK d \in SeqsUpTo(Entries, MaxFiles) :
        dir = [i \in DOMAIN d |-> [d[i] EXCEPT !.policies = Named(i, @)]]
  BY DEF PolicyDirs
<1>2. d \in Seq(Entries) /\ Len(d) \in Nat /\ DOMAIN d = 1..Len(d)
  <2>1. d \in Seq(Entries)
    BY RulesAssumption, Bounded
  <2>2. QED
    BY <2>1, LenProperties
<1>3. DOMAIN dir = 1..Len(d)
  BY <1>1, <1>2
<1>4. /\ dir \in [1..Len(d) -> {dir[i] : i \in 1..Len(d)}]
      /\ Len(dir) = Len(d)
  <2>1. dir = [i \in 1..Len(d) |-> dir[i]]
    BY <1>1, <1>2
  <2>2. dir \in [1..Len(d) -> {dir[i] : i \in 1..Len(d)}]
    BY <2>1
  <2>3. QED
    BY <1>2, <1>3, <2>2
<1>5. ASSUME NEW i \in 1..Len(d)
      PROVE  /\ dir[i].visitable \in BOOLEAN /\ dir[i].parses \in BOOLEAN
             /\ dir[i].ext \in {".yaml", ".yml", ".txt"}
             /\ dir[i].policies \in Seq(Pol) /\ Len(dir[i].policies) \in 0..2
             /\ \A j \in 1..Len(dir[i].policies) : dir[i].policies[j].id = <<i, j>>
  <2>1. PICK e \in Entries : e = d[i]
    BY <1>2, ElementOfSeq
  <2>2. dir[i] = [e EXCEPT !.policies = Named(i, e.policies)]
    BY <1>1, <1>2, <2>1
  <2>3. /\ e.visitable \in BOOLEAN /\ e.parses \in BOOLEAN
        /\ e.ext \in {".yaml", ".yml", ".txt"} /\ e.policies \in SeqsUpTo(Kinds, 2)
    BY DEF Entries
  <2>4. /\ dir[i].visitable = e.visitable /\ dir[i].parses = e.parses /\ dir[i].ext = e.ext
        /\ dir[i].policies = Named(i, e.policies)
    BY <2>2 DEF Entries
  <2>5. PICK kinds : kinds = e.policies
    OBVIOUS
  <2>6. kinds \in Seq(Kinds) /\ Len(kinds) \in 0..2 /\ DOMAIN kinds = 1..Len(kinds)
    <3>1. kinds \in Seq(Kinds) /\ Len(kinds) \in 0..2
      BY <2>3, <2>5, Bounded
    <3>2. QED
      BY <3>1, LenProperties
  <2>7. \A k \in Kinds : k.syscall \in {"execve", "ptrace"} /\ k.action \in {"warn", "block"}
    BY DEF Kinds, Good
  <2>8. Named(i, kinds) = [j \in 1..Len(kinds) |->
                             [id |-> <<i, j>>, syscall |-> kinds[j].syscall,
                              action |-> kinds[j].action]]
    BY <2>6 DEF Named
  <2>9. PICK l \in 0..2 : l = Len(kinds)
    BY <2>6
  <2>10. \A j \in 1..l : [id |-> <<i, j>>, syscall |-> kinds[j].syscall,
                          action |-> kinds[j].action] \in Pol
    <3>1. \A j \in 1..l : kinds[j] \in Kinds
      BY <2>6, <2>9, ElementOfSeq
    <3>2. i \in Nat /\ \A j \in 1..l : j \in Nat
      BY <1>2
    <3>3. QED
      BY <2>7, <3>1, <3>2 DEF Pol
  <2>11. Named(i, kinds) \in [1..l -> Pol]
    BY <2>8, <2>9, <2>10
  <2>12. Named(i, kinds) \in Seq(Pol) /\ Len(Named(i, kinds)) = l
    BY <2>11
  <2>13. \A j \in 1..l : Named(i, kinds)[j].id = <<i, j>>
    BY <2>8, <2>9
  <2>14. QED
    BY <2>3, <2>4, <2>5, <2>12, <2>13
<1>6. QED
  BY <1>2, <1>3, <1>4, <1>5

(* Accepted is the choice of the policies of a file that are valid. *)
LEMMA AcceptedType ==
  ASSUME NEW V, NEW file, file.policies \in Seq(V)
  PROVE  LET K == {i \in 1..Len(file.policies) : Valid(file.policies[i])} IN
         /\ Accepted(file) \in Seq(V)
         /\ IsFiniteSet(K) /\ Len(Accepted(file)) = Cardinality(K)
         /\ \A x : Holds(Accepted(file), x)
                     <=> \E i \in 1..Len(file.policies) : i \in K /\ x = file.policies[i]
<1> DEFINE s == file.policies
           K == {i \in 1..Len(s) : Valid(s[i])}
<1>1. s \in Seq(V) /\ K \in SUBSET (1..Len(s)) /\ Accepted(file) = Chosen(s, K)
  BY DEF Accepted
<1> HIDE DEF K, s
<1>2. /\ Chosen(s, K) \in Seq(V)
      /\ \A x : Holds(Chosen(s, K), x) <=> \E i \in 1..Len(s) : i \in K /\ x = s[i]
  BY <1>1, ChosenHolds
<1>3. IsFiniteSet(K) /\ Len(Chosen(s, K)) = Cardinality(K)
  BY <1>1, ChosenLength
<1>4. QED
  BY <1>1, <1>2, <1>3 DEF K, s

(* What one entry adds: its policies that are valid, each once. *)
UsableIn(file) ==
  {j \in 1..2 : /\ IsYaml(file) /\ file.parses /\ j <= Len(file.policies)
                /\ file.policies[j].syscall = Good.syscall
                /\ file.policies[j].action = Good.action}

LEMMA ContributionType ==
  ASSUME NEW dir \in PolicyDirs, NEW n \in 1..Len(dir)
  PROVE  /\ Contribution(dir[n]) \in Seq(Pol)
         /\ IsFiniteSet(UsableIn(dir[n]))
         /\ Cardinality(UsableIn(dir[n])) = Len(Contribution(dir[n]))
         /\ \A x : Holds(Contribution(dir[n]), x)
                     <=> \E j \in UsableIn(dir[n]) : x = dir[n].policies[j]
         /\ \A j \in UsableIn(dir[n]) :
              dir[n].policies[j].id = <<n, j>> /\ Valid(dir[n].policies[j])
<1>1. PICK file : file = dir[n]
  OBVIOUS
<1> DEFINE s == file.policies
           K == UsableIn(file)
           L == {j \in 1..Len(s) : Valid(s[j])}
<1>2. /\ s \in Seq(Pol) /\ Len(s) \in 0..2
      /\ file.parses \in BOOLEAN /\ file.ext \in {".yaml", ".yml", ".txt"}
      /\ \A j \in 1..Len(s) : s[j].id = <<n, j>>
  BY <1>1, PolicyDirType
<1>3. CASE ~ IsYaml(file) \/ ~ file.parses
  <2>1. Contribution(file) = <<>> /\ K = {}
    BY <1>2, <1>3 DEF Contribution, Extensions, IsYaml, UsableIn
  <2> HIDE DEF K
  <2>2. IsFiniteSet(K) /\ Cardinality(K) = Len(Contribution(file))
    BY <2>1, FS_EmptySet
  <2>3. \A x : ~ Holds(Contribution(file), x)
    BY <2>1 DEF Holds
  <2>4. QED
    BY <1>1, <2>1, <2>2, <2>3 DEF K
<1>4. CASE IsYaml(file) /\ file.parses
  <2>1. Contribution(file) = Accepted(file)
    BY <1>2, <1>4 DEF Contribution, Extensions, IsYaml
  <2>2. /\ Accepted(file) \in Seq(Pol)
        /\ IsFiniteSet(L) /\ Len(Accepted(file)) = Cardinality(L)
        /\ \A x : Holds(Accepted(file), x) <=> \E i \in 1..Len(s) : i \in L /\ x = s[i]
    BY <1>2, AcceptedType
  <2>3. PICK l \in 0..2 : l = Len(s)
    BY <1>2
  <2>4. \A j \in 1..l : j \in 1..2 /\ j <= l /\ s[j] \in Pol
    <3> HIDE DEF s
    <3>1. \A j \in 1..l : s[j] \in Pol
      BY <1>2, <2>3, ElementOfSeq
    <3>2. QED
      BY <3>1
  <2>5. \A j \in 1..2 : j <= l => j \in 1..l
    OBVIOUS
  <2>6. K = L
    BY <1>4, <2>3, <2>4, <2>5, ValidIsGood DEF UsableIn
  <2>7. \A j \in L : j \in 1..Len(s) /\ Valid(s[j])
    OBVIOUS
  <2> HIDE DEF s, L, K
  <2>8. QED
    BY <1>1, <1>2, <2>1, <2>2, <2>6, <2>7 DEF K, s
<1>5. QED
  BY <1>3, <1>4

(* The walk of the policy directory ends at the first entry it cannot visit. *)
LEMMA VisitedType ==
  ASSUME NEW dir \in PolicyDirs
  PROVE  /\ Visited(dir) \in 0..Len(dir)
         /\ \A n \in 1..Len(dir) :
              (\A i \in 1..n : dir[i].visitable) => n \in 1..Visited(dir)
<1> DEFINE Stops(n) == /\ \A i \in 1..n : dir[i].visitable
                       /\ n < Len(dir) => ~ dir[n + 1].visitable
           T == {i \in 1..Len(dir) : ~ dir[i].visitable}
<1>1. Len(dir) \in Nat
  BY PolicyDirType
<1>2. \E n \in 0..Len(dir) : Stops(n)
  <2> HIDE DEF T
  <2>1. PICK n \in 0..Len(dir) :
          (\A i \in 1..n : i \notin T) /\ (n < Len(dir) => n + 1 \in T)
    BY <1>1, WalkStops
  <2>2. \A i \in 1..n : i \in 1..Len(dir)
    BY <1>1
  <2>3. Stops(n)
    BY <2>1, <2>2 DEF T
  <2>4. QED
    BY <2>3
<1>3. Visited(dir) = CHOOSE n \in 0..Len(dir) : Stops(n)
  BY DEF Visited
<1> HIDE DEF Stops
<1>4. PICK v \in 0..Len(dir) : v = Visited(dir) /\ Stops(v)
  BY <1>2, <1>3
<1>5. ASSUME NEW n \in 1..Len(dir), \A i \in 1..n : dir[i].visitable, n \notin 1..v
      PROVE  FALSE
  <2>1. v < Len(dir) /\ v + 1 \in 1..n
    BY <1>1, <1>5
  <2>2. QED
    BY <1>4, <1>5, <2>1 DEF Stops
<1>6. QED
  BY <1>4, <1>5

(* What a directory holds that its walk got to is loaded, and nothing else. *)
Loads(dir) == [i \in 1..Visited(dir) |-> Contribution(dir[i])]

LEMMA LoadHolds ==
  ASSUME NEW dir \in PolicyDirs
  PROVE  /\ LoadDir(dir) = FlattenSeq(Loads(dir))
         /\ Loads(dir) \in Seq(Seq(Pol)) /\ Len(Loads(dir)) = Visited(dir)
         /\ LoadDir(dir) \in Seq(Pol)
         /\ \A x : Holds(LoadDir(dir), x)
                     <=> \E i \in 1..Visited(dir) :
                           \E j \in UsableIn(dir[i]) : x = dir[i].policies[j]
<1>1. PICK v \in Nat : v = Visited(dir) /\ \A i \in 1..v : i \in 1..Len(dir)
  <2>1. Len(dir) \in Nat /\ Visited(dir) \in 0..Len(dir)
    BY PolicyDirType, VisitedType
  <2>2. QED
    BY <2>1
<1>2. PICK ss : ss = Loads(dir)
  OBVIOUS
<1>3. LoadDir(dir) = FlattenSeq(ss)
  BY <1>2 DEF LoadDir, Loads
<1>4. /\ ss \in Seq(Seq(Pol)) /\ Len(ss) = v
      /\ \A i \in 1..v : ss[i] = Contribution(dir[i])
  <2>1. \A i \in 1..v : Contribution(dir[i]) \in Seq(Pol)
    BY <1>1, ContributionType
  <2>2. ss \in [1..v -> Seq(Pol)] /\ \A i \in 1..v : ss[i] = Contribution(dir[i])
    BY <1>1, <1>2, <2>1 DEF Loads
  <2>3. QED
    BY <2>2
<1>5. /\ FlattenSeq(ss) \in Seq(Pol)
      /\ \A x : Holds(FlattenSeq(ss), x) <=> \E i \in 1..Len(ss) : Holds(ss[i], x)
  BY <1>4, FlattenHolds
<1>6. ASSUME NEW i \in 1..v, NEW x
      PROVE  Holds(ss[i], x) <=> \E j \in UsableIn(dir[i]) : x = dir[i].policies[j]
  <2>1. i \in 1..Len(dir) /\ ss[i] = Contribution(dir[i])
    BY <1>1, <1>4
  <2>2. \A y : Holds(Contribution(dir[i]), y)
                 <=> \E j \in UsableIn(dir[i]) : y = dir[i].policies[j]
    BY <2>1, ContributionType, Zenon
  <2>3. QED
    BY <2>1, <2>2
<1>7. QED
  BY <1>1, <1>2, <1>3, <1>4, <1>5, <1>6

(* Every valid policy of every readable file is loaded, each once. *)
LEMMA LoadsTheUsable ==
  ASSUME input.dir \in PolicyDirs, ~ WalkError(input.dir)
  PROVE  /\ Len(LoadDir(input.dir)) = Cardinality(Usable) /\ IsFiniteSet(Usable)
         /\ {LoadDir(input.dir)[n].id : n \in 1..Len(LoadDir(input.dir))} = Usable
<1>1. PICK dir \in PolicyDirs : dir = input.dir
  OBVIOUS
<1>2. PICK m \in Nat : m = Len(dir)
  BY PolicyDirType
<1>3. Visited(dir) = m
  <2>1. \A i \in 1..m : dir[i].visitable
    BY <1>1, <1>2 DEF WalkError
  <2>2. Visited(dir) \in 0..m /\ \A n \in 1..m : n \in 1..Visited(dir)
    <3>1. \A n \in 1..m : \A i \in 1..n : i \in 1..m
      BY <1>2
    <3>2. QED
      BY <1>2, <2>1, <3>1, VisitedType
  <2>3. m # 0 => m \in 1..m
    BY <1>2
  <2>4. QED
    BY <1>2, <2>2, <2>3
<1>4. PICK ss : ss = Loads(dir)
  OBVIOUS
<1>5. /\ ss \in Seq(Seq(Pol)) /\ Len(ss) = m /\ LoadDir(dir) = FlattenSeq(ss)
      /\ \A i \in 1..m : ss[i] = Contribution(dir[i])
  BY <1>3, <1>4, LoadHolds DEF Loads
<1>6. \A x : x \in Usable <=> \E n \in 1..m : \E j \in UsableIn(dir[n]) : x = <<n, j>>
  BY <1>1, <1>2 DEF Usable, UsableIn
<1> DEFINE row == [x \in Usable |-> x[1]]
<1>7. \A n, j : <<n, j>>[1] = n /\ <<n, j>>[2] = j
  OBVIOUS
<1>8. row \in [Usable -> 1..Len(ss)]
  BY <1>5, <1>6, <1>7
<1>9. ASSUME NEW n \in 1..Len(ss)
      PROVE  LET R == {x \in Usable : row[x] = n} IN IsFiniteSet(R) /\ Cardinality(R) = Len(ss[n])
  <2> DEFINE K == UsableIn(dir[n])
             R == {x \in Usable : row[x] = n}
             g == [j \in K |-> <<n, j>>]
  <2>1. ss[n] = Contribution(dir[n]) /\ n \in 1..m
    BY <1>5
  <2>2. IsFiniteSet(K) /\ Cardinality(K) = Len(ss[n])
    BY <1>2, <2>1, ContributionType
  <2> HIDE DEF K
  <2>3. \A x : x \in R <=> \E j \in K : x = <<n, j>>
    <3>1. \A x \in Usable : row[x] = x[1]
      OBVIOUS
    <3> HIDE DEF row
    <3>2. QED
      BY <1>6, <1>7, <2>1, <3>1 DEF K
  <2> HIDE DEF R, row
  <2>4. g \in [K -> R] /\ \A a, b \in K : g[a] = g[b] => a = b
    BY <2>3
  <2>5. \A x \in R : \E j \in K : g[j] = x
    BY <2>3
  <2>6. g \in Bijection(K, R)
    <3> HIDE DEF g
    <3>1. QED
      BY <2>4, <2>5 DEF Bijection, Injection, Surjection, IsInjective
  <2>7. ExistsBijection(K, R)
    BY <2>6 DEF ExistsBijection
  <2>8. IsFiniteSet(R) /\ Cardinality(R) = Cardinality(K)
    BY <2>2, <2>7, FS_Bijection
  <2>9. QED
    BY <2>2, <2>8 DEF R
<1> HIDE DEF row
<1>10. IsFiniteSet(Usable) /\ Len(FlattenSeq(ss)) = Cardinality(Usable)
  BY <1>5, <1>8, <1>9, FlattenLength
<1>11. PICK db : db = LoadDir(dir)
  OBVIOUS
<1>12. \A x : Holds(db, x) <=> \E i \in 1..m : \E j \in UsableIn(dir[i]) : x = dir[i].policies[j]
  <2>1. \A x : Holds(LoadDir(dir), x)
                 <=> \E i \in 1..Visited(dir) : \E j \in UsableIn(dir[i]) : x = dir[i].policies[j]
    BY LoadHolds
  <2>2. QED
    BY <1>3, <1>11, <2>1, Zenon
<1>13. \A i \in 1..m : \A j \in UsableIn(dir[i]) : dir[i].policies[j].id = <<i, j>>
  BY <1>2, ContributionType
<1>14. \A x : x \in {db[n].id : n \in 1..Len(db)} <=> \E p : Holds(db, p) /\ x = p.id
  BY DEF Holds
<1>15. {db[n].id : n \in 1..Len(db)} = Usable
  <2>1. ASSUME NEW x, x \in Usable PROVE \E p : Holds(db, p) /\ x = p.id
    <3>1. PICK n \in 1..m : \E j \in UsableIn(dir[n]) : x = <<n, j>>
      BY <1>6, <2>1
    <3>2. PICK j \in UsableIn(dir[n]) : x = <<n, j>>
      BY <3>1
    <3>3. PICK p : p = dir[n].policies[j]
      OBVIOUS
    <3>4. Holds(db, p) /\ x = p.id
      BY <1>12, <1>13, <3>2, <3>3
    <3>5. QED
      BY <3>4
  <2>2. ASSUME NEW p, Holds(db, p) PROVE p.id \in Usable
    <3>1. PICK n \in 1..m : \E j \in UsableIn(dir[n]) : p = dir[n].policies[j]
      BY <1>12, <2>2
    <3>2. PICK j \in UsableIn(dir[n]) : p = dir[n].policies[j]
      BY <3>1
    <3>3. p.id = <<n, j>>
      BY <1>13, <3>2
    <3>4. QED
      BY <1>6, <3>3
  <2> DEFINE Ids == {db[n].id : n \in 1..Len(db)}
  <2>3. \A x : x \in Ids <=> \E p : Holds(db, p) /\ x = p.id
    BY <1>14
  <2> HIDE DEF Ids
  <2>4. ASSUME NEW x, x \in Usable PROVE x \in Ids
    BY <2>1, <2>3, <2>4, Zenon
  <2>5. ASSUME NEW x, x \in Ids PROVE x \in Usable
    <3>1. PICK p : Holds(db, p) /\ x = p.id
      BY <2>3, <2>5, Zenon
    <3>2. QED
      BY <2>2, <3>1, Zenon
  <2>6. Ids = Usable
    BY <2>4, <2>5, Zenon
  <2>7. QED
    BY <2>6 DEF Ids
<1>16. QED
  BY <1>1, <1>5, <1>10, <1>11, <1>15
-----------------------------------------------------------------------------
(* The loop of parseBytes: what it has after each policy.  It counts no error *)
(* exactly when all are valid, and then it has them all.                      *)
LEMMA ParsedAll ==
  ASSUME NEW P, NEW s \in Seq(P)
  PROVE  /\ ParseBytes(s).errs = 0 <=> \A j \in 1..Len(s) : Valid(s[j])
         /\ (\A j \in 1..Len(s) : Valid(s[j])) => ParseBytes(s).policies = s
<1> DEFINE V == [policies : Seq(P), errs : Nat]
           m == Len(s)
           base == [policies |-> <<>>, errs |-> 0]
           step == [x \in V \X (1..m) |-> Parsed(x[1], s[x[2]])]
           Solves(f) == f = [n \in 0..m |-> IF n = 0 THEN base ELSE Parsed(f[n - 1], s[n])]
           g == CHOOSE f : Solves(f)
<1>1. m \in Nat /\ \A n \in 1..m : s[n] \in P
  BY LenProperties, ElementOfSeq
<1>2. base \in V /\ base.policies = <<>> /\ base.errs = 0
  <2>1. <<>> \in Seq(P)
    OBVIOUS
  <2>2. QED
    BY <2>1
<1>3. ASSUME NEW v \in V, NEW p \in P
      PROVE  /\ Parsed(v, p) \in V
             /\ Valid(p) => /\ Parsed(v, p).policies = Append(v.policies, p)
                            /\ Parsed(v, p).errs = v.errs
             /\ ~ Valid(p) => Parsed(v, p).errs = v.errs + 1
  <2>1. v.policies \in Seq(P) /\ v.errs \in Nat
    OBVIOUS
  <2>2. Append(v.policies, p) \in Seq(P) /\ v.errs + 1 \in Nat
    BY <2>1, AppendProperties
  <2>3. CASE Valid(p)
    <3>1. Parsed(v, p) = [v EXCEPT !.policies = Append(v.policies, p)]
      BY <2>3 DEF Parsed
    <3>2. QED
      BY <2>2, <2>3, <3>1
  <2>4. CASE ~ Valid(p)
    <3>1. Parsed(v, p) = [v EXCEPT !.errs = v.errs + 1]
      BY <2>4 DEF Parsed
    <3>2. QED
      BY <2>2, <2>4, <3>1
  <2>5. QED
    BY <2>3, <2>4
<1>4. step \in Steps(V, m)
  <2>1. \A x \in V \X (1..m) : x[1] \in V /\ s[x[2]] \in P
    BY <1>1
  <2> HIDE DEF V, m
  <2>2. \A x \in V \X (1..m) : Parsed(x[1], s[x[2]]) \in V
    BY <1>3, <2>1
  <2>3. QED
    BY <2>2 DEF Steps
<1>5. \A v \in V, n \in 1..m : step[<<v, n>>] = Parsed(v, s[n])
  OBVIOUS
<1> HIDE DEF step, V, m
<1>6. \E f : Solves(f)
  <2>1. HasSolution(V, base, m, step)
    BY <1>1, <1>2, <1>4, Recursion
  <2> HIDE DEF base
  <2>2. PICK f \in [0..m -> V] : f[0] = base /\ \A n \in 1..m : f[n] = step[<<f[n - 1], n>>]
    BY <2>1 DEF HasSolution
  <2>3. \A n \in 1..m : n - 1 \in 0..m
    BY <1>1
  <2>4. \A n \in 1..m : f[n] = Parsed(f[n - 1], s[n])
    BY <1>5, <2>2, <2>3
  <2>5. \A n \in 0..m : n # 0 => n \in 1..m
    BY <1>1
  <2>6. \A n \in 0..m : f[n] = IF n = 0 THEN base ELSE Parsed(f[n - 1], s[n])
    BY <2>2, <2>4, <2>5
  <2>7. f = [n \in 0..m |-> f[n]]
    OBVIOUS
  <2>8. [n \in 0..m |-> f[n]] = [n \in 0..m |-> IF n = 0 THEN base ELSE Parsed(f[n - 1], s[n])]
    BY <2>6
  <2>9. Solves(f)
    BY <2>7, <2>8
  <2> HIDE DEF Solves
  <2>10. QED
    BY <2>9
<1>7. ParseBytes(s) = g[m]
  BY DEF ParseBytes, m
<1>8. Solves(g)
  <2> HIDE DEF Solves
  <2>1. QED
    BY <1>6
<1> HIDE DEF g, base
<1>9. g[0] = base /\ \A n \in 1..m : g[n] = Parsed(g[n - 1], s[n])
  <2>1. \A n \in 0..m : g[n] = IF n = 0 THEN base ELSE Parsed(g[n - 1], s[n])
    BY <1>8
  <2>2. 0 \in 0..m /\ \A n \in 1..m : n \in 0..m /\ n # 0
    BY <1>1
  <2> HIDE DEF Solves
  <2>3. QED
    BY <2>1, <2>2
<1> HIDE DEF Solves
<1> DEFINE All(n) == \A j \in 1..n : Valid(s[j])
           T == {n \in 0..m :
                   /\ g[n] \in V /\ (g[n].errs = 0 <=> All(n))
                   /\ All(n) => /\ Len(g[n].policies) = n
                                /\ \A j \in 1..n : g[n].policies[j] = s[j]}
<1>10. 0 \in T
  <2>1. g[0] \in V /\ g[0].errs = 0 /\ Len(g[0].policies) = 0
    BY <1>2, <1>9
  <2>2. 0 \in 0..m /\ \A j \in 1..0 : FALSE
    BY <1>1
  <2>3. QED
    BY <2>1, <2>2
<1>11. ASSUME NEW n \in 1..m, n - 1 \in T PROVE n \in T
  <2>1. n \in 0..m /\ n \in Nat /\ n \in 1..n
    BY <1>1
  <2>2. /\ g[n - 1] \in V /\ (g[n - 1].errs = 0 <=> All(n - 1))
        /\ All(n - 1) => /\ Len(g[n - 1].policies) = n - 1
                         /\ \A j \in 1..(n - 1) : g[n - 1].policies[j] = s[j]
    BY <1>11
  <2> HIDE DEF T
  <2>3. g[n - 1].policies \in Seq(P) /\ g[n - 1].errs \in Nat
    BY <2>2 DEF V
  <2>4. /\ g[n] \in V
        /\ Valid(s[n]) => /\ g[n].policies = Append(g[n - 1].policies, s[n])
                          /\ g[n].errs = g[n - 1].errs
        /\ ~ Valid(s[n]) => g[n].errs = g[n - 1].errs + 1
    <3>1. PICK v \in V, p \in P : v = g[n - 1] /\ p = s[n]
      BY <1>1, <2>2
    <3>2. g[n] = Parsed(v, p)
      BY <1>9, <3>1
    <3>3. /\ Parsed(v, p) \in V
          /\ Valid(p) => /\ Parsed(v, p).policies = Append(v.policies, p)
                         /\ Parsed(v, p).errs = v.errs
          /\ ~ Valid(p) => Parsed(v, p).errs = v.errs + 1
      BY <1>3
    <3>4. QED
      BY <3>1, <3>2, <3>3
  <2>5. \A j : j \in 1..n <=> j \in 1..(n - 1) \/ j = n
    BY <2>1
  <2>6. All(n) <=> All(n - 1) /\ Valid(s[n])
    BY <2>5
  <2> HIDE DEF All
  <2>7. g[n].errs = 0 <=> All(n)
    <3>1. ~ Valid(s[n]) => g[n].errs # 0
      BY <2>3, <2>4
    <3>2. QED
      BY <2>2, <2>4, <2>6, <3>1
  <2>8. ASSUME All(n)
        PROVE  Len(g[n].policies) = n /\ \A j \in 1..n : g[n].policies[j] = s[j]
    <3>1. PICK u \in Seq(P) : u = g[n - 1].policies
      BY <2>3
    <3>2. /\ g[n].policies = Append(u, s[n]) /\ s[n] \in P
          /\ Len(u) = n - 1 /\ \A j \in 1..(n - 1) : u[j] = s[j]
      BY <1>1, <2>2, <2>4, <2>6, <2>8, <3>1
    <3>3. /\ Len(Append(u, s[n])) = (n - 1) + 1
          /\ \A j \in 1..(n - 1) : Append(u, s[n])[j] = u[j]
          /\ Append(u, s[n])[(n - 1) + 1] = s[n]
      BY <3>2, AppendProperties
    <3>4. (n - 1) + 1 = n
      BY <2>1
    <3>5. QED
      BY <2>5, <3>2, <3>3, <3>4
  <2>9. QED
    BY <2>1, <2>4, <2>7, <2>8 DEF T
<1> HIDE DEF T
<1>12. \A n \in 0..m : n \in T
  BY <1>1, <1>10, <1>11, InductionUpTo
<1>13. m \in T
  BY <1>1, <1>12
<1>14. ASSUME All(m) PROVE g[m].policies = s
  <2>1. PICK u \in Seq(P) : u = g[m].policies
    BY <1>13 DEF T, V
  <2>2. Len(u) = Len(s) /\ \A j \in 1..Len(s) : u[j] = s[j]
    BY <1>13, <1>14, <2>1 DEF T, m
  <2>3. u = s
    BY <2>2, SeqEqual
  <2>4. QED
    BY <2>1, <2>3
<1>15. QED
  BY <1>7, <1>13, <1>14 DEF T, m

(* What is loaded: what is in the directory, or the built-in policies. *)
Running(dir) == IF Len(LoadDir(dir)) > 0 THEN LoadDir(dir) ELSE Defaults

LEMMA DefaultsParse == ParseBytes(Defaults).policies = Defaults
<1>1. Defaults \in Seq({Defaults[i] : i \in 1..Len(Defaults)})
  <2>1. Len(Defaults) \in Nat
    BY DefaultsAssumption
  <2>2. [i \in 1..Len(Defaults) |-> Defaults[i]]
          \in [1..Len(Defaults) -> {Defaults[i] : i \in 1..Len(Defaults)}]
    OBVIOUS
  <2>3. Defaults \in [1..Len(Defaults) -> {Defaults[i] : i \in 1..Len(Defaults)}]
    BY <2>2, DefaultsAssumption
  <2>4. QED
    BY <2>1, <2>3
<1>2. QED
  BY <1>1, ParsedAll, DefaultsAssumption

LEMMA FallsBack ==
  ASSUME NEW dir, NEW r, r = LoadWithFallback(dir)
  PROVE  /\ ~ r.err => ~ WalkError(dir)
         /\ r.policies = IF WalkError(dir) THEN LoadDir(dir) ELSE Running(dir)
<1>1. CASE WalkError(dir)
  <2>1. r = [policies |-> LoadDir(dir), source |-> "", err |-> TRUE]
    BY <1>1, Zenon DEF LoadWithFallback
  <2>2. \A u : /\ [policies |-> u, source |-> "", err |-> TRUE].err
               /\ [policies |-> u, source |-> "", err |-> TRUE].policies = u
    BY Zenon
  <2>3. QED
    BY <1>1, <2>1, <2>2, Zenon
<1>2. CASE ~ WalkError(dir) /\ Len(LoadDir(dir)) > 0
  <2>1. r = [policies |-> LoadDir(dir), source |-> "user", err |-> FALSE]
    BY <1>2, Zenon DEF LoadWithFallback
  <2>2. r.policies = LoadDir(dir)
    BY <2>1
  <2>3. QED
    BY <1>2, <2>2 DEF Running
<1>3. CASE ~ WalkError(dir) /\ ~ (Len(LoadDir(dir)) > 0)
  <2>1. r = [policies |-> ParseBytes(Defaults).policies, source |-> "built-in", err |-> FALSE]
    BY <1>3, Zenon DEF LoadWithFallback
  <2>2. r.policies = Defaults
    BY <2>1, DefaultsParse
  <2>3. QED
    BY <1>3, <2>2 DEF Running
<1>4. QED
  BY <1>1, <1>2, <1>3

(* Without an error, what the daemon runs with is every valid policy of the   *)
(* user's YAML files, each once, if there is one, and the built-in policies   *)
(* if there is no YAML file.                                                  *)
THEOREM PoliciesAreKept == Spec => []NoPolicyLost
<1>1. RInv => NoPolicyLost
  <2> SUFFICES ASSUME RInv, answer.call = "load", ~ answer.result.err
               PROVE  /\ Usable # {} => /\ Loaded = Usable
                                        /\ Len(answer.result.policies) = Cardinality(Usable)
                      /\ (\A i \in 1..Len(input.dir) : ~ IsYaml(input.dir[i])) =>
                           answer.result.policies = Defaults
    BY DEF NoPolicyLost
  <2>1. input.call = "load" /\ answer.result = LoadWithFallback(input.dir)
    BY TheAnswer
  <2>2. input.dir \in PolicyDirs
    BY <2>1 DEF RInv, Asked
  <2>3. ~ WalkError(input.dir) /\ answer.result.policies = Running(input.dir)
    BY <2>1, FallsBack
  <2>4. /\ Len(LoadDir(input.dir)) = Cardinality(Usable) /\ IsFiniteSet(Usable)
        /\ {LoadDir(input.dir)[n].id : n \in 1..Len(LoadDir(input.dir))} = Usable
    BY <2>2, <2>3, LoadsTheUsable
  <2>5. Cardinality(Usable) \in Nat /\ (Cardinality(Usable) = 0 <=> Usable = {})
    BY <2>4, FS_EmptySet, FS_CardinalityType
  <2>6. (\A i \in 1..Len(input.dir) : ~ IsYaml(input.dir[i])) => Usable = {}
    BY DEF Usable
  <2> HIDE DEF Usable
  <2>7. Running(input.dir) = IF Usable # {} THEN LoadDir(input.dir) ELSE Defaults
    BY <2>4, <2>5 DEF Running
  <2>8. ASSUME Usable # {}
        PROVE  Loaded = Usable /\ Len(answer.result.policies) = Cardinality(Usable)
    <3>1. answer.result.policies = LoadDir(input.dir)
      BY <2>3, <2>7, <2>8
    <3>2. QED
      BY <2>4, <3>1 DEF Loaded
  <2>9. QED
    BY <2>3, <2>6, <2>7, <2>8
<1>2. QED
  BY <1>1, AnswersKept, PTL

(* A YAML file in which `policy check' finds no error is one that the daemon  *)
(* runs with as it is, and the other way round, whatever else there is.       *)
THEOREM CheckIsTrustworthy == Spec => []CheckedIsLoaded
<1>1. RInv => CheckedIsLoaded
  <2> SUFFICES ASSUME RInv, answer.call = "check", IsYaml(input.dir[input.at]),
                      \A i \in 1..input.at : input.dir[i].visitable
               PROVE  LET file == input.dir[input.at]
                          db   == LoadWithFallback(input.dir).policies
                      IN answer.result.errs = 0
                           <=> /\ file.parses
                               /\ \A j \in 1..Len(file.policies) :
                                    \E n \in 1..Len(db) : db[n] = file.policies[j]
    BY DEF CheckedIsLoaded
  <2>1. input.call = "check" /\ answer.result = LoadFile(input.dir[input.at])
    BY TheAnswer
  <2>2. PICK dir \in PolicyDirs : \E at \in DOMAIN dir :
          input = [call |-> "check", dir |-> dir, at |-> at]
    BY <2>1 DEF RInv, Asked
  <2> PICK at \in DOMAIN dir : dir = input.dir /\ at = input.at
    BY <2>2
  <2>3. PICK file : file = dir[at]
    OBVIOUS
  <2>4. PICK s \in Seq(Pol) : s = file.policies /\ Len(s) \in 0..2
    <3>1. at \in 1..Len(dir)
      BY PolicyDirType
    <3>2. dir[at].policies \in Seq(Pol) /\ Len(dir[at].policies) \in 0..2
      BY <3>1, PolicyDirType
    <3>3. QED
      BY <2>3, <3>2
  <2>5. PICK db : db = LoadWithFallback(dir).policies
    OBVIOUS
  <2>6. at \in 1..Visited(dir)
    <3>1. at \in 1..Len(dir)
      BY <2>2, PolicyDirType
    <3>2. QED
      BY <2>2, <3>1, VisitedType
  <2>7. \A x : Holds(LoadDir(dir), x)
                 <=> \E i \in 1..Visited(dir) : \E j \in UsableIn(dir[i]) : x = dir[i].policies[j]
    BY LoadHolds
  <2>8. db = IF WalkError(dir) THEN LoadDir(dir) ELSE Running(dir)
    BY <2>5, FallsBack
  <2>9. answer.result.errs = 0 <=> file.parses /\ \A j \in 1..Len(s) : Valid(s[j])
    <3>1. CASE file.parses
      <4>1. answer.result = ParseBytes(s)
        BY <2>1, <2>2, <2>3, <2>4, <3>1 DEF LoadFile
      <4>2. QED
        BY <3>1, <4>1, ParsedAll
    <3>2. CASE ~ file.parses
      <4>1. answer.result = [policies |-> <<>>, errs |-> 1]
        BY <2>1, <2>2, <2>3, <3>2 DEF LoadFile
      <4>2. QED
        BY <3>2, <4>1
    <3>3. QED
      BY <3>1, <3>2
  <2>10. ASSUME file.parses, NEW j \in 1..Len(s), Valid(s[j]) PROVE Holds(db, s[j])
    <3>1. j \in UsableIn(file)
      <4>1. s[j] \in Pol /\ j \in 1..2 /\ j <= Len(s)
        BY <2>4, ElementOfSeq
      <4>2. s[j].syscall = Good.syscall /\ s[j].action = Good.action
        BY <2>10, <4>1, ValidIsGood
      <4>3. IsYaml(file)
        BY <2>2, <2>3
      <4>4. QED
        BY <2>4, <2>10, <4>1, <4>2, <4>3 DEF UsableIn
    <3>2. Holds(LoadDir(dir), s[j])
      BY <2>3, <2>4, <2>6, <2>7, <3>1
    <3>3. Len(LoadDir(dir)) > 0
      <4>1. Len(LoadDir(dir)) \in Nat
        BY LoadHolds, LenProperties
      <4>2. QED
        BY <3>2, <4>1 DEF Holds
    <3>4. QED
      BY <2>8, <3>2, <3>3 DEF Running
  <2>11. ASSUME NEW p, Holds(db, p) PROVE Valid(p)
    <3>1. CASE Holds(LoadDir(dir), p)
      <4>1. PICK i \in 1..Visited(dir) : \E j \in UsableIn(dir[i]) : p = dir[i].policies[j]
        BY <2>7, <3>1
      <4>2. i \in 1..Len(dir)
        <5>1. Len(dir) \in Nat /\ Visited(dir) \in 0..Len(dir)
          BY PolicyDirType, VisitedType
        <5>2. QED
          BY <5>1
      <4>3. QED
        BY <4>1, <4>2, ContributionType
    <3>2. CASE Holds(Defaults, p)
      BY <3>2, DefaultsAssumption DEF Holds
    <3>3. QED
      BY <2>8, <2>11, <3>1, <3>2 DEF Running
  <2>12. (\A j \in 1..Len(s) : \E n \in 1..Len(db) : db[n] = s[j])
           <=> \A j \in 1..Len(s) : Holds(db, s[j])
    BY DEF Holds
  <2>13. answer.result.errs = 0
           <=> file.parses /\ \A j \in 1..Len(s) : \E n \in 1..Len(db) : db[n] = s[j]
    BY <2>9, <2>10, <2>11, <2>12
  <2>14. /\ input.dir[input.at] = file /\ file.policies = s
         /\ LoadWithFallback(input.dir).policies = db
    BY <2>2, <2>3, <2>4, <2>5
  <2>15. QED
    BY <2>13, <2>14
<1>2. QED
  BY <1>1, AnswersKept, PTL


-----------------------------------------------------------------------------
(* Globs.  What part n of a pattern takes of a path: from after a up to b. *)
Piece(pat, path, n, a, b) ==
  IF pat[n] = AnyDepth THEN a <= b
  ELSE b = a + 1 /\ PartMatches(pat[n], path[b])

(* The pattern from i on covers the path from j on. *)
Cuts(pat, path, i, j, cut) ==
  /\ cut \in [(i - 1)..Len(pat) -> 0..Len(path)]
  /\ cut[i - 1] = j - 1 /\ cut[Len(pat)] = Len(path)
  /\ \A n \in i..Len(pat) : Piece(pat, path, n, cut[n - 1], cut[n])

Rest(pat, path, i, j) == \E cut : Cuts(pat, path, i, j, cut)

(* Nothing covers the empty path, and nothing else. *)
LEMMA RestOver ==
  ASSUME NEW pat, Len(pat) \in Nat, NEW path, Len(path) \in Nat,
         NEW j \in 1..Len(path) + 1
  PROVE  Rest(pat, path, Len(pat) + 1, j) <=> j > Len(path)
<1> DEFINE m == Len(pat)
           l == Len(path)
<1>0. m \in Nat /\ l \in Nat /\ j \in 1..l + 1 /\ (m + 1) - 1 = m
  OBVIOUS
<1>1. ASSUME NEW cut, Cuts(pat, path, m + 1, j, cut) PROVE j > l
  <2>1. cut[m] = j - 1 /\ cut[m] = l
    BY <1>0, <1>1 DEF Cuts
  <2> HIDE DEF m, l
  <2>2. QED
    BY <1>0, <2>1
<1>2. ASSUME j > l PROVE \E cut : Cuts(pat, path, m + 1, j, cut)
  <2> DEFINE c == [n \in m..m |-> l]
  <2>1. j - 1 = l
    BY <1>0, <1>2
  <2>2. c \in [m..m -> 0..l] /\ c[m] = l
    OBVIOUS
  <2>3. \A n \in (m + 1)..m : FALSE
    OBVIOUS
  <2> HIDE DEF c
  <2>4. Cuts(pat, path, m + 1, j, c)
    BY <1>0, <2>1, <2>2, <2>3 DEF Cuts
  <2>5. QED
    BY <2>4
<1>3. QED
  BY <1>1, <1>2 DEF Rest

(* One part covers a piece, and the parts after it the rest. *)
LEMMA RestOn ==
  ASSUME NEW pat, Len(pat) \in Nat, NEW path, Len(path) \in Nat,
         NEW i \in 1..Len(pat), NEW j \in 1..Len(path) + 1
  PROVE  Rest(pat, path, i, j)
           <=> \E b \in 0..Len(path) : Piece(pat, path, i, j - 1, b) /\ Rest(pat, path, i + 1, b + 1)
<1> DEFINE m == Len(pat)
           l == Len(path)
<1>0. m \in Nat /\ l \in Nat /\ i \in 1..m /\ j \in 1..l + 1 /\ (i + 1) - 1 = i
  OBVIOUS
<1>1. ASSUME NEW cut, Cuts(pat, path, i, j, cut)
      PROVE  \E b \in 0..l : Piece(pat, path, i, j - 1, b) /\ Rest(pat, path, i + 1, b + 1)
  <2> DEFINE b == cut[i]
             c == [n \in i..m |-> cut[n]]
  <2>1. /\ cut \in [(i - 1)..m -> 0..l] /\ cut[i - 1] = j - 1 /\ cut[m] = l
        /\ \A n \in i..m : Piece(pat, path, n, cut[n - 1], cut[n])
    BY <1>1 DEF Cuts
  <2>2. b \in 0..l /\ Piece(pat, path, i, j - 1, b) /\ (b + 1) - 1 = b
    <3> HIDE DEF m, l
    <3>1. i \in (i - 1)..m /\ i \in i..m
      BY <1>0
    <3>2. b \in 0..l
      BY <2>1, <3>1
    <3>3. QED
      BY <1>0, <2>1, <3>1, <3>2
  <2>3. c \in [i..m -> 0..l] /\ c[i] = b /\ c[m] = l
    <3> HIDE DEF m, l
    <3>1. \A n \in i..m : n \in (i - 1)..m
      BY <1>0
    <3>2. i \in i..m /\ m \in i..m
      BY <1>0
    <3>3. QED
      BY <2>1, <3>1, <3>2
  <2>4. ASSUME NEW n \in (i + 1)..m PROVE Piece(pat, path, n, c[n - 1], c[n])
    <3> HIDE DEF m, l
    <3>1. n \in i..m /\ n - 1 \in i..m
      BY <1>0
    <3>2. c[n - 1] = cut[n - 1] /\ c[n] = cut[n]
      BY <3>1
    <3> HIDE DEF c
    <3>3. QED
      BY <2>1, <3>1, <3>2
  <2> HIDE DEF c, b
  <2>5. Cuts(pat, path, i + 1, b + 1, c)
    BY <1>0, <2>2, <2>3, <2>4 DEF Cuts
  <2>6. QED
    BY <2>2, <2>5 DEF Rest
<1>2. ASSUME NEW b \in 0..l, Piece(pat, path, i, j - 1, b), NEW cut,
             Cuts(pat, path, i + 1, b + 1, cut)
      PROVE  Rest(pat, path, i, j)
  <2> DEFINE c == [n \in (i - 1)..m |-> IF n = i - 1 THEN j - 1 ELSE cut[n]]
  <2>1. /\ cut \in [i..m -> 0..l] /\ cut[i] = b /\ cut[m] = l
        /\ \A n \in (i + 1)..m : Piece(pat, path, n, cut[n - 1], cut[n])
    <3>1. (b + 1) - 1 = b
      OBVIOUS
    <3>2. QED
      BY <1>0, <1>2, <3>1 DEF Cuts
  <2> HIDE DEF m, l
  <2>2. /\ c \in [(i - 1)..m -> 0..l] /\ c[i - 1] = j - 1
        /\ \A n \in i..m : c[n] = cut[n]
    <3>1. i - 1 \in (i - 1)..m /\ j - 1 \in 0..l
      BY <1>0
    <3>2. \A n \in (i - 1)..m : n = i - 1 \/ n \in i..m
      BY <1>0
    <3>3. \A n \in i..m : n \in (i - 1)..m /\ n # i - 1
      BY <1>0
    <3>4. QED
      BY <2>1, <3>1, <3>2, <3>3
  <2>3. m \in i..m /\ i \in i..m
    BY <1>0
  <2> HIDE DEF c
  <2>4. ASSUME NEW n \in i..m PROVE Piece(pat, path, n, c[n - 1], c[n])
    <3>1. CASE n = i
      BY <1>2, <2>1, <2>2, <2>3, <3>1
    <3>2. CASE n # i
      <4>1. n \in (i + 1)..m /\ n - 1 \in i..m
        BY <1>0, <3>2
      <4>2. c[n - 1] = cut[n - 1] /\ c[n] = cut[n]
        BY <2>2, <4>1
      <4>3. QED
        BY <2>1, <4>1, <4>2
    <3>3. QED
      BY <3>1, <3>2
  <2>5. Cuts(pat, path, i, j, c)
    BY <2>1, <2>2, <2>3, <2>4 DEF Cuts, m, l
  <2>6. QED
    BY <2>5 DEF Rest
<1>3. QED
  BY <1>1, <1>2 DEF Rest

(* The recursion of globMatchParts, as an equation. *)
GlobStep(pat, path, f, i) ==
  IF i > Len(pat) THEN {Len(path) + 1}
  ELSE IF pat[i] = AnyDepth
         THEN {j \in 1..Len(path) + 1 : \E k \in Splits(j, path) : k \in f[i + 1]}
         ELSE {j \in 1..Len(path) : PartMatches(pat[i], path[j]) /\ j + 1 \in f[i + 1]}

(* Its solution. *)
Starts(pat, path, i) == {j \in 1..Len(path) + 1 : Rest(pat, path, i, j)}

LEMMA StartsStep ==
  ASSUME NEW pat, Len(pat) \in Nat, NEW path, Len(path) \in Nat,
         NEW f, NEW i \in 1..Len(pat) + 1,
         i <= Len(pat) => f[i + 1] = Starts(pat, path, i + 1)
  PROVE  GlobStep(pat, path, f, i) = Starts(pat, path, i)
<1> DEFINE m == Len(pat)
           l == Len(path)
<1>0. m \in Nat /\ l \in Nat /\ i \in 1..m + 1
  OBVIOUS
<1>1. CASE i > m
  <2>1. i = m + 1
    BY <1>0, <1>1
  <2>2. \A j \in 1..l + 1 : Rest(pat, path, i, j) <=> j > l
    BY <1>0, <2>1, RestOver
  <2>3. GlobStep(pat, path, f, i) = {l + 1}
    BY <1>1 DEF GlobStep
  <2>4. Starts(pat, path, i) = {j \in 1..l + 1 : j > l}
    BY <2>2 DEF Starts
  <2> HIDE DEF m, l
  <2>5. {j \in 1..l + 1 : j > l} = {l + 1}
    BY <1>0
  <2>6. QED
    BY <2>3, <2>4, <2>5
<1>2. CASE ~ (i > m)
  <2>1. i \in 1..m /\ i <= m
    BY <1>0, <1>2
  <2>2. \A j \in 1..l + 1 :
          Rest(pat, path, i, j)
            <=> \E b \in 0..l : Piece(pat, path, i, j - 1, b) /\ Rest(pat, path, i + 1, b + 1)
    BY <1>0, <2>1, RestOn
  <2>3. \A k : k \in f[i + 1] <=> k \in 1..l + 1 /\ Rest(pat, path, i + 1, k)
    BY <2>1 DEF Starts
  <2>4. CASE pat[i] = AnyDepth
    <3>1. GlobStep(pat, path, f, i) = {j \in 1..l + 1 : \E k \in j..(l + 1) : k \in f[i + 1]}
      BY <1>2, <2>4 DEF GlobStep, Splits
    <3>2. \A j \in 1..l + 1, b \in 0..l : Piece(pat, path, i, j - 1, b) <=> j - 1 <= b
      BY <2>4 DEF Piece
    <3>3. ASSUME NEW j \in 1..l + 1
          PROVE  (\E k \in j..(l + 1) : k \in f[i + 1]) <=> Rest(pat, path, i, j)
      <4> HIDE DEF m, l
      <4>1. \A k \in j..(l + 1) : k \in 1..l + 1 /\ k - 1 \in 0..l /\ j - 1 <= k - 1 /\ (k - 1) + 1 = k
        BY <1>0
      <4>2. \A b \in 0..l : b + 1 \in 1..l + 1 /\ (j - 1 <= b => b + 1 \in j..(l + 1))
        BY <1>0
      <4>3. ASSUME NEW k \in j..(l + 1), k \in f[i + 1] PROVE Rest(pat, path, i, j)
        <5>1. k - 1 \in 0..l /\ Piece(pat, path, i, j - 1, k - 1)
              /\ Rest(pat, path, i + 1, (k - 1) + 1)
          BY <2>3, <3>2, <4>1, <4>3
        <5>2. QED
          BY <2>2, <5>1
      <4>4. ASSUME Rest(pat, path, i, j) PROVE \E k \in j..(l + 1) : k \in f[i + 1]
        <5>1. PICK b \in 0..l : Piece(pat, path, i, j - 1, b) /\ Rest(pat, path, i + 1, b + 1)
          BY <2>2, <4>4
        <5>2. b + 1 \in j..(l + 1) /\ b + 1 \in f[i + 1]
          BY <2>3, <3>2, <4>2, <5>1
        <5>3. QED
          BY <5>2
      <4>5. QED
        BY <4>3, <4>4
    <3>4. QED
      BY <3>1, <3>3 DEF Starts
  <2>5. CASE pat[i] # AnyDepth
    <3>1. GlobStep(pat, path, f, i) = {j \in 1..l : PartMatches(pat[i], path[j]) /\ j + 1 \in f[i + 1]}
      BY <1>2, <2>5 DEF GlobStep
    <3> HIDE DEF m, l
    <3>2. \A j \in 1..l + 1 : (j - 1) + 1 = j
      BY <1>0
    <3>3. \A j \in 1..l + 1, b \in 0..l :
            Piece(pat, path, i, j - 1, b) <=> b = j /\ PartMatches(pat[i], path[b])
      BY <2>5, <3>2 DEF Piece
    <3>4. \A j \in 1..l : j \in 0..l /\ j \in 1..l + 1 /\ j + 1 \in 1..l + 1
      BY <1>0
    <3>5. \A j \in 1..l + 1 : j \in 0..l => j \in 1..l
      BY <1>0
    <3>6. ASSUME NEW j \in 1..l + 1, Rest(pat, path, i, j)
          PROVE  j \in 1..l /\ PartMatches(pat[i], path[j]) /\ j + 1 \in f[i + 1]
      BY <2>2, <2>3, <3>3, <3>4, <3>5, <3>6
    <3>7. ASSUME NEW j \in 1..l, PartMatches(pat[i], path[j]), j + 1 \in f[i + 1]
          PROVE  j \in 1..l + 1 /\ Rest(pat, path, i, j)
      BY <2>2, <2>3, <3>3, <3>4, <3>7
    <3>8. QED
      BY <3>1, <3>6, <3>7 DEF Starts, l
  <2>6. QED
    BY <2>4, <2>5
<1>3. QED
  BY <1>1, <1>2

(* The recursion has one solution: where the rest of the pattern covers. *)
LEMMA GlobMatchRests ==
  ASSUME NEW pat, Len(pat) \in Nat, NEW path, Len(path) \in Nat
  PROVE  GlobMatch(pat, path) <=> Rest(pat, path, 1, 1)
<1> DEFINE m == Len(pat)
           Solves(f) == f = [i \in 1..m + 1 |-> GlobStep(pat, path, f, i)]
           g == CHOOSE f : Solves(f)
           h == [i \in 1..m + 1 |-> Starts(pat, path, i)]
<1>1. GlobMatch(pat, path) <=> 1 \in g[1]
  BY DEF GlobMatch, GlobStep
<1>2. Solves(h)
  <2>1. ASSUME NEW i \in 1..m + 1
        PROVE  Starts(pat, path, i) = GlobStep(pat, path, h, i)
    <3>1. i <= m => i + 1 \in 1..m + 1
      OBVIOUS
    <3>2. i <= m => h[i + 1] = Starts(pat, path, i + 1)
      BY <3>1
    <3> HIDE DEF h
    <3>3. QED
      BY <3>2, StartsStep
  <2>2. QED
    BY <2>1
<1>3. Solves(g)
  <2> HIDE DEF h, Solves
  <2>1. \E f : Solves(f)
    BY <1>2
  <2>2. QED
    BY <2>1
<1>4. \A i \in 1..m + 1 : g[i] = GlobStep(pat, path, g, i)
  <2>1. g = [i \in 1..m + 1 |-> GlobStep(pat, path, g, i)]
    BY <1>3
  <2> HIDE DEF g
  <2>2. QED
    BY <2>1
<1> HIDE DEF g
<1> DEFINE T == {n \in 0..m : g[m + 1 - n] = Starts(pat, path, m + 1 - n)}
<1>5. 0 \in T
  <2>1. m + 1 - 0 = m + 1 /\ m + 1 \in 1..m + 1 /\ ~ (m + 1 <= m) /\ 0 \in 0..m
    OBVIOUS
  <2>2. g[m + 1] = Starts(pat, path, m + 1)
    BY <1>4, <2>1, StartsStep
  <2>3. QED
    BY <2>1, <2>2
<1>6. ASSUME NEW n \in 1..m, n - 1 \in T PROVE n \in T
  <2>1. PICK i \in 1..m + 1 : i = m + 1 - n
    OBVIOUS
  <2>2. m + 1 - (n - 1) = i + 1 /\ n \in 0..m
    BY <2>1
  <2>3. g[i + 1] = Starts(pat, path, i + 1)
    BY <1>6, <2>2
  <2>4. g[i] = Starts(pat, path, i)
    BY <1>4, <2>3, StartsStep
  <2>5. QED
    BY <2>1, <2>2, <2>4
<1>7. \A n \in 0..m : n \in T
  <2> HIDE DEF T
  <2>1. QED
    BY <1>5, <1>6, InductionUpTo
<1>8. m \in 0..m /\ m + 1 - m = 1 /\ 1 \in 1..Len(path) + 1
  OBVIOUS
<1>9. g[1] = Starts(pat, path, 1)
  BY <1>7, <1>8
<1>10. QED
  BY <1>1, <1>8, <1>9 DEF Starts

(* The matcher of globs says what docs/IOC_FORMAT.md promises, for every      *)
(* pattern and every path.                                                    *)
LEMMA GlobMatchCovers ==
  ASSUME NEW S, NEW pat \in Seq(S), NEW P, NEW path \in Seq(P)
  PROVE  GlobMatch(pat, path) <=> Covers(pat, path)
<1>1. Len(pat) \in Nat /\ Len(path) \in Nat
  BY LenProperties
<1>2. GlobMatch(pat, path) <=> Rest(pat, path, 1, 1)
  BY <1>1, GlobMatchRests
<1>3. \A cut : Cuts(pat, path, 1, 1, cut) <=>
        /\ cut \in [0..Len(pat) -> 0..Len(path)]
        /\ cut[0] = 0 /\ cut[Len(pat)] = Len(path)
        /\ \A i \in 1..Len(pat) :
             IF pat[i] = AnyDepth
               THEN cut[i - 1] <= cut[i]
               ELSE /\ cut[i] = cut[i - 1] + 1
                    /\ PartMatches(pat[i], path[cut[i]])
  <2>1. 1 - 1 = 0
    OBVIOUS
  <2>2. QED
    BY <2>1 DEF Cuts, Piece
<1>4. Rest(pat, path, 1, 1) <=> Covers(pat, path)
  BY <1>3 DEF Rest, Covers
<1>5. QED
  BY <1>2, <1>4

(* An indicator of a glob matches exactly the paths its pattern covers. *)
THEOREM GlobsAreCovers == Spec => []GlobFindsCover
<1>1. RInv => GlobFindsCover
  <2> SUFFICES ASSUME RInv, answer.call = "glob"
               PROVE  answer.result = Covers(input.pat, input.path)
    BY DEF GlobFindsCover
  <2>1. input.call = "glob" /\ answer.result = Matches
    BY TheAnswer
  <2>2. input.pat \in Globs /\ input.path \in Paths
    BY <2>1 DEF RInv, Asked
  <2>3. input.pat \in Seq(Parts \cup {Star, AnyDepth}) /\ input.path \in Seq(Parts)
    BY <2>2, Bounded, RulesAssumption DEF Globs, Paths
  <2>4. GlobMatch(input.pat, input.path) <=> Covers(input.pat, input.path)
    BY <2>3, GlobMatchCovers
  <2> DEFINE K == {i \in 1..Len(<<PathGlob>>) : MatchIndicator(<<PathGlob>>[i], input.path, "")}
  <2>5. Matches <=> 1 \in K
    <3>1. Matches = (Chosen(<<PathGlob>>, K) # <<>>)
      BY DEF Matches, Match
    <3> HIDE DEF K
    <3>2. QED
      BY <3>1, ChosenOne
  <2>6. 1 \in K <=> MatchIndicator(PathGlob, input.path, "")
    <3>1. PICK p : p = PathGlob
      OBVIOUS
    <3>2. 1 \in 1..Len(<<p>>) /\ <<p>>[1] = p
      OBVIOUS
    <3>3. QED
      BY <3>1, <3>2
  <2>7. MatchIndicator(PathGlob, input.path, "") <=> GlobMatch(input.pat, input.path)
    <3>1. PathGlob.kind = "file_path_glob" /\ PathGlob.values = {input.pat}
      BY DEF PathGlob
    <3>2. QED
      BY <3>1, Zenon DEF MatchIndicator
  <2> HIDE DEF K
  <2>8. Matches <=> Covers(input.pat, input.path)
    BY <2>4, <2>5, <2>6, <2>7
  <2>9. Matches \in BOOLEAN /\ Covers(input.pat, input.path) \in BOOLEAN
    BY DEF Matches, Covers
  <2>10. QED
    BY <2>1, <2>8, <2>9
<1>2. QED
  BY <1>1, AnswersKept, PTL
=============================================================================
