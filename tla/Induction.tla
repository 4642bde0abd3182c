------------------------------ MODULE Induction ------------------------------
(***************************************************************************)
(* Induction and recursion over the naturals, stated of sets and functions *)
(* rather than of operators, so that they can be cited for any of them.    *)
(***************************************************************************)
EXTENDS Integers, WellFoundedInduction, TLAPS

LEMMA Smallest ==
  ASSUME NEW T \in SUBSET Nat, T # {}
  PROVE  \E x \in T : \A y \in T : x <= y
<1> DEFINE Less == OpToRel(<, Nat)
<1>1. IsWellFoundedOn(Less, Nat)
  BY NatLessThanWellFounded, Zenon
<1>2. \A x, y \in Nat : x < y => <<x, y>> \in Less
  BY DEF OpToRel
<1> HIDE DEF Less
<1>3. \E x \in T : \A y \in T : ~ (<<y, x>> \in Less)
  BY <1>1, WFMin
<1>4. PICK x \in T : \A y \in T : ~ (<<y, x>> \in Less)
  BY <1>3, Zenon
<1>5. ASSUME NEW y \in T PROVE x <= y
  <2>1. x \in Nat /\ y \in Nat
    OBVIOUS
  <2>2. ~ (<<y, x>> \in Less)
    BY <1>4, Zenon
  <2>3. ~ (y < x)
    BY <2>1, <2>2, <1>2, Zenon
  <2>4. QED
    BY <2>1, <2>3
<1>6. QED
  BY <1>5

LEMMA Least ==
  ASSUME NEW T \in SUBSET Nat, T # {}
  PROVE  LET e == CHOOSE i \in T : \A j \in T : i <= j
         IN  e \in T /\ \A j \in T : e <= j
<1>1. \E x \in T : \A y \in T : x <= y
  BY Smallest
<1>2. QED
  BY <1>1

(* A set that holds 0, and the successor of each number in it, holds all. *)
LEMMA Induction ==
  ASSUME NEW T, 0 \in T, \A n \in Nat : n \in T => n + 1 \in T
  PROVE  \A n \in Nat : n \in T
<1> DEFINE U == Nat \ T
<1> SUFFICES ASSUME U # {} PROVE FALSE
  OBVIOUS
<1>1. PICK x \in U : \A y \in U : x <= y
  BY Smallest
<1>2. x \in Nat /\ x # 0
  OBVIOUS
<1>3. x - 1 \in Nat /\ x - 1 \notin U /\ (x - 1) + 1 = x
  BY <1>1, <1>2
<1>4. QED
  BY <1>3

(* The same up to a bound. *)
LEMMA InductionUpTo ==
  ASSUME NEW m \in Nat, NEW T, 0 \in T,
         \A n \in 1..m : n - 1 \in T => n \in T
  PROVE  \A n \in 0..m : n \in T
<1> DEFINE U == {n \in Nat : n <= m => n \in T}
<1>1. 0 \in U
  OBVIOUS
<1>2. ASSUME NEW n \in Nat, n \in U PROVE n + 1 \in U
  BY <1>2
<1> HIDE DEF U
<1>3. \A n \in Nat : n \in U
  BY <1>1, <1>2, Induction
<1>4. QED
  BY <1>3 DEF U

(* A function on 0..m that is given by its value at 0 and by a step exists. *)
(* The two definitions keep what is cited in one piece.                     *)
Steps(V, m) == [V \X (1..m) -> V]

HasSolution(V, base, m, step) ==
  \E f \in [0..m -> V] :
    /\ f[0] = base
    /\ \A n \in 1..m : f[n] = step[<<f[n - 1], n>>]

LEMMA Recursion ==
  ASSUME NEW V, NEW base \in V, NEW m \in Nat, NEW step \in Steps(V, m)
  PROVE  HasSolution(V, base, m, step)
<1> DEFINE Solves(f, k) == /\ f \in [0..k -> V] /\ f[0] = base
                           /\ \A n \in 1..k : f[n] = step[<<f[n - 1], n>>]
<1>0. step \in [V \X (1..m) -> V]
  BY DEF Steps
<1> DEFINE T == {k \in 0..m : \E f : Solves(f, k)}
<1>1. 0 \in T
  <2> DEFINE g == [n \in 0..0 |-> base]
  <2>1. Solves(g, 0)
    OBVIOUS
  <2> HIDE DEF g, Solves
  <2>2. \E f : Solves(f, 0)
    BY <2>1
  <2>3. QED
    BY <2>2
<1>2. ASSUME NEW k \in 1..m, k - 1 \in T PROVE k \in T
  <2>1. PICK f : Solves(f, k - 1)
    BY <1>2
  <2>2. f[k - 1] \in V
    BY <2>1
  <2> DEFINE g == [n \in 0..k |-> IF n = k THEN step[<<f[k - 1], k>>] ELSE f[n]]
  <2>3. step[<<f[k - 1], k>>] \in V
    BY <1>0, <2>2
  <2>4. g \in [0..k -> V] /\ g[0] = base
    BY <2>1, <2>3
  <2>5. ASSUME NEW n \in 1..k PROVE g[n] = step[<<g[n - 1], n>>]
    <3>1. g[n - 1] = f[n - 1]
      OBVIOUS
    <3>2. CASE n = k
      <4>1. g[k] = step[<<f[k - 1], k>>]
        OBVIOUS
      <4> HIDE DEF g
      <4>2. QED
        BY <3>1, <3>2, <4>1
    <3>3. CASE n # k
      <4>1. n \in 1..(k - 1) /\ g[n] = f[n]
        BY <3>3
      <4>2. f[n] = step[<<f[n - 1], n>>]
        BY <2>1, <4>1
      <4> HIDE DEF g
      <4>3. QED
        BY <3>1, <4>1, <4>2
    <3>4. QED
      BY <3>2, <3>3
  <2>6. Solves(g, k)
    BY <2>4, <2>5
  <2> HIDE DEF g, Solves
  <2>7. \E h : Solves(h, k)
    BY <2>6
  <2>8. QED
    BY <2>7
<1> HIDE DEF T
<1>3. \A k \in 0..m : k \in T
  BY <1>1, <1>2, InductionUpTo
<1>4. \E f : Solves(f, m)
  BY <1>3 DEF T
<1>5. QED
  BY <1>4 DEF HasSolution
=============================================================================
