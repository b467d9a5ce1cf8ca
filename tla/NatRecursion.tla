---------------------------- MODULE NatRecursion ----------------------------
(***************************************************************************)
(* Induction and recursion over the natural numbers, for the proofs about  *)
(* operators that go through a sequence.  The induction theorems of the    *)
(* library take a predicate as a parameter; here the induction is over a   *)
(* set, so that every backend can use it.                                  *)
(***************************************************************************)
EXTENDS Naturals, Sequences, WellFoundedInduction, TLAPS

LEMMA LessThan == \A m, n \in Nat : <<m, n>> \in OpToRel(<, Nat) <=> m < n
BY DEF OpToRel

(* A set with 0 that has the successor of each of its numbers has all.     *)
LEMMA NatSetInduction ==
  ASSUME NEW S, 0 \in S, \A n \in Nat : n \in S => n + 1 \in S
  PROVE  Nat \subseteq S
<1> SUFFICES ASSUME Nat \ S # {}
             PROVE  FALSE
  OBVIOUS
<1>1. PICK x \in Nat \ S : \A y \in Nat \ S : <<y, x>> \notin OpToRel(<, Nat)
  <2>1. Nat \ S \subseteq Nat
    OBVIOUS
  <2> HIDE DEF OpToRel
  <2> QED
    BY <2>1, NatLessThanWellFounded, WFMin
<1>2. x # 0 /\ x - 1 \in Nat /\ x - 1 < x
  OBVIOUS
<1>3. x - 1 \in S
  BY <1>1, <1>2, LessThan
<1>4. (x - 1) + 1 = x
  BY <1>2
<1> QED
  BY <1>1, <1>2, <1>3, <1>4

(* The same up to a bound N.                                               *)
LEMMA BoundedInduction ==
  ASSUME NEW N \in Nat, NEW S, 0 \in S,
         \A n \in 0 .. N : n < N /\ n \in S => n + 1 \in S
  PROVE  0 .. N \subseteq S
<1> DEFINE T == {n \in Nat : n <= N => n \in S}
<1>1. 0 \in T
  OBVIOUS
<1>2. ASSUME NEW n \in Nat, n \in T
      PROVE  n + 1 \in T
  <2> SUFFICES ASSUME n + 1 <= N
               PROVE  n + 1 \in S
    OBVIOUS
  <2>1. n \in 0 .. N /\ n < N
    OBVIOUS
  <2>2. n \in S
    BY <1>2, <2>1
  <2> QED
    BY <2>1, <2>2
<1>3. Nat \subseteq T
  <2> HIDE DEF T
  <2> QED
    BY <1>1, <1>2, NatSetInduction
<1> QED
  BY <1>3

(* f starts with a and takes each value from the one before with Step.     *)
IsRecursion(f, N, V, a, Step) ==
  /\ f \in [0 .. N -> V]
  /\ f[0] = a
  /\ \A i \in 1 .. N : f[i] = Step[i][f[i - 1]]

LEMMA RecursionExists ==
  ASSUME NEW N \in Nat, NEW V, NEW a \in V, NEW Step \in [1 .. N -> [V -> V]]
  PROVE  \E f : IsRecursion(f, N, V, a, Step)
<1> DEFINE S == {n \in 0 .. N : \E f : IsRecursion(f, n, V, a, Step)}
<1>1. 0 \in S
  <2> DEFINE g == [i \in 0 .. 0 |-> a]
  <2>1. IsRecursion(g, 0, V, a, Step)
    BY DEF IsRecursion
  <2> HIDE DEF g
  <2> QED
    BY <2>1
<1>2. ASSUME NEW n \in 0 .. N, n < N, n \in S
      PROVE  n + 1 \in S
  <2>1. PICK f : IsRecursion(f, n, V, a, Step)
    BY <1>2
  <2> DEFINE g == [i \in 0 .. n + 1 |-> IF i <= n THEN f[i] ELSE Step[n + 1][f[n]]]
  <2>2. n \in Nat /\ n + 1 \in 1 .. N /\ n \in 0 .. n /\ f[n] \in V
    BY <1>2, <2>1 DEF IsRecursion
  <2>3. Step[n + 1][f[n]] \in V
    BY <2>2
  <2>4. g \in [0 .. n + 1 -> V]
    BY <2>1, <2>2, <2>3 DEF IsRecursion
  <2>5. g[0] = a
    BY <2>1, <2>2 DEF IsRecursion
  <2>6. ASSUME NEW i \in 1 .. n + 1
        PROVE  g[i] = Step[i][g[i - 1]]
    <3>1. CASE i <= n
      <4>1. i \in 1 .. n /\ i - 1 \in 0 .. n
        BY <3>1, <2>2
      <4>2. g[i] = f[i] /\ g[i - 1] = f[i - 1]
        BY <4>1, <2>2
      <4> QED
        BY <2>1, <4>1, <4>2 DEF IsRecursion
    <3>2. CASE i = n + 1
      <4>1. g[n + 1] = Step[n + 1][f[n]] /\ g[n] = f[n] /\ (n + 1) - 1 = n
        BY <2>2
      <4> QED
        BY <3>2, <4>1
    <3> QED
      BY <3>1, <3>2, <2>2
  <2> HIDE DEF g
  <2>7. IsRecursion(g, n + 1, V, a, Step)
    BY <2>4, <2>5, <2>6 DEF IsRecursion
  <2> QED
    BY <2>2, <2>7
<1>3. 0 .. N \subseteq S
  <2> HIDE DEF S
  <2> QED
    BY <1>1, <1>2, BoundedInduction
<1> QED
  BY <1>3
=============================================================================
