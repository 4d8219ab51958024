----------------------------- MODULE Induction -----------------------------
(***************************************************************************)
(* Induction and recursion over the natural numbers, stated with sets and  *)
(* functions instead of predicates and operators, so that a proof can cite *)
(* them for the recursive functions of the models.                         *)
(***************************************************************************)
EXTENDS Naturals, WellFoundedInduction, TLAPS

\* A set that holds 0 and with every number the next one holds all numbers.
LEMMA SetInduction ==
  ASSUME NEW S, 0 \in S, \A n \in Nat : n \in S => n + 1 \in S
  PROVE  Nat \subseteq S
<1> DEFINE R == OpToRel(<, Nat)
           T == Nat \ S
<1>1. ASSUME T # {} PROVE FALSE
  <2>1. IsWellFoundedOn(R, Nat) /\ T \subseteq Nat
    BY NatLessThanWellFounded
  <2>2. PICK x \in T : \A y \in T : <<y, x>> \notin R
    <3> HIDE DEF R, T
    <3> QED
      BY <1>1, <2>1, WFMin
  <2>3. x \in Nat /\ x # 0
    OBVIOUS
  <2>4. x - 1 \in Nat /\ x - 1 < x /\ (x - 1) + 1 = x
    BY <2>3
  <2>5. <<x - 1, x>> \in R
    BY <2>3, <2>4 DEF OpToRel
  <2>6. x - 1 \in S
    BY <2>2, <2>4, <2>5
  <2> QED
    BY <2>3, <2>4, <2>6
<1> QED
  BY <1>1

\* The same up to a number.
LEMMA IntervalInduction ==
  ASSUME NEW N \in Nat, NEW S, 0 \in S, \A n \in 1 .. N : n - 1 \in S => n \in S
  PROVE  0 .. N \subseteq S
<1> DEFINE T == {n \in Nat : n <= N => n \in S}
<1>1. 0 \in T
  OBVIOUS
<1>2. ASSUME NEW n \in Nat, n \in T PROVE n + 1 \in T
  BY <1>2
<1>3. Nat \subseteq T
  <2> HIDE DEF T
  <2> QED
    BY <1>1, <1>2, SetInduction
<1> QED
  BY <1>3

\* f begins with a and takes the step G[n] from n - 1 to n.
Iterates(f, N, a, G) == f[0] = a /\ \A n \in 1 .. N : f[n] = G[n][f[n - 1]]

\* A function that is given at 0, and at every other number by its value at
\* the one before, exists.
LEMMA RecursionExists ==
  ASSUME NEW V, NEW N \in Nat, NEW a \in V, NEW G \in [1 .. N -> [V -> V]]
  PROVE  \E g \in [0 .. N -> V] : Iterates(g, N, a, G)
<1> DEFINE Good(m) == \E g \in [0 .. m -> V] : Iterates(g, m, a, G)
           S == {m \in 0 .. N : Good(m)}
<1>1. 0 \in S
  <2>1. [n \in 0 .. 0 |-> a] \in [0 .. 0 -> V] /\ [n \in 0 .. 0 |-> a][0] = a /\ 1 .. 0 = {}
    OBVIOUS
  <2>2. Good(0)
    BY <2>1 DEF Iterates
  <2> QED
    BY <2>2
<1>2. ASSUME NEW m \in 1 .. N, m - 1 \in S PROVE m \in S
  <2>1. PICK g \in [0 .. m - 1 -> V] :
          g[0] = a /\ \A n \in 1 .. m - 1 : g[n] = G[n][g[n - 1]]
    BY <1>2 DEF Iterates
  <2> DEFINE h == [n \in 0 .. m |-> IF n = m THEN G[m][g[m - 1]] ELSE g[n]]
  <2>2. m \in Nat /\ m - 1 \in Nat /\ m - 1 \in 0 .. m - 1
    BY <1>2
  <2>3. G[m][g[m - 1]] \in V
    BY <1>2, <2>1, <2>2
  <2>4. h \in [0 .. m -> V]
    BY <2>1, <2>2, <2>3
  <2>5. h[0] = a
    BY <1>2, <2>1, <2>2
  <2>6. ASSUME NEW n \in 1 .. m PROVE h[n] = G[n][h[n - 1]]
    BY <2>1, <2>2, <2>6
  <2>7. Good(m)
    <3> HIDE DEF h
    <3> QED
      BY <2>4, <2>5, <2>6 DEF Iterates
  <2>8. m \in 0 .. N
    BY <1>2
  <2> HIDE DEF Good
  <2> QED
    BY <2>7, <2>8
<1>3. 0 .. N \subseteq S
  <2> HIDE DEF S
  <2> QED
    BY <1>1, <1>2, IntervalInduction
<1> QED
  BY <1>3
=============================================================================
