------------------------------ MODULE Induction ------------------------------
(***************************************************************************)
(* Induction, for the proofs about data: what a loop has computed after    *)
(* any number of rounds.  The library's induction theorems have an         *)
(* operator for a parameter, which the provers cannot instantiate; here    *)
(* the numbers of which something holds are a set, and a step of a         *)
(* recursive definition is a function.                                     *)
(***************************************************************************)
EXTENDS Naturals, WellFoundedInduction, TLAPS

Earlier == {p \in Nat \X Nat : p[1] < p[2]}

(* A set of numbers that is not empty has a least one.                       *)
LEMMA HasLeast ==
  ASSUME NEW T, T \subseteq Nat, T # {}
  PROVE  \E x \in T : \A y \in T : x <= y
<1>1. IsWellFoundedOn(Earlier, Nat)
  BY NatLessThanWellFounded DEF OpToRel, Earlier
<1>2. PICK x \in T : \A y \in T : <<y, x>> \notin Earlier
  BY <1>1, WFMin
<1>3. ASSUME NEW y \in T PROVE x <= y
  <2>1. x \in Nat /\ y \in Nat
    OBVIOUS
  <2>2. ~(y < x)
    BY <1>2, <2>1 DEF Earlier
  <2> QED  BY <2>1, <2>2
<1> QED  BY <1>3

(* What holds of 0, and of each number up to n if it does of the one before, *)
(* holds of all of them.                                                     *)
LEMMA UpTo ==
  ASSUME NEW n \in Nat, NEW S, 0 \in S, \A i \in 1..n : i - 1 \in S => i \in S
  PROVE  0..n \subseteq S
<1> DEFINE T == (0..n) \ S
<1>1. SUFFICES ASSUME T # {} PROVE FALSE
  OBVIOUS
<1>2. PICK x \in T : \A y \in T : x <= y
  <2> HIDE DEF T
  <2>1. T \subseteq Nat
    BY DEF T
  <2> QED  BY <1>1, <2>1, HasLeast
<1>3. x \in 1..n /\ x - 1 \in 0..n
  BY <1>2
<1>4. x - 1 \in S
  BY <1>2, <1>3
<1> QED  BY <1>2, <1>3, <1>4

(* What a step makes of the round and of the value before it, and what n     *)
(* rounds compute from v0.                                                   *)
Steps(n, V) == [(1..n) \X V -> V]

Computes(f, n, V, v0, step) ==
  /\ f \in [0..n -> V] /\ f[0] = v0
  /\ \A i \in 1..n : f[i] = step[<<i, f[i - 1]>>]

(* A recursive definition of the values from 0 to n has a solution.          *)
LEMMA Recursion ==
  ASSUME NEW n \in Nat, NEW V, NEW v0 \in V, NEW step \in Steps(n, V)
  PROVE  \E f : Computes(f, n, V, v0, step)
<1> USE DEF Steps
<1> DEFINE Solves(g, k) == g[0] = v0 /\ \A i \in 1..k : g[i] = step[<<i, g[i - 1]>>]
           S == {k \in 0..n : \E g \in [0..k -> V] : Solves(g, k)}
<1>1. 0 \in S
  <2> DEFINE h == [i \in 0..0 |-> v0]
  <2>1. h \in [0..0 -> V] /\ h[0] = v0
    OBVIOUS
  <2> HIDE DEF h
  <2>2. Solves(h, 0) /\ 0 \in 0..n
    BY <2>1
  <2> QED  BY <2>1, <2>2
<1>2. ASSUME NEW k \in 1..n, k - 1 \in S PROVE k \in S
  <2>1. PICK g \in [0..(k - 1) -> V] : Solves(g, k - 1)
    BY <1>2
  <2> DEFINE h == [i \in 0..k |-> IF i = k THEN step[<<k, g[k - 1]>>] ELSE g[i]]
  <2>2. k - 1 \in 0..(k - 1) /\ <<k, g[k - 1]>> \in (1..n) \X V
    OBVIOUS
  <2>3. step[<<k, g[k - 1]>>] \in V
    BY <2>2
  <2>4. h \in [0..k -> V]
    BY <2>3
  <2>5. h[k] = step[<<k, g[k - 1]>>] /\ \A i \in 0..(k - 1) : h[i] = g[i]
    OBVIOUS
  <2> HIDE DEF h
  <2>6. ASSUME NEW i \in 1..k PROVE h[i] = step[<<i, h[i - 1]>>]
    <3>1. h[i - 1] = g[i - 1]
      BY <2>5
    <3>2. CASE i = k
      BY <3>1, <3>2, <2>5
    <3>3. CASE i # k
      BY <3>1, <3>3, <2>1, <2>5
    <3> QED  BY <3>2, <3>3
  <2>7. h[0] = v0
    BY <2>1, <2>5
  <2> QED  BY <2>4, <2>6, <2>7
<1>3. 0..n \subseteq S
  BY <1>1, <1>2, UpTo
<1> QED  BY <1>3 DEF Computes

(* What every step keeps, all the values have.                               *)
LEMMA Values ==
  ASSUME NEW n \in Nat, NEW V, NEW f, f[0] \in V,
         \A i \in 1..n : f[i - 1] \in V => f[i] \in V
  PROVE  \A i \in 0..n : f[i] \in V
<1> DEFINE S == {i \in 0..n : f[i] \in V}
<1>1. 0 \in S
  OBVIOUS
<1>2. \A i \in 1..n : i - 1 \in S => i \in S
  OBVIOUS
<1> HIDE DEF S
<1>3. 0..n \subseteq S
  BY <1>1, <1>2, UpTo
<1> QED  BY <1>3 DEF S

=============================================================================
