------------------------------ MODULE Induction ------------------------------
(***************************************************************************)
(* Induction over the natural numbers without an operator for the          *)
(* property: over the set of the numbers that have it.  And what it gives: *)
(* a fold, written as a recursive function, has the value of each step.    *)
(***************************************************************************)
EXTENDS Naturals, WellFoundedInduction, TLAPS


\* A set of natural numbers has a least one.
LEMMA LeastNatural ==
    ASSUME NEW T \in SUBSET Nat, T # {}
    PROVE  \E x \in T : \A y \in T : x <= y
<1> DEFINE R == OpToRel(<, Nat)
<1>1. IsWellFoundedOn(R, Nat)
  BY NatLessThanWellFounded
<1>2. \A x, y \in Nat : x < y => <<x, y>> \in R
  BY DEF OpToRel
<1> HIDE DEF R
<1>3. PICK x \in T : \A y \in T : ~ (<<y, x>> \in R)
  BY <1>1, WFMin
<1>4. ASSUME NEW y \in T PROVE x <= y
  <2>1. x \in Nat /\ y \in Nat
    OBVIOUS
  <2>2. ~ (<<y, x>> \in R)
    BY <1>3
  <2>3. ~ (y < x)
    BY <1>2, <2>1, <2>2, Zenon
  <2> QED
    BY <2>1, <2>3
<1> QED
  BY <1>4

\* What holds of 0 and passes on from n to n + 1 holds up to N.
LEMMA UpTo ==
    ASSUME NEW S, 0 \in S, NEW N \in Nat, \A n \in 0..(N - 1) : n \in S => n + 1 \in S
    PROVE  0..N \subseteq S
<1> DEFINE T == {n \in 0..N : n \notin S}
<1> SUFFICES ASSUME T # {} PROVE FALSE
  OBVIOUS
<1>1. T \subseteq Nat
  OBVIOUS
<1> HIDE DEF T
<1>2. PICK x \in T : \A y \in T : x <= y
  BY <1>1, LeastNatural
<1> USE DEF T
<1>3. x # 0 /\ x - 1 \in 0..(N - 1) /\ x - 1 \notin T
  BY <1>2
<1> QED
  BY <1>2, <1>3


\* A recursion that stays within X exists: step[k][x] is what comes after x at k.
RecursionSteps(N, X) == [1..N -> [X -> X]]
Recurs(f, N, X, first, step) ==
    /\ f \in [0..N -> X]
    /\ \A k \in 0..N : f[k] = IF k = 0 THEN first ELSE step[k][f[k - 1]]

LEMMA Recursion ==
    ASSUME NEW N \in Nat, NEW X, NEW first \in X, NEW step \in RecursionSteps(N, X)
    PROVE  \E f : Recurs(f, N, X, first, step)
<1> USE DEF RecursionSteps, Recurs
<1> DEFINE Good(f, n) == /\ f \in [0..n -> X]
                         /\ \A k \in 0..n : f[k] = IF k = 0 THEN first ELSE step[k][f[k - 1]]
           S == {n \in 0..N : \E f : Good(f, n)}
<1>1. 0 \in S
  <2> DEFINE f == [k \in 0..0 |-> first]
  <2>1. Good(f, 0)
    OBVIOUS
  <2> HIDE DEF f
  <2> QED
    BY <2>1
<1>2. ASSUME NEW n \in 0..(N - 1), n \in S PROVE n + 1 \in S
  <2>1. PICK f : Good(f, n)
    BY <1>2
  <2> DEFINE g == [k \in 0..(n + 1) |-> IF k = n + 1 THEN step[n + 1][f[n]] ELSE f[k]]
  <2>2. f[n] \in X /\ n + 1 \in 1..N /\ step[n + 1][f[n]] \in X
    BY <2>1
  <2>3. \A k \in 0..n : g[k] = f[k] /\ f[k] \in X
    BY <2>1
  <2>4. g[n + 1] = step[n + 1][f[n]] /\ DOMAIN g = 0..(n + 1)
    OBVIOUS
  <2>5. g \in [0..(n + 1) -> X]
    <3>1. \A k \in 0..(n + 1) : k = n + 1 \/ k \in 0..n
      OBVIOUS
    <3> QED
      BY <2>2, <2>3, <3>1
  <2> HIDE DEF g
  <2>6. ASSUME NEW k \in 0..(n + 1)
        PROVE  g[k] = IF k = 0 THEN first ELSE step[k][g[k - 1]]
    <3>1. CASE k = n + 1
      <4>1. k # 0 /\ k - 1 = n /\ n \in 0..n
        BY <3>1
      <4>2. g[k - 1] = f[n]
        BY <2>3, <4>1
      <4> QED
        BY <2>4, <3>1, <4>1, <4>2
    <3>2. CASE k # n + 1 /\ k # 0
      <4>1. k \in 0..n /\ k - 1 \in 0..n
        BY <3>2
      <4>2. f[k] = step[k][f[k - 1]]
        BY <2>1, <3>2, <4>1
      <4>3. g[k] = f[k] /\ g[k - 1] = f[k - 1]
        BY <2>3, <4>1
      <4>4. <<k, f[k - 1]>> = <<k, g[k - 1]>> /\ k # 0
        BY <3>2, <4>3
      <4> QED
        BY <4>2, <4>3, <4>4
    <3>3. CASE k = 0
      <4>1. 0 \in 0..n
        OBVIOUS
      <4>2. f[0] = first /\ g[0] = f[0]
        BY <2>1, <2>3, <4>1
      <4> QED
        BY <3>3, <4>2
    <3> QED
      BY <3>1, <3>2, <3>3
  <2>7. Good(g, n + 1)
    BY <2>5, <2>6
  <2> HIDE DEF Good
  <2> QED
    BY <2>7
<1> HIDE DEF S
<1>3. 0..N \subseteq S
  BY <1>1, <1>2, UpTo
<1> QED
  BY <1>3 DEF S
=============================================================================
