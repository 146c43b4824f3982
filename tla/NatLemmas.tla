----------------------------- MODULE NatLemmas -----------------------------
(***************************************************************************)
(* Facts about natural numbers that the proofs about the components share. *)
(* They stand in for induction: a claim about every number holds if there  *)
(* is no least number that it fails for.                                   *)
(***************************************************************************)
EXTENDS Integers, WellFoundedInduction, TLAPS

\* A set of natural numbers that is not empty has a least element.
LEMMA LeastNat ==
  ASSUME NEW S, S \subseteq Nat, S # {}
  PROVE  \E m \in S : \A k \in S : m <= k
<1>. DEFINE R == OpToRel(<, Nat)
<1>1. IsWellFoundedOn(R, Nat)
  BY NatLessThanWellFounded
<1>2. \A x, y \in Nat : x < y => <<x, y>> \in R
  BY DEF OpToRel
<1>. HIDE DEF R
<1>3. PICK m \in S : \A k \in S : <<k, m>> \notin R
  BY <1>1, WFMin
<1>4. \A k \in S : ~(k < m)
  BY <1>2, <1>3
<1>. QED
  BY <1>3, <1>4

\* If it has an upper bound it has a greatest element.
LEMMA GreatestNat ==
  ASSUME NEW S, S \subseteq Nat, S # {},
         NEW n \in Nat, \A k \in S : k <= n
  PROVE  \E m \in S : \A k \in S : k <= m
<1>. DEFINE Bounds == {b \in Nat : \A k \in S : k <= b}
<1>1. Bounds \subseteq Nat /\ n \in Bounds
  OBVIOUS
<1>2. PICK b \in Bounds : \A c \in Bounds : b <= c
  <2>. HIDE DEF Bounds
  <2>. QED
    BY <1>1, LeastNat
<1>3. b \in Nat /\ \A k \in S : k <= b
  OBVIOUS
<1>4. SUFFICES ASSUME b \notin S PROVE FALSE
  BY <1>3
<1>5. \A k \in S : k \in Nat /\ k <= b - 1
  BY <1>3, <1>4
<1>6. PICK k \in S : TRUE
  OBVIOUS
<1>7. b - 1 \in Nat
  <2>. HIDE DEF Bounds
  <2>1. k \in Nat /\ k <= b - 1
    BY <1>5
  <2>. QED
    BY <1>3, <2>1
<1>8. b - 1 \in Bounds
  BY <1>5, <1>7
<1>. HIDE DEF Bounds
<1>9. b <= b - 1
  BY <1>2, <1>8
<1>. QED
  BY <1>3, <1>9

\* Finitely many natural numbers have an upper bound.
LEMMA BoundedRange ==
  ASSUME NEW n \in Nat, NEW f \in [0 .. n - 1 -> Nat]
  PROVE  \E b \in Nat : \A i \in 0 .. n - 1 : f[i] <= b
<1>. DEFINE BoundOf(b, k) == \A i \in 0 .. k - 1 : f[i] <= b
            Wrong == {k \in 0 .. n : \A b \in Nat : ~BoundOf(b, k)}
<1>1. SUFFICES ASSUME Wrong # {} PROVE FALSE
  <2>1. n \in 0 .. n
    OBVIOUS
  <2>. QED
    BY <1>1, <2>1
<1>2. PICK k \in Wrong : \A j \in Wrong : k <= j
  <2>1. Wrong \subseteq Nat
    OBVIOUS
  <2>. HIDE DEF Wrong
  <2>. QED
    BY <1>1, <2>1, LeastNat
<1>3. BoundOf(0, 0)
  OBVIOUS
<1>4. k # 0
  BY <1>2, <1>3
<1>5. k \in 1 .. n /\ k - 1 \in 0 .. n
  BY <1>2, <1>4
<1>6. k - 1 \notin Wrong
  <2>. HIDE DEF Wrong
  <2>. QED
    BY <1>2, <1>5
<1>7. PICK b \in Nat : BoundOf(b, k - 1)
  BY <1>5, <1>6
<1>8. f[k - 1] \in Nat
  BY <1>5
<1>9. PICK c \in Nat : b <= c /\ f[k - 1] <= c
  <2>1. b <= b + f[k - 1] /\ f[k - 1] <= b + f[k - 1] /\ b + f[k - 1] \in Nat
    BY <1>8
  <2>. QED
    BY <2>1
<1>10. \A i \in 0 .. k - 1 : f[i] <= c
  <2>. SUFFICES ASSUME NEW i \in 0 .. k - 1 PROVE f[i] <= c
    OBVIOUS
  <2>1. CASE i = k - 1
    BY <1>9, <2>1
  <2>2. CASE i # k - 1
    <3>1. i \in 0 .. (k - 1) - 1 /\ i \in 0 .. n - 1
      BY <1>5, <2>2
    <3>2. f[i] <= b /\ f[i] \in Nat
      BY <1>7, <3>1
    <3>. QED
      BY <1>9, <3>2
  <2>. QED
    BY <2>1, <2>2
<1>. QED
  BY <1>2, <1>10

-----------------------------------------------------------------------------
\* f computes base in Base, and by step from its value at pre[n] elsewhere.
IsRecursion(f, Base, base, step, pre) ==
  \A n \in Nat : f[n] = IF n \in Base THEN base ELSE step[f[pre[n]]]

\* A recursive function is the one that its equation chooses: here is that there
\* is one, if pre leads to smaller numbers.
LEMMA RecursionExists ==
  ASSUME NEW D, NEW Base \in SUBSET Nat, NEW base \in D, NEW step \in [D -> D],
         NEW pre \in [Nat -> Nat],
         \A n \in Nat \ Base : pre[n] < n
  PROVE  \E f \in [Nat -> D] : IsRecursion(f, Base, base, step, pre)
<1>. DEFINE Solves(g, m) == g[m] = IF m \in Base THEN base ELSE step[g[pre[m]]]
            Upto(n) == {g \in [0 .. n -> D] : \A m \in 0 .. n : Solves(g, m)}
\* Two solutions agree as far as both go.
<1>1. ASSUME NEW n \in Nat, NEW k \in Nat, NEW g \in Upto(n), NEW h \in Upto(k),
             NEW m \in Nat, m <= n, m <= k
      PROVE  g[m] = h[m]
  <2>. DEFINE Differ == {i \in Nat : i <= n /\ i <= k /\ g[i] # h[i]}
  <2>1. SUFFICES ASSUME Differ # {} PROVE FALSE
    BY <1>1
  <2>2. Differ \subseteq Nat
    OBVIOUS
  <2>3. PICK i \in Differ : \A j \in Differ : i <= j
    <3>. HIDE DEF Differ
    <3>. QED
      BY <2>1, <2>2, LeastNat
  <2>4. i \in Nat /\ i \in 0 .. n /\ i \in 0 .. k /\ g[i] # h[i]
    OBVIOUS
  <2>5. Solves(g, i) /\ Solves(h, i)
    BY <2>4
  <2>6. i \notin Base /\ g[pre[i]] # h[pre[i]]
    BY <2>4, <2>5
  <2>7. pre[i] \in Nat /\ pre[i] < i
    BY <2>4, <2>6
  <2>8. pre[i] \in Differ
    BY <2>4, <2>6, <2>7
  <2>. HIDE DEF Differ
  <2>. QED
    BY <2>3, <2>4, <2>7, <2>8
\* There is a solution as far as any number.
<1>2. ASSUME NEW n \in Nat
      PROVE  Upto(n) # {}
  <2>. DEFINE Wrong == {k \in Nat : Upto(k) = {}}
  <2>1. SUFFICES ASSUME Wrong # {} PROVE FALSE
    OBVIOUS
  <2>2. PICK k \in Wrong : \A j \in Wrong : k <= j
    <3>1. Wrong \subseteq Nat
      OBVIOUS
    <3>. HIDE DEF Wrong
    <3>. QED
      BY <2>1, <3>1, LeastNat
  <2>3. k \in Nat /\ Upto(k) = {}
    OBVIOUS
  <2>4. \E g \in [0 .. k - 1 -> D] : \A m \in 0 .. k - 1 : Solves(g, m)
    <3>1. CASE k = 0
      <4>1. [i \in 0 .. k - 1 |-> base] \in [0 .. k - 1 -> D]
        OBVIOUS
      <4>2. 0 .. k - 1 = {}
        BY <3>1
      <4>. QED
        BY <4>1, <4>2
    <3>2. CASE k # 0
      <4>1. k - 1 \in Nat
        BY <2>3, <3>2
      <4>2. k - 1 \notin Wrong
        <5>. HIDE DEF Wrong
        <5>. QED
          BY <2>2, <2>3, <4>1
      <4>. QED
        BY <4>1, <4>2
    <3>. QED
      BY <3>1, <3>2
  <2>5. PICK g \in [0 .. k - 1 -> D] : \A m \in 0 .. k - 1 : Solves(g, m)
    BY <2>4
  <2>. DEFINE last == IF k \in Base THEN base ELSE step[g[pre[k]]]
              h    == [m \in 0 .. k |-> IF m = k THEN last ELSE g[m]]
  <2>6. \A m \in 0 .. k : m \notin Base => pre[m] \in 0 .. m - 1
    BY <2>3
  <2>7. last \in D
    BY <2>3, <2>6
  <2>8. h \in [0 .. k -> D]
    <3>. HIDE DEF last
    <3>. QED
      BY <2>3, <2>7
  <2>9. ASSUME NEW m \in 0 .. k
        PROVE  Solves(h, m)
    <3>1. m \notin Base => pre[m] \in 0 .. k - 1 /\ pre[m] # k
      <4>1. m \in Nat /\ m <= k
        BY <2>3
      <4>2. m \notin Base => pre[m] \in Nat /\ pre[m] < m
        BY <4>1
      <4>. HIDE DEF Wrong
      <4>. QED
        BY <2>3, <4>1, <4>2
    <3>2. m \notin Base => h[pre[m]] = g[pre[m]]
      BY <2>3, <3>1
    <3>3. CASE m = k
      BY <2>3, <3>2, <3>3
    <3>4. CASE m # k
      <4>1. m \in 0 .. k - 1 /\ h[m] = g[m]
        BY <2>3, <3>4
      <4>2. Solves(g, m)
        BY <2>5, <4>1
      <4>. QED
        BY <3>2, <4>1, <4>2
    <3>. QED
      BY <3>3, <3>4
  <2>10. h \in Upto(k)
    BY <2>8, <2>9
  <2>. QED
    BY <2>3, <2>10
<1>. DEFINE G(n) == CHOOSE g \in Upto(n) : TRUE
            f    == [n \in Nat |-> G(n)[n]]
<1>3. \A n \in Nat : G(n) \in Upto(n)
  BY <1>2
<1>. HIDE DEF G
<1>4. \A n \in Nat : G(n) \in [0 .. n -> D] /\ \A m \in 0 .. n : Solves(G(n), m)
  BY <1>3
<1>5. f \in [Nat -> D]
  BY <1>4
<1>6. ASSUME NEW n \in Nat
      PROVE  f[n] = IF n \in Base THEN base ELSE step[f[pre[n]]]
  <2>1. f[n] = IF n \in Base THEN base ELSE step[G(n)[pre[n]]]
    BY <1>4
  <2>2. ASSUME n \notin Base
        PROVE  G(n)[pre[n]] = f[pre[n]]
    <3>1. pre[n] \in Nat /\ pre[n] < n
      BY <2>2
    <3>2. G(n)[pre[n]] = G(pre[n])[pre[n]]
      <4>. HIDE DEF Upto
      <4>. QED
        BY <1>1, <1>3, <3>1
    <3>. QED
      BY <3>1, <3>2
  <2>. QED
    BY <2>1, <2>2
<1>7. IsRecursion(f, Base, base, step, pre)
  BY <1>6 DEF IsRecursion
<1>. HIDE DEF f
<1>. QED
  BY <1>5, <1>7
=============================================================================
