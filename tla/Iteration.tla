----------------------------- MODULE Iteration -----------------------------
(***************************************************************************)
(* Induction over the naturals in a form that needs no operator parameter, *)
(* and what it gives for the iteration of a function.                      *)
(***************************************************************************)
EXTENDS Integers, WellFoundedInduction, TLAPS

\* A set of naturals that has an element has a least one.
LEMMA LeastNatural ==
  ASSUME NEW T, T \subseteq Nat, T # {}
  PROVE  \E x \in T : \A y \in T : x <= y
  <1> DEFINE R == OpToRel(<, Nat)
  <1>1. \A x, y \in Nat : y < x => <<y, x>> \in R
    BY DEF OpToRel
  <1> HIDE DEF R
  <1>2. PICK x \in T : \A y \in T : ~ (<<y, x>> \in R)
    BY NatLessThanWellFounded, WFMin DEF R
  <1>3. x \in Nat /\ \A y \in T : y \in Nat /\ ~ (y < x)
    BY <1>1, <1>2
  <1>4. \A y \in T : x <= y
    BY <1>3
  <1> QED BY <1>4

\* Induction: a set that has 0 and with each number the next one has them all.
LEMMA Induction ==
  ASSUME NEW S, 0 \in S, \A k \in Nat : k \in S => k + 1 \in S
  PROVE  Nat \subseteq S
  <1> DEFINE T == {k \in Nat : k \notin S}
  <1> SUFFICES ASSUME T # {} PROVE FALSE
    OBVIOUS
  <1>1. PICK x \in T : \A y \in T : x <= y
    BY LeastNatural
  <1>2. x \in Nat /\ x # 0
    OBVIOUS
  <1>3. x - 1 \in Nat /\ x - 1 \notin T
    BY <1>1, <1>2
  <1>4. (x - 1) + 1 = x
    BY <1>2
  <1> QED BY <1>3, <1>4

\* The same up to a bound.
LEMMA BoundedInduction ==
  ASSUME NEW n \in Nat, NEW S, 0 \in S,
         \A k \in 0 .. n - 1 : k \in S => k + 1 \in S
  PROVE  0 .. n \subseteq S
  <1> DEFINE U == S \cup {k \in Nat : k > n}
  <1>1. 0 \in U
    OBVIOUS
  <1>2. ASSUME NEW k \in Nat, k \in U PROVE k + 1 \in U
    <2>1. CASE k < n
      BY <2>1, <1>2
    <2>2. CASE k >= n
      BY <2>2
    <2> QED BY <2>1, <2>2
  <1> HIDE DEF U
  <1>3. Nat \subseteq U
    BY <1>1, <1>2, Induction
  <1> QED BY <1>3 DEF U

-----------------------------------------------------------------------------
(* Iterating the functions f[1], f[2], ... from a: the recursive function  *)
(* g[k] = IF k = 0 THEN a ELSE f[k][g[k - 1]].                             *)

\* The first n values.
Prefix(h, n, a, f) ==
  h[0] = a /\ \A k \in 1 .. n : h[k] = f[k][h[k - 1]]

LEMMA PrefixExists ==
  ASSUME NEW W, NEW a \in W, NEW f \in [Nat -> [W -> W]], NEW n \in Nat
  PROVE  \E h \in [0 .. n -> W] : Prefix(h, n, a, f)
  <1> DEFINE S == {m \in Nat : \E h \in [0 .. m -> W] : Prefix(h, m, a, f)}
  <1>1. 0 \in S
    <2> DEFINE h == [k \in 0 .. 0 |-> a]
    <2>1. h \in [0 .. 0 -> W] /\ Prefix(h, 0, a, f)
      BY DEF Prefix
    <2> QED BY <2>1
  <1>2. ASSUME NEW m \in Nat, m \in S PROVE m + 1 \in S
    <2>1. PICK h \in [0 .. m -> W] : Prefix(h, m, a, f)
      BY <1>2
    <2> DEFINE g == [k \in 0 .. m + 1 |-> IF k <= m THEN h[k] ELSE f[m + 1][h[m]]]
    <2>2. g \in [0 .. m + 1 -> W]
      OBVIOUS
    <2>3. g[0] = a
      BY <2>1 DEF Prefix
    <2>4. ASSUME NEW k \in 1 .. m + 1 PROVE g[k] = f[k][g[k - 1]]
      <3>1. g[k - 1] = h[k - 1]
        OBVIOUS
      <3>2. CASE k <= m
        <4>1. g[k] = h[k] /\ k \in 1 .. m
          BY <3>2
        <4> HIDE DEF g
        <4> QED BY <4>1, <3>1, <2>1 DEF Prefix
      <3>3. CASE k = m + 1
        <4>1. g[k] = f[k][h[m]] /\ k - 1 = m
          BY <3>3
        <4> HIDE DEF g
        <4> QED BY <4>1, <3>1
      <3> QED BY <3>2, <3>3
    <2>5. Prefix(g, m + 1, a, f)
      BY <2>3, <2>4 DEF Prefix
    <2> HIDE DEF g
    <2> QED BY <2>2, <2>5
  <1> HIDE DEF S
  <1>3. Nat \subseteq S
    BY <1>1, <1>2, Induction
  <1> QED BY <1>3 DEF S

\* Two sequences of values agree as far as both go.
LEMMA PrefixUnique ==
  ASSUME NEW a, NEW f, NEW m \in Nat, NEW n \in Nat, m <= n,
         NEW g, NEW h, Prefix(g, m, a, f), Prefix(h, n, a, f)
  PROVE  \A k \in 0 .. m : g[k] = h[k]
  <1> DEFINE S == {k \in 0 .. m : g[k] = h[k]}
  <1>1. 0 \in S
    BY DEF Prefix
  <1>2. ASSUME NEW k \in 0 .. m - 1, k \in S PROVE k + 1 \in S
    <2>1. k + 1 \in 1 .. m /\ k + 1 \in 1 .. n /\ (k + 1) - 1 = k
      OBVIOUS
    <2>2. g[k + 1] = f[k + 1][g[k]] /\ h[k + 1] = f[k + 1][h[k]]
      BY <2>1 DEF Prefix
    <2> QED BY <1>2, <2>1, <2>2
  <1> HIDE DEF S
  <1>3. 0 .. m \subseteq S
    BY <1>1, <1>2, BoundedInduction
  <1> QED BY <1>3 DEF S

\* g is the recursive function, with values in W.
Iterates(g, W, a, f) ==
  g \in [Nat -> W] /\ \A k \in Nat : g[k] = IF k = 0 THEN a ELSE f[k][g[k - 1]]

\* It is defined.
LEMMA IterationExists ==
  ASSUME NEW W, NEW a \in W, NEW f \in [Nat -> [W -> W]]
  PROVE  \E g : Iterates(g, W, a, f)
  <1> DEFINE P(n) == CHOOSE h \in [0 .. n -> W] : Prefix(h, n, a, f)
             g == [k \in Nat |-> P(k)[k]]
  <1>1. ASSUME NEW n \in Nat
        PROVE  P(n) \in [0 .. n -> W] /\ Prefix(P(n), n, a, f)
    BY PrefixExists
  <1> HIDE DEF P
  <1>2. g \in [Nat -> W]
    BY <1>1
  <1>3. g[0] = a
    BY <1>1 DEF Prefix
  <1>4. ASSUME NEW k \in Nat, k # 0 PROVE g[k] = f[k][g[k - 1]]
    <2>1. k - 1 \in Nat /\ k - 1 <= k /\ k \in 1 .. k /\ k - 1 \in 0 .. k - 1
      BY <1>4
    <2>2. P(k)[k] = f[k][P(k)[k - 1]]
      BY <1>1, <2>1 DEF Prefix
    <2>3. P(k - 1)[k - 1] = P(k)[k - 1]
      BY <1>1, <2>1, PrefixUnique
    <2> QED BY <2>1, <2>2, <2>3
  <1> HIDE DEF g
  <1>5. Iterates(g, W, a, f)
    BY <1>2, <1>3, <1>4 DEF Iterates
  <1> QED BY <1>5
=============================================================================
