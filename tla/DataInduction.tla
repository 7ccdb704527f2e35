--------------------------- MODULE DataInduction ---------------------------
(***************************************************************************)
(* Induction over the natural numbers, stated about sets instead of        *)
(* predicates: the set of the numbers for which something holds is a       *)
(* first-order object, so that the provers can use it. The proofs of what  *)
(* recursive functions compute rest on it.                                 *)
(***************************************************************************)
EXTENDS Naturals, WellFoundedInduction, TLAPS

\* Every set of natural numbers that is not empty has a least element.
LEMMA LeastElement ==
    ASSUME NEW S, S \subseteq Nat, S # {}
    PROVE  \E m \in S : \A k \in S : m <= k
<1>1. IsWellFoundedOn(OpToRel(<, Nat), Nat)
  BY NatLessThanWellFounded
<1>2. PICK m \in S : \A k \in S : ~(<<k, m>> \in OpToRel(<, Nat))
  BY <1>1, WFMin
<1>3. \A k \in S : ~(k < m)
  BY <1>2 DEF OpToRel
<1> QED
  BY <1>3

\* A set that has 0, and with every number the next one, has them all.
LEMMA SetInduction ==
    ASSUME NEW S, 0 \in S, \A n \in Nat : n \in S => n + 1 \in S
    PROVE  \A n \in Nat : n \in S
<1> DEFINE T == {n \in Nat : n \notin S}
<1> SUFFICES ASSUME T # {} PROVE FALSE
  OBVIOUS
<1>1. PICK m \in T : \A k \in T : m <= k
  <2>1. T \subseteq Nat
    OBVIOUS
  <2> HIDE DEF T
  <2> QED
    BY <2>1, LeastElement
<1>2. m # 0 /\ m \in Nat
  OBVIOUS
<1>3. m - 1 \in Nat /\ m - 1 \in S
  BY <1>1, <1>2
<1> QED
  BY <1>2, <1>3

\* Every set of natural numbers that is bounded and not empty has a greatest
\* element.
LEMMA GreatestElement ==
    ASSUME NEW S, NEW b \in Nat, S \subseteq 0..b, S # {}
    PROVE  \E m \in S : \A k \in S : k <= m
<1> DEFINE T == {n \in Nat : \A k \in S : k <= n}
<1>1. T \subseteq Nat /\ b \in T
  OBVIOUS
<1>2. PICK m \in T : \A k \in T : m <= k
  <2> HIDE DEF T
  <2> QED
    BY <1>1, LeastElement
<1>3. m \in Nat /\ \A k \in S : k <= m
  OBVIOUS
<1>4. m \in S
  <2> SUFFICES ASSUME m \notin S PROVE FALSE
    OBVIOUS
  <2>1. \A k \in S : k <= m - 1
    BY <1>3
  <2>2. m # 0
    <3>1. PICK k \in S : TRUE
      OBVIOUS
    <3>2. k \in Nat /\ k <= m /\ k # m
      BY <1>3
    <3> QED
      BY <3>2
  <2>3. m - 1 \in T
    BY <1>3, <2>1, <2>2
  <2> QED
    BY <1>2, <1>3, <2>3
<1> QED
  BY <1>3, <1>4

\* A set that has every element of D below which it has all, has all of D.
LEMMA StrongInduction ==
    ASSUME NEW D, D \subseteq Nat, NEW Q,
           \A n \in D : (\A m \in D : m < n => m \in Q) => n \in Q
    PROVE  \A n \in D : n \in Q
<1> DEFINE T == {n \in D : n \notin Q}
<1> SUFFICES ASSUME T # {} PROVE FALSE
  OBVIOUS
<1>1. PICK m \in T : \A k \in T : m <= k
  <2>1. T \subseteq Nat
    OBVIOUS
  <2> HIDE DEF T
  <2> QED
    BY <2>1, LeastElement
<1>2. \A k \in D : k < m => k \in Q
  <2> SUFFICES ASSUME NEW k \in D, k < m, k \notin Q PROVE FALSE
    OBVIOUS
  <2>1. k \in T /\ k \in Nat /\ m \in Nat
    OBVIOUS
  <2> HIDE DEF T
  <2> QED
    BY <1>1, <2>1
<1> QED
  BY <1>2

\* f is defined by recursion on h up to k: at z where it ends, by g elsewhere.
RecursiveTo(f, D, B, z, h, g, k) ==
    \A n \in D :
        n <= k => f[n] = IF n \in B THEN z ELSE g[<<n, f[h[n]]>>]

\* A definition by recursion: z on B, and g of the value at h elsewhere, where
\* h descends.
WellDefined(D, S, B, z, h, g) ==
    /\ D \subseteq Nat /\ z \in S
    /\ h \in [D -> D] /\ \A n \in D : n \in B \/ h[n] < n
    /\ g \in [D \X S -> S]

Solves(f, D, B, z, h, g) ==
    \A n \in D : f[n] = IF n \in B THEN z ELSE g[<<n, f[h[n]]>>]

\* Such a definition has a solution. The recursive functions of the models are
\* instances of it.
LEMMA Recursion ==
    ASSUME NEW D, NEW S, NEW B, NEW z, NEW h, NEW g,
           WellDefined(D, S, B, z, h, g)
    PROVE  \E f \in [D -> S] : Solves(f, D, B, z, h, g)
<1>0. /\ D \subseteq Nat /\ z \in S
      /\ h \in [D -> D] /\ \A n \in D : n \in B \/ h[n] < n
      /\ g \in [D \X S -> S]
    BY DEF WellDefined
<1> USE <1>0
<1> DEFINE Upto(f, k) == RecursiveTo(f, D, B, z, h, g, k)
<1>1. ASSUME NEW k \in Nat, NEW e \in [D -> S], NEW f \in [D -> S],
             Upto(e, k), Upto(f, k)
      PROVE  \A n \in D : n <= k => e[n] = f[n]
  <2> DEFINE Q == {n \in D : n <= k => e[n] = f[n]}
  <2>1. ASSUME NEW n \in D, \A m \in D : m < n => m \in Q
        PROVE  n \in Q
    <3> SUFFICES ASSUME n <= k PROVE e[n] = f[n]
      OBVIOUS
    <3>1. CASE n \in B
      BY <1>1, <3>1 DEF RecursiveTo
    <3>2. CASE n \notin B
      <4>1. h[n] \in D /\ h[n] < n /\ h[n] \in Nat /\ n \in Nat
        BY <3>2
      <4>2. h[n] <= k /\ h[n] \in Q
        BY <2>1, <4>1
      <4>3. e[h[n]] = f[h[n]]
        BY <4>2
      <4> QED
        BY <1>1, <3>2, <4>3 DEF RecursiveTo
    <3> QED
      BY <3>1, <3>2
  <2>2. \A n \in D : n \in Q
    <3> HIDE DEF Q
    <3> QED
      BY <2>1, StrongInduction
  <2> QED
    BY <2>2
<1>2. \A k \in Nat : \E f \in [D -> S] : Upto(f, k)
  <2> DEFINE T == {k \in Nat : \E f \in [D -> S] : Upto(f, k)}
  <2>1. 0 \in T
    <3> DEFINE f == [n \in D |-> z]
    <3>1. f \in [D -> S]
      OBVIOUS
    <3>2. ASSUME NEW n \in D, n <= 0 PROVE n \in B /\ f[n] = z
      <4>1. n \in Nat /\ h[n] \in D
        OBVIOUS
      <4>2. h[n] \in Nat
        BY <4>1
      <4> QED
        BY <3>2, <4>1, <4>2
    <3>3. Upto(f, 0)
      BY <3>2 DEF RecursiveTo
    <3> HIDE DEF f
    <3> QED
      BY <3>1, <3>3
  <2>2. ASSUME NEW k \in Nat, k \in T PROVE k + 1 \in T
    <3>1. PICK e \in [D -> S] : Upto(e, k)
      BY <2>2
    <3> DEFINE f == [n \in D |-> IF n <= k THEN e[n]
                                 ELSE IF n \in B THEN z
                                 ELSE g[<<n, e[h[n]]>>]]
    <3>2. f \in [D -> S]
      OBVIOUS
    <3>3. ASSUME NEW n \in D, n <= k + 1
          PROVE  f[n] = IF n \in B THEN z ELSE g[<<n, f[h[n]]>>]
      <4>1. CASE n \in B
        BY <3>1, <4>1 DEF RecursiveTo
      <4>2. CASE n \notin B
        <5>1. h[n] \in D /\ h[n] < n /\ h[n] \in Nat /\ n \in Nat
          BY <4>2
        <5>2. h[n] <= k
          BY <3>3, <5>1
        <5>3. f[h[n]] = e[h[n]]
          BY <5>1, <5>2
        <5>4. f[n] = g[<<n, e[h[n]]>>]
          BY <3>1, <4>2 DEF RecursiveTo
        <5> HIDE DEF f
        <5> QED
          BY <4>2, <5>3, <5>4
      <4> QED
        BY <4>1, <4>2
    <3>4. Upto(f, k + 1)
      <4> HIDE DEF f
      <4> QED
        BY <3>3 DEF RecursiveTo
    <3> HIDE DEF f
    <3> QED
      BY <3>2, <3>4
  <2>3. \A k \in Nat : k \in T
    <3> HIDE DEF T
    <3> QED
      BY <2>1, <2>2, SetInduction
  <2> QED
    BY <2>3
<1> DEFINE F(k) == CHOOSE f \in [D -> S] : Upto(f, k)
<1>3. ASSUME NEW k \in Nat PROVE F(k) \in [D -> S] /\ Upto(F(k), k)
  <2> HIDE DEF Upto
  <2> QED
    BY <1>2
<1> DEFINE all == [n \in D |-> F(n)[n]]
<1>4. all \in [D -> S]
  <2> HIDE DEF F
  <2> QED
    BY <1>3
<1>5. ASSUME NEW n \in D
      PROVE  all[n] = IF n \in B THEN z ELSE g[<<n, all[h[n]]>>]
  <2> n \in Nat
    OBVIOUS
  <2>1. F(n) \in [D -> S] /\ Upto(F(n), n) /\ all[n] = F(n)[n]
    <3> HIDE DEF F, Upto
    <3> QED
      BY <1>3
  <2>2. F(n)[n] = IF n \in B THEN z ELSE g[<<n, F(n)[h[n]]>>]
    <3> HIDE DEF F
    <3> QED
      BY <2>1 DEF RecursiveTo
  <2>3. CASE n \in B
    <3> HIDE DEF F, all
    <3> QED
      BY <2>1, <2>2, <2>3
  <2>4. CASE n \notin B
    <3>1. h[n] \in D /\ h[n] < n /\ h[n] \in Nat
      BY <2>4
    <3>2. /\ F(h[n]) \in [D -> S] /\ Upto(F(h[n]), h[n])
          /\ all[h[n]] = F(h[n])[h[n]]
      <4> HIDE DEF F, Upto
      <4> QED
        BY <1>3, <3>1
    <3>3. Upto(F(n), h[n])
      <4> HIDE DEF F
      <4> QED
        BY <2>1, <3>1 DEF RecursiveTo
    <3>4. F(n)[h[n]] = F(h[n])[h[n]]
      <4> HIDE DEF F, Upto, all
      <4> QED
        BY <1>1, <2>1, <3>1, <3>2, <3>3
    <3> HIDE DEF F, all
    <3> QED
      BY <2>1, <2>2, <2>4, <3>2, <3>4
  <2> QED
    BY <2>3, <2>4
<1> HIDE DEF all
<1> QED
  BY <1>4, <1>5 DEF Solves
============================================================================
