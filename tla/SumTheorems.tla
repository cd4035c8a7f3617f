---------------------------- MODULE SumTheorems ----------------------------
(***************************************************************************)
(* Sums over finite sets, as MapThenSumSet computes them for the sizes of  *)
(* a configuration of indexes and for the counters of all labels: the sum  *)
(* is well defined and does not depend on the order of its terms.          *)
(***************************************************************************)
EXTENDS Integers, FiniteSets, FiniteSetTheorems, TLAPS

(* The recursion of MapThenSumSet, for the terms f[x].                     *)
Pick(S) == CHOOSE x \in S : TRUE
IsSum(g, S, f) ==
    g = [s \in SUBSET S |-> IF s = {} THEN 0 ELSE f[Pick(s)] + g[s \ {Pick(s)}]]
Sum(S, f) == (CHOOSE g : IsSum(g, S, f))[S]

(* A set of finite sets has a minimal one.                                 *)
LEMMA MinimalSubset ==
    ASSUME NEW D, IsFiniteSet(D), NEW B, B \subseteq SUBSET D, B # {}
    PROVE  \E S \in B : \A T \in B : T \subseteq S => T = S
<1>1. IsWellFoundedOn(StrictSubsetOrdering(D), SUBSET D)
  BY FS_StrictSubsetOrderingWellFounded, FS_FiniteSubsetsOfFinite
<1>2. \E S \in B : \A T \in B : ~ (<<T, S>> \in StrictSubsetOrdering(D))
  BY ONLY <1>1, WFMin, B \subseteq SUBSET D, B # {}, SMT
<1>3. \A S, T \in B : T \subseteq S /\ T # S => <<T, S>> \in StrictSubsetOrdering(D)
  BY DEF StrictSubsetOrdering
<1> QED
  BY <1>2, <1>3

(* Induction over the subsets of a finite set: G has every subset whose    *)
(* proper subsets it has.                                                  *)
LEMMA SubsetInduction ==
    ASSUME NEW D, IsFiniteSet(D), NEW G,
           \A S \in SUBSET D : (\A T \in SUBSET S : T # S => T \in G) => S \in G
    PROVE  \A S \in SUBSET D : S \in G
<1>1. SUFFICES ASSUME (SUBSET D) \ G # {} PROVE FALSE
  OBVIOUS
<1>2. PICK S \in (SUBSET D) \ G : \A T \in (SUBSET D) \ G : T \subseteq S => T = S
  <2>1. PICK B : B = (SUBSET D) \ G
    OBVIOUS
  <2>2. B \subseteq SUBSET D /\ B # {}
    BY <1>1, <2>1
  <2>3. \E S \in B : \A T \in B : T \subseteq S => T = S
    BY <2>2, MinimalSubset
  <2> QED
    BY <2>1, <2>3
<1>3. \A T \in SUBSET S : T # S => T \in G
  BY <1>2
<1> QED
  BY <1>2, <1>3

LEMMA PickIn == ASSUME NEW S, S # {} PROVE Pick(S) \in S
BY DEF Pick

LEMMA SumAt ==
    ASSUME NEW S, NEW f, NEW g, IsSum(g, S, f), NEW s \in SUBSET S
    PROVE  g[s] = IF s = {} THEN 0 ELSE f[Pick(s)] + g[s \ {Pick(s)}]
<1>1. g = [r \in SUBSET S |-> IF r = {} THEN 0 ELSE f[Pick(r)] + g[r \ {Pick(r)}]]
  BY DEF IsSum
<1> QED
  BY <1>1

(* Sums of the same terms agree on the subsets that they share.            *)
LEMMA SumsAgree ==
    ASSUME NEW S, NEW T, IsFiniteSet(T), NEW f, NEW g, NEW h,
           IsSum(g, S, f), IsSum(h, T, f), T \subseteq S
    PROVE  \A s \in SUBSET T : g[s] = h[s]
<1> DEFINE G == {s \in SUBSET T : g[s] = h[s]}
<1>1. ASSUME NEW s \in SUBSET T, \A r \in SUBSET s : r # s => r \in G
      PROVE  s \in G
  <2>1. /\ g[s] = IF s = {} THEN 0 ELSE f[Pick(s)] + g[s \ {Pick(s)}]
        /\ h[s] = IF s = {} THEN 0 ELSE f[Pick(s)] + h[s \ {Pick(s)}]
    BY SumAt
  <2>2. CASE s = {}
    BY <2>1, <2>2
  <2>3. CASE s # {}
    <3>1. s \ {Pick(s)} \in SUBSET s /\ s \ {Pick(s)} # s
      BY <2>3, PickIn
    <3>2. g[s \ {Pick(s)}] = h[s \ {Pick(s)}]
      BY <1>1, <3>1
    <3> QED
      BY <2>1, <2>3, <3>2
  <2> QED
    BY <2>2, <2>3
<1> HIDE DEF G
<1>2. \A s \in SUBSET T : s \in G
  BY <1>1, SubsetInduction
<1> QED
  BY <1>2 DEF G

(* The recursion has a solution, so that the sum satisfies it.             *)
LEMMA SumExists ==
    ASSUME NEW D, IsFiniteSet(D), NEW f
    PROVE  \A S \in SUBSET D : \E g : IsSum(g, S, f)
<1> DEFINE G == {S \in SUBSET D : \E g : IsSum(g, S, f)}
           TheSum(S) == CHOOSE g : IsSum(g, S, f)
<1>1. ASSUME NEW S \in SUBSET D, \A T \in SUBSET S : T # S => T \in G
      PROVE  S \in G
  <2> DEFINE h == [s \in SUBSET S |->
                     IF s = {} THEN 0 ELSE f[Pick(s)] + Sum(s \ {Pick(s)}, f)]
  <2>1. ASSUME NEW s \in SUBSET S, s # S PROVE h[s] = Sum(s, f)
    <3>1. IsSum(TheSum(s), s, f)
      BY <1>1, <2>1
    <3>2. Sum(s, f) = IF s = {} THEN 0
                      ELSE f[Pick(s)] + TheSum(s)[s \ {Pick(s)}]
      <4>1. s \in SUBSET s
        OBVIOUS
      <4> HIDE DEF TheSum
      <4>2. TheSum(s)[s] = IF s = {} THEN 0 ELSE f[Pick(s)] + TheSum(s)[s \ {Pick(s)}]
        BY <3>1, <4>1, SumAt
      <4> QED
        BY <4>2 DEF Sum, TheSum
    <3>3. CASE s = {}
      BY <3>2, <3>3
    <3>4. CASE s # {}
      <4>1. /\ s \ {Pick(s)} \in SUBSET s /\ s \ {Pick(s)} \in SUBSET S
            /\ s \ {Pick(s)} # S
        BY <2>1, <3>4
      <4>2. IsSum(TheSum(s \ {Pick(s)}), s \ {Pick(s)}, f)
        BY <1>1, <4>1
      <4>3. IsFiniteSet(s \ {Pick(s)})
        BY <4>1, FS_Subset
      <4> HIDE DEF TheSum
      <4>4. TheSum(s)[s \ {Pick(s)}] = TheSum(s \ {Pick(s)})[s \ {Pick(s)}]
        BY <3>1, <4>1, <4>2, <4>3, SumsAgree, SMTT(20)
      <4>5. TheSum(s)[s \ {Pick(s)}] = Sum(s \ {Pick(s)}, f)
        BY <4>4 DEF Sum, TheSum
      <4> QED
        BY <3>2, <3>4, <4>5
    <3> QED
      BY <3>3, <3>4
  <2>2. \A s \in SUBSET S : s # {} => h[s \ {Pick(s)}] = Sum(s \ {Pick(s)}, f)
    <3>1. \A s \in SUBSET S : s # {} => s \ {Pick(s)} \in SUBSET S /\ s \ {Pick(s)} # S
      BY PickIn
    <3> HIDE DEF h
    <3> QED
      BY <2>1, <3>1
  <2>3. IsSum(h, S, f)
    BY <2>2 DEF IsSum
  <2> QED
    BY <2>3
<1> HIDE DEF G
<1>2. \A S \in SUBSET D : S \in G
  BY <1>1, SubsetInduction
<1> QED
  BY <1>2 DEF G

LEMMA SumIsSum ==
    ASSUME NEW S, IsFiniteSet(S), NEW f
    PROVE  IsSum(CHOOSE g : IsSum(g, S, f), S, f)
<1>1. \E g : IsSum(g, S, f)
  BY SumExists
<1> QED
  BY <1>1

LEMMA SumEq ==
    ASSUME NEW S, IsFiniteSet(S), NEW f
    PROVE  Sum(S, f) = IF S = {} THEN 0 ELSE f[Pick(S)] + Sum(S \ {Pick(S)}, f)
<1> DEFINE g == CHOOSE r : IsSum(r, S, f)
           h == CHOOSE r : IsSum(r, S \ {Pick(S)}, f)
<1>1. IsFiniteSet(S \ {Pick(S)}) /\ S \in SUBSET S /\ S \ {Pick(S)} \subseteq S
  BY FS_Subset
<1>2. IsSum(g, S, f) /\ IsSum(h, S \ {Pick(S)}, f)
  BY <1>1, SumIsSum
<1>3. Sum(S, f) = g[S] /\ Sum(S \ {Pick(S)}, f) = h[S \ {Pick(S)}]
  BY DEF Sum
<1> HIDE DEF g, h
<1>4. g[S] = IF S = {} THEN 0 ELSE f[Pick(S)] + g[S \ {Pick(S)}]
  BY <1>1, <1>2, SumAt
<1>5. g[S \ {Pick(S)}] = h[S \ {Pick(S)}]
  BY <1>1, <1>2, SumsAgree
<1> QED
  BY <1>3, <1>4, <1>5

(* The sum of naturals is one, and depends on the terms only.              *)
LEMMA SumNat ==
    ASSUME NEW D, IsFiniteSet(D), NEW f, \A x \in D : f[x] \in Nat
    PROVE  Sum(D, f) \in Nat
<1> DEFINE G == {S \in SUBSET D : Sum(S, f) \in Nat}
<1>1. ASSUME NEW S \in SUBSET D, \A T \in SUBSET S : T # S => T \in G
      PROVE  S \in G
  <2>1. Sum(S, f) = IF S = {} THEN 0 ELSE f[Pick(S)] + Sum(S \ {Pick(S)}, f)
    BY FS_Subset, SumEq
  <2>2. S # {} => Pick(S) \in S /\ Sum(S \ {Pick(S)}, f) \in Nat
    BY <1>1, PickIn
  <2> QED
    BY <2>1, <2>2
<1> HIDE DEF G
<1>2. D \in G
  BY <1>1, SubsetInduction
<1> QED
  BY <1>2 DEF G

LEMMA SumCong ==
    ASSUME NEW D, IsFiniteSet(D), NEW f, NEW h, \A x \in D : f[x] = h[x]
    PROVE  Sum(D, f) = Sum(D, h)
<1> DEFINE G == {S \in SUBSET D : Sum(S, f) = Sum(S, h)}
<1>1. ASSUME NEW S \in SUBSET D, \A T \in SUBSET S : T # S => T \in G
      PROVE  S \in G
  <2>1. /\ Sum(S, f) = IF S = {} THEN 0 ELSE f[Pick(S)] + Sum(S \ {Pick(S)}, f)
        /\ Sum(S, h) = IF S = {} THEN 0 ELSE h[Pick(S)] + Sum(S \ {Pick(S)}, h)
    BY FS_Subset, SumEq
  <2>2. S # {} => Pick(S) \in D /\ Sum(S \ {Pick(S)}, f) = Sum(S \ {Pick(S)}, h)
    BY <1>1, PickIn
  <2> QED
    BY <2>1, <2>2
<1> HIDE DEF G
<1>2. D \in G
  BY <1>1, SubsetInduction
<1> QED
  BY <1>2 DEF G

(* Any term can be taken out: the order of the terms does not matter.      *)
LEMMA SumTakeOut ==
    ASSUME NEW D, IsFiniteSet(D), NEW f, \A x \in D : f[x] \in Nat, NEW y \in D
    PROVE  Sum(D, f) = f[y] + Sum(D \ {y}, f)
<1> DEFINE G == {S \in SUBSET D : \A x \in S : Sum(S, f) = f[x] + Sum(S \ {x}, f)}
<1>1. ASSUME NEW S \in SUBSET D, \A T \in SUBSET S : T # S => T \in G
      PROVE  S \in G
  <2> SUFFICES ASSUME NEW x \in S PROVE Sum(S, f) = f[x] + Sum(S \ {x}, f)
    OBVIOUS
  <2>1. PICK p \in S : p = Pick(S)
    BY PickIn
  <2>2. Sum(S, f) = f[p] + Sum(S \ {p}, f)
    BY <2>1, FS_Subset, SumEq
  <2>3. CASE x = p
    BY <2>2, <2>3
  <2>4. CASE x # p
    <3>1. S \ {p} \in G /\ S \ {x} \in G
      BY <1>1
    <3>2. /\ Sum(S \ {p}, f) = f[x] + Sum((S \ {p}) \ {x}, f)
          /\ Sum(S \ {x}, f) = f[p] + Sum((S \ {x}) \ {p}, f)
      BY <2>4, <3>1
    <3>3. (S \ {p}) \ {x} = (S \ {x}) \ {p}
      OBVIOUS
    <3>4. f[x] \in Nat /\ f[p] \in Nat /\ Sum((S \ {p}) \ {x}, f) \in Nat
      <4>1. IsFiniteSet((S \ {p}) \ {x})
        BY FS_Subset
      <4> QED
        BY <4>1, SumNat
    <3> QED
      BY <2>2, <3>2, <3>3, <3>4
  <2> QED
    BY <2>3, <2>4
<1> HIDE DEF G
<1>2. D \in G
  BY <1>1, SubsetInduction
<1> QED
  BY <1>2 DEF G

(* Fewer terms have no larger sum.                                         *)
LEMMA SumMonotone ==
    ASSUME NEW D, IsFiniteSet(D), NEW f, \A x \in D : f[x] \in Nat, NEW T \in SUBSET D
    PROVE  Sum(T, f) <= Sum(D, f)
<1> DEFINE G == {S \in SUBSET D : T \subseteq S => Sum(T, f) <= Sum(S, f)}
<1>1. ASSUME NEW S \in SUBSET D, \A R \in SUBSET S : R # S => R \in G
      PROVE  S \in G
  <2>0. IsFiniteSet(S) /\ IsFiniteSet(T) /\ Sum(S, f) \in Nat /\ Sum(T, f) \in Nat
    BY FS_Subset, SumNat
  <2>1. CASE T = S \/ ~ (T \subseteq S)
    BY <2>0, <2>1
  <2>2. CASE T \subseteq S /\ T # S
    <3>1. PICK x \in S : x \notin T
      BY <2>2
    <3>2. Sum(S, f) = f[x] + Sum(S \ {x}, f) /\ f[x] \in Nat
      BY <2>0, SumTakeOut
    <3>3. Sum(T, f) <= Sum(S \ {x}, f)
      BY <1>1, <2>2, <3>1
    <3>4. IsFiniteSet(S \ {x}) /\ Sum(S \ {x}, f) \in Nat
      BY <2>0, FS_Subset, SumNat
    <3> QED
      BY <2>0, <3>2, <3>3, <3>4
  <2> QED
    BY <2>1, <2>2
<1> HIDE DEF G
<1>2. D \in G
  BY <1>1, SubsetInduction
<1> QED
  BY <1>2 DEF G
=============================================================================
