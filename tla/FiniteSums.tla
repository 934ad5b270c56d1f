----------------------------- MODULE FiniteSums ------------------------------
(***************************************************************************)
(* Sums over finite sets and the greatest of finitely many numbers, by     *)
(* induction over the subsets of a finite set.                             *)
(***************************************************************************)
EXTENDS Integers, FiniteSetTheorems, TLAPS

\* A set of subsets of a finite set has a least one: the form of induction over
\* finite sets that is a statement about sets.
LEMMA LeastSubset ==
  ASSUME NEW S, IsFiniteSet(S), NEW F, F \subseteq SUBSET S, F # {}
  PROVE  \E m \in F : \A s \in F : s \subseteq m => s = m
<1>1. IsWellFoundedOn(StrictSubsetOrdering(S), SUBSET S)
  BY FS_StrictSubsetOrderingWellFounded, FS_FiniteSubsetsOfFinite
<1>2. PICK m \in F : \A s \in F : ~(<<s, m>> \in StrictSubsetOrdering(S))
  BY <1>1, WFMin
<1> QED
  BY <1>2 DEF StrictSubsetOrdering

\* Numbers of finitely many rows have a greatest, 0 if there is none.
LEMMA GreatestNumber ==
  ASSUME NEW P, IsFiniteSet(P), NEW f, \A p \in P : f[p] \in Nat
  PROVE  \E n \in {f[p] : p \in P} \cup {0} : \A p \in P : f[p] <= n
<1> DEFINE Great(s) == \E n \in {f[p] : p \in s} \cup {0} : \A p \in s : f[p] <= n
           F == {s \in SUBSET P : ~Great(s)}
<1>1. SUFFICES ASSUME F # {} PROVE FALSE
  BY DEF F
<1>2. PICK m \in F : \A s \in F : s \subseteq m => s = m
  <2>1. F \subseteq SUBSET P
    OBVIOUS
  <2> HIDE DEF F
  <2> QED
    BY <1>1, <2>1, LeastSubset
<1>3. PICK p \in m : TRUE
  BY <1>2
<1>4. m \ {p} \in SUBSET P /\ m \ {p} \notin F
  BY <1>2, <1>3
<1>5. PICK n \in {f[q] : q \in m \ {p}} \cup {0} : \A q \in m \ {p} : f[q] <= n
  BY <1>4
<1>6. n \in Nat /\ f[p] \in Nat /\ \A q \in m : f[q] \in Nat
  BY <1>2, <1>3, <1>5
<1>7. PICK x : x = IF f[p] <= n THEN n ELSE f[p]
  OBVIOUS
<1>8. x \in {f[q] : q \in m} \cup {0} /\ \A q \in m : f[q] <= x
  BY <1>3, <1>5, <1>6, <1>7
<1> QED
  BY <1>2, <1>8

-----------------------------------------------------------------------------
(* Sums *)

\* The element a sum over the set s begins with.
Pick(s) == CHOOSE x \in s : TRUE

\* g adds up f over the subsets of S.
AddsUp(g, f, S) ==
    g = [s \in SUBSET S |-> IF s = {} THEN 0 ELSE f[Pick(s)] + g[s \ {Pick(s)}]]

\* Such functions agree where what they add up does.
LEMMA SameSums ==
  ASSUME NEW S, IsFiniteSet(S), NEW R, NEW f, NEW e, NEW g, NEW h,
         AddsUp(g, f, S), AddsUp(h, e, R), NEW P \in SUBSET (S \cap R),
         \A p \in P : f[p] = e[p]
  PROVE  g[P] = h[P]
<1> DEFINE F == {s \in SUBSET P : g[s] # h[s]}
<1>1. SUFFICES ASSUME F # {} PROVE FALSE
  OBVIOUS
<1>2. PICK m \in F : \A s \in F : s \subseteq m => s = m
  <2>1. F \subseteq SUBSET S
    OBVIOUS
  <2> HIDE DEF F
  <2> QED BY <1>1, <2>1, LeastSubset
<1>3. m # {}
  BY <1>2 DEF AddsUp
<1>4. Pick(m) \in m
  BY <1>3 DEF Pick
<1>5. g[m \ {Pick(m)}] = h[m \ {Pick(m)}]
  BY <1>2, <1>4
<1>6. g[m] = f[Pick(m)] + g[m \ {Pick(m)}] /\ h[m] = e[Pick(m)] + h[m \ {Pick(m)}]
  BY <1>2, <1>3 DEF AddsUp
<1> QED
  BY <1>2, <1>4, <1>5, <1>6

\* There is one for every finite set.
LEMMA SumExists ==
  ASSUME NEW S, IsFiniteSet(S), NEW f, \A p \in S : f[p] \in Nat
  PROVE  \E g \in [SUBSET S -> Nat] : AddsUp(g, f, S)
<1> DEFINE F == {s \in SUBSET S : ~ \E g \in [SUBSET s -> Nat] : AddsUp(g, f, s)}
<1>1. SUFFICES ASSUME F # {} PROVE FALSE
  OBVIOUS
<1>2. PICK m \in F : \A s \in F : s \subseteq m => s = m
  <2>1. F \subseteq SUBSET S
    OBVIOUS
  <2> HIDE DEF F
  <2> QED BY <1>1, <2>1, LeastSubset
<1> DEFINE Good(g, s) == g \in [SUBSET s -> Nat] /\ AddsUp(g, f, s)
           chosen == [s \in SUBSET m |-> CHOOSE g : Good(g, s)]
<1>3. \A s \in SUBSET m : s # m => Good(chosen[s], s)
  <2>1. \A s \in SUBSET m : s # m => \E g : Good(g, s)
    BY <1>2
  <2> HIDE DEF Good
  <2> QED BY <2>1
<1>4. PICK best : \A s \in SUBSET m : s # m => best[s] \in [SUBSET s -> Nat] /\ AddsUp(best[s], f, s)
  BY <1>3
<1> HIDE DEF Good, chosen
<1> DEFINE Sum(s) == f[Pick(s)] + best[s \ {Pick(s)}][s \ {Pick(s)}]
           below == [s \in SUBSET m |-> IF s = {} THEN 0 ELSE Sum(s)]
<1>5. \A s \in SUBSET m : s # {} => Pick(s) \in s /\ f[Pick(s)] \in Nat
  BY <1>2 DEF Pick
<1>6. \A s \in SUBSET m : s # {} => Sum(s) \in Nat
  <2> SUFFICES ASSUME NEW s \in SUBSET m, s # {} PROVE Sum(s) \in Nat
    OBVIOUS
  <2>1. s \ {Pick(s)} \in SUBSET m /\ s \ {Pick(s)} # m
    BY <1>5
  <2>2. \A r : r \in SUBSET m /\ r # m => best[r][r] \in Nat
    BY <1>4
  <2> QED
    BY <1>5, <2>1, <2>2
<1>7. \A s \in SUBSET m : s # m => below[s] = best[s][s]
  <2> SUFFICES ASSUME NEW s \in SUBSET m, s # m PROVE below[s] = best[s][s]
    OBVIOUS
  <2>1. AddsUp(best[s], f, s)
    BY <1>4
  <2>2. CASE s = {}
    BY <2>1, <2>2 DEF AddsUp
  <2>3. CASE s # {}
    <3> DEFINE r == s \ {Pick(s)}
    <3>1. best[s][s] = f[Pick(s)] + best[s][r]
      <4>1. \A g, t : AddsUp(g, f, t) /\ t # {} => g[t] = f[Pick(t)] + g[t \ {Pick(t)}]
        BY DEF AddsUp
      <4> QED BY <2>1, <2>3, <4>1
    <3>2. AddsUp(best[r], f, r) /\ r \in SUBSET (s \cap r)
      BY <1>4, <1>5, <2>3
    <3>3. IsFiniteSet(s)
      BY <1>2, FS_Subset
    <3>4. best[s][r] = best[r][r]
      <4> HIDE DEF r
      <4> QED BY <2>1, <3>2, <3>3, SameSums
    <3> QED
      BY <2>3, <3>1, <3>4
  <2> QED BY <2>2, <2>3
<1>8. AddsUp(below, f, m) /\ below \in [SUBSET m -> Nat]
  <2>1. \A s \in SUBSET m : s # {} => below[s] = f[Pick(s)] + below[s \ {Pick(s)}]
    BY <1>5, <1>7
  <2> QED
    BY <1>6, <2>1 DEF AddsUp
<1> QED
  BY <1>2, <1>8
=============================================================================
