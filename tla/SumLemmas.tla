------------------------------ MODULE SumLemmas ------------------------------
(****************************************************************************)
(* Induction over the subsets of a finite set and over the naturals, from   *)
(* well-foundedness, and with it what SumFunctionOnSet of the community     *)
(* modules computes: a fold that takes the elements of a set in an          *)
(* unspecified order.                                                       *)
(****************************************************************************)
EXTENDS Integers, Functions, FiniteSetTheorems, TLAPS

(* ------------------------------ induction ------------------------------ *)

\* A collection of finite sets that has a set as soon as it has all its smaller
\* subsets has them all.
LEMMA SubsetInduction ==
  ASSUME NEW U, IsFiniteSet(U), NEW G,
         \A T \in SUBSET U : (\A P \in SUBSET T : P # T => P \in G) => T \in G
  PROVE  \A T \in SUBSET U : T \in G
  <1> DEFINE B == (SUBSET U) \ G
  <1> SUFFICES ASSUME B # {} PROVE FALSE
    OBVIOUS
  <1>1. IsWellFoundedOn(StrictSubsetOrdering(U), SUBSET U)
    <2>1. IsWellFoundedOn(StrictSubsetOrdering(U), FiniteSubsetsOf(U))
      BY FS_StrictSubsetOrderingWellFounded
    <2>2. FiniteSubsetsOf(U) = SUBSET U
      BY FS_FiniteSubsetsOfFinite
    <2>3. QED BY <2>1, <2>2, Zenon
  <1>2. B \subseteq SUBSET U
    OBVIOUS
  <1> HIDE DEF B
  <1>3. PICK T \in B : \A P \in B : <<P, T>> \notin StrictSubsetOrdering(U)
    BY <1>1, <1>2, WFMin
  <1>4. \A P \in SUBSET T : P # T => P \notin B
    <2> TAKE P \in SUBSET T
    <2> HAVE P # T
    <2>1. P \in SUBSET U /\ T \in SUBSET U
      BY <1>2, <1>3
    <2>2. <<P, T>> \in StrictSubsetOrdering(U)
      BY <2>1 DEF StrictSubsetOrdering
    <2>3. QED BY <1>3, <2>2
  <1>5. T \in SUBSET U /\ T \notin G
    BY <1>3 DEF B
  <1>6. \A P \in SUBSET T : P # T => P \in G
    BY <1>4, <1>5 DEF B
  <1>7. QED BY <1>5, <1>6

\* A set of naturals that has 0 and every successor of its members has them all.
LEMMA NaturalInduction ==
  ASSUME NEW G, 0 \in G, \A n \in Nat : n \in G => n + 1 \in G
  PROVE  \A n \in Nat : n \in G
  <1> DEFINE B == Nat \ G
  <1> SUFFICES ASSUME B # {} PROVE FALSE
    OBVIOUS
  <1>1. B \subseteq Nat
    OBVIOUS
  <1> HIDE DEF B
  <1>2. PICK n \in B : \A m \in B : <<m, n>> \notin OpToRel(<, Nat)
    BY <1>1, NatLessThanWellFounded, WFMin
  <1>3. n \in Nat /\ n \notin G
    BY <1>2 DEF B
  <1>4. n # 0 /\ n - 1 \in Nat /\ n - 1 < n
    BY <1>3
  <1>5. <<n - 1, n>> \in OpToRel(<, Nat)
    BY <1>3, <1>4 DEF OpToRel
  <1>6. n - 1 \in G
    BY <1>2, <1>4, <1>5 DEF B
  <1>7. (n - 1) + 1 \in G
    BY <1>4, <1>6
  <1>8. (n - 1) + 1 = n
    BY <1>3
  <1>9. QED BY <1>3, <1>7, <1>8

(* -------------------------- the sum of a set --------------------------- *)

Pick(s) == CHOOSE x \in s : TRUE

\* h maps every subset of S to its total.
Totals(f, S, h) ==
  h = [s \in SUBSET S |-> IF s = {} THEN 0 ELSE f[Pick(s)] + h[s \ {Pick(s)}]]

LEMMA SumUnfolds ==
  ASSUME NEW f, NEW S
  PROVE  SumFunctionOnSet(f, S) = (CHOOSE h : Totals(f, S, h))[S]
  BY DEF SumFunctionOnSet, FoldFunctionOnSet, MapThenFoldSet, Totals, Pick

LEMMA Picked == ASSUME NEW s, s # {} PROVE Pick(s) \in s
  BY DEF Pick

LEMMA TotalsAt ==
  ASSUME NEW f, NEW S, NEW h, Totals(f, S, h), NEW s, s \subseteq S
  PROVE  /\ s = {} => h[s] = 0
         /\ s # {} => h[s] = f[Pick(s)] + h[s \ {Pick(s)}]
  BY DEF Totals

\* There is only one such map.
LEMMA TotalsAgree ==
  ASSUME NEW f, NEW S, NEW T, NEW g, NEW h, Totals(f, S, g), Totals(f, T, h),
         IsFiniteSet(S), S \subseteq T
  PROVE  \A s \in SUBSET S : g[s] = h[s]
  <1> DEFINE G == {s \in SUBSET S : g[s] = h[s]}
  <1>1. ASSUME NEW s \in SUBSET S, \A p \in SUBSET s : p # s => p \in G
        PROVE  s \in G
    <2> s \subseteq S /\ s \subseteq T
      OBVIOUS
    <2>1. CASE s = {}
      <3>1. g[s] = 0 /\ h[s] = 0
        BY <2>1, TotalsAt
      <3>2. QED BY <3>1
    <2>2. CASE s # {}
      <3>1. Pick(s) \in s
        BY <2>2, Picked
      <3>2. s \ {Pick(s)} \in G
        BY <1>1, <3>1
      <3>3. g[s] = f[Pick(s)] + g[s \ {Pick(s)}] /\ h[s] = f[Pick(s)] + h[s \ {Pick(s)}]
        BY <2>2, TotalsAt
      <3>4. QED BY <3>2, <3>3
    <2>3. QED BY <2>1, <2>2
  <1> HIDE DEF G
  <1>2. \A s \in SUBSET S : s \in G
    BY <1>1, SubsetInduction
  <1>3. QED BY <1>2 DEF G

\* And there is one.
LEMMA TotalsExist ==
  ASSUME NEW f, NEW U, IsFiniteSet(U)
  PROVE  \E h : Totals(f, U, h)
  <1> DEFINE G == {T \in SUBSET U : \E h : Totals(f, T, h)}
  <1>1. ASSUME NEW T \in SUBSET U, \A P \in SUBSET T : P # T => P \in G
        PROVE  T \in G
    <2> DEFINE of[P \in SUBSET T] == (CHOOSE h : Totals(f, P, h))[P]
               all == [s \in SUBSET T |->
                         IF s = {} THEN 0 ELSE f[Pick(s)] + of[s \ {Pick(s)}]]
    <2>1. \A P \in SUBSET T : P # T => Totals(f, P, CHOOSE h : Totals(f, P, h))
      BY <1>1
    <2>2. ASSUME NEW P \in SUBSET T, P # T
          PROVE  of[P] = all[P]
      <3> DEFINE h == CHOOSE h : Totals(f, P, h)
      <3>1. Totals(f, P, h) /\ of[P] = h[P]
        BY <2>1, <2>2
      <3>2. CASE P = {}
        BY <3>1, <3>2, TotalsAt
      <3>3. CASE P # {}
        <4> DEFINE Q == P \ {Pick(P)}
                   g == CHOOSE g : Totals(f, Q, g)
        <4>1. Q \in SUBSET T /\ Q # T /\ Q \subseteq P
          BY <3>3, Picked
        <4>2. Totals(f, Q, g) /\ of[Q] = g[Q]
          BY <2>1, <4>1
        <4>3. IsFiniteSet(Q)
          BY <4>1, FS_Subset
        <4> HIDE DEF g, h, Q
        <4>4. g[Q] = h[Q]
          BY <3>1, <4>1, <4>2, <4>3, TotalsAgree
        <4>5. h[P] = f[Pick(P)] + h[P \ {Pick(P)}]
          BY <3>1, <3>3, TotalsAt
        <4>6. h[P] = f[Pick(P)] + of[P \ {Pick(P)}]
          BY <4>2, <4>4, <4>5 DEF Q
        <4>7. QED BY <3>1, <3>3, <4>6
      <3>4. QED BY <3>2, <3>3
    <2>3. \A s \in SUBSET T : s # {} => s \ {Pick(s)} \in SUBSET T /\ s \ {Pick(s)} # T
      BY Picked
    <2>4. \A s \in SUBSET T : all[s] = IF s = {} THEN 0 ELSE f[Pick(s)] + of[s \ {Pick(s)}]
      OBVIOUS
    <2>5. all = [s \in SUBSET T |-> all[s]]
      OBVIOUS
    <2> HIDE DEF of, all
    <2>6. \A s \in SUBSET T : all[s] = IF s = {} THEN 0 ELSE f[Pick(s)] + all[s \ {Pick(s)}]
      BY <2>2, <2>3, <2>4
    <2>7. all = [s \in SUBSET T |-> IF s = {} THEN 0 ELSE f[Pick(s)] + all[s \ {Pick(s)}]]
      BY <2>5, <2>6
    <2>8. Totals(f, T, all)
      BY <2>7 DEF Totals
    <2>9. QED BY <2>8
  <1> HIDE DEF G
  <1>2. \A T \in SUBSET U : T \in G
    BY <1>1, SubsetInduction
  <1>3. QED BY <1>2 DEF G

\* The fold, one element at a time and in its own order.
LEMMA SumInItsOrder ==
  ASSUME NEW f, NEW S, IsFiniteSet(S)
  PROVE  SumFunctionOnSet(f, S) =
           IF S = {} THEN 0 ELSE f[Pick(S)] + SumFunctionOnSet(f, S \ {Pick(S)})
  <1> DEFINE h == CHOOSE h : Totals(f, S, h)
             P == S \ {Pick(S)}
             g == CHOOSE g : Totals(f, P, g)
  <1>1. IsFiniteSet(P) /\ P \subseteq S
    BY FS_Subset
  <1>2. Totals(f, S, h) /\ Totals(f, P, g)
    BY <1>1, TotalsExist
  <1>3. SumFunctionOnSet(f, S) = h[S] /\ SumFunctionOnSet(f, P) = g[P]
    BY SumUnfolds
  <1> HIDE DEF h, g, P
  <1>4. g[P] = h[P]
    BY <1>1, <1>2, TotalsAgree
  <1>5. /\ S = {} => h[S] = 0
        /\ S # {} => h[S] = f[Pick(S)] + h[S \ {Pick(S)}]
    <2>1. Totals(f, S, h) /\ S \subseteq S
      BY <1>2
    <2>2. \A s : s \subseteq S =>
            /\ s = {} => h[s] = 0
            /\ s # {} => h[s] = f[Pick(s)] + h[s \ {Pick(s)}]
      BY <2>1, TotalsAt
    <2>3. QED BY <2>1, <2>2
  <1>6. QED BY <1>3, <1>4, <1>5 DEF P

LEMMA SumOfNothing == ASSUME NEW f PROVE SumFunctionOnSet(f, {}) = 0
  BY SumInItsOrder, FS_EmptySet

\* A sum of naturals is one.
LEMMA SumIsNat ==
  ASSUME NEW f, NEW S, IsFiniteSet(S), \A x \in S : f[x] \in Nat
  PROVE  SumFunctionOnSet(f, S) \in Nat
  <1> DEFINE G == {T \in SUBSET S : SumFunctionOnSet(f, T) \in Nat}
  <1>1. ASSUME NEW T \in SUBSET S, \A P \in SUBSET T : P # T => P \in G
        PROVE  T \in G
    <2>1. IsFiniteSet(T)
      BY FS_Subset
    <2>2. CASE T = {}
      BY <2>2, SumOfNothing
    <2>3. CASE T # {}
      <3>1. Pick(T) \in T
        BY <2>3, Picked
      <3>2. T \ {Pick(T)} \in G
        BY <1>1, <3>1
      <3>3. SumFunctionOnSet(f, T) = f[Pick(T)] + SumFunctionOnSet(f, T \ {Pick(T)})
        BY <2>1, <2>3, SumInItsOrder
      <3>4. f[Pick(T)] \in Nat /\ SumFunctionOnSet(f, T \ {Pick(T)}) \in Nat
        BY <3>1, <3>2
      <3>5. QED BY <3>3, <3>4
    <2>4. QED BY <2>2, <2>3
  <1> HIDE DEF G
  <1>2. \A T \in SUBSET S : T \in G
    BY <1>1, SubsetInduction
  <1>3. QED BY <1>2 DEF G

\* Any element may be taken out first.
LEMMA SumWithout ==
  ASSUME NEW f, NEW S, IsFiniteSet(S), \A x \in S : f[x] \in Nat, NEW x \in S
  PROVE  SumFunctionOnSet(f, S) = f[x] + SumFunctionOnSet(f, S \ {x})
  <1> DEFINE G == {T \in SUBSET S :
                     \A y \in T : SumFunctionOnSet(f, T) = f[y] + SumFunctionOnSet(f, T \ {y})}
  <1>1. ASSUME NEW T \in SUBSET S, \A P \in SUBSET T : P # T => P \in G
        PROVE  T \in G
    <2> SUFFICES ASSUME NEW y \in T
                 PROVE  SumFunctionOnSet(f, T) = f[y] + SumFunctionOnSet(f, T \ {y})
      OBVIOUS
    <2> DEFINE z == Pick(T)
    <2>1. IsFiniteSet(T) /\ z \in T
      BY FS_Subset, Picked
    <2>2. SumFunctionOnSet(f, T) = f[z] + SumFunctionOnSet(f, T \ {z})
      BY <2>1, SumInItsOrder
    <2> HIDE DEF z
    <2>3. CASE y = z
      BY <2>2, <2>3
    <2>4. CASE y # z
      <3>1. T \ {z} \in G /\ T \ {y} \in G /\ y \in T \ {z} /\ z \in T \ {y}
        BY <1>1, <2>1, <2>4
      <3>2. SumFunctionOnSet(f, T \ {z}) = f[y] + SumFunctionOnSet(f, (T \ {z}) \ {y})
        BY <3>1
      <3>3. SumFunctionOnSet(f, T \ {y}) = f[z] + SumFunctionOnSet(f, (T \ {y}) \ {z})
        BY <3>1
      <3>4. (T \ {y}) \ {z} = (T \ {z}) \ {y}
        OBVIOUS
      <3>5. IsFiniteSet((T \ {z}) \ {y})
        BY <2>1, FS_Subset
      <3> DEFINE rest == SumFunctionOnSet(f, (T \ {z}) \ {y})
      <3>6. f[y] \in Nat /\ f[z] \in Nat /\ rest \in Nat
        BY <2>1, <3>5, SumIsNat
      <3> HIDE DEF rest
      <3>7. f[z] + (f[y] + rest) = f[y] + (f[z] + rest)
        BY <3>6
      <3>8. QED BY <2>2, <3>2, <3>3, <3>4, <3>7 DEF rest
    <2>5. QED BY <2>3, <2>4
  <1> HIDE DEF G
  <1>2. S \in G
    BY <1>1, SubsetInduction
  <1>3. QED BY <1>2 DEF G

\* A sum depends on the terms alone.
LEMMA SumOfSameTerms ==
  ASSUME NEW f, NEW g, NEW S, IsFiniteSet(S), \A x \in S : f[x] = g[x]
  PROVE  SumFunctionOnSet(f, S) = SumFunctionOnSet(g, S)
  <1> DEFINE G == {T \in SUBSET S : SumFunctionOnSet(f, T) = SumFunctionOnSet(g, T)}
  <1>1. ASSUME NEW T \in SUBSET S, \A P \in SUBSET T : P # T => P \in G
        PROVE  T \in G
    <2>1. IsFiniteSet(T)
      BY FS_Subset
    <2>2. CASE T = {}
      BY <2>2, SumOfNothing
    <2>3. CASE T # {}
      <3>1. Pick(T) \in T
        BY <2>3, Picked
      <3>2. T \ {Pick(T)} \in G
        BY <1>1, <3>1
      <3>3. /\ SumFunctionOnSet(f, T) = f[Pick(T)] + SumFunctionOnSet(f, T \ {Pick(T)})
            /\ SumFunctionOnSet(g, T) = g[Pick(T)] + SumFunctionOnSet(g, T \ {Pick(T)})
        BY <2>1, <2>3, SumInItsOrder
      <3>4. f[Pick(T)] = g[Pick(T)]
        BY <3>1
      <3>5. QED BY <3>2, <3>3, <3>4
    <2>4. QED BY <2>2, <2>3
  <1> HIDE DEF G
  <1>2. \A T \in SUBSET S : T \in G
    BY <1>1, SubsetInduction
  <1>3. QED BY <1>2 DEF G

\* One term changes.
LEMMA SumChanged ==
  ASSUME NEW f, NEW g, NEW S, IsFiniteSet(S), NEW x \in S,
         \A y \in S : f[y] \in Nat /\ g[y] \in Nat,
         \A y \in S \ {x} : g[y] = f[y]
  PROVE  SumFunctionOnSet(g, S) = SumFunctionOnSet(f, S) + g[x] - f[x]
  <1>1. IsFiniteSet(S \ {x})
    BY FS_Subset
  <1>2. SumFunctionOnSet(g, S \ {x}) = SumFunctionOnSet(f, S \ {x})
    BY <1>1, SumOfSameTerms
  <1>3. /\ SumFunctionOnSet(f, S) = f[x] + SumFunctionOnSet(f, S \ {x})
        /\ SumFunctionOnSet(g, S) = g[x] + SumFunctionOnSet(g, S \ {x})
    BY SumWithout
  <1>4. SumFunctionOnSet(f, S \ {x}) \in Nat
    BY <1>1, SumIsNat
  <1>5. QED BY <1>2, <1>3, <1>4

\* Smaller terms make a smaller sum.
LEMMA SumMonotonic ==
  ASSUME NEW f, NEW g, NEW S, IsFiniteSet(S),
         \A x \in S : f[x] \in Nat /\ g[x] \in Nat /\ f[x] <= g[x]
  PROVE  SumFunctionOnSet(f, S) <= SumFunctionOnSet(g, S)
  <1> DEFINE G == {T \in SUBSET S : SumFunctionOnSet(f, T) <= SumFunctionOnSet(g, T)}
  <1>1. ASSUME NEW T \in SUBSET S, \A P \in SUBSET T : P # T => P \in G
        PROVE  T \in G
    <2>1. IsFiniteSet(T)
      BY FS_Subset
    <2>2. CASE T = {}
      <3>1. SumFunctionOnSet(f, T) = 0 /\ SumFunctionOnSet(g, T) = 0
        BY <2>2, SumOfNothing
      <3>2. QED BY <3>1
    <2>3. CASE T # {}
      <3> DEFINE x == Pick(T)
                 P == T \ {x}
      <3>1. x \in T
        BY <2>3, Picked
      <3>2. P \in G /\ IsFiniteSet(P)
        BY <1>1, <2>1, <3>1, FS_Subset
      <3>3. /\ SumFunctionOnSet(f, T) = f[x] + SumFunctionOnSet(f, P)
            /\ SumFunctionOnSet(g, T) = g[x] + SumFunctionOnSet(g, P)
        BY <2>1, <2>3, SumInItsOrder
      <3>4. SumFunctionOnSet(f, P) \in Nat /\ SumFunctionOnSet(g, P) \in Nat
        BY <3>2, SumIsNat
      <3>5. f[x] \in Nat /\ g[x] \in Nat /\ f[x] <= g[x]
        BY <3>1
      <3>6. SumFunctionOnSet(f, P) <= SumFunctionOnSet(g, P)
        BY <3>2
      <3> HIDE DEF x, P
      <3>7. SumFunctionOnSet(f, T) <= SumFunctionOnSet(g, T)
        BY <3>3, <3>4, <3>5, <3>6
      <3>8. QED BY <3>7
    <2>4. QED BY <2>2, <2>3
  <1> HIDE DEF G
  <1>2. S \in G
    BY <1>1, SubsetInduction
  <1>3. QED BY <1>2 DEF G

\* n terms of at most m each.
LEMMA SumAtMost ==
  ASSUME NEW f, NEW m \in Nat, NEW S, IsFiniteSet(S), \A x \in S : f[x] \in 0..m
  PROVE  SumFunctionOnSet(f, S) <= m * Cardinality(S)
  <1> DEFINE G == {T \in SUBSET S : SumFunctionOnSet(f, T) <= m * Cardinality(T)}
  <1>1. ASSUME NEW T \in SUBSET S, \A P \in SUBSET T : P # T => P \in G
        PROVE  T \in G
    <2>1. IsFiniteSet(T)
      BY FS_Subset
    <2>2. CASE T = {}
      <3>1. SumFunctionOnSet(f, T) = 0 /\ Cardinality(T) = 0
        BY <2>2, SumOfNothing, FS_EmptySet
      <3>2. QED BY <3>1
    <2>3. CASE T # {}
      <3> DEFINE x == Pick(T)
                 P == T \ {x}
                 n == Cardinality(P)
      <3>1. x \in T
        BY <2>3, Picked
      <3>2. P \in G /\ IsFiniteSet(P)
        BY <1>1, <2>1, <3>1, FS_Subset
      <3>3. SumFunctionOnSet(f, T) = f[x] + SumFunctionOnSet(f, P)
        BY <2>1, <2>3, SumInItsOrder
      <3>4. SumFunctionOnSet(f, P) \in Nat /\ f[x] \in 0..m
        BY <3>1, <3>2, SumIsNat
      <3>5. n \in Nat /\ Cardinality(T) = n + 1
        <4>1. Cardinality(T) \in Nat /\ n = Cardinality(T) - 1 /\ n \in Nat
          BY <2>1, <3>1, <3>2, FS_RemoveElement, FS_CardinalityType
        <4>2. QED BY <4>1
      <3>6. SumFunctionOnSet(f, P) <= m * n
        BY <3>2
      <3> HIDE DEF x, P, n
      <3>7. m * (n + 1) = m * n + m /\ m * n \in Nat
        BY <3>5
      <3>8. SumFunctionOnSet(f, T) <= m * Cardinality(T)
        BY <3>3, <3>4, <3>5, <3>6, <3>7
      <3>9. QED BY <3>8
    <2>4. QED BY <2>2, <2>3
  <1> HIDE DEF G
  <1>2. S \in G
    BY <1>1, SubsetInduction
  <1>3. QED BY <1>2 DEF G
=============================================================================
