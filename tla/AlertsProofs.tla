---------------------------- MODULE AlertsProofs -----------------------------
(****************************************************************************)
(* Proofs about Alerts and EvidenceTools, for windows of any length, any    *)
(* staleness, floors and levels of a gauge, and any number of calls, kills  *)
(* and lost scrapes.                                                        *)
(****************************************************************************)
EXTENDS Alerts, SequenceTheorems, SumLemmas, TLAPS

(* ------------------------- first and last places ----------------------- *)

LEMMA MaxIs ==
  ASSUME NEW S, IsFiniteSet(S), S \subseteq Int, S # {}
  PROVE  /\ Max(S) \in S /\ Max(S) \in Int
         /\ \A y \in S : y <= Max(S)
  <1> DEFINE G == {T \in SUBSET S : T = {} \/ \E x \in T : \A y \in T : x >= y}
  <1>1. ASSUME NEW T \in SUBSET S, \A P \in SUBSET T : P # T => P \in G
        PROVE  T \in G
    <2> SUFFICES ASSUME T # {} PROVE \E x \in T : \A y \in T : x >= y
      OBVIOUS
    <2>1. PICK z \in T : TRUE
      OBVIOUS
    <2>2. T \ {z} \in G
      BY <1>1, <2>1
    <2>3. CASE T \ {z} = {}
      <3>1. \A y \in T : z >= y
        BY <2>1, <2>3
      <3>2. QED BY <2>1, <3>1
    <2>4. CASE T \ {z} # {}
      <3>1. PICK x \in T \ {z} : \A y \in T \ {z} : x >= y
        BY <2>2, <2>4
      <3>2. x \in Int /\ z \in Int
        BY <2>1, <3>1
      <3>3. CASE x >= z
        <4>1. \A y \in T : x >= y
          BY <3>1, <3>3
        <4>2. QED BY <3>1, <4>1
      <3>4. CASE z >= x
        <4>1. \A y \in T : z >= y
          BY <2>1, <3>1, <3>2, <3>4
        <4>2. QED BY <2>1, <4>1
      <3>5. QED BY <3>2, <3>3, <3>4
    <2>5. QED BY <2>3, <2>4
  <1> HIDE DEF G
  <1>2. S \in G
    BY <1>1, SubsetInduction
  <1>3. \E x \in S : \A y \in S : x >= y
    BY <1>2 DEF G
  <1>4. Max(S) \in S /\ \A y \in S : Max(S) >= y
    BY <1>3 DEF Max
  <1>5. QED BY <1>4

LEMMA MinIs ==
  ASSUME NEW S, IsFiniteSet(S), S \subseteq Int, S # {}
  PROVE  /\ Min(S) \in S /\ Min(S) \in Int
         /\ \A y \in S : Min(S) <= y
  <1> DEFINE G == {T \in SUBSET S : T = {} \/ \E x \in T : \A y \in T : x =< y}
  <1>1. ASSUME NEW T \in SUBSET S, \A P \in SUBSET T : P # T => P \in G
        PROVE  T \in G
    <2> SUFFICES ASSUME T # {} PROVE \E x \in T : \A y \in T : x =< y
      OBVIOUS
    <2>1. PICK z \in T : TRUE
      OBVIOUS
    <2>2. T \ {z} \in G
      BY <1>1, <2>1
    <2>3. CASE T \ {z} = {}
      <3>1. \A y \in T : z =< y
        BY <2>1, <2>3
      <3>2. QED BY <2>1, <3>1
    <2>4. CASE T \ {z} # {}
      <3>1. PICK x \in T \ {z} : \A y \in T \ {z} : x =< y
        BY <2>2, <2>4
      <3>2. x \in Int /\ z \in Int
        BY <2>1, <3>1
      <3>3. CASE x =< z
        <4>1. \A y \in T : x =< y
          BY <3>1, <3>3
        <4>2. QED BY <3>1, <4>1
      <3>4. CASE z =< x
        <4>1. \A y \in T : z =< y
          BY <2>1, <3>1, <3>2, <3>4
        <4>2. QED BY <2>1, <4>1
      <3>5. QED BY <3>2, <3>3, <3>4
    <2>5. QED BY <2>3, <2>4
  <1> HIDE DEF G
  <1>2. S \in G
    BY <1>1, SubsetInduction
  <1>3. \E x \in S : \A y \in S : x =< y
    BY <1>2 DEF G
  <1>4. Min(S) \in S /\ \A y \in S : Min(S) =< y
    BY <1>3 DEF Min
  <1>5. QED BY <1>4

\* Which element is the greatest, or the least.
LEMMA MaxIsThat ==
  ASSUME NEW S, IsFiniteSet(S), S \subseteq Int, NEW x \in S, \A y \in S : y <= x
  PROVE  Max(S) = x
  <1>1. Max(S) \in S /\ x <= Max(S) /\ Max(S) <= x /\ Max(S) \in Int /\ x \in Int
    BY MaxIs
  <1>2. QED BY <1>1

LEMMA MinIsThat ==
  ASSUME NEW S, IsFiniteSet(S), S \subseteq Int, NEW x \in S, \A y \in S : x <= y
  PROVE  Min(S) = x
  <1>1. Min(S) \in S /\ Min(S) <= x /\ x <= Min(S) /\ Min(S) \in Int /\ x \in Int
    BY MinIs
  <1>2. QED BY <1>1

\* The point before a later one.
LEMMA BeforeIs ==
  ASSUME NEW W, IsFiniteSet(W), W \subseteq Int, NEW k \in Later(W)
  PROVE  /\ k \in W /\ Before(W, k) \in W /\ Before(W, k) < k
         /\ \A j \in W : j < k => j <= Before(W, k)
  <1> DEFINE B == {j \in W : j < k}
  <1>1. IsFiniteSet(B) /\ B \subseteq Int /\ B # {}
    BY FS_Subset DEF Later
  <1>2. Before(W, k) = Max(B)
    BY DEF Before
  <1>3. Max(B) \in B /\ \A y \in B : y <= Max(B)
    BY <1>1, MaxIs
  <1>4. QED BY <1>2, <1>3 DEF Later

(* ------------------------------ CounterDelta --------------------------- *)

Step(series, W) == [k \in W |-> Increase(series[Before(W, k)], series[k])]

\* What detect() counts over some points lies between what two other quantities
\* grow by from the first point to the last, if it does from one point to any.
LEMMA DeltaBetween ==
  ASSUME NEW series, NEW W, IsFiniteSet(W), W \subseteq Int, W # {}, NEW lo, NEW hi,
         \A k \in W : lo[k] \in Int /\ hi[k] \in Int,
         \A i, j \in W : i < j =>
            /\ Increase(series[i], series[j]) \in Nat
            /\ lo[j] - lo[i] <= Increase(series[i], series[j])
            /\ Increase(series[i], series[j]) <= hi[j] - hi[i]
  PROVE  /\ CounterDelta(series, W) \in Nat
         /\ lo[Max(W)] - lo[Min(W)] <= CounterDelta(series, W)
         /\ CounterDelta(series, W) <= hi[Max(W)] - hi[Min(W)]
  <1> DEFINE Fine(T) == /\ CounterDelta(series, T) \in Nat
                        /\ lo[Max(T)] - lo[Min(T)] <= CounterDelta(series, T)
                        /\ CounterDelta(series, T) <= hi[Max(T)] - hi[Min(T)]
             G == {T \in SUBSET W : T = {} \/ Fine(T)}
  <1> HIDE DEF Fine
  <1>1. ASSUME NEW T \in SUBSET W, \A P \in SUBSET T : P # T => P \in G
        PROVE  T \in G
    <2> SUFFICES ASSUME T # {} PROVE Fine(T)
      OBVIOUS
    <2> DEFINE m == Max(T)
               P == T \ {m}
               f == Step(series, T)
    <2>1. IsFiniteSet(T) /\ T \subseteq Int
      BY FS_Subset
    <2>2. m \in T /\ m \in Int /\ \A y \in T : y <= m
      BY <2>1, MaxIs
    <2>3. IsFiniteSet(P) /\ P \subseteq Int /\ P \subseteq T /\ P # T
      BY <2>1, <2>2, FS_Subset
    <2>4. CounterDelta(series, T) = SumFunctionOnSet(f, Later(T))
      BY DEF CounterDelta, Step
    <2>5. IsFiniteSet(Later(T)) /\ IsFiniteSet(Later(P))
      <3>1. Later(T) \subseteq T /\ Later(P) \subseteq P
        BY DEF Later
      <3>2. QED BY <3>1, <2>1, <2>3, FS_Subset
    <2>6. CASE P = {}
      <3>1. T = {m}
        BY <2>2, <2>6
      <3> HIDE DEF m, P, f
      <3>2. Later(T) = {}
        BY <2>1, <3>1 DEF Later
      <3>3. CounterDelta(series, T) = 0
        BY <2>4, <3>2, SumOfNothing
      <3>4. Max(T) = m /\ Min(T) = m
        BY <2>1, <2>2, <3>1, MaxIsThat, MinIsThat
      <3>5. QED BY <3>3, <3>4, <2>2 DEF Fine
    <2>7. CASE P # {}
      <3> DEFINE q == Max(P)
                 g == Step(series, P)
      <3>1. q \in P /\ q \in Int /\ \A y \in P : y <= q
        BY <2>3, <2>7, MaxIs
      <3>2. Min(P) \in P /\ \A y \in P : Min(P) <= y
        BY <2>3, <2>7, MinIs
      <3>3. Fine(P)
        BY <1>1, <2>3, <2>7
      <3>4. q \in T /\ q < m
        BY <2>2, <3>1
      <3>5. Min(T) = Min(P)
        <4>1. \A y \in T : Min(P) <= y
          BY <2>2, <3>1, <3>2, <3>4
        <4>2. QED BY <2>1, <2>3, <3>2, <4>1, MinIsThat
      <3>6. CounterDelta(series, P) = SumFunctionOnSet(g, Later(P))
        BY DEF CounterDelta, Step
      <3>7. m \in Later(T) /\ Later(T) \ {m} = Later(P)
        <4>1. m \in Later(T)
          BY <2>2, <3>4 DEF Later
        <4>2. \A k \in P : k < m
          BY <2>1, <2>2
        <4>3. \A k \in P : (\E j \in T : j < k) <=> (\E j \in P : j < k)
          BY <2>1, <2>2, <4>2
        <4>4. QED BY <4>1, <4>3 DEF Later
      <3>8. Before(T, m) = q
        <4>1. Before(T, m) \in T /\ Before(T, m) < m /\ \A j \in T : j < m => j <= Before(T, m)
          BY <2>1, <3>7, BeforeIs
        <4>2. Before(T, m) \in P /\ q <= Before(T, m)
          <5>1. Before(T, m) # m
            BY <2>2, <4>1
          <5>2. QED BY <3>4, <4>1, <5>1
        <4>3. QED BY <2>3, <3>1, <4>2
      <3>9. \A k \in Later(P) : f[k] = g[k]
        <4> TAKE k \in Later(P)
        <4>1. k \in P /\ k \in T
          BY <2>3 DEF Later
        <4>2. {j \in T : j < k} = {j \in P : j < k}
          BY <2>1, <2>2, <4>1
        <4>3. Before(T, k) = Before(P, k)
          BY <4>2 DEF Before
        <4>4. QED BY <4>1, <4>3 DEF Step
      <3>10. \A k \in Later(T) : f[k] \in Nat
        <4> TAKE k \in Later(T)
        <4>1. k \in T /\ Before(T, k) \in T /\ Before(T, k) < k
          BY <2>1, BeforeIs
        <4>2. Increase(series[Before(T, k)], series[k]) \in Nat
          BY <4>1
        <4>3. QED BY <4>1, <4>2 DEF Step
      <3>11. f[m] = Increase(series[q], series[m])
        BY <2>2, <3>8 DEF Step
      <3>12. /\ f[m] \in Nat /\ lo[m] - lo[q] <= f[m] /\ f[m] <= hi[m] - hi[q]
             /\ lo[m] \in Int /\ hi[m] \in Int /\ lo[q] \in Int /\ hi[q] \in Int
             /\ lo[Min(P)] \in Int /\ hi[Min(P)] \in Int
        BY <2>2, <2>3, <3>2, <3>4, <3>11
      <3>13. Max(T) = m /\ Max(P) = q
        OBVIOUS
      <3> HIDE DEF m, q, P, f, g
      <3>14. SumFunctionOnSet(f, Later(T)) = f[m] + SumFunctionOnSet(f, Later(P))
        BY <2>5, <3>7, <3>10, SumWithout
      <3>15. SumFunctionOnSet(f, Later(P)) = SumFunctionOnSet(g, Later(P))
        BY <2>5, <3>9, SumOfSameTerms
      <3>16. CounterDelta(series, T) = f[m] + CounterDelta(series, P)
        BY <2>4, <3>6, <3>14, <3>15
      <3>17. /\ CounterDelta(series, P) \in Nat
             /\ lo[q] - lo[Min(P)] <= CounterDelta(series, P)
             /\ CounterDelta(series, P) <= hi[q] - hi[Min(P)]
        BY <3>3, <3>13 DEF Fine
      <3>18. Fine(T)
        BY <3>5, <3>12, <3>13, <3>16, <3>17 DEF Fine
      <3>19. QED BY <3>18
    <2>8. QED BY <2>6, <2>7
  <1> HIDE DEF G
  <1>2. W \in G
    BY <1>1, SubsetInduction
  <1>3. QED BY <1>2 DEF G, Fine

\* Nothing is counted over no points.
LEMMA DeltaOfNothing == ASSUME NEW series PROVE CounterDelta(series, {}) = 0
  BY SumOfNothing DEF CounterDelta, Later

(* ------------------------------- the median ---------------------------- *)

LEMMA ValuesFinite ==
  ASSUME NEW series, NEW W, IsFiniteSet(W)
  PROVE  IsFiniteSet({series[k] : k \in W})
  <1> DEFINE T == {series[k] : k \in W}
             f == [k \in W |-> series[k]]
  <1>1. f \in [W -> T] /\ \A t \in T : \E k \in W : f[k] = t
    OBVIOUS
  <1>2. f \in Surjection(W, T)
    BY <1>1 DEF Surjection
  <1> HIDE DEF f, T
  <1>3. IsFiniteSet(T)
    BY <1>2, FS_Surjection
  <1>4. QED BY <1>3 DEF T

\* Values that stand at places of a series have one that is r-th.
LEMMA RankedIs ==
  ASSUME NEW series, NEW W, IsFiniteSet(W), \A k \in W : series[k] \in Int,
         NEW r \in Nat, 1 <= r, r <= Cardinality(W)
  PROVE  \E k \in W : Ranked(series, W, r) = series[k]
  <1> DEFINE vals == {series[k] : k \in W}
             Least(v) == {k \in W : series[k] <= v}
             Less(v) == {k \in W : series[k] < v}
             V == {v \in vals : Cardinality(Least(v)) >= r}
  <1>1. vals \subseteq Int /\ IsFiniteSet(vals)
    BY ValuesFinite
  <1>2. \A v \in Int : IsFiniteSet(Least(v)) /\ IsFiniteSet(Less(v))
    BY FS_Subset
  <1>3. W # {}
    BY FS_EmptySet
  <1>4. vals # {}
    BY <1>3
  <1>5. IsFiniteSet(V) /\ V \subseteq Int
    BY <1>1, FS_Subset
  <1>6. Max(vals) \in vals /\ \A v \in vals : v <= Max(vals)
    BY <1>1, <1>4, MaxIs
  <1>7. Least(Max(vals)) = W
    BY <1>6
  <1>8. V # {}
    BY <1>6, <1>7
  <1> DEFINE w == Min(V)
  <1>9. w \in V /\ w \in Int /\ \A v \in V : w <= v
    BY <1>5, <1>8, MinIs
  <1>10. Cardinality(Less(w)) < r
    <2>1. CASE Less(w) = {}
      <3>1. Cardinality(Less(w)) = 0
        BY <2>1, FS_EmptySet
      <3>2. QED BY <3>1
    <2>2. CASE Less(w) # {}
      <3> DEFINE below == {v \in vals : v < w}
                 u == Max(below)
      <3>1. IsFiniteSet(below) /\ below \subseteq Int /\ below # {}
        BY <1>1, <2>2, FS_Subset
      <3>2. u \in below /\ \A v \in below : v <= u
        BY <3>1, MaxIs
      <3>3. u \in vals /\ u < w /\ u \in Int
        BY <1>1, <3>2
      <3>3a. w \in Int
        BY <1>9
      <3>4. u \notin V
        <4>1. ~(w <= u)
          BY <3>3a, <3>3
        <4>2. QED BY <1>9, <4>1
      <3>5. Less(w) \subseteq Least(u)
        BY <3>2, <3>3
      <3> HIDE DEF w, u
      <3>6. Least(u) \subseteq Less(w)
        <4> SUFFICES ASSUME NEW k \in W, series[k] <= u PROVE series[k] < w
          OBVIOUS
        <4>1. series[k] \in Int
          OBVIOUS
        <4>2. QED BY <3>3a, <3>3, <4>1
      <3>7. Less(w) = Least(u)
        BY <3>5, <3>6
      <3>8. Cardinality(Least(u)) \in Nat
        BY <1>2, <3>3, FS_CardinalityType
      <3>9. ~(Cardinality(Least(u)) >= r)
        BY <3>3, <3>4
      <3>10. Cardinality(Less(w)) \in Nat /\ ~(Cardinality(Less(w)) >= r)
        BY <3>7, <3>8, <3>9
      <3> HIDE DEF Less
      <3>11. QED BY <3>10
    <2>3. QED BY <2>1, <2>2
  <1>11. \E v \in vals : Cardinality(Less(v)) < r /\ Cardinality(Least(v)) >= r
    BY <1>9, <1>10
  <1>12. Ranked(series, W, r) \in vals
    BY <1>11 DEF Ranked
  <1>13. QED BY <1>12

\* The median lies between the least and the greatest value.
LEMMA MedianBetween ==
  ASSUME NEW series, NEW W, IsFiniteSet(W), W # {}, \A k \in W : series[k] \in Int
  PROVE  LET vals == {series[k] : k \in W}
         IN  2 * Min(vals) <= Median2(series, W) /\ Median2(series, W) <= 2 * Max(vals)
  <1> DEFINE vals == {series[k] : k \in W}
             n == Cardinality(W)
             lo == Ranked(series, W, (n + 1) \div 2)
             hi == Ranked(series, W, n \div 2 + 1)
  <1>1. vals \subseteq Int /\ IsFiniteSet(vals) /\ vals # {}
    BY ValuesFinite
  <1>2. n \in Nat /\ n # 0
    BY FS_CardinalityType, FS_EmptySet
  <1>3. lo \in vals /\ hi \in vals
    <2> HIDE DEF n
    <2>1. /\ (n + 1) \div 2 \in Nat /\ 1 <= (n + 1) \div 2 /\ (n + 1) \div 2 <= n
          /\ n \div 2 + 1 \in Nat /\ 1 <= n \div 2 + 1 /\ n \div 2 + 1 <= n
      BY <1>2
    <2>2. n = Cardinality(W)
      BY DEF n
    <2>3. QED BY <2>1, <2>2, RankedIs
  <1>4. \A v \in vals : Min(vals) <= v /\ v <= Max(vals)
    BY <1>1, MaxIs, MinIs
  <1>5. Min(vals) \in Int /\ Max(vals) \in Int
    BY <1>1, MaxIs, MinIs
  <1>6. Median2(series, W) = lo + hi
    BY DEF Median2
  <1> HIDE DEF vals, lo, hi
  <1>7. lo \in Int /\ hi \in Int /\ Min(vals) <= lo /\ Min(vals) <= hi
        /\ lo <= Max(vals) /\ hi <= Max(vals)
    BY <1>1, <1>3, <1>4
  <1>8. QED BY <1>5, <1>6, <1>7 DEF vals

(* ------------------------------- invariant ----------------------------- *)

Tallies == [calls : Nat, errs : Nat, life : Nat]
Scrapes == [of : Tallies, truth : Tallies, age : Nat]

\* What Prometheus answers for a step, in each view.
Answers ==
    CASE view = "counters" -> [seen : Scrapes \cup {Null}, truth : Tallies]
      [] view \in {"gauge", "idle_gauge"} -> [level : Levels \cup {Null}]
      [] view = "spans" -> [at : Int, service : {"svc", "other"}, parent : {"other"},
                            entity : {"id", Null}, status : {"ERROR", "UNSET"}]

TypeOK ==
    /\ view \in {"counters", "gauge", "idle_gauge", "spans"} /\ phase \in {0, 1}
    /\ up \in BOOLEAN /\ counted \in Tallies /\ truth \in Tallies /\ shown \in Scrapes
    /\ made \in Nat /\ samples \in Seq(Answers) /\ faults \in 0..MaxFaults

\* From one state of the counters to a later one: what a life counts is what
\* happened in it, and what a later life counts has happened since.
Grows(k, l, a, b, ta, tb) == IF k = l THEN a <= b /\ b - a = tb - ta ELSE b <= tb - ta

\* Counters c in a world of truth ct, and later d in a world of truth dt.
Follows(c, ct, d, dt) ==
    /\ c.life <= d.life
    /\ Grows(c.life, d.life, c.calls, d.calls, ct.calls, dt.calls)
    /\ Grows(c.life, d.life, c.errs, d.errs, ct.errs, dt.errs)

\* What is shown is behind the counters, what was seen behind what is shown, and
\* of two that were seen the earlier behind the later.
Chained ==
    /\ Follows(shown.of, shown.truth, counted, truth)
    /\ Counters =>
       /\ \A k \in DOMAIN samples :
             LET s == samples[k].seen
             IN  s # Null => Follows(s.of, s.truth, shown.of, shown.truth)
       /\ \A j, k \in DOMAIN samples :
             LET s == samples[j].seen
                 t == samples[k].seen
             IN  j < k /\ s # Null /\ t # Null => Follows(s.of, s.truth, t.of, t.truth)

AlertsInv == TypeOK /\ Chained

\* The parameters, one by one.
LEMMA Parameters ==
  /\ BaseSteps \in Nat \ {0} /\ InjectSteps \in Nat \ {0}
  /\ ErrFloor \in Nat \ {0} /\ MinExpected \in Nat \ {0} /\ EntityFloor \in Nat \ {0}
  /\ Stale \in Nat /\ MaxCalls \in Nat /\ MaxFaults \in Nat /\ Levels \subseteq Nat
  BY AlertsAssumption

LEMMA TallyTypes ==
  ASSUME NEW c \in Tallies
  PROVE  c.calls \in Nat /\ c.errs \in Nat /\ c.life \in Nat
  BY DEF Tallies

LEMMA FollowsItself ==
  ASSUME NEW c \in Tallies, NEW ct \in Tallies
  PROVE  Follows(c, ct, c, ct)
  BY TallyTypes DEF Follows, Grows

\* The same of one counter: from a state to a later one and on, by one call, and
\* into the next life.
LEMMA GrowsOn ==
  ASSUME NEW k \in Nat, NEW l \in Nat, NEW m \in Nat, NEW a \in Nat, NEW b \in Nat,
         NEW c \in Nat, NEW ta \in Nat, NEW tb \in Nat, NEW tc \in Nat, k <= l, l <= m,
         Grows(k, l, a, b, ta, tb), Grows(l, m, b, c, tb, tc)
  PROVE  Grows(k, m, a, c, ta, tc)
  BY DEF Grows

LEMMA GrowsByCall ==
  ASSUME NEW k \in Nat, NEW l \in Nat, NEW a \in Nat, NEW b \in Nat,
         NEW ta \in Nat, NEW tb \in Nat, Grows(k, l, a, b, ta, tb), NEW n \in {0, 1}
  PROVE  Grows(k, l, a, b + n, ta, tb + n)
  BY DEF Grows

LEMMA GrowsByKill ==
  ASSUME NEW k \in Nat, NEW l \in Nat, NEW a \in Nat, NEW b \in Nat,
         NEW ta \in Nat, NEW tb \in Nat, Grows(k, l, a, b, ta, tb), k <= l
  PROVE  Grows(k, l + 1, a, 0, ta, tb)
  BY DEF Grows

\* Behind something that is behind something.
LEMMA FollowsOn ==
  ASSUME NEW c \in Tallies, NEW ct \in Tallies, NEW d \in Tallies, NEW dt \in Tallies,
         NEW e \in Tallies, NEW et \in Tallies, Follows(c, ct, d, dt), Follows(d, dt, e, et)
  PROVE  Follows(c, ct, e, et)
  <1>1. /\ c.calls \in Nat /\ c.errs \in Nat /\ c.life \in Nat
        /\ d.calls \in Nat /\ d.errs \in Nat /\ d.life \in Nat
        /\ e.calls \in Nat /\ e.errs \in Nat /\ e.life \in Nat
        /\ ct.calls \in Nat /\ ct.errs \in Nat /\ dt.calls \in Nat /\ dt.errs \in Nat
        /\ et.calls \in Nat /\ et.errs \in Nat
    BY TallyTypes
  <1>2. /\ c.life <= d.life /\ d.life <= e.life
        /\ Grows(c.life, d.life, c.calls, d.calls, ct.calls, dt.calls)
        /\ Grows(d.life, e.life, d.calls, e.calls, dt.calls, et.calls)
        /\ Grows(c.life, d.life, c.errs, d.errs, ct.errs, dt.errs)
        /\ Grows(d.life, e.life, d.errs, e.errs, dt.errs, et.errs)
    BY DEF Follows
  <1>3. Grows(c.life, e.life, c.calls, e.calls, ct.calls, et.calls)
    BY <1>1, <1>2, GrowsOn
  <1>4. Grows(c.life, e.life, c.errs, e.errs, ct.errs, et.errs)
    BY <1>1, <1>2, GrowsOn
  <1>5. c.life <= e.life
    BY <1>1, <1>2
  <1>6. QED BY <1>3, <1>4, <1>5 DEF Follows

\* A call in the counters and in the truth.
LEMMA Counted ==
  ASSUME NEW c \in Tallies, NEW failed \in BOOLEAN
  PROVE  LET d == OneMore(c, failed)
         IN  /\ d \in Tallies /\ d.calls = c.calls + 1 /\ d.life = c.life
             /\ d.errs = IF failed THEN c.errs + 1 ELSE c.errs
  <1>1. PICK x \in Nat : x = c.calls + 1
    BY TallyTypes
  <1>2. PICK y \in Nat : y = IF failed THEN c.errs + 1 ELSE c.errs
    BY TallyTypes
  <1>3. PICK e : e = [c EXCEPT !.calls = x]
    OBVIOUS
  <1>4. PICK d : d = [e EXCEPT !.errs = y]
    OBVIOUS
  <1>5. OneMore(c, failed) = d
    BY <1>1, <1>2, <1>3, <1>4, Zenon DEF OneMore
  <1>6. e \in Tallies /\ e.calls = x /\ e.life = c.life
    <2>1. [c EXCEPT !.calls = x] \in Tallies
      BY DEF Tallies
    <2>2. [c EXCEPT !.calls = x].calls = x
      BY DEF Tallies
    <2>3. [c EXCEPT !.calls = x].life = c.life
      BY DEF Tallies
    <2>4. QED BY <1>3, <2>1, <2>2, <2>3, Zenon
  <1>7. d \in Tallies /\ d.calls = e.calls /\ d.life = e.life /\ d.errs = y
    <2>1. [e EXCEPT !.errs = y] \in Tallies
      BY <1>6 DEF Tallies
    <2>2. [e EXCEPT !.errs = y].calls = e.calls
      BY <1>6 DEF Tallies
    <2>3. [e EXCEPT !.errs = y].life = e.life
      BY <1>6 DEF Tallies
    <2>4. [e EXCEPT !.errs = y].errs = y
      BY <1>6 DEF Tallies
    <2>5. QED BY <1>4, <2>1, <2>2, <2>3, <2>4, Zenon
  <1>8. QED BY <1>1, <1>2, <1>5, <1>6, <1>7, Zenon

LEMMA AlertsInitInv == Init => AlertsInv
  <1> SUFFICES ASSUME Init PROVE AlertsInv
    OBVIOUS
  <1>1. None \in Tallies
    BY DEF None, Tallies
  <1>2. samples = <<>> /\ samples \in Seq(Answers) /\ DOMAIN samples = {}
    BY DEF Init
  <1>3. TypeOK
    BY <1>1, <1>2, Parameters DEF Init, TypeOK, Scrapes
  <1>4. Follows(shown.of, shown.truth, counted, truth)
    <2>1. shown.of = None /\ shown.truth = None /\ counted = None /\ truth = None
      BY DEF Init
    <2>2. QED BY <1>1, <2>1, FollowsItself
  <1>5. QED BY <1>2, <1>3, <1>4 DEF AlertsInv, Chained

\* A step at which no sample is taken leaves what is shown behind the counters.
LEMMA CounterStep ==
  ASSUME AlertsInv, \/ Call(TRUE) \/ Call(FALSE) \/ Kill \/ Start
  PROVE  AlertsInv'
  <1> USE DEF AlertsInv, TypeOK
  <1>1. UNCHANGED <<view, phase, shown, samples>>
    BY DEF Call, Kill, Start
  <1>2. Answers' = Answers /\ Counters' = Counters
    BY <1>1 DEF Answers, Counters
  <1>3. up' \in BOOLEAN /\ made' \in Nat /\ faults' \in 0..MaxFaults
    <2>1. CASE Call(TRUE) \/ Call(FALSE)
      <3>1. up' = up /\ made' = made + 1 /\ faults' = faults
        BY <2>1, Zenon DEF Call
      <3>2. QED BY <3>1
    <2>2. CASE Kill \/ Start
      <3>1. /\ up' \in BOOLEAN /\ made' = made
            /\ (faults' = faults \/ (faults' = faults + 1 /\ faults < MaxFaults))
        BY <2>2 DEF Kill, Start
      <3>2. QED BY <3>1, Parameters
    <2>3. QED BY <2>1, <2>2
  <1>4. /\ counted' \in Tallies /\ truth' \in Tallies
        /\ Follows(shown.of, shown.truth, counted', truth')
    <2>1. /\ counted \in Tallies /\ truth \in Tallies
          /\ shown.of \in Tallies /\ shown.truth \in Tallies
          /\ Follows(shown.of, shown.truth, counted, truth)
      BY DEF Chained, Scrapes
    <2> DEFINE c == shown.of
               ct == shown.truth
    <2>2. /\ counted.calls \in Nat /\ counted.errs \in Nat /\ counted.life \in Nat
          /\ truth.calls \in Nat /\ truth.errs \in Nat
          /\ c.calls \in Nat /\ c.errs \in Nat /\ c.life \in Nat
          /\ ct.calls \in Nat /\ ct.errs \in Nat
      BY <2>1, TallyTypes
    <2> HIDE DEF c, ct
    <2>3. /\ c.life <= counted.life
          /\ Grows(c.life, counted.life, c.calls, counted.calls, ct.calls, truth.calls)
          /\ Grows(c.life, counted.life, c.errs, counted.errs, ct.errs, truth.errs)
      BY <2>1 DEF Follows, c, ct
    <2>4. ASSUME NEW failed \in BOOLEAN, Call(failed)
          PROVE  /\ counted' \in Tallies /\ truth' \in Tallies
                 /\ Follows(c, ct, counted', truth')
      <3>1. counted' = OneMore(counted, failed) /\ truth' = OneMore(truth, failed)
        BY <2>4 DEF Call
      <3>2. PICK n \in {0, 1} : n = IF failed THEN 1 ELSE 0
        OBVIOUS
      <3>3. /\ counted' \in Tallies /\ truth' \in Tallies /\ counted'.life = counted.life
            /\ counted'.calls = counted.calls + 1 /\ truth'.calls = truth.calls + 1
            /\ counted'.errs = IF failed THEN counted.errs + 1 ELSE counted.errs
            /\ truth'.errs = IF failed THEN truth.errs + 1 ELSE truth.errs
        BY <2>1, <3>1, Counted
      <3>4. counted'.errs = counted.errs + n /\ truth'.errs = truth.errs + n
        BY <2>2, <3>2, <3>3
      <3>5. Grows(c.life, counted.life, c.calls, counted.calls + 1, ct.calls, truth.calls + 1)
        BY <2>2, <2>3, GrowsByCall
      <3>6. Grows(c.life, counted.life, c.errs, counted.errs + n, ct.errs, truth.errs + n)
        BY <2>2, <2>3, GrowsByCall
      <3>7. QED BY <2>3, <3>3, <3>4, <3>5, <3>6, Zenon DEF Follows
    <2>5. CASE Kill
      <3>1. /\ counted' = [calls |-> 0, errs |-> 0, life |-> counted.life + 1]
            /\ truth' = truth
        BY <2>5 DEF Kill
      <3>2. /\ counted' \in Tallies /\ counted'.calls = 0 /\ counted'.errs = 0
            /\ counted'.life = counted.life + 1
        BY <2>2, <3>1 DEF Tallies
      <3>3. Grows(c.life, counted.life + 1, c.calls, 0, ct.calls, truth.calls)
        BY <2>2, <2>3, GrowsByKill
      <3>4. Grows(c.life, counted.life + 1, c.errs, 0, ct.errs, truth.errs)
        BY <2>2, <2>3, GrowsByKill
      <3>5. c.life <= counted.life + 1
        BY <2>2, <2>3
      <3>6. Follows(c, ct, counted', truth')
        BY <3>1, <3>2, <3>3, <3>4, <3>5, Zenon DEF Follows
      <3>7. QED BY <2>1, <3>1, <3>2, <3>6 DEF c, ct
    <2>6. CASE Start
      BY <2>1, <2>6 DEF Start, c, ct
    <2>7. QED BY <2>4, <2>5, <2>6 DEF c, ct
  <1>5. QED BY <1>1, <1>2, <1>3, <1>4 DEF Chained

\* What a sample adds to the samples.
LEMMA Taken ==
  ASSUME TypeOK, Answers' = Answers, NEW a \in Answers, samples' = Append(samples, a)
  PROVE  /\ samples' \in Seq(Answers') /\ Len(samples) \in Nat
         /\ DOMAIN samples = 1..Len(samples) /\ DOMAIN samples' = 1..(Len(samples) + 1)
         /\ \A k \in DOMAIN samples : samples'[k] = samples[k]
         /\ samples'[Len(samples) + 1] = a
  BY DEF TypeOK

\* A sample of the counters shows what follows on what was shown.
LEMMA SampledStep ==
  ASSUME AlertsInv, Counters, NEW s \in Scrapes, Sampled(s),
         Follows(shown.of, shown.truth, s.of, s.truth), Follows(s.of, s.truth, counted, truth),
         UNCHANGED <<view, phase, up, counted, truth>>, faults' \in 0..MaxFaults
  PROVE  AlertsInv'
  <1> DEFINE a == [seen |-> IF Showing(s) THEN s ELSE Null, truth |-> truth]
  <1>1. Answers' = Answers /\ Answers = [seen : Scrapes \cup {Null}, truth : Tallies]
    BY DEF Answers, Counters
  <1>2. a \in Answers /\ samples' = Append(samples, a) /\ shown' = s /\ made' = 0
    BY <1>1 DEF Sampled, AlertsInv, TypeOK
  <1>3. /\ samples' \in Seq(Answers') /\ Len(samples) \in Nat
        /\ DOMAIN samples = 1..Len(samples) /\ DOMAIN samples' = 1..(Len(samples) + 1)
        /\ \A k \in DOMAIN samples : samples'[k] = samples[k]
        /\ samples'[Len(samples) + 1] = a
    BY <1>1, <1>2, Taken DEF AlertsInv
  <1>4. TypeOK'
    BY <1>1, <1>2, <1>3 DEF AlertsInv, TypeOK
  <1>5. \A k \in DOMAIN samples : samples[k].seen \in Scrapes \cup {Null}
    <2>1. \A k \in DOMAIN samples : samples[k] \in Answers
      BY <1>3, ElementOfSeq DEF AlertsInv, TypeOK
    <2>2. QED BY <1>1, <2>1
  <1>6. Follows(shown'.of, shown'.truth, counted', truth')
    BY <1>2
  <1>7. ASSUME NEW k \in DOMAIN samples, samples[k].seen # Null
        PROVE  Follows(samples[k].seen.of, samples[k].seen.truth, s.of, s.truth)
    <2> DEFINE t == samples[k].seen
    <2>1. Follows(t.of, t.truth, shown.of, shown.truth)
      BY <1>7 DEF AlertsInv, Chained
    <2>2. t \in Scrapes /\ shown \in Scrapes
      BY <1>5, <1>7 DEF AlertsInv, TypeOK
    <2> HIDE DEF t
    <2>3. /\ t.of \in Tallies /\ t.truth \in Tallies /\ shown.of \in Tallies
          /\ shown.truth \in Tallies /\ s.of \in Tallies /\ s.truth \in Tallies
      BY <2>2 DEF Scrapes
    <2>4. Follows(t.of, t.truth, s.of, s.truth)
      BY <2>1, <2>3, FollowsOn
    <2>5. QED BY <2>4 DEF t
  <1>8. Follows(s.of, s.truth, s.of, s.truth)
    BY FollowsItself DEF Scrapes
  <1>9. \A k \in DOMAIN samples' :
          samples'[k].seen # Null =>
            Follows(samples'[k].seen.of, samples'[k].seen.truth, s.of, s.truth)
    <2> TAKE k \in DOMAIN samples'
    <2>1. CASE k \in DOMAIN samples
      BY <1>3, <1>7, <2>1
    <2>2. CASE k = Len(samples) + 1
      <3>1. samples'[k].seen # Null => samples'[k].seen = s
        BY <1>3, <2>2
      <3>2. QED BY <1>8, <3>1
    <2>3. QED BY <1>3, <2>1, <2>2
  <1>10. \A j, k \in DOMAIN samples' :
           j < k /\ samples'[j].seen # Null /\ samples'[k].seen # Null =>
             Follows(samples'[j].seen.of, samples'[j].seen.truth,
                     samples'[k].seen.of, samples'[k].seen.truth)
    <2> SUFFICES ASSUME NEW j \in DOMAIN samples', NEW k \in DOMAIN samples', j < k,
                        samples'[j].seen # Null, samples'[k].seen # Null
                 PROVE  Follows(samples'[j].seen.of, samples'[j].seen.truth,
                                samples'[k].seen.of, samples'[k].seen.truth)
      OBVIOUS
    <2>1. j \in DOMAIN samples
      BY <1>3
    <2>2. CASE k \in DOMAIN samples
      BY <1>3, <2>1, <2>2 DEF AlertsInv, Chained
    <2>3. CASE k = Len(samples) + 1
      <3>1. samples'[k].seen = s
        BY <1>3, <2>3
      <3>2. QED BY <1>9, <3>1
    <2>4. QED BY <1>3, <2>2, <2>3
  <1>11. QED BY <1>2, <1>4, <1>6, <1>9, <1>10 DEF AlertsInv, Chained

LEMMA PrometheusStep ==
  ASSUME AlertsInv, Sample \/ LoseScrape
  PROVE  AlertsInv'
  <1>1. Counters /\ UNCHANGED <<view, phase, up, counted, truth>> /\ faults' \in 0..MaxFaults
    BY Parameters DEF Sample, LoseScrape, AlertsInv, TypeOK
  <1>2. Sampled(Scraped) \/ Sampled(Aged)
    BY DEF Sample, LoseScrape
  <1>3. Scraped \in Scrapes /\ Aged \in Scrapes /\ shown \in Scrapes
    BY DEF Scraped, Aged, Scrapes, AlertsInv, TypeOK
  <1>4. /\ Follows(shown.of, shown.truth, counted, truth)
        /\ Follows(shown.of, shown.truth, shown.of, shown.truth)
        /\ Follows(counted, truth, counted, truth)
    BY <1>3, FollowsItself DEF AlertsInv, TypeOK, Chained, Scrapes
  <1>5. Scraped.of = counted /\ Scraped.truth = truth
    BY DEF Scraped
  <1>6. Aged.of = shown.of /\ Aged.truth = shown.truth
    BY <1>3 DEF Aged, Scrapes
  <1>7. QED BY <1>1, <1>2, <1>3, <1>4, <1>5, <1>6, SampledStep

LEMMA OtherViewStep ==
  ASSUME AlertsInv, Gauge \/ Span
  PROVE  AlertsInv'
  <1>1. /\ ~Counters /\ UNCHANGED <<view, phase, up, counted, truth, shown, made, faults>>
        /\ \E a \in Answers : samples' = Append(samples, a)
    <2>1. CASE Gauge
      <3>1. view \in {"gauge", "idle_gauge"}
        BY <2>1 DEF Gauge
      <3>2. Answers = [level : Levels \cup {Null}]
        BY <3>1 DEF Answers
      <3>3. QED BY <2>1, <3>1, <3>2 DEF Gauge, Counters
    <2>2. CASE Span
      <3>1. view = "spans"
        BY <2>2 DEF Span
      <3>2. Answers = [at : Int, service : {"svc", "other"}, parent : {"other"},
                       entity : {"id", Null}, status : {"ERROR", "UNSET"}]
        BY <3>1 DEF Answers
      <3>3. At(Len(samples) + 1) \in Int
        BY DEF At, AlertsInv, TypeOK
      <3>4. QED BY <2>2, <3>1, <3>2, <3>3 DEF Span, Counters
    <2>3. QED BY <2>1, <2>2
  <1>2. Answers' = Answers /\ ~Counters'
    BY <1>1 DEF Answers, Counters
  <1>3. samples' \in Seq(Answers')
    BY <1>1, <1>2, Taken DEF AlertsInv
  <1>4. TypeOK'
    BY <1>1, <1>2, <1>3 DEF AlertsInv, TypeOK
  <1>5. QED BY <1>1, <1>2, <1>4 DEF AlertsInv, Chained

\* The chain of scrapes holds in every behaviour.
LEMMA AlertsInvHolds == Spec => []AlertsInv
  <1>1. ASSUME AlertsInv, [Next]_vars PROVE AlertsInv'
    <2>1. CASE UNCHANGED vars
      BY <1>1, <2>1 DEF vars, AlertsInv, TypeOK, Chained, Answers, Counters
    <2>2. CASE Next
      BY <1>1, <2>2, CounterStep, PrometheusStep, OtherViewStep DEF Next
    <2>3. QED BY <1>1, <2>1, <2>2
  <1>2. QED BY AlertsInitInv, <1>1, PTL DEF Spec

\* The counters, the scrapes and the samples of a service stay within their
\* types, for windows of any length and any number of kills and lost scrapes.
THEOREM AlertsTypeCorrect == Spec => []TypeOK
  <1>1. AlertsInv => TypeOK
    BY DEF AlertsInv
  <1>2. QED BY AlertsInvHolds, <1>1, PTL

(* --------------------------- what detect() counts ---------------------- *)

\* What one step of counter_delta() adds.
LEMMA StepCounted ==
  ASSUME NEW k \in Nat, NEW l \in Nat, NEW a \in Nat, NEW b \in Nat,
         NEW ta \in Nat, NEW tb \in Nat, Grows(k, l, a, b, ta, tb)
  PROVE  /\ Increase(a, b) \in Nat /\ b - a <= Increase(a, b) /\ Increase(a, b) <= tb - ta
         /\ k = l => Increase(a, b) = tb - ta
  BY DEF Grows, Increase

\* Over points that are behind one another counter_delta() counts no more than
\* happened, no less than the counter grew, and all when the lives are the same.
LEMMA CountedOver ==
  ASSUME NEW W, IsFiniteSet(W), W \subseteq Int, W # {},
         NEW series, NEW happened, NEW life,
         \A k \in W : series[k] \in Nat /\ happened[k] \in Nat /\ life[k] \in Nat,
         \A i, j \in W : i < j =>
            /\ life[i] <= life[j]
            /\ Grows(life[i], life[j], series[i], series[j], happened[i], happened[j])
  PROVE  /\ Min(W) \in W /\ Max(W) \in W /\ CounterDelta(series, W) \in Nat
         /\ series[Max(W)] - series[Min(W)] <= CounterDelta(series, W)
         /\ CounterDelta(series, W) <= happened[Max(W)] - happened[Min(W)]
         /\ life[Max(W)] = life[Min(W)] =>
              CounterDelta(series, W) = happened[Max(W)] - happened[Min(W)]
  <1>1. /\ Min(W) \in W /\ Max(W) \in W /\ Min(W) \in Int /\ Max(W) \in Int
        /\ \A k \in W : Min(W) <= k /\ k <= Max(W)
    BY MaxIs, MinIs
  <1>2. \A i, j \in W : i < j =>
          /\ Increase(series[i], series[j]) \in Nat
          /\ series[j] - series[i] <= Increase(series[i], series[j])
          /\ Increase(series[i], series[j]) <= happened[j] - happened[i]
          /\ life[i] = life[j] =>
               Increase(series[i], series[j]) = happened[j] - happened[i]
    <2> SUFFICES ASSUME NEW i \in W, NEW j \in W, i < j
                 PROVE  /\ Increase(series[i], series[j]) \in Nat
                        /\ series[j] - series[i] <= Increase(series[i], series[j])
                        /\ Increase(series[i], series[j]) <= happened[j] - happened[i]
                        /\ life[i] = life[j] =>
                             Increase(series[i], series[j]) = happened[j] - happened[i]
      OBVIOUS
    <2>1. /\ series[i] \in Nat /\ happened[i] \in Nat /\ life[i] \in Nat
          /\ series[j] \in Nat /\ happened[j] \in Nat /\ life[j] \in Nat
          /\ Grows(life[i], life[j], series[i], series[j], happened[i], happened[j])
      OBVIOUS
    <2> DEFINE k == life[i]
               l == life[j]
               a == series[i]
               b == series[j]
               ta == happened[i]
               tb == happened[j]
    <2>2. /\ k \in Nat /\ l \in Nat /\ a \in Nat /\ b \in Nat /\ ta \in Nat /\ tb \in Nat
          /\ Grows(k, l, a, b, ta, tb)
      BY <2>1
    <2> HIDE DEF k, l, a, b, ta, tb
    <2>3. /\ Increase(a, b) \in Nat /\ b - a <= Increase(a, b) /\ Increase(a, b) <= tb - ta
          /\ k = l => Increase(a, b) = tb - ta
      BY <2>2, StepCounted
    <2>4. QED BY <2>3 DEF k, l, a, b, ta, tb
  <1>3. \A k \in W : series[k] \in Int /\ happened[k] \in Int
    OBVIOUS
  <1>4. /\ CounterDelta(series, W) \in Nat
        /\ series[Max(W)] - series[Min(W)] <= CounterDelta(series, W)
        /\ CounterDelta(series, W) <= happened[Max(W)] - happened[Min(W)]
    BY <1>2, <1>3, DeltaBetween
  <1>5. ASSUME life[Max(W)] = life[Min(W)]
        PROVE  CounterDelta(series, W) = happened[Max(W)] - happened[Min(W)]
    <2>1. \A k \in W : life[k] = life[Min(W)]
      <3> TAKE k \in W
      <3>1. Min(W) = k \/ Min(W) < k
        BY <1>1
      <3>2. Max(W) = k \/ k < Max(W)
        BY <1>1
      <3>3. life[Min(W)] <= life[k] /\ life[k] <= life[Max(W)]
        BY <1>1, <3>1, <3>2
      <3>4. life[k] \in Nat /\ life[Min(W)] \in Nat
        BY <1>1
      <3>5. QED BY <1>5, <3>3, <3>4
    <2>2. \A i, j \in W : i < j =>
            Increase(series[i], series[j]) = happened[j] - happened[i]
      <3> SUFFICES ASSUME NEW i \in W, NEW j \in W, i < j
                   PROVE  Increase(series[i], series[j]) = happened[j] - happened[i]
        OBVIOUS
      <3>1. life[i] = life[j]
        BY <2>1
      <3>2. QED BY <1>2, <3>1
    <2>3. \A i, j \in W : i < j =>
            /\ Increase(series[i], series[j]) \in Nat
            /\ happened[j] - happened[i] <= Increase(series[i], series[j])
            /\ Increase(series[i], series[j]) <= happened[j] - happened[i]
      BY <1>2, <1>3, <2>2
    <2>4. /\ CounterDelta(series, W) \in Nat
          /\ happened[Max(W)] - happened[Min(W)] <= CounterDelta(series, W)
          /\ CounterDelta(series, W) <= happened[Max(W)] - happened[Min(W)]
      BY <1>3, <2>3, DeltaBetween
    <2>5. happened[Max(W)] \in Int /\ happened[Min(W)] \in Int
      BY <1>1, <1>3
    <2>6. QED BY <2>4, <2>5
  <1>6. QED BY <1>1, <1>4, <1>5

(* ------------------------------- the windows --------------------------- *)

\* A window of a series is a finite set of places where it has a value.
LEMMA WindowIs ==
  ASSUME TypeOK, NEW series, DOMAIN series = DOMAIN samples, NEW t0, NEW t1
  PROVE  LET W == In(series, t0, t1)
         IN  /\ IsFiniteSet(W) /\ W \subseteq DOMAIN samples /\ W \subseteq Int
             /\ \A k \in W : series[k] # Null
  <1>1. DOMAIN samples = 1..Len(samples) /\ Len(samples) \in Nat
    BY DEF TypeOK
  <1>2. IsFiniteSet(DOMAIN samples) /\ DOMAIN samples \subseteq Int
    BY <1>1, FS_Interval
  <1>3. In(series, t0, t1) \subseteq DOMAIN samples
    BY DEF In
  <1>4. IsFiniteSet(In(series, t0, t1))
    BY <1>2, <1>3, FS_Subset
  <1>5. QED BY <1>2, <1>3, <1>4 DEF In

\* A sample of the counters.
LEMMA SampleIs ==
  ASSUME TypeOK, Counters, NEW k \in DOMAIN samples
  PROVE  /\ samples[k].truth \in Tallies /\ samples[k].seen \in Scrapes \cup {Null}
         /\ samples[k].seen # Null =>
              samples[k].seen.of \in Tallies /\ samples[k].seen.truth \in Tallies
  <1>1. Answers = [seen : Scrapes \cup {Null}, truth : Tallies]
    BY DEF Answers, Counters
  <1>2. samples[k] \in Answers
    BY ElementOfSeq DEF TypeOK
  <1>3. QED BY <1>1, <1>2 DEF Scrapes

\* One of the two counters.
LEMMA TallyOf ==
  ASSUME NEW what \in {"calls", "errs"}, NEW c \in Tallies
  PROVE  c[what] \in Nat
  BY DEF Tallies

LEMMA FollowsOf ==
  ASSUME NEW what \in {"calls", "errs"}, NEW c, NEW ct, NEW d, NEW dt, Follows(c, ct, d, dt)
  PROVE  c.life <= d.life /\ Grows(c.life, d.life, c[what], d[what], ct[what], dt[what])
  <1>1. CASE what = "calls"
    BY <1>1 DEF Follows
  <1>2. CASE what = "errs"
    BY <1>2 DEF Follows
  <1>3. QED BY <1>1, <1>2

\* A series of a counter shows, where it has a point, what was seen there.
Shows(series, what) ==
    /\ DOMAIN series = DOMAIN samples
    /\ \A k \in DOMAIN samples : series[k] # Null =>
          samples[k].seen # Null /\ series[k] = samples[k].seen.of[what]

LEMMA SeriesShow ==
  ASSUME TypeOK
  PROVE  Shows(CallsAt, "calls") /\ Shows(ErrsAt, "errs")
  BY DEF Shows, CallsAt, ErrsAt

\* What detect() counts of it over some of its points.
LEMMA SeriesOver ==
  ASSUME AlertsInv, Counters, NEW what \in {"calls", "errs"}, NEW series, Shows(series, what),
         NEW W, W \subseteq DOMAIN samples, IsFiniteSet(W), W \subseteq Int, W # {},
         \A k \in W : series[k] # Null
  PROVE  LET first == samples[Min(W)].seen
             last  == samples[Max(W)].seen
         IN  /\ Min(W) \in W /\ Max(W) \in W /\ CounterDelta(series, W) \in Nat
             /\ \A k \in W : series[k] \in Nat
             /\ series[Max(W)] - series[Min(W)] <= CounterDelta(series, W)
             /\ CounterDelta(series, W) <= last.truth[what] - first.truth[what]
             /\ last.of.life = first.of.life =>
                  CounterDelta(series, W) = last.truth[what] - first.truth[what]
  <1> DEFINE happened == [k \in W |-> samples[k].seen.truth[what]]
             life == [k \in W |-> samples[k].seen.of.life]
  <1>1. \A k \in W : /\ samples[k].seen # Null /\ series[k] = samples[k].seen.of[what]
                     /\ samples[k].seen.of \in Tallies /\ samples[k].seen.truth \in Tallies
    BY SampleIs DEF AlertsInv, Shows
  <1>2. \A k \in W : /\ samples[k].seen.of[what] \in Nat /\ samples[k].seen.of.life \in Nat
                     /\ samples[k].seen.truth[what] \in Nat
    BY <1>1, TallyTypes, TallyOf
  <1>3. \A k \in W : series[k] \in Nat /\ happened[k] \in Nat /\ life[k] \in Nat
    BY <1>1, <1>2
  <1>4. \A i, j \in W : i < j =>
          /\ life[i] <= life[j]
          /\ Grows(life[i], life[j], series[i], series[j], happened[i], happened[j])
    <2> SUFFICES ASSUME NEW i \in W, NEW j \in W, i < j
                 PROVE  /\ life[i] <= life[j]
                        /\ Grows(life[i], life[j], series[i], series[j],
                                 happened[i], happened[j])
      OBVIOUS
    <2> DEFINE a == samples[i].seen
               b == samples[j].seen
    <2>1. Follows(a.of, a.truth, b.of, b.truth)
      BY <1>1 DEF AlertsInv, Chained
    <2>2. /\ a.of.life <= b.of.life
          /\ Grows(a.of.life, b.of.life, a.of[what], b.of[what], a.truth[what], b.truth[what])
      <3> HIDE DEF a, b
      <3>1. QED BY <2>1, FollowsOf
    <2>3. /\ series[i] = a.of[what] /\ series[j] = b.of[what]
          /\ life[i] = a.of.life /\ life[j] = b.of.life
          /\ happened[i] = a.truth[what] /\ happened[j] = b.truth[what]
      BY <1>1
    <2> HIDE DEF a, b, life, happened
    <2>4. QED BY <2>2, <2>3
  <1>5. /\ Min(W) \in W /\ Max(W) \in W /\ CounterDelta(series, W) \in Nat
        /\ series[Max(W)] - series[Min(W)] <= CounterDelta(series, W)
        /\ CounterDelta(series, W) <= happened[Max(W)] - happened[Min(W)]
        /\ life[Max(W)] = life[Min(W)] =>
             CounterDelta(series, W) = happened[Max(W)] - happened[Min(W)]
    <2> HIDE DEF happened, life
    <2>1. QED BY <1>3, <1>4, CountedOver
  <1>6. QED BY <1>3, <1>5

\* The windows of the two series.
LEMMA BackedOf ==
  ASSUME AlertsInv, Counters, NEW what \in {"calls", "errs"}, NEW series, Shows(series, what)
  PROVE  Backed(series, what)
  <1>1. ASSUME NEW W \in {Base(series), Inject(series)}, W # {}
        PROVE  LET first == samples[Min(W)].seen
                   last  == samples[Max(W)].seen
                   real  == last.truth[what] - first.truth[what]
               IN  /\ CounterDelta(series, W) <= real
                   /\ last.of.life = first.of.life => CounterDelta(series, W) = real
    <2>1. /\ W \subseteq DOMAIN samples /\ IsFiniteSet(W) /\ W \subseteq Int
          /\ \A k \in W : series[k] # Null
      BY WindowIs DEF Base, Inject, AlertsInv, Shows
    <2>2. QED BY <1>1, <2>1, SeriesOver
  <1>2. QED BY <1>1 DEF Backed

\* detect() counts no call and no error that did not happen between the scrapes
\* it sees, and all of them when no restart falls between: for windows of any
\* length, and however many kills and lost scrapes.
THEOREM CountsAreBacked == Spec => []CountsBacked
  <1>1. AlertsInv => CountsBacked
    <2> SUFFICES ASSUME AlertsInv, Counters PROVE Backed(CallsAt, "calls") /\ Backed(ErrsAt, "errs")
      BY DEF CountsBacked
    <2>1. Shows(CallsAt, "calls") /\ Shows(ErrsAt, "errs")
      BY SeriesShow DEF AlertsInv
    <2>2. QED BY <2>1, BackedOf
  <1>2. QED BY AlertsInvHolds, <1>1, PTL

(* ---------------------------- what the tools say ----------------------- *)

LEMMA MaxOfTwo ==
  ASSUME NEW x \in Int, NEW y \in Int
  PROVE  Max({x, y}) = IF x <= y THEN y ELSE x
  <1> DEFINE S == {x, y}
  <1>1. IsFiniteSet(S) /\ S \subseteq Int
    <2>1. S = {x} \cup {y} /\ IsFiniteSet({x})
      BY FS_Singleton
    <2>2. QED BY <2>1, FS_AddElement
  <1>2. (IF x <= y THEN y ELSE x) \in S /\ \A z \in S : z <= IF x <= y THEN y ELSE x
    OBVIOUS
  <1> HIDE DEF S
  <1>3. Max(S) = IF x <= y THEN y ELSE x
    BY <1>1, <1>2, MaxIsThat
  <1>4. QED BY <1>3 DEF S

LEMMA MinOfTwo ==
  ASSUME NEW x \in Int, NEW y \in Int
  PROVE  Min({x, y}) = IF x <= y THEN x ELSE y
  <1> DEFINE S == {x, y}
  <1>1. IsFiniteSet(S) /\ S \subseteq Int
    <2>1. S = {x} \cup {y} /\ IsFiniteSet({x})
      BY FS_Singleton
    <2>2. QED BY <2>1, FS_AddElement
  <1>2. (IF x <= y THEN x ELSE y) \in S /\ \A z \in S : (IF x <= y THEN x ELSE y) <= z
    OBVIOUS
  <1> HIDE DEF S
  <1>3. Min(S) = IF x <= y THEN x ELSE y
    BY <1>1, <1>2, MinIsThat
  <1>4. QED BY <1>3 DEF S

\* The windows, in half steps, and what the tools make of them.
LEMMA Windows ==
  /\ InjectAt \in Nat /\ RevertAt \in Nat /\ InjectAt < RevertAt
  /\ From(Pack, InjectAt) = InjectAt /\ To(Pack, RevertAt) = RevertAt
  /\ WindowOk(Pack, InjectAt, RevertAt)
  <1>1. InjectAt \in Nat /\ RevertAt \in Nat /\ InjectAt < RevertAt
    BY Parameters DEF InjectAt, RevertAt
  <1>2. Pack.start = -2 /\ Pack.end = RevertAt + 2
    BY DEF Pack
  <1>3. Given(InjectAt, -2) = InjectAt /\ Given(RevertAt, RevertAt + 2) = RevertAt
    BY <1>1, NoTimeIsNull DEF Given
  <1>4. Max({InjectAt, -2}) = InjectAt
    BY <1>1, MaxOfTwo
  <1>5. Min({RevertAt, RevertAt + 2}) = RevertAt
    BY <1>1, MinOfTwo
  <1>6. From(Pack, InjectAt) = InjectAt /\ To(Pack, RevertAt) = RevertAt
    BY <1>2, <1>3, <1>4, <1>5 DEF From, To
  <1>7. WindowOk(Pack, InjectAt, RevertAt)
    BY <1>1, <1>2, <1>3 DEF WindowOk
  <1>8. QED BY <1>1, <1>6, <1>7

\* The values of a series during the injection.
Values(series) == {series[k] : k \in Inject(series)}

\* The answer about a metric: the row of the service, over the window of the alert.
LEMMA AskedIs ==
  ASSUME TypeOK, NEW series, NEW metric \in DOMAIN Pack.metrics,
         Pack.metrics[metric] = [key \in {Svc} |-> Points(series)],
         DOMAIN series = DOMAIN samples, Inject(series) # {}
  PROVE  /\ ~Asked(metric).refused
         /\ \A row \in Asked(metric).rows :
              /\ row.points = Cardinality(Inject(series))
              /\ row.first = series[Min(Inject(series))]
              /\ row.last = series[Max(Inject(series))]
              /\ row.min = Min(Values(series)) /\ row.max = Max(Values(series))
  <1> DEFINE W == Inject(series)
             points == Points(series)
             n == Given(Null, MaxPoints)
  <1>1. InWindow(points, InjectAt, RevertAt) = W
    BY DEF InWindow, Points, Inject, In
  <1>2. IsFiniteSet(W) /\ W \subseteq DOMAIN series /\ W \subseteq Int /\ W # {}
    BY WindowIs DEF Inject
  <1>3. ServiceOk(Pack, "svc")
    <2>1. Svc \in Keys(Pack)
      BY DEF Keys
    <2>2. Svc.service = "svc"
      BY DEF Svc
    <2>3. QED BY <2>1, <2>2 DEF ServiceOk, KnownServices
  <1>4. DOMAIN Pack.metrics[metric] = {Svc} /\ Pack.metrics[metric][Svc] = points
        /\ Svc.service = "svc"
    BY DEF Svc
  <1>5. LimitOk(Null, MaxPoints)
    BY DEF LimitOk
  <1> HIDE DEF points, n, W
  <1>6. Asked(metric) = [refused |-> FALSE, rows |-> {Row(Svc, points, W, n)}]
    <2> DEFINE pts(key) == InWindow(Pack.metrics[metric][key], From(Pack, InjectAt),
                                    To(Pack, RevertAt))
               keys == {key \in DOMAIN Pack.metrics[metric] :
                          ("svc" = Null \/ key.service = "svc") /\ pts(key) # {}}
    <2>1. pts(Svc) = W
      BY <1>1, <1>4, Windows
    <2>2. keys = {Svc}
      BY <1>2, <1>4, <2>1
    <2> DEFINE rows == {Row(key, Pack.metrics[metric][key], pts(key), n) : key \in keys}
    <2>3. rows = {Row(Svc, points, W, n)}
      <3> HIDE DEF keys, pts
      <3>1. QED BY <1>4, <2>1, <2>2
    <2>4. Asked(metric) = [refused |-> FALSE, rows |-> rows]
      <3>1. ~(\/ metric \notin DOMAIN Pack.metrics \/ ~ServiceOk(Pack, "svc")
              \/ ~WindowOk(Pack, InjectAt, RevertAt) \/ ~LimitOk(Null, MaxPoints)
              \/ ("svc" # Null /\ keys = {}))
        <4> HIDE DEF keys, pts
        <4>1. QED BY <1>3, <1>5, <2>2, Windows
      <3>2. QED BY <3>1, Zenon DEF Asked, MetricsQuery, n
    <2>5. QED BY <2>3, <2>4
  <1>7. \A k \in W : points[k].v = series[k]
    BY <1>2 DEF points, Points
  <1>8. {points[k].v : k \in W} = Values(series)
    BY <1>7 DEF Values, W
  <1>9. Min(W) \in W /\ Max(W) \in W
    BY <1>2, MinIs, MaxIs
  <1>10. LET row == Row(Svc, points, W, n)
         IN  /\ row.points = Cardinality(W)
             /\ row.first = series[Min(W)] /\ row.last = series[Max(W)]
             /\ row.min = Min(Values(series)) /\ row.max = Max(Values(series))
    BY <1>7, <1>8, <1>9 DEF Row
  <1>11. QED BY <1>6, <1>10 DEF W

\* A window of a series that has points in it: what is counted is a natural
\* number, and nothing is counted over none.
LEMMA CountIsNat ==
  ASSUME AlertsInv, Counters, NEW what \in {"calls", "errs"}, NEW series, Shows(series, what),
         NEW t0, NEW t1
  PROVE  CounterDelta(series, In(series, t0, t1)) \in Nat
  <1> DEFINE W == In(series, t0, t1)
  <1>1. CASE W = {}
    BY <1>1, DeltaOfNothing
  <1>2. CASE W # {}
    <2>1. /\ W \subseteq DOMAIN samples /\ IsFiniteSet(W) /\ W \subseteq Int
          /\ \A k \in W : series[k] # Null
      BY WindowIs DEF AlertsInv, Shows
    <2> HIDE DEF W
    <2>2. CounterDelta(series, W) \in Nat
      BY <1>2, <2>1, SeriesOver
    <2>3. QED BY <2>2 DEF W
  <1>3. QED BY <1>1, <1>2

\* Rule 1 fires only on errors, and so on a window that shows some.
LEMMA JumpIsSeen ==
  ASSUME AlertsInv, Counters, ErrorRateJump
  PROVE  Inject(ErrsAt) # {}
  <1>1. BaseCalls \in Nat /\ InjectErrs \in Nat
    BY SeriesShow, CountIsNat DEF BaseCalls, InjectErrs, Base, Inject, AlertsInv
  <1>2. CeilDiv(BaseCalls * InjectSteps, 4 * BaseSteps) \in Int
    <2>1. /\ BaseCalls * InjectSteps \in Nat /\ 4 * BaseSteps \in Nat
          /\ 4 * BaseSteps > 0
      BY <1>1, Parameters
    <2> DEFINE m == BaseCalls * InjectSteps
               n == 4 * BaseSteps
    <2> HIDE DEF m, n
    <2>2. m \in Nat /\ n \in Nat /\ n > 0
      BY <2>1 DEF m, n
    <2>3. (m + n - 1) \div n \in Int
      BY <2>2
    <2>4. QED BY <2>3 DEF CeilDiv, m, n
  <1>3. ErrThreshold \in Int /\ ErrFloor <= ErrThreshold
    <2>1. PICK x \in Int : x = CeilDiv(BaseCalls * InjectSteps, 4 * BaseSteps)
      BY <1>2
    <2>2. ErrThreshold = Max({ErrFloor, x})
      BY <2>1 DEF ErrThreshold
    <2>3. QED BY <2>2, Parameters, MaxOfTwo
  <1>4. InjectErrs > 0
    BY <1>1, <1>3, Parameters DEF ErrorRateJump
  <1>5. QED BY <1>4, DeltaOfNothing DEF InjectErrs

\* The levels of a gauge over a window.
LEMMA LevelsAre ==
  ASSUME TypeOK, view \in {"gauge", "idle_gauge"}, NEW t0, NEW t1
  PROVE  LET W == In(LevelAt, t0, t1)
         IN  IsFiniteSet(W) /\ DOMAIN LevelAt = DOMAIN samples /\ \A k \in W : LevelAt[k] \in Int
  <1> DEFINE W == In(LevelAt, t0, t1)
  <1>1. DOMAIN LevelAt = DOMAIN samples
    BY DEF LevelAt
  <1>2. IsFiniteSet(W) /\ W \subseteq DOMAIN samples /\ \A k \in W : LevelAt[k] # Null
    BY <1>1, WindowIs
  <1>3. Answers = [level : Levels \cup {Null}]
    BY DEF Answers
  <1>4. \A k \in DOMAIN samples : samples[k] \in Answers
    BY ElementOfSeq DEF TypeOK
  <1>5. \A k \in DOMAIN samples : LevelAt[k] \in Levels \cup {Null}
    BY <1>3, <1>4 DEF LevelAt
  <1> HIDE DEF W
  <1>6. \A k \in W : LevelAt[k] \in Int
    <2> TAKE k \in W
    <2>1. LevelAt[k] \in Levels \cup {Null} /\ LevelAt[k] # Null
      BY <1>2, <1>5
    <2>2. LevelAt[k] \in Levels
      BY <2>1, Zenon
    <2>3. Levels \subseteq Int
      BY Parameters
    <2>4. QED BY <2>2, <2>3, Zenon
  <1>7. QED BY <1>1, <1>2, <1>6 DEF W

\* The errors that rule 6 counts on the entity of a service are among the spans
\* the tool finds.
LEMMA SpansAreFound ==
  ASSUME TypeOK, view = "spans", NEW s, EntityConcentration(s)
  PROVE  LET a == TracesQuery(Pack, s, Null, "ERROR", InjectAt, RevertAt, Null)
         IN  ~a.refused /\ a.errors >= EntityErrors(s)
  <1> DEFINE M == Matched(Pack, s, Null, "ERROR", InjectAt, RevertAt)
             E == {k \in M : Pack.spans[k].status = "ERROR"}
             F == {k \in OnEntity(s) : samples[k].status = "ERROR"}
  <1>1. Pack.spans = samples
    BY DEF Pack
  <1>2. DOMAIN samples = 1..Len(samples) /\ Len(samples) \in Nat
    BY DEF TypeOK
  <1>3. F \subseteq E /\ E \subseteq DOMAIN samples /\ F \subseteq OnEntity(s)
    BY <1>1 DEF Matched, OnEntity
  <1>4. IsFiniteSet(E) /\ IsFiniteSet(F)
    <2>1. IsFiniteSet(DOMAIN samples)
      BY <1>2, FS_Interval
    <2> HIDE DEF E, F
    <2>2. QED BY <1>3, <2>1, FS_Subset
  <1>5. Cardinality(F) <= Cardinality(E) /\ Cardinality(F) \in Nat /\ Cardinality(E) \in Nat
    BY <1>3, <1>4, FS_Subset, FS_CardinalityType
  <1>6. EntityErrors(s) = Cardinality(F)
    BY DEF EntityErrors
  <1>7. F # {}
    <2> HIDE DEF F
    <2>1. Cardinality(F) # 0
      BY <1>5, <1>6, Parameters DEF EntityConcentration
    <2>2. QED BY <2>1, FS_EmptySet
  <1>8. ServiceOk(Pack, s)
    <2>1. PICK k \in DOMAIN samples : samples[k].service = s
      BY <1>7 DEF OnEntity
    <2>2. s \in {Pack.spans[i].service : i \in DOMAIN Pack.spans}
      BY <1>1, <2>1
    <2>3. QED BY <2>2 DEF ServiceOk, KnownServices
  <1>9. ServiceOk(Pack, Null) /\ LimitOk(Null, MaxSamples)
    BY DEF ServiceOk, LimitOk
  <1> DEFINE a == TracesQuery(Pack, s, Null, "ERROR", InjectAt, RevertAt, Null)
  <1>10. ~a.refused /\ a.errors = Cardinality(E)
    <2>1. ~(\/ ~ServiceOk(Pack, s) \/ ~ServiceOk(Pack, Null)
            \/ ~WindowOk(Pack, InjectAt, RevertAt) \/ ~LimitOk(Null, MaxSamples))
      BY <1>8, <1>9, Windows
    <2>2. Matched(Pack, s, Null, "ERROR", From(Pack, InjectAt), To(Pack, RevertAt)) = M
      BY Windows
    <2> HIDE DEF M
    <2>3. a = [refused |-> FALSE, matched |-> Cardinality(M), errors |-> Cardinality(E),
               samples |-> {Pack.spans[k] : k \in Thinned(M, Given(Null, Samples))}]
      BY <2>1, <2>2 DEF TracesQuery
    <2> HIDE DEF a, E
    <2>4. QED BY <2>3
  <1> HIDE DEF a, E, F
  <1>11. QED BY <1>5, <1>6, <1>10 DEF a

\* What an agent is told when it asks about an alert bears it out, over windows
\* of any length: the growth of the counter and the range of the gauge agree with
\* the observed value, and the errors counted on an entity are there.
THEOREM AlertsAreBorneOut == Spec => []AnswersBearOutAlerts
  <1>1. AlertsInv => AnswersBearOutAlerts
    <2> SUFFICES ASSUME AlertsInv PROVE AnswersBearOutAlerts
      OBVIOUS
    <2>1. TypeOK
      BY DEF AlertsInv
    <2>2. ASSUME Fires.error_rate_jump
          PROVE  Answered("errors_total", LAMBDA row : row.last - row.first <= InjectErrs)
      <3>1. Counters /\ ErrorRateJump
        BY <2>2 DEF Fires
      <3>2. Shows(ErrsAt, "errs") /\ Inject(ErrsAt) # {}
        BY <2>1, <3>1, SeriesShow, JumpIsSeen
      <3>3. /\ "errors_total" \in DOMAIN Pack.metrics
            /\ Pack.metrics["errors_total"] = [key \in {Svc} |-> Points(ErrsAt)]
        BY <3>1 DEF Pack
      <3> DEFINE W == Inject(ErrsAt)
      <3>4. /\ W \subseteq DOMAIN samples /\ IsFiniteSet(W) /\ W \subseteq Int
            /\ \A k \in W : ErrsAt[k] # Null
        BY <2>1, <3>2, WindowIs DEF Inject, Shows
      <3>5. ErrsAt[Max(W)] - ErrsAt[Min(W)] <= CounterDelta(ErrsAt, W)
        <4> HIDE DEF W
        <4>1. W # {}
          BY <3>2 DEF W
        <4>2. QED BY <3>1, <3>2, <3>4, <4>1, SeriesOver
      <3>6. /\ ~Asked("errors_total").refused
            /\ \A row \in Asked("errors_total").rows :
                 row.last = ErrsAt[Max(W)] /\ row.first = ErrsAt[Min(W)]
        BY <2>1, <3>2, <3>3, AskedIs DEF Shows
      <3>7. QED BY <3>5, <3>6 DEF Answered, InjectErrs
    <2>3. ASSUME Fires.traffic_zero, Inject(CallsAt) # {}
          PROVE  Answered("calls_total",
                          LAMBDA row : row.points = Cardinality(Inject(CallsAt)))
      <3>1. Counters
        BY <2>3 DEF Fires
      <3>2. DOMAIN CallsAt = DOMAIN samples
        BY DEF CallsAt
      <3>3. /\ "calls_total" \in DOMAIN Pack.metrics
            /\ Pack.metrics["calls_total"] = [key \in {Svc} |-> Points(CallsAt)]
        BY <3>1 DEF Pack
      <3>4. /\ ~Asked("calls_total").refused
            /\ \A row \in Asked("calls_total").rows : row.points = Cardinality(Inject(CallsAt))
        BY <2>1, <2>3, <3>2, <3>3, AskedIs
      <3>5. QED BY <3>4 DEF Answered
    <2>4. ASSUME view \in {"gauge", "idle_gauge"}, Inject(LevelAt) # {}
          PROVE  /\ ~Asked("level").refused
                 /\ \A row \in Asked("level").rows :
                      /\ row.min = Min(Values(LevelAt)) /\ row.max = Max(Values(LevelAt))
                      /\ row.last = LevelAt[Max(Inject(LevelAt))]
      <3>1. DOMAIN LevelAt = DOMAIN samples
        BY DEF LevelAt
      <3>2. /\ "level" \in DOMAIN Pack.metrics
            /\ Pack.metrics["level"] = [key \in {Svc} |-> Points(LevelAt)]
        BY <2>4 DEF Pack, Counters
      <3>3. QED BY <2>1, <2>4, <3>1, <3>2, AskedIs
    <2>5. ASSUME Fires.p95_jump \/ Fires.method_latency_jump
          PROVE  Answered("level", LAMBDA row : LET m == Median2(LevelAt, Inject(LevelAt))
                                                IN  2 * row.min <= m /\ m <= 2 * row.max)
      <3>1. view \in {"gauge", "idle_gauge"} /\ Inject(LevelAt) # {}
        BY <2>5 DEF Fires, P95Jump
      <3>2. IsFiniteSet(Inject(LevelAt)) /\ \A k \in Inject(LevelAt) : LevelAt[k] \in Int
        BY <2>1, <3>1, LevelsAre DEF Inject
      <3>3. LET m == Median2(LevelAt, Inject(LevelAt))
            IN  2 * Min(Values(LevelAt)) <= m /\ m <= 2 * Max(Values(LevelAt))
        BY <3>1, <3>2, MedianBetween DEF Values
      <3>4. QED BY <2>4, <3>1, <3>3 DEF Answered
    <2>6. ASSUME Fires.memory_over_line
          PROVE  Answered("level", LAMBDA row : row.last = LevelAt[Max(Inject(LevelAt))])
      <3>1. view = "gauge" /\ Cardinality(Inject(LevelAt)) >= 2
        BY <2>6 DEF Fires, MemoryOverLine
      <3>2. Inject(LevelAt) # {}
        BY <3>1, FS_EmptySet
      <3>3. QED BY <2>4, <3>1, <3>2 DEF Answered
    <2>7. ASSUME NEW s \in Fires.entity_error_concentration
          PROVE  LET a == TracesQuery(Pack, s, Null, "ERROR", InjectAt, RevertAt, Null)
                 IN  ~a.refused /\ a.errors >= EntityErrors(s)
      <3>1. view = "spans" /\ EntityConcentration(s)
        BY <2>7 DEF Fires
      <3>2. QED BY <2>1, <3>1, SpansAreFound
    <2>8. QED BY <2>2, <2>3, <2>5, <2>6, <2>7 DEF AnswersBearOutAlerts
  <1>2. QED BY AlertsInvHolds, <1>1, PTL

(* ------------------------------- silence ------------------------------- *)

\* A run of steps without an increase is no longer than the longest one.
LEMMA FlatRunIs ==
  ASSUME NEW W, IsFiniteSet(W), NEW series, NEW r \in Flat(series, W)
  PROVE  /\ FlatRun(series, W) \in Int
         /\ Cardinality(Between(W, r[1], r[2])) <= FlatRun(series, W)
  <1> DEFINE F == Flat(series, W)
             long == [f \in F |-> Cardinality(Between(W, f[1], f[2]))]
             S == {long[f] : f \in F}
  <1>1. IsFiniteSet(F)
    <2>1. F \subseteq W \X W
      BY DEF Flat
    <2>2. IsFiniteSet(W \X W)
      BY FS_Product
    <2>3. QED BY <2>1, <2>2, FS_Subset
  <1>2. \A f \in F : long[f] \in Nat
    <2> TAKE f \in F
    <2>1. Between(W, f[1], f[2]) \subseteq W
      BY DEF Between
    <2>2. QED BY <2>1, FS_Subset, FS_CardinalityType
  <1>3. FlatRun(series, W) = Max(S)
    <2>1. S = {Cardinality(Between(W, f[1], f[2])) : f \in F}
      OBVIOUS
    <2> HIDE DEF S
    <2>2. QED BY <2>1 DEF FlatRun
  <1>4. IsFiniteSet(S)
    <2> HIDE DEF long, F
    <2>1. QED BY <1>1, ValuesFinite
  <1>5. S \subseteq Int /\ long[r] \in S
    BY <1>2
  <1>6. long[r] = Cardinality(Between(W, r[1], r[2]))
    OBVIOUS
  <1> HIDE DEF S, long, F
  <1>7. Max(S) \in Int /\ long[r] <= Max(S)
    BY <1>4, <1>5, MaxIs
  <1>8. QED BY <1>3, <1>6, <1>7

\* A series that never goes up is silent for at least half of the window: its
\* points stand still, or are missing.
LEMMA HalfIsSilent ==
  ASSUME NEW W, IsFiniteSet(W), W \subseteq Int, NEW series,
         \A k \in Later(W) : series[k] <= series[Before(W, k)]
  PROVE  Silence(series, W) \in Int /\ CeilDiv(InjectSteps, 2) <= Silence(series, W)
  <1>1. InjectSteps \in Nat /\ InjectSteps > 0
    BY Parameters
  <1>2. CeilDiv(InjectSteps, 2) = (InjectSteps + 1) \div 2
    BY <1>1 DEF CeilDiv
  <1>3. Cardinality(W) \in Nat
    BY FS_CardinalityType
  <1>4. CASE Cardinality(W) < 2
    <2>1. Silence(series, W) = Max({InjectSteps, ZeroRun})
      BY <1>4 DEF Silence
    <2>2. Silence(series, W) \in Int /\ InjectSteps <= Silence(series, W)
      BY <1>1, <2>1, MaxOfTwo DEF ZeroRun
    <2>3. (InjectSteps + 1) \div 2 <= InjectSteps
      BY <1>1
    <2>4. (InjectSteps + 1) \div 2 \in Int
      BY <1>1
    <2>5. QED BY <1>1, <1>2, <2>2, <2>3, <2>4
  <1>5. CASE ~(Cardinality(W) < 2)
    <2> DEFINE n == Cardinality(W) - 1
               run == FlatRun(series, W)
    <2>1. W # {}
      BY <1>5, FS_EmptySet
    <2>2. /\ Min(W) \in W /\ Max(W) \in W /\ Min(W) \in Int /\ Max(W) \in Int
          /\ \A k \in W : Min(W) <= k /\ k <= Max(W)
      BY <2>1, MinIs, MaxIs
    <2>3. Between(W, Min(W), Max(W)) = W \ {Min(W)}
      <3>1. \A k \in W : (Min(W) < k /\ k <= Max(W)) <=> k # Min(W)
        <4> TAKE k \in W
        <4>1. k \in Int /\ Min(W) <= k /\ k <= Max(W)
          BY <2>2
        <4>2. QED BY <2>2, <4>1
      <3>2. QED BY <3>1 DEF Between
    <2>4. Cardinality(Between(W, Min(W), Max(W))) = n
      BY <2>2, <2>3, FS_RemoveElement
    <2>5. <<Min(W), Max(W)>> \in Flat(series, W)
      <3>1. \A k \in Between(W, Min(W), Max(W)) : k \in Later(W)
        BY <2>2 DEF Between, Later
      <3>2. QED BY <2>2, <3>1 DEF Flat
    <2>6. run \in Int /\ n <= run
      <3>1. PICK r \in Flat(series, W) : r[1] = Min(W) /\ r[2] = Max(W)
        BY <2>5
      <3>2. QED BY <2>4, <3>1, FlatRunIs
    <2>7. Silence(series, W) = Max({run, InjectSteps - n})
      BY <1>5 DEF Silence
    <2>8. n \in Nat
      BY <1>3, <1>5
    <2> HIDE DEF n, run
    <2>9. /\ Silence(series, W) \in Int /\ run <= Silence(series, W)
          /\ InjectSteps - n <= Silence(series, W)
      BY <1>1, <2>6, <2>7, <2>8, MaxOfTwo
    <2>10. (InjectSteps + 1) \div 2 <= n \/ (InjectSteps + 1) \div 2 <= InjectSteps - n
      BY <1>1, <2>8
    <2>11. (InjectSteps + 1) \div 2 \in Int
      BY <1>1
    <2>12. QED BY <1>1, <1>2, <2>6, <2>8, <2>9, <2>10, <2>11
  <1>6. QED BY <1>4, <1>5

LEMMA ProductGrows ==
  ASSUME NEW a \in Nat, NEW b \in Int, NEW c \in Int, b <= c
  PROVE  a * b <= a * c
  <1>1. PICK d \in Nat : d = c - b
    OBVIOUS
  <1>2. a * d \in Nat /\ a * c = a * b + a * d
    BY <1>1
  <1>3. QED BY <1>2

\* While nothing is called no counter goes up, and detect() counts nothing.
LEMMA NothingCounted ==
  ASSUME AlertsInv, Counters, NEW W, W \subseteq DOMAIN samples, IsFiniteSet(W),
         W \subseteq Int, \A k \in W : CallsAt[k] # Null,
         NEW start, \A k \in W : samples[k].seen # Null => samples[k].seen.truth = start
  PROVE  /\ CounterDelta(CallsAt, W) = 0
         /\ \A k \in Later(W) : CallsAt[k] <= CallsAt[Before(W, k)]
  <1>1. Shows(CallsAt, "calls") /\ TypeOK
    BY SeriesShow DEF AlertsInv
  <1>2. \A k \in W : /\ samples[k].seen # Null /\ CallsAt[k] = samples[k].seen.of.calls
                     /\ samples[k].seen.of \in Tallies /\ samples[k].seen.truth = start
                     /\ start \in Tallies
    BY <1>1, SampleIs DEF Shows
  <1>3. CounterDelta(CallsAt, W) = 0
    <2>1. CASE W = {}
      BY <2>1, DeltaOfNothing
    <2>2. CASE W # {}
      <3>1. /\ Min(W) \in W /\ Max(W) \in W /\ CounterDelta(CallsAt, W) \in Nat
            /\ CounterDelta(CallsAt, W) <=
                 samples[Max(W)].seen.truth["calls"] - samples[Min(W)].seen.truth["calls"]
        BY <1>1, <2>2, SeriesOver
      <3>2. /\ samples[Max(W)].seen.truth["calls"] = start.calls
            /\ samples[Min(W)].seen.truth["calls"] = start.calls /\ start.calls \in Nat
        BY <1>2, <3>1, TallyTypes
      <3>3. QED BY <3>1, <3>2
    <2>3. QED BY <2>1, <2>2
  <1>4. ASSUME NEW k \in Later(W) PROVE CallsAt[k] <= CallsAt[Before(W, k)]
    <2>1. k \in W /\ Before(W, k) \in W /\ Before(W, k) < k
      BY BeforeIs
    <2> DEFINE c == samples[Before(W, k)].seen.of
               d == samples[k].seen.of
    <2>2. Follows(c, start, d, start)
      BY <1>2, <2>1 DEF AlertsInv, Chained
    <2>3. /\ c \in Tallies /\ d \in Tallies /\ start \in Tallies
          /\ CallsAt[k] = d.calls /\ CallsAt[Before(W, k)] = c.calls
      BY <1>2, <2>1
    <2> HIDE DEF c, d
    <2>4. Grows(c.life, d.life, c.calls, d.calls, start.calls, start.calls)
      BY <2>2 DEF Follows
    <2>5. c.calls \in Nat /\ d.calls \in Nat /\ start.calls \in Nat
      BY <2>3, TallyTypes
    <2>6. d.calls <= c.calls
      BY <2>4, <2>5 DEF Grows
    <2>7. QED BY <2>3, <2>6
  <1>5. QED BY <1>3, <1>4

\* A service that is not called during the injection, and whose baseline predicts
\* enough calls for half of it, is reported as gone, for windows of any length and
\* whatever its counter looks like: standing still, reset, or stale.
THEOREM GoneIsTold == Spec => []SilenceIsTold
  <1>1. AlertsInv => SilenceIsTold
    <2> DEFINE start == samples[Min(InInjection)].truth
               W == Inject(CallsAt)
               half == CeilDiv(InjectSteps, 2)
    <2> SUFFICES ASSUME AlertsInv, Counters,
                        \A k \in InInjection : samples[k].seen # Null =>
                                                 samples[k].seen.truth = start,
                        InjectSteps >= 2 * ZeroRun - 1,
                        BaseCalls * half >= MinExpected * BaseSteps
                 PROVE  TrafficZero
      BY DEF SilenceIsTold
    <2>1. TypeOK /\ Shows(CallsAt, "calls")
      BY SeriesShow DEF AlertsInv
    <2>2. /\ W \subseteq DOMAIN samples /\ IsFiniteSet(W) /\ W \subseteq Int
          /\ \A k \in W : CallsAt[k] # Null
      BY <2>1, WindowIs DEF Shows, Inject
    <2>3. W \subseteq InInjection
      BY <2>1, <2>2 DEF Inject, In, InInjection, TypeOK
    <2>4. \A k \in W : samples[k].seen # Null => samples[k].seen.truth = start
      BY <2>3
    <2> HIDE DEF W, start
    <2>5. /\ CounterDelta(CallsAt, W) = 0
          /\ \A k \in Later(W) : CallsAt[k] <= CallsAt[Before(W, k)]
      BY <2>2, <2>4, NothingCounted
    <2>6. Silence(CallsAt, W) \in Int /\ half <= Silence(CallsAt, W)
      BY <2>2, <2>5, HalfIsSilent
    <2>7. half \in Nat /\ half >= ZeroRun
      BY Parameters DEF CeilDiv, ZeroRun
    <2>8. BaseCalls \in Nat
      BY <2>1, CountIsNat DEF BaseCalls, Base
    <2> DEFINE silent == Silence(CallsAt, W)
               least == MinExpected * BaseSteps
    <2> HIDE DEF half
    <2>9. least \in Nat /\ least > 0
      BY Parameters
    <2>10. BaseCalls * half <= BaseCalls * silent
      <3> HIDE DEF silent
      <3>1. silent \in Int /\ half \in Int /\ half <= silent
        BY <2>6, <2>7 DEF silent
      <3>2. QED BY <2>8, <3>1, ProductGrows
    <2>11. /\ BaseCalls * half \in Nat /\ BaseCalls * silent \in Int
           /\ BaseCalls * half >= least
      BY <2>6, <2>7, <2>8
    <2>12. BaseCalls > 0
      <3>1. CASE BaseCalls = 0
        <4>1. BaseCalls * half = 0
          BY <2>7, <3>1
        <4> HIDE DEF least
        <4>2. QED BY <2>9, <2>11, <4>1
      <3>2. QED BY <2>8, <3>1
    <2>13. BaseCalls * silent >= least
      <3> HIDE DEF least, silent
      <3>1. QED BY <2>9, <2>10, <2>11
    <2>14. silent >= ZeroRun
      <3> HIDE DEF silent
      <3>1. silent \in Int /\ half <= silent
        BY <2>6 DEF silent
      <3>2. QED BY <2>7, <3>1 DEF ZeroRun
    <2>15. 10 * CounterDelta(CallsAt, W) * BaseSteps <= BaseCalls * InjectSteps
      <3>1. 10 * CounterDelta(CallsAt, W) * BaseSteps = 0
        BY <2>5, Parameters
      <3>2. BaseCalls * InjectSteps \in Nat
        BY <2>8, Parameters
      <3>3. QED BY <3>1, <3>2
    <2>16. QED BY <2>12, <2>13, <2>14, <2>15 DEF TrafficZero, W
  <1>2. QED BY AlertsInvHolds, <1>1, PTL
=============================================================================
