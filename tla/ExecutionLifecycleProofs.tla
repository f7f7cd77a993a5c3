--------------------- MODULE ExecutionLifecycleProofs ----------------------
(* For every quantity, every set of adapters, any number of crashes and any     *)
(* delivery of reports: the quantities of an attempt nest, a closed attempt     *)
(* takes no further transition, the saved evidence replays to the saved         *)
(* attempt, a report that comes again changes nothing, the attempt says nothing *)
(* that the broker did not do, the broker never covers or closes more than it   *)
(* filled, and reports delivered in order are all accepted.  Then, of the       *)
(* projections of an attempt, for every price, mark and delivery of costs:      *)
(* authorities of two moments are composed only when nothing was traded between *)
(* them, the matching of lots is first in, first out unit by unit, and no money *)
(* is made or lost by the bookkeeping.                                          *)
EXTENDS TradeAccounting, FiniteSetTheorems, WellFoundedInduction, TLAPS
-----------------------------------------------------------------------------
(* Folds over numbered elements.                                               *)

Before == OpToRel(<, Nat)

LEMMA LeastMember ==
  ASSUME NEW T, T \subseteq Nat, T # {}
  PROVE  \E m \in T : \A k \in T : m =< k
<1>1. IsWellFoundedOn(Before, Nat)
  BY NatLessThanWellFounded, Zenon DEF Before
<1>2. PICK m \in T : \A k \in T : ~(<<k, m>> \in Before)
  BY <1>1, WFMin
<1>3. \A k, n \in Nat : k < n => <<k, n>> \in Before
  BY DEF Before, OpToRel
<1>4. \A k \in T : ~(k < m)
  BY <1>2, <1>3
<1>5. m \in Nat /\ \A k \in T : k \in Nat
  OBVIOUS
<1>. QED BY <1>4, <1>5

LEMMA Inductive ==
  ASSUME NEW T, 0 \in T, \A n \in Nat : n \in T => n + 1 \in T
  PROVE  \A n \in Nat : n \in T
<1>. SUFFICES ASSUME NEW n \in Nat, n \notin T PROVE FALSE
  OBVIOUS
<1>1. PICK m \in Nat \ T : \A k \in Nat \ T : m =< k
  BY LeastMember
<1>2. m # 0 /\ m - 1 \in Nat /\ m - 1 \in T
  BY <1>1
<1>. QED BY <1>2

LEMMA Greatest ==
  ASSUME NEW n \in Nat, NEW s \in SUBSET (1..n), s # {}
  PROVE  Max(s) \in s /\ \A k \in s : k =< Max(s)
<1>. SUFFICES \E m \in s : \A k \in s : m >= k
  BY DEF Max
<1>. DEFINE T == {n - k : k \in s}
<1>1. T \subseteq Nat /\ T # {}
  <2>1. \A k \in s : n - k \in Nat
    OBVIOUS
  <2>. QED BY <2>1
<1>2. PICK l \in T : \A k \in T : l =< k
  <2>. HIDE DEF T
  <2>. QED BY <1>1, LeastMember
<1>3. PICK m \in s : l = n - m
  OBVIOUS
<1>4. \A k \in s : m >= k
  BY <1>2, <1>3
<1>. QED BY <1>4

LEMMA Sizes ==
  ASSUME NEW S, IsFiniteSet(S), NEW s \in SUBSET S
  PROVE  /\ Cardinality(s) \in Nat /\ Cardinality(s) =< Cardinality(S) /\ (Cardinality(s) = 0 <=> s = {})
         /\ \A x \in s : s \ {x} \in SUBSET S /\ Cardinality(s \ {x}) = Cardinality(s) - 1
BY FS_Subset, FS_CardinalityType, FS_EmptySet, FS_RemoveElement

\* What a fold over n elements is computed by, step[r, i] being what it makes
\* of the result r of the elements before the i-th.
Computes(g, n, base, step) ==
  /\ g[{}] = base
  /\ \A s \in SUBSET (1..n) : s # {} => g[s] = step[<<g[s \ {Max(s)}], Max(s)>>]

Rest(s) == s \ {Max(s)}

LEMMA RestIsSmaller ==
  ASSUME NEW n \in Nat, NEW s \in SUBSET (1..n)
  PROVE  /\ Cardinality(s) \in Nat /\ Cardinality(s) =< n /\ (Cardinality(s) = 0 <=> s = {})
         /\ s # {} => /\ Max(s) \in s /\ Max(s) \in 1..n
                      /\ Rest(s) \in SUBSET (1..n) /\ Cardinality(Rest(s)) = Cardinality(s) - 1
<1>1. IsFiniteSet(1..n) /\ Cardinality(1..n) = n
  BY FS_Interval
<1>2. s # {} => Max(s) \in s
  BY Greatest
<1>3. /\ Cardinality(s) \in Nat /\ Cardinality(s) =< n /\ (Cardinality(s) = 0 <=> s = {})
      /\ \A x \in s : s \ {x} \in SUBSET (1..n) /\ Cardinality(s \ {x}) = Cardinality(s) - 1
  <2>1. PICK S : S = 1..n
    OBVIOUS
  <2>2. IsFiniteSet(S) /\ s \in SUBSET S /\ Cardinality(S) = n
    BY <1>1, <2>1
  <2>3. /\ Cardinality(s) \in Nat /\ Cardinality(s) =< Cardinality(S) /\ (Cardinality(s) = 0 <=> s = {})
        /\ \A x \in s : s \ {x} \in SUBSET S /\ Cardinality(s \ {x}) = Cardinality(s) - 1
    BY <2>2, Sizes
  <2>. QED BY <2>1, <2>2, <2>3
<1>4. s # {} => /\ Max(s) \in 1..n
                /\ s \ {Max(s)} \in SUBSET (1..n) /\ Cardinality(s \ {Max(s)}) = Cardinality(s) - 1
  BY <1>2, <1>3, Zenon
<1>. QED BY <1>2, <1>3, <1>4, Zenon DEF Rest

LEMMA FoldComputed ==
  ASSUME NEW n \in Nat, NEW V, NEW base \in V, NEW step \in [V \X (1..n) -> V]
  PROVE  \E g \in [SUBSET (1..n) -> V] : Computes(g, n, base, step)
<1>. DEFINE Small(k) == {s \in SUBSET (1..n) : Cardinality(s) =< k}
            Value(g, s) == step[<<g[Rest(s)], Max(s)>>]
            Up(k, g) == g \in [Small(k) -> V]
                        /\ g = [s \in Small(k) |-> IF s = {} THEN base ELSE Value(g, s)]
            T == {k \in Nat : \E g : Up(k, g)}
<1>1. 0 \in T
  <2>1. Up(0, [s \in Small(0) |-> base])
    <3>1. \A s \in Small(0) : s = {}
      BY RestIsSmaller
    <3>. HIDE DEF Small
    <3>. QED BY <3>1
  <2>. QED BY <2>1
<1>2. ASSUME NEW k \in Nat, NEW g, Up(k, g) PROVE \E h : Up(k + 1, h)
  <2>1. PICK h : h = [s \in Small(k + 1) |-> IF s = {} THEN base ELSE Value(g, s)]
    OBVIOUS
  <2>2. \A s \in Small(k) : s \in Small(k + 1)
    BY RestIsSmaller
  <2>3. \A s \in Small(k + 1) : s # {} => Rest(s) \in Small(k) /\ Max(s) \in 1..n
    BY RestIsSmaller
  <2>4. \A s \in Small(k) : h[s] = g[s]
    <3>. HIDE DEF Small, Value
    <3>. QED BY <1>2, <2>1, <2>2
  <2>5. \A s \in Small(k + 1) : s # {} => Value(g, s) = Value(h, s)
    <3>1. \A s \in Small(k + 1) : s # {} => g[Rest(s)] = h[Rest(s)]
      <4>. HIDE DEF Small
      <4>. QED BY <2>3, <2>4
    <3>. HIDE DEF Small
    <3>. QED BY <3>1
  <2>6. \A s \in Small(k + 1) : s # {} => Value(g, s) \in V
    <3>1. \A s \in Small(k + 1) : s # {} => g[Rest(s)] \in V
      <4>. HIDE DEF Small, Value
      <4>. QED BY <1>2, <2>3
    <3>. HIDE DEF Small
    <3>. QED BY <2>3, <3>1
  <2>7. Up(k + 1, h)
    <3>. HIDE DEF Small, Value
    <3>. QED BY <2>1, <2>5, <2>6
  <2>. QED BY <2>7
<1>3. \A k \in Nat : k \in T => k + 1 \in T
  <2>. HIDE DEF Up
  <2>. QED BY <1>2
<1>4. n \in T
  <2>1. \A k \in Nat : k \in T
    <3>. HIDE DEF T
    <3>. QED BY <1>1, <1>3, Inductive
  <2>. HIDE DEF T
  <2>. QED BY <2>1
<1>5. PICK g : Up(n, g)
  BY <1>4
<1>6. Small(n) = SUBSET (1..n)
  BY RestIsSmaller
<1>7. g \in [SUBSET (1..n) -> V]
  BY <1>5, <1>6
<1>8. \A s \in SUBSET (1..n) : g[s] = IF s = {} THEN base ELSE Value(g, s)
  <2>. HIDE DEF Value, Small
  <2>. QED BY <1>5, <1>6
<1>9. {} \in SUBSET (1..n)
  OBVIOUS
<1>. QED BY <1>7, <1>8, <1>9 DEF Computes, Rest

\* The intermediate results, in the order of the elements.
StepByStep(h, n, V, base, step, result) ==
  /\ h \in [0..n -> V] /\ h[0] = base /\ h[n] = result
  /\ \A i \in 1..n : h[i] = step[<<h[i - 1], i>>]

LEMMA FoldSteps ==
  ASSUME NEW n \in Nat, NEW V, NEW base, NEW step,
         NEW g \in [SUBSET (1..n) -> V], Computes(g, n, base, step)
  PROVE  \E h : StepByStep(h, n, V, base, step, g[1..n])
<1>1. PICK h : h = [i \in 0..n |-> g[1..i]]
  OBVIOUS
<1>2. \A i \in 0..n : 1..i \in SUBSET (1..n)
  OBVIOUS
<1>3. h \in [0..n -> V]
  BY <1>1, <1>2
<1>4. h[0] = base /\ h[n] = g[1..n]
  <2>1. 1..0 = {}
    OBVIOUS
  <2>. QED BY <1>1, <2>1 DEF Computes
<1>5. ASSUME NEW i \in 1..n PROVE h[i] = step[<<h[i - 1], i>>]
  <2>1. PICK s : s = 1..i
    OBVIOUS
  <2>2. s \in SUBSET (1..n) /\ s # {} /\ i \in s
    <3>1. 1..i \in SUBSET (1..n) /\ i \in 1..i
      BY <1>2
    <3>. QED BY <2>1, <3>1, Zenon
  <2>3. Max(s) = i
    <3>1. PICK m : m = Max(s)
      OBVIOUS
    <3>2. m \in s /\ \A k \in s : k =< m
      BY <2>2, <3>1, Greatest
    <3>. QED BY <2>1, <2>2, <3>1, <3>2
  <2>4. s \ {Max(s)} = 1..(i - 1)
    BY <2>1, <2>3
  <2>5. g[s] = step[<<g[s \ {Max(s)}], Max(s)>>]
    BY <2>2 DEF Computes
  <2>6. h[i] = g[s] /\ h[i - 1] = g[1..(i - 1)]
    BY <1>1, <2>1
  <2>. QED BY <2>3, <2>4, <2>5, <2>6
<1>. QED BY <1>3, <1>4, <1>5 DEF StepByStep

\* Two ways to compute a fold that agree wherever their results so far agree.
LEMMA FoldsAgree ==
  ASSUME NEW n \in Nat, NEW f, NEW g, f[{}] = g[{}],
         \A s \in SUBSET (1..n) : s # {} /\ f[Rest(s)] = g[Rest(s)] => f[s] = g[s]
  PROVE  f[1..n] = g[1..n]
<1>. DEFINE T == {k \in Nat : \A s \in SUBSET (1..n) : Cardinality(s) = k => f[s] = g[s]}
<1>1. 0 \in T
  BY RestIsSmaller
<1>2. ASSUME NEW k \in Nat, k \in T PROVE k + 1 \in T
  <2>. SUFFICES ASSUME NEW s \in SUBSET (1..n), Cardinality(s) = k + 1 PROVE f[s] = g[s]
    OBVIOUS
  <2>1. s # {} /\ Rest(s) \in SUBSET (1..n) /\ Cardinality(Rest(s)) = k
    BY RestIsSmaller
  <2>. QED BY <1>2, <2>1
<1>3. \A k \in Nat : k \in T
  <2>. HIDE DEF T
  <2>. QED BY <1>1, <1>2, Inductive
<1>4. 1..n \in SUBSET (1..n) /\ Cardinality(1..n) \in Nat
  BY RestIsSmaller
<1>. QED BY <1>3, <1>4
-----------------------------------------------------------------------------
(* Sums.                                                                       *)

\* h holds the sums of the first numbers.
Sums(h, v, n) == /\ n \in Nat /\ h \in [0..n -> Int] /\ h[0] = 0
                 /\ \A i \in 1..n : v[i] \in Int /\ h[i] = h[i - 1] + v[i]

\* What Total is computed by.
AddsUp(g, v, n) ==
  g = [s \in SUBSET (1..n) |-> IF s = {} THEN 0 ELSE g[s \ {Max(s)}] + v[Max(s)]]

LEMMA TotalIsFold ==
  ASSUME NEW v
  PROVE  Total(v) = (CHOOSE g : g = [s \in SUBSET DOMAIN v |->
                                       IF s = {} THEN 0 ELSE g[s \ {Max(s)}] + v[Max(s)]])[DOMAIN v]
BY DEF Total, FoldLeft, MapThenFoldSet

LEMMA TotalOf ==
  ASSUME NEW n \in Nat, NEW v \in [1..n -> Int]
  PROVE  \E h : Sums(h, v, n) /\ h[n] = Total(v)
<1>1. PICK step : step = [x \in Int \X (1..n) |-> x[1] + v[x[2]]]
  OBVIOUS
<1>2. step \in [Int \X (1..n) -> Int]
  BY <1>1
<1>3. PICK g \in [SUBSET (1..n) -> Int] : Computes(g, n, 0, step)
  <2>1. PICK V : V = Int
    OBVIOUS
  <2>2. 0 \in V /\ step \in [V \X (1..n) -> V]
    <3>1. 0 \in Int
      OBVIOUS
    <3>. QED BY <1>2, <2>1, <3>1, Zenon
  <2>3. \E g \in [SUBSET (1..n) -> V] : Computes(g, n, 0, step)
    BY <2>2, FoldComputed, Zenon
  <2>. QED BY <2>1, <2>3, Zenon
<1>4. \A s \in SUBSET (1..n) : s # {} => g[s] = g[s \ {Max(s)}] + v[Max(s)]
  <2>. SUFFICES ASSUME NEW s \in SUBSET (1..n), s # {} PROVE g[s] = g[s \ {Max(s)}] + v[Max(s)]
    OBVIOUS
  <2>1. PICK r, m : r = g[s \ {Max(s)}] /\ m = Max(s)
    OBVIOUS
  <2>2. m \in 1..n /\ r \in Int
    BY <2>1, RestIsSmaller DEF Rest
  <2>3. g[s] = step[<<r, m>>]
    BY <1>3, <2>1 DEF Computes
  <2>. QED BY <1>1, <2>1, <2>2, <2>3
<1>5. AddsUp(g, v, n)
  BY <1>3, <1>4 DEF AddsUp, Computes
<1>6. PICK f : f = CHOOSE x : AddsUp(x, v, n)
  OBVIOUS
<1>7. AddsUp(f, v, n)
  BY <1>5, <1>6
<1>8. Total(v) = f[1..n]
  BY <1>6, TotalIsFold DEF AddsUp
<1>9. f[1..n] = g[1..n]
  <2>1. f[{}] = g[{}]
    BY <1>5, <1>7 DEF AddsUp
  <2>2. ASSUME NEW s \in SUBSET (1..n), s # {}, f[Rest(s)] = g[Rest(s)] PROVE f[s] = g[s]
    <3>1. f[s] = f[s \ {Max(s)}] + v[Max(s)] /\ g[s] = g[s \ {Max(s)}] + v[Max(s)]
      BY <1>5, <1>7, <2>2, Zenon DEF AddsUp
    <3>. QED BY <2>2, <3>1 DEF Rest
  <2>. QED BY <2>1, <2>2, FoldsAgree
<1>10. PICK h : StepByStep(h, n, Int, 0, step, g[1..n])
  <2>1. PICK V : V = Int
    OBVIOUS
  <2>2. g \in [SUBSET (1..n) -> V] /\ Computes(g, n, 0, step)
    BY <1>3, <2>1
  <2>3. \E h : StepByStep(h, n, V, 0, step, g[1..n])
    BY <2>2, FoldSteps
  <2>. QED BY <2>1, <2>3, Zenon
<1>11. ASSUME NEW i \in 1..n PROVE h[i] = h[i - 1] + v[i] /\ v[i] \in Int
  <2>1. h[i - 1] \in Int /\ <<h[i - 1], i>> \in Int \X (1..n)
    BY <1>10 DEF StepByStep
  <2>2. h[i] = step[<<h[i - 1], i>>]
    BY <1>10 DEF StepByStep
  <2>. QED BY <1>1, <2>1, <2>2
<1>. QED BY <1>8, <1>9, <1>10, <1>11 DEF Sums, StepByStep

LEMMA SumsAgree ==
  ASSUME NEW n, NEW h, NEW g, NEW v, NEW w, Sums(h, v, n), Sums(g, w, n), NEW m \in 0..n,
         \A i \in 1..m : v[i] = w[i]
  PROVE  h[m] = g[m]
<1>. DEFINE T == {i \in Nat : i =< m => h[i] = g[i]}
<1>1. 0 \in T
  BY DEF Sums
<1>2. ASSUME NEW i \in Nat, i \in T PROVE i + 1 \in T
  <2>. SUFFICES ASSUME i + 1 =< m PROVE h[i + 1] = g[i + 1]
    OBVIOUS
  <2>1. i + 1 \in 1..n /\ i + 1 \in 1..m /\ (i + 1) - 1 = i /\ i =< m
    BY DEF Sums
  <2>2. h[i + 1] = h[i] + v[i + 1] /\ g[i + 1] = g[i] + w[i + 1]
    BY <2>1 DEF Sums
  <2>. QED BY <1>2, <2>1, <2>2
<1>3. \A i \in Nat : i \in T
  <2>. HIDE DEF T
  <2>. QED BY <1>1, <1>2, Inductive
<1>4. m \in Nat
  BY DEF Sums
<1>. QED BY <1>3, <1>4

\* A total is the last of the sums.
LEMMA TotalIs ==
  ASSUME NEW n, NEW h, NEW v, Sums(h, v, n), DOMAIN v = 1..n, v = [i \in DOMAIN v |-> v[i]]
  PROVE  Total(v) = h[n]
<1>1. n \in Nat /\ v \in [1..n -> Int]
  BY DEF Sums
<1>2. PICK g : Sums(g, v, n) /\ g[n] = Total(v)
  BY <1>1, TotalOf
<1>3. n \in 0..n /\ \A i \in 1..n : v[i] = v[i]
  BY <1>1
<1>. QED BY <1>2, <1>3, SumsAgree

\* A sum of numbers that are not negative grows.
LEMMA SumsGrow ==
  ASSUME NEW n, NEW h, NEW v, Sums(h, v, n), \A i \in 1..n : v[i] >= 0,
         NEW m \in 0..n, NEW k \in 0..m
  PROVE  h[k] =< h[m] /\ 0 =< h[k]
<1>. DEFINE T == {d \in Nat : \A i \in 0..n : i + d \in 0..n => h[i] =< h[i + d]}
<1>0. n \in Nat /\ \A i \in 0..n : h[i] \in Int
  BY DEF Sums
<1>1. 0 \in T
  BY <1>0
<1>2. ASSUME NEW d \in Nat, d \in T PROVE d + 1 \in T
  <2>. SUFFICES ASSUME NEW i \in 0..n, i + (d + 1) \in 0..n PROVE h[i] =< h[i + (d + 1)]
    OBVIOUS
  <2>1. PICK j \in Nat : j = i + d
    OBVIOUS
  <2>2. j \in 0..n /\ j + 1 \in 1..n /\ i + (d + 1) = j + 1 /\ (j + 1) - 1 = j /\ j + 1 \in 0..n
    BY <1>0, <2>1
  <2>3. h[i] =< h[j]
    BY <1>2, <2>1, <2>2
  <2>4. h[j + 1] = h[j] + v[j + 1] /\ v[j + 1] >= 0 /\ v[j + 1] \in Int
    BY <2>2 DEF Sums
  <2>. QED BY <1>0, <2>2, <2>3, <2>4
<1>3. \A d \in Nat : d \in T
  <2>. HIDE DEF T
  <2>. QED BY <1>1, <1>2, Inductive
<1>4. k \in 0..n /\ m - k \in Nat /\ k + (m - k) \in 0..n /\ k + (m - k) = m /\ k - 0 \in Nat /\ 0 + k \in 0..n /\ 0 \in 0..n
      /\ 0 + k = k /\ k \in Nat
  BY <1>0
<1>5. h[k] =< h[k + (m - k)]
  BY <1>3, <1>4
<1>6. h[0] =< h[0 + k]
  BY <1>3, <1>4
<1>. QED BY <1>4, <1>5, <1>6 DEF Sums
-----------------------------------------------------------------------------
(* The units of a history of fills.                                            *)

Quantities(s) == [i \in DOMAIN s |-> s[i].qty]

\* Fills of at least one unit each, at a price; F holds how many units the first
\* fills have, and U what the first units are worth.
Priced(s) == s \in Seq(Transitions) /\ \A i \in DOMAIN s : s[i].qty \in Nat \ {0} /\ Price(s[i]) \in Int
Tally(F, s) == Priced(s) /\ Sums(F, Quantities(s), Len(s))
Worth(U, F, s) == Sums(U, [k \in 1..F[Len(s)] |-> UnitPrice(s, k)], F[Len(s)])

LEMMA TallyGrows ==
  ASSUME NEW s, NEW F, Tally(F, s)
  PROVE  /\ Len(s) \in Nat /\ DOMAIN s = 1..Len(s) /\ F[0] = 0
         /\ \A i \in 0..Len(s) : F[i] \in Nat
         /\ \A i \in 1..Len(s) : F[i] = F[i - 1] + s[i].qty /\ s[i].qty \in Nat \ {0} /\ Price(s[i]) \in Int
         /\ \A i \in 0..Len(s), j \in 0..Len(s) : i =< j => F[i] =< F[j]
<1>1. PICK n \in Nat : n = Len(s) /\ DOMAIN s = 1..n
  BY DEF Tally, Priced
<1>2. PICK v : v = Quantities(s)
  OBVIOUS
<1>3. \A i \in 1..n : v[i] = s[i].qty /\ s[i].qty \in Nat \ {0} /\ Price(s[i]) \in Int
  BY <1>1, <1>2 DEF Tally, Priced, Quantities
<1>4. Sums(F, v, n)
  BY <1>1, <1>2 DEF Tally
<1>5. \A i \in 1..n : v[i] >= 0
  BY <1>3
<1>6. \A j \in 0..n : \A i \in 0..j : F[i] =< F[j] /\ 0 =< F[i]
  BY <1>4, <1>5, SumsGrow
<1>7. \A i \in 0..n : F[i] \in Int /\ 0 =< F[i]
  BY <1>4, <1>6 DEF Sums
<1>8. \A i \in 0..n, j \in 0..n : i =< j => F[i] =< F[j]
  BY <1>6
<1>. QED BY <1>1, <1>3, <1>4, <1>7, <1>8 DEF Sums

LEMMA TallyOfPrefix ==
  ASSUME NEW s, NEW F, Tally(F, s), NEW i \in 0..Len(s)
  PROVE  SumOf(SubSeq(s, 1, i)) = F[i]
<1>1. PICK n \in Nat : n = Len(s) /\ DOMAIN s = 1..n
  BY DEF Tally, Priced
<1>2. PICK t : t = SubSeq(s, 1, i)
  OBVIOUS
<1>3. t \in Seq(Transitions) /\ Len(t) = i /\ DOMAIN t = 1..i /\ \A k \in 1..i : t[k] = s[k]
  BY <1>1, <1>2 DEF Tally, Priced
<1>4. PICK v : v = [k \in DOMAIN t |-> t[k].qty]
  OBVIOUS
<1>5. PICK h : h = [k \in 0..i |-> F[k]]
  OBVIOUS
<1>6. i \in Nat /\ (\A k \in 1..i : k \in 1..n) /\ (\A k \in 0..i : k \in 0..n) /\ (\A k \in 1..i : k - 1 \in 0..i)
  BY <1>1
<1>7. \A k \in 1..i : v[k] = Quantities(s)[k]
  BY <1>1, <1>3, <1>4, <1>6 DEF Quantities
<1>8. Sums(h, v, i)
  <2>1. PICK w : w = Quantities(s)
    OBVIOUS
  <2>2. /\ F[0] = 0 /\ \A k \in 0..n : F[k] \in Int
        /\ \A k \in 1..n : w[k] \in Int /\ F[k] = F[k - 1] + w[k]
    BY <1>1, <2>1 DEF Sums, Tally
  <2>3. h[0] = 0 /\ h \in [0..i -> Int]
    BY <1>5, <1>6, <2>2
  <2>4. \A k \in 1..i : h[k] = F[k] /\ h[k - 1] = F[k - 1]
    BY <1>5, <1>6
  <2>5. \A k \in 1..i : v[k] \in Int /\ h[k] = h[k - 1] + v[k]
    BY <1>6, <1>7, <2>1, <2>2, <2>4
  <2>. QED BY <1>6, <2>3, <2>5 DEF Sums
<1>9. Total(v) = h[i]
  BY <1>3, <1>4, <1>8, TotalIs
<1>10. h[i] = F[i]
  BY <1>5, <1>6
<1>. QED BY <1>2, <1>4, <1>9, <1>10 DEF SumOf

LEMMA TallyIsSum ==
  ASSUME NEW s, NEW F, Tally(F, s)
  PROVE  SumOf(s) = F[Len(s)]
<1>1. PICK v : v = Quantities(s)
  OBVIOUS
<1>2. v = [i \in DOMAIN s |-> s[i].qty] /\ DOMAIN v = 1..Len(s)
  BY <1>1, TallyGrows DEF Quantities
<1>3. Total(v) = F[Len(s)]
  <2>1. Sums(F, v, Len(s)) /\ v = [i \in DOMAIN v |-> v[i]]
    BY <1>1, <1>2 DEF Tally
  <2>. QED BY <1>2, <2>1, TotalIs
<1>. QED BY <1>2, <1>3 DEF SumOf

\* The units of the i-th fill have its price.
LEMMA UnitOfFill ==
  ASSUME NEW s, NEW F, Tally(F, s), NEW i \in 1..Len(s), NEW k \in Nat, F[i - 1] < k, k =< F[i]
  PROVE  UnitPrice(s, k) = Price(s[i])
<1>1. PICK n \in Nat : n = Len(s) /\ DOMAIN s = 1..n
  BY TallyGrows
<1>2. \A j \in 1..n : SumOf(SubSeq(s, 1, j - 1)) = F[j - 1] /\ SumOf(SubSeq(s, 1, j)) = F[j]
  <2>1. \A j \in 1..n : j \in 0..Len(s) /\ j - 1 \in 0..Len(s)
    BY <1>1
  <2>. QED BY <2>1, TallyOfPrefix
<1>3. PICK c : c = CHOOSE j \in DOMAIN s : SumOf(SubSeq(s, 1, j - 1)) < k /\ k =< SumOf(SubSeq(s, 1, j))
  OBVIOUS
<1>4. c \in 1..n /\ F[c - 1] < k /\ k =< F[c]
  <2>1. \E j \in DOMAIN s : SumOf(SubSeq(s, 1, j - 1)) < k /\ k =< SumOf(SubSeq(s, 1, j))
    BY <1>1, <1>2
  <2>2. c \in DOMAIN s /\ SumOf(SubSeq(s, 1, c - 1)) < k /\ k =< SumOf(SubSeq(s, 1, c))
    BY <1>3, <2>1
  <2>. QED BY <1>1, <1>2, <2>2
<1>5. c = i
  <2>1. \A a \in 0..n, b \in 0..n : a =< b => F[a] =< F[b]
    BY <1>1, TallyGrows
  <2>2. \A a \in 0..n : F[a] \in Nat
    BY <1>1, TallyGrows
  <2>3. c \in 0..n /\ i \in 0..n /\ c - 1 \in 0..n /\ i - 1 \in 0..n
    BY <1>1, <1>4
  <2>4. F[c] \in Nat /\ F[i] \in Nat /\ F[c - 1] \in Nat /\ F[i - 1] \in Nat
    BY <2>2, <2>3
  <2>5. ~(c =< i - 1)
    BY <1>4, <2>1, <2>3, <2>4
  <2>6. ~(i =< c - 1)
    <3>. SUFFICES ASSUME i =< c - 1 PROVE FALSE
      OBVIOUS
    <3>1. F[i] =< F[c - 1]
      BY <2>1, <2>3
    <3>. QED BY <1>4, <2>4, <3>1
  <2>. QED BY <1>1, <1>4, <2>5, <2>6
<1>. QED BY <1>3, <1>5 DEF UnitPrice

LEMMA FillOfUnit ==
  ASSUME NEW s, NEW F, Tally(F, s), NEW k \in 1..F[Len(s)]
  PROVE  \E i \in 1..Len(s) : F[i - 1] < k /\ k =< F[i]
<1>1. PICK n \in Nat : n = Len(s)
  BY TallyGrows
<1>2. \A i \in 0..n : F[i] \in Nat
  BY <1>1, TallyGrows
<1>3. k \in Nat /\ k > 0 /\ k =< F[n]
  BY <1>1, <1>2
<1>. DEFINE T == {i \in Nat : i =< n /\ k =< F[i]}
<1>4. n \in T
  BY <1>1, <1>3
<1>5. PICK i \in T : \A j \in T : i =< j
  <2>1. T \subseteq Nat /\ T # {}
    BY <1>4
  <2>. HIDE DEF T
  <2>. QED BY <2>1, LeastMember
<1>6. i # 0
  BY <1>3, TallyGrows
<1>7. i \in 1..n /\ i - 1 \in 0..n /\ i - 1 \in Nat /\ i - 1 =< n /\ ~(i =< i - 1)
  BY <1>6
<1>8. ~(k =< F[i - 1])
  BY <1>5, <1>7
<1>9. F[i - 1] < k /\ k =< F[i]
  <2>1. F[i - 1] \in Nat /\ k =< F[i]
    BY <1>2, <1>7
  <2>. QED BY <1>3, <1>8, <2>1
<1>. QED BY <1>1, <1>7, <1>9

LEMMA UnitPriceIsPrice ==
  ASSUME NEW s, NEW F, Tally(F, s), NEW k \in 1..F[Len(s)]
  PROVE  UnitPrice(s, k) \in Int
<1>1. PICK i \in 1..Len(s) : F[i - 1] < k /\ k =< F[i]
  BY FillOfUnit
<1>2. k \in Nat
  <2>1. Len(s) \in 0..Len(s)
    BY TallyGrows
  <2>. QED BY <2>1, TallyGrows
<1>3. UnitPrice(s, k) = Price(s[i])
  BY <1>1, <1>2, UnitOfFill
<1>. QED BY <1>3, TallyGrows

LEMMA WorthExists ==
  ASSUME NEW s, NEW F, Tally(F, s)
  PROVE  \E U : Worth(U, F, s)
<1>1. PICK N \in Nat : N = F[Len(s)]
  <2>1. Len(s) \in 0..Len(s)
    BY TallyGrows
  <2>. QED BY <2>1, TallyGrows
<1>2. PICK v : v = [k \in 1..N |-> UnitPrice(s, k)]
  OBVIOUS
<1>3. v \in [1..N -> Int]
  BY <1>1, <1>2, UnitPriceIsPrice
<1>4. PICK U : Sums(U, v, N)
  BY <1>3, TotalOf
<1>. QED BY <1>1, <1>2, <1>4 DEF Worth

\* The next m units of the i-th fill are worth m times its price.
LEMMA WorthGrows ==
  ASSUME NEW s, NEW F, Tally(F, s), NEW U, Worth(U, F, s),
         NEW i \in 1..Len(s), NEW c \in Nat, NEW m \in Nat, F[i - 1] =< c, c + m =< F[i]
  PROVE  U[c] \in Int /\ U[c + m] = U[c] + m * Price(s[i])
<1>1. PICK n \in Nat : n = Len(s)
  BY TallyGrows
<1>2. PICK N \in Nat : N = F[n]
  <2>1. n \in 0..n
    OBVIOUS
  <2>. QED BY <1>1, <2>1, TallyGrows
<1>3. F[i] =< N /\ F[i] \in Nat /\ F[i - 1] \in Nat
  <2>1. i \in 0..n /\ n \in 0..n /\ i =< n /\ i - 1 \in 0..n
    BY <1>1
  <2>. QED BY <1>1, <1>2, <2>1, TallyGrows
<1>b. PICK b \in Nat : b = F[i] /\ b =< N
  BY <1>3
<1>c. c \in 0..N /\ c + m =< N /\ c + m =< b
  BY <1>b
<1>4. PICK p \in Int : p = Price(s[i])
  BY TallyGrows
<1>5. \A k \in 0..N : U[k] \in Int
  BY <1>1, <1>2 DEF Worth, Sums
<1>6. \A k \in 1..N : U[k] = U[k - 1] + UnitPrice(s, k)
  BY <1>1, <1>2 DEF Worth, Sums
<1>. DEFINE T == {d \in Nat : d =< m => U[c + d] = U[c] + d * p}
<1>7. 0 \in T
  <2>1. c \in 0..N /\ c + 0 = c /\ 0 * p = 0
    BY <1>c
  <2>. QED BY <1>5, <2>1
<1>8. ASSUME NEW d \in Nat, d \in T PROVE d + 1 \in T
  <2>. SUFFICES ASSUME d + 1 =< m PROVE U[c + (d + 1)] = U[c] + (d + 1) * p
    OBVIOUS
  <2>1. PICK k \in Nat : k = c + (d + 1)
    OBVIOUS
  <2>2. k \in 1..N /\ k - 1 = c + d /\ F[i - 1] < k /\ k =< F[i] /\ d =< m /\ c \in 0..N
    <3>1. PICK a \in Nat : a = F[i - 1] /\ a =< c
      BY <1>3
    <3>2. k \in 1..N /\ k - 1 = c + d /\ a < k /\ k =< b /\ d =< m
      BY <1>c, <2>1, <3>1
    <3>. QED BY <1>b, <1>c, <3>1, <3>2
  <2>3. UnitPrice(s, k) = p
    BY <1>4, <2>2, UnitOfFill
  <2>4. U[k] = U[c + d] + p
    BY <1>6, <2>2, <2>3
  <2>5. U[c + d] = U[c] + d * p
    BY <1>8, <2>2
  <2>6. (d + 1) * p = d * p + p
    OBVIOUS
  <2>7. U[c] \in Int /\ d * p \in Int
    BY <1>5, <2>2
  <2>. QED BY <2>1, <2>4, <2>5, <2>6, <2>7
<1>9. \A d \in Nat : d \in T
  <2>. HIDE DEF T
  <2>. QED BY <1>7, <1>8, Inductive
<1>11. m \in T
  <2>. HIDE DEF T
  <2>. QED BY <1>9
<1>. QED BY <1>4, <1>5, <1>c, <1>11

\* What a history of fills comes to.
LEMMA WorthIsValue ==
  ASSUME NEW s, NEW F, Tally(F, s), NEW U, Worth(U, F, s)
  PROVE  Total([i \in DOMAIN s |-> s[i].qty * Price(s[i])]) = U[F[Len(s)]]
<1>1. PICK n \in Nat : n = Len(s) /\ DOMAIN s = 1..n
  BY TallyGrows
<1>2. PICK v : v = [i \in 1..n |-> s[i].qty * Price(s[i])]
  OBVIOUS
<1>3. PICK h : h = [i \in 0..n |-> U[F[i]]]
  OBVIOUS
<1>4. ASSUME NEW i \in 1..n PROVE v[i] \in Int /\ U[F[i - 1]] \in Int /\ U[F[i]] = U[F[i - 1]] + v[i]
  <2>1. i - 1 \in 0..n /\ i \in 0..n
    OBVIOUS
  <2>2. PICK c \in Nat : c = F[i - 1]
    BY <1>1, <2>1, TallyGrows
  <2>3. PICK q \in Nat, p \in Int : q = s[i].qty /\ p = Price(s[i])
    BY <1>1, TallyGrows
  <2>4. F[i] = c + q
    BY <1>1, <2>2, <2>3, TallyGrows
  <2>5. U[c] \in Int /\ U[c + q] = U[c] + q * p
    <3>1. i \in 1..Len(s) /\ F[i - 1] =< c /\ c + q =< F[i]
      BY <1>1, <2>2, <2>4
    <3>2. U[c] \in Int /\ U[c + q] = U[c] + q * Price(s[i])
      BY <3>1, WorthGrows
    <3>. QED BY <2>3, <3>2
  <2>6. v[i] = q * p /\ q * p \in Int
    BY <1>2, <2>3
  <2>. QED BY <2>2, <2>4, <2>5, <2>6
<1>5. U[F[0]] = 0
  BY TallyGrows DEF Worth, Sums
<1>6. \A i \in 0..n : U[F[i]] \in Int
  <2>1. \A i \in 1..n : U[F[i]] \in Int
    <3>. SUFFICES ASSUME NEW i \in 1..n PROVE U[F[i]] \in Int
      OBVIOUS
    <3>. QED BY <1>4
  <2>. QED BY <1>5, <2>1
<1>7. Sums(h, v, n)
  BY <1>3, <1>4, <1>5, <1>6 DEF Sums
<1>8. Total(v) = h[n]
  BY <1>2, <1>7, TotalIs
<1>9. h[n] = U[F[n]] /\ v = [i \in DOMAIN s |-> s[i].qty * Price(s[i])]
  BY <1>1, <1>2, <1>3
<1>. QED BY <1>1, <1>8, <1>9
-----------------------------------------------------------------------------
(* The events in the order of their times.                                     *)

\* Fills or exits, as they are taken in: each no earlier than the one before.
Dated(s, kind) ==
  /\ Len(s) \in Nat /\ DOMAIN s = 1..Len(s)
  /\ \A i \in DOMAIN s : s[i].kind = kind /\ s[i].at \in Nat
  /\ \A i, j \in DOMAIN s : i =< j => s[i].at =< s[j].at

Timely(a) == Dated(a.fills, "ENTRY_FILL") /\ Dated(a.exits, "EXIT_FILL") /\ ~Ambiguous(a)

Event(s, i) == [index |-> i, fill |-> s[i]]
First(s, n) == {Event(s, i) : i \in 1..n}

\* The first p fills and the first q exits, and that all others are later.
Passed(a, p, q) == First(a.fills, p) \union First(a.exits, q)
Ready(a, p, q) ==
  /\ p \in 0..Len(a.fills) /\ q \in 0..Len(a.exits)
  /\ \A i \in 1..Len(a.fills), j \in 1..Len(a.exits) :
       /\ i =< p /\ j > q => a.fills[i].at < a.exits[j].at
       /\ i > p /\ j =< q => a.exits[j].at < a.fills[i].at

LEMMA SizeOfFirst ==
  ASSUME NEW s, NEW n \in Nat
  PROVE  IsFiniteSet(First(s, n)) /\ Cardinality(First(s, n)) = n
<1>. DEFINE T == {k \in Nat : IsFiniteSet(First(s, k)) /\ Cardinality(First(s, k)) = k}
<1>1. 0 \in T
  <2>1. First(s, 0) = {}
    BY DEF First
  <2>. QED BY <2>1, FS_EmptySet
<1>2. ASSUME NEW k \in Nat, k \in T PROVE k + 1 \in T
  <2>1. First(s, k + 1) = First(s, k) \union {Event(s, k + 1)}
    <3>1. \A i : i \in 1..(k + 1) <=> i \in 1..k \/ i = k + 1
      OBVIOUS
    <3>. QED BY <3>1, Zenon DEF First
  <2>2. Event(s, k + 1) \notin First(s, k)
    <3>. SUFFICES ASSUME NEW i \in 1..k, Event(s, k + 1) = Event(s, i) PROVE FALSE
      BY DEF First
    <3>1. k + 1 = i
      BY DEF Event
    <3>. QED BY <3>1
  <2>3. PICK S, x : S = First(s, k) /\ x = Event(s, k + 1)
    OBVIOUS
  <2>4. IsFiniteSet(S \union {x}) /\ Cardinality(S \union {x}) = Cardinality(S) + 1
    BY <1>2, <2>2, <2>3, FS_AddElement
  <2>. QED BY <1>2, <2>1, <2>3, <2>4
<1>3. \A k \in Nat : k \in T
  <2>. HIDE DEF T
  <2>. QED BY <1>1, <1>2, Inductive
<1>. QED BY <1>3

LEMMA SizeOfPassed ==
  ASSUME NEW a, Timely(a), NEW p \in 0..Len(a.fills), NEW q \in 0..Len(a.exits)
  PROVE  IsFiniteSet(Passed(a, p, q)) /\ Cardinality(Passed(a, p, q)) = p + q
<1>1. p \in Nat /\ q \in Nat /\ Len(a.fills) \in Nat /\ Len(a.exits) \in Nat
  BY DEF Timely, Dated
<1>2. PICK S, T : S = First(a.fills, p) /\ T = First(a.exits, q)
  OBVIOUS
<1>3. IsFiniteSet(S) /\ Cardinality(S) = p /\ IsFiniteSet(T) /\ Cardinality(T) = q
  BY <1>1, <1>2, SizeOfFirst
<1>4. S \intersect T = {}
  <2>. SUFFICES ASSUME NEW i \in 1..p, NEW j \in 1..q, Event(a.fills, i) = Event(a.exits, j) PROVE FALSE
    BY <1>2 DEF First
  <2>1. a.fills[i] = a.exits[j]
    BY DEF Event
  <2>2. i \in 1..Len(a.fills) /\ j \in 1..Len(a.exits)
    BY <1>1
  <2>3. a.fills[i].kind = "ENTRY_FILL" /\ a.exits[j].kind = "EXIT_FILL"
    BY <2>2 DEF Timely, Dated
  <2>. QED BY <2>1, <2>3
<1>5. IsFiniteSet(S \union T) /\ Cardinality(S \union T) = p + q - Cardinality({})
  BY <1>3, <1>4, FS_Union
<1>. QED BY <1>1, <1>2, <1>5, FS_EmptySet DEF Passed

LEMMA EventsArePassed ==
  ASSUME NEW a, Timely(a)
  PROVE  /\ Events(a) = Passed(a, Len(a.fills), Len(a.exits))
         /\ IsFiniteSet(Events(a)) /\ Cardinality(Events(a)) = Len(a.fills) + Len(a.exits)
<1>1. Events(a) = Passed(a, Len(a.fills), Len(a.exits))
  BY Zenon DEF Events, Indexed, Passed, First, Event, Timely, Dated
<1>2. Len(a.fills) \in 0..Len(a.fills) /\ Len(a.exits) \in 0..Len(a.exits)
  BY DEF Timely, Dated
<1>. QED BY <1>1, <1>2, SizeOfPassed

LEMMA ReadyGoesOn ==
  ASSUME NEW a, Timely(a), NEW p, NEW q, Ready(a, p, q), p + q < Len(a.fills) + Len(a.exits)
  PROVE  \/ p < Len(a.fills) /\ Ready(a, p + 1, q)
         \/ q < Len(a.exits) /\ Ready(a, p, q + 1)
<1>1. PICK P \in Nat, Q \in Nat : P = Len(a.fills) /\ Q = Len(a.exits)
  BY DEF Timely, Dated
<1>2. PICK s, x : s = a.fills /\ x = a.exits
  OBVIOUS
<1>3. /\ \A i \in 1..P : s[i].at \in Nat
      /\ \A j \in 1..Q : x[j].at \in Nat
      /\ \A i, j \in 1..P : i =< j => s[i].at =< s[j].at
      /\ \A i, j \in 1..Q : i =< j => x[i].at =< x[j].at
      /\ \A i \in 1..P, j \in 1..Q : s[i].at # x[j].at
  BY <1>1, <1>2 DEF Timely, Dated, Ambiguous
<1>4. p \in 0..P /\ q \in 0..Q /\ p + q < P + Q
  BY <1>1 DEF Ready
<1>5. \A i \in 1..P, j \in 1..Q : /\ i =< p /\ j > q => s[i].at < x[j].at
                                  /\ i > p /\ j =< q => x[j].at < s[i].at
  BY <1>1, <1>2 DEF Ready
<1>6. CASE p < P /\ (q = Q \/ s[p + 1].at < x[q + 1].at)
  <2>1. ASSUME NEW i \in 1..P, NEW j \in 1..Q
        PROVE  /\ i =< p + 1 /\ j > q => s[i].at < x[j].at
               /\ i > p + 1 /\ j =< q => x[j].at < s[i].at
    <3>1. CASE i =< p
      BY <1>4, <1>5, <3>1
    <3>2. CASE i > p /\ j =< q
      BY <1>4, <1>5, <3>2
    <3>3. CASE i = p + 1 /\ j > q
      <4>1. q + 1 \in 1..Q /\ q + 1 =< j /\ p + 1 \in 1..P
        BY <1>4, <3>3
      <4>2. s[p + 1].at < x[q + 1].at
        BY <1>6, <3>3
      <4>3. x[q + 1].at =< x[j].at
        BY <1>3, <4>1
      <4>4. s[p + 1].at \in Nat /\ x[q + 1].at \in Nat /\ x[j].at \in Nat /\ s[i] = s[p + 1]
        BY <1>3, <3>3, <4>1
      <4>5. s[i].at < x[j].at
        BY <4>2, <4>3, <4>4
      <4>. QED BY <1>4, <3>3, <4>5
    <3>4. CASE i > p + 1 /\ j > q
      BY <1>4, <3>4
    <3>. QED BY <1>4, <3>1, <3>2, <3>3, <3>4
  <2>2. p + 1 \in 0..P
    BY <1>4, <1>6
  <2>3. Ready(a, p + 1, q)
    BY <1>1, <1>2, <1>4, <2>1, <2>2 DEF Ready
  <2>. QED BY <1>1, <1>6, <2>3
<1>7. CASE q < Q /\ (p = P \/ x[q + 1].at < s[p + 1].at)
  <2>1. ASSUME NEW i \in 1..P, NEW j \in 1..Q
        PROVE  /\ i =< p /\ j > q + 1 => s[i].at < x[j].at
               /\ i > p /\ j =< q + 1 => x[j].at < s[i].at
    <3>1. CASE j =< q
      BY <1>4, <1>5, <3>1
    <3>2. CASE j > q /\ i =< p
      BY <1>4, <1>5, <3>2
    <3>3. CASE j = q + 1 /\ i > p
      <4>1. p + 1 \in 1..P /\ p + 1 =< i /\ q + 1 \in 1..Q
        BY <1>4, <3>3
      <4>2. x[q + 1].at < s[p + 1].at
        BY <1>7, <3>3
      <4>3. s[p + 1].at =< s[i].at
        BY <1>3, <4>1
      <4>4. s[p + 1].at \in Nat /\ x[q + 1].at \in Nat /\ s[i].at \in Nat /\ x[j] = x[q + 1]
        BY <1>3, <3>3, <4>1
      <4>5. x[j].at < s[i].at
        BY <4>2, <4>3, <4>4
      <4>. QED BY <1>4, <3>3, <4>5
    <3>4. CASE j > q + 1 /\ i > p
      BY <1>4, <3>4
    <3>. QED BY <1>4, <3>1, <3>2, <3>3, <3>4
  <2>2. q + 1 \in 0..Q
    BY <1>4, <1>7
  <2>3. Ready(a, p, q + 1)
    BY <1>1, <1>2, <1>4, <2>1, <2>2 DEF Ready
  <2>. QED BY <1>1, <1>7, <2>3
<1>8. (p < P /\ (q = Q \/ s[p + 1].at < x[q + 1].at)) \/ (q < Q /\ (p = P \/ x[q + 1].at < s[p + 1].at))
  <2>1. CASE p < P /\ q < Q
    <3>1. p + 1 \in 1..P /\ q + 1 \in 1..Q
      BY <1>4, <2>1
    <3>2. s[p + 1].at \in Nat /\ x[q + 1].at \in Nat /\ s[p + 1].at # x[q + 1].at
      BY <1>3, <3>1
    <3>. QED BY <2>1, <3>2
  <2>. QED BY <1>4, <2>1
<1>. QED BY <1>6, <1>7, <1>8

\* What has passed is earlier than what has not.
LEMMA PassedIsEarlier ==
  ASSUME NEW a, Timely(a), NEW p, NEW q, Ready(a, p, q),
         NEW d \in Passed(a, p, q), NEW e \in Events(a) \ Passed(a, p, q)
  PROVE  Earlier(d, e) /\ ~Earlier(e, d)
<1>1. PICK P \in Nat, Q \in Nat : P = Len(a.fills) /\ Q = Len(a.exits) /\ p \in 0..P /\ q \in 0..Q
  BY DEF Timely, Dated, Ready
<1>2. e \in First(a.fills, P) \union First(a.exits, Q)
  BY <1>1, EventsArePassed DEF Passed
<1>3. CASE d \in First(a.fills, p) /\ e \in First(a.fills, P)
  <2>1. PICK i \in 1..p, j \in 1..P : d = Event(a.fills, i) /\ e = Event(a.fills, j)
    BY <1>3 DEF First
  <2>2. j > p
    <3>1. j \notin 1..p
      BY <2>1 DEF Passed, First
    <3>. QED BY <1>1, <3>1
  <2>3. i \in 1..P /\ i < j
    BY <1>1, <2>2
  <2>4. a.fills[i].at \in Nat /\ a.fills[j].at \in Nat /\ a.fills[i].at =< a.fills[j].at
    <3>1. \A k, l \in 1..P : k =< l => a.fills[k].at \in Nat /\ a.fills[l].at \in Nat /\ a.fills[k].at =< a.fills[l].at
      BY <1>1 DEF Timely, Dated
    <3>2. i =< j
      BY <2>3
    <3>. QED BY <2>3, <3>1, <3>2
  <2>5. d.index = i /\ d.fill = a.fills[i] /\ e.index = j /\ e.fill = a.fills[j]
    BY <2>1 DEF Event
  <2>. QED BY <2>3, <2>4, <2>5 DEF Earlier
<1>4. CASE d \in First(a.exits, q) /\ e \in First(a.exits, Q)
  <2>1. PICK i \in 1..q, j \in 1..Q : d = Event(a.exits, i) /\ e = Event(a.exits, j)
    BY <1>4 DEF First
  <2>2. j > q
    <3>1. j \notin 1..q
      BY <2>1 DEF Passed, First
    <3>. QED BY <1>1, <3>1
  <2>3. i \in 1..Q /\ i < j
    BY <1>1, <2>2
  <2>4. a.exits[i].at \in Nat /\ a.exits[j].at \in Nat /\ a.exits[i].at =< a.exits[j].at
    <3>1. \A k, l \in 1..Q : k =< l => a.exits[k].at \in Nat /\ a.exits[l].at \in Nat /\ a.exits[k].at =< a.exits[l].at
      BY <1>1 DEF Timely, Dated
    <3>2. i =< j
      BY <2>3
    <3>. QED BY <2>3, <3>1, <3>2
  <2>5. d.index = i /\ d.fill = a.exits[i] /\ e.index = j /\ e.fill = a.exits[j]
    BY <2>1 DEF Event
  <2>. QED BY <2>3, <2>4, <2>5 DEF Earlier
<1>5. CASE d \in First(a.fills, p) /\ e \in First(a.exits, Q)
  <2>1. PICK i \in 1..p, j \in 1..Q : d = Event(a.fills, i) /\ e = Event(a.exits, j)
    BY <1>5 DEF First
  <2>2. j > q
    <3>1. j \notin 1..q
      BY <2>1 DEF Passed, First
    <3>. QED BY <1>1, <3>1
  <2>3. i \in 1..P /\ i =< p
    BY <1>1
  <2>4. a.fills[i].at \in Nat /\ a.exits[j].at \in Nat
    BY <1>1, <2>3 DEF Timely, Dated
  <2>5. a.fills[i].at < a.exits[j].at
    BY <1>1, <2>2, <2>3 DEF Ready
  <2>6. d.fill = a.fills[i] /\ e.fill = a.exits[j]
    BY <2>1 DEF Event
  <2>. QED BY <2>4, <2>5, <2>6 DEF Earlier
<1>6. CASE d \in First(a.exits, q) /\ e \in First(a.fills, P)
  <2>1. PICK j \in 1..q, i \in 1..P : d = Event(a.exits, j) /\ e = Event(a.fills, i)
    BY <1>6 DEF First
  <2>2. i > p
    <3>1. i \notin 1..p
      BY <2>1 DEF Passed, First
    <3>. QED BY <1>1, <3>1
  <2>3. j \in 1..Q /\ j =< q
    BY <1>1
  <2>4. a.fills[i].at \in Nat /\ a.exits[j].at \in Nat
    BY <1>1, <2>3 DEF Timely, Dated
  <2>5. a.exits[j].at < a.fills[i].at
    BY <1>1, <2>2, <2>3 DEF Ready
  <2>6. d.fill = a.exits[j] /\ e.fill = a.fills[i]
    BY <2>1 DEF Event
  <2>. QED BY <2>4, <2>5, <2>6 DEF Earlier
<1>. QED BY <1>2, <1>3, <1>4, <1>5, <1>6 DEF Passed

\* Between two stages of what has passed there is one event, and it comes next.
LEMMA NextOfPassed ==
  ASSUME NEW E, IsFiniteSet(E), NEW A, A \subseteq E, NEW e \in E, e \notin A, ~Earlier(e, e),
         \A d \in A : \A f \in E \ A : Earlier(d, f) /\ ~Earlier(f, d),
         \A d \in A \union {e} : \A f \in E \ (A \union {e}) : Earlier(d, f) /\ ~Earlier(f, d),
         \A d \in E : ~Earlier(d, d)
  PROVE  (CHOOSE d \in E : Cardinality({f \in E : Earlier(f, d)}) = Cardinality(A)) = e
<1>. DEFINE Sooner(d) == {f \in E : Earlier(f, d)}
<1>1. IsFiniteSet(A) /\ Cardinality(A) \in Nat
  BY FS_Subset, FS_CardinalityType
<1>2. Sooner(e) = A
  <2>1. \A f \in E : Earlier(f, e) => f \in A
    OBVIOUS
  <2>. QED BY <2>1
<1>3. ASSUME NEW d \in E, d # e PROVE Cardinality(Sooner(d)) # Cardinality(A)
  <2>1. IsFiniteSet(Sooner(d)) /\ Cardinality(Sooner(d)) \in Nat
    BY FS_Subset, FS_CardinalityType
  <2>2. CASE d \in A
    <3>1. Sooner(d) \in SUBSET (A \ {d})
      BY <2>2
    <3>2. PICK B : B = A \ {d}
      OBVIOUS
    <3>3. IsFiniteSet(B) /\ Cardinality(B) = Cardinality(A) - 1
      BY <1>1, <2>2, <3>2, FS_RemoveElement
    <3>4. Cardinality(Sooner(d)) =< Cardinality(B)
      <4>. HIDE DEF Sooner
      <4>. QED BY <3>1, <3>2, <3>3, FS_Subset
    <3>. HIDE DEF Sooner
    <3>. QED BY <1>1, <2>1, <3>3, <3>4
  <2>3. CASE d \notin A
    <3>1. PICK B : B = A \union {e}
      OBVIOUS
    <3>2. B \in SUBSET Sooner(d)
      BY <1>3, <2>3, <3>1
    <3>3. IsFiniteSet(B) /\ Cardinality(B) = Cardinality(A) + 1
      BY <1>1, <3>1, FS_AddElement
    <3>4. Cardinality(B) =< Cardinality(Sooner(d))
      <4>. HIDE DEF Sooner
      <4>. QED BY <2>1, <3>2, FS_Subset
    <3>. HIDE DEF Sooner
    <3>. QED BY <1>1, <2>1, <3>3, <3>4
  <2>. QED BY <2>2, <2>3
<1>4. PICK c : c = CHOOSE d \in E : Cardinality(Sooner(d)) = Cardinality(A)
  OBVIOUS
<1>5. c \in E /\ Cardinality(Sooner(c)) = Cardinality(A)
  <2>. HIDE DEF Sooner
  <2>. QED BY <1>2, <1>4
<1>6. c = e
  <2>. HIDE DEF Sooner
  <2>. QED BY <1>3, <1>5
<1>. QED BY <1>4, <1>6

LEMMA ChronologyNext ==
  ASSUME NEW a, Timely(a), NEW p, NEW q, Ready(a, p, q), NEW e \in Events(a), e \notin Passed(a, p, q),
         NEW r, NEW t, Ready(a, r, t), Passed(a, r, t) = Passed(a, p, q) \union {e}
  PROVE  /\ p + q + 1 \in DOMAIN Chronology(a) /\ p + q + 1 \in 1..(Len(a.fills) + Len(a.exits))
         /\ Chronology(a)[p + q + 1] = e
<1>1. PICK P \in Nat, Q \in Nat : P = Len(a.fills) /\ Q = Len(a.exits)
  BY DEF Timely, Dated
<1>2. p \in 0..P /\ q \in 0..Q /\ r \in 0..P /\ t \in 0..Q /\ p \in Nat /\ q \in Nat
  BY <1>1 DEF Ready
<1>3. PICK E, A : E = Events(a) /\ A = Passed(a, p, q)
  OBVIOUS
<1>4. IsFiniteSet(E) /\ Cardinality(E) = P + Q /\ IsFiniteSet(A) /\ Cardinality(A) = p + q
  BY <1>1, <1>2, <1>3, EventsArePassed, SizeOfPassed
<1>5. A \subseteq E
  <2>1. \A i \in 1..p : i \in 1..P
    BY <1>2
  <2>2. \A i \in 1..q : i \in 1..Q
    BY <1>2
  <2>3. First(a.fills, p) \subseteq First(a.fills, P) /\ First(a.exits, q) \subseteq First(a.exits, Q)
    BY <2>1, <2>2, Zenon DEF First
  <2>4. E = First(a.fills, P) \union First(a.exits, Q)
    BY <1>1, <1>3, EventsArePassed DEF Passed
  <2>. QED BY <1>3, <2>3, <2>4, Zenon DEF Passed
<1>6. \A d \in E : ~Earlier(d, d)
  <2>. SUFFICES ASSUME NEW d \in E PROVE ~Earlier(d, d)
    OBVIOUS
  <2>1. d.fill.at \in Nat /\ d.index \in Nat
    <3>1. d \in First(a.fills, P) \union First(a.exits, Q)
      BY <1>1, <1>3, EventsArePassed DEF Passed
    <3>2. CASE d \in First(a.fills, P)
      <4>1. PICK i \in 1..P : d = Event(a.fills, i)
        BY <3>2 DEF First
      <4>. QED BY <1>1, <4>1 DEF Event, Timely, Dated
    <3>3. CASE d \in First(a.exits, Q)
      <4>1. PICK i \in 1..Q : d = Event(a.exits, i)
        BY <3>3 DEF First
      <4>. QED BY <1>1, <4>1 DEF Event, Timely, Dated
    <3>. QED BY <3>1, <3>2, <3>3
  <2>. QED BY <2>1 DEF Earlier
<1>7. \A d \in A : \A f \in E \ A : Earlier(d, f) /\ ~Earlier(f, d)
  BY <1>3, PassedIsEarlier
<1>8. \A d \in A \union {e} : \A f \in E \ (A \union {e}) : Earlier(d, f) /\ ~Earlier(f, d)
  BY <1>3, PassedIsEarlier
<1>9. (CHOOSE d \in E : Cardinality({f \in E : Earlier(f, d)}) = Cardinality(A)) = e
  <2>1. e \in E /\ e \notin A /\ ~Earlier(e, e)
    BY <1>3, <1>6
  <2>. QED BY <1>4, <1>5, <1>6, <1>7, <1>8, <2>1, NextOfPassed
<1>10. p + q + 1 =< P + Q
  <2>1. PICK B : B = A \union {e}
    OBVIOUS
  <2>2. IsFiniteSet(B) /\ Cardinality(B) = p + q + 1
    BY <1>3, <1>4, <2>1, FS_AddElement
  <2>3. B \in SUBSET E
    BY <1>3, <1>5, <2>1
  <2>. QED BY <1>4, <2>2, <2>3, FS_Subset
<1>11. p + q + 1 \in 1..(P + Q) /\ (p + q + 1) - 1 = p + q
  BY <1>2, <1>10
<1>. QED BY <1>1, <1>3, <1>4, <1>9, <1>11 DEF Chronology

\* The chronology takes up the fills and the exits, each in their own order.
LEMMA ChronologyGoesOn ==
  ASSUME NEW a, Timely(a), NEW p, NEW q, Ready(a, p, q), p + q < Len(a.fills) + Len(a.exits)
  PROVE  \/ /\ p < Len(a.fills) /\ Ready(a, p + 1, q)
            /\ Chronology(a)[p + q + 1] = Event(a.fills, p + 1)
         \/ /\ q < Len(a.exits) /\ Ready(a, p, q + 1)
            /\ Chronology(a)[p + q + 1] = Event(a.exits, q + 1)
<1>1. PICK P \in Nat, Q \in Nat : P = Len(a.fills) /\ Q = Len(a.exits)
  BY DEF Timely, Dated
<1>2. p \in 0..P /\ q \in 0..Q
  BY <1>1 DEF Ready
<1>3. ASSUME p < P, Ready(a, p + 1, q)
      PROVE  Chronology(a)[p + q + 1] = Event(a.fills, p + 1)
  <2>1. PICK e : e = Event(a.fills, p + 1)
    OBVIOUS
  <2>2. p + 1 \in 1..P /\ \A i : i \in 1..(p + 1) <=> i \in 1..p \/ i = p + 1
    BY <1>2, <1>3
  <2>3. Passed(a, p + 1, q) = Passed(a, p, q) \union {e}
    <3>1. First(a.fills, p + 1) = First(a.fills, p) \union {e}
      BY <2>1, <2>2, Zenon DEF First
    <3>. QED BY <3>1, Zenon DEF Passed
  <2>4. e \in Events(a)
    BY <1>1, <2>1, <2>2, EventsArePassed DEF Passed, First
  <2>5. e \notin Passed(a, p, q)
    <3>1. /\ Cardinality(Passed(a, p, q)) = p + q /\ IsFiniteSet(Passed(a, p, q))
          /\ Cardinality(Passed(a, p + 1, q)) = (p + 1) + q
      <4>1. p + 1 \in 0..P
        BY <1>2, <1>3
      <4>. QED BY <1>1, <1>2, <4>1, SizeOfPassed
    <3>2. ASSUME e \in Passed(a, p, q) PROVE FALSE
      <4>1. Passed(a, p + 1, q) = Passed(a, p, q)
        BY <2>3, <3>2
      <4>. QED BY <1>2, <3>1, <4>1
    <3>. QED BY <3>2
  <2>. QED BY <1>3, <2>1, <2>3, <2>4, <2>5, ChronologyNext
<1>4. ASSUME q < Q, Ready(a, p, q + 1)
      PROVE  Chronology(a)[p + q + 1] = Event(a.exits, q + 1)
  <2>1. PICK e : e = Event(a.exits, q + 1)
    OBVIOUS
  <2>2. q + 1 \in 1..Q /\ \A i : i \in 1..(q + 1) <=> i \in 1..q \/ i = q + 1
    BY <1>2, <1>4
  <2>3. Passed(a, p, q + 1) = Passed(a, p, q) \union {e}
    <3>1. First(a.exits, q + 1) = First(a.exits, q) \union {e}
      BY <2>1, <2>2, Zenon DEF First
    <3>. QED BY <3>1, Zenon DEF Passed
  <2>4. e \in Events(a)
    BY <1>1, <2>1, <2>2, EventsArePassed DEF Passed, First
  <2>5. e \notin Passed(a, p, q)
    <3>1. /\ Cardinality(Passed(a, p, q)) = p + q /\ IsFiniteSet(Passed(a, p, q))
          /\ Cardinality(Passed(a, p, q + 1)) = p + (q + 1)
      <4>1. q + 1 \in 0..Q
        BY <1>2, <1>4
      <4>. QED BY <1>1, <1>2, <4>1, SizeOfPassed
    <3>2. ASSUME e \in Passed(a, p, q) PROVE FALSE
      <4>1. Passed(a, p, q + 1) = Passed(a, p, q)
        BY <2>3, <3>2
      <4>. QED BY <1>2, <3>1, <4>1
    <3>. QED BY <3>2
  <2>. QED BY <1>4, <2>1, <2>3, <2>4, <2>5, ChronologyNext
<1>. QED BY <1>1, <1>3, <1>4, ReadyGoesOn
-----------------------------------------------------------------------------
(* The book, event by event and lot by lot.                                    *)

Book == [lots : Seq([price : Int, left : Nat]), realized : Int, left : Nat, short : BOOLEAN]

\* An exit takes m units of the i-th lot of b.
Matches(b, c, i, m, gain) ==
  /\ c \in Book /\ Len(c.lots) = Len(b.lots)
  /\ c.left = b.left - m /\ c.short = b.short /\ c.realized = b.realized + gain
  /\ \A k \in 1..Len(b.lots) :
       /\ c.lots[k].price = b.lots[k].price
       /\ c.lots[k].left = IF k = i THEN b.lots[k].left - m ELSE b.lots[k].left

LEMMA LotType ==
  ASSUME NEW b \in Book
  PROVE  /\ Len(b.lots) \in Nat /\ DOMAIN b.lots = 1..Len(b.lots)
         /\ b.realized \in Int /\ b.left \in Nat /\ b.short \in BOOLEAN
         /\ \A k \in 1..Len(b.lots) : b.lots[k] \in [price : Int, left : Nat]
<1>1. b.lots \in Seq([price : Int, left : Nat])
  BY DEF Book
<1>2. PICK s, L : s = b.lots /\ L = [price : Int, left : Nat]
  OBVIOUS
<1>3. s \in Seq(L)
  BY <1>1, <1>2
<1>4. Len(s) \in Nat /\ DOMAIN s = 1..Len(s) /\ \A k \in 1..Len(s) : s[k] \in L
  BY <1>3
<1>5. b.realized \in Int /\ b.left \in Nat /\ b.short \in BOOLEAN
  BY DEF Book
<1>. QED BY <1>2, <1>4, <1>5

LEMMA MatchLotGives ==
  ASSUME NEW b \in Book, NEW i \in 1..Len(b.lots), NEW e, Price(e) \in Int, NEW sign \in Int
  PROVE  \E m \in Nat : /\ m = Least(b.lots[i].left, b.left)
                        /\ Matches(b, MatchLot(b, i, e, sign), i, m,
                                   sign * (Price(e) - b.lots[i].price) * m)
<1>1. PICK n \in Nat : n = Len(b.lots) /\ DOMAIN b.lots = 1..n
  BY LotType
<1>2. PICK lot : lot = b.lots[i]
  OBVIOUS
<1>3. lot \in [price : Int, left : Nat] /\ b.left \in Nat /\ b.realized \in Int
  BY <1>2, LotType
<1>4. PICK m \in Nat : m = Least(lot.left, b.left) /\ m =< lot.left /\ m =< b.left
  BY <1>3 DEF Least
<1>5. PICK gain \in Int : gain = sign * (Price(e) - lot.price) * m
  <2>1. PICK x \in Int : x = Price(e) - lot.price
    BY <1>3
  <2>2. sign * x * m \in Int
    OBVIOUS
  <2>. QED BY <2>1, <2>2
<1>6. PICK c : c = MatchLot(b, i, e, sign)
  OBVIOUS
<1>7. CASE m = 0
  <2>1. c = b
    BY <1>2, <1>4, <1>6, <1>7 DEF MatchLot
  <2>2. gain = 0
    <3>1. PICK x \in Int : x = sign * (Price(e) - lot.price)
      <4>1. PICK y \in Int : y = Price(e) - lot.price
        BY <1>3
      <4>2. sign * y \in Int
        OBVIOUS
      <4>. QED BY <4>1, <4>2
    <3>2. x * 0 = 0
      OBVIOUS
    <3>. QED BY <1>5, <1>7, <3>1, <3>2
  <2>3. \A k \in 1..n : b.lots[k].left \in Nat
    BY <1>1, LotType
  <2>4. \A k \in 1..n : b.lots[k].left = IF k = i THEN b.lots[k].left - m ELSE b.lots[k].left
    BY <1>7, <2>3
  <2>5. b.left = b.left - m /\ b.realized = b.realized + gain
    BY <1>3, <1>7, <2>2
  <2>6. Matches(b, b, i, m, gain)
    BY <1>1, <2>4, <2>5, Zenon DEF Matches
  <2>. QED BY <1>2, <1>4, <1>5, <1>6, <2>1, <2>6, Zenon
<1>8. CASE m # 0
  <2>1. c = [b EXCEPT !.left = @ - m, !.lots[i].left = @ - m, !.realized = @ + gain]
    BY <1>2, <1>4, <1>5, <1>6, <1>8, Zenon DEF MatchLot
  <2>2. PICK lots : lots = [b.lots EXCEPT ![i] = [lot EXCEPT !.left = @ - m]]
    OBVIOUS
  <2>3. lots \in Seq([price : Int, left : Nat]) /\ Len(lots) = n
    <3>1. b.lots \in Seq([price : Int, left : Nat]) /\ i \in 1..Len(b.lots)
      BY DEF Book
    <3>2. [lot EXCEPT !.left = @ - m] \in [price : Int, left : Nat]
      BY <1>3, <1>4
    <3>. QED BY <1>1, <2>2, <3>1, <3>2
  <2>4. \A k \in 1..n : /\ lots[k].price = b.lots[k].price
                        /\ lots[k].left = IF k = i THEN b.lots[k].left - m ELSE b.lots[k].left
    <3>1. \A k \in 1..n : lots[k] = IF k = i THEN [lot EXCEPT !.left = @ - m] ELSE b.lots[k]
      BY <1>1, <2>2
    <3>2. [lot EXCEPT !.left = @ - m].price = lot.price /\ [lot EXCEPT !.left = @ - m].left = lot.left - m
      BY <1>3
    <3>. QED BY <1>2, <3>1, <3>2
  <2>5. c = [lots |-> lots, realized |-> b.realized + gain, left |-> b.left - m, short |-> b.short]
    BY <1>2, <2>1, <2>2 DEF Book
  <2>6. b.left - m \in Nat /\ b.realized + gain \in Int /\ b.short \in BOOLEAN
    BY <1>3, <1>4, LotType
  <2>7. c \in Book
    BY <2>3, <2>5, <2>6 DEF Book
  <2>8. Matches(b, c, i, m, gain)
    BY <1>1, <2>3, <2>4, <2>5, <2>7 DEF Matches
  <2>. QED BY <1>2, <1>4, <1>5, <1>6, <2>8, Zenon
<1>. QED BY <1>7, <1>8

\* What Consume is computed by.
Consumes(g, b, e, sign) ==
  g = [s \in SUBSET DOMAIN b.lots |->
         IF s = {} THEN [b EXCEPT !.left = e.qty]
         ELSE MatchLot(g[s \ {Max(s)}], [i \in DOMAIN b.lots |-> i][Max(s)], e, sign)]

Consumer(b, e, sign) == CHOOSE g : Consumes(g, b, e, sign)

Finished(m) == [m EXCEPT !.short = @ \/ m.left # 0]

LEMMA ConsumeIsFold ==
  ASSUME NEW b, NEW e, NEW sign
  PROVE  Consume(b, e, sign) = Finished(Consumer(b, e, sign)[DOMAIN b.lots])
BY DEF Consume, FoldLeft, MapThenFoldSet, Consumes, Consumer, Finished

\* The book after an exit was matched with the first i lots.
Matching(c, b, e, sign) ==
  /\ c[0] = [b EXCEPT !.left = e.qty]
  /\ \A i \in 0..Len(b.lots) : c[i] \in Book /\ Len(c[i].lots) = Len(b.lots)
  /\ \A i \in 1..Len(b.lots) : c[i] = MatchLot(c[i - 1], i, e, sign)
  /\ Consume(b, e, sign) = Finished(c[Len(b.lots)])

LEMMA ConsumeSteps ==
  ASSUME NEW b \in Book, NEW e, Price(e) \in Int, e.qty \in Nat, NEW sign \in Int
  PROVE  \E c : Matching(c, b, e, sign)
<1>1. PICK n \in Nat : n = Len(b.lots) /\ DOMAIN b.lots = 1..n
  BY LotType
<1>2. PICK V : V = {d \in Book : Len(d.lots) = n}
  OBVIOUS
<1>3. PICK base : base = [b EXCEPT !.left = e.qty]
  OBVIOUS
<1>4. base \in V
  <2>1. base \in Book /\ base.lots = b.lots
    BY <1>3 DEF Book
  <2>. QED BY <1>1, <1>2, <2>1
<1>5. PICK step : step = [x \in V \X (1..n) |-> MatchLot(x[1], x[2], e, sign)]
  OBVIOUS
<1>6. \A d \in V, i \in 1..n : MatchLot(d, i, e, sign) \in V
  <2>. SUFFICES ASSUME NEW d \in V, NEW i \in 1..n PROVE MatchLot(d, i, e, sign) \in V
    OBVIOUS
  <2>1. d \in Book /\ Len(d.lots) = n
    BY <1>2
  <2>2. PICK m, gain : Matches(d, MatchLot(d, i, e, sign), i, m, gain)
    BY <2>1, MatchLotGives
  <2>. QED BY <1>2, <2>1, <2>2 DEF Matches
<1>7. step \in [V \X (1..n) -> V]
  BY <1>5, <1>6
<1>8. \A d \in V, i \in 1..n : step[<<d, i>>] = MatchLot(d, i, e, sign)
  BY <1>5
<1>9. PICK g \in [SUBSET (1..n) -> V] : Computes(g, n, base, step)
  BY <1>4, <1>7, FoldComputed
<1>10. \A s \in SUBSET (1..n) : s # {} => Max(s) \in 1..n /\ s \ {Max(s)} \in SUBSET (1..n)
  BY RestIsSmaller DEF Rest
<1>11. \A s \in SUBSET (1..n) : s # {} => g[s] = MatchLot(g[s \ {Max(s)}], Max(s), e, sign)
  <2>. SUFFICES ASSUME NEW s \in SUBSET (1..n), s # {} PROVE g[s] = MatchLot(g[s \ {Max(s)}], Max(s), e, sign)
    OBVIOUS
  <2>1. PICK r, m : r = g[s \ {Max(s)}] /\ m = Max(s)
    OBVIOUS
  <2>2. m \in 1..n /\ r \in V
    BY <1>10, <2>1
  <2>3. g[s] = step[<<r, m>>]
    BY <1>9, <2>1 DEF Computes
  <2>. QED BY <1>8, <2>1, <2>2, <2>3
<1>12. \A i \in 1..n : [k \in DOMAIN b.lots |-> k][i] = i
  BY <1>1
<1>13. Consumes(g, b, e, sign)
  <2>1. g[{}] = base
    BY <1>9 DEF Computes
  <2>2. g = [s \in SUBSET (1..n) |-> IF s = {} THEN base ELSE MatchLot(g[s \ {Max(s)}], Max(s), e, sign)]
    BY <1>11, <2>1
  <2>3. \A s \in SUBSET (1..n) : s # {} =>
          MatchLot(g[s \ {Max(s)}], [k \in DOMAIN b.lots |-> k][Max(s)], e, sign)
            = MatchLot(g[s \ {Max(s)}], Max(s), e, sign)
    BY <1>10, <1>12
  <2>4. g = [s \in SUBSET (1..n) |-> IF s = {} THEN base
                                     ELSE MatchLot(g[s \ {Max(s)}], [k \in DOMAIN b.lots |-> k][Max(s)], e, sign)]
    BY <2>2, <2>3
  <2>. QED BY <1>1, <1>3, <2>4, Zenon DEF Consumes
<1>14. PICK f : f = Consumer(b, e, sign)
  OBVIOUS
<1>15. Consumes(f, b, e, sign)
  BY <1>13, <1>14, Zenon DEF Consumer
<1>16. f[1..n] = g[1..n]
  <2>1. {} \in SUBSET (1..n)
    OBVIOUS
  <2>2. f[{}] = g[{}]
    BY <1>1, <1>13, <1>15, <2>1, Zenon DEF Consumes
  <2>3. ASSUME NEW s \in SUBSET (1..n), s # {}, f[Rest(s)] = g[Rest(s)] PROVE f[s] = g[s]
    <3>1. /\ f[s] = MatchLot(f[s \ {Max(s)}], [k \in DOMAIN b.lots |-> k][Max(s)], e, sign)
          /\ g[s] = MatchLot(g[s \ {Max(s)}], [k \in DOMAIN b.lots |-> k][Max(s)], e, sign)
      BY <1>1, <1>13, <1>15, <2>3, Zenon DEF Consumes
    <3>2. f[s \ {Max(s)}] = g[s \ {Max(s)}]
      BY <2>3 DEF Rest
    <3>. QED BY <3>1, <3>2
  <2>. QED BY <2>2, <2>3, FoldsAgree
<1>17. PICK c : StepByStep(c, n, V, base, step, g[1..n])
  BY <1>9, FoldSteps
<1>18. \A i \in 1..n : c[i] = MatchLot(c[i - 1], i, e, sign)
  <2>. SUFFICES ASSUME NEW i \in 1..n PROVE c[i] = MatchLot(c[i - 1], i, e, sign)
    OBVIOUS
  <2>1. c[i - 1] \in V
    <3>1. i - 1 \in 0..n
      OBVIOUS
    <3>. QED BY <1>17, <3>1 DEF StepByStep
  <2>2. c[i] = step[<<c[i - 1], i>>]
    BY <1>17 DEF StepByStep
  <2>. QED BY <1>8, <2>1, <2>2
<1>19. \A i \in 0..n : c[i] \in Book /\ Len(c[i].lots) = n
  BY <1>2, <1>17 DEF StepByStep
<1>20. Consume(b, e, sign) = Finished(c[n])
  <2>1. Consumer(b, e, sign)[DOMAIN b.lots] = f[1..n]
    BY <1>1, <1>14, Zenon
  <2>2. c[n] = f[1..n]
    BY <1>16, <1>17 DEF StepByStep
  <2>. QED BY <2>1, <2>2, ConsumeIsFold, Zenon
<1>21. c[0] = base
  BY <1>17 DEF StepByStep
<1>. QED BY <1>1, <1>3, <1>18, <1>19, <1>20, <1>21, Zenon DEF Matching
LEMMA BookedType ==
  ASSUME NEW b \in Book, NEW event, Price(event.fill) \in Int, event.fill.qty \in Nat, NEW sign \in Int
  PROVE  Booked(b, event, sign) \in Book
<1>. DEFINE e == event.fill
<1>1. Enter(b, e) \in Book
  <2>1. PICK lots : lots = Append(b.lots, [price |-> Price(e), left |-> e.qty])
    OBVIOUS
  <2>2. b.lots \in Seq([price : Int, left : Nat]) /\ [price |-> Price(e), left |-> e.qty] \in [price : Int, left : Nat]
    BY DEF Book
  <2>3. lots \in Seq([price : Int, left : Nat])
    BY <2>1, <2>2
  <2>4. Enter(b, e) = [b EXCEPT !.lots = lots]
    BY <2>1 DEF Enter
  <2>. HIDE DEF e
  <2>. QED BY <2>3, <2>4 DEF Book
<1>2. Consume(b, e, sign) \in Book
  <2>1. PICK c : Matching(c, b, e, sign)
    BY ConsumeSteps
  <2>2. PICK d : d = c[Len(b.lots)]
    OBVIOUS
  <2>3. d \in Book
    <3>1. Len(b.lots) \in 0..Len(b.lots)
      BY LotType
    <3>. QED BY <2>1, <2>2, <3>1 DEF Matching
  <2>4. Finished(d) \in Book
    <3>1. (d.short \/ d.left # 0) \in BOOLEAN
      OBVIOUS
    <3>2. Finished(d) = [d EXCEPT !.short = (d.short \/ d.left # 0)]
      BY DEF Finished
    <3>. QED BY <2>3, <3>1, <3>2 DEF Book
  <2>. QED BY <2>1, <2>2, <2>4 DEF Matching
<1>. QED BY <1>1, <1>2 DEF Booked

\* What FifoBook is computed by.
Bookkeeping(g, c, sign) ==
  g = [s \in SUBSET DOMAIN c |-> IF s = {} THEN NewBook ELSE Booked(g[s \ {Max(s)}], c[Max(s)], sign)]
Bookkeeper(c, sign) == CHOOSE g : Bookkeeping(g, c, sign)

LEMMA FifoBookIsFold ==
  ASSUME NEW a, NEW sign
  PROVE  FifoBook(a, sign) = Bookkeeper(Chronology(a), sign)[DOMAIN Chronology(a)]
BY DEF FifoBook, FoldLeft, MapThenFoldSet, Bookkeeping, Bookkeeper

\* The book after the first i events.
Booking(h, a, sign, n) ==
  /\ h[0] = NewBook
  /\ \A i \in 0..n : h[i] \in Book
  /\ \A i \in 1..n : h[i] = Booked(h[i - 1], Chronology(a)[i], sign)
  /\ FifoBook(a, sign) = h[n]

LEMMA FifoBookSteps ==
  ASSUME NEW a, NEW sign \in Int, NEW n \in Nat, DOMAIN Chronology(a) = 1..n,
         \A i \in 1..n : Price(Chronology(a)[i].fill) \in Int /\ Chronology(a)[i].fill.qty \in Nat
  PROVE  \E h : Booking(h, a, sign, n)
<1>1. PICK c : c = Chronology(a)
  OBVIOUS
<1>2. NewBook \in Book
  BY DEF NewBook, Book
<1>3. PICK step : step = [x \in Book \X (1..n) |-> Booked(x[1], c[x[2]], sign)]
  OBVIOUS
<1>4. \A b \in Book, i \in 1..n : Booked(b, c[i], sign) \in Book
  BY <1>1, BookedType
<1>5. step \in [Book \X (1..n) -> Book] /\ \A b \in Book, i \in 1..n : step[<<b, i>>] = Booked(b, c[i], sign)
  BY <1>3, <1>4
<1>6. PICK g \in [SUBSET (1..n) -> Book] : Computes(g, n, NewBook, step)
  BY <1>2, <1>5, FoldComputed
<1>7. \A s \in SUBSET (1..n) : s # {} => Max(s) \in 1..n /\ s \ {Max(s)} \in SUBSET (1..n)
  BY RestIsSmaller DEF Rest
<1>8. \A s \in SUBSET (1..n) : s # {} => g[s] = Booked(g[s \ {Max(s)}], c[Max(s)], sign)
  <2>. SUFFICES ASSUME NEW s \in SUBSET (1..n), s # {} PROVE g[s] = Booked(g[s \ {Max(s)}], c[Max(s)], sign)
    OBVIOUS
  <2>1. PICK r, m : r = g[s \ {Max(s)}] /\ m = Max(s)
    OBVIOUS
  <2>2. m \in 1..n /\ r \in Book
    BY <1>7, <2>1
  <2>3. g[s] = step[<<r, m>>]
    BY <1>6, <2>1 DEF Computes
  <2>. QED BY <1>5, <2>1, <2>2, <2>3
<1>9. Bookkeeping(g, c, sign)
  <2>1. g[{}] = NewBook
    BY <1>6 DEF Computes
  <2>2. g = [s \in SUBSET (1..n) |-> IF s = {} THEN NewBook ELSE Booked(g[s \ {Max(s)}], c[Max(s)], sign)]
    BY <1>8, <2>1
  <2>. QED BY <1>1, <2>2, Zenon DEF Bookkeeping
<1>10. PICK f : f = Bookkeeper(c, sign)
  OBVIOUS
<1>11. Bookkeeping(f, c, sign)
  BY <1>9, <1>10, Zenon DEF Bookkeeper
<1>12. f[1..n] = g[1..n]
  <2>1. {} \in SUBSET (1..n) /\ DOMAIN c = 1..n
    BY <1>1
  <2>2. f[{}] = g[{}]
    BY <1>9, <1>11, <2>1, Zenon DEF Bookkeeping
  <2>3. ASSUME NEW s \in SUBSET (1..n), s # {}, f[Rest(s)] = g[Rest(s)] PROVE f[s] = g[s]
    <3>1. /\ f[s] = Booked(f[s \ {Max(s)}], c[Max(s)], sign)
          /\ g[s] = Booked(g[s \ {Max(s)}], c[Max(s)], sign)
      BY <1>9, <1>11, <2>1, <2>3, Zenon DEF Bookkeeping
    <3>2. f[s \ {Max(s)}] = g[s \ {Max(s)}]
      BY <2>3 DEF Rest
    <3>. QED BY <3>1, <3>2
  <2>. QED BY <2>2, <2>3, FoldsAgree
<1>13. PICK h : StepByStep(h, n, Book, NewBook, step, g[1..n])
  BY <1>6, FoldSteps
<1>14. \A i \in 0..n : h[i] \in Book
  BY <1>13 DEF StepByStep
<1>15. \A i \in 1..n : h[i] = Booked(h[i - 1], c[i], sign)
  <2>. SUFFICES ASSUME NEW i \in 1..n PROVE h[i] = Booked(h[i - 1], c[i], sign)
    OBVIOUS
  <2>1. h[i - 1] \in Book
    <3>1. i - 1 \in 0..n
      OBVIOUS
    <3>. QED BY <1>14, <3>1
  <2>2. h[i] = step[<<h[i - 1], i>>]
    BY <1>13 DEF StepByStep
  <2>. QED BY <1>5, <2>1, <2>2
<1>16. FifoBook(a, sign) = h[n]
  <2>1. h[n] = f[1..n] /\ h[0] = NewBook
    BY <1>12, <1>13 DEF StepByStep
  <2>. QED BY <1>1, <1>10, <2>1, FifoBookIsFold
<1>17. h[0] = NewBook
  BY <1>13 DEF StepByStep
<1>. QED BY <1>1, <1>14, <1>15, <1>16, <1>17 DEF Booking
-----------------------------------------------------------------------------
(* What the book says when c units have been sold: every lot is what the units *)
(* beyond the c-th leave of its fill, and the profit is that of c units.       *)

\* Fills s and exits x, their units and what these are worth.
Sides(s, F, U, x, X, Y, sign) ==
  Tally(F, s) /\ Worth(U, F, s) /\ Tally(X, x) /\ Worth(Y, X, x) /\ sign \in {1, -1}

\* What is left of the units beyond the u-th up to the v-th.
Piece(u, v, c) == IF c =< u THEN v - u ELSE IF c < v THEN v - c ELSE 0
Unsold(F, k, c) == Piece(F[k - 1], F[k], c)

Sold(b, s, F, U, Y, sign, p, c) ==
  /\ b \in Book /\ Len(b.lots) = p
  /\ \A k \in 1..p : b.lots[k].price = Price(s[k]) /\ b.lots[k].left = Unsold(F, k, c)
  /\ b.realized = sign * (Y[c] - U[c])

LEMMA Nothing == ASSUME NEW sign \in {1, -1}, NEW n \in Int PROVE sign * n * 0 = 0
<1>1. PICK m \in Int : m = sign * n
  OBVIOUS
<1>2. m * 0 = 0
  OBVIOUS
<1>. QED BY <1>1, <1>2

LEMMA Profit ==
  ASSUME NEW sign \in {1, -1}, NEW u \in Int, NEW y \in Int, NEW price \in Int, NEW other \in Int, NEW m \in Nat
  PROVE  sign * (y - u) + sign * (other - price) * m = sign * ((y + m * other) - (u + m * price))
<1>1. PICK v, w \in Int : v = m * other /\ w = m * price
  OBVIOUS
<1>2. (other - price) * m = v - w
  BY <1>1
<1>3. CASE sign = 1
  <2>1. sign * (other - price) * m = (other - price) * m
    BY <1>3
  <2>. QED BY <1>1, <1>2, <1>3, <2>1
<1>4. CASE sign = -1
  <2>1. sign * (other - price) * m = -((other - price) * m)
    BY <1>4
  <2>. QED BY <1>1, <1>2, <1>4, <2>1
<1>. QED BY <1>3, <1>4

\* m more units, of those from the f-th to the g-th and none beyond the z-th.
Offered(f, g, z, c, m) ==
  f < g /\ c =< z /\ (c = z \/ f =< c) /\ m = Least(Piece(f, g, c), z - c)
Taken(f, g, z, c, m, d) ==
  /\ d =< z /\ (d = z \/ g =< d) /\ (m = 0 \/ (f =< c /\ d =< g))
  /\ Piece(f, g, d) = Piece(f, g, c) - m /\ z - d = (z - c) - m

LEMMA PieceTaken ==
  ASSUME NEW f \in Nat, NEW g \in Nat, NEW c \in Nat, NEW z \in Nat, NEW m \in Nat,
         Offered(f, g, z, c, m), NEW d \in Nat, d = c + m
  PROVE  Taken(f, g, z, c, m, d)
<1>0. f < g /\ c =< z /\ (c = z \/ f =< c) /\ m = Least(Piece(f, g, c), z - c)
  BY DEF Offered
<1>1. CASE c = z
  <2>1. z - c = 0 /\ Piece(f, g, c) \in Nat
    BY <1>0, <1>1 DEF Piece
  <2>2. m = 0 /\ d = c
    BY <1>0, <2>1 DEF Least
  <2>3. PICK l \in Nat : l = Piece(f, g, c)
    BY <2>1
  <2>4. Piece(f, g, d) = l /\ l = l - m
    BY <2>2, <2>3
  <2>5. d = z /\ z - d = (z - c) - m
    BY <1>1, <2>2
  <2>. QED BY <1>0, <1>1, <2>2, <2>3, <2>4, <2>5 DEF Taken
<1>2. CASE g =< c
  <2>1. Piece(f, g, c) = 0
    BY <1>0, <1>2 DEF Piece
  <2>2. m = 0 /\ d = c
    BY <1>0, <2>1 DEF Least
  <2>. QED BY <1>0, <1>2, <2>1, <2>2 DEF Taken
<1>3. CASE c < z /\ f =< c /\ c < g
  <2>1. Piece(f, g, c) = g - c
    BY <1>0, <1>3 DEF Piece
  <2>2. m =< g - c /\ m =< z - c /\ (m = g - c \/ m = z - c)
    BY <1>0, <1>3, <2>1 DEF Least
  <2>3. d =< g /\ d =< z /\ f =< d
    BY <1>3, <2>2
  <2>4. Piece(f, g, d) = g - d
    BY <1>0, <2>3 DEF Piece
  <2>. QED BY <1>0, <1>3, <2>1, <2>2, <2>3, <2>4 DEF Taken
<1>. QED BY <1>0, <1>1, <1>2, <1>3

LEMMA PieceStays ==
  ASSUME NEW u \in Nat, NEW v \in Nat, u =< v, NEW c \in Nat, NEW d \in Nat, c =< d, v =< c \/ d =< u
  PROVE  Piece(u, v, c) = Piece(u, v, d)
BY DEF Piece

LEMMA WorthOfSome ==
  ASSUME NEW s, NEW F, Tally(F, s), NEW U, Worth(U, F, s), NEW c \in Nat, c =< F[Len(s)]
  PROVE  U[c] \in Int
<1>1. PICK N \in Nat : N = F[Len(s)]
  <2>1. Len(s) \in 0..Len(s)
    BY TallyGrows
  <2>. QED BY <2>1, TallyGrows
<1>2. c \in 0..N
  BY <1>1
<1>. QED BY <1>1, <1>2 DEF Worth, Sums

\* The j-th exit is due and has been matched with the lots before the i-th.
Due(b, s, F, x, X, p, i, j, c) ==
  /\ p =< Len(s) /\ c =< F[Len(s)] /\ j \in 1..Len(x)
  /\ X[j - 1] =< c /\ c =< X[j] /\ b.left = X[j] - c /\ (c = X[j] \/ F[i - 1] =< c)

LEMMA MatchOne ==
  ASSUME NEW s, NEW F, NEW U, NEW x, NEW X, NEW Y, NEW sign, Sides(s, F, U, x, X, Y, sign),
         NEW p \in Nat, NEW c \in Nat, NEW b, Sold(b, s, F, U, Y, sign, p, c),
         NEW i \in 1..p, NEW j \in Nat, Due(b, s, F, x, X, p, i, j, c)
  PROVE  \E d \in Nat : /\ Due(MatchLot(b, i, x[j], sign), s, F, x, X, p, i + 1, j, d)
                        /\ Sold(MatchLot(b, i, x[j], sign), s, F, U, Y, sign, p, d)
                        /\ MatchLot(b, i, x[j], sign).short = b.short
<1>1. PICK P \in Nat, Q \in Nat : P = Len(s) /\ Q = Len(x)
  BY TallyGrows DEF Sides
<1>2. p =< P /\ i \in 1..P /\ i \in 1..Len(b.lots) /\ b \in Book /\ Len(b.lots) = p /\ j \in 1..Q
  BY <1>1 DEF Sold, Due
<1>3. /\ \A k \in 0..P : F[k] \in Nat
      /\ \A k \in 0..P, l \in 0..P : k =< l => F[k] =< F[l]
      /\ \A k \in 1..P : F[k] = F[k - 1] + s[k].qty /\ s[k].qty \in Nat \ {0} /\ Price(s[k]) \in Int
  BY <1>1, TallyGrows DEF Sides
<1>4. X[j] \in Nat /\ X[j - 1] \in Nat /\ Price(x[j]) \in Int
  <2>1. j \in 0..Q /\ j - 1 \in 0..Q
    BY <1>2
  <2>. QED BY <1>1, <1>2, <2>1, TallyGrows DEF Sides
<1>5. PICK e : e = MatchLot(b, i, x[j], sign)
  OBVIOUS
<1>6. PICK price \in Int, other \in Int : price = Price(s[i]) /\ other = Price(x[j]) /\ price = b.lots[i].price
  BY <1>2, <1>3, <1>4 DEF Sold
<1>7. PICK m \in Nat : m = Least(b.lots[i].left, b.left) /\ Matches(b, e, i, m, sign * (other - price) * m)
  <2>1. sign \in Int
    BY DEF Sides
  <2>. QED BY <1>2, <1>4, <1>5, <1>6, <2>1, MatchLotGives
<1>8. PICK f \in Nat, g \in Nat : f = F[i - 1] /\ g = F[i] /\ f < g
  <2>1. i - 1 \in 0..P /\ i \in 0..P
    BY <1>2
  <2>2. PICK f \in Nat, g \in Nat : f = F[i - 1] /\ g = F[i]
    BY <1>3, <2>1
  <2>3. PICK n \in Nat \ {0} : n = s[i].qty
    BY <1>2, <1>3
  <2>4. g = f + n
    BY <1>2, <1>3, <2>2, <2>3
  <2>5. f < g
    BY <2>4
  <2>. QED BY <2>2, <2>5
<1>9. PICK z \in Nat : z = X[j] /\ X[j - 1] =< c /\ c =< z /\ b.left = z - c /\ (c = z \/ f =< c)
  BY <1>4, <1>8 DEF Due
<1>10. PICK d \in Nat : d = c + m
  OBVIOUS
<1>11. /\ d =< z /\ (d = z \/ g =< d) /\ (m = 0 \/ (f =< c /\ d =< g))
       /\ Piece(f, g, d) = Piece(f, g, c) - m /\ z - d = (z - c) - m
  <2>1. b.lots[i].left = Piece(f, g, c) /\ b.left = z - c
    BY <1>2, <1>8, <1>9 DEF Sold, Unsold
  <2>2. m = Least(Piece(f, g, c), z - c)
    BY <1>7, <2>1
  <2>3. f < g /\ c =< z /\ (c = z \/ f =< c)
    BY <1>8, <1>9
  <2>4. Taken(f, g, z, c, m, d)
    BY <1>10, <2>2, <2>3, PieceTaken DEF Offered
  <2>. QED BY <2>4 DEF Taken
<1>12. c =< d
  BY <1>10
<1>13. U[c] \in Int /\ U[d] = U[c] + m * price
  <2>1. CASE m = 0
    <3>1. d = c /\ m * price = 0
      BY <1>10, <2>1
    <3>2. U[c] \in Int
      BY WorthOfSome DEF Sides, Due
    <3>. QED BY <3>1, <3>2
  <2>2. CASE m # 0
    <3>1. F[i - 1] =< c /\ c + m =< F[i] /\ i \in 1..Len(s)
      BY <1>1, <1>2, <1>8, <1>10, <1>11, <2>2
    <3>2. Tally(F, s) /\ Worth(U, F, s)
      BY DEF Sides
    <3>3. U[c] \in Int /\ U[c + m] = U[c] + m * Price(s[i])
      BY <3>1, <3>2, WorthGrows
    <3>. QED BY <1>6, <1>10, <3>3
  <2>. QED BY <2>1, <2>2
<1>14. Y[c] \in Int /\ Y[d] = Y[c] + m * other
  <2>1. X[j - 1] =< c /\ c + m =< X[j] /\ j \in 1..Len(x)
    BY <1>1, <1>2, <1>9, <1>10, <1>11
  <2>2. Tally(X, x) /\ Worth(Y, X, x)
    BY DEF Sides
  <2>3. Y[c] \in Int /\ Y[c + m] = Y[c] + m * Price(x[j])
    BY <2>1, <2>2, WorthGrows
  <2>. QED BY <1>6, <1>10, <2>3
<1>15. e.realized = sign * (Y[d] - U[d])
  <2>1. PICK u \in Int, y \in Int : u = U[c] /\ y = Y[c]
    BY <1>13, <1>14
  <2>2. e.realized = sign * (y - u) + sign * (other - price) * m
    BY <1>7, <2>1 DEF Matches, Sold
  <2>3. sign * (y - u) + sign * (other - price) * m = sign * ((y + m * other) - (u + m * price))
    BY Profit DEF Sides
  <2>. QED BY <1>13, <1>14, <2>1, <2>2, <2>3
<1>16. ASSUME NEW k \in 1..p PROVE e.lots[k].price = Price(s[k]) /\ e.lots[k].left = Unsold(F, k, d)
  <2>1. /\ e.lots[k].price = Price(s[k])
        /\ e.lots[k].left = IF k = i THEN b.lots[k].left - m ELSE b.lots[k].left
        /\ b.lots[k].left = Unsold(F, k, c)
    BY <1>2, <1>7 DEF Matches, Sold
  <2>2. k \in 0..P /\ k - 1 \in 0..P /\ i \in 0..P /\ i - 1 \in 0..P
    BY <1>2
  <2>3. PICK u \in Nat, v \in Nat : u = F[k - 1] /\ v = F[k] /\ u =< v
    <3>1. k - 1 =< k
      OBVIOUS
    <3>2. F[k - 1] \in Nat /\ F[k] \in Nat /\ F[k - 1] =< F[k]
      BY <1>3, <2>2, <3>1
    <3>. QED BY <3>2
  <2>a. u =< v
    BY <2>3
  <2>4. Unsold(F, k, c) = Piece(u, v, c) /\ Unsold(F, k, d) = Piece(u, v, d)
    BY <2>3 DEF Unsold
  <2>5. CASE k = i
    <3>1. u = f /\ v = g
      BY <1>8, <2>3, <2>5
    <3>. QED BY <1>11, <2>1, <2>4, <2>5, <3>1
  <2>6. CASE k # i
    <3>1. v =< f \/ g =< u
      <4>1. CASE k < i
        <5>1. k =< i - 1
          BY <1>2, <4>1
        <5>. QED BY <1>3, <1>8, <2>2, <2>3, <5>1
      <4>2. CASE k > i
        <5>1. i =< k - 1
          BY <1>2, <4>2
        <5>. QED BY <1>3, <1>8, <2>2, <2>3, <5>1
      <4>. QED BY <1>2, <2>6, <4>1, <4>2
    <3>2. CASE m = 0
      <4>1. d = c
        BY <1>10, <3>2
      <4>. QED BY <2>1, <2>6, <4>1
    <3>3. CASE m # 0
      <4>1. v =< c \/ d =< u
        <5>1. f =< c /\ d =< g
          BY <1>11, <3>3
        <5>2. CASE v =< f
          BY <2>a, <5>1, <5>2
        <5>3. CASE g =< u
          BY <2>a, <5>1, <5>3
        <5>. QED BY <3>1, <5>2, <5>3
      <4>2. Piece(u, v, c) = Piece(u, v, d)
        BY <1>12, <2>a, <4>1, PieceStays
      <4>. QED BY <2>1, <2>4, <2>6, <4>2
    <3>. QED BY <3>2, <3>3
  <2>. QED BY <2>5, <2>6
<1>17. e \in Book /\ Len(e.lots) = p /\ e.left = b.left - m /\ e.short = b.short
  BY <1>2, <1>7 DEF Matches
<1>18. Sold(e, s, F, U, Y, sign, p, d)
  BY <1>15, <1>16, <1>17 DEF Sold
<1>19. e.left = z - d
  BY <1>9, <1>11, <1>17
<1>20. Due(e, s, F, x, X, p, i + 1, j, d)
  <2>1. (i + 1) - 1 = i
    OBVIOUS
  <2>2. X[j - 1] =< d
    <3>1. PICK y \in Nat : y = X[j - 1] /\ y =< c
      BY <1>4, <1>9
    <3>2. y =< c
      BY <3>1
    <3>3. y =< d
      BY <1>12, <3>2
    <3>. QED BY <3>1, <3>3
  <2>3. d =< F[Len(s)]
    <3>1. PICK N \in Nat : N = F[P] /\ g =< N
      <4>1. i \in 0..P /\ P \in 0..P /\ i =< P
        BY <1>2
      <4>. QED BY <1>3, <1>8, <4>1
    <3>2. g =< N /\ c =< N
      BY <1>1, <3>1 DEF Due
    <3>3. d =< N
      BY <1>10, <1>11, <3>2
    <3>. QED BY <1>1, <3>1, <3>3
  <2>. QED BY <1>1, <1>2, <1>8, <1>9, <1>11, <1>19, <2>1, <2>2, <2>3 DEF Due
<1>. QED BY <1>5, <1>17, <1>18, <1>20
\* An exit of as many units as are left sells the next units, and no lot runs short.
LEMMA MatchAll ==
  ASSUME NEW s, NEW F, NEW U, NEW x, NEW X, NEW Y, NEW sign, Sides(s, F, U, x, X, Y, sign),
         NEW p \in Nat, p =< Len(s), NEW j \in Nat, j \in 1..Len(x), X[j] =< F[p],
         NEW b, Sold(b, s, F, U, Y, sign, p, X[j - 1]), ~b.short
  PROVE  Sold(Consume(b, x[j], sign), s, F, U, Y, sign, p, X[j]) /\ ~Consume(b, x[j], sign).short
<1>1. PICK P \in Nat, Q \in Nat : P = Len(s) /\ Q = Len(x)
  BY TallyGrows DEF Sides
<1>2. p \in 0..P /\ P \in 0..P /\ p =< P /\ j \in 0..Q /\ j - 1 \in 0..Q /\ j \in 1..Q
  BY <1>1
<1>3. /\ F[p] \in Nat /\ F[P] \in Nat /\ F[p] =< F[P] /\ F[0] = 0
      /\ X[j] \in Nat /\ X[j - 1] \in Nat /\ X[j] = X[j - 1] + x[j].qty /\ x[j].qty \in Nat /\ Price(x[j]) \in Int
  BY <1>1, <1>2, TallyGrows DEF Sides
<1>4. PICK y \in Nat, z \in Nat, q \in Nat, v \in Nat, w \in Nat :
        /\ y = X[j - 1] /\ z = X[j] /\ q = x[j].qty /\ v = F[p] /\ w = F[P]
  BY <1>3
<1>5. z = y + q /\ z =< v /\ v =< w
  BY <1>3, <1>4
<1>6. b \in Book /\ Len(b.lots) = p
  BY DEF Sold
<1>7. PICK t : Matching(t, b, x[j], sign)
  <2>1. sign \in Int
    BY DEF Sides
  <2>. QED BY <1>3, <1>6, <2>1, ConsumeSteps
<1>. DEFINE At(i, c) == /\ Sold(t[i], s, F, U, Y, sign, p, c) /\ Due(t[i], s, F, x, X, p, i + 1, j, c)
                        /\ t[i].short = b.short
            T == {i \in Nat : i =< p => \E c \in Nat : At(i, c)}
<1>8. 0 \in T
  <2>1. PICK d : d = [b EXCEPT !.left = q]
    OBVIOUS
  <2>2. d = t[0]
    BY <1>4, <1>7, <2>1 DEF Matching
  <2>3. d \in Book /\ d.lots = b.lots /\ d.realized = b.realized /\ d.short = b.short /\ d.left = q
    BY <1>6, <2>1 DEF Book
  <2>4. Sold(d, s, F, U, Y, sign, p, y)
    BY <1>4, <2>3 DEF Sold
  <2>5. Due(d, s, F, x, X, p, 0 + 1, j, y)
    <3>1. q = z - y /\ y =< z /\ y =< w
      BY <1>5
    <3>2. F[(0 + 1) - 1] =< y
      <4>1. (0 + 1) - 1 = 0
        OBVIOUS
      <4>. QED BY <1>3, <4>1
    <3>3. d.left = X[j] - y
      BY <1>4, <2>3, <3>1
    <3>4. y =< F[Len(s)] /\ p =< Len(s) /\ j \in 1..Len(x)
      BY <1>1, <1>2, <1>4, <3>1
    <3>5. X[j - 1] =< y /\ y =< X[j]
      <4>1. y =< y /\ y =< z
        BY <3>1
      <4>. QED BY <1>4, <4>1, Zenon
    <3>. QED BY <3>2, <3>3, <3>4, <3>5, Zenon DEF Due
  <2>. QED BY <2>2, <2>3, <2>4, <2>5
<1>9. ASSUME NEW i \in Nat, i \in T PROVE i + 1 \in T
  <2>. SUFFICES ASSUME i + 1 =< p PROVE \E c \in Nat : At(i + 1, c)
    OBVIOUS
  <2>0. i + 1 \in 1..p /\ (i + 1) - 1 = i /\ i =< p
    OBVIOUS
  <2>1. PICK c \in Nat : At(i, c)
    BY <1>9, <2>0
  <2>2. t[i + 1] = MatchLot(t[i], i + 1, x[j], sign)
    BY <1>6, <1>7, <2>0 DEF Matching
  <2>3. PICK d \in Nat : /\ Due(t[i + 1], s, F, x, X, p, (i + 1) + 1, j, d)
                         /\ Sold(t[i + 1], s, F, U, Y, sign, p, d)
                         /\ t[i + 1].short = t[i].short
    BY <2>0, <2>1, <2>2, MatchOne
  <2>. QED BY <2>1, <2>3
<1>10. PICK c \in Nat : At(p, c)
  <2>1. \A i \in Nat : i \in T
    <3>. HIDE DEF T
    <3>. QED BY <1>8, <1>9, Inductive
  <2>. HIDE DEF At
  <2>. QED BY <2>1
<1>11. PICK d : d = t[p]
  OBVIOUS
<1>12. c = z /\ d.left = z - c
  <2>1. c =< z /\ (c = z \/ v =< c) /\ d.left = z - c
    <3>1. (p + 1) - 1 = p
      OBVIOUS
    <3>. QED BY <1>4, <1>10, <1>11, <3>1 DEF Due
  <2>. QED BY <1>5, <2>1
<1>13. Sold(d, s, F, U, Y, sign, p, X[j]) /\ ~d.short /\ d.left = 0
  <2>1. z - c = 0
    BY <1>12
  <2>2. Sold(d, s, F, U, Y, sign, p, c) /\ d.short = b.short
    BY <1>10, <1>11, Zenon
  <2>. QED BY <1>4, <1>12, <2>1, <2>2, Zenon
<1>14. Consume(b, x[j], sign) = Finished(d)
  BY <1>6, <1>7, <1>11 DEF Matching
<1>15. Finished(d) = [d EXCEPT !.short = FALSE]
  <2>1. (d.short \/ d.left # 0) = FALSE
    BY <1>13
  <2>. QED BY <2>1, Zenon DEF Finished
<1>16. PICK f : f = Finished(d)
  OBVIOUS
<1>17. f \in Book /\ f.lots = d.lots /\ f.realized = d.realized /\ f.short = FALSE
  BY <1>13, <1>15, <1>16 DEF Sold, Book
<1>18. Sold(f, s, F, U, Y, sign, p, X[j])
  BY <1>13, <1>17 DEF Sold
<1>. QED BY <1>14, <1>16, <1>17, <1>18

LEMMA EnterOne ==
  ASSUME NEW s, NEW F, NEW U, NEW x, NEW X, NEW Y, NEW sign, Sides(s, F, U, x, X, Y, sign),
         NEW p \in Nat, p < Len(s), NEW c \in Nat, c =< F[p],
         NEW b, Sold(b, s, F, U, Y, sign, p, c), ~b.short
  PROVE  Sold(Enter(b, s[p + 1]), s, F, U, Y, sign, p + 1, c) /\ ~Enter(b, s[p + 1]).short
<1>1. PICK P \in Nat : P = Len(s) /\ p + 1 \in 1..P /\ p \in 0..P /\ p + 1 \in 0..P
  BY TallyGrows DEF Sides
<1>2. PICK q \in Nat, price \in Int, u \in Nat, v \in Nat :
        q = s[p + 1].qty /\ price = Price(s[p + 1]) /\ u = F[p] /\ v = F[p + 1]
  BY <1>1, TallyGrows DEF Sides
<1>3. v = u + q
  <2>1. (p + 1) - 1 = p
    OBVIOUS
  <2>. QED BY <1>1, <1>2, <2>1, TallyGrows DEF Sides
<1>4. c =< u
  BY <1>2
<1>5. PICK lot : lot = [price |-> price, left |-> q]
  OBVIOUS
<1>6. PICK e : e = Enter(b, s[p + 1])
  OBVIOUS
<1>7. b \in Book /\ Len(b.lots) = p /\ b.lots \in Seq([price : Int, left : Nat])
  BY DEF Sold, Book
<1>8. PICK lots : lots = Append(b.lots, lot)
  OBVIOUS
<1>9. /\ lots \in Seq([price : Int, left : Nat]) /\ Len(lots) = p + 1
      /\ lots[p + 1] = lot /\ \A k \in 1..p : lots[k] = b.lots[k]
  <2>1. PICK S : S = [price : Int, left : Nat]
    OBVIOUS
  <2>2. PICK old : old = b.lots
    OBVIOUS
  <2>3. lot \in S
    BY <1>5, <2>1
  <2>4. old \in Seq(S) /\ Len(old) = p
    BY <1>7, <2>1, <2>2
  <2>5. lots = Append(old, lot)
    BY <1>8, <2>2
  <2>6. /\ lots \in Seq(S) /\ Len(lots) = p + 1
        /\ lots[p + 1] = lot /\ \A k \in 1..p : lots[k] = old[k]
    BY <2>3, <2>4, <2>5
  <2>. QED BY <2>1, <2>2, <2>6
<1>10. e \in Book /\ e.lots = lots /\ e.realized = b.realized /\ e.short = b.short
  <2>1. e = [b EXCEPT !.lots = lots]
    BY <1>2, <1>5, <1>6, <1>8 DEF Enter
  <2>. QED BY <1>7, <1>9, <2>1 DEF Book
<1>11. ASSUME NEW k \in 1..(p + 1) PROVE lots[k].price = Price(s[k]) /\ lots[k].left = Unsold(F, k, c)
  <2>1. CASE k = p + 1
    <3>1. Unsold(F, k, c) = Piece(u, v, c)
      <4>1. k - 1 = p
        BY <2>1
      <4>. QED BY <1>2, <2>1, <4>1 DEF Unsold
    <3>2. Piece(u, v, c) = q
      BY <1>3, <1>4 DEF Piece
    <3>3. lots[k] = lot /\ lot.price = price /\ lot.left = q
      BY <1>5, <1>9, <2>1
    <3>4. Price(s[k]) = price
      BY <1>2, <2>1
    <3>. QED BY <3>1, <3>2, <3>3, <3>4, Zenon
  <2>2. CASE k # p + 1
    <3>1. k \in 1..p
      BY <2>2
    <3>2. b.lots[k].price = Price(s[k]) /\ b.lots[k].left = Unsold(F, k, c)
      BY <3>1 DEF Sold
    <3>. QED BY <1>9, <3>1, <3>2
  <2>. QED BY <2>1, <2>2
<1>12. Sold(e, s, F, U, Y, sign, p + 1, c)
  BY <1>9, <1>10, <1>11 DEF Sold
<1>. QED BY <1>6, <1>10, <1>12

\* No exit is of more units than the fills before it have.
Covered(a, F, X) ==
  \A j \in 1..Len(a.exits) : \E i \in 0..Len(a.fills) :
    X[j] =< F[i] /\ (i # 0 => a.fills[i].at =< a.exits[j].at)

\* The book of an attempt whose exits never run ahead of its fills.
LEMMA BookOfAll ==
  ASSUME NEW a, Timely(a), NEW F, NEW U, NEW X, NEW Y, NEW sign, Sides(a.fills, F, U, a.exits, X, Y, sign),
         Covered(a, F, X)
  PROVE  /\ Sold(FifoBook(a, sign), a.fills, F, U, Y, sign, Len(a.fills), X[Len(a.exits)])
         /\ ~FifoBook(a, sign).short
         /\ X[Len(a.exits)] =< F[Len(a.fills)]
<1>1. PICK P \in Nat, Q \in Nat : P = Len(a.fills) /\ Q = Len(a.exits)
  BY DEF Timely, Dated
<1>2. PICK s, x : s = a.fills /\ x = a.exits
  OBVIOUS
<1>3. /\ F[0] = 0 /\ X[0] = 0
      /\ \A i \in 0..P : F[i] \in Nat
      /\ \A j \in 0..Q : X[j] \in Nat
      /\ \A i \in 0..P, k \in 0..P : i =< k => F[i] =< F[k]
      /\ \A i \in 1..P : s[i].qty \in Nat /\ Price(s[i]) \in Int
      /\ \A j \in 1..Q : x[j].qty \in Nat /\ Price(x[j]) \in Int
  BY <1>1, <1>2, TallyGrows DEF Sides
<1>4. PICK N \in Nat : N = P + Q
  OBVIOUS
<1>5. PICK c : c = Chronology(a)
  OBVIOUS
<1>6. DOMAIN c = 1..N
  BY <1>1, <1>4, <1>5, EventsArePassed DEF Chronology
\* The fills before the j-th exit have its units.
<1>7. ASSUME NEW p, NEW q, Ready(a, p, q), NEW j \in 1..Q, j =< q PROVE X[j] =< F[p]
  <2>1. PICK i \in 0..P : X[j] =< F[i] /\ (i # 0 => s[i].at =< x[j].at)
    BY <1>1, <1>2 DEF Covered
  <2>2. p \in 0..P
    BY <1>1, <1>7 DEF Ready
  <2>3. i =< p
    <3>. SUFFICES ASSUME i > p PROVE FALSE
      BY <2>2
    <3>1. i \in 1..P /\ i # 0
      BY <2>2
    <3>2. x[j].at < s[i].at
      BY <1>1, <1>2, <1>7, <3>1 DEF Ready
    <3>3. x[j].at \in Nat /\ s[i].at \in Nat
      BY <1>1, <1>2, <3>1 DEF Timely, Dated
    <3>. QED BY <2>1, <3>1, <3>2, <3>3
  <2>4. F[i] =< F[p] /\ F[i] \in Nat /\ F[p] \in Nat /\ X[j] \in Nat
    <3>1. j \in 0..Q
      OBVIOUS
    <3>. QED BY <1>3, <2>2, <2>3, <3>1
  <2>. QED BY <2>1, <2>4
<1>. DEFINE Stage(n, p, q) == p + q = n /\ Ready(a, p, q)
            Told(n) == \E p \in 0..P, q \in 0..Q : Stage(n, p, q)
<1>8. Ready(a, 0, 0)
  BY <1>1 DEF Ready
<1>9. ASSUME NEW p \in 0..P, NEW q \in 0..Q, Ready(a, p, q), p + q < N
      PROVE  \/ p + 1 \in 0..P /\ Ready(a, p + 1, q) /\ c[p + q + 1] = Event(s, p + 1)
             \/ q + 1 \in 0..Q /\ Ready(a, p, q + 1) /\ c[p + q + 1] = Event(x, q + 1)
  <2>1. p + q < Len(a.fills) + Len(a.exits)
    BY <1>1, <1>4, <1>9
  <2>2. \/ /\ p < P /\ Ready(a, p + 1, q)
           /\ c[p + q + 1] = Event(s, p + 1)
        \/ /\ q < Q /\ Ready(a, p, q + 1)
           /\ c[p + q + 1] = Event(x, q + 1)
    <3>1. \/ /\ p < Len(a.fills) /\ Ready(a, p + 1, q)
             /\ Chronology(a)[p + q + 1] = Event(a.fills, p + 1)
          \/ /\ q < Len(a.exits) /\ Ready(a, p, q + 1)
             /\ Chronology(a)[p + q + 1] = Event(a.exits, q + 1)
      BY <1>9, <2>1, ChronologyGoesOn, Zenon
    <3>. QED BY <1>1, <1>2, <1>5, <3>1, Zenon
  <2>3. (p < P => p + 1 \in 0..P) /\ (q < Q => q + 1 \in 0..Q)
    OBVIOUS
  <2>. QED BY <2>2, <2>3, Zenon
<1>10. \A n \in 0..N : Told(n)
  <2>. DEFINE T == {n \in Nat : n =< N => Told(n)}
  <2>1. 0 \in T
    BY <1>8
  <2>2. ASSUME NEW n \in Nat, n \in T PROVE n + 1 \in T
    <3>. SUFFICES ASSUME n + 1 =< N PROVE Told(n + 1)
      OBVIOUS
    <3>1. PICK p \in 0..P, q \in 0..Q : p + q = n /\ Ready(a, p, q)
      BY <2>2
    <3>2. p + q < N
      BY <3>1
    <3>3. (p + 1) + q = n + 1 /\ p + (q + 1) = n + 1
      BY <3>1
    <3>. QED BY <1>9, <3>1, <3>2, <3>3
  <2>3. \A n \in Nat : n \in T
    <3>. HIDE DEF T
    <3>. QED BY <2>1, <2>2, Inductive
  <2>. HIDE DEF Told
  <2>. QED BY <2>3
<1>11. \A n \in 1..N : Price(c[n].fill) \in Int /\ c[n].fill.qty \in Nat
  <2>. SUFFICES ASSUME NEW n \in 1..N PROVE Price(c[n].fill) \in Int /\ c[n].fill.qty \in Nat
    OBVIOUS
  <2>1. PICK p \in 0..P, q \in 0..Q : p + q = n - 1 /\ Ready(a, p, q)
    <3>1. n - 1 \in 0..N
      OBVIOUS
    <3>. QED BY <1>10, <3>1
  <2>2. p + q < N /\ p + q + 1 = n
    BY <2>1
  <2>3. \/ p + 1 \in 1..P /\ c[n].fill = s[p + 1]
        \/ q + 1 \in 1..Q /\ c[n].fill = x[q + 1]
    <3>1. \/ p + 1 \in 0..P /\ c[n] = Event(s, p + 1)
          \/ q + 1 \in 0..Q /\ c[n] = Event(x, q + 1)
      BY <1>9, <2>1, <2>2
    <3>. QED BY <3>1 DEF Event
  <2>. QED BY <1>3, <2>3
<1>12. PICK h : Booking(h, a, sign, N)
  <2>1. sign \in Int
    BY DEF Sides
  <2>. QED BY <1>5, <1>6, <1>11, <2>1, FifoBookSteps
<1>. DEFINE Right(n, p, q) == Sold(h[n], s, F, U, Y, sign, p, X[q]) /\ ~h[n].short
            R == {n \in Nat : n =< N => \E p \in 0..P, q \in 0..Q : Stage(n, p, q) /\ Right(n, p, q)}
<1>13. 0 \in R
  <2>1. h[0] = NewBook
    BY <1>12 DEF Booking
  <2>2. Y[0] = 0 /\ U[0] = 0
    BY DEF Sides, Worth, Sums
  <2>3. sign * (Y[X[0]] - U[X[0]]) = 0
    BY <1>3, <2>2 DEF Sides
  <2>4. NewBook \in Book /\ Len(NewBook.lots) = 0 /\ NewBook.realized = 0 /\ ~NewBook.short
    BY DEF NewBook, Book
  <2>5. Right(0, 0, 0)
    <3>1. \A k : k \notin 1..0
      OBVIOUS
    <3>. QED BY <2>1, <2>3, <2>4, <3>1 DEF Sold
  <2>. QED BY <1>8, <2>5
<1>14. ASSUME NEW n \in Nat, n \in R PROVE n + 1 \in R
  <2>. SUFFICES ASSUME n + 1 =< N
                PROVE  \E p \in 0..P, q \in 0..Q : Stage(n + 1, p, q) /\ Right(n + 1, p, q)
    OBVIOUS
  <2>0. n =< N
    OBVIOUS
  <2>1. PICK p \in 0..P, q \in 0..Q : Stage(n, p, q) /\ Right(n, p, q)
    BY <1>14, <2>0
  <2>2. p + q < N /\ p + q + 1 = n + 1 /\ p \in Nat /\ q \in Nat
    BY <2>1
  <2>3. h[n + 1] = Booked(h[n], c[n + 1], sign)
    <3>1. n + 1 \in 1..N /\ (n + 1) - 1 = n
      OBVIOUS
    <3>. QED BY <1>5, <1>12, <3>1 DEF Booking
  <2>4. CASE p + 1 \in 0..P /\ Ready(a, p + 1, q) /\ c[n + 1] = Event(s, p + 1)
    <3>1. p + 1 \in 1..P /\ p < Len(s)
      BY <1>1, <1>2, <2>2, <2>4
    <3>2. h[n + 1] = Enter(h[n], s[p + 1])
      <4>1. s[p + 1].kind = "ENTRY_FILL"
        BY <1>1, <1>2, <3>1 DEF Timely, Dated
      <4>2. c[n + 1].fill = s[p + 1]
        BY <2>4 DEF Event
      <4>. QED BY <2>3, <4>1, <4>2 DEF Booked
    <3>3. X[q] \in Nat /\ X[q] =< F[p]
      <4>1. CASE q = 0
        BY <1>3, <4>1
      <4>2. CASE q # 0
        <5>1. q \in 1..Q /\ q =< q
          BY <4>2
        <5>. QED BY <1>3, <1>7, <2>1, <5>1
      <4>. QED BY <4>1, <4>2
    <3>4. Right(n + 1, p + 1, q)
      BY <1>2, <2>1, <2>2, <3>1, <3>2, <3>3, EnterOne
    <3>5. Stage(n + 1, p + 1, q)
      BY <2>1, <2>2, <2>4
    <3>. QED BY <2>4, <3>4, <3>5
  <2>5. CASE q + 1 \in 0..Q /\ Ready(a, p, q + 1) /\ c[n + 1] = Event(x, q + 1)
    <3>1. q + 1 \in 1..Q /\ q + 1 \in 1..Len(x) /\ q + 1 \in Nat /\ (q + 1) - 1 = q /\ p =< Len(s)
      BY <1>1, <1>2, <2>2, <2>5
    <3>2. h[n + 1] = Consume(h[n], x[q + 1], sign)
      <4>1. x[q + 1].kind = "EXIT_FILL"
        BY <1>1, <1>2, <3>1 DEF Timely, Dated
      <4>2. c[n + 1].fill = x[q + 1]
        BY <2>5 DEF Event
      <4>. QED BY <2>3, <4>1, <4>2 DEF Booked
    <3>3. X[q + 1] =< F[p]
      BY <1>7, <2>5, <3>1
    <3>4. Right(n + 1, p, q + 1)
      <4>1. Sold(h[n], s, F, U, Y, sign, p, X[(q + 1) - 1]) /\ ~h[n].short
        BY <2>1, <3>1
      <4>2. Sides(s, F, U, x, X, Y, sign)
        BY <1>2
      <4>. QED BY <2>2, <3>1, <3>2, <3>3, <4>1, <4>2, MatchAll
    <3>5. Stage(n + 1, p, q + 1)
      BY <2>1, <2>2, <2>5
    <3>. QED BY <2>5, <3>4, <3>5
  <2>. QED BY <1>9, <2>1, <2>2, <2>4, <2>5
<1>15. N \in R
  <2>1. \A n \in Nat : n \in R
    <3>. HIDE DEF R
    <3>. QED BY <1>13, <1>14, Inductive
  <2>. HIDE DEF R
  <2>. QED BY <2>1
<1>16. PICK p \in 0..P, q \in 0..Q : Stage(N, p, q) /\ Right(N, p, q)
  <2>. HIDE DEF Stage, Right
  <2>. QED BY <1>15
<1>17. p = P /\ q = Q
  BY <1>4, <1>16
<1>18. FifoBook(a, sign) = h[N]
  BY <1>12 DEF Booking
<1>19. X[Q] =< F[P]
  <2>1. CASE Q = 0
    <3>1. P \in 0..P
      OBVIOUS
    <3>. QED BY <1>3, <2>1, <3>1
  <2>2. CASE Q # 0
    <3>1. Q \in 1..Q /\ Q =< Q
      BY <2>2
    <3>. QED BY <1>7, <1>16, <1>17, <3>1
  <2>. QED BY <2>1, <2>2
<1>. QED BY <1>1, <1>2, <1>16, <1>17, <1>18, <1>19
-----------------------------------------------------------------------------
(* The lots that stay open, and what they come to.                             *)

Lots == [price : Int, left : Nat]

\* What OpenLots is computed by.
Keeping(g, lots) ==
  g = [s \in SUBSET DOMAIN lots |-> IF s = {} THEN <<>> ELSE Kept(g[s \ {Max(s)}], lots[Max(s)])]
Keeper(lots) == CHOOSE g : Keeping(g, lots)

LEMMA OpenLotsIsFold ==
  ASSUME NEW b
  PROVE  OpenLots(b) = Keeper(b.lots)[DOMAIN b.lots]
BY DEF OpenLots, FoldLeft, MapThenFoldSet, Keeping, Keeper

\* The open ones of the first i lots.
Opened(o, b, n) ==
  /\ o[0] = <<>>
  /\ \A i \in 0..n : o[i] \in Seq(Lots)
  /\ \A i \in 1..n : o[i] = Kept(o[i - 1], b.lots[i])
  /\ OpenLots(b) = o[n]

LEMMA KeptType ==
  ASSUME NEW open \in Seq(Lots), NEW lot \in Lots
  PROVE  Kept(open, lot) \in Seq(Lots)
BY DEF Kept

LEMMA OpenLotsSteps ==
  ASSUME NEW b \in Book, NEW n, n = Len(b.lots)
  PROVE  \E o : Opened(o, b, n)
<1>1. PICK c : c = b.lots
  OBVIOUS
<1>2. n \in Nat /\ DOMAIN c = 1..n /\ \A i \in 1..n : c[i] \in Lots
  BY <1>1, LotType DEF Lots
<1>3. PICK V : V = Seq(Lots)
  OBVIOUS
<1>4. <<>> \in V
  BY <1>3
<1>5. \A r \in V, i \in 1..n : Kept(r, c[i]) \in V
  BY <1>2, <1>3, KeptType
<1>6. PICK step : step = [x \in V \X (1..n) |-> Kept(x[1], c[x[2]])]
  OBVIOUS
<1>7. step \in [V \X (1..n) -> V] /\ \A r \in V, i \in 1..n : step[<<r, i>>] = Kept(r, c[i])
  BY <1>5, <1>6
<1>8. PICK g \in [SUBSET (1..n) -> V] : Computes(g, n, <<>>, step)
  BY <1>2, <1>4, <1>7, FoldComputed
<1>9. \A s \in SUBSET (1..n) : s # {} => Max(s) \in 1..n /\ s \ {Max(s)} \in SUBSET (1..n)
  BY <1>2, RestIsSmaller DEF Rest
<1>10. \A s \in SUBSET (1..n) : s # {} => g[s] = Kept(g[s \ {Max(s)}], c[Max(s)])
  <2>. SUFFICES ASSUME NEW s \in SUBSET (1..n), s # {} PROVE g[s] = Kept(g[s \ {Max(s)}], c[Max(s)])
    OBVIOUS
  <2>1. PICK r, m : r = g[s \ {Max(s)}] /\ m = Max(s)
    OBVIOUS
  <2>2. m \in 1..n /\ r \in V
    BY <1>9, <2>1
  <2>3. g[s] = step[<<r, m>>]
    BY <1>8, <2>1 DEF Computes
  <2>. QED BY <1>7, <2>1, <2>2, <2>3
<1>11. Keeping(g, c)
  <2>1. g[{}] = <<>>
    BY <1>8 DEF Computes
  <2>2. g = [s \in SUBSET (1..n) |-> IF s = {} THEN <<>> ELSE Kept(g[s \ {Max(s)}], c[Max(s)])]
    BY <1>10, <2>1
  <2>. QED BY <1>2, <2>2, Zenon DEF Keeping
<1>12. PICK f : f = Keeper(c)
  OBVIOUS
<1>13. Keeping(f, c)
  BY <1>11, <1>12, Zenon DEF Keeper
<1>14. f[1..n] = g[1..n]
  <2>1. {} \in SUBSET (1..n) /\ DOMAIN c = 1..n
    BY <1>2
  <2>2. f[{}] = g[{}]
    BY <1>11, <1>13, <2>1, Zenon DEF Keeping
  <2>3. ASSUME NEW s \in SUBSET (1..n), s # {}, f[Rest(s)] = g[Rest(s)] PROVE f[s] = g[s]
    <3>1. /\ f[s] = Kept(f[s \ {Max(s)}], c[Max(s)])
          /\ g[s] = Kept(g[s \ {Max(s)}], c[Max(s)])
      BY <1>11, <1>13, <2>1, <2>3, Zenon DEF Keeping
    <3>2. f[s \ {Max(s)}] = g[s \ {Max(s)}]
      BY <2>3 DEF Rest
    <3>. QED BY <3>1, <3>2
  <2>. QED BY <1>2, <2>2, <2>3, FoldsAgree
<1>15. PICK h : StepByStep(h, n, V, <<>>, step, g[1..n])
  BY <1>2, <1>8, FoldSteps
<1>16. \A i \in 0..n : h[i] \in V
  BY <1>15 DEF StepByStep
<1>17. \A i \in 1..n : h[i] = Kept(h[i - 1], c[i])
  <2>. SUFFICES ASSUME NEW i \in 1..n PROVE h[i] = Kept(h[i - 1], c[i])
    OBVIOUS
  <2>1. h[i - 1] \in V
    <3>1. i - 1 \in 0..n
      BY <1>2
    <3>. QED BY <1>16, <3>1
  <2>2. h[i] = step[<<h[i - 1], i>>]
    BY <1>15 DEF StepByStep
  <2>. QED BY <1>7, <2>1, <2>2
<1>18. h[n] = f[1..n] /\ h[0] = <<>>
  BY <1>14, <1>15 DEF StepByStep
<1>19. OpenLots(b) = h[n]
  <2>1. OpenLots(b) = Keeper(c)[DOMAIN c]
    BY <1>1, OpenLotsIsFold
  <2>. QED BY <1>2, <1>12, <1>18, <2>1
<1>. QED BY <1>1, <1>3, <1>16, <1>17, <1>18, <1>19 DEF Opened

\* A total of one more number.
LEMMA TotalExtended ==
  ASSUME NEW n \in Nat, NEW v \in [1..n -> Int], NEW w \in [1..(n + 1) -> Int], \A i \in 1..n : w[i] = v[i]
  PROVE  Total(w) = Total(v) + w[n + 1] /\ Total(v) \in Int
<1>1. PICK h : Sums(h, v, n) /\ h[n] = Total(v)
  BY TotalOf
<1>2. PICK g : Sums(g, w, n + 1) /\ g[n + 1] = Total(w)
  <2>1. n + 1 \in Nat
    OBVIOUS
  <2>. QED BY <2>1, TotalOf
<1>3. PICK f : f = [i \in 0..n |-> g[i]]
  OBVIOUS
<1>4. Sums(f, w, n)
  <2>1. g \in [0..(n + 1) -> Int] /\ g[0] = 0 /\ \A i \in 1..(n + 1) : w[i] \in Int /\ g[i] = g[i - 1] + w[i]
    BY <1>2 DEF Sums
  <2>2. \A i \in 0..n : f[i] = g[i] /\ i \in 0..(n + 1)
    BY <1>3
  <2>3. f \in [0..n -> Int]
    BY <1>3, <2>1
  <2>4. \A i \in 1..n : i \in 1..(n + 1) /\ i \in 0..n /\ i - 1 \in 0..n
    OBVIOUS
  <2>5. 0 \in 0..n
    OBVIOUS
  <2>. QED BY <2>1, <2>2, <2>3, <2>4, <2>5 DEF Sums
<1>5. n \in 0..n
  OBVIOUS
<1>6. f[n] = h[n]
  BY <1>1, <1>4, <1>5, SumsAgree
<1>7. g[n] = h[n]
  BY <1>3, <1>5, <1>6
<1>8. g[n + 1] = g[n] + w[n + 1] /\ h[n] \in Int
  <2>1. n + 1 \in 1..(n + 1) /\ (n + 1) - 1 = n
    OBVIOUS
  <2>2. g[n + 1] = g[(n + 1) - 1] + w[n + 1]
    BY <1>2, <2>1 DEF Sums
  <2>. QED BY <1>1, <1>5, <2>1, <2>2 DEF Sums
<1>. QED BY <1>1, <1>2, <1>7, <1>8

LEMMA TotalOfNothing == ASSUME NEW v, DOMAIN v = 1..0, v = [i \in DOMAIN v |-> v[i]] PROVE Total(v) = 0
<1>1. v \in [1..0 -> Int] /\ 0 \in Nat
  OBVIOUS
<1>2. PICK h : Sums(h, v, 0) /\ h[0] = Total(v)
  BY <1>1, TotalOf
<1>. QED BY <1>2 DEF Sums

\* What an open lot adds at a mark.
Gains(lots, mark, sign) == [i \in DOMAIN lots |-> sign * (mark - lots[i].price) * lots[i].left]
Lefts(lots) == [i \in DOMAIN lots |-> lots[i].left]

LEMMA LotsGrow ==
  ASSUME NEW lots \in Seq(Lots), NEW lot \in Lots, NEW mark \in Int, NEW sign \in Int
  PROVE  /\ Total(Lefts(Append(lots, lot))) = Total(Lefts(lots)) + lot.left
         /\ Total(Gains(Append(lots, lot), mark, sign))
              = Total(Gains(lots, mark, sign)) + sign * (mark - lot.price) * lot.left
         /\ Total(Lefts(lots)) \in Int /\ Total(Gains(lots, mark, sign)) \in Int
<1>a. PICK n \in Nat : n = Len(lots)
  OBVIOUS
<1>b. PICK more : more = Append(lots, lot)
  OBVIOUS
<1>1. n = Len(lots) /\ more = Append(lots, lot)
  BY <1>a, <1>b
<1>2. DOMAIN lots = 1..n /\ DOMAIN more = 1..(n + 1) /\ more[n + 1] = lot
      /\ (\A i \in 1..n : more[i] = lots[i]) /\ (\A i \in 1..n : lots[i] \in Lots)
      /\ (\A i \in 1..(n + 1) : more[i] \in Lots)
  <2>1. PICK S : S = Lots
    OBVIOUS
  <2>2. lots \in Seq(S) /\ lot \in S
    BY <2>1
  <2>3. more \in Seq(S) /\ Len(more) = n + 1
    BY <1>1, <2>2
  <2>4. DOMAIN lots = 1..n /\ more[n + 1] = lot /\ \A i \in 1..n : more[i] = lots[i]
    BY <1>1, <2>2
  <2>5. DOMAIN more = 1..(n + 1) /\ (\A i \in 1..(n + 1) : more[i] \in S) /\ (\A i \in 1..n : lots[i] \in S)
    BY <1>1, <2>2, <2>3
  <2>. QED BY <2>1, <2>4, <2>5
<1>3. \A l \in Lots : l.left \in Int /\ sign * (mark - l.price) * l.left \in Int
  <2>. SUFFICES ASSUME NEW l \in Lots PROVE l.left \in Int /\ sign * (mark - l.price) * l.left \in Int
    OBVIOUS
  <2>1. PICK p \in Int, k \in Nat : p = l.price /\ k = l.left
    BY DEF Lots
  <2>2. PICK d \in Int : d = sign * (mark - p)
    OBVIOUS
  <2>3. d * k \in Int
    OBVIOUS
  <2>. QED BY <2>1, <2>2, <2>3
<1>4. PICK v, w : v = Lefts(lots) /\ w = Lefts(more)
  OBVIOUS
<1>5. v \in [1..n -> Int] /\ w \in [1..(n + 1) -> Int] /\ w[n + 1] = lot.left /\ \A i \in 1..n : w[i] = v[i]
  <2>1. n + 1 \in 1..(n + 1) /\ \A i \in 1..n : i \in 1..(n + 1)
    OBVIOUS
  <2>. QED BY <1>2, <1>3, <1>4, <2>1 DEF Lefts
<1>6. PICK x, y : x = Gains(lots, mark, sign) /\ y = Gains(more, mark, sign)
  OBVIOUS
<1>7. \A i \in 1..n : x[i] = sign * (mark - lots[i].price) * lots[i].left
  BY <1>2, <1>6 DEF Gains
<1>8. \A i \in 1..(n + 1) : y[i] = sign * (mark - more[i].price) * more[i].left
  BY <1>2, <1>6 DEF Gains
<1>9. x \in [1..n -> Int] /\ y \in [1..(n + 1) -> Int]
  BY <1>2, <1>3, <1>6 DEF Gains
<1>10. \A i \in 1..n : y[i] = x[i]
  <2>1. \A i \in 1..n : i \in 1..(n + 1)
    OBVIOUS
  <2>. QED BY <1>2, <1>7, <1>8, <2>1
<1>11. y[n + 1] = sign * (mark - lot.price) * lot.left
  <2>1. n + 1 \in 1..(n + 1)
    OBVIOUS
  <2>. QED BY <1>2, <1>8, <2>1
<1>12. Total(w) = Total(v) + w[n + 1] /\ Total(v) \in Int
  BY <1>5, TotalExtended
<1>13. Total(y) = Total(x) + y[n + 1] /\ Total(x) \in Int
  BY <1>9, <1>10, TotalExtended
<1>. QED BY <1>1, <1>4, <1>5, <1>6, <1>11, <1>12, <1>13

Beyond(u, c) == IF u =< c THEN 0 ELSE u - c
Dear(U, u, c) == IF u =< c THEN 0 ELSE U[u] - U[c]

LEMMA ValueOfMore ==
  ASSUME NEW sg \in {1, -1}, NEW mark \in Int, NEW l \in Int, NEW w \in Int, NEW price \in Int, NEW m \in Nat
  PROVE  sg * (mark * l - w) + sg * (mark - price) * m = sg * (mark * (l + m) - (w + m * price))
<1>1. PICK x, y, z \in Int : x = mark * l /\ y = mark * m /\ z = m * price
  OBVIOUS
<1>2. (mark - price) * m = y - z
  BY <1>1
<1>3. mark * (l + m) = x + y
  BY <1>1
<1>4. CASE sg = 1
  <2>1. sg * (mark - price) * m = (mark - price) * m
    BY <1>4
  <2>. QED BY <1>1, <1>2, <1>3, <1>4, <2>1
<1>5. CASE sg = -1
  <2>1. sg * (mark - price) * m = -((mark - price) * m)
    BY <1>5
  <2>. QED BY <1>1, <1>2, <1>3, <1>5, <2>1
<1>. QED BY <1>4, <1>5

LEMMA PieceBeyond ==
  ASSUME NEW u \in Nat, NEW v \in Nat, u =< v, NEW c \in Nat
  PROVE  /\ Piece(u, v, c) \in Nat /\ Beyond(u, c) \in Nat /\ Beyond(v, c) \in Nat
         /\ Beyond(v, c) = Beyond(u, c) + Piece(u, v, c)
BY DEF Piece, Beyond

\* Some of the units of a history.
Some(c, s, F) == c \in Nat /\ c =< F[Len(s)]

\* What the i-th fill adds of units beyond the c-th, and of what they are worth.
AddsBeyond(s, F, U, i, c, l, d, e, price) ==
  /\ l = Unsold(F, i, c) /\ price = Price(s[i])
  /\ d = Dear(U, F[i - 1], c) /\ e = Dear(U, F[i], c) /\ e = d + l * price
  /\ Beyond(F[i - 1], c) \in Nat /\ Beyond(F[i], c) = Beyond(F[i - 1], c) + l

LEMMA PieceOpens ==
  ASSUME NEW s, NEW F, Tally(F, s), NEW U, Worth(U, F, s), NEW i \in 1..Len(s), NEW c \in Nat, Some(c, s, F)
  PROVE  \E l \in Nat, d \in Int, e \in Int, price \in Int : AddsBeyond(s, F, U, i, c, l, d, e, price)
<1>a. PICK P \in Nat : P = Len(s)
  BY TallyGrows
<1>1. i \in 1..P /\ i \in 0..P /\ i - 1 \in 0..P /\ P \in 0..P /\ i =< P /\ i - 1 =< P
  BY <1>a
<1>b. /\ F[i - 1] \in Nat /\ F[i] \in Nat /\ F[P] \in Nat /\ F[i] = F[i - 1] + s[i].qty
      /\ s[i].qty \in Nat \ {0} /\ Price(s[i]) \in Int /\ F[i] =< F[P] /\ F[i - 1] =< F[P]
  BY <1>a, <1>1, TallyGrows
<1>c. PICK u \in Nat, v \in Nat, w \in Nat, q \in Nat \ {0}, price \in Int :
        u = F[i - 1] /\ v = F[i] /\ w = F[P] /\ q = s[i].qty /\ price = Price(s[i])
  BY <1>b
<1>2. v = u + q /\ u =< w /\ v =< w
  BY <1>b, <1>c
<1>3. c =< w
  BY <1>a, <1>c DEF Some
<1>4. PICK x \in Int, y \in Int, z \in Int : x = U[u] /\ y = U[v] /\ z = U[c]
  <2>1. u =< F[Len(s)] /\ v =< F[Len(s)] /\ c =< F[Len(s)]
    BY <1>a, <1>c, <1>2, <1>3
  <2>. QED BY <2>1, WorthOfSome
<1>5. PICK l \in Nat : l = Piece(u, v, c)
  <2>1. u =< v
    BY <1>2
  <2>2. Piece(u, v, c) \in Nat
    BY <2>1, PieceBeyond
  <2>. QED BY <2>2
<1>6. l = Unsold(F, i, c)
  BY <1>c, <1>5, Zenon DEF Unsold
<1>7. Beyond(u, c) \in Nat /\ Beyond(v, c) = Beyond(u, c) + l
  <2>1. u =< v
    BY <1>2
  <2>. QED BY <1>5, <2>1, PieceBeyond
<1>8. Dear(U, u, c) = (IF u =< c THEN 0 ELSE x - z) /\ Dear(U, v, c) = (IF v =< c THEN 0 ELSE y - z)
  BY <1>4, Zenon DEF Dear
<1>9. PICK d \in Int, e \in Int : /\ d = Dear(U, u, c) /\ e = Dear(U, v, c)
                                 /\ d = (IF u =< c THEN 0 ELSE x - z) /\ e = (IF v =< c THEN 0 ELSE y - z)
  <2>1. PICK f \in Int : f = x - z
    OBVIOUS
  <2>2. PICK g \in Int : g = y - z
    OBVIOUS
  <2>3. (IF u =< c THEN 0 ELSE x - z) \in Int /\ (IF v =< c THEN 0 ELSE y - z) \in Int
    BY <2>1, <2>2
  <2>. QED BY <1>8, <2>3, Zenon
<1>m. \A k \in Nat, m \in Nat : u =< k /\ k + m =< v => U[k + m] = U[k] + m * price
  <2>. SUFFICES ASSUME NEW k \in Nat, NEW m \in Nat, u =< k, k + m =< v PROVE U[k + m] = U[k] + m * price
    OBVIOUS
  <2>1. F[i - 1] =< k /\ k + m =< F[i]
    BY <1>c
  <2>2. U[k + m] = U[k] + m * Price(s[i])
    BY <2>1, WorthGrows
  <2>. QED BY <1>c, <2>2, Zenon
<1>10. e = d + l * price
  <2>1. CASE c =< u
    <3>1. l = q
      BY <1>2, <1>5, <2>1 DEF Piece
    <3>2. y = x + q * price
      <4>1. u + q = v /\ u =< u /\ u + q =< v
        BY <1>2
      <4>2. U[u + q] = U[u] + q * price
        BY <1>m, <4>1
      <4>. QED BY <1>4, <4>1, <4>2
    <3>3. PICK r \in Int : r = q * price
      OBVIOUS
    <3>4. e = y - z
      BY <1>2, <1>9, <2>1
    <3>5. d = x - z
      <4>1. CASE u = c
        BY <1>4, <1>9, <4>1
      <4>2. CASE u # c
        BY <1>9, <2>1, <4>2
      <4>. QED BY <4>1, <4>2
    <3>. QED BY <3>1, <3>2, <3>3, <3>4, <3>5
  <2>2. CASE u < c /\ c < v
    <3>1. l = v - c
      BY <1>5, <2>2 DEF Piece
    <3>2. y = z + l * price
      <4>1. c + l = v /\ u =< c /\ c + l =< v
        BY <2>2, <3>1
      <4>2. U[c + l] = U[c] + l * price
        BY <1>m, <4>1
      <4>. QED BY <1>4, <4>1, <4>2
    <3>3. PICK r \in Int : r = l * price
      OBVIOUS
    <3>4. e = y - z /\ d = 0
      BY <1>9, <2>2
    <3>. QED BY <3>2, <3>3, <3>4
  <2>3. CASE v =< c
    <3>1. l = 0
      BY <1>2, <1>5, <2>3 DEF Piece
    <3>2. l * price = 0
      BY <3>1
    <3>3. e = 0 /\ d = 0
      BY <1>2, <1>9, <2>3
    <3>. QED BY <3>2, <3>3
  <2>. QED BY <2>1, <2>2, <2>3
<1>11. AddsBeyond(s, F, U, i, c, l, d, e, price)
  BY <1>c, <1>6, <1>7, <1>9, <1>10, Zenon DEF AddsBeyond
<1>. QED BY <1>11

\* The open ones of the first i lots at a mark.
Held(o, F, U, i, c, mark, sg) ==
  /\ o \in Seq(Lots) /\ Total(Lefts(o)) = Beyond(F[i], c)
  /\ Total(Gains(o, mark, sg)) = sg * (mark * Beyond(F[i], c) - Dear(U, F[i], c))

LEMMA HeldGoesOn ==
  ASSUME NEW s, NEW F, Tally(F, s), NEW U, Worth(U, F, s), NEW i \in 1..Len(s), NEW c \in Nat, Some(c, s, F),
         NEW mark \in Int, NEW sg \in {1, -1}, NEW o, Held(o, F, U, i - 1, c, mark, sg),
         NEW lot \in Lots, lot.price = Price(s[i]), lot.left = Unsold(F, i, c)
  PROVE  Held(Kept(o, lot), F, U, i, c, mark, sg)
<1>1. PICK l \in Nat, d \in Int, e \in Int, price \in Int : AddsBeyond(s, F, U, i, c, l, d, e, price)
  BY PieceOpens
<1>a. /\ l = Unsold(F, i, c) /\ price = Price(s[i])
      /\ d = Dear(U, F[i - 1], c) /\ e = Dear(U, F[i], c) /\ e = d + l * price
      /\ Beyond(F[i - 1], c) \in Nat /\ Beyond(F[i], c) = Beyond(F[i - 1], c) + l
  BY <1>1, Zenon DEF AddsBeyond
<1>2. PICK m \in Nat, n \in Nat : m = Beyond(F[i - 1], c) /\ n = Beyond(F[i], c) /\ n = m + l
  <2>1. PICK m \in Nat : m = Beyond(F[i - 1], c)
    BY <1>a
  <2>2. PICK n \in Nat : n = m + l
    OBVIOUS
  <2>3. n = Beyond(F[i], c)
    BY <1>a, <2>1, <2>2, Zenon
  <2>. QED BY <2>1, <2>2, <2>3, Zenon
<1>3. /\ o \in Seq(Lots) /\ Total(Lefts(o)) = m
      /\ Total(Gains(o, mark, sg)) = sg * (mark * m - d)
  BY <1>a, <1>2, Zenon DEF Held
<1>b. lot.left = l /\ lot.price = price
  BY <1>a, Zenon
<1>5. CASE l = 0
  <2>1. Kept(o, lot) = o
    <3>1. ~(lot.left > 0)
      BY <1>b, <1>5
    <3>. QED BY <3>1 DEF Kept
  <2>2. n = m /\ e = d
    <3>1. l * price = 0
      BY <1>5
    <3>. QED BY <1>a, <1>2, <1>5, <3>1
  <2>. QED BY <1>a, <1>2, <1>3, <2>1, <2>2 DEF Held
<1>6. CASE l # 0
  <2>1. Kept(o, lot) = Append(o, lot)
    <3>1. lot.left > 0
      BY <1>b, <1>6
    <3>. QED BY <3>1 DEF Kept
  <2>2. sg \in Int
    OBVIOUS
  <2>3. /\ Total(Lefts(Append(o, lot))) = Total(Lefts(o)) + lot.left
        /\ Total(Gains(Append(o, lot), mark, sg))
             = Total(Gains(o, mark, sg)) + sg * (mark - lot.price) * lot.left
    BY <1>3, <2>2, LotsGrow
  <2>4. sg * (mark * m - d) + sg * (mark - price) * l = sg * (mark * (m + l) - (d + l * price))
    BY ValueOfMore
  <2>5. Total(Lefts(Kept(o, lot))) = n
    BY <1>b, <1>2, <1>3, <2>1, <2>3
  <2>6. Total(Gains(Kept(o, lot), mark, sg)) = sg * (mark * n - e)
    BY <1>a, <1>b, <1>2, <1>3, <2>1, <2>3, <2>4
  <2>7. Kept(o, lot) \in Seq(Lots)
    BY <1>3, KeptType
  <2>. QED BY <1>a, <1>2, <2>5, <2>6, <2>7 DEF Held
<1>. QED BY <1>5, <1>6

LEMMA OpenLotsAre ==
  ASSUME NEW s, NEW F, NEW U, NEW x, NEW X, NEW Y, NEW sign, Sides(s, F, U, x, X, Y, sign),
         NEW c \in Nat, Some(c, s, F), NEW b, Sold(b, s, F, U, Y, sign, Len(s), c),
         NEW mark \in Int, NEW sg \in {1, -1}
  PROVE  Held(OpenLots(b), F, U, Len(s), c, mark, sg)
<1>1. Tally(F, s) /\ Worth(U, F, s)
  BY DEF Sides
<1>2. PICK P \in Nat : P = Len(s) /\ F[0] = 0
  BY <1>1, TallyGrows
<1>3. /\ b \in Book /\ Len(b.lots) = P
      /\ \A k \in 1..P : b.lots[k].price = Price(s[k]) /\ b.lots[k].left = Unsold(F, k, c)
  BY <1>2 DEF Sold
<1>4. PICK o : Opened(o, b, P)
  BY <1>3, OpenLotsSteps
<1>5. \A k \in 1..P : b.lots[k] \in Lots
  BY <1>3, LotType DEF Lots
<1>. DEFINE T == {i \in Nat : i =< P => Held(o[i], F, U, i, c, mark, sg)}
<1>6. 0 \in T
  <2>1. o[0] = <<>>
    BY <1>4 DEF Opened
  <2>2. Total(Lefts(<<>>)) = 0
    <3>1. DOMAIN Lefts(<<>>) = 1..0 /\ Lefts(<<>>) = [i \in DOMAIN Lefts(<<>>) |-> Lefts(<<>>)[i]]
      BY DEF Lefts
    <3>. QED BY <3>1, TotalOfNothing
  <2>3. Total(Gains(<<>>, mark, sg)) = 0
    <3>1. PICK g : g = Gains(<<>>, mark, sg)
      OBVIOUS
    <3>2. DOMAIN g = 1..0 /\ g = [i \in DOMAIN g |-> g[i]]
      BY <3>1 DEF Gains
    <3>. QED BY <3>1, <3>2, TotalOfNothing
  <2>4. Beyond(F[0], c) = 0 /\ Dear(U, F[0], c) = 0
    BY <1>2 DEF Beyond, Dear
  <2>5. sg * (mark * 0 - 0) = 0
    OBVIOUS
  <2>6. <<>> \in Seq(Lots)
    OBVIOUS
  <2>7. Held(o[0], F, U, 0, c, mark, sg)
    BY <2>1, <2>2, <2>3, <2>4, <2>5, <2>6 DEF Held
  <2>. QED BY <2>7
<1>7. ASSUME NEW n \in Nat, n \in T PROVE n + 1 \in T
  <2>. SUFFICES ASSUME n + 1 =< P PROVE Held(o[n + 1], F, U, n + 1, c, mark, sg)
    OBVIOUS
  <2>1. n + 1 \in 1..P /\ (n + 1) - 1 = n /\ n =< P
    OBVIOUS
  <2>2. Held(o[n], F, U, n, c, mark, sg)
    BY <1>7, <2>1
  <2>3. o[n + 1] = Kept(o[n], b.lots[n + 1])
    BY <1>4, <2>1 DEF Opened
  <2>4. PICK i : i = n + 1 /\ i \in 1..Len(s) /\ i - 1 = n
    BY <1>2, <2>1
  <2>5. Held(o[n], F, U, i - 1, c, mark, sg)
    BY <2>2, <2>4
  <2>6. PICK lot \in Lots : lot = b.lots[i] /\ lot.price = Price(s[i]) /\ lot.left = Unsold(F, i, c)
    BY <1>3, <1>5, <2>1, <2>4
  <2>7. Held(Kept(o[n], lot), F, U, i, c, mark, sg)
    BY <1>1, <2>4, <2>5, <2>6, HeldGoesOn
  <2>. QED BY <2>3, <2>4, <2>6, <2>7
<1>8. P \in T
  <2>1. \A n \in Nat : n \in T
    <3>. HIDE DEF T
    <3>. QED BY <1>6, <1>7, Inductive
  <2>. HIDE DEF T
  <2>. QED BY <2>1
<1>9. OpenLots(b) = o[P]
  BY <1>4 DEF Opened
<1>. QED BY <1>2, <1>8, <1>9
-----------------------------------------------------------------------------
(* The two sides of FifoIsUnitByUnit.                                          *)

\* What the attempt holds of its fills and exits.
Paced(a, F, X) ==
  /\ Dated(a.fills, "ENTRY_FILL") /\ Dated(a.exits, "EXIT_FILL")
  /\ Tally(F, a.fills) /\ Tally(X, a.exits)
  /\ F[Len(a.fills)] = a.filled /\ X[Len(a.exits)] = a.exited
  /\ Covered(a, F, X) /\ ~DuplicateId(a)

LEMMA Scaled ==
  ASSUME NEW sign \in {1, -1}, NEW y \in Int, NEW u \in Int, NEW v \in Int, NEW w \in Int
  PROVE  sign * ((y + v) - (u + w)) = sign * (y - u) + sign * (v - w)
OBVIOUS

LEMMA GainsOfUnits ==
  ASSUME NEW s, NEW F, NEW U, NEW x, NEW X, NEW Y, NEW sign, Sides(s, F, U, x, X, Y, sign),
         NEW c \in Nat, Some(c, s, F), Some(c, x, X)
  PROVE  Total([k \in 1..c |-> sign * (UnitPrice(x, k) - UnitPrice(s, k))]) = sign * (Y[c] - U[c])
<1>1. PICK m \in Nat, n \in Nat : m = F[Len(s)] /\ n = X[Len(x)]
  <2>1. Len(s) \in 0..Len(s) /\ Len(x) \in 0..Len(x)
    BY TallyGrows DEF Sides
  <2>. QED BY <2>1, TallyGrows DEF Sides
<1>2. c =< m /\ c =< n
  BY <1>1 DEF Some
<1>3. PICK ps, px : ps = [k \in 1..m |-> UnitPrice(s, k)] /\ px = [k \in 1..n |-> UnitPrice(x, k)]
  OBVIOUS
<1>4. Sums(U, ps, m) /\ Sums(Y, px, n) /\ sign \in {1, -1}
  BY <1>1, <1>3, Zenon DEF Sides, Worth
<1>5. /\ U[0] = 0 /\ Y[0] = 0
      /\ \A i \in 0..c : U[i] \in Int /\ Y[i] \in Int
      /\ \A i \in 1..c : ps[i] \in Int /\ U[i] = U[i - 1] + ps[i] /\ px[i] \in Int /\ Y[i] = Y[i - 1] + px[i]
  <2>1. U \in [0..m -> Int] /\ U[0] = 0 /\ \A i \in 1..m : ps[i] \in Int /\ U[i] = U[i - 1] + ps[i]
    BY <1>4 DEF Sums
  <2>2. Y \in [0..n -> Int] /\ Y[0] = 0 /\ \A i \in 1..n : px[i] \in Int /\ Y[i] = Y[i - 1] + px[i]
    BY <1>4 DEF Sums
  <2>3. (\A i \in 0..c : i \in 0..m /\ i \in 0..n) /\ \A i \in 1..c : i \in 1..m /\ i \in 1..n
    BY <1>2
  <2>. QED BY <2>1, <2>2, <2>3
<1>6. PICK v : v = [k \in 1..c |-> sign * (UnitPrice(x, k) - UnitPrice(s, k))]
  OBVIOUS
<1>7. \A k \in 1..c : v[k] = sign * (px[k] - ps[k])
  <2>1. \A k \in 1..c : k \in 1..m /\ k \in 1..n
    BY <1>2
  <2>. QED BY <1>3, <1>6, <2>1
<1>8. PICK h : h = [i \in 0..c |-> sign * (Y[i] - U[i])]
  OBVIOUS
<1>9. Sums(h, v, c)
  <2>1. h \in [0..c -> Int]
    <3>1. \A i \in 0..c : sign * (Y[i] - U[i]) \in Int
      BY <1>4, <1>5
    <3>. QED BY <1>8, <3>1
  <2>2. h[0] = 0
    <3>1. 0 \in 0..c /\ sign * (0 - 0) = 0
      BY <1>4
    <3>. QED BY <1>5, <1>8, <3>1
  <2>3. ASSUME NEW i \in 1..c PROVE v[i] \in Int /\ h[i] = h[i - 1] + v[i]
    <3>1. i \in 0..c /\ i - 1 \in 0..c
      OBVIOUS
    <3>2. PICK y \in Int, u \in Int, p \in Int, q \in Int : y = Y[i - 1] /\ u = U[i - 1] /\ p = px[i] /\ q = ps[i]
      BY <1>5, <3>1
    <3>3. Y[i] = y + p /\ U[i] = u + q
      BY <1>5, <3>2
    <3>4. sign * ((y + p) - (u + q)) = sign * (y - u) + sign * (p - q)
      BY <1>4, Scaled
    <3>5. h[i] = sign * ((y + p) - (u + q)) /\ h[i - 1] = sign * (y - u)
      BY <1>8, <3>1, <3>2, <3>3
    <3>6. v[i] = sign * (p - q)
      BY <1>7, <3>2
    <3>7. sign * (p - q) \in Int
      BY <1>4
    <3>. QED BY <3>4, <3>5, <3>6, <3>7
  <2>. QED BY <2>1, <2>2, <2>3 DEF Sums
<1>10. Total(v) = h[c]
  <2>1. DOMAIN v = 1..c /\ v = [i \in DOMAIN v |-> v[i]]
    BY <1>6
  <2>. QED BY <1>9, <2>1, TotalIs
<1>11. c \in 0..c
  OBVIOUS
<1>. QED BY <1>6, <1>8, <1>10, <1>11

LEMMA UnitsLeft ==
  ASSUME NEW s, NEW F, Tally(F, s), NEW U, Worth(U, F, s), NEW sign \in {1, -1},
         NEW c \in Nat, NEW n \in Nat, n = F[Len(s)], c =< n
  PROVE  Total([k \in 1..(n - c) |-> sign * UnitPrice(s, c + k)]) = sign * (U[n] - U[c])
<1>1. PICK ps : ps = [k \in 1..n |-> UnitPrice(s, k)]
  OBVIOUS
<1>2. U \in [0..n -> Int] /\ \A i \in 1..n : ps[i] \in Int /\ U[i] = U[i - 1] + ps[i]
  <2>1. Sums(U, ps, n)
    BY <1>1, Zenon DEF Worth
  <2>. QED BY <2>1 DEF Sums
<1>3. PICK m \in Nat : m = n - c
  OBVIOUS
<1>4. PICK w \in Int : w = U[c]
  <2>1. c \in 0..n
    OBVIOUS
  <2>. QED BY <1>2, <2>1
<1>5. PICK v : v = [k \in 1..m |-> sign * UnitPrice(s, c + k)]
  OBVIOUS
<1>6. PICK h : h = [i \in 0..m |-> sign * (U[c + i] - w)]
  OBVIOUS
<1>7. \A i \in 0..m : U[c + i] \in Int
  <2>1. \A i \in 0..m : c + i \in 0..n
    BY <1>3
  <2>. QED BY <1>2, <2>1
<1>8. Sums(h, v, m)
  <2>1. h \in [0..m -> Int]
    <3>1. ASSUME NEW i \in 0..m PROVE sign * (U[c + i] - w) \in Int
      <4>1. PICK u \in Int : u = U[c + i]
        BY <1>7
      <4>2. sign * (u - w) \in Int
        OBVIOUS
      <4>. QED BY <4>1, <4>2
    <3>. QED BY <1>6, <3>1
  <2>2. h[0] = 0
    <3>1. 0 \in 0..m /\ c + 0 = c
      OBVIOUS
    <3>2. h[0] = sign * (w - w)
      BY <1>4, <1>6, <3>1
    <3>3. sign * (w - w) = 0
      OBVIOUS
    <3>. QED BY <3>2, <3>3
  <2>3. ASSUME NEW i \in 1..m PROVE v[i] \in Int /\ h[i] = h[i - 1] + v[i]
    <3>1. i \in 0..m /\ i - 1 \in 0..m /\ c + i \in 1..n /\ (c + i) - 1 = c + (i - 1)
      <4>1. i \in 0..m /\ i - 1 \in 0..m
        OBVIOUS
      <4>2. c + i \in 1..n
        BY <1>3
      <4>3. (c + i) - 1 = c + (i - 1)
        OBVIOUS
      <4>. QED BY <4>1, <4>2, <4>3
    <3>2. PICK u \in Int, p \in Int : u = U[c + (i - 1)] /\ p = ps[c + i]
      BY <1>2, <1>7, <3>1
    <3>3. U[c + i] = u + p
      BY <1>2, <3>1, <3>2
    <3>4. h[i] = sign * ((u + p) - w) /\ h[i - 1] = sign * (u - w)
      BY <1>6, <3>1, <3>2, <3>3
    <3>5. v[i] = sign * p
      <4>1. p = UnitPrice(s, c + i)
        BY <1>1, <3>1, <3>2
      <4>. QED BY <1>5, <4>1
    <3>6. sign * ((u + p) - w) = sign * (u - w) + sign * p
      OBVIOUS
    <3>. QED BY <3>4, <3>5, <3>6
  <2>. QED BY <2>1, <2>2, <2>3 DEF Sums
<1>9. Total(v) = h[m]
  <2>1. DOMAIN v = 1..m /\ v = [i \in DOMAIN v |-> v[i]]
    BY <1>5
  <2>. QED BY <1>8, <2>1, TotalIs
<1>10. h[m] = sign * (U[n] - w)
  <2>1. m \in 0..m /\ c + m = n
    BY <1>3
  <2>. QED BY <1>6, <2>1
<1>. QED BY <1>3, <1>4, <1>5, <1>9, <1>10

\* What the accounting of an attempt comes to.
Accounted(a, sign, F, U, X, Y, r) ==
  /\ Sides(a.fills, F, U, a.exits, X, Y, sign)
  /\ r.status = "PROJECTED" /\ r.realized = sign * (Y[a.exited] - U[a.exited])
  /\ \A mark \in Int, sg \in {1, -1} :
       Total(Gains(r.lots, mark, sg)) = sg * (mark * Open(a) - (U[a.filled] - U[a.exited]))

LEMMA AccountingIs ==
  ASSUME NEW a, NEW F, NEW X, Paced(a, F, X), a.filled \in Nat, a.exited \in Nat, Exposed(a), ~Ambiguous(a),
         NEW sign \in {1, -1}
  PROVE  \E U, Y : Accounted(a, sign, F, U, X, Y, Accounting(a, sign))
<1>1. PICK s, x : s = a.fills /\ x = a.exits
  OBVIOUS
<1>2. /\ Dated(s, "ENTRY_FILL") /\ Dated(x, "EXIT_FILL") /\ Tally(F, s) /\ Tally(X, x)
      /\ F[Len(s)] = a.filled /\ X[Len(x)] = a.exited
      /\ Covered(a, F, X) /\ ~DuplicateId(a)
  BY <1>1, Zenon DEF Paced
<1>3. PICK U : Worth(U, F, s)
  BY <1>2, WorthExists
<1>4. PICK Y : Worth(Y, X, x)
  BY <1>2, WorthExists
<1>5. Sides(s, F, U, x, X, Y, sign)
  BY <1>2, <1>3, <1>4 DEF Sides
<1>6. Timely(a)
  BY <1>1, <1>2 DEF Timely
<1>7. PICK b : b = FifoBook(a, sign)
  OBVIOUS
<1>8. PICK c \in Nat, n \in Nat : c = a.exited /\ n = a.filled
  OBVIOUS
<1>9. Sold(b, s, F, U, Y, sign, Len(s), c) /\ ~b.short /\ c =< n
  BY <1>1, <1>2, <1>5, <1>6, <1>7, <1>8, BookOfAll
<1>10. Some(c, s, F)
  BY <1>2, <1>8, <1>9 DEF Some
<1>11. PICK lots : lots = OpenLots(b)
  OBVIOUS
<1>12. PICK m \in Nat : m = n - c
  BY <1>9
<1>13. m = Open(a)
  BY <1>8, <1>12 DEF Open
<1>14. Beyond(F[Len(s)], c) = m
  <2>1. Beyond(n, c) = n - c
    BY <1>9 DEF Beyond
  <2>. QED BY <1>2, <1>8, <1>12, <2>1
<1>15. ASSUME NEW mark \in Int, NEW sg \in {1, -1}
       PROVE  Total(Lefts(lots)) = m /\ Total(Gains(lots, mark, sg)) = sg * (mark * m - Dear(U, F[Len(s)], c))
  <2>1. Held(lots, F, U, Len(s), c, mark, sg)
    BY <1>5, <1>9, <1>10, <1>11, OpenLotsAre
  <2>. QED BY <1>14, <2>1, Zenon DEF Held
<1>16. Dear(U, F[Len(s)], c) = U[n] - U[c]
  <2>1. PICK u \in Int, v \in Int : u = U[n] /\ v = U[c]
    <3>1. c =< F[Len(s)] /\ n =< F[Len(s)]
      BY <1>2, <1>8, <1>9
    <3>. QED BY <1>2, <1>3, <3>1, WorthOfSome
  <2>2. Dear(U, n, c) = IF n =< c THEN 0 ELSE u - v
    BY <2>1, Zenon DEF Dear
  <2>3. n =< c => u = v
    BY <1>9, <2>1
  <2>4. Dear(U, n, c) = u - v
    BY <2>2, <2>3
  <2>. QED BY <1>2, <1>8, <2>1, <2>4
<1>17. Left(lots) = m
  <2>1. Total(Lefts(lots)) = m
    <3>1. 0 \in Int /\ 1 \in {1, -1}
      OBVIOUS
    <3>. QED BY <1>15, <3>1
  <2>. QED BY <2>1 DEF Left, Lefts
<1>18. InTimeOrder(s) /\ InTimeOrder(x)
  <2>1. ASSUME NEW t, NEW k, Dated(t, k) PROVE InTimeOrder(t)
    <3>1. PICK l \in Nat : l = Len(t) /\ DOMAIN t = 1..l
      BY <2>1 DEF Dated
    <3>2. \A i \in 1..(l - 1) : i \in 1..l /\ i + 1 \in 1..l /\ i =< i + 1
      OBVIOUS
    <3>3. \A i, j \in 1..l : i =< j => t[i].at =< t[j].at
      BY <2>1, <3>1 DEF Dated
    <3>. QED BY <3>1, <3>2, <3>3 DEF InTimeOrder
  <2>. QED BY <1>2, <2>1
<1>19. SumOf(s) = a.filled /\ SumOf(x) = a.exited
  BY <1>2, TallyIsSum
<1>20. Accounting(a, sign) =
         [status |-> "PROJECTED", realized |-> b.realized, lots |-> lots,
          exposure |-> Exposure(a), asOf |-> ExecutionAsOf(a)]
  <2>1. ~(\/ ~Exposed(a)
          \/ ~InTimeOrder(a.fills) \/ SumOf(a.fills) # a.filled
          \/ ~InTimeOrder(a.exits) \/ SumOf(a.exits) # a.exited
          \/ DuplicateId(a) \/ Ambiguous(a)
          \/ b.short \/ Left(OpenLots(b)) # Open(a))
    BY <1>1, <1>2, <1>9, <1>11, <1>13, <1>17, <1>18, <1>19
  <2>. QED BY <1>7, <1>11, <2>1 DEF Accounting
<1>21. b.realized = sign * (Y[c] - U[c])
  BY <1>9 DEF Sold
<1>22. PICK r : r = Accounting(a, sign)
  OBVIOUS
<1>23. r.status = "PROJECTED" /\ r.realized = b.realized /\ r.lots = lots
  BY <1>20, <1>22
<1>24. \A mark \in Int, sg \in {1, -1} :
         Total(Gains(r.lots, mark, sg)) = sg * (mark * Open(a) - (U[a.filled] - U[a.exited]))
  BY <1>8, <1>13, <1>15, <1>16, <1>23
<1>25. Accounted(a, sign, F, U, X, Y, r)
  BY <1>1, <1>5, <1>8, <1>21, <1>23, <1>24 DEF Accounted
<1>. QED BY <1>22, <1>25
-----------------------------------------------------------------------------
(* The attempt.                                                                *)

\* What the nesting does not say and a closed attempt rests on.
Status(a) ==
  /\ a.entry \in {"NOT_SUBMITTED", "SUBMISSION_PENDING", "REJECTED"} => a.filled = 0
  /\ a.canceling => a.entry \in {"WORKING", "FILLED"}

Good(a) == a \in Attempts /\ Nest(a) /\ Status(a)

IInv == TypeOK /\ Good(attempt) /\ Good(stored)

USE QuantityAssumption, LifecycleAssumption

LEMMA Element == ASSUME NEW S, NEW s \in Seq(S), NEW i \in DOMAIN s PROVE s[i] \in S
OBVIOUS

\* The attempts two answers about protection lead to.
LEMMA ProtectedAttempt ==
  ASSUME NEW a \in Attempts, NEW at \in Nat, NEW target \in Nat,
         NEW c \in Seq([target : Nat, at : Nat])
  PROVE  [a EXCEPT !.protected = target, !.protecting = 0, !.lastAt = at, !.coverage = c] \in Attempts
BY DEF Attempts

LEMMA FailedAttempt ==
  ASSUME NEW a \in Attempts, NEW at \in Nat
  PROVE  [a EXCEPT !.failed = TRUE, !.protecting = 0, !.lastAt = at] \in Attempts
BY DEF Attempts

\* The new attempt is good.
LEMMA NewIsGood == Good(NewAttempt)
BY DEF Good, Attempts, NewAttempt, Nest, Status, EntryStatuses

\* Every transition the policy accepts keeps an attempt good.
LEMMA TransitionKeepsGood ==
  ASSUME NEW a, Good(a), NEW t \in Transitions, Accepts(a, t)
  PROVE  Good(After(a, t))
<1>. DEFINE b == After(a, t)
<1>. USE DEF Good
<1>1. CASE t.kind = "REQUEST_ENTRY"
  <2>1. t.capabilities \in Adapters
    BY <1>1 DEF Transitions, Reports
  <2>2. b = [a EXCEPT !.entry = "SUBMISSION_PENDING", !.capabilities = t.capabilities] /\ a.entry = "NOT_SUBMITTED"
    BY <1>1 DEF After, EntryRequested, Accepts, CanRequestEntry
  <2>3. b \in Attempts
    BY <2>1, <2>2 DEF Attempts, EntryStatuses
  <2>. QED BY <2>2, <2>3 DEF Attempts, Nest, Status
<1>2. CASE t.kind = "ENTRY_ACKNOWLEDGED"
  <2>1. t.order = Order /\ t.at \in Nat
    BY <1>2 DEF Transitions, Reports
  <2>2. b = [a EXCEPT !.entry = "WORKING", !.order = t.order, !.lastAt = t.at] /\ a.entry = "SUBMISSION_PENDING"
    BY <1>2 DEF After, EntryAcknowledged, Accepts, CanAcknowledgeEntry
  <2>3. b \in Attempts
    BY <2>1, <2>2 DEF Attempts, EntryStatuses
  <2>. QED BY <2>2, <2>3 DEF Attempts, Nest, Status
<1>3. CASE t.kind = "ENTRY_REJECTED"
  <2>1. t.at \in Nat
    BY <1>3 DEF Transitions, Reports
  <2>2. b = [a EXCEPT !.entry = "REJECTED", !.lastAt = t.at] /\ a.entry = "SUBMISSION_PENDING"
    BY <1>3 DEF After, EntryRejected, Accepts, CanRejectEntry
  <2>3. b \in Attempts
    BY <2>1, <2>2 DEF Attempts, EntryStatuses
  <2>. QED BY <2>2, <2>3 DEF Attempts, Nest, Status
<1>4. CASE t.kind = "ENTRY_FILL"
  <2>1. t.qty \in 1..Quantity /\ t.at \in Nat
    BY <1>4 DEF Transitions, Reports
  <2>2. /\ b = EntryFilled(a, t)
        /\ a.entry = "WORKING" /\ a.filled + t.qty =< Quantity
    BY <1>4 DEF After, Accepts, CanFill
  <2>3. b \in Attempts
    <3>1. Append(a.fills, t) \in Seq(Transitions)
      BY DEF Attempts
    <3>2. a.filled + t.qty \in Nat
      BY <2>1 DEF Attempts
    <3>3. (IF a.filled + t.qty = Quantity THEN "FILLED" ELSE "WORKING") \in EntryStatuses
      BY DEF EntryStatuses
    <3>4. b = [a EXCEPT !.entry = IF a.filled + t.qty = Quantity THEN "FILLED" ELSE "WORKING",
                        !.filled = a.filled + t.qty, !.fills = Append(a.fills, t), !.lastAt = t.at]
      BY <2>2 DEF EntryFilled, Attempts
    <3>. QED BY <2>1, <3>1, <3>2, <3>3, <3>4 DEF Attempts
  <2>4. /\ b.filled = a.filled + t.qty /\ b.protected = a.protected /\ b.exited = a.exited
        /\ b.protecting = a.protecting /\ b.coverage = a.coverage /\ b.canceling = a.canceling
        /\ b.entry = IF a.filled + t.qty = Quantity THEN "FILLED" ELSE "WORKING"
    BY <2>2 DEF EntryFilled, Attempts
  <2>5. a.filled \in Nat /\ a.protected \in Nat /\ a.exited \in Nat /\ a.protecting \in Nat
    BY DEF Attempts
  <2>6. Nest(b)
    BY <2>1, <2>2, <2>4, <2>5 DEF Nest
  <2>7. Status(b)
    BY <2>1, <2>4, <2>5 DEF Status
  <2>. QED BY <2>3, <2>6, <2>7
<1>5. CASE t.kind = "EXIT_FILL"
  <2>1. t.qty \in 1..Quantity /\ t.at \in Nat
    BY <1>5 DEF Transitions, Reports
  <2>2. b = Exited(a, t) /\ a.exited + t.qty =< a.protected
    BY <1>5 DEF After, Accepts, CanExit
  <2>3. b \in Attempts
    <3>1. Append(a.exits, t) \in Seq(Transitions)
      BY DEF Attempts
    <3>2. a.exited + t.qty \in Nat
      BY <2>1 DEF Attempts
    <3>3. b = [a EXCEPT !.exited = a.exited + t.qty, !.exits = Append(a.exits, t), !.lastAt = t.at]
      BY <2>2 DEF Exited, Attempts
    <3>. QED BY <2>1, <3>1, <3>2, <3>3 DEF Attempts
  <2>4. /\ b.filled = a.filled /\ b.protected = a.protected /\ b.exited = a.exited + t.qty
        /\ b.protecting = a.protecting /\ b.coverage = a.coverage /\ b.canceling = a.canceling
        /\ b.entry = a.entry
    BY <2>2 DEF Exited, Attempts
  <2>. QED BY <2>1, <2>2, <2>3, <2>4 DEF Attempts, Nest, Status
<1>6. CASE t.kind = "REQUEST_PROTECTION"
  <2>1. /\ b = [a EXCEPT !.protecting = a.filled]
        /\ a.filled - a.protected # 0
    BY <1>6 DEF After, ProtectionRequested, Accepts, CanRequestProtection, Unprotected
  <2>2. b \in Attempts
    BY <2>1 DEF Attempts
  <2>3. /\ b.filled = a.filled /\ b.protected = a.protected /\ b.exited = a.exited
        /\ b.protecting = a.filled /\ b.coverage = a.coverage /\ b.canceling = a.canceling
        /\ b.entry = a.entry
    BY <2>1 DEF Attempts
  <2>4. b.protected < b.protecting /\ b.protecting =< b.filled
    BY <2>1, <2>3 DEF Attempts, Nest
  <2>5. Nest(b)
    BY <2>3, <2>4 DEF Nest
  <2>6. Status(b)
    BY <2>3 DEF Status
  <2>. QED BY <2>2, <2>5, <2>6
<1>7. CASE t.kind = "PROTECTION_ACKNOWLEDGED"
  <2>1. t.at \in Nat /\ t.target \in Nat
    BY <1>7 DEF Transitions, Reports
  <2>2. /\ b = ProtectionAcknowledged(a, t)
        /\ t.target >= a.protected /\ t.target =< a.filled
    BY <1>7 DEF After, Accepts, CanAcknowledgeProtection
  <2>3. b \in Attempts
    <3>1. Append(a.coverage, [target |-> t.target, at |-> t.at]) \in Seq([target : Nat, at : Nat])
      BY <2>1 DEF Attempts
    <3>2. b = [a EXCEPT !.protected = t.target, !.protecting = 0, !.lastAt = t.at,
                        !.coverage = Append(a.coverage, [target |-> t.target, at |-> t.at])]
      BY <2>2 DEF ProtectionAcknowledged, Attempts
    <3>. DEFINE c == Append(a.coverage, [target |-> t.target, at |-> t.at])
    <3>3. c \in Seq([target : Nat, at : Nat]) /\ a \in Attempts
      BY <3>1
    <3>. HIDE DEF c
    <3>4. [a EXCEPT !.protected = t.target, !.protecting = 0, !.lastAt = t.at, !.coverage = c] \in Attempts
      BY <2>1, <3>3, ProtectedAttempt
    <3>. QED BY <3>2, <3>4 DEF c
  <2>4. /\ b.filled = a.filled /\ b.protected = t.target /\ b.exited = a.exited
        /\ b.protecting = 0 /\ b.canceling = a.canceling /\ b.entry = a.entry
        /\ b.coverage = Append(a.coverage, [target |-> t.target, at |-> t.at])
    BY <2>2 DEF ProtectionAcknowledged, Attempts
  <2>5. \A i \in DOMAIN b.coverage : b.coverage[i].target =< b.protected
    <3>1. a.coverage \in Seq([target : Nat, at : Nat])
      BY DEF Attempts
    <3>. SUFFICES ASSUME NEW i \in DOMAIN b.coverage
                  PROVE  b.coverage[i].target =< t.target
      BY <2>4
    <3>2. CASE i \in DOMAIN a.coverage
      <4>1. b.coverage[i] = a.coverage[i]
        BY <2>4, <3>1, <3>2
      <4>2. a.coverage[i] \in [target : Nat, at : Nat]
        BY <3>1, <3>2, Element
      <4>. QED BY <2>1, <2>2, <3>2, <4>1, <4>2, SMTT(30) DEF Nest, Attempts
    <3>3. CASE i = Len(a.coverage) + 1
      <4>1. b.coverage[i] = [target |-> t.target, at |-> t.at]
        BY <2>4, <3>1, <3>3
      <4>. QED BY <2>1, <4>1
    <3>4. DOMAIN b.coverage = 1..(Len(a.coverage) + 1) /\ DOMAIN a.coverage = 1..Len(a.coverage)
      BY <2>4, <3>1
    <3>5. Len(a.coverage) \in Nat
      BY <3>1
    <3>. QED BY <3>2, <3>3, <3>4, <3>5
  <2>6. Nest(b)
    <3>1. b.exited =< b.protected /\ b.protected =< b.filled /\ b.filled =< Quantity
      BY <2>1, <2>2, <2>4 DEF Attempts, Nest
    <3>. QED BY <2>4, <2>5, <3>1 DEF Nest
  <2>7. Status(b)
    BY <2>4 DEF Status
  <2>. QED BY <2>3, <2>6, <2>7
<1>8. CASE t.kind = "PROTECTION_REJECTED"
  <2>1. t.at \in Nat
    BY <1>8 DEF Transitions, Reports
  <2>2. b = [a EXCEPT !.failed = TRUE, !.protecting = 0, !.lastAt = t.at]
    BY <1>8 DEF After, ProtectionRejected
  <2>3. b \in Attempts
    BY <2>1, <2>2, FailedAttempt
  <2>. QED BY <2>2, <2>3 DEF Attempts, Nest, Status
<1>9. CASE t.kind = "REQUEST_CANCELLATION"
  <2>1. b = [a EXCEPT !.canceling = TRUE] /\ a.entry = "WORKING"
    BY <1>9 DEF After, CancellationRequested, Accepts, CanRequestCancellation
  <2>2. b \in Attempts
    BY <2>1 DEF Attempts
  <2>. QED BY <2>1, <2>2 DEF Attempts, Nest, Status
<1>10. CASE t.kind = "CANCELLATION_ACKNOWLEDGED"
  <2>1. t.at \in Nat
    BY <1>10 DEF Transitions, Reports
  <2>2. b = CancellationAcknowledged(a, t) /\ a.canceling
    BY <1>10 DEF After, Accepts, CanAnswerCancellation
  <2>3. b \in Attempts
    <3>1. (IF a.filled = Quantity THEN "FILLED" ELSE "CANCELED") \in EntryStatuses
      BY DEF EntryStatuses
    <3>2. b = [a EXCEPT !.entry = IF a.filled = Quantity THEN "FILLED" ELSE "CANCELED",
                        !.canceling = FALSE, !.lastAt = t.at]
      BY <2>2 DEF CancellationAcknowledged
    <3>. QED BY <2>1, <3>1, <3>2 DEF Attempts
  <2>4. /\ b.filled = a.filled /\ b.protected = a.protected /\ b.exited = a.exited
        /\ b.protecting = a.protecting /\ b.coverage = a.coverage /\ ~b.canceling
        /\ b.entry = IF a.filled = Quantity THEN "FILLED" ELSE "CANCELED"
    BY <2>2 DEF CancellationAcknowledged, Attempts
  <2>. QED BY <2>2, <2>3, <2>4 DEF Attempts, Nest, Status
<1>11. CASE t.kind = "CANCELLATION_REJECTED"
  <2>1. t.at \in Nat
    BY <1>11 DEF Transitions, Reports
  <2>2. b = [a EXCEPT !.cancelRefused = TRUE, !.canceling = FALSE, !.lastAt = t.at]
    BY <1>11 DEF After, CancellationRejected
  <2>3. b \in Attempts
    BY <2>1, <2>2 DEF Attempts
  <2>. QED BY <2>2, <2>3 DEF Attempts, Nest, Status
<1>. QED
  BY <1>1, <1>2, <1>3, <1>4, <1>5, <1>6, <1>7, <1>8, <1>9, <1>10, <1>11 DEF Accepts

-----------------------------------------------------------------------------
(* The invariant of the machine.                                               *)

LEMMA TakeKeepsGood ==
  ASSUME IInv, NEW t \in Transitions, Take(t)
  PROVE  IInv'
<1>1. Good(attempt')
  BY TransitionKeepsGood DEF Take, IInv
<1>2. unsaved' \in Seq(Transitions)
  BY DEF Take, IInv, TypeOK
<1>. QED BY <1>1, <1>2 DEF Take, IInv, TypeOK, Good

\* What the broker reports is a report, and the owner's side stays.
LEMMA ReportKeepsGood ==
  ASSUME IInv, NEW r \in Reports, Report(r),
         broker' \in [entry : {"NONE", "WORKING", "FILLED", "CANCELED", "REJECTED"},
                     filled : Nat, covered : Int, exited : Nat]
  PROVE  IInv'
<1>1. reports' \in Seq(Reports)
  BY DEF Report, IInv, TypeOK
<1>. QED BY <1>1 DEF Report, owner, IInv, TypeOK, Good

LEMMA NowIsNat == ASSUME IInv PROVE Now \in Nat
BY DEF IInv, TypeOK, Now

\* The number of reports of a kind, from which a fill takes its id.
LEMMA ReportedCount ==
  ASSUME IInv, NEW kinds
  PROVE  Cardinality(Reported(kinds)) \in Nat
<1>1. DOMAIN reports = 1..Len(reports) /\ Len(reports) \in Nat
  BY DEF IInv, TypeOK
<1>2. IsFiniteSet(1..Len(reports))
  BY <1>1, FS_Interval
<1>3. IsFiniteSet(Reported(kinds))
  BY <1>1, <1>2, FS_Subset DEF Reported
<1>. QED BY <1>3, FS_CardinalityType

LEMMA OwnerKeepsGood ==
  ASSUME IInv, OwnerNext
  PROVE  IInv'
<1>1. ASSUME NEW c \in Adapters, Take([kind |-> "REQUEST_ENTRY", capabilities |-> c])
      PROVE  IInv'
  <2>1. [kind |-> "REQUEST_ENTRY", capabilities |-> c] \in Transitions
    BY DEF Transitions
  <2>. QED BY <1>1, <2>1, TakeKeepsGood
<1>2. CASE RequestProtection \/ RequestCancellation
  <2>1. [kind |-> "REQUEST_PROTECTION"] \in Transitions /\ [kind |-> "REQUEST_CANCELLATION"] \in Transitions
    BY DEF Transitions
  <2>. QED BY <1>2, <2>1, TakeKeepsGood DEF RequestProtection, RequestCancellation
<1>3. ASSUME NEW i \in DOMAIN reports, Deliver(i)
      PROVE  IInv'
  <2>1. reports[i] \in Transitions
    BY Element DEF IInv, TypeOK, Transitions
  <2>. QED BY <1>3, <2>1, TakeKeepsGood DEF Deliver
<1>4. CASE Save
  <2>1. saved' \in Seq(Transitions) /\ Len(saved') >= Len(saved) /\ Len(saved) \in Nat /\ Len(saved') \in Nat
    BY <1>4 DEF Save, Evidence, IInv, TypeOK
  <2>2. replay' \in 0..Len(saved')
    BY <1>4, <2>1 DEF Save, IInv, TypeOK
  <2>3. unsaved' \in Seq(Transitions)
    BY <1>4 DEF Save
  <2>. QED BY <1>4, <2>1, <2>2, <2>3 DEF Save, IInv, TypeOK, Good
<1>5. CASE Crash
  <2>1. Good(attempt')
    BY <1>5, NewIsGood DEF Crash
  <2>2. replay' \in 0..Len(saved')
    BY <1>5 DEF Crash, IInv, TypeOK
  <2>3. unsaved' \in Seq(Transitions)
    BY <1>5 DEF Crash
  <2>. QED BY <1>5, <2>1, <2>2, <2>3 DEF Crash, IInv, TypeOK, Good
<1>6. CASE Replay
  <2>1. replay \in DOMAIN saved /\ Len(saved) \in Nat
    BY <1>6 DEF Replay, IInv, TypeOK
  <2>2. saved[replay] \in Transitions
    BY <2>1, Element DEF IInv, TypeOK
  <2>3. Good(attempt')
    BY <1>6, <2>2, TransitionKeepsGood DEF Replay, IInv
  <2>4. replay' \in 0..Len(saved')
    BY <1>6, <2>1 DEF Replay, IInv, TypeOK
  <2>. QED BY <1>6, <2>3, <2>4 DEF Replay, IInv, TypeOK, Good
<1>. QED BY <1>1, <1>2, <1>3, <1>4, <1>5, <1>6 DEF OwnerNext, RequestEntry

LEMMA BrokerKeepsGood ==
  ASSUME IInv, BrokerNext
  PROVE  IInv'
<1>. DEFINE Brokers == [entry : {"NONE", "WORKING", "FILLED", "CANCELED", "REJECTED"},
                        filled : Nat, covered : Int, exited : Nat]
<1>0. broker \in Brokers /\ Now \in Nat /\ stored.protecting \in Nat /\ stored.protected \in Nat
  BY NowIsNat DEF IInv, TypeOK, Attempts
<1>1. CASE AcceptEntry \/ RefuseEntry
  <2>1. broker' \in Brokers
    BY <1>0, <1>1 DEF AcceptEntry, RefuseEntry
  <2>2. /\ [kind |-> "ENTRY_ACKNOWLEDGED", order |-> Order, at |-> Now] \in Reports
        /\ [kind |-> "ENTRY_REJECTED", at |-> Now] \in Reports
    BY <1>0 DEF Reports
  <2>. QED BY <1>1, <2>1, <2>2, ReportKeepsGood DEF AcceptEntry, RefuseEntry
<1>2. CASE Cover \/ RefuseCover
  <2>1. broker' \in Brokers
    BY <1>0, <1>2 DEF Cover, RefuseCover, Increment
  <2>2. /\ [kind |-> "PROTECTION_ACKNOWLEDGED", target |-> stored.protecting, at |-> Now] \in Reports
        /\ [kind |-> "PROTECTION_REJECTED", target |-> stored.protecting, at |-> Now] \in Reports
    BY <1>0 DEF Reports
  <2>. QED BY <1>2, <2>1, <2>2, ReportKeepsGood DEF Cover, RefuseCover
<1>3. CASE Cancel \/ RefuseCancel
  <2>1. broker' \in Brokers
    BY <1>0, <1>3 DEF Cancel, RefuseCancel
  <2>2. /\ [kind |-> "CANCELLATION_ACKNOWLEDGED", order |-> Order, at |-> Now] \in Reports
        /\ [kind |-> "CANCELLATION_REJECTED", order |-> Order, at |-> Now] \in Reports
    BY <1>0 DEF Reports
  <2>. QED BY <1>3, <2>1, <2>2, ReportKeepsGood DEF Cancel, RefuseCancel
<1>4. ASSUME NEW q \in 1..Quantity, FillEntry(q)
      PROVE  IInv'
  <2>. DEFINE n == Cardinality(Reported({"ENTRY_FILL"})) + 1
  <2>1. n \in Nat
    BY ReportedCount
  <2>2. broker' \in Brokers
    <3>1. broker.filled + q \in Nat
      BY <1>0
    <3>. DEFINE e == IF broker.filled + q = Quantity THEN "FILLED" ELSE "WORKING"
    <3>2. e \in {"NONE", "WORKING", "FILLED", "CANCELED", "REJECTED"}
      OBVIOUS
    <3>3. broker' = [broker EXCEPT !.filled = broker.filled + q, !.entry = e]
      BY <1>4 DEF FillEntry
    <3>. HIDE DEF e
    <3>. QED BY <1>0, <3>1, <3>2, <3>3
  <2>. HIDE DEF n
  <2>3. [kind |-> "ENTRY_FILL", id |-> n, order |-> Order, qty |-> q, at |-> Now] \in Reports
    BY <1>0, <2>1 DEF Reports
  <2>4. Report([kind |-> "ENTRY_FILL", id |-> n, order |-> Order, qty |-> q, at |-> Now])
    BY <1>4 DEF FillEntry, n
  <2>. QED BY <2>2, <2>3, <2>4, ReportKeepsGood
<1>5. ASSUME NEW q \in 1..Quantity, NEW t \in 1..Quantity, ExitPosition(q, t)
      PROVE  IInv'
  <2>. DEFINE n == Quantity + (Cardinality(Reported({"EXIT_FILL"})) + 1)
  <2>1. n \in Nat
    BY ReportedCount
  <2>2. broker' \in Brokers
    BY <1>0, <1>5 DEF ExitPosition
  <2>. HIDE DEF n
  <2>3. [kind |-> "EXIT_FILL", id |-> n, target |-> t, qty |-> q, at |-> Now] \in Reports
    BY <1>0, <2>1 DEF Reports
  <2>4. Report([kind |-> "EXIT_FILL", id |-> n, target |-> t, qty |-> q, at |-> Now])
    BY <1>5 DEF ExitPosition, n
  <2>. QED BY <2>2, <2>3, <2>4, ReportKeepsGood
<1>. QED BY <1>1, <1>2, <1>3, <1>4, <1>5 DEF BrokerNext

\* The inductive invariant of the life cycle: shapes, nesting and statuses of the
\* attempt in memory and of the stored one.
THEOREM LifecycleInvariant == Spec => []IInv
<1>1. Init => IInv
  BY NewIsGood DEF Init, IInv, TypeOK, Good
<1>2. IInv /\ [Next]_vars => IInv'
  <2>1. CASE UNCHANGED vars
    BY <2>1 DEF vars, IInv, TypeOK, Good
  <2>. QED BY <2>1, OwnerKeepsGood, BrokerKeepsGood DEF Next
<1>. QED BY <1>1, <1>2, PTL DEF Spec

\* The shapes of the attempt, the evidence and the reports (ExecutionLifecycle.TypeOK).
THEOREM LifecycleTypes == Spec => []TypeOK
BY LifecycleInvariant, PTL DEF IInv

\* Exits nest in protection, protection in fills, fills in the plan, whatever is
\* lost, repeated or reordered and wherever the owner dies.
THEOREM QuantitiesAlwaysNest == Spec => []QuantitiesNest
<1>1. IInv => QuantitiesNest
  BY DEF IInv, Good, QuantitiesNest
<1>. QED BY <1>1, LifecycleInvariant, PTL

\* What a closed attempt looks like.
LEMMA ClosedAttempt ==
  ASSUME NEW a, Good(a), State(a) \in Closed
  PROVE  /\ a.entry \in {"FILLED", "CANCELED", "REJECTED"}
         /\ a.exited = a.filled /\ a.protected = a.filled
         /\ a.protecting = 0 /\ ~a.canceling
<1>. USE DEF Good
<1>1. ~a.failed
  BY DEF State, Closed, Attempts
<1>2. CASE a.entry = "REJECTED"
  BY <1>2 DEF Nest, Status, Attempts
<1>3. CASE a.entry # "REJECTED"
  <2>1. ~a.canceling
    BY <1>1, <1>3 DEF State, Closed, Attempts
  <2>2. a.protecting = 0
    BY <1>1, <1>3, <2>1 DEF State, Closed, Attempts
  <2>3. a.entry \in {"FILLED", "CANCELED"} /\ a.exited = a.filled
    BY <1>1, <1>3, <2>1, <2>2 DEF State, Closed, Attempts, Nest
  <2>. QED BY <2>1, <2>2, <2>3 DEF Attempts, Nest
<1>. QED BY <1>2, <1>3

\* No request and no report that is not a repetition is accepted any more.
LEMMA ClosedAcceptsNothing ==
  ASSUME NEW a, Good(a), State(a) \in Closed, NEW t \in Transitions
  PROVE  ~Accepts(a, t)
<1>. USE ClosedAttempt
<1>1. t.kind = "EXIT_FILL" => t.qty \in 1..Quantity
  BY DEF Transitions, Reports
<1>2. ~(t.kind = "EXIT_FILL" /\ CanExit(a, t))
  <2>. SUFFICES ASSUME t.kind = "EXIT_FILL", CanExit(a, t)
                PROVE  FALSE
    OBVIOUS
  <2>1. a.exited + t.qty =< a.filled /\ a.exited = a.filled /\ a.filled \in Nat
    BY DEF CanExit, Good, Attempts
  <2>. QED BY <1>1, <2>1
<1>3. ~CanRequestProtection(a) /\ ~CanRequestCancellation(a)
  BY DEF CanRequestProtection, CanRequestCancellation, Unprotected, Good, Attempts
<1>4. /\ ~CanRequestEntry(a, t.capabilities) /\ ~CanAcknowledgeEntry(a, t) /\ ~CanRejectEntry(a, t)
      /\ ~CanFill(a, t)
  BY DEF CanRequestEntry, CanAcknowledgeEntry, CanRejectEntry, CanFill
<1>5. ~CanAcknowledgeProtection(a, t) /\ ~CanRejectProtection(a, t) /\ ~CanAnswerCancellation(a, t)
  BY DEF CanAcknowledgeProtection, CanRejectProtection, CanAnswerCancellation
<1>. QED BY <1>2, <1>3, <1>4, <1>5 DEF Accepts

\* No request and no report reopens a closed attempt (policy.ts, deriveState).
THEOREM ClosedStays == Spec => ClosedForGood
<1>1. IInv /\ [Next]_vars =>
        [State(attempt) \in Closed /\ ~Crash /\ replay = 0 => UNCHANGED attempt]_vars
  <2>. SUFFICES ASSUME IInv, Next, State(attempt) \in Closed, ~Crash, replay = 0
                PROVE  UNCHANGED attempt
    BY DEF vars
  <2>1. \A t \in Transitions : ~Take(t)
    BY ClosedAcceptsNothing DEF Take, IInv
  <2>2. ~RequestEntry
    <3>1. \A c \in Adapters : [kind |-> "REQUEST_ENTRY", capabilities |-> c] \in Transitions
      BY DEF Transitions
    <3>. QED BY <2>1, <3>1 DEF RequestEntry
  <2>3. ~RequestProtection /\ ~RequestCancellation
    <3>1. [kind |-> "REQUEST_PROTECTION"] \in Transitions /\ [kind |-> "REQUEST_CANCELLATION"] \in Transitions
      BY DEF Transitions
    <3>. QED BY <2>1, <3>1 DEF RequestProtection, RequestCancellation
  <2>4. \A i \in DOMAIN reports : ~Deliver(i)
    <3>1. \A i \in DOMAIN reports : reports[i] \in Transitions
      BY Element DEF IInv, TypeOK, Transitions
    <3>. QED BY <2>1, <3>1 DEF Deliver
  <2>5. CASE Save \/ Replay
    BY <2>5 DEF Save, Replay
  <2>6. CASE BrokerNext
    BY <2>6 DEF BrokerNext, AcceptEntry, RefuseEntry, Cover, RefuseCover, Cancel, RefuseCancel,
                FillEntry, ExitPosition, Report, owner
  <2>. QED BY <2>2, <2>3, <2>4, <2>5, <2>6 DEF Next, OwnerNext
<1>. QED BY <1>1, LifecycleInvariant, PTL DEF Spec, ClosedForGood
-----------------------------------------------------------------------------
(* What a transition leaves of an attempt, field by field.                     *)

Answered == {"PROTECTION_ACKNOWLEDGED", "PROTECTION_REJECTED"}

LEMMA Fields ==
  ASSUME NEW a \in Attempts, NEW t, Accepts(a, t)
  PROVE  LET b == After(a, t)
         IN  /\ b.filled = IF t.kind = "ENTRY_FILL" THEN a.filled + t.qty ELSE a.filled
             /\ b.fills = IF t.kind = "ENTRY_FILL" THEN Append(a.fills, t) ELSE a.fills
             /\ b.exited = IF t.kind = "EXIT_FILL" THEN a.exited + t.qty ELSE a.exited
             /\ b.exits = IF t.kind = "EXIT_FILL" THEN Append(a.exits, t) ELSE a.exits
             /\ b.protected = IF t.kind = "PROTECTION_ACKNOWLEDGED" THEN t.target ELSE a.protected
             /\ b.protecting = IF t.kind = "REQUEST_PROTECTION" THEN a.filled
                               ELSE IF t.kind \in Answered THEN 0 ELSE a.protecting
             /\ b.coverage = IF t.kind = "PROTECTION_ACKNOWLEDGED"
                             THEN Append(a.coverage, [target |-> t.target, at |-> t.at])
                             ELSE a.coverage
             /\ t.kind = "REQUEST_CANCELLATION" => b.canceling = TRUE
             /\ t.kind \in {"CANCELLATION_ACKNOWLEDGED", "CANCELLATION_REJECTED"} => b.canceling = FALSE
             /\ b.canceling = a.canceling \/ t.kind \in {"REQUEST_CANCELLATION", "CANCELLATION_ACKNOWLEDGED", "CANCELLATION_REJECTED"}
             /\ t.kind = "PROTECTION_REJECTED" => b.failed = TRUE
             /\ t.kind # "PROTECTION_REJECTED" => b.failed = a.failed
             /\ b.lastAt = IF t.kind \in Requests THEN a.lastAt ELSE t.at
             /\ b.order = IF t.kind = "ENTRY_ACKNOWLEDGED" THEN t.order ELSE a.order
             /\ b.entry = IF t.kind = "REQUEST_ENTRY" THEN "SUBMISSION_PENDING"
                          ELSE IF t.kind = "ENTRY_ACKNOWLEDGED" THEN "WORKING"
                          ELSE IF t.kind = "ENTRY_REJECTED" THEN "REJECTED"
                          ELSE IF t.kind = "ENTRY_FILL"
                          THEN IF a.filled + t.qty = Quantity THEN "FILLED" ELSE "WORKING"
                          ELSE IF t.kind = "CANCELLATION_ACKNOWLEDGED"
                          THEN IF a.filled = Quantity THEN "FILLED" ELSE "CANCELED"
                          ELSE a.entry
<1>. USE DEF Attempts, Answered, Requests
<1>1. CASE t.kind = "REQUEST_ENTRY"
  BY <1>1 DEF After, EntryRequested
<1>2. CASE t.kind = "ENTRY_ACKNOWLEDGED"
  BY <1>2 DEF After, EntryAcknowledged
<1>3. CASE t.kind = "ENTRY_REJECTED"
  BY <1>3 DEF After, EntryRejected
<1>4. CASE t.kind = "ENTRY_FILL"
  BY <1>4 DEF After, EntryFilled
<1>5. CASE t.kind = "EXIT_FILL"
  BY <1>5 DEF After, Exited
<1>6. CASE t.kind = "REQUEST_PROTECTION"
  BY <1>6 DEF After, ProtectionRequested
<1>7. CASE t.kind = "PROTECTION_ACKNOWLEDGED"
  BY <1>7 DEF After, ProtectionAcknowledged
<1>8. CASE t.kind = "PROTECTION_REJECTED"
  BY <1>8 DEF After, ProtectionRejected
<1>9. CASE t.kind = "REQUEST_CANCELLATION"
  BY <1>9 DEF After, CancellationRequested
<1>10. CASE t.kind = "CANCELLATION_ACKNOWLEDGED"
  BY <1>10 DEF After, CancellationAcknowledged
<1>11. CASE t.kind = "CANCELLATION_REJECTED"
  BY <1>11 DEF After, CancellationRejected
<1>. QED
  BY <1>1, <1>2, <1>3, <1>4, <1>5, <1>6, <1>7, <1>8, <1>9, <1>10, <1>11 DEF Accepts

\* What a transition that was taken leaves behind for good: enough for the
\* attempt to recognise or to refuse it from then on.
Settled(a, t) ==
  /\ t.kind = "ENTRY_FILL" => \E i \in DOMAIN a.fills : a.fills[i] = t
  /\ t.kind = "EXIT_FILL" => \E i \in DOMAIN a.exits : a.exits[i] = t
  /\ t.kind \in {"ENTRY_ACKNOWLEDGED", "ENTRY_REJECTED"} => a.entry \notin {"NOT_SUBMITTED", "SUBMISSION_PENDING"}
  /\ t.kind = "PROTECTION_ACKNOWLEDGED" => t.target =< a.protected
  /\ t.kind = "PROTECTION_REJECTED" => a.failed /\ a.protecting = 0

LEMMA AppendKeeps ==
  ASSUME NEW S, NEW s \in Seq(S), NEW x \in S, NEW y, \E i \in DOMAIN s : s[i] = y
  PROVE  \E i \in DOMAIN Append(s, x) : Append(s, x)[i] = y
OBVIOUS

LEMMA AppendAdds ==
  ASSUME NEW S, NEW s \in Seq(S), NEW x \in S
  PROVE  \E i \in DOMAIN Append(s, x) : Append(s, x)[i] = x
<1>1. Len(s) + 1 \in DOMAIN Append(s, x) /\ Append(s, x)[Len(s) + 1] = x
  OBVIOUS
<1>. QED BY <1>1

LEMMA SettledAtOnce ==
  ASSUME NEW a, Good(a), NEW t \in Transitions, Accepts(a, t)
  PROVE  Settled(After(a, t), t)
<1>. DEFINE b == After(a, t)
<1>1. a \in Attempts
  BY DEF Good
<1>2. t.kind = "ENTRY_FILL" => \E i \in DOMAIN b.fills : b.fills[i] = t
  <2>1. t.kind = "ENTRY_FILL" => b.fills = Append(a.fills, t)
    BY <1>1, Fields
  <2>2. a.fills \in Seq(Transitions)
    BY <1>1 DEF Attempts
  <2>. QED BY <2>1, <2>2, AppendAdds
<1>3. t.kind = "EXIT_FILL" => \E i \in DOMAIN b.exits : b.exits[i] = t
  <2>1. t.kind = "EXIT_FILL" => b.exits = Append(a.exits, t)
    BY <1>1, Fields
  <2>2. a.exits \in Seq(Transitions)
    BY <1>1 DEF Attempts
  <2>. QED BY <2>1, <2>2, AppendAdds
<1>4. t.kind \in {"ENTRY_ACKNOWLEDGED", "ENTRY_REJECTED"} => b.entry \notin {"NOT_SUBMITTED", "SUBMISSION_PENDING"}
  BY <1>1, Fields
<1>5. t.kind = "PROTECTION_ACKNOWLEDGED" => t.target =< b.protected
  <2>1. t.kind = "PROTECTION_ACKNOWLEDGED" => t.target \in Nat
    BY DEF Transitions, Reports
  <2>2. t.kind = "PROTECTION_ACKNOWLEDGED" => b.protected = t.target
    BY <1>1, Fields
  <2>. QED BY <2>1, <2>2
<1>6. t.kind = "PROTECTION_REJECTED" => b.failed /\ b.protecting = 0
  <2>1. t.kind = "PROTECTION_REJECTED" => b.failed = TRUE
    BY <1>1, Fields
  <2>2. t.kind = "PROTECTION_REJECTED" => b.protecting = 0
    BY <1>1, Fields DEF Answered
  <2>. QED BY <2>1, <2>2
<1>. QED BY <1>2, <1>3, <1>4, <1>5, <1>6 DEF Settled

LEMMA SettledStays ==
  ASSUME NEW a, Good(a), NEW t \in Transitions, Accepts(a, t),
         NEW s \in Transitions, Settled(a, s)
  PROVE  Settled(After(a, t), s)
<1>. DEFINE b == After(a, t)
<1>1. a \in Attempts
  BY DEF Good
<1>2. s.kind = "ENTRY_FILL" => \E i \in DOMAIN b.fills : b.fills[i] = s
  <2>1. b.fills = a.fills \/ b.fills = Append(a.fills, t)
    BY <1>1, Fields
  <2>2. a.fills \in Seq(Transitions)
    BY <1>1 DEF Attempts
  <2>. QED BY <2>1, <2>2, AppendKeeps, SMTT(30) DEF Settled
<1>3. s.kind = "EXIT_FILL" => \E i \in DOMAIN b.exits : b.exits[i] = s
  <2>1. b.exits = a.exits \/ b.exits = Append(a.exits, t)
    BY <1>1, Fields
  <2>2. a.exits \in Seq(Transitions)
    BY <1>1 DEF Attempts
  <2>. QED BY <2>1, <2>2, AppendKeeps, SMTT(30) DEF Settled
<1>4. s.kind \in {"ENTRY_ACKNOWLEDGED", "ENTRY_REJECTED"} => b.entry \notin {"NOT_SUBMITTED", "SUBMISSION_PENDING"}
  <2>1. t.kind = "REQUEST_ENTRY" => a.entry = "NOT_SUBMITTED"
    BY DEF Accepts, CanRequestEntry
  <2>2. b.entry \in {"WORKING", "REJECTED", "FILLED", "CANCELED", "SUBMISSION_PENDING"} \/ b.entry = a.entry
    BY <1>1, Fields
  <2>3. b.entry = "SUBMISSION_PENDING" => t.kind = "REQUEST_ENTRY" \/ b.entry = a.entry
    BY <1>1, Fields, ZenonT(30)
  <2>. QED BY <2>1, <2>2, <2>3 DEF Settled
<1>5. s.kind = "PROTECTION_ACKNOWLEDGED" => s.target =< b.protected
  <2>1. /\ s.kind = "PROTECTION_ACKNOWLEDGED" => s.target \in Nat
        /\ t.kind = "PROTECTION_ACKNOWLEDGED" => t.target \in Nat
    BY DEF Transitions, Reports
  <2>2. t.kind = "PROTECTION_ACKNOWLEDGED" => t.target >= a.protected
    BY DEF Accepts, CanAcknowledgeProtection
  <2>3. a.protected \in Nat
    BY <1>1 DEF Attempts
  <2>4. b.protected = IF t.kind = "PROTECTION_ACKNOWLEDGED" THEN t.target ELSE a.protected
    BY <1>1, Fields
  <2>. QED BY <2>1, <2>2, <2>3, <2>4 DEF Settled
<1>6. s.kind = "PROTECTION_REJECTED" => b.failed /\ b.protecting = 0
  <2>1. t.kind = "REQUEST_PROTECTION" => ~a.failed
    BY DEF Accepts, CanRequestProtection
  <2>2. /\ t.kind = "PROTECTION_REJECTED" => b.failed = TRUE
        /\ t.kind # "PROTECTION_REJECTED" => b.failed = a.failed
    BY <1>1, Fields
  <2>3. b.protecting = IF t.kind = "REQUEST_PROTECTION" THEN a.filled
                       ELSE IF t.kind \in Answered THEN 0 ELSE a.protecting
    BY <1>1, Fields
  <2>. QED BY <2>1, <2>2, <2>3 DEF Answered, Settled
<1>. QED BY <1>2, <1>3, <1>4, <1>5, <1>6 DEF Settled

\* A settled transition is recognised or refused when it comes again, the answer
\* to a cancellation excepted.
LEMMA SettledIsHarmless ==
  ASSUME NEW a, Good(a), NEW t \in Transitions, Settled(a, t),
         t.kind \notin Requests,
         t.kind \notin {"CANCELLATION_ACKNOWLEDGED", "CANCELLATION_REJECTED"}
  PROVE  Repeats(a, t) \/ ~Accepts(a, t)
<1>1. t.kind \in {"ENTRY_FILL", "EXIT_FILL"} => Repeats(a, t)
  BY DEF Settled, Repeats
<1>2. t.kind \in {"ENTRY_ACKNOWLEDGED", "ENTRY_REJECTED"} => ~Accepts(a, t)
  BY DEF Settled, Accepts, CanAcknowledgeEntry, CanRejectEntry
<1>3. t.kind = "PROTECTION_ACKNOWLEDGED" => ~Accepts(a, t)
  <2>1. a.protected \in Nat /\ a.protecting \in Nat
    BY DEF Good, Attempts
  <2>2. t.kind = "PROTECTION_ACKNOWLEDGED" => t.target \in Nat
    BY DEF Transitions, Reports
  <2>. QED BY <2>1, <2>2 DEF Settled, Accepts, CanAcknowledgeProtection, Good, Nest
<1>4. t.kind = "PROTECTION_REJECTED" => ~Accepts(a, t)
  BY DEF Settled, Accepts, CanRejectProtection
<1>. QED BY <1>1, <1>2, <1>3, <1>4 DEF Accepts, Requests

-----------------------------------------------------------------------------
(* The attempts the evidence went through: h[i] is the attempt after the first  *)
(* i transitions.                                                              *)

Trace(h, e) ==
  /\ DOMAIN h = 0..Len(e)
  /\ h[0] = NewAttempt
  /\ \A i \in 0..Len(e) : Good(h[i])
  /\ \A i \in 1..Len(e) : ~Repeats(h[i - 1], e[i]) /\ Accepts(h[i - 1], e[i]) /\ h[i] = After(h[i - 1], e[i])
  /\ \A i \in 1..Len(e) : \A k \in i..Len(e) : Settled(h[k], e[i])

\* The evidence leads from the new attempt to the stored one and on to the one in
\* memory; during a restoration, to where the restoration has come.
Traced(h) ==
  /\ Trace(h, Evidence)
  /\ stored = h[Len(saved)]
  /\ replay = 0 => attempt = h[Len(Evidence)]
  /\ replay # 0 => unsaved = <<>> /\ attempt = h[replay - 1]

TraceInv == IInv /\ \E h : Traced(h)

\* The trace of the next state, where it goes beyond the trace of this one, goes
\* on to the attempt a.
Grown(h, n, a) == [i \in 0..n |-> IF i =< Len(Evidence) THEN h[i] ELSE a]

LEMMA TraceGrows ==
  ASSUME NEW e \in Seq(Transitions), NEW h, Trace(h, e), NEW t \in Transitions,
         ~Repeats(h[Len(e)], t), Accepts(h[Len(e)], t),
         NEW g, g = [i \in 0..(Len(e) + 1) |-> IF i =< Len(e) THEN h[i] ELSE After(h[Len(e)], t)]
  PROVE  Trace(g, Append(e, t))
<1>. DEFINE n == Len(e)  f == Append(e, t)
<1>1. n \in Nat /\ Len(f) = n + 1 /\ f[n + 1] = t /\ \A i \in 1..n : f[i] = e[i] /\ e[i] \in Transitions
  OBVIOUS
<1>. HIDE DEF n, f
<1>2. /\ DOMAIN g = 0..(n + 1) /\ g[n + 1] = After(h[n], t)
      /\ \A i \in 0..n : g[i] = h[i]
  BY <1>1 DEF n
<1>3. Good(h[n]) /\ Accepts(h[n], t) /\ ~Repeats(h[n], t)
  BY <1>1 DEF Trace, n
<1>4. \A i \in 0..(n + 1) : Good(g[i])
  <2>. SUFFICES ASSUME NEW i \in 0..(n + 1) PROVE Good(g[i])
    OBVIOUS
  <2>1. CASE i \in 0..n
    BY <1>2, <2>1 DEF Trace, n
  <2>2. CASE i = n + 1
    BY <1>2, <1>3, <2>2, TransitionKeepsGood
  <2>. QED BY <1>1, <2>1, <2>2
<1>5. \A i \in 1..(n + 1) : ~Repeats(g[i - 1], f[i]) /\ Accepts(g[i - 1], f[i]) /\ g[i] = After(g[i - 1], f[i])
  <2>. SUFFICES ASSUME NEW i \in 1..(n + 1)
                PROVE  ~Repeats(g[i - 1], f[i]) /\ Accepts(g[i - 1], f[i]) /\ g[i] = After(g[i - 1], f[i])
    OBVIOUS
  <2>1. CASE i \in 1..n
    <3>1. i - 1 \in 0..n /\ i \in 0..n
      BY <1>1, <2>1
    <3>2. g[i - 1] = h[i - 1] /\ g[i] = h[i] /\ f[i] = e[i]
      BY <1>1, <1>2, <2>1, <3>1
    <3>. QED BY <2>1, <3>2 DEF Trace, n
  <2>2. CASE i = n + 1
    <3>1. i - 1 = n /\ n \in 0..n
      BY <1>1, <2>2
    <3>. QED BY <1>1, <1>2, <1>3, <2>2, <3>1
  <2>. QED BY <1>1, <2>1, <2>2
<1>6. \A i \in 1..(n + 1) : \A k \in i..(n + 1) : Settled(g[k], f[i])
  <2>. SUFFICES ASSUME NEW i \in 1..(n + 1), NEW k \in i..(n + 1) PROVE Settled(g[k], f[i])
    OBVIOUS
  <2>1. CASE k \in 0..n
    <3>1. i \in 1..n /\ k \in i..n
      BY <1>1, <2>1
    <3>. QED BY <1>1, <1>2, <2>1, <3>1 DEF Trace, n
  <2>2. CASE k = n + 1 /\ i \in 1..n
    <3>1. n \in i..n
      BY <1>1, <2>2
    <3>2. Settled(h[n], e[i])
      BY <2>2, <3>1 DEF Trace, n
    <3>3. e[i] \in Transitions /\ f[i] = e[i]
      BY <1>1, <2>2
    <3>. QED BY <1>2, <1>3, <2>2, <3>2, <3>3, SettledStays
  <2>3. CASE k = n + 1 /\ i = n + 1
    BY <1>1, <1>2, <1>3, <2>3, SettledAtOnce
  <2>. QED BY <1>1, <2>1, <2>2, <2>3
<1>7. g[0] = NewAttempt
  BY <1>1, <1>2 DEF Trace
<1>. QED BY <1>1, <1>2, <1>4, <1>5, <1>6, <1>7 DEF Trace, f

\* A trace of the evidence is one of its beginnings.
LEMMA TraceOfPrefix ==
  ASSUME NEW e \in Seq(Transitions), NEW f \in Seq(Transitions), NEW h, Trace(h, e),
         Len(f) =< Len(e), \A i \in 1..Len(f) : f[i] = e[i],
         NEW g, g = [i \in 0..Len(f) |-> h[i]]
  PROVE  Trace(g, f)
<1>. DEFINE n == Len(e)  m == Len(f)
<1>1. n \in Nat /\ m \in Nat /\ m =< n
  OBVIOUS
<1>. HIDE DEF n, m
<1>2. DOMAIN g = 0..m /\ \A i \in 0..m : g[i] = h[i] /\ i \in 0..n
  BY <1>1 DEF m
<1>3. \A i \in 1..m : i \in 1..n /\ i - 1 \in 0..m /\ i \in 0..m
  BY <1>1
<1>4. \A i \in 1..m : ~Repeats(g[i - 1], f[i]) /\ Accepts(g[i - 1], f[i]) /\ g[i] = After(g[i - 1], f[i])
  BY <1>2, <1>3 DEF Trace, n, m
<1>5. \A i \in 1..m : \A k \in i..m : Settled(g[k], f[i])
  <2>. SUFFICES ASSUME NEW i \in 1..m, NEW k \in i..m PROVE Settled(g[k], f[i])
    OBVIOUS
  <2>1. k \in 0..m /\ k \in i..n
    BY <1>1
  <2>. QED BY <1>2, <1>3, <2>1 DEF Trace, n, m
<1>6. g[0] = NewAttempt /\ \A i \in 0..m : Good(g[i])
  BY <1>1, <1>2 DEF Trace, n
<1>. QED BY <1>2, <1>4, <1>5, <1>6 DEF Trace, m

LEMMA EvidenceIsSequence ==
  ASSUME IInv
  PROVE  /\ Evidence \in Seq(Transitions) /\ Len(saved) \in Nat /\ Len(unsaved) \in Nat
         /\ Len(Evidence) = Len(saved) + Len(unsaved)
         /\ \A i \in 1..Len(saved) : Evidence[i] = saved[i]
         /\ unsaved = <<>> => Evidence = saved
BY DEF IInv, TypeOK, Evidence

\* The steps that add to the evidence, and the others.
LEMMA OnlyTakes ==
  ASSUME IInv, [Next]_vars
  PROVE  \/ \E t \in Transitions : Take(t)
         \/ Save \/ Crash \/ Replay
         \/ UNCHANGED owner
<1>1. \A i \in DOMAIN reports : reports[i] \in Transitions
  BY Element DEF IInv, TypeOK, Transitions
<1>2. /\ [kind |-> "REQUEST_PROTECTION"] \in Transitions /\ [kind |-> "REQUEST_CANCELLATION"] \in Transitions
      /\ \A c \in Adapters : [kind |-> "REQUEST_ENTRY", capabilities |-> c] \in Transitions
  BY DEF Transitions
<1>3. OwnerNext => (\E t \in Transitions : Take(t)) \/ Save \/ Crash \/ Replay
  BY <1>1, <1>2 DEF OwnerNext, RequestEntry, RequestProtection, RequestCancellation, Deliver
<1>4. BrokerNext => UNCHANGED owner
  <2>1. AcceptEntry \/ RefuseEntry \/ Cover \/ RefuseCover \/ Cancel \/ RefuseCancel => UNCHANGED owner
    BY DEF AcceptEntry, RefuseEntry, Cover, RefuseCover, Cancel, RefuseCancel, Report
  <2>2. \A q \in 1..Quantity : FillEntry(q) => UNCHANGED owner
    BY DEF FillEntry, Report
  <2>3. \A q, t \in 1..Quantity : ExitPosition(q, t) => UNCHANGED owner
    BY DEF ExitPosition, Report
  <2>. QED BY <2>1, <2>2, <2>3 DEF BrokerNext
<1>5. UNCHANGED vars => UNCHANGED owner
  BY DEF vars, owner
<1>. QED BY <1>3, <1>4, <1>5 DEF Next

LEMMA TakeGrows ==
  ASSUME IInv, NEW h, Traced(h), NEW t \in Transitions, Take(t)
  PROVE  \E g : /\ g = Grown(h, Len(Evidence) + 1, After(h[Len(Evidence)], t))
                /\ Traced(g)'
<1>. DEFINE n == Len(Evidence)
<1>1. Evidence \in Seq(Transitions) /\ n \in Nat /\ Len(saved) \in 0..n
  BY EvidenceIsSequence
<1>2. Evidence' = Append(Evidence, t) /\ saved' = saved /\ stored' = stored /\ replay' = 0 /\ replay = 0
  <2>1. saved \in Seq(Transitions) /\ unsaved \in Seq(Transitions)
    BY DEF IInv, TypeOK
  <2>2. saved \o Append(unsaved, t) = Append(saved \o unsaved, t)
    BY <2>1
  <2>. QED BY <2>2 DEF Take, Evidence
<1>3. attempt = h[n] /\ attempt' = After(h[n], t) /\ ~Repeats(h[n], t) /\ Accepts(h[n], t)
  BY <1>2 DEF Traced, Take
<1>g. PICK g : g = Grown(h, n + 1, After(h[n], t))
  OBVIOUS
<1>4. Trace(g, Evidence')
  <2>1. g = [i \in 0..(n + 1) |-> IF i =< n THEN h[i] ELSE After(h[n], t)]
    BY <1>g DEF Grown
  <2>. QED BY <1>1, <1>2, <1>3, <2>1, TraceGrows DEF Traced
<1>5. g[n + 1] = After(h[n], t) /\ \A i \in 0..n : g[i] = h[i]
  BY <1>1, <1>g DEF Grown
<1>6. Len(Evidence') = n + 1
  BY <1>1, <1>2
<1>7. Traced(g)'
  BY <1>1, <1>2, <1>3, <1>4, <1>5, <1>6 DEF Traced
<1>. QED BY <1>g, <1>7

\* Every other step, of the owner or of the broker, keeps the trace or cuts it.
LEMMA RestGrows ==
  ASSUME IInv, IInv', NEW h, Traced(h), Save \/ Crash \/ Replay \/ (UNCHANGED owner)
  PROVE  \E g : /\ g = [i \in 0..Len(Evidence') |-> h[i]]
                /\ Len(Evidence') =< Len(Evidence)
                /\ Traced(g)'
<1>. DEFINE n == Len(Evidence)
<1>1. /\ Evidence \in Seq(Transitions) /\ n \in Nat /\ Len(saved) \in 0..n
      /\ saved \in Seq(Transitions) /\ replay \in 0..Len(saved)
      /\ \A i \in 1..Len(saved) : Evidence[i] = saved[i]
      /\ unsaved = <<>> => Evidence = saved
  BY EvidenceIsSequence DEF IInv, TypeOK
<1>2. Evidence' \in Seq(Transitions) /\ Len(Evidence') \in Nat
  BY DEF IInv, TypeOK, Evidence
<1>3. Len(Evidence') =< n /\ \A i \in 1..Len(Evidence') : Evidence'[i] = Evidence[i]
  <2>1. Save => Evidence' = Evidence
    <3>1. Save => Evidence' = Evidence \o <<>>
      BY DEF Save, Evidence
    <3>. QED BY <1>1, <3>1
  <2>2. Crash => Evidence' = saved
    <3>1. Crash => Evidence' = saved \o <<>>
      BY DEF Crash, Evidence
    <3>. QED BY <1>1, <3>1
  <2>3. Replay \/ (UNCHANGED owner) => Evidence' = Evidence
    BY DEF Replay, owner, Evidence
  <2>. QED BY <1>1, <2>1, <2>2, <2>3
<1>g. PICK g : g = [i \in 0..Len(Evidence') |-> h[i]]
  OBVIOUS
<1>4. Trace(g, Evidence')
  BY <1>1, <1>2, <1>3, <1>g, TraceOfPrefix DEF Traced
<1>5. \A i \in 0..Len(Evidence') : g[i] = h[i]
  BY <1>g
<1>6. ASSUME Save PROVE Traced(g)'
  <2>1. replay = 0 /\ replay' = 0 /\ attempt' = attempt /\ stored' = attempt
    BY <1>6 DEF Save, Traced
  <2>2. Evidence' = Evidence /\ saved' = Evidence
    <3>1. Evidence' = Evidence \o <<>>
      BY <1>6 DEF Save, Evidence
    <3>. QED BY <1>1, <1>6, <3>1 DEF Save
  <2>3. g[n] = h[n]
    BY <1>1, <1>5, <2>2
  <2>. QED BY <1>4, <2>1, <2>2, <2>3 DEF Traced
<1>7. ASSUME Crash PROVE Traced(g)'
  <2>1. Evidence' = saved /\ saved' = saved /\ stored' = stored /\ unsaved' = <<>>
    <3>1. Evidence' = saved \o <<>>
      BY <1>7 DEF Crash, Evidence
    <3>. QED BY <1>1, <1>7, <3>1 DEF Crash
  <2>2. g[Len(saved)] = h[Len(saved)] /\ g[0] = h[0]
    BY <1>1, <1>5, <2>1
  <2>3. /\ attempt' = NewAttempt /\ h[0] = NewAttempt
        /\ saved = <<>> => replay' = 0 /\ Len(saved) = 0
        /\ saved # <<>> => replay' = 1
    BY <1>7 DEF Crash, Traced, Trace
  <2>4. /\ replay' = 0 => attempt' = g[Len(saved)]
        /\ replay' # 0 => attempt' = g[replay' - 1]
    BY <2>2, <2>3
  <2>. QED BY <1>4, <2>1, <2>2, <2>4 DEF Traced
<1>8. ASSUME Replay PROVE Traced(g)'
  <2>1. replay \in 1..Len(saved) /\ unsaved = <<>> /\ attempt = h[replay - 1] /\ Evidence = saved
    BY <1>1, <1>8 DEF Replay, Traced
  <2>2. Evidence' = saved /\ saved' = saved /\ stored' = stored /\ unsaved' = <<>>
    BY <1>8, <2>1 DEF Replay, Evidence
  <2>3. ~Repeats(attempt, saved[replay]) /\ h[replay] = After(attempt, saved[replay])
    BY <2>1 DEF Traced, Trace
  <2>4. attempt' = h[replay]
    BY <1>8, <2>3 DEF Replay
  <2>5. g[replay] = h[replay] /\ g[Len(saved)] = h[Len(saved)]
    BY <1>1, <1>5, <2>1, <2>2
  <2>6. /\ replay' = 0 => attempt' = g[Len(saved)]
        /\ replay' # 0 => attempt' = g[replay' - 1]
    BY <1>8, <2>1, <2>4, <2>5 DEF Replay
  <2>. QED BY <1>4, <2>2, <2>5, <2>6, <1>1 DEF Traced
<1>9. ASSUME UNCHANGED owner PROVE Traced(g)'
  <2>1. Evidence' = Evidence /\ saved' = saved /\ unsaved' = unsaved /\ stored' = stored
        /\ replay' = replay /\ attempt' = attempt
    BY <1>9 DEF owner, Evidence
  <2>2. g[Len(saved)] = h[Len(saved)] /\ g[n] = h[n]
    BY <1>1, <1>5, <2>1
  <2>3. replay # 0 => g[replay - 1] = h[replay - 1]
    BY <1>1, <1>5, <2>1
  <2>. QED BY <1>4, <2>1, <2>2, <2>3 DEF Traced
<1>10. Traced(g)'
  BY <1>6, <1>7, <1>8, <1>9
<1>. QED BY <1>3, <1>10, <1>g

\* What the next state's trace has in common with the trace of this one.
Agree(g, h) == \A i \in DOMAIN g : i \in DOMAIN h => g[i] = h[i]

LEMMA TraceContinues ==
  ASSUME IInv, IInv', NEW h, Traced(h), [Next]_vars
  PROVE  \E g : Traced(g)' /\ Agree(g, h)
<1>0. Len(Evidence) \in Nat /\ DOMAIN h = 0..Len(Evidence)
  BY EvidenceIsSequence DEF Traced, Trace
<1>1. ASSUME NEW t \in Transitions, Take(t)
      PROVE  \E g : Traced(g)' /\ Agree(g, h)
  <2>1. PICK g : /\ g = Grown(h, Len(Evidence) + 1, After(h[Len(Evidence)], t))
                 /\ Traced(g)'
    BY <1>1, TakeGrows
  <2>. QED BY <1>0, <2>1 DEF Grown, Agree
<1>2. CASE Save \/ Crash \/ Replay \/ (UNCHANGED owner)
  <2>1. PICK g : /\ g = [i \in 0..Len(Evidence') |-> h[i]]
                 /\ Traced(g)'
    BY <1>2, RestGrows
  <2>. QED BY <2>1 DEF Agree
<1>. QED BY <1>1, <1>2, OnlyTakes

THEOREM TraceInvariant == Spec => []TraceInv
<1>1. Init => TraceInv
  <2>. SUFFICES ASSUME Init PROVE TraceInv
    OBVIOUS
  <2>1. IInv
    BY NewIsGood DEF Init, IInv, TypeOK, Good
  <2>2. PICK h : h = [i \in 0..0 |-> NewAttempt]
    OBVIOUS
  <2>3. Evidence = <<>> /\ Len(Evidence) = 0 /\ saved = <<>>
    BY DEF Init, Evidence
  <2>4. DOMAIN h = 0..0 /\ h[0] = NewAttempt /\ 1..0 = {} /\ \A i \in 0..0 : i = 0
    BY <2>2
  <2>5. Trace(h, Evidence)
    BY <2>3, <2>4, NewIsGood DEF Trace
  <2>6. Traced(h)
    BY <2>3, <2>4, <2>5 DEF Init, Traced
  <2>. QED BY <2>1, <2>6 DEF TraceInv
<1>2. TraceInv /\ [Next]_vars => TraceInv'
  <2>. SUFFICES ASSUME TraceInv, [Next]_vars PROVE TraceInv'
    OBVIOUS
  <2>1. IInv'
    <3>1. CASE UNCHANGED vars
      BY <3>1 DEF vars, TraceInv, IInv, TypeOK, Good
    <3>. QED BY <3>1, OwnerKeepsGood, BrokerKeepsGood DEF Next, TraceInv
  <2>2. PICK h : Traced(h)
    BY DEF TraceInv
  <2>3. PICK g : Traced(g)'
    BY <2>1, <2>2, TraceContinues DEF TraceInv
  <2>. QED BY <2>1, <2>3 DEF TraceInv
<1>. QED BY <1>1, <1>2, PTL DEF Spec

\* No transition that was saved is refused when it is replayed, and the replay
\* ends with the attempt that was saved (recovery.ts).
THEOREM RestorationAlwaysSucceeds == Spec => []RestorationSucceeds
<1>1. TraceInv => RestorationSucceeds
  <2>. SUFFICES ASSUME IInv, NEW h, Traced(h) PROVE RestorationSucceeds
    BY DEF TraceInv
  <2>1. replay # 0 => Repeats(attempt, saved[replay]) \/ Accepts(attempt, saved[replay])
    <3>. SUFFICES ASSUME replay # 0 PROVE Accepts(attempt, saved[replay])
      OBVIOUS
    <3>1. replay \in 1..Len(saved) /\ Evidence = saved /\ attempt = h[replay - 1]
      BY EvidenceIsSequence DEF Traced, IInv, TypeOK
    <3>. QED BY <3>1 DEF Traced, Trace
  <2>2. replay = 0 /\ unsaved = <<>> => attempt = stored
    BY EvidenceIsSequence DEF Traced
  <2>. QED BY <2>1, <2>2 DEF RestorationSucceeds
<1>. QED BY <1>1, TraceInvariant, PTL

\* A report taken in is recognised or refused when it comes again.
THEOREM RedeliveryIsAlwaysHarmless == Spec => []RedeliveryIsHarmless
<1>1. TraceInv => RedeliveryIsHarmless
  <2>. SUFFICES ASSUME IInv, NEW h, Traced(h), NEW i \in DOMAIN reports,
                       replay = 0, reports[i] \in Range(Evidence),
                       reports[i].kind \notin {"CANCELLATION_ACKNOWLEDGED", "CANCELLATION_REJECTED"}
                PROVE  Repeats(attempt, reports[i]) \/ ~Accepts(attempt, reports[i])
    BY DEF TraceInv, RedeliveryIsHarmless
  <2>1. reports[i] \in Transitions /\ reports[i].kind \notin Requests
    <3>1. reports[i] \in Reports
      BY Element DEF IInv, TypeOK
    <3>. QED BY <3>1 DEF Transitions, Reports, Requests
  <2>2. Len(Evidence) \in Nat /\ DOMAIN Evidence = 1..Len(Evidence)
    BY EvidenceIsSequence
  <2>3. PICK j \in 1..Len(Evidence) : Evidence[j] = reports[i]
    BY <2>2 DEF Range
  <2>4. attempt = h[Len(Evidence)] /\ Settled(h[Len(Evidence)], Evidence[j])
    BY <2>2, <2>3 DEF Traced, Trace
  <2>. QED BY <2>1, <2>3, <2>4, SettledIsHarmless DEF IInv
<1>. QED BY <1>1, TraceInvariant, PTL

-----------------------------------------------------------------------------
(* What the attempt knows and what the broker did.                             *)

Acks == Targets({"PROTECTION_ACKNOWLEDGED"})
Rejections == Targets({"PROTECTION_REJECTED"})

\* m adds up, over sets of ids, the quantities reported under a kind; total is
\* what all of them come to.  The invariant holds such a sum for the fills of
\* the entry and one for the exits, so that what an attempt took in can be
\* compared with what the broker filled without adding either up again.
Adds(m, kind, total, rs) ==
  /\ m \in [SUBSET Nat -> Nat]
  /\ m[{}] = 0 /\ m[Nat] = total
  /\ \A S, T \in SUBSET Nat : S \subseteq T => m[S] =< m[T]
  /\ \A i \in DOMAIN rs : rs[i].kind = kind =>
       \A S \in SUBSET Nat : rs[i].id \notin S => m[S \union {rs[i].id}] = m[S] + rs[i].qty
  /\ \A x \in Nat : (\A i \in DOMAIN rs : rs[i].kind = kind => rs[i].id # x) =>
       \A S \in SUBSET Nat : m[S \union {x}] = m[S]

FillKinds == {"ENTRY_FILL", "EXIT_FILL"}

LEMMA AppendParts ==
  ASSUME NEW S, NEW s \in Seq(S), NEW x \in S
  PROVE  /\ DOMAIN Append(s, x) = DOMAIN s \union {Len(s) + 1} /\ Len(s) + 1 \notin DOMAIN s
         /\ Append(s, x)[Len(s) + 1] = x
         /\ \A i \in DOMAIN s : Append(s, x)[i] = s[i] /\ s[i] \in S
OBVIOUS

LEMMA FillReports ==
  ASSUME NEW r \in Reports
  PROVE  r.kind \in FillKinds => r.id \in Nat /\ r.qty \in 1..Quantity
BY DEF Reports, FillKinds

\* A report of another kind changes no sum.
LEMMA AddsOther ==
  ASSUME NEW rs \in Seq(Reports), NEW r \in Reports, NEW kind, r.kind # kind,
         NEW total \in Nat, NEW m, Adds(m, kind, total, rs)
  PROVE  Adds(m, kind, total, Append(rs, r))
<1>. DEFINE ss == Append(rs, r)
<1>1. /\ DOMAIN ss = DOMAIN rs \union {Len(rs) + 1}
      /\ ss[Len(rs) + 1] = r
      /\ \A i \in DOMAIN rs : ss[i] = rs[i]
  BY AppendParts
<1>. HIDE DEF ss
<1>2. \A i \in DOMAIN ss : ss[i].kind = kind => i \in DOMAIN rs
  BY <1>1
<1>3. ASSUME NEW i \in DOMAIN ss, ss[i].kind = kind, NEW S \in SUBSET Nat, ss[i].id \notin S
      PROVE  m[S \union {ss[i].id}] = m[S] + ss[i].qty
  <2>1. i \in DOMAIN rs /\ ss[i] = rs[i]
    BY <1>1, <1>2, <1>3
  <2>. QED BY <1>3, <2>1 DEF Adds
<1>4. ASSUME NEW x \in Nat, \A i \in DOMAIN ss : ss[i].kind = kind => ss[i].id # x, NEW S \in SUBSET Nat
      PROVE  m[S \union {x}] = m[S]
  <2>1. \A i \in DOMAIN rs : rs[i].kind = kind => rs[i].id # x
    BY <1>1, <1>4
  <2>. QED BY <2>1 DEF Adds
<1>. QED BY <1>3, <1>4 DEF Adds, ss

\* A report with an id of its own adds its quantity to the sets that have the id.
LEMMA AddsMore ==
  ASSUME NEW rs \in Seq(Reports), NEW r \in Reports, r.kind \in FillKinds,
         \A i \in DOMAIN rs : rs[i].kind = r.kind => rs[i].id # r.id,
         NEW total \in Nat, NEW m, Adds(m, r.kind, total, rs)
  PROVE  \E m2 : /\ Adds(m2, r.kind, total + r.qty, Append(rs, r))
                 /\ \A S \in SUBSET Nat : r.id \notin S => m2[S] = m[S]
<1>. DEFINE ss == Append(rs, r)
<1>1. /\ DOMAIN ss = DOMAIN rs \union {Len(rs) + 1}
      /\ ss[Len(rs) + 1] = r
      /\ \A i \in DOMAIN rs : ss[i] = rs[i] /\ rs[i] \in Reports
  BY AppendParts
<1>. HIDE DEF ss
<1>2. r.id \in Nat /\ r.qty \in Nat
  BY FillReports
<1>3. PICK x \in Nat : x = r.id
  BY <1>2
<1>4. PICK q \in Nat : q = r.qty
  BY <1>2
<1>5. PICK m2 : m2 = [S \in SUBSET Nat |-> IF x \in S THEN m[S] + q ELSE m[S]]
  OBVIOUS
<1>6. m \in [SUBSET Nat -> Nat] /\ m[{}] = 0 /\ m[Nat] = total
      /\ \A S, T \in SUBSET Nat : S \subseteq T => m[S] =< m[T]
  BY DEF Adds
<1>7. \A S \in SUBSET Nat : m2[S] = IF x \in S THEN m[S] + q ELSE m[S]
  BY <1>5
<1>8. m2 \in [SUBSET Nat -> Nat]
  <2>1. \A S \in SUBSET Nat : (IF x \in S THEN m[S] + q ELSE m[S]) \in Nat
    BY <1>6
  <2>. QED BY <1>5, <2>1
<1>9. m2[{}] = 0 /\ m2[Nat] = total + q
  <2>1. {} \in SUBSET Nat /\ Nat \in SUBSET Nat /\ x \notin {} /\ x \in Nat
    OBVIOUS
  <2>. QED BY <1>6, <1>7, <2>1
<1>10. \A S, T \in SUBSET Nat : S \subseteq T => m2[S] =< m2[T]
  <2>. SUFFICES ASSUME NEW S \in SUBSET Nat, NEW T \in SUBSET Nat, S \subseteq T
                PROVE  m2[S] =< m2[T]
    OBVIOUS
  <2>1. m[S] \in Nat /\ m[T] \in Nat /\ m[S] =< m[T]
    BY <1>6
  <2>2. x \in S => x \in T
    OBVIOUS
  <2>. QED BY <1>7, <2>1, <2>2
<1>11. ASSUME NEW i \in DOMAIN ss, ss[i].kind = r.kind, NEW S \in SUBSET Nat, ss[i].id \notin S
       PROVE  m2[S \union {ss[i].id}] = m2[S] + ss[i].qty
  <2>1. m[S] \in Nat
    BY <1>6
  <2>2. CASE i \in DOMAIN rs
    <3>1. ss[i] = rs[i] /\ rs[i].id # x /\ rs[i].kind = r.kind
      BY <1>1, <1>3, <1>11, <2>2
    <3>2. PICK y \in Nat, p \in Nat : y = rs[i].id /\ p = rs[i].qty
      BY <1>1, <2>2, <3>1, FillReports
    <3>3. S \union {y} \in SUBSET Nat /\ m[S \union {y}] = m[S] + p
      BY <1>11, <2>2, <3>1, <3>2 DEF Adds
    <3>4. x \in S \union {y} <=> x \in S
      BY <3>1, <3>2
    <3>5. /\ m2[S \union {y}] = IF x \in S \union {y} THEN m[S \union {y}] + q ELSE m[S \union {y}]
          /\ m2[S] = IF x \in S THEN m[S] + q ELSE m[S]
      BY <1>7, <3>3
    <3>6. m2[S \union {y}] = m2[S] + p
      BY <2>1, <3>3, <3>4, <3>5
    <3>. QED BY <3>1, <3>2, <3>6
  <2>3. CASE i = Len(rs) + 1
    <3>1. ss[i].id = x /\ ss[i].qty = q /\ x \notin S
      BY <1>1, <1>3, <1>4, <1>11, <2>3
    <3>2. S \union {x} \in SUBSET Nat /\ m[S \union {x}] = m[S]
      BY <1>3 DEF Adds
    <3>3. m2[S \union {x}] = m2[S] + q
      BY <1>7, <3>1, <3>2
    <3>. QED BY <3>1, <3>3
  <2>. QED BY <1>1, <2>2, <2>3
<1>12. ASSUME NEW y \in Nat, \A i \in DOMAIN ss : ss[i].kind = r.kind => ss[i].id # y, NEW S \in SUBSET Nat
       PROVE  m2[S \union {y}] = m2[S]
  <2>1. y # x /\ \A i \in DOMAIN rs : rs[i].kind = r.kind => rs[i].id # y
    BY <1>1, <1>3, <1>12
  <2>2. S \union {y} \in SUBSET Nat /\ m[S \union {y}] = m[S]
    BY <2>1 DEF Adds
  <2>3. x \in S \union {y} <=> x \in S
    BY <2>1
  <2>. QED BY <1>7, <2>2, <2>3
<1>13. Adds(m2, r.kind, total + q, ss)
  BY <1>8, <1>9, <1>10, <1>11, <1>12 DEF Adds
<1>. QED BY <1>3, <1>4, <1>7, <1>13 DEF ss

Ids(s) == {s[i].id : i \in DOMAIN s}

\* What the owner did not ask for, the broker reported.
Delivered(t) == t.kind \in Requests \/ \E i \in DOMAIN reports : reports[i] = t

\* What an attempt says, the broker did.
Grounded(a, fm, xm) ==
  /\ a.fills \in Seq(Reports) /\ a.filled = fm[Ids(a.fills)]
  /\ a.exits \in Seq(Reports) /\ a.exited = xm[Ids(a.exits)]
  /\ \A i \in DOMAIN a.fills : a.fills[i].kind = "ENTRY_FILL" /\ Delivered(a.fills[i])
  /\ \A i \in DOMAIN a.exits : a.exits[i].kind = "EXIT_FILL" /\ Delivered(a.exits[i])
  /\ a.protected = 0 \/ a.protected \in Acks
  /\ a.entry = "CANCELED" => Reported({"CANCELLATION_ACKNOWLEDGED"}) # {}
  /\ a.entry = "REJECTED" => Reported({"ENTRY_REJECTED"}) # {}
  /\ a.failed => Rejections # {}

LEMMA IdsAreNumbers ==
  ASSUME NEW s \in Seq(Reports), NEW k \in FillKinds, \A i \in DOMAIN s : s[i].kind = k
  PROVE  Ids(s) \in SUBSET Nat
<1>1. ASSUME NEW i \in DOMAIN s PROVE s[i].id \in Nat
  BY Element, FillReports
<1>. QED BY <1>1 DEF Ids

LEMMA IdsOfAppend ==
  ASSUME NEW s \in Seq(Reports), NEW r \in Reports
  PROVE  Ids(Append(s, r)) = Ids(s) \union {r.id}
<1>. DEFINE ss == Append(s, r)
<1>1. /\ DOMAIN ss = DOMAIN s \union {Len(s) + 1}
      /\ ss[Len(s) + 1] = r
      /\ \A i \in DOMAIN s : ss[i] = s[i]
  BY AppendParts
<1>. HIDE DEF ss
<1>2. Ids(ss) \subseteq Ids(s) \union {r.id}
  BY <1>1 DEF Ids
<1>3. Ids(s) \union {r.id} \subseteq Ids(ss)
  BY <1>1 DEF Ids
<1>. QED BY <1>2, <1>3 DEF ss

\* A transition the owner took leaves a grounded attempt grounded.
LEMMA GroundedByTake ==
  ASSUME IInv, NEW a, Good(a), NEW t \in Transitions, Accepts(a, t), Delivered(t),
         NEW fm, NEW xm, NEW filled \in Nat, NEW exited \in Nat,
         Adds(fm, "ENTRY_FILL", filled, reports), Adds(xm, "EXIT_FILL", exited, reports),
         Grounded(a, fm, xm)
  PROVE  Grounded(After(a, t), fm, xm)
<1>. DEFINE b == After(a, t)
<1>1. a \in Attempts /\ b \in Attempts
  BY TransitionKeepsGood DEF Good
<1>2. t.kind \notin Requests => \E i \in DOMAIN reports : reports[i] = t /\ t \in Reports
  <2>1. \A i \in DOMAIN reports : reports[i] \in Reports
    BY Element DEF IInv, TypeOK
  <2>. QED BY <2>1 DEF Delivered
<1>3. /\ b.fills \in Seq(Reports) /\ b.filled = fm[Ids(b.fills)]
      /\ \A i \in DOMAIN b.fills : b.fills[i].kind = "ENTRY_FILL" /\ Delivered(b.fills[i])
  <2>1. CASE t.kind # "ENTRY_FILL"
    <3>1. b.fills = a.fills /\ b.filled = a.filled
      BY <1>1, <2>1, Fields
    <3>. QED BY <3>1 DEF Grounded
  <2>2. CASE t.kind = "ENTRY_FILL"
    <3>1. b.fills = Append(a.fills, t) /\ b.filled = a.filled + t.qty
      BY <1>1, <2>2, Fields
    <3>2. PICK i \in DOMAIN reports : reports[i] = t /\ t \in Reports
      BY <1>2, <2>2 DEF Requests
    <3>3. Ids(a.fills) \in SUBSET Nat
      BY IdsAreNumbers DEF Grounded, FillKinds
    <3>4. t.id \notin Ids(a.fills)
      BY <2>2 DEF Accepts, CanFill, Ids
    <3>5. Ids(b.fills) = Ids(a.fills) \union {t.id}
      BY <3>1, <3>2, IdsOfAppend DEF Grounded
    <3>6. fm[Ids(a.fills) \union {reports[i].id}] = fm[Ids(a.fills)] + reports[i].qty
      BY <2>2, <3>2, <3>3, <3>4 DEF Adds
    <3>7. b.fills \in Seq(Reports)
      BY <3>1, <3>2 DEF Grounded
    <3>8. \A j \in DOMAIN b.fills : b.fills[j].kind = "ENTRY_FILL" /\ Delivered(b.fills[j])
      BY <2>2, <3>1, <3>2, AppendParts DEF Grounded
    <3>. QED BY <3>1, <3>2, <3>5, <3>6, <3>7, <3>8 DEF Grounded
  <2>. QED BY <2>1, <2>2
<1>4. /\ b.exits \in Seq(Reports) /\ b.exited = xm[Ids(b.exits)]
      /\ \A i \in DOMAIN b.exits : b.exits[i].kind = "EXIT_FILL" /\ Delivered(b.exits[i])
  <2>1. CASE t.kind # "EXIT_FILL"
    <3>1. b.exits = a.exits /\ b.exited = a.exited
      BY <1>1, <2>1, Fields
    <3>. QED BY <3>1 DEF Grounded
  <2>2. CASE t.kind = "EXIT_FILL"
    <3>1. b.exits = Append(a.exits, t) /\ b.exited = a.exited + t.qty
      BY <1>1, <2>2, Fields
    <3>2. PICK i \in DOMAIN reports : reports[i] = t /\ t \in Reports
      BY <1>2, <2>2 DEF Requests
    <3>3. Ids(a.exits) \in SUBSET Nat
      BY IdsAreNumbers DEF Grounded, FillKinds
    <3>4. t.id \notin Ids(a.exits)
      BY <2>2 DEF Accepts, CanExit, Ids
    <3>5. Ids(b.exits) = Ids(a.exits) \union {t.id}
      BY <3>1, <3>2, IdsOfAppend DEF Grounded
    <3>6. xm[Ids(a.exits) \union {reports[i].id}] = xm[Ids(a.exits)] + reports[i].qty
      BY <2>2, <3>2, <3>3, <3>4 DEF Adds
    <3>7. b.exits \in Seq(Reports)
      BY <3>1, <3>2 DEF Grounded
    <3>8. \A j \in DOMAIN b.exits : b.exits[j].kind = "EXIT_FILL" /\ Delivered(b.exits[j])
      BY <2>2, <3>1, <3>2, AppendParts DEF Grounded
    <3>. QED BY <3>1, <3>2, <3>5, <3>6, <3>7, <3>8 DEF Grounded
  <2>. QED BY <2>1, <2>2
<1>5. b.protected = 0 \/ b.protected \in Acks
  <2>1. b.protected = IF t.kind = "PROTECTION_ACKNOWLEDGED" THEN t.target ELSE a.protected
    BY <1>1, Fields
  <2>2. t.kind = "PROTECTION_ACKNOWLEDGED" => t.target \in Acks
    BY <1>2 DEF Requests, Acks, Targets, Reported
  <2>. QED BY <2>1, <2>2 DEF Grounded
<1>6. b.entry = "CANCELED" => Reported({"CANCELLATION_ACKNOWLEDGED"}) # {}
  <2>1. b.entry = "CANCELED" => a.entry = "CANCELED" \/ t.kind = "CANCELLATION_ACKNOWLEDGED"
    BY <1>1, Fields
  <2>2. t.kind = "CANCELLATION_ACKNOWLEDGED" => Reported({"CANCELLATION_ACKNOWLEDGED"}) # {}
    BY <1>2 DEF Requests, Reported
  <2>. QED BY <2>1, <2>2 DEF Grounded
<1>7. b.entry = "REJECTED" => Reported({"ENTRY_REJECTED"}) # {}
  <2>1. b.entry = "REJECTED" => a.entry = "REJECTED" \/ t.kind = "ENTRY_REJECTED"
    BY <1>1, Fields
  <2>2. t.kind = "ENTRY_REJECTED" => Reported({"ENTRY_REJECTED"}) # {}
    BY <1>2 DEF Requests, Reported
  <2>. QED BY <2>1, <2>2 DEF Grounded
<1>8. b.failed => Rejections # {}
  <2>1. t.kind # "PROTECTION_REJECTED" => b.failed = a.failed
    BY <1>1, Fields
  <2>2. t.kind = "PROTECTION_REJECTED" => t.target \in Rejections
    BY <1>2 DEF Requests, Rejections, Targets, Reported
  <2>. QED BY <2>1, <2>2 DEF Grounded
<1>. QED BY <1>3, <1>4, <1>5, <1>6, <1>7, <1>8 DEF Grounded

LEMMA NewIsGrounded ==
  ASSUME NEW fm, NEW xm, fm[{}] = 0, xm[{}] = 0
  PROVE  Grounded(NewAttempt, fm, xm)
<1>1. Ids(<<>>) = {} /\ <<>> \in Seq(Reports) /\ DOMAIN <<>> = {}
  BY DEF Ids
<1>. QED BY <1>1 DEF Grounded, NewAttempt

-----------------------------------------------------------------------------
(* The broker's steps.                                                         *)

\* What a step of the broker that reports r does, whichever it is.
Does(r) ==
  /\ reports' = Append(reports, r) /\ UNCHANGED <<owner, inOrder>>
  /\ broker' \in [entry : {"NONE", "WORKING", "FILLED", "CANCELED", "REJECTED"},
                  filled : Nat, covered : Int, exited : Nat]
  /\ broker'.filled = IF r.kind = "ENTRY_FILL" THEN broker.filled + r.qty ELSE broker.filled
  /\ broker'.exited = IF r.kind = "EXIT_FILL" THEN broker.exited + r.qty ELSE broker.exited
  /\ broker'.covered = IF r.kind = "PROTECTION_ACKNOWLEDGED"
                       THEN broker.covered + Increment(stored) ELSE broker.covered
  /\ broker'.entry = IF r.kind = "ENTRY_ACKNOWLEDGED" THEN "WORKING"
                     ELSE IF r.kind = "ENTRY_REJECTED" THEN "REJECTED"
                     ELSE IF r.kind = "ENTRY_FILL"
                     THEN IF broker.filled + r.qty = Quantity THEN "FILLED" ELSE "WORKING"
                     ELSE IF r.kind = "CANCELLATION_ACKNOWLEDGED"
                     THEN IF broker.entry = "WORKING" THEN "CANCELED" ELSE broker.entry
                     ELSE broker.entry
  /\ r.at = Now
  /\ r.kind \in {"ENTRY_ACKNOWLEDGED", "ENTRY_REJECTED"} =>
       broker.entry = "NONE" /\ stored.entry = "SUBMISSION_PENDING"
  /\ r.kind = "ENTRY_FILL" =>
       /\ broker.entry = "WORKING" /\ broker.filled + r.qty =< Quantity
       /\ r.id = Cardinality(Reported({"ENTRY_FILL"})) + 1
  /\ r.kind = "EXIT_FILL" =>
       /\ r.target \in Acks /\ broker.exited + r.qty =< r.target
       /\ r.id = Quantity + Cardinality(Reported({"EXIT_FILL"})) + 1
  /\ r.kind \in Answered => Coverable /\ r.target = stored.protecting
  /\ r.kind \in {"CANCELLATION_ACKNOWLEDGED", "CANCELLATION_REJECTED"} => Cancelable

LEMMA BrokerSteps ==
  ASSUME IInv, BrokerNext
  PROVE  \E r \in Reports : Does(r)
<1>. USE DEF Does, Report, Answered
<1>0. /\ broker \in [entry : {"NONE", "WORKING", "FILLED", "CANCELED", "REJECTED"},
                     filled : Nat, covered : Int, exited : Nat]
      /\ Now \in Nat /\ stored.protecting \in Nat /\ stored.protected \in Nat
  BY NowIsNat DEF IInv, TypeOK, Attempts
<1>n. PICK n \in Nat : n = Now
  BY <1>0
<1>1. CASE AcceptEntry
  <2>1. PICK r \in Reports : r = [kind |-> "ENTRY_ACKNOWLEDGED", order |-> Order, at |-> n]
    BY DEF Reports
  <2>2. reports' = Append(reports, r) /\ UNCHANGED <<owner, inOrder>>
    BY <1>1, <1>n, <2>1 DEF AcceptEntry
  <2>3. Does(r)
    BY <1>0, <1>1, <1>n, <2>1, <2>2 DEF AcceptEntry
  <2>. QED BY <2>3
<1>2. CASE RefuseEntry
  <2>1. PICK r \in Reports : r = [kind |-> "ENTRY_REJECTED", at |-> n]
    BY DEF Reports
  <2>2. reports' = Append(reports, r) /\ UNCHANGED <<owner, inOrder>>
    BY <1>2, <1>n, <2>1 DEF RefuseEntry
  <2>3. Does(r)
    BY <1>0, <1>2, <1>n, <2>1, <2>2 DEF RefuseEntry
  <2>. QED BY <2>3
<1>3. CASE Cover
  <2>1. PICK r \in Reports : r = [kind |-> "PROTECTION_ACKNOWLEDGED", target |-> stored.protecting, at |-> n]
    BY <1>0 DEF Reports
  <2>2. reports' = Append(reports, r) /\ UNCHANGED <<owner, inOrder>>
    BY <1>3, <1>n, <2>1 DEF Cover
  <2>3. PICK v \in Int : v = broker.covered + Increment(stored)
    BY <1>0 DEF Increment
  <2>4. broker' = [broker EXCEPT !.covered = v] /\ Coverable
    BY <1>3, <2>3 DEF Cover
  <2>5. Does(r)
    BY <1>0, <1>n, <2>1, <2>2, <2>3, <2>4
  <2>. QED BY <2>5
<1>4. CASE RefuseCover
  <2>1. PICK r \in Reports : r = [kind |-> "PROTECTION_REJECTED", target |-> stored.protecting, at |-> n]
    BY <1>0 DEF Reports
  <2>2. reports' = Append(reports, r) /\ UNCHANGED <<owner, inOrder>>
    BY <1>4, <1>n, <2>1 DEF RefuseCover
  <2>3. Does(r)
    BY <1>0, <1>4, <1>n, <2>1, <2>2 DEF RefuseCover
  <2>. QED BY <2>3
<1>5. CASE Cancel
  <2>1. PICK r \in Reports : r = [kind |-> "CANCELLATION_ACKNOWLEDGED", order |-> Order, at |-> n]
    BY DEF Reports
  <2>2. reports' = Append(reports, r) /\ UNCHANGED <<owner, inOrder>>
    BY <1>5, <1>n, <2>1 DEF Cancel
  <2>3. Does(r)
    BY <1>0, <1>5, <1>n, <2>1, <2>2 DEF Cancel
  <2>. QED BY <2>3
<1>6. CASE RefuseCancel
  <2>1. PICK r \in Reports : r = [kind |-> "CANCELLATION_REJECTED", order |-> Order, at |-> n]
    BY DEF Reports
  <2>2. reports' = Append(reports, r) /\ UNCHANGED <<owner, inOrder>>
    BY <1>6, <1>n, <2>1 DEF RefuseCancel
  <2>3. Does(r)
    BY <1>0, <1>6, <1>n, <2>1, <2>2 DEF RefuseCancel
  <2>. QED BY <2>3
<1>7. ASSUME NEW q \in 1..Quantity, FillEntry(q)
      PROVE  \E r \in Reports : Does(r)
  <2>1. PICK c \in Nat : c = Cardinality(Reported({"ENTRY_FILL"})) + 1
    BY ReportedCount
  <2>2. PICK r \in Reports : r = [kind |-> "ENTRY_FILL", id |-> c, order |-> Order, qty |-> q, at |-> n]
    BY DEF Reports
  <2>3. reports' = Append(reports, r) /\ UNCHANGED <<owner, inOrder>>
    BY <1>7, <1>n, <2>1, <2>2 DEF FillEntry
  <2>4. /\ broker.entry = "WORKING" /\ broker.filled + q =< Quantity
        /\ broker' = [broker EXCEPT !.filled = broker.filled + q,
                        !.entry = IF broker.filled + q = Quantity THEN "FILLED" ELSE "WORKING"]
    BY <1>7 DEF FillEntry
  <2>5. PICK e \in {"FILLED", "WORKING"} : e = IF broker.filled + q = Quantity THEN "FILLED" ELSE "WORKING"
    OBVIOUS
  <2>6. broker.filled + q \in Nat /\ broker' = [broker EXCEPT !.filled = broker.filled + q, !.entry = e]
    BY <1>0, <2>4, <2>5
  <2>7. Does(r)
    BY <1>0, <1>n, <2>1, <2>2, <2>3, <2>4, <2>5, <2>6
  <2>. QED BY <2>7
<1>8. ASSUME NEW q \in 1..Quantity, NEW t \in 1..Quantity, ExitPosition(q, t)
      PROVE  \E r \in Reports : Does(r)
  <2>0. Cardinality(Reported({"EXIT_FILL"})) \in Nat
    BY ReportedCount
  <2>1. PICK c \in Nat : c = Quantity + (Cardinality(Reported({"EXIT_FILL"})) + 1)
    BY <2>0
  <2>t. t \in Nat
    OBVIOUS
  <2>2. PICK r \in Reports : r = [kind |-> "EXIT_FILL", id |-> c, target |-> t, qty |-> q, at |-> n]
    BY <2>t DEF Reports
  <2>3. reports' = Append(reports, r) /\ UNCHANGED <<owner, inOrder>>
    BY <1>8, <1>n, <2>1, <2>2 DEF ExitPosition
  <2>4. /\ t \in Acks /\ broker.exited + q =< t
        /\ broker' = [broker EXCEPT !.exited = broker.exited + q]
    BY <1>8 DEF ExitPosition, Acks
  <2>5. broker.exited + q \in Nat /\ c = Quantity + Cardinality(Reported({"EXIT_FILL"})) + 1
    BY <1>0, <2>0, <2>1
  <2>6. Does(r)
    BY <1>0, <1>n, <2>2, <2>3, <2>4, <2>5
  <2>. QED BY <2>6
<1>. QED BY <1>1, <1>2, <1>3, <1>4, <1>5, <1>6, <1>7, <1>8 DEF BrokerNext

\* The reports, the acknowledged and the refused protections after a step.
LEMMA ReportsGrow ==
  ASSUME IInv, NEW r \in Reports, Does(r), NEW kinds
  PROVE  /\ DOMAIN reports' = DOMAIN reports \union {Len(reports) + 1}
         /\ Len(reports) + 1 \notin DOMAIN reports
         /\ reports'[Len(reports) + 1] = r
         /\ \A i \in DOMAIN reports : reports'[i] = reports[i]
         /\ Reported(kinds)' = IF r.kind \in kinds THEN Reported(kinds) \union {Len(reports) + 1}
                               ELSE Reported(kinds)
         /\ Targets(kinds)' = IF r.kind \in kinds THEN Targets(kinds) \union {r.target}
                              ELSE Targets(kinds)
<1>1. /\ DOMAIN reports' = DOMAIN reports \union {Len(reports) + 1}
      /\ Len(reports) + 1 \notin DOMAIN reports
      /\ reports'[Len(reports) + 1] = r
      /\ \A i \in DOMAIN reports : reports'[i] = reports[i]
  BY AppendParts DEF Does, IInv, TypeOK
<1>2. Reported(kinds)' = IF r.kind \in kinds THEN Reported(kinds) \union {Len(reports) + 1}
                         ELSE Reported(kinds)
  BY <1>1 DEF Reported
<1>3. \A i \in Reported(kinds) : i \in DOMAIN reports
  BY DEF Reported
<1>4. Targets(kinds)' = IF r.kind \in kinds THEN Targets(kinds) \union {r.target}
                        ELSE Targets(kinds)
  BY <1>1, <1>2, <1>3 DEF Targets
<1>. QED BY <1>1, <1>2, <1>4

\* The broker is of one mind with its reports: what it covers is what it last
\* acknowledged, it answers a protection once, and it numbers the fills.
BrokerInv ==
  /\ broker.filled =< Quantity /\ (broker.filled = Quantity => broker.entry = "FILLED")
  /\ Reported({"ENTRY_REJECTED"}) # {} => broker.entry = "REJECTED"
  /\ Acks \intersect Rejections = {} /\ 0 \notin Acks /\ 0 \notin Rejections
  /\ \A t \in Acks : t \in Nat /\ t =< broker.covered
  /\ broker.covered = 0 \/ broker.covered \in Acks
  /\ broker.covered =< broker.filled /\ broker.exited =< broker.covered
  /\ \A i \in DOMAIN reports :
       /\ reports[i].kind = "ENTRY_FILL" => reports[i].id =< Cardinality(Reported({"ENTRY_FILL"}))
       /\ reports[i].kind = "EXIT_FILL" => reports[i].id =< Quantity + Cardinality(Reported({"EXIT_FILL"}))

\* The broker covers what the attempt knows to be protected or, when its answer
\* is still on the way, what the attempt waits for.
Agreed(a) ==
  \/ broker.covered = a.protected
  \/ broker.covered \in Acks /\ broker.covered = a.protecting

\* A protection asked for is waited for until it is answered.
Persists(a, b) ==
  a.protecting # 0 /\ a.protecting \notin Acks \union Rejections => b.protecting = a.protecting

Facts(h, fm, xm) ==
  /\ Traced(h)
  /\ Adds(fm, "ENTRY_FILL", broker.filled, reports)
  /\ Adds(xm, "EXIT_FILL", broker.exited, reports)
  /\ \A i \in 1..Len(Evidence) : Delivered(Evidence[i])
  /\ \A k \in 0..Len(Evidence) : Grounded(h[k], fm, xm)
  /\ \A k \in Len(saved)..Len(Evidence) : Agreed(h[k])
  /\ \A j \in Len(saved)..Len(Evidence) : \A k \in j..Len(Evidence) : Persists(h[j], h[k])

FactsInv == IInv /\ BrokerInv /\ \E h, fm, xm : Facts(h, fm, xm)

LEMMA ReportedMore ==
  ASSUME IInv, NEW r \in Reports, Does(r), NEW kinds
  PROVE  Cardinality(Reported(kinds)') =
           IF r.kind \in kinds THEN Cardinality(Reported(kinds)) + 1 ELSE Cardinality(Reported(kinds))
<1>1. DOMAIN reports = 1..Len(reports) /\ Len(reports) \in Nat
  BY DEF IInv, TypeOK
<1>2. IsFiniteSet(1..Len(reports))
  BY <1>1, FS_Interval
<1>3. IsFiniteSet(Reported(kinds)) /\ Len(reports) + 1 \notin Reported(kinds)
  BY <1>1, <1>2, FS_Subset DEF Reported
<1>4. Cardinality(Reported(kinds) \union {Len(reports) + 1}) = Cardinality(Reported(kinds)) + 1
  BY <1>3, FS_AddElement
<1>. QED BY <1>4, ReportsGrow

\* The ids of the fills stay below the number of fills.
LEMMA NumbersStay ==
  ASSUME IInv, BrokerInv, NEW r \in Reports, Does(r)
  PROVE  \A i \in DOMAIN reports' :
           /\ reports'[i].kind = "ENTRY_FILL" => reports'[i].id =< Cardinality(Reported({"ENTRY_FILL"})')
           /\ reports'[i].kind = "EXIT_FILL" => reports'[i].id =< Quantity + Cardinality(Reported({"EXIT_FILL"})')
<1>1. Cardinality(Reported({"ENTRY_FILL"})) \in Nat /\ Cardinality(Reported({"EXIT_FILL"})) \in Nat
  BY ReportedCount
<1>2. /\ Cardinality(Reported({"ENTRY_FILL"})') =
           IF r.kind = "ENTRY_FILL" THEN Cardinality(Reported({"ENTRY_FILL"})) + 1 ELSE Cardinality(Reported({"ENTRY_FILL"}))
      /\ Cardinality(Reported({"EXIT_FILL"})') =
           IF r.kind = "EXIT_FILL" THEN Cardinality(Reported({"EXIT_FILL"})) + 1 ELSE Cardinality(Reported({"EXIT_FILL"}))
  BY ReportedMore
<1>3. PICK c \in Nat, d \in Nat : c = Cardinality(Reported({"ENTRY_FILL"})) /\ d = Cardinality(Reported({"EXIT_FILL"}))
  BY <1>1
<1>4. PICK c2 \in Nat, d2 \in Nat : c2 = Cardinality(Reported({"ENTRY_FILL"})') /\ d2 = Cardinality(Reported({"EXIT_FILL"})')
  BY <1>1, <1>2
<1>5. \A i \in DOMAIN reports : reports[i].kind \in FillKinds => reports[i].id \in Nat
  BY Element, FillReports DEF IInv, TypeOK
<1>6. ASSUME NEW i \in DOMAIN reports
      PROVE  /\ reports'[i].kind = "ENTRY_FILL" => reports'[i].id =< c2
             /\ reports'[i].kind = "EXIT_FILL" => reports'[i].id =< Quantity + d2
  <2>1. reports'[i] = reports[i]
    BY ReportsGrow
  <2>2. c =< c2 /\ d =< d2
    BY <1>2, <1>3, <1>4
  <2>3. /\ reports[i].kind = "ENTRY_FILL" => reports[i].id =< c
        /\ reports[i].kind = "EXIT_FILL" => reports[i].id =< Quantity + d
    BY <1>3 DEF BrokerInv
  <2>. QED BY <1>5, <2>1, <2>2, <2>3 DEF FillKinds
<1>7. /\ r.kind = "ENTRY_FILL" => r.id =< c2
      /\ r.kind = "EXIT_FILL" => r.id =< Quantity + d2
  BY <1>2, <1>3, <1>4 DEF Does
<1>8. DOMAIN reports' = DOMAIN reports \union {Len(reports) + 1} /\ reports'[Len(reports) + 1] = r
  BY ReportsGrow
<1>. QED BY <1>4, <1>6, <1>7, <1>8

LEMMA Unanswered ==
  ASSUME Coverable
  PROVE  stored.protecting # 0 /\ stored.protecting \notin Acks /\ stored.protecting \notin Rejections
BY DEF Coverable, Targets, Reported, Acks, Rejections

LEMMA TargetsGrow ==
  ASSUME IInv, NEW r \in Reports, Does(r)
  PROVE  /\ Acks' = IF r.kind = "PROTECTION_ACKNOWLEDGED" THEN Acks \union {r.target} ELSE Acks
         /\ Rejections' = IF r.kind = "PROTECTION_REJECTED" THEN Rejections \union {r.target} ELSE Rejections
BY ReportsGrow DEF Acks, Rejections

\* The broker covers a protection on top of exactly what the owner had protected.
LEMMA CoversExactly ==
  ASSUME IInv, BrokerInv, Agreed(stored), NEW r \in Reports, Does(r),
         r.kind = "PROTECTION_ACKNOWLEDGED"
  PROVE  /\ broker'.covered = stored.protecting /\ broker.covered < stored.protecting
         /\ stored.protecting =< stored.filled /\ stored.protecting \notin Acks
<1>1. Coverable
  BY DEF Does, Answered
<1>2. stored.protecting # 0 /\ stored.protecting \notin Acks
  BY <1>1, Unanswered
<1>3. stored.protecting \in Nat /\ stored.protected \in Nat /\ stored.filled \in Nat /\ broker.covered \in Int
  BY DEF IInv, TypeOK, Attempts
<1>4. stored.protected < stored.protecting /\ stored.protecting =< stored.filled
  BY <1>2 DEF IInv, Good, Nest
<1>5. broker.covered = stored.protected
  BY <1>2 DEF Agreed
<1>6. broker'.covered = broker.covered + (stored.protecting - stored.protected)
  BY DEF Does, Increment
<1>. QED BY <1>2, <1>3, <1>4, <1>5, <1>6

LEMMA BrokerStaysTrue ==
  ASSUME IInv, BrokerInv, Agreed(stored), stored.filled =< broker.filled,
         NEW r \in Reports, Does(r)
  PROVE  BrokerInv'
<1>1. /\ broker.filled \in Nat /\ broker.exited \in Nat /\ broker.covered \in Int
      /\ stored.protecting \in Nat /\ stored.filled \in Nat
  BY DEF IInv, TypeOK, Attempts
<1>2. r.kind \in FillKinds => r.id \in Nat /\ r.qty \in 1..Quantity
  BY FillReports
<1>3. broker'.filled =< Quantity /\ (broker'.filled = Quantity => broker'.entry = "FILLED")
  BY <1>1, <1>2 DEF Does, BrokerInv, FillKinds
<1>4. Reported({"ENTRY_REJECTED"})' # {} => broker'.entry = "REJECTED"
  <2>1. r.kind # "ENTRY_REJECTED" => Reported({"ENTRY_REJECTED"})' = Reported({"ENTRY_REJECTED"})
    BY ReportsGrow
  <2>2. Reported({"ENTRY_REJECTED"}) # {} => broker.entry = "REJECTED"
    BY DEF BrokerInv
  <2>. QED BY <2>1, <2>2 DEF Does
<1>5. r.kind \in Answered =>
        /\ r.target = stored.protecting /\ stored.protecting # 0
        /\ stored.protecting \notin Acks /\ stored.protecting \notin Rejections
  BY Unanswered DEF Does
<1>6. Acks' \intersect Rejections' = {} /\ 0 \notin Acks' /\ 0 \notin Rejections'
  BY <1>5, TargetsGrow DEF BrokerInv, Answered
<1>7. CASE r.kind = "PROTECTION_ACKNOWLEDGED"
  <2>1. /\ broker'.covered = stored.protecting /\ broker.covered < stored.protecting
        /\ stored.protecting =< stored.filled
    BY <1>7, CoversExactly
  <2>2. Acks' = Acks \union {stored.protecting}
    BY <1>5, <1>7, TargetsGrow DEF Answered
  <2>3. broker'.filled = broker.filled /\ broker'.exited = broker.exited
    BY <1>7 DEF Does
  <2>4. \A t \in Acks' : t \in Nat /\ t =< broker'.covered
    BY <1>1, <2>1, <2>2 DEF BrokerInv
  <2>5. broker'.covered \in Acks'
    BY <2>1, <2>2
  <2>6. broker'.covered =< broker'.filled /\ broker'.exited =< broker'.covered
    BY <1>1, <2>1, <2>3 DEF BrokerInv
  <2>. QED BY <2>4, <2>5, <2>6, <1>3, <1>4, <1>6, NumbersStay DEF BrokerInv
<1>8. CASE r.kind # "PROTECTION_ACKNOWLEDGED"
  <2>1. Acks' = Acks /\ broker'.covered = broker.covered
    BY <1>8, TargetsGrow DEF Does
  <2>2. broker'.filled >= broker.filled
    BY <1>1, <1>2 DEF Does, FillKinds
  <2>3. broker'.exited =< broker'.covered
    <3>1. CASE r.kind = "EXIT_FILL"
      <4>1. r.target \in Nat /\ r.target =< broker.covered /\ broker'.exited = broker.exited + r.qty
            /\ broker.exited + r.qty =< r.target /\ r.qty \in Nat
        BY <1>2, <3>1 DEF Does, BrokerInv, FillKinds
      <4>. QED BY <1>1, <2>1, <4>1
    <3>2. CASE r.kind # "EXIT_FILL"
      BY <2>1, <3>2 DEF Does, BrokerInv
    <3>. QED BY <3>1, <3>2
  <2>4. broker'.covered =< broker'.filled
    BY <1>1, <2>1, <2>2 DEF BrokerInv, Does
  <2>. QED BY <2>1, <2>3, <2>4, <1>3, <1>4, <1>6, NumbersStay DEF BrokerInv
<1>. QED BY <1>7, <1>8

\* A report leaves a grounded attempt grounded.
LEMMA GroundedByReport ==
  ASSUME IInv, NEW r \in Reports, Does(r), NEW a, NEW fm, NEW xm, Grounded(a, fm, xm),
         NEW fm2, NEW xm2, fm2[Ids(a.fills)] = fm[Ids(a.fills)], xm2[Ids(a.exits)] = xm[Ids(a.exits)]
  PROVE  Grounded(a, fm2, xm2)'
<1>1. \A t : Delivered(t) => t.kind \in Requests \/ \E i \in DOMAIN reports' : reports'[i] = t
  BY ReportsGrow DEF Delivered
<1>2. /\ \A i \in DOMAIN a.fills : a.fills[i].kind = "ENTRY_FILL" /\ Delivered(a.fills[i])'
      /\ \A i \in DOMAIN a.exits : a.exits[i].kind = "EXIT_FILL" /\ Delivered(a.exits[i])'
  BY <1>1 DEF Delivered, Grounded
<1>3. a.protected = 0 \/ a.protected \in Acks'
  BY TargetsGrow DEF Grounded
<1>4. a.failed => Rejections' # {}
  BY TargetsGrow DEF Grounded
<1>5. a.entry = "CANCELED" => Reported({"CANCELLATION_ACKNOWLEDGED"})' # {}
  BY ReportsGrow DEF Grounded
<1>6. a.entry = "REJECTED" => Reported({"ENTRY_REJECTED"})' # {}
  BY ReportsGrow DEF Grounded
<1>. QED BY <1>2, <1>3, <1>4, <1>5, <1>6 DEF Grounded

\* The id of a fill that is reported is new.
LEMMA FreshFill ==
  ASSUME IInv, BrokerInv, NEW r \in Reports, Does(r), r.kind \in FillKinds
  PROVE  \A i \in DOMAIN reports : reports[i].kind = r.kind => reports[i].id # r.id
<1>1. Cardinality(Reported({"ENTRY_FILL"})) \in Nat /\ Cardinality(Reported({"EXIT_FILL"})) \in Nat
  BY ReportedCount
<1>2. \A i \in DOMAIN reports : reports[i].kind \in FillKinds => reports[i].id \in Nat
  BY Element, FillReports DEF IInv, TypeOK
<1>. QED BY <1>1, <1>2 DEF BrokerInv, Does, FillKinds

\* The sum of a kind goes on, and says the same of the fills there were.
LEMMA SumsContinue ==
  ASSUME IInv, BrokerInv, NEW r \in Reports, Does(r), NEW kind \in FillKinds,
         NEW total \in Nat, NEW m, Adds(m, kind, total, reports)
  PROVE  \E m2 : /\ Adds(m2, kind, IF r.kind = kind THEN total + r.qty ELSE total, Append(reports, r))
                 /\ \A S \in SUBSET Nat : (r.kind = kind => r.id \notin S) => m2[S] = m[S]
<1>0. reports \in Seq(Reports)
  BY DEF IInv, TypeOK
<1>1. CASE r.kind = kind
  BY <1>0, <1>1, AddsMore, FreshFill
<1>2. CASE r.kind # kind
  BY <1>0, <1>2, AddsOther
<1>. QED BY <1>1, <1>2

\* A fill that was delivered does not have the id of the one reported now.
LEMMA DeliveredIds ==
  ASSUME IInv, BrokerInv, NEW r \in Reports, Does(r), NEW kind \in FillKinds, r.kind = kind,
         NEW s, \A i \in DOMAIN s : s[i].kind = kind /\ Delivered(s[i])
  PROVE  r.id \notin Ids(s)
<1>1. \A i \in DOMAIN reports : reports[i].kind = r.kind => reports[i].id # r.id
  BY FreshFill
<1>2. kind \notin Requests
  BY DEF FillKinds, Requests
<1>. QED BY <1>1, <1>2 DEF Delivered, Ids

\* What the owner takes in keeps it agreed with the broker.
LEMMA AgreedByTake ==
  ASSUME IInv, BrokerInv, NEW a, Good(a), NEW t \in Transitions, Accepts(a, t), Delivered(t), Agreed(a)
  PROVE  Agreed(After(a, t))
<1>. DEFINE b == After(a, t)
<1>1. a \in Attempts /\ a.protected \in Nat /\ a.protecting \in Nat
      /\ (a.protecting # 0 => a.protected < a.protecting)
  BY DEF Good, Nest, Attempts
<1>2. /\ b.protected = IF t.kind = "PROTECTION_ACKNOWLEDGED" THEN t.target ELSE a.protected
      /\ b.protecting = IF t.kind = "REQUEST_PROTECTION" THEN a.filled
                        ELSE IF t.kind \in Answered THEN 0 ELSE a.protecting
  BY <1>1, Fields
<1>3. CASE t.kind = "PROTECTION_ACKNOWLEDGED"
  <2>1. t.target = a.protecting /\ a.protecting # 0
    BY <1>3 DEF Accepts, CanAcknowledgeProtection
  <2>2. t.target \in Acks
    BY <1>3 DEF Delivered, Requests, Acks, Targets, Reported
  <2>3. t.target =< broker.covered
    BY <2>2 DEF BrokerInv
  <2>4. broker.covered \in Int
    BY DEF IInv, TypeOK
  <2>. QED BY <1>1, <1>2, <1>3, <2>1, <2>3, <2>4 DEF Agreed
<1>4. CASE t.kind = "PROTECTION_REJECTED"
  <2>1. t.target = a.protecting /\ a.protecting # 0
    BY <1>4 DEF Accepts, CanRejectProtection
  <2>2. t.target \in Rejections
    BY <1>4 DEF Delivered, Requests, Rejections, Targets, Reported
  <2>3. t.target \notin Acks
    BY <2>2 DEF BrokerInv
  <2>. QED BY <1>2, <1>4, <2>1, <2>3 DEF Agreed
<1>5. CASE t.kind = "REQUEST_PROTECTION"
  <2>1. a.protecting = 0 /\ 0 \notin Acks
    BY <1>5 DEF Accepts, CanRequestProtection, BrokerInv
  <2>. QED BY <1>2, <1>5, <2>1 DEF Agreed
<1>6. CASE t.kind \notin Answered \union {"REQUEST_PROTECTION"}
  BY <1>2, <1>6 DEF Agreed, Answered
<1>. QED BY <1>3, <1>4, <1>5, <1>6 DEF Answered

LEMMA PersistsByTake ==
  ASSUME IInv, NEW a, Good(a), NEW t \in Transitions, Accepts(a, t), Delivered(t), NEW c, Persists(c, a)
  PROVE  Persists(c, After(a, t))
<1>. DEFINE b == After(a, t)
<1>. SUFFICES ASSUME c.protecting # 0, c.protecting \notin Acks \union Rejections
              PROVE  b.protecting = c.protecting
  BY DEF Persists
<1>1. a.protecting = c.protecting
  BY DEF Persists
<1>2. a \in Attempts
  BY DEF Good
<1>3. b.protecting = IF t.kind = "REQUEST_PROTECTION" THEN a.filled
                     ELSE IF t.kind \in Answered THEN 0 ELSE a.protecting
  BY <1>2, Fields
<1>4. t.kind # "REQUEST_PROTECTION"
  BY <1>1 DEF Accepts, CanRequestProtection
<1>5. t.kind # "PROTECTION_ACKNOWLEDGED"
  BY <1>1 DEF Accepts, CanAcknowledgeProtection, Delivered, Requests, Acks, Targets, Reported
<1>6. t.kind # "PROTECTION_REJECTED"
  BY <1>1 DEF Accepts, CanRejectProtection, Delivered, Requests, Rejections, Targets, Reported
<1>. QED BY <1>1, <1>3, <1>4, <1>5, <1>6 DEF Answered

\* An attempt whose quantities are sums over reports stays within the broker's.
LEMMA WithinBroker ==
  ASSUME IInv, NEW a, NEW fm, NEW xm, Grounded(a, fm, xm),
         Adds(fm, "ENTRY_FILL", broker.filled, reports), Adds(xm, "EXIT_FILL", broker.exited, reports)
  PROVE  a.filled =< broker.filled /\ a.exited =< broker.exited
<1>1. Ids(a.fills) \in SUBSET Nat /\ Ids(a.exits) \in SUBSET Nat
  BY IdsAreNumbers DEF Grounded, FillKinds
<1>2. fm[Ids(a.fills)] =< fm[Nat]
  BY <1>1 DEF Adds
<1>3. xm[Ids(a.exits)] =< xm[Nat]
  BY <1>1 DEF Adds
<1>. QED BY <1>2, <1>3 DEF Grounded, Adds

LEMMA FactsByTake ==
  ASSUME IInv, BrokerInv, NEW h, NEW fm, NEW xm, Facts(h, fm, xm),
         NEW t \in Transitions, Delivered(t), Take(t)
  PROVE  \E g : Facts(g, fm, xm)'
<1>. DEFINE n == Len(Evidence)
<1>1. /\ Evidence \in Seq(Transitions) /\ n \in Nat /\ Len(saved) \in Nat /\ Len(saved) =< n
  BY EvidenceIsSequence
<1>2. PICK g : /\ g = Grown(h, n + 1, After(h[n], t))
               /\ Traced(g)'
  BY TakeGrows DEF Facts
<1>3. /\ g[n + 1] = After(h[n], t)
      /\ \A i \in 0..n : g[i] = h[i]
  BY <1>1, <1>2 DEF Grown
<1>4. /\ Evidence' = Append(Evidence, t) /\ saved' = saved /\ broker' = broker /\ reports' = reports
  <2>1. saved \in Seq(Transitions) /\ unsaved \in Seq(Transitions)
    BY DEF IInv, TypeOK
  <2>2. saved \o Append(unsaved, t) = Append(saved \o unsaved, t)
    BY <2>1
  <2>. QED BY <2>2 DEF Take, Evidence
<1>5. Len(Evidence') = n + 1 /\ Evidence'[n + 1] = t /\ \A i \in 1..n : Evidence'[i] = Evidence[i]
  BY <1>1, <1>4
<1>6. Good(h[n]) /\ Accepts(h[n], t) /\ n \in 0..n /\ n \in Len(saved)..n
  BY <1>1 DEF Facts, Traced, Trace, Take
<1>. HIDE DEF n
<1>7. \A s : Delivered(s) => Delivered(s)'
  BY <1>4 DEF Delivered
<1>8. \A i \in 1..(n + 1) : Delivered(Evidence'[i])
  BY <1>1, <1>5 DEF Facts, n
<1>9. ASSUME NEW k \in 0..(n + 1) PROVE Grounded(g[k], fm, xm)
  <2>1. CASE k \in 0..n
    BY <1>3, <2>1 DEF Facts, n
  <2>2. CASE k = n + 1
    <3>1. broker.filled \in Nat /\ broker.exited \in Nat
      BY DEF IInv, TypeOK
    <3>. QED BY <1>3, <1>6, <2>2, <3>1, GroundedByTake DEF Facts, n
  <2>. QED BY <1>1, <2>1, <2>2
<1>10. ASSUME NEW k \in Len(saved)..(n + 1) PROVE Agreed(g[k])
  <2>1. CASE k \in Len(saved)..n
    <3>1. k \in 0..n
      BY <1>1, <2>1
    <3>. QED BY <1>3, <2>1, <3>1 DEF Facts, n
  <2>2. CASE k = n + 1
    BY <1>3, <1>6, <2>2, AgreedByTake DEF Facts, n
  <2>. QED BY <1>1, <2>1, <2>2
<1>11. ASSUME NEW j \in Len(saved)..(n + 1), NEW k \in j..(n + 1) PROVE Persists(g[j], g[k])
  <2>1. CASE k \in Len(saved)..n
    <3>1. j \in Len(saved)..n /\ k \in j..n /\ j \in 0..n /\ k \in 0..n
      BY <1>1, <2>1
    <3>. QED BY <1>3, <3>1 DEF Facts, n
  <2>2. CASE k = n + 1 /\ j \in Len(saved)..n
    <3>1. n \in j..n /\ j \in 0..n
      BY <1>1, <2>2
    <3>2. Persists(h[j], h[n])
      BY <2>2, <3>1 DEF Facts, n
    <3>. QED BY <1>3, <1>6, <2>2, <3>1, <3>2, PersistsByTake
  <2>3. CASE k = n + 1 /\ j = n + 1
    BY <2>3 DEF Persists
  <2>. QED BY <1>1, <2>1, <2>2, <2>3
<1>12. (\A i \in 1..Len(Evidence) : Delivered(Evidence[i]))'
  BY <1>4, <1>5, <1>8 DEF Delivered
<1>13. \A k \in 0..(n + 1) : Grounded(g[k], fm, xm)'
  BY <1>4, <1>9 DEF Grounded, Delivered, Acks, Rejections, Targets, Reported
<1>14. \A k \in Len(saved)..(n + 1) : Agreed(g[k])'
  BY <1>4, <1>10 DEF Agreed, Acks, Targets, Reported
<1>15. \A j \in Len(saved)..(n + 1) : \A k \in j..(n + 1) : Persists(g[j], g[k])'
  BY <1>4, <1>11 DEF Persists, Acks, Rejections, Targets, Reported
<1>16. Adds(fm, "ENTRY_FILL", broker.filled, reports)' /\ Adds(xm, "EXIT_FILL", broker.exited, reports)'
  BY <1>4 DEF Facts
<1>17. Facts(g, fm, xm)'
  BY <1>2, <1>4, <1>5, <1>12, <1>13, <1>14, <1>15, <1>16 DEF Facts
<1>. QED BY <1>17

\* The owner's other steps take in nothing and move the stored attempt at most on.
LEMMA FactsByRest ==
  ASSUME IInv, IInv', NEW h, NEW fm, NEW xm, Facts(h, fm, xm),
         Save \/ Crash \/ Replay \/ UNCHANGED vars
  PROVE  \E g : Facts(g, fm, xm)'
<1>1. PICK g : /\ g = [i \in 0..Len(Evidence') |-> h[i]]
               /\ Len(Evidence') =< Len(Evidence)
               /\ Traced(g)'
  <2>1. UNCHANGED vars => UNCHANGED owner
    BY DEF vars, owner
  <2>. QED BY <2>1, RestGrows DEF Facts
<1>2. broker' = broker /\ reports' = reports
  BY DEF Save, Crash, Replay, vars
<1>3. PICK n \in Nat, m \in Nat, p \in Nat, q \in Nat :
        /\ n = Len(Evidence) /\ m = Len(Evidence') /\ p = Len(saved) /\ q = Len(saved')
        /\ m =< n /\ p =< q /\ q =< m /\ p =< n
  <2>1. /\ Len(Evidence) \in Nat /\ Len(saved) \in Nat /\ Len(saved) =< Len(Evidence)
    BY EvidenceIsSequence
  <2>2. /\ Len(Evidence') \in Nat /\ Len(saved') \in Nat /\ Len(saved') =< Len(Evidence')
    BY DEF IInv, TypeOK, Evidence
  <2>3. Len(saved) =< Len(saved')
    BY <2>1 DEF Save, Crash, Replay, vars
  <2>. QED BY <1>1, <2>1, <2>2, <2>3
<1>4. \A i \in 0..m : g[i] = h[i] /\ i \in 0..n
  BY <1>1, <1>3
<1>5. \A i \in 1..m : Evidence'[i] = Evidence[i] /\ i \in 1..n
  <2>1. saved \in Seq(Transitions) /\ unsaved \in Seq(Transitions)
    BY DEF IInv, TypeOK
  <2>2. Evidence' = Evidence \/ Evidence' = saved
    <3>1. Save => Evidence' = Evidence \o <<>>
      BY DEF Save, Evidence
    <3>2. Crash => Evidence' = saved \o <<>>
      BY DEF Crash, Evidence
    <3>3. Replay \/ UNCHANGED vars => Evidence' = Evidence
      BY DEF Replay, vars, Evidence
    <3>4. Evidence \o <<>> = Evidence /\ saved \o <<>> = saved
      BY <2>1 DEF Evidence
    <3>. QED BY <3>1, <3>2, <3>3, <3>4
  <2>3. \A i \in 1..Len(saved) : Evidence[i] = saved[i]
    BY EvidenceIsSequence
  <2>. QED BY <1>3, <2>2, <2>3
<1>6. (\A i \in 1..Len(Evidence) : Delivered(Evidence[i]))'
  <2>1. \A i \in 1..m : Delivered(Evidence'[i])
    BY <1>3, <1>5 DEF Facts
  <2>. QED BY <1>2, <1>3, <2>1 DEF Delivered
<1>7. \A k \in 0..m : Grounded(g[k], fm, xm)
  BY <1>3, <1>4 DEF Facts
<1>8. \A k \in q..m : Agreed(g[k])
  <2>1. \A k \in q..m : k \in p..n /\ k \in 0..m
    BY <1>3
  <2>. QED BY <1>3, <1>4, <2>1 DEF Facts
<1>9. ASSUME NEW j \in q..m, NEW k \in j..m PROVE Persists(g[j], g[k])
  <2>1. j \in p..n /\ k \in j..n /\ j \in 0..m /\ k \in 0..m
    BY <1>3
  <2>. QED BY <1>3, <1>4, <2>1 DEF Facts
<1>13. \A k \in 0..m : Grounded(g[k], fm, xm)'
  BY <1>2, <1>7 DEF Grounded, Delivered, Acks, Rejections, Targets, Reported
<1>14. \A k \in q..m : Agreed(g[k])'
  BY <1>2, <1>8 DEF Agreed, Acks, Targets, Reported
<1>15. \A j \in q..m : \A k \in j..m : Persists(g[j], g[k])'
  BY <1>2, <1>9 DEF Persists, Acks, Rejections, Targets, Reported
<1>16. Adds(fm, "ENTRY_FILL", broker.filled, reports)' /\ Adds(xm, "EXIT_FILL", broker.exited, reports)'
  BY <1>2 DEF Facts
<1>17. Facts(g, fm, xm)'
  BY <1>1, <1>3, <1>6, <1>13, <1>14, <1>15, <1>16 DEF Facts
<1>. QED BY <1>17

LEMMA FactsByReport ==
  ASSUME IInv, BrokerInv, NEW h, NEW fm, NEW xm, Facts(h, fm, xm), NEW r \in Reports, Does(r)
  PROVE  BrokerInv' /\ \E g, fm2, xm2 : Facts(g, fm2, xm2)'
<1>0. UNCHANGED owner
  BY DEF Does
<1>1. /\ Evidence' = Evidence /\ saved' = saved /\ stored' = stored
      /\ reports' = Append(reports, r)
  BY DEF Does, owner, Evidence
<1>2. PICK n \in Nat, p \in Nat : n = Len(Evidence) /\ p = Len(saved) /\ p =< n
  BY EvidenceIsSequence
<1>3. stored = h[p] /\ p \in p..n /\ p \in 0..n
  BY <1>2 DEF Facts, Traced
<1>4. Agreed(stored) /\ stored.filled =< broker.filled
  BY <1>2, <1>3, WithinBroker DEF Facts
<1>5. BrokerInv'
  BY <1>4, BrokerStaysTrue
<1>6. Traced(h)'
  <2>1. Trace(h, Evidence)'
    BY <1>1 DEF Facts, Traced
  <2>2. attempt' = attempt /\ unsaved' = unsaved /\ replay' = replay
    BY <1>0 DEF owner
  <2>. QED BY <1>1, <2>1, <2>2 DEF Facts, Traced
<1>7. broker.filled \in Nat /\ broker.exited \in Nat /\ "ENTRY_FILL" \in FillKinds /\ "EXIT_FILL" \in FillKinds
  BY DEF IInv, TypeOK, FillKinds
<1>8. PICK fm2 : /\ Adds(fm2, "ENTRY_FILL", broker'.filled, reports')
                 /\ \A S \in SUBSET Nat : (r.kind = "ENTRY_FILL" => r.id \notin S) => fm2[S] = fm[S]
  <2>1. PICK m2 : /\ Adds(m2, "ENTRY_FILL", IF r.kind = "ENTRY_FILL" THEN broker.filled + r.qty ELSE broker.filled, Append(reports, r))
                  /\ \A S \in SUBSET Nat : (r.kind = "ENTRY_FILL" => r.id \notin S) => m2[S] = fm[S]
    BY <1>7, SumsContinue DEF Facts
  <2>2. broker'.filled = IF r.kind = "ENTRY_FILL" THEN broker.filled + r.qty ELSE broker.filled
    BY DEF Does
  <2>. QED BY <1>1, <2>1, <2>2
<1>9. PICK xm2 : /\ Adds(xm2, "EXIT_FILL", broker'.exited, reports')
                 /\ \A S \in SUBSET Nat : (r.kind = "EXIT_FILL" => r.id \notin S) => xm2[S] = xm[S]
  <2>1. PICK m2 : /\ Adds(m2, "EXIT_FILL", IF r.kind = "EXIT_FILL" THEN broker.exited + r.qty ELSE broker.exited, Append(reports, r))
                  /\ \A S \in SUBSET Nat : (r.kind = "EXIT_FILL" => r.id \notin S) => m2[S] = xm[S]
    BY <1>7, SumsContinue DEF Facts
  <2>2. broker'.exited = IF r.kind = "EXIT_FILL" THEN broker.exited + r.qty ELSE broker.exited
    BY DEF Does
  <2>. QED BY <1>1, <2>1, <2>2
<1>10. ASSUME NEW k \in 0..n PROVE Grounded(h[k], fm2, xm2)'
  <2>1. Grounded(h[k], fm, xm)
    BY <1>2 DEF Facts
  <2>2. Ids(h[k].fills) \in SUBSET Nat /\ Ids(h[k].exits) \in SUBSET Nat
    BY <2>1, IdsAreNumbers DEF Grounded, FillKinds
  <2>3. fm2[Ids(h[k].fills)] = fm[Ids(h[k].fills)]
    <3>1. r.kind = "ENTRY_FILL" => r.id \notin Ids(h[k].fills)
      BY <1>7, <2>1, DeliveredIds DEF Grounded
    <3>. QED BY <1>8, <2>2, <3>1
  <2>4. xm2[Ids(h[k].exits)] = xm[Ids(h[k].exits)]
    <3>1. r.kind = "EXIT_FILL" => r.id \notin Ids(h[k].exits)
      BY <1>7, <2>1, DeliveredIds DEF Grounded
    <3>. QED BY <1>9, <2>2, <3>1
  <2>. QED BY <2>1, <2>3, <2>4, GroundedByReport
<1>11. ASSUME NEW k \in p..n PROVE Agreed(h[k])'
  <2>1. Agreed(h[k])
    BY <1>2 DEF Facts
  <2>2. CASE r.kind = "PROTECTION_ACKNOWLEDGED"
    <3>1. /\ broker'.covered = stored.protecting /\ stored.protecting # 0
          /\ stored.protecting \notin Acks \union Rejections /\ r.target = stored.protecting
      BY <1>4, <2>2, CoversExactly, Unanswered DEF Does, Answered
    <3>2. Persists(stored, h[k])
      BY <1>2, <1>3 DEF Facts
    <3>3. h[k].protecting = stored.protecting
      BY <3>1, <3>2 DEF Persists
    <3>4. r.target \in Acks'
      BY <2>2, TargetsGrow
    <3>. QED BY <3>1, <3>3, <3>4 DEF Agreed
  <2>3. CASE r.kind # "PROTECTION_ACKNOWLEDGED"
    <3>1. broker'.covered = broker.covered /\ Acks' = Acks
      BY <2>3, TargetsGrow DEF Does
    <3>. QED BY <2>1, <3>1 DEF Agreed
  <2>. QED BY <2>2, <2>3
<1>12. ASSUME NEW j \in p..n, NEW k \in j..n PROVE Persists(h[j], h[k])'
  <2>1. Persists(h[j], h[k])
    BY <1>2 DEF Facts
  <2>2. Acks \subseteq Acks' /\ Rejections \subseteq Rejections'
    BY TargetsGrow
  <2>. QED BY <2>1, <2>2 DEF Persists
<1>13. (\A i \in 1..Len(Evidence) : Delivered(Evidence[i]))'
  <2>1. \A i \in 1..Len(Evidence) : Delivered(Evidence[i])
    BY DEF Facts
  <2>2. \A i \in DOMAIN reports : i \in DOMAIN reports' /\ reports'[i] = reports[i]
    BY ReportsGrow
  <2>. QED BY <1>1, <2>1, <2>2 DEF Delivered
<1>14. Adds(fm2, "ENTRY_FILL", broker.filled, reports)' /\ Adds(xm2, "EXIT_FILL", broker.exited, reports)'
  BY <1>8, <1>9
<1>15. Facts(h, fm2, xm2)'
  BY <1>1, <1>2, <1>6, <1>10, <1>11, <1>12, <1>13, <1>14 DEF Facts
<1>. QED BY <1>5, <1>15

\* The steps of the owner take in what the broker reported, and nothing else.
LEMMA TakesAreDelivered ==
  ASSUME IInv, OwnerNext
  PROVE  \/ \E t \in Transitions : Delivered(t) /\ Take(t)
         \/ Save \/ Crash \/ Replay
<1>1. \A i \in DOMAIN reports : reports[i] \in Transitions /\ Delivered(reports[i])
  BY Element DEF IInv, TypeOK, Transitions, Delivered
<1>2. /\ [kind |-> "REQUEST_PROTECTION"] \in Transitions /\ [kind |-> "REQUEST_CANCELLATION"] \in Transitions
      /\ \A c \in Adapters : [kind |-> "REQUEST_ENTRY", capabilities |-> c] \in Transitions
  BY DEF Transitions
<1>3. /\ Delivered([kind |-> "REQUEST_PROTECTION"]) /\ Delivered([kind |-> "REQUEST_CANCELLATION"])
      /\ \A c \in Adapters : Delivered([kind |-> "REQUEST_ENTRY", capabilities |-> c])
  BY DEF Delivered, Requests
<1>. QED BY <1>1, <1>2, <1>3 DEF OwnerNext, RequestEntry, RequestProtection, RequestCancellation, Deliver

LEMMA NothingToAdd ==
  ASSUME NEW kind
  PROVE  \E m : Adds(m, kind, 0, <<>>)
<1>1. PICK m : m = [S \in SUBSET Nat |-> 0]
  OBVIOUS
<1>2. m \in [SUBSET Nat -> Nat] /\ \A S \in SUBSET Nat : m[S] = 0
  BY <1>1
<1>3. {} \in SUBSET Nat /\ Nat \in SUBSET Nat /\ \A S \in SUBSET Nat, x \in Nat : S \union {x} \in SUBSET Nat
  OBVIOUS
<1>4. DOMAIN <<>> = {}
  OBVIOUS
<1>5. Adds(m, kind, 0, <<>>)
  BY <1>2, <1>3, <1>4 DEF Adds
<1>. QED BY <1>5

\* The inductive invariant: the evidence traces the attempt, the sums account for
\* its fills and exits, and owner and broker agree on what is protected.
THEOREM FactsInvariant == Spec => []FactsInv
<1>1. Init => FactsInv
  <2>. SUFFICES ASSUME Init PROVE FactsInv
    OBVIOUS
  <2>1. IInv
    BY NewIsGood DEF Init, IInv, TypeOK, Good
  <2>2. PICK h : h = [i \in 0..0 |-> NewAttempt]
    OBVIOUS
  <2>3. Evidence = <<>> /\ Len(Evidence) = 0 /\ saved = <<>> /\ reports = <<>> /\ Len(saved) = 0
    BY DEF Init, Evidence
  <2>4. DOMAIN h = 0..0 /\ h[0] = NewAttempt /\ 1..0 = {} /\ \A i \in 0..0 : i = 0
    BY <2>2
  <2>5. Trace(h, Evidence)
    BY <2>3, <2>4, NewIsGood DEF Trace
  <2>6. Traced(h)
    BY <2>3, <2>4, <2>5 DEF Init, Traced
  <2>7. PICK fm, xm : Adds(fm, "ENTRY_FILL", 0, <<>>) /\ Adds(xm, "EXIT_FILL", 0, <<>>)
    BY NothingToAdd
  <2>8. broker = [entry |-> "NONE", filled |-> 0, covered |-> 0, exited |-> 0]
    BY DEF Init
  <2>9. Grounded(NewAttempt, fm, xm)
    BY <2>7, NewIsGrounded DEF Adds
  <2>10. Agreed(NewAttempt) /\ \A a : Persists(NewAttempt, a)
    BY <2>8 DEF Agreed, NewAttempt, Persists
  <2>11. DOMAIN reports = {} /\ \A kinds : Reported(kinds) = {} /\ Targets(kinds) = {}
    BY <2>3 DEF Reported, Targets
  <2>12. BrokerInv
    BY <2>8, <2>11 DEF BrokerInv, Acks, Rejections
  <2>13. Facts(h, fm, xm)
    BY <2>3, <2>4, <2>6, <2>7, <2>8, <2>9, <2>10 DEF Facts
  <2>. QED BY <2>1, <2>12, <2>13 DEF FactsInv
<1>2. FactsInv /\ [Next]_vars => FactsInv'
  <2>. SUFFICES ASSUME FactsInv, [Next]_vars PROVE FactsInv'
    OBVIOUS
  <2>1. IInv /\ BrokerInv
    BY DEF FactsInv
  <2>2. IInv'
    <3>1. CASE UNCHANGED vars
      BY <2>1, <3>1 DEF vars, IInv, TypeOK, Good
    <3>. QED BY <2>1, <3>1, OwnerKeepsGood, BrokerKeepsGood DEF Next
  <2>3. PICK h, fm, xm : Facts(h, fm, xm)
    BY DEF FactsInv
  <2>4. BrokerInv' \/ BrokerNext
    <3>1. CASE broker' = broker /\ reports' = reports
      <4>1. \A kinds : Reported(kinds)' = Reported(kinds)
        BY <3>1 DEF Reported
      <4>2. Acks' = Acks /\ Rejections' = Rejections
        BY <3>1, Zenon DEF Acks, Rejections, Targets, Reported
      <4>. QED BY <2>1, <3>1, <4>1, <4>2, Zenon DEF BrokerInv
    <3>2. OwnerNext \/ UNCHANGED vars => broker' = broker /\ reports' = reports
      BY DEF OwnerNext, RequestEntry, RequestProtection, RequestCancellation, Deliver, Take,
             Save, Crash, Replay, vars
    <3>. QED BY <3>1, <3>2 DEF Next
  <2>5. CASE BrokerNext
    <3>1. PICK r \in Reports : Does(r)
      BY <2>1, <2>5, BrokerSteps
    <3>2. PICK g, fm2, xm2 : BrokerInv' /\ Facts(g, fm2, xm2)'
      BY <2>1, <2>3, <3>1, FactsByReport
    <3>. QED BY <2>2, <3>2 DEF FactsInv
  <2>6. ASSUME NEW t \in Transitions, Delivered(t), Take(t), BrokerInv'
        PROVE  FactsInv'
    <3>1. PICK g : Facts(g, fm, xm)'
      BY <2>1, <2>3, <2>6, FactsByTake
    <3>. QED BY <2>2, <2>6, <3>1 DEF FactsInv
  <2>7. ASSUME Save \/ Crash \/ Replay \/ UNCHANGED vars, BrokerInv'
        PROVE  FactsInv'
    <3>1. PICK g : Facts(g, fm, xm)'
      BY <2>1, <2>2, <2>3, <2>7, FactsByRest
    <3>. QED BY <2>2, <2>7, <3>1 DEF FactsInv
  <2>. QED BY <2>1, <2>4, <2>5, <2>6, <2>7, TakesAreDelivered DEF Next
<1>. QED BY <1>1, <1>2, PTL DEF Spec

\* What is asked of the broker never covers more than it filled, and what closes
\* a position is never more than what covers it (protection.ts, policy.ts).
THEOREM NeverOverProtectedHolds == Spec => []NeverOverProtected
<1>1. FactsInv => NeverOverProtected
  BY DEF FactsInv, BrokerInv, NeverOverProtected
<1>. QED BY <1>1, FactsInvariant, PTL

\* The attempt says nothing that the broker did not do.
THEOREM NothingIsInvented == Spec => []NothingInvented
<1>1. FactsInv => NothingInvented
  <2>. SUFFICES ASSUME IInv, BrokerInv, NEW h, NEW fm, NEW xm, Facts(h, fm, xm)
                PROVE  NothingInvented
    BY DEF FactsInv
  <2>1. QuantitiesNest
    BY DEF IInv, Good, QuantitiesNest
  <2>2. PICK k \in 0..Len(Evidence) : attempt = h[k]
    BY EvidenceIsSequence DEF Facts, Traced, IInv, TypeOK
  <2>3. Grounded(attempt, fm, xm)
    BY <2>2 DEF Facts
  <2>4. attempt.filled =< broker.filled /\ attempt.exited =< broker.exited
    BY <2>3, WithinBroker DEF Facts
  <2>5. attempt.protected =< broker.covered
    <3>1. \A t \in Acks : t =< broker.covered
      BY DEF BrokerInv
    <3>2. broker.covered = 0 \/ (broker.covered \in Nat /\ broker.covered >= 0)
      BY DEF BrokerInv
    <3>3. attempt.protected = 0 \/ attempt.protected \in Acks
      BY <2>3 DEF Grounded
    <3>. QED BY <3>1, <3>2, <3>3
  <2>6. attempt.entry = "FILLED" => broker.entry = "FILLED"
    <3>1. attempt.entry = "FILLED" => attempt.filled = Quantity
      BY <2>1 DEF QuantitiesNest, Nest
    <3>2. broker.filled \in Nat /\ broker.filled =< Quantity /\ (broker.filled = Quantity => broker.entry = "FILLED")
      BY DEF BrokerInv, IInv, TypeOK
    <3>. QED BY <2>4, <3>1, <3>2
  <2>7. attempt.entry = "REJECTED" => broker.entry = "REJECTED"
    BY <2>3 DEF Grounded, BrokerInv
  <2>8. attempt.failed => Reported({"PROTECTION_REJECTED"}) # {}
    BY <2>3 DEF Grounded, Rejections, Targets
  <2>9. attempt.entry = "CANCELED" => Reported({"CANCELLATION_ACKNOWLEDGED"}) # {}
    BY <2>3 DEF Grounded
  <2>. QED BY <2>1, <2>4, <2>5, <2>6, <2>7, <2>8, <2>9 DEF NothingInvented
<1>. QED BY <1>1, FactsInvariant, PTL

-----------------------------------------------------------------------------
(* Reports delivered in order: the attempt follows the broker's history.        *)

CancelAnswers == {"CANCELLATION_ACKNOWLEDGED", "CANCELLATION_REJECTED"}

\* How many reports the first k transitions of e took in.
Told(e, k) == Cardinality({i \in 1..k : e[i].kind \notin Requests})

\* The broker before a report, after it, and what the report says of the two.
Moves(x, y, r) ==
  /\ y.filled = IF r.kind = "ENTRY_FILL" THEN x.filled + r.qty ELSE x.filled
  /\ y.exited = IF r.kind = "EXIT_FILL" THEN x.exited + r.qty ELSE x.exited
  /\ y.covered = IF r.kind = "PROTECTION_ACKNOWLEDGED" THEN r.target ELSE x.covered
  /\ y.entry = IF r.kind = "ENTRY_ACKNOWLEDGED" THEN "WORKING"
               ELSE IF r.kind = "ENTRY_REJECTED" THEN "REJECTED"
               ELSE IF r.kind = "ENTRY_FILL"
               THEN IF x.filled + r.qty = Quantity THEN "FILLED" ELSE "WORKING"
               ELSE IF r.kind = "CANCELLATION_ACKNOWLEDGED"
               THEN IF x.entry = "WORKING" THEN "CANCELED" ELSE x.entry
               ELSE x.entry
  /\ r.kind \in {"ENTRY_ACKNOWLEDGED", "ENTRY_REJECTED"} => x.entry = "NONE"
  /\ r.kind = "ENTRY_FILL" => x.entry = "WORKING" /\ x.filled + r.qty =< Quantity
  /\ r.kind = "EXIT_FILL" => x.exited + r.qty =< r.target /\ r.target =< x.covered
  /\ x.covered \in Int /\ x.filled \in Nat /\ x.exited \in Nat

\* b[i] is the broker after i reports.
History(b) ==
  /\ DOMAIN b = 0..Len(reports) /\ b[Len(reports)] = broker
  /\ b[0] = [entry |-> "NONE", filled |-> 0, covered |-> 0, exited |-> 0]
  /\ \A i \in 1..Len(reports) : Moves(b[i - 1], b[i], reports[i])

\* A report that comes after others: later or at the same time, with an id of
\* its own, under a protection acknowledged before, answering what was not answered.
Follows(r, i) ==
  /\ \A j \in 1..i : reports[j].at =< r.at
  /\ r.kind \in FillKinds => \A j \in 1..i : reports[j].kind = r.kind => reports[j].id # r.id
  /\ r.kind = "EXIT_FILL" =>
       \E j \in 1..i : reports[j].kind = "PROTECTION_ACKNOWLEDGED" /\ reports[j].target = r.target
  /\ r.kind \in Answered =>
       \A j \in 1..i : reports[j].kind \in Answered => reports[j].target # r.target
  /\ r.kind \in CancelAnswers => \A j \in 1..i : reports[j].kind \notin CancelAnswers

\* What the stored attempt must have asked for when the broker reports r.
Asked(a, r) ==
  /\ r.kind \in {"ENTRY_ACKNOWLEDGED", "ENTRY_REJECTED"} => a.entry # "NOT_SUBMITTED"
  /\ r.kind \in Answered => a.protecting = r.target /\ a.protecting # 0
  /\ r.kind \in CancelAnswers => a.canceling

\* The attempt that took in the first c reports and the broker after those.
Synced(a, x, c) ==
  /\ a.filled = x.filled /\ a.exited = x.exited /\ a.protected = x.covered
  /\ x.entry = "NONE" <=> a.entry \in {"NOT_SUBMITTED", "SUBMISSION_PENDING"}
  /\ x.entry # "NONE" => a.entry = x.entry
  /\ a.entry \in {"WORKING", "FILLED", "CANCELED"} => a.order = Order
  /\ a.entry = "WORKING" => a.filled # Quantity
  /\ a.lastAt = 0 \/ \E j \in 1..c : a.lastAt = reports[j].at
  /\ \A i \in DOMAIN a.fills : \E j \in 1..c : reports[j] = a.fills[i] /\ reports[j].kind = "ENTRY_FILL"
  /\ \A i \in DOMAIN a.exits : \E j \in 1..c : reports[j] = a.exits[i] /\ reports[j].kind = "EXIT_FILL"
  /\ \A j \in 1..c : reports[j].kind = "PROTECTION_ACKNOWLEDGED" =>
       \E i \in DOMAIN a.coverage : a.coverage[i].target = reports[j].target

\* What an attempt asked for is still asked for by a later one that took in the
\* first c reports, unless one of them answers it.
Holds(a, b, c) ==
  /\ a.entry # "NOT_SUBMITTED" => b.entry # "NOT_SUBMITTED"
  /\ a.protecting # 0 /\ (\A i \in 1..c : reports[i].kind \in Answered => reports[i].target # a.protecting)
       => b.protecting = a.protecting
  /\ a.canceling /\ (\A i \in 1..c : reports[i].kind \notin CancelAnswers) => b.canceling

Ordered(h, b) ==
  /\ Traced(h)
  /\ History(b)
  /\ \A i \in 1..Len(reports) : Follows(reports[i], i - 1)
  /\ \A i \in 1..Len(reports) :
       \E s \in 0..Len(saved) : Told(Evidence, s) < i /\ Asked(h[s], reports[i])
  /\ \A k \in 0..Len(Evidence) :
       Told(Evidence, k) =< Len(reports) /\ Synced(h[k], b[Told(Evidence, k)], Told(Evidence, k))
  /\ \A j \in 0..Len(Evidence) : \A k \in j..Len(Evidence) : Holds(h[j], h[k], Told(Evidence, k))

OrderInv == inOrder => \E h, b : Ordered(h, b)

LEMMA ToldSteps ==
  ASSUME NEW e, NEW n \in Nat
  PROVE  /\ Told(e, 0) = 0 /\ Told(e, n) \in Nat
         /\ Told(e, n + 1) = IF e[n + 1].kind \in Requests THEN Told(e, n) ELSE Told(e, n) + 1
<1>. DEFINE T(k) == {i \in 1..k : e[i].kind \notin Requests}
<1>1. T(0) = {}
  <2>1. 1..0 = {}
    OBVIOUS
  <2>. QED BY <2>1
<1>2. IsFiniteSet(T(n))
  <2>1. IsFiniteSet(1..n)
    BY FS_Interval
  <2>. QED BY <2>1, FS_Subset
<1>3. T(n + 1) = IF e[n + 1].kind \in Requests THEN T(n) ELSE T(n) \union {n + 1}
  <2>1. 1..(n + 1) = 1..n \union {n + 1}
    OBVIOUS
  <2>. QED BY <2>1
<1>4. n + 1 \notin T(n)
  OBVIOUS
<1>5. Cardinality(T(n)) \in Nat /\ Cardinality({}) = 0
  BY <1>2, FS_CardinalityType, FS_EmptySet
<1>6. Cardinality(T(n) \union {n + 1}) = Cardinality(T(n)) + 1
  BY <1>2, <1>4, FS_AddElement
<1>. QED BY <1>1, <1>3, <1>5, <1>6 DEF Told

\* Only the transitions counted matter.
LEMMA ToldOfPrefix ==
  ASSUME NEW e, NEW f, NEW n \in Nat, \A i \in 1..n : f[i] = e[i], NEW k \in 0..n
  PROVE  Told(f, k) = Told(e, k)
<1>1. {i \in 1..k : f[i].kind \notin Requests} = {i \in 1..k : e[i].kind \notin Requests}
  OBVIOUS
<1>. QED BY <1>1 DEF Told

\* What was asked for when the broker reported r is still asked for when r is the
\* next report to be taken in.
LEMMA StillAsked ==
  ASSUME NEW a, NEW b, NEW r, NEW c, Asked(a, r), Holds(a, b, c), Follows(r, c)
  PROVE  Asked(b, r)
<1>1. r.kind \in {"ENTRY_ACKNOWLEDGED", "ENTRY_REJECTED"} => b.entry # "NOT_SUBMITTED"
  BY DEF Asked, Holds
<1>2. r.kind \in Answered => b.protecting = r.target /\ b.protecting # 0
  BY DEF Asked, Holds, Follows
<1>3. r.kind \in CancelAnswers => b.canceling
  BY DEF Asked, Holds, Follows
<1>. QED BY <1>1, <1>2, <1>3 DEF Asked

\* The next report is accepted: nothing it needs is missing.
LEMMA NextIsAccepted ==
  ASSUME IInv, NEW a, Good(a), NEW r \in Reports, NEW x, NEW y, NEW c \in Nat, c < Len(reports),
         Synced(a, x, c), Moves(x, y, r), Follows(r, c), Asked(a, r)
  PROVE  Accepts(a, r)
<1>1. /\ a \in Attempts /\ a.filled \in Nat /\ a.protected \in Nat /\ a.exited \in Nat /\ a.protecting \in Nat
      /\ a.lastAt \in Nat /\ a.protected =< a.filled /\ a.filled =< Quantity
      /\ (a.protecting # 0 => a.protected < a.protecting /\ a.protecting =< a.filled)
  BY DEF Good, Nest, Attempts
<1>2. r.at \in Nat
  BY DEF Reports
<1>3. InTime(a, r)
  <2>1. ASSUME NEW j \in 1..c, a.lastAt = reports[j].at PROVE r.at >= a.lastAt
    BY <1>1, <1>2, <2>1 DEF Follows
  <2>2. a.lastAt = 0 => r.at >= a.lastAt
    BY <1>2
  <2>. QED BY <2>1, <2>2 DEF Synced, InTime
<1>4. CASE r.kind \in {"ENTRY_ACKNOWLEDGED", "ENTRY_REJECTED"}
  <2>1. a.entry = "SUBMISSION_PENDING"
    BY <1>4 DEF Moves, Synced, Asked
  <2>. QED BY <1>3, <1>4, <2>1 DEF Accepts, CanAcknowledgeEntry, CanRejectEntry
<1>5. CASE r.kind = "ENTRY_FILL"
  <2>1. r.order = Order
    BY <1>5 DEF Reports
  <2>2. a.entry = "WORKING" /\ a.order = Order /\ a.filled + r.qty =< Quantity
    BY <1>5 DEF Moves, Synced
  <2>3. \A i \in DOMAIN a.fills : a.fills[i].id # r.id
    BY <1>5 DEF Synced, Follows, FillKinds
  <2>. QED BY <1>3, <1>5, <2>1, <2>2, <2>3 DEF Accepts, CanFill
<1>6. CASE r.kind = "EXIT_FILL"
  <2>1. r.qty \in Nat /\ r.target \in Nat
    BY <1>6 DEF Reports
  <2>2. a.exited + r.qty =< r.target /\ r.target =< a.protected
    BY <1>6 DEF Moves, Synced
  <2>3. \A i \in DOMAIN a.exits : a.exits[i].id # r.id
    BY <1>6 DEF Synced, Follows, FillKinds
  <2>4. \E i \in DOMAIN a.coverage : a.coverage[i].target = r.target
    BY <1>6 DEF Synced, Follows
  <2>5. a.exited + r.qty =< a.protected /\ a.exited + r.qty =< a.filled
    BY <1>1, <2>1, <2>2
  <2>. QED BY <1>3, <1>6, <2>2, <2>3, <2>4, <2>5 DEF Accepts, CanExit
<1>7. CASE r.kind \in Answered
  <2>1. a.protecting = r.target /\ a.protecting # 0
    BY <1>7 DEF Asked
  <2>2. a.protecting >= a.protected /\ a.protecting =< a.filled
    BY <1>1, <2>1
  <2>3. r.target >= a.protected /\ r.target =< a.filled
    BY <2>1, <2>2
  <2>. QED BY <1>3, <1>7, <2>1, <2>3 DEF Accepts, Answered, CanAcknowledgeProtection, CanRejectProtection
<1>8. CASE r.kind \in CancelAnswers
  <2>1. a.canceling
    BY <1>8 DEF Asked
  <2>2. a.entry \in {"WORKING", "FILLED"}
    BY <2>1 DEF Good, Status
  <2>3. a.order = Order /\ r.order = Order
    BY <1>8, <2>2 DEF Synced, Reports, CancelAnswers
  <2>. QED BY <1>3, <1>8, <2>1, <2>3 DEF Accepts, CancelAnswers, CanAnswerCancellation
<1>. QED BY <1>4, <1>5, <1>6, <1>7, <1>8 DEF Reports, Answered, CancelAnswers

LEMMA AppendHas ==
  ASSUME NEW S, NEW s \in Seq(S), NEW x \in S
  PROVE  \A i \in DOMAIN Append(s, x) : Append(s, x)[i] = x \/ \E j \in DOMAIN s : Append(s, x)[i] = s[j]
OBVIOUS

LEMMA SyncedByReport ==
  ASSUME NEW a, Good(a), NEW r \in Reports, Accepts(a, r), NEW x, NEW y, NEW c \in Nat,
         r = reports[c + 1], Synced(a, x, c), Moves(x, y, r)
  PROVE  Synced(After(a, r), y, c + 1)
<1>. DEFINE b == After(a, r)
<1>0. a \in Attempts /\ r \in Transitions
  BY DEF Good, Transitions
<1>c. c + 1 \in 1..(c + 1) /\ \A j \in 1..c : j \in 1..(c + 1)
  OBVIOUS
<1>d. \A j \in 1..(c + 1) : j \in 1..c \/ j = c + 1
  OBVIOUS
<1>r. r.kind \notin Requests
  BY DEF Reports, Requests
<1>1. b.filled = y.filled /\ b.exited = y.exited
  <2>1. /\ b.filled = IF r.kind = "ENTRY_FILL" THEN a.filled + r.qty ELSE a.filled
        /\ b.exited = IF r.kind = "EXIT_FILL" THEN a.exited + r.qty ELSE a.exited
    BY <1>0, Fields
  <2>. QED BY <2>1 DEF Synced, Moves
<1>2. b.protected = y.covered
  <2>1. b.protected = IF r.kind = "PROTECTION_ACKNOWLEDGED" THEN r.target ELSE a.protected
    BY <1>0, Fields
  <2>. QED BY <2>1 DEF Synced, Moves
<1>3. b.entry = IF r.kind = "ENTRY_ACKNOWLEDGED" THEN "WORKING"
                ELSE IF r.kind = "ENTRY_REJECTED" THEN "REJECTED"
                ELSE IF r.kind = "ENTRY_FILL"
                THEN IF a.filled + r.qty = Quantity THEN "FILLED" ELSE "WORKING"
                ELSE IF r.kind = "CANCELLATION_ACKNOWLEDGED"
                THEN IF a.filled = Quantity THEN "FILLED" ELSE "CANCELED"
                ELSE a.entry
  <2>1. r.kind # "REQUEST_ENTRY"
    BY <1>r DEF Requests
  <2>. QED BY <1>0, <2>1, Fields, ZenonT(30)
<1>4. /\ y.entry = "NONE" <=> b.entry \in {"NOT_SUBMITTED", "SUBMISSION_PENDING"}
      /\ y.entry # "NONE" => b.entry = y.entry
  <2>1. CASE r.kind = "CANCELLATION_ACKNOWLEDGED"
    <3>1. a.entry \in {"WORKING", "FILLED"}
      BY <2>1 DEF Accepts, CanAnswerCancellation, Good, Status
    <3>2. a.entry = "FILLED" => a.filled = Quantity
      BY DEF Good, Nest
    <3>3. a.entry = "WORKING" => a.filled # Quantity
      BY DEF Synced
    <3>4. x.entry = a.entry
      BY <3>1 DEF Synced
    <3>. QED BY <1>3, <2>1, <3>1, <3>2, <3>3, <3>4 DEF Moves
  <2>2. CASE r.kind # "CANCELLATION_ACKNOWLEDGED"
    BY <1>3, <2>2 DEF Synced, Moves
  <2>. QED BY <2>1, <2>2
<1>5. b.entry \in {"WORKING", "FILLED", "CANCELED"} => b.order = Order
  <2>1. b.order = IF r.kind = "ENTRY_ACKNOWLEDGED" THEN r.order ELSE a.order
    BY <1>0, Fields
  <2>2. r.kind = "ENTRY_ACKNOWLEDGED" => r.order = Order
    BY DEF Reports
  <2>3. r.kind = "ENTRY_FILL" => a.entry = "WORKING"
    BY DEF Accepts, CanFill
  <2>4. r.kind = "CANCELLATION_ACKNOWLEDGED" => a.entry \in {"WORKING", "FILLED"}
    BY DEF Accepts, CanAnswerCancellation, Good, Status
  <2>. QED BY <1>3, <2>1, <2>2, <2>3, <2>4 DEF Synced
<1>w. b.entry = "WORKING" => b.filled # Quantity
  <2>1. b.filled = IF r.kind = "ENTRY_FILL" THEN a.filled + r.qty ELSE a.filled
    BY <1>0, Fields
  <2>2. r.kind = "ENTRY_ACKNOWLEDGED" => a.filled = 0
    BY DEF Accepts, CanAcknowledgeEntry, Good, Status
  <2>. QED BY <1>3, <2>1, <2>2 DEF Synced
<1>6. b.lastAt = 0 \/ \E j \in 1..(c + 1) : b.lastAt = reports[j].at
  <2>1. b.lastAt = r.at
    BY <1>0, <1>r, Fields
  <2>. QED BY <1>c, <2>1
<1>7. \A i \in DOMAIN b.fills : \E j \in 1..(c + 1) : reports[j] = b.fills[i] /\ reports[j].kind = "ENTRY_FILL"
  <2>1. \A i \in DOMAIN a.fills : \E j \in 1..(c + 1) : reports[j] = a.fills[i] /\ reports[j].kind = "ENTRY_FILL"
    BY <1>c DEF Synced
  <2>2. CASE r.kind = "ENTRY_FILL"
    <3>1. b.fills = Append(a.fills, r) /\ a.fills \in Seq(Transitions)
      BY <1>0, <2>2, Fields DEF Attempts
    <3>2. \A i \in DOMAIN b.fills : b.fills[i] = r \/ \E j \in DOMAIN a.fills : b.fills[i] = a.fills[j]
      BY <1>0, <3>1, AppendHas
    <3>. QED BY <1>c, <2>1, <2>2, <3>2
  <2>3. CASE r.kind # "ENTRY_FILL"
    <3>1. b.fills = a.fills
      BY <1>0, <2>3, Fields
    <3>. QED BY <2>1, <3>1
  <2>. QED BY <2>2, <2>3
<1>8. \A i \in DOMAIN b.exits : \E j \in 1..(c + 1) : reports[j] = b.exits[i] /\ reports[j].kind = "EXIT_FILL"
  <2>1. \A i \in DOMAIN a.exits : \E j \in 1..(c + 1) : reports[j] = a.exits[i] /\ reports[j].kind = "EXIT_FILL"
    BY <1>c DEF Synced
  <2>2. CASE r.kind = "EXIT_FILL"
    <3>1. b.exits = Append(a.exits, r) /\ a.exits \in Seq(Transitions)
      BY <1>0, <2>2, Fields DEF Attempts
    <3>2. \A i \in DOMAIN b.exits : b.exits[i] = r \/ \E j \in DOMAIN a.exits : b.exits[i] = a.exits[j]
      BY <1>0, <3>1, AppendHas
    <3>. QED BY <1>c, <2>1, <2>2, <3>2
  <2>3. CASE r.kind # "EXIT_FILL"
    <3>1. b.exits = a.exits
      BY <1>0, <2>3, Fields
    <3>. QED BY <2>1, <3>1
  <2>. QED BY <2>2, <2>3
<1>9. ASSUME NEW j \in 1..(c + 1), reports[j].kind = "PROTECTION_ACKNOWLEDGED"
      PROVE  \E i \in DOMAIN b.coverage : b.coverage[i].target = reports[j].target
  <2>0. a.coverage \in Seq([target : Nat, at : Nat])
    BY <1>0 DEF Attempts
  <2>1. CASE r.kind = "PROTECTION_ACKNOWLEDGED"
    <3>1. PICK z \in [target : Nat, at : Nat] : z = [target |-> r.target, at |-> r.at]
      BY <2>1 DEF Reports
    <3>2. b.coverage = Append(a.coverage, z)
      BY <1>0, <2>1, <3>1, Fields
    <3>3. /\ DOMAIN b.coverage = DOMAIN a.coverage \union {Len(a.coverage) + 1}
          /\ b.coverage[Len(a.coverage) + 1] = z
          /\ \A i \in DOMAIN a.coverage : b.coverage[i] = a.coverage[i]
      <4>. DEFINE S == [target : Nat, at : Nat]  s == a.coverage
      <4>1. s \in Seq(S) /\ z \in S
        BY <2>0
      <4>2. b.coverage = Append(s, z)
        BY <3>2
      <4>. HIDE DEF S, s
      <4>3. /\ DOMAIN Append(s, z) = DOMAIN s \union {Len(s) + 1}
            /\ Append(s, z)[Len(s) + 1] = z
            /\ \A i \in DOMAIN s : Append(s, z)[i] = s[i]
        BY <4>1, AppendParts
      <4>. QED BY <4>2, <4>3 DEF s
    <3>4. CASE j = c + 1
      <4>1. b.coverage[Len(a.coverage) + 1].target = reports[j].target
        BY <3>1, <3>3, <3>4
      <4>. QED BY <3>3, <4>1
    <3>5. CASE j \in 1..c
      <4>1. PICK i \in DOMAIN a.coverage : a.coverage[i].target = reports[j].target
        BY <1>9, <3>5 DEF Synced
      <4>. QED BY <3>3, <4>1
    <3>. QED BY <1>d, <3>4, <3>5
  <2>2. CASE r.kind # "PROTECTION_ACKNOWLEDGED"
    <3>1. b.coverage = a.coverage
      BY <1>0, <2>2, Fields
    <3>2. j \in 1..c
      BY <1>9, <1>d, <2>2
    <3>. QED BY <1>9, <3>1, <3>2 DEF Synced
  <2>. QED BY <2>1, <2>2
<1>. QED BY <1>1, <1>2, <1>4, <1>5, <1>6, <1>7, <1>8, <1>9, <1>w DEF Synced

LEMMA SyncedByRequest ==
  ASSUME NEW a, Good(a), NEW t \in Transitions, t.kind \in Requests, Accepts(a, t),
         NEW x, NEW c \in Nat, Synced(a, x, c)
  PROVE  Synced(After(a, t), x, c)
<1>. DEFINE b == After(a, t)
<1>0. a \in Attempts
  BY DEF Good
<1>1. /\ b.filled = a.filled /\ b.exited = a.exited /\ b.protected = a.protected
      /\ b.fills = a.fills /\ b.exits = a.exits /\ b.coverage = a.coverage
      /\ b.order = a.order /\ b.lastAt = a.lastAt
  <2>1. b.filled = a.filled /\ b.fills = a.fills
    BY <1>0, Fields DEF Requests
  <2>2. b.exited = a.exited /\ b.exits = a.exits
    BY <1>0, Fields DEF Requests
  <2>3. b.protected = a.protected /\ b.coverage = a.coverage
    BY <1>0, Fields DEF Requests
  <2>4. b.order = a.order /\ b.lastAt = a.lastAt
    BY <1>0, Fields DEF Requests
  <2>. QED BY <2>1, <2>2, <2>3, <2>4
<1>2. b.entry = IF t.kind = "REQUEST_ENTRY" THEN "SUBMISSION_PENDING" ELSE a.entry
  BY <1>0, Fields DEF Requests
<1>3. t.kind = "REQUEST_ENTRY" => a.entry = "NOT_SUBMITTED"
  BY DEF Accepts, CanRequestEntry
<1>4. /\ x.entry = "NONE" <=> b.entry \in {"NOT_SUBMITTED", "SUBMISSION_PENDING"}
      /\ x.entry # "NONE" => b.entry = x.entry
      /\ b.entry \in {"WORKING", "FILLED", "CANCELED"} => b.entry = a.entry
  BY <1>2, <1>3 DEF Synced
<1>5. /\ b.entry \in {"WORKING", "FILLED", "CANCELED"} => b.order = Order
      /\ b.entry = "WORKING" => b.filled # Quantity
  BY <1>1, <1>4 DEF Synced
<1>6. b.filled = x.filled /\ b.exited = x.exited /\ b.protected = x.covered
  BY <1>1 DEF Synced
<1>7. b.lastAt = 0 \/ \E j \in 1..c : b.lastAt = reports[j].at
  BY <1>1 DEF Synced
<1>8. /\ \A i \in DOMAIN b.fills : \E j \in 1..c : reports[j] = b.fills[i] /\ reports[j].kind = "ENTRY_FILL"
      /\ \A i \in DOMAIN b.exits : \E j \in 1..c : reports[j] = b.exits[i] /\ reports[j].kind = "EXIT_FILL"
      /\ \A j \in 1..c : reports[j].kind = "PROTECTION_ACKNOWLEDGED" =>
           \E i \in DOMAIN b.coverage : b.coverage[i].target = reports[j].target
  BY <1>1 DEF Synced
<1>. QED BY <1>4, <1>5, <1>6, <1>7, <1>8 DEF Synced

\* What was asked for is still asked for after one more transition, be it a
\* request (c reports as before) or the next report.
LEMMA HoldsOn ==
  ASSUME NEW a, NEW b, Good(b), NEW t \in Transitions, Accepts(b, t), NEW c \in Nat, Holds(a, b, c),
         NEW d \in Nat, IF t.kind \in Requests THEN d = c ELSE d = c + 1 /\ reports[d] = t
  PROVE  Holds(a, After(b, t), d)
<1>. DEFINE b2 == After(b, t)
<1>0. b \in Attempts
  BY DEF Good
<1>1. \A i \in 1..c : i \in 1..d
  OBVIOUS
<1>2. t.kind \notin Requests => d \in 1..d /\ reports[d] = t
  OBVIOUS
<1>3. a.entry # "NOT_SUBMITTED" => b2.entry # "NOT_SUBMITTED"
  <2>1. b2.entry \in {"WORKING", "REJECTED", "FILLED", "CANCELED", "SUBMISSION_PENDING"} \/ b2.entry = b.entry
    <3>1. b2.entry = IF t.kind = "REQUEST_ENTRY" THEN "SUBMISSION_PENDING"
                     ELSE IF t.kind = "ENTRY_ACKNOWLEDGED" THEN "WORKING"
                     ELSE IF t.kind = "ENTRY_REJECTED" THEN "REJECTED"
                     ELSE IF t.kind = "ENTRY_FILL"
                     THEN IF b.filled + t.qty = Quantity THEN "FILLED" ELSE "WORKING"
                     ELSE IF t.kind = "CANCELLATION_ACKNOWLEDGED"
                     THEN IF b.filled = Quantity THEN "FILLED" ELSE "CANCELED"
                     ELSE b.entry
      BY <1>0, Fields
    <3>. QED BY <3>1
  <2>. QED BY <2>1 DEF Holds
<1>4. ASSUME a.protecting # 0, \A i \in 1..d : reports[i].kind \in Answered => reports[i].target # a.protecting
      PROVE  b2.protecting = a.protecting
  <2>1. b.protecting = a.protecting
    BY <1>1, <1>4 DEF Holds
  <2>2. b2.protecting = IF t.kind = "REQUEST_PROTECTION" THEN b.filled
                        ELSE IF t.kind \in Answered THEN 0 ELSE b.protecting
    BY <1>0, Fields
  <2>3. t.kind # "REQUEST_PROTECTION"
    BY <1>4, <2>1 DEF Accepts, CanRequestProtection
  <2>4. t.kind \notin Answered
    <3>1. t.kind \in Answered => t.target = b.protecting
      BY DEF Accepts, CanAcknowledgeProtection, CanRejectProtection, Answered
    <3>2. t.kind \in Answered => t.kind \notin Requests
      BY DEF Answered, Requests
    <3>. QED BY <1>2, <1>4, <2>1, <3>1, <3>2
  <2>. QED BY <2>1, <2>2, <2>3, <2>4
<1>5. ASSUME a.canceling, \A i \in 1..d : reports[i].kind \notin CancelAnswers
      PROVE  b2.canceling
  <2>1. b.canceling = TRUE
    <3>1. b.canceling
      BY <1>1, <1>5 DEF Holds
    <3>2. b.canceling \in BOOLEAN
      BY <1>0 DEF Attempts
    <3>. QED BY <3>1, <3>2
  <2>2. t.kind \notin CancelAnswers
    <3>1. t.kind \in CancelAnswers => t.kind \notin Requests
      BY DEF CancelAnswers, Requests
    <3>. QED BY <1>2, <1>5, <3>1
  <2>3. b2.canceling = b.canceling \/ t.kind \in {"REQUEST_CANCELLATION", "CANCELLATION_ACKNOWLEDGED", "CANCELLATION_REJECTED"}
    BY <1>0, Fields
  <2>4. t.kind = "REQUEST_CANCELLATION" => b2.canceling = TRUE
    BY <1>0, Fields
  <2>. QED BY <2>1, <2>2, <2>3, <2>4 DEF CancelAnswers
<1>. QED BY <1>3, <1>4, <1>5 DEF Holds

LEMMA HoldsOfItself == ASSUME NEW a, NEW c PROVE Holds(a, a, c)
BY DEF Holds

\* Told and Consumed count the same.
LEMMA ConsumedIsTold ==
  ASSUME IInv
  PROVE  Consumed = Told(Evidence, Len(Evidence))
<1>1. DOMAIN Evidence = 1..Len(Evidence)
  BY EvidenceIsSequence
<1>. QED BY <1>1 DEF Consumed, Told

LEMMA OrderedByTake ==
  ASSUME IInv, NEW h, NEW b, Ordered(h, b), NEW t \in Transitions, Take(t),
         t.kind \notin Requests => t \in Reports /\ Consumed + 1 \in DOMAIN reports /\ t = reports[Consumed + 1]
  PROVE  \E g : Ordered(g, b)'
<1>. DEFINE n == Len(Evidence)
<1>1. /\ Evidence \in Seq(Transitions) /\ n \in Nat /\ Len(saved) \in Nat /\ Len(saved) =< n
  BY EvidenceIsSequence
<1>2. PICK g : /\ g = Grown(h, n + 1, After(h[n], t))
               /\ Traced(g)'
  BY TakeGrows DEF Ordered
<1>3. /\ g[n + 1] = After(h[n], t)
      /\ \A i \in 0..n : g[i] = h[i]
  BY <1>1, <1>2 DEF Grown
<1>4. /\ Evidence' = Append(Evidence, t) /\ saved' = saved /\ broker' = broker /\ reports' = reports
  <2>1. saved \in Seq(Transitions) /\ unsaved \in Seq(Transitions)
    BY DEF IInv, TypeOK
  <2>2. saved \o Append(unsaved, t) = Append(saved \o unsaved, t)
    BY <2>1
  <2>. QED BY <2>2 DEF Take, Evidence
<1>5. Len(Evidence') = n + 1 /\ Evidence'[n + 1] = t /\ \A i \in 1..n : Evidence'[i] = Evidence[i]
  BY <1>1, <1>4
<1>6. Good(h[n]) /\ Accepts(h[n], t) /\ n \in 0..n
  BY <1>1 DEF Ordered, Traced, Trace, Take
<1>7. PICK c \in Nat : c = Told(Evidence, n) /\ c = Consumed
  BY <1>1, ToldSteps, ConsumedIsTold
<1>8. PICK d \in Nat : d = Told(Evidence', n + 1) /\ IF t.kind \in Requests THEN d = c ELSE d = c + 1 /\ reports[d] = t
  <2>1. Told(Evidence', n) = c
    <3>1. n \in 0..n
      BY <1>1
    <3>. QED BY <1>1, <1>5, <1>7, <3>1, ToldOfPrefix, ZenonT(30)
  <2>2. Told(Evidence', n + 1) = IF Evidence'[n + 1].kind \in Requests THEN c ELSE c + 1
    BY <1>1, <2>1, ToldSteps
  <2>. QED BY <1>5, <1>7, <2>2
<1>9. \A k \in 0..n : Told(Evidence', k) = Told(Evidence, k)
  BY <1>1, <1>5, ToldOfPrefix
<1>. HIDE DEF n
<1>10. c =< Len(reports) /\ Synced(h[n], b[c], c)
  BY <1>6, <1>7 DEF Ordered, n
<1>11. d =< Len(reports) /\ Synced(g[n + 1], b[d], d)
  <2>1. CASE t.kind \in Requests
    <3>1. d = c
      BY <1>8, <2>1
    <3>. QED BY <1>3, <1>6, <1>10, <2>1, <3>1, SyncedByRequest
  <2>2. CASE t.kind \notin Requests
    <3>1. d = c + 1 /\ t = reports[c + 1] /\ t \in Reports /\ c + 1 \in 1..Len(reports)
      BY <1>7, <1>8, <2>2 DEF IInv, TypeOK
    <3>2. Moves(b[c], b[c + 1], t)
      <4>1. (c + 1) - 1 = c
        OBVIOUS
      <4>. QED BY <3>1, <4>1 DEF Ordered, History
    <3>3. Synced(After(h[n], t), b[c + 1], c + 1)
      BY <1>6, <1>10, <3>1, <3>2, SyncedByReport
    <3>. QED BY <1>3, <3>1, <3>3
  <2>. QED BY <2>1, <2>2
<1>12. ASSUME NEW k \in 0..(n + 1)
       PROVE  Told(Evidence', k) =< Len(reports) /\ Synced(g[k], b[Told(Evidence', k)], Told(Evidence', k))
  <2>1. CASE k \in 0..n
    BY <1>3, <1>9, <2>1 DEF Ordered, n
  <2>2. CASE k = n + 1
    BY <1>8, <1>11, <2>2
  <2>. QED BY <1>1, <2>1, <2>2
<1>13. ASSUME NEW j \in 0..(n + 1), NEW k \in j..(n + 1)
       PROVE  Holds(g[j], g[k], Told(Evidence', k))
  <2>1. CASE k \in 0..n
    <3>1. j \in 0..n /\ k \in j..n
      BY <1>1, <2>1
    <3>. QED BY <1>3, <1>9, <2>1, <3>1 DEF Ordered, n
  <2>2. CASE k = n + 1 /\ j \in 0..n
    <3>1. n \in j..n
      BY <1>1, <2>2
    <3>2. Holds(h[j], h[n], c)
      BY <1>7, <2>2, <3>1 DEF Ordered, n
    <3>3. Holds(h[j], After(h[n], t), d)
      BY <1>6, <1>8, <3>2, HoldsOn
    <3>. QED BY <1>3, <1>8, <2>2, <3>3
  <2>3. CASE k = n + 1 /\ j = n + 1
    BY <2>3, HoldsOfItself
  <2>. QED BY <1>1, <2>1, <2>2, <2>3
<1>14. ASSUME NEW i \in 1..Len(reports)
       PROVE  \E s \in 0..Len(saved) : Told(Evidence', s) < i /\ Asked(g[s], reports[i])
  <2>1. PICK s \in 0..Len(saved) : Told(Evidence, s) < i /\ Asked(h[s], reports[i])
    BY DEF Ordered
  <2>2. s \in 0..n
    BY <1>1 DEF n
  <2>. QED BY <1>3, <1>9, <2>1, <2>2
<1>15. History(b)' /\ \A i \in 1..Len(reports) : Follows(reports[i], i - 1)
  BY <1>4 DEF Ordered, History
<1>16. (\A i \in 1..Len(reports) : Follows(reports[i], i - 1))'
  BY <1>4, <1>15 DEF Follows
<1>17. (\A i \in 1..Len(reports) : \E s \in 0..Len(saved) : Told(Evidence, s) < i /\ Asked(g[s], reports[i]))'
  BY <1>4, <1>14
<1>18. (\A k \in 0..Len(Evidence) :
          Told(Evidence, k) =< Len(reports) /\ Synced(g[k], b[Told(Evidence, k)], Told(Evidence, k)))'
  BY <1>4, <1>5, <1>12 DEF Synced, n
<1>19. (\A j \in 0..Len(Evidence) : \A k \in j..Len(Evidence) : Holds(g[j], g[k], Told(Evidence, k)))'
  BY <1>4, <1>5, <1>13 DEF Holds, n
<1>20. Ordered(g, b)'
  BY <1>2, <1>15, <1>16, <1>17, <1>18, <1>19 DEF Ordered
<1>. QED BY <1>20

LEMMA OrderedByRest ==
  ASSUME IInv, IInv', NEW h, NEW b, Ordered(h, b), Save \/ Crash \/ Replay \/ UNCHANGED vars
  PROVE  \E g : Ordered(g, b)'
<1>1. PICK g : /\ g = [i \in 0..Len(Evidence') |-> h[i]]
               /\ Len(Evidence') =< Len(Evidence)
               /\ Traced(g)'
  <2>1. UNCHANGED vars => UNCHANGED owner
    BY DEF vars, owner
  <2>. QED BY <2>1, RestGrows DEF Ordered
<1>2. broker' = broker /\ reports' = reports
  BY DEF Save, Crash, Replay, vars
<1>3. PICK n \in Nat, m \in Nat, p \in Nat, q \in Nat :
        /\ n = Len(Evidence) /\ m = Len(Evidence') /\ p = Len(saved) /\ q = Len(saved')
        /\ m =< n /\ p =< q /\ q =< m /\ p =< n
  <2>1. /\ Len(Evidence) \in Nat /\ Len(saved) \in Nat /\ Len(saved) =< Len(Evidence)
    BY EvidenceIsSequence
  <2>2. /\ Len(Evidence') \in Nat /\ Len(saved') \in Nat /\ Len(saved') =< Len(Evidence')
    BY DEF IInv, TypeOK, Evidence
  <2>3. Len(saved) =< Len(saved')
    BY <2>1 DEF Save, Crash, Replay, vars
  <2>. QED BY <1>1, <2>1, <2>2, <2>3
<1>4. \A i \in 0..m : g[i] = h[i] /\ i \in 0..n
  BY <1>1, <1>3
<1>5. \A i \in 1..m : Evidence'[i] = Evidence[i] /\ i \in 1..n
  <2>1. saved \in Seq(Transitions) /\ unsaved \in Seq(Transitions)
    BY DEF IInv, TypeOK
  <2>2. Evidence' = Evidence \/ Evidence' = saved
    <3>1. Save => Evidence' = Evidence \o <<>>
      BY DEF Save, Evidence
    <3>2. Crash => Evidence' = saved \o <<>>
      BY DEF Crash, Evidence
    <3>3. Replay \/ UNCHANGED vars => Evidence' = Evidence
      BY DEF Replay, vars, Evidence
    <3>4. Evidence \o <<>> = Evidence /\ saved \o <<>> = saved
      BY <2>1 DEF Evidence
    <3>. QED BY <3>1, <3>2, <3>3, <3>4
  <2>3. \A i \in 1..Len(saved) : Evidence[i] = saved[i]
    BY EvidenceIsSequence
  <2>. QED BY <1>3, <2>2, <2>3
<1>6. \A k \in 0..m : Told(Evidence', k) = Told(Evidence, k)
  <2>1. m \in Nat /\ \A i \in 1..m : Evidence'[i] = Evidence[i]
    BY <1>5
  <2>. QED BY <2>1, ToldOfPrefix
<1>7. \A k \in 0..m :
        Told(Evidence', k) =< Len(reports) /\ Synced(g[k], b[Told(Evidence', k)], Told(Evidence', k))
  BY <1>3, <1>4, <1>6 DEF Ordered
<1>8. ASSUME NEW j \in 0..m, NEW k \in j..m
      PROVE  Holds(g[j], g[k], Told(Evidence', k))
  <2>1. k \in 0..m /\ j \in 0..n /\ k \in j..n
    BY <1>3
  <2>. QED BY <1>3, <1>4, <1>6, <2>1 DEF Ordered
<1>9. ASSUME NEW i \in 1..Len(reports)
      PROVE  \E s \in 0..q : Told(Evidence', s) < i /\ Asked(g[s], reports[i])
  <2>1. PICK s \in 0..Len(saved) : Told(Evidence, s) < i /\ Asked(h[s], reports[i])
    BY DEF Ordered
  <2>2. s \in 0..q /\ s \in 0..m
    BY <1>3
  <2>. QED BY <1>4, <1>6, <2>1, <2>2
<1>10. History(b)' /\ \A i \in 1..Len(reports) : Follows(reports[i], i - 1)
  BY <1>2 DEF Ordered, History
<1>11. (\A i \in 1..Len(reports) : Follows(reports[i], i - 1))'
  BY <1>2, <1>10 DEF Follows
<1>12. (\A i \in 1..Len(reports) : \E s \in 0..Len(saved) : Told(Evidence, s) < i /\ Asked(g[s], reports[i]))'
  BY <1>2, <1>3, <1>9
<1>13. (\A k \in 0..Len(Evidence) :
          Told(Evidence, k) =< Len(reports) /\ Synced(g[k], b[Told(Evidence, k)], Told(Evidence, k)))'
  BY <1>2, <1>3, <1>7 DEF Synced
<1>14. (\A j \in 0..Len(Evidence) : \A k \in j..Len(Evidence) : Holds(g[j], g[k], Told(Evidence, k)))'
  BY <1>2, <1>3, <1>8 DEF Holds
<1>15. Ordered(g, b)'
  BY <1>1, <1>10, <1>11, <1>12, <1>13, <1>14 DEF Ordered
<1>. QED BY <1>15

\* A report of the broker comes after the others, and its cause is stored.
LEMMA ReportFollows ==
  ASSUME IInv, BrokerInv, NEW r \in Reports, Does(r), \A j \in DOMAIN reports : reports[j].at =< Now
  PROVE  Follows(r, Len(reports)) /\ Asked(stored, r)
<1>1. DOMAIN reports = 1..Len(reports)
  BY DEF IInv, TypeOK
<1>2. \A j \in 1..Len(reports) : reports[j].at =< r.at
  BY <1>1 DEF Does
<1>3. r.kind \in FillKinds => \A j \in 1..Len(reports) : reports[j].kind = r.kind => reports[j].id # r.id
  BY <1>1, FreshFill
<1>4. r.kind = "EXIT_FILL" =>
        \E j \in 1..Len(reports) : reports[j].kind = "PROTECTION_ACKNOWLEDGED" /\ reports[j].target = r.target
  BY <1>1 DEF Does, Acks, Targets, Reported
<1>5. r.kind \in Answered =>
        \A j \in 1..Len(reports) : reports[j].kind \in Answered => reports[j].target # r.target
  BY <1>1 DEF Does, Coverable, Answered, Targets, Reported
<1>6. r.kind \in CancelAnswers => stored.canceling /\ \A j \in 1..Len(reports) : reports[j].kind \notin CancelAnswers
  BY <1>1 DEF Does, Cancelable, CancelAnswers, Reported
<1>7. r.kind \in Answered => stored.protecting = r.target /\ stored.protecting # 0
  BY Unanswered DEF Does
<1>8. r.kind \in {"ENTRY_ACKNOWLEDGED", "ENTRY_REJECTED"} => stored.entry # "NOT_SUBMITTED"
  BY DEF Does
<1>. QED BY <1>2, <1>3, <1>4, <1>5, <1>6, <1>7, <1>8 DEF Follows, Asked

LEMMA OrderedByReport ==
  ASSUME IInv, BrokerInv, Agreed(stored), NEW h, NEW b, Ordered(h, b), NEW r \in Reports, Does(r),
         \A j \in DOMAIN reports : reports[j].at =< Now
  PROVE  \E b2 : Ordered(h, b2)'
<1>0. UNCHANGED owner
  BY DEF Does
<1>1. /\ Evidence' = Evidence /\ saved' = saved /\ stored' = stored
      /\ reports' = Append(reports, r)
  BY DEF Does, owner, Evidence
<1>2. PICK n \in Nat, p \in Nat, m \in Nat : n = Len(Evidence) /\ p = Len(saved) /\ p =< n /\ m = Len(reports)
  BY EvidenceIsSequence DEF IInv, TypeOK
<1>3. /\ Len(reports') = m + 1 /\ reports'[m + 1] = r
      /\ \A i \in 1..m : reports'[i] = reports[i]
  BY <1>1, <1>2 DEF IInv, TypeOK
<1>4. Traced(h)'
  <2>1. Trace(h, Evidence)'
    BY <1>1 DEF Ordered, Traced
  <2>2. attempt' = attempt /\ unsaved' = unsaved /\ replay' = replay
    BY <1>0 DEF owner
  <2>. QED BY <1>1, <2>1, <2>2 DEF Ordered, Traced
<1>5. Follows(r, m) /\ Asked(stored, r)
  BY <1>2, ReportFollows
<1>6. PICK y : y = broker'
  OBVIOUS
<1>7. Moves(broker, y, r)
  <2>1. r.kind = "PROTECTION_ACKNOWLEDGED" => y.covered = r.target
    <3>1. r.kind = "PROTECTION_ACKNOWLEDGED" => r.target = stored.protecting
      BY DEF Does, Answered
    <3>. QED BY <1>6, <3>1, CoversExactly
  <2>2. r.kind = "EXIT_FILL" => r.target =< broker.covered
    BY DEF Does, BrokerInv
  <2>3. broker.covered \in Int /\ broker.filled \in Nat /\ broker.exited \in Nat
    BY DEF IInv, TypeOK
  <2>. QED BY <1>6, <2>1, <2>2, <2>3 DEF Does, Moves
<1>8. PICK b2 : b2 = [i \in 0..(m + 1) |-> IF i =< m THEN b[i] ELSE y]
  OBVIOUS
<1>9. b2[m + 1] = y /\ \A i \in 0..m : b2[i] = b[i]
  BY <1>8
<1>10. b[m] = broker
  BY <1>2 DEF Ordered, History
<1>11. ASSUME NEW i \in 1..(m + 1) PROVE Moves(b2[i - 1], b2[i], reports'[i])
  <2>1. CASE i \in 1..m
    <3>1. i - 1 \in 0..m /\ i \in 0..m
      BY <2>1
    <3>. QED BY <1>2, <1>3, <1>9, <2>1, <3>1 DEF Ordered, History
  <2>2. CASE i = m + 1
    <3>1. i - 1 = m /\ m \in 0..m
      BY <2>2
    <3>. QED BY <1>3, <1>7, <1>9, <1>10, <2>2, <3>1
  <2>. QED BY <2>1, <2>2
<1>12. History(b2)'
  <2>1. DOMAIN b2 = 0..Len(reports') /\ b2[Len(reports')] = broker'
    BY <1>3, <1>6, <1>8, <1>9
  <2>2. b2[0] = b[0]
    BY <1>9
  <2>. QED BY <1>3, <1>11, <2>1, <2>2 DEF Ordered, History
<1>13. ASSUME NEW x, NEW i \in 0..m, Follows(x, i)
       PROVE  Follows(x, i)'
  <2>1. \A j \in 1..i : reports'[j] = reports[j]
    BY <1>3
  <2>. QED BY <1>13, <2>1 DEF Follows
<1>14. ASSUME NEW i \in 1..(m + 1), NEW x, x = reports'[i]
       PROVE  Follows(x, i - 1)'
  <2>1. i - 1 \in 0..m
    OBVIOUS
  <2>2. CASE i \in 1..m
    <3>1. Follows(x, i - 1)
      BY <1>2, <1>3, <1>14, <2>2 DEF Ordered
    <3>. QED BY <1>13, <2>1, <3>1
  <2>3. CASE i = m + 1
    <3>1. i - 1 = m /\ x = r /\ m \in 0..m
      BY <1>3, <1>14, <2>3
    <3>2. Follows(x, i - 1)
      BY <1>5, <3>1
    <3>. QED BY <1>13, <2>1, <3>2
  <2>. QED BY <2>2, <2>3
<1>15. (\A i \in 1..Len(reports) : Follows(reports[i], i - 1))'
  BY <1>3, <1>14 DEF Follows
<1>16. \A k \in 0..n : Told(Evidence, k) \in Nat /\ Told(Evidence, k) =< m /\ Synced(h[k], b[Told(Evidence, k)], Told(Evidence, k))
  BY <1>2, ToldSteps DEF Ordered
<1>17. ASSUME NEW k \in 0..n
       PROVE  Told(Evidence, k) =< Len(reports') /\ Synced(h[k], b2[Told(Evidence, k)], Told(Evidence, k))'
  <2>1. PICK c \in 0..m : c = Told(Evidence, k) /\ Synced(h[k], b[c], c) /\ b2[c] = b[c]
    BY <1>9, <1>16
  <2>2. \A j \in 1..c : reports'[j] = reports[j]
    BY <1>3
  <2>3. Told(Evidence, k)' = c
    BY <1>1, <2>1 DEF Told
  <2>4. Synced(h[k], b2[c], c)'
    BY <2>1, <2>2 DEF Synced
  <2>5. Synced(h[k], b2[Told(Evidence, k)], Told(Evidence, k))'
    BY <2>3, <2>4 DEF Synced
  <2>. QED BY <1>3, <2>1, <2>5
<1>18. (\A k \in 0..Len(Evidence) :
          Told(Evidence, k) =< Len(reports) /\ Synced(h[k], b2[Told(Evidence, k)], Told(Evidence, k)))'
  <2>1. 0..Len(Evidence)' = 0..n
    BY <1>1, <1>2
  <2>2. (\A k \in 0..Len(Evidence) : Told(Evidence, k) =< Len(reports))'
    BY <1>1, <1>2, <1>17 DEF Told
  <2>3. (\A k \in 0..Len(Evidence) : Synced(h[k], b2[Told(Evidence, k)], Told(Evidence, k)))'
    BY <1>17, <2>1 DEF Synced
  <2>. QED BY <2>2, <2>3 DEF Synced
<1>19. ASSUME NEW j \in 0..n, NEW k \in j..n
       PROVE  Holds(h[j], h[k], Told(Evidence, k))'
  <2>0. k \in 0..n
    OBVIOUS
  <2>1. PICK c \in 0..m : c = Told(Evidence, k) /\ Holds(h[j], h[k], c)
    BY <1>2, <1>16, <2>0 DEF Ordered
  <2>2. \A i \in 1..c : reports'[i] = reports[i]
    BY <1>3
  <2>3. Told(Evidence, k)' = c
    BY <1>1, <2>1 DEF Told
  <2>. QED BY <2>1, <2>2, <2>3 DEF Holds
<1>20. (\A j \in 0..Len(Evidence) : \A k \in j..Len(Evidence) : Holds(h[j], h[k], Told(Evidence, k)))'
  BY <1>1, <1>2, <1>19 DEF Holds, Told
<1>21. ASSUME NEW i \in 1..(m + 1)
       PROVE  \E s \in 0..p : Told(Evidence, s) < i /\ Asked(h[s], reports'[i])
  <2>1. CASE i \in 1..m
    BY <1>2, <1>3, <2>1 DEF Ordered
  <2>2. CASE i = m + 1
    <3>1. p \in 0..n /\ stored = h[p] /\ Told(Evidence, p) \in Nat /\ Told(Evidence, p) =< m
      BY <1>2, <1>16 DEF Ordered, Traced
    <3>. QED BY <1>3, <1>5, <2>2, <3>1
  <2>. QED BY <2>1, <2>2
<1>22. (\A i \in 1..Len(reports) : \E s \in 0..Len(saved) : Told(Evidence, s) < i /\ Asked(h[s], reports[i]))'
  BY <1>1, <1>2, <1>3, <1>21 DEF Told
<1>23. Ordered(h, b2)'
  BY <1>4, <1>12, <1>15, <1>18, <1>20, <1>22 DEF Ordered
<1>. QED BY <1>23

\* The broker's clock does not go back.
ClockInv == \A j \in DOMAIN reports : reports[j].at =< Now

LEMMA ClockGoesOn ==
  ASSUME IInv, ClockInv, NEW r \in Reports, Does(r)
  PROVE  ClockInv'
<1>1. PICK m \in Nat : m = Len(reports) /\ Now = 1 + (m \div 2)
  BY DEF IInv, TypeOK, Now
<1>2. Len(reports') = m + 1
  BY <1>1 DEF IInv, TypeOK, Does
<1>3. Now' = 1 + ((m + 1) \div 2)
  BY <1>2 DEF Now
<1>4. m \div 2 =< (m + 1) \div 2 /\ m \div 2 \in Nat /\ (m + 1) \div 2 \in Nat
  OBVIOUS
<1>5. \A j \in DOMAIN reports : reports[j].at \in Nat
  <2>1. \A j \in DOMAIN reports : reports[j] \in Reports
    BY Element DEF IInv, TypeOK
  <2>2. \A x \in Reports : x.at \in Nat
    BY DEF Reports
  <2>. QED BY <2>1, <2>2
<1>6. ASSUME NEW j \in DOMAIN reports' PROVE reports'[j].at =< Now'
  <2>1. CASE j \in DOMAIN reports
    <3>1. reports'[j] = reports[j] /\ reports[j].at =< Now
      BY <2>1, ReportsGrow DEF ClockInv
    <3>. QED BY <1>1, <1>3, <1>4, <1>5, <2>1, <3>1
  <2>2. CASE j = Len(reports) + 1
    <3>1. reports'[j] = r /\ r.at = Now
      BY <2>2, ReportsGrow DEF Does
    <3>. QED BY <1>1, <1>3, <1>4, <3>1
  <2>. QED BY <2>1, <2>2, ReportsGrow
<1>. QED BY <1>6 DEF ClockInv

\* The steps of the owner when the reports are delivered in order.
LEMMA TakesInOrder ==
  ASSUME IInv, inOrder, OwnerNext
  PROVE  \/ \E t \in Transitions :
              /\ Take(t)
              /\ t.kind \notin Requests => t \in Reports /\ Consumed + 1 \in DOMAIN reports /\ t = reports[Consumed + 1]
         \/ Save \/ Crash \/ Replay
<1>1. \A i \in DOMAIN reports : reports[i] \in Transitions /\ reports[i] \in Reports
  BY Element DEF IInv, TypeOK, Transitions
<1>2. /\ [kind |-> "REQUEST_PROTECTION"] \in Transitions /\ [kind |-> "REQUEST_CANCELLATION"] \in Transitions
      /\ \A c \in Adapters : [kind |-> "REQUEST_ENTRY", capabilities |-> c] \in Transitions
  BY DEF Transitions
<1>3. ASSUME NEW i \in DOMAIN reports, Deliver(i)
      PROVE  Take(reports[i]) /\ i = Consumed + 1
  BY <1>3 DEF Deliver
<1>4. ASSUME NEW c \in Adapters, Take([kind |-> "REQUEST_ENTRY", capabilities |-> c])
      PROVE  \E t \in Transitions : t.kind \in Requests /\ Take(t)
  BY <1>2, <1>4 DEF Requests
<1>5. ASSUME RequestProtection \/ RequestCancellation
      PROVE  \E t \in Transitions : t.kind \in Requests /\ Take(t)
  BY <1>2, <1>5 DEF Requests, RequestProtection, RequestCancellation
<1>. QED BY <1>1, <1>3, <1>4, <1>5 DEF OwnerNext, RequestEntry

THEOREM OrderInvariant == Spec => [](ClockInv /\ OrderInv)
<1>1. Init => ClockInv /\ OrderInv
  <2>. SUFFICES ASSUME Init PROVE ClockInv /\ OrderInv
    OBVIOUS
  <2>2. PICK h : h = [i \in 0..0 |-> NewAttempt]
    OBVIOUS
  <2>3. Evidence = <<>> /\ Len(Evidence) = 0 /\ saved = <<>> /\ reports = <<>> /\ Len(saved) = 0 /\ Len(reports) = 0
    BY DEF Init, Evidence
  <2>4. DOMAIN h = 0..0 /\ h[0] = NewAttempt /\ 1..0 = {} /\ 0 \in 0..0 /\ \A i \in 0..0 : i = 0
    BY <2>2
  <2>5. Trace(h, Evidence)
    BY <2>3, <2>4, NewIsGood DEF Trace
  <2>6. Traced(h)
    BY <2>3, <2>4, <2>5 DEF Init, Traced
  <2>7. PICK b : b = [i \in 0..0 |-> broker]
    OBVIOUS
  <2>8. broker = [entry |-> "NONE", filled |-> 0, covered |-> 0, exited |-> 0]
    BY DEF Init
  <2>9. DOMAIN b = 0..0 /\ b[0] = broker
    BY <2>4, <2>7
  <2>10. History(b)
    BY <2>3, <2>4, <2>8, <2>9 DEF History
  <2>11. Told(Evidence, 0) = 0
    BY ToldSteps
  <2>12. Synced(NewAttempt, broker, 0)
    <3>1. DOMAIN <<>> = {} /\ NewAttempt.fills = <<>> /\ NewAttempt.exits = <<>>
      BY DEF NewAttempt
    <3>. QED BY <2>4, <2>8, <3>1 DEF Synced, NewAttempt
  <2>13. \A k \in 0..Len(Evidence) :
           Told(Evidence, k) =< Len(reports) /\ Synced(h[k], b[Told(Evidence, k)], Told(Evidence, k))
    BY <2>3, <2>4, <2>9, <2>11, <2>12
  <2>14. \A j \in 0..Len(Evidence) : \A k \in j..Len(Evidence) : Holds(h[j], h[k], Told(Evidence, k))
    <3>. SUFFICES ASSUME NEW j \in 0..Len(Evidence), NEW k \in j..Len(Evidence)
                  PROVE  Holds(h[j], h[k], Told(Evidence, k))
      OBVIOUS
    <3>1. j = 0 /\ k = 0
      BY <2>3
    <3>. QED BY <3>1, HoldsOfItself
  <2>15. Ordered(h, b)
    BY <2>3, <2>4, <2>6, <2>10, <2>13, <2>14 DEF Ordered
  <2>16. DOMAIN reports = {}
    BY <2>3
  <2>. QED BY <2>15, <2>16 DEF OrderInv, ClockInv
<1>2. FactsInv /\ FactsInv' /\ ClockInv /\ OrderInv /\ [Next]_vars => (ClockInv /\ OrderInv)'
  <2>. SUFFICES ASSUME FactsInv, FactsInv', ClockInv, OrderInv, [Next]_vars PROVE (ClockInv /\ OrderInv)'
    OBVIOUS
  <2>1. IInv /\ IInv' /\ BrokerInv
    BY DEF FactsInv
  <2>2. Agreed(stored)
    <3>1. PICK h, fm, xm : Facts(h, fm, xm)
      BY DEF FactsInv
    <3>2. Len(saved) \in Len(saved)..Len(Evidence)
      BY <2>1, EvidenceIsSequence
    <3>. QED BY <3>1, <3>2 DEF Facts, Traced
  <2>3. inOrder' = inOrder
    <3>1. CASE BrokerNext
      <4>1. PICK r \in Reports : Does(r)
        BY <2>1, <3>1, BrokerSteps
      <4>. QED BY <4>1 DEF Does
    <3>2. CASE OwnerNext \/ UNCHANGED vars
      BY <3>2 DEF OwnerNext, RequestEntry, RequestProtection, RequestCancellation, Deliver, Take,
                  Save, Crash, Replay, vars
    <3>. QED BY <3>1, <3>2 DEF Next
  <2>4. CASE BrokerNext
    <3>1. PICK r \in Reports : Does(r)
      BY <2>1, <2>4, BrokerSteps
    <3>2. ClockInv'
      BY <2>1, <3>1, ClockGoesOn
    <3>3. ASSUME inOrder PROVE \E g, b2 : Ordered(g, b2)'
      <4>1. PICK h, b : Ordered(h, b)
        BY <3>3 DEF OrderInv
      <4>. QED BY <2>1, <2>2, <3>1, <4>1, OrderedByReport DEF ClockInv
    <3>4. OrderInv'
      BY <2>3, <3>3 DEF OrderInv
    <3>. QED BY <3>2, <3>4
  <2>5. CASE OwnerNext \/ UNCHANGED vars
    <3>1. reports' = reports
      BY <2>5 DEF OwnerNext, RequestEntry, RequestProtection, RequestCancellation, Deliver, Take,
                  Save, Crash, Replay, vars
    <3>2. ClockInv'
      BY <3>1 DEF ClockInv, Now
    <3>3. ASSUME inOrder PROVE \E g, b2 : Ordered(g, b2)'
      <4>1. PICK h, b : Ordered(h, b)
        BY <3>3 DEF OrderInv
      <4>2. ASSUME NEW t \in Transitions, Take(t),
                   t.kind \notin Requests => t \in Reports /\ Consumed + 1 \in DOMAIN reports /\ t = reports[Consumed + 1]
            PROVE  \E g, b2 : Ordered(g, b2)'
        BY <2>1, <4>1, <4>2, OrderedByTake
      <4>3. ASSUME Save \/ Crash \/ Replay \/ UNCHANGED vars
            PROVE  \E g, b2 : Ordered(g, b2)'
        BY <2>1, <4>1, <4>3, OrderedByRest
      <4>. QED BY <2>1, <2>5, <3>3, <4>2, <4>3, TakesInOrder
    <3>4. OrderInv'
      BY <2>3, <3>3 DEF OrderInv
    <3>. QED BY <3>2, <3>4
  <2>. QED BY <2>4, <2>5 DEF Next
<1>. QED BY <1>1, <1>2, FactsInvariant, PTL DEF Spec

\* Delivered in order, no report of the broker is refused, also after crashes
\* that make reports due again.
THEOREM HonestReportsHold == Spec => []HonestReportsAreAccepted
<1>1. FactsInv /\ OrderInv => HonestReportsAreAccepted
  <2>. SUFFICES ASSUME IInv, OrderInv, inOrder, replay = 0, Consumed < Len(reports)
                PROVE  Accepts(attempt, reports[Consumed + 1])
    BY DEF FactsInv, HonestReportsAreAccepted
  <2>1. PICK h, b : Ordered(h, b)
    BY DEF OrderInv
  <2>2. PICK n \in Nat, p \in Nat, m \in Nat : n = Len(Evidence) /\ p = Len(saved) /\ p =< n /\ m = Len(reports)
    BY EvidenceIsSequence DEF IInv, TypeOK
  <2>3. PICK c \in Nat : c = Consumed /\ c = Told(Evidence, n)
    BY <2>2, ToldSteps, ConsumedIsTold
  <2>4. attempt = h[n] /\ n \in 0..n
    BY <2>1, <2>2 DEF Ordered, Traced
  <2>5. c < m /\ c + 1 \in 1..m /\ (c + 1) - 1 = c
    BY <2>2, <2>3
  <2>6. Synced(attempt, b[c], c)
    BY <2>1, <2>2, <2>3, <2>4 DEF Ordered
  <2>7. PICK r \in Reports : r = reports[c + 1]
    BY <2>2, <2>5, Element DEF IInv, TypeOK
  <2>8. Moves(b[c], b[c + 1], r) /\ Follows(r, c)
    BY <2>1, <2>2, <2>5, <2>7 DEF Ordered, History
  <2>9. PICK s \in 0..p : Asked(h[s], r)
    BY <2>1, <2>2, <2>5, <2>7 DEF Ordered
  <2>10. Holds(h[s], attempt, c)
    <3>1. s \in 0..n /\ n \in s..n
      BY <2>2
    <3>. QED BY <2>1, <2>2, <2>3, <2>4, <3>1 DEF Ordered
  <2>11. Asked(attempt, r)
    BY <2>8, <2>9, <2>10, StillAsked
  <2>12. Accepts(attempt, r)
    BY <2>2, <2>5, <2>6, <2>8, <2>11, NextIsAccepted DEF IInv
  <2>. QED BY <2>3, <2>7, <2>12
<1>. QED BY <1>1, FactsInvariant, OrderInvariant, PTL
-----------------------------------------------------------------------------
(* What a restoration of any beginning of the evidence gives.  Restore is a     *)
(* fold, and its function on sets of positions is unfolded from the greatest    *)
(* position down.                                                               *)

\* One iteration of the loop of recovery.ts.
Replayed(a, t) ==
  IF a = Refused THEN Refused ELSE IF Repeats(a, t) THEN a ELSE IF Accepts(a, t) THEN After(a, t) ELSE Refused

\* What Restore is computed by.
Folds(e, S, g) ==
  g = [s \in SUBSET S |-> IF s = {} THEN NewAttempt ELSE Replayed(g[s \ {Max(s)}], e[Max(s)])]

LEMMA RestoreIsFold ==
  ASSUME NEW e
  PROVE  Restore(e) = (CHOOSE g : Folds(e, DOMAIN e, g))[DOMAIN e]
BY DEF Restore, FoldLeft, MapThenFoldSet, Folds, Replayed

LEMMA FoldExists ==
  ASSUME NEW e, NEW S, IsFiniteSet(S), \A s \in SUBSET S : s # {} => Max(s) \in s
  PROVE  \E g : Folds(e, S, g)
<1>. DEFINE Small(k) == {s \in SUBSET S : Cardinality(s) =< k}
            Less(s) == s \ {Max(s)}
            Value(g, s) == Replayed(g[Less(s)], e[Max(s)])
            Up(k, g) == g = [s \in Small(k) |-> IF s = {} THEN NewAttempt ELSE Value(g, s)]
            T == {k \in Nat : \E g : Up(k, g)}
<1>. DEFINE n == Cardinality(S)
<1>0. \A s \in SUBSET S : /\ Cardinality(s) \in Nat /\ Cardinality(s) =< n /\ (Cardinality(s) = 0 <=> s = {})
                          /\ s # {} => Less(s) \in SUBSET S /\ Cardinality(Less(s)) = Cardinality(s) - 1
  BY Sizes
<1>n. n \in Nat
  BY Sizes
<1>. HIDE DEF n
<1>1. 0 \in T
  <2>1. Up(0, [s \in Small(0) |-> NewAttempt])
    <3>1. \A s \in Small(0) : s = {}
      <4>. HIDE DEF Less
      <4>. QED BY <1>0
    <3>. HIDE DEF Small
    <3>. QED BY <3>1
  <2>. QED BY <2>1
<1>2. ASSUME NEW k \in Nat, NEW g, Up(k, g) PROVE \E h : Up(k + 1, h)
  <2>1. PICK h : h = [s \in Small(k + 1) |-> IF s = {} THEN NewAttempt ELSE Value(g, s)]
    OBVIOUS
  <2>2. \A s \in Small(k) : s \in Small(k + 1)
    <3>. HIDE DEF Less
    <3>. QED BY <1>0
  <2>3. \A s \in Small(k + 1) : s # {} => Less(s) \in Small(k)
    <3>. HIDE DEF Less
    <3>. QED BY <1>0
  <2>4. \A s \in Small(k) : h[s] = g[s]
    <3>. HIDE DEF Small, Value
    <3>. QED BY <1>2, <2>1, <2>2
  <2>5. \A s \in Small(k + 1) : s # {} => Value(g, s) = Value(h, s)
    <3>1. \A s \in Small(k + 1) : s # {} => g[Less(s)] = h[Less(s)]
      <4>. HIDE DEF Small, Less
      <4>. QED BY <2>3, <2>4
    <3>. HIDE DEF Small, Less
    <3>. QED BY <3>1
  <2>6. Up(k + 1, h)
    <3>. HIDE DEF Small, Value
    <3>. QED BY <2>1, <2>5
  <2>. QED BY <2>6
<1>3. \A k \in Nat : k \in T => k + 1 \in T
  <2>. HIDE DEF Up
  <2>. QED BY <1>2
<1>4. n \in T
  <2>1. \A k \in Nat : k \in T
    <3>. HIDE DEF T
    <3>. QED BY <1>1, <1>3, Inductive
  <2>. HIDE DEF T
  <2>. QED BY <1>n, <2>1
<1>5. PICK g : Up(n, g)
  BY <1>4
<1>6. Small(n) = SUBSET S
  BY <1>0
<1>7. Folds(e, S, g)
  BY <1>5, <1>6 DEF Folds
<1>. QED BY <1>7

\* Replaying evidence gives the attempt its trace ends with.
LEMMA RestoreFollowsTrace ==
  ASSUME NEW e \in Seq(Transitions), NEW h, Trace(h, e)
  PROVE  Restore(e) = h[Len(e)]
<1>1. PICK n \in Nat : n = Len(e) /\ DOMAIN e = 1..n
  OBVIOUS
<1>2. PICK g : g = CHOOSE f : Folds(e, 1..n, f)
  OBVIOUS
<1>3. Folds(e, 1..n, g)
  <2>1. IsFiniteSet(1..n)
    BY FS_Interval
  <2>2. \E f : Folds(e, 1..n, f)
    BY <2>1, FoldExists, Greatest
  <2>. QED BY <1>2, <2>2
<1>. DEFINE T == {i \in Nat : i =< n => g[1..i] = h[i]}
<1>4. 0 \in T
  <2>1. 1..0 = {} /\ {} \in SUBSET (1..n)
    OBVIOUS
  <2>2. g[{}] = NewAttempt
    BY <1>3, <2>1 DEF Folds
  <2>. QED BY <2>1, <2>2 DEF Trace
<1>5. ASSUME NEW i \in Nat, i \in T PROVE i + 1 \in T
  <2>. SUFFICES ASSUME i + 1 =< n PROVE g[1..(i + 1)] = h[i + 1]
    OBVIOUS
  <2>1. PICK s : s = 1..(i + 1)
    OBVIOUS
  <2>2. s \in SUBSET (1..n) /\ s # {} /\ i + 1 \in s
    <3>1. \A k \in 1..(i + 1) : k \in 1..n
      OBVIOUS
    <3>2. i + 1 \in 1..(i + 1)
      OBVIOUS
    <3>. QED BY <2>1, <3>1, <3>2, Zenon
  <2>3. Max(s) = i + 1
    <3>1. PICK m : m = Max(s)
      OBVIOUS
    <3>2. m \in s /\ \A k \in s : k =< m
      BY <2>2, <3>1, Greatest
    <3>. QED BY <2>1, <2>2, <3>1, <3>2
  <2>4. s \ {Max(s)} = 1..i
    BY <2>1, <2>3
  <2>5. g[s] = Replayed(g[s \ {Max(s)}], e[Max(s)])
    BY <1>3, <2>2, Zenon DEF Folds
  <2>6. g[s] = Replayed(h[i], e[i + 1])
    <3>1. g[1..i] = h[i]
      BY <1>5
    <3>. QED BY <2>3, <2>4, <2>5, <3>1, Zenon
  <2>7. i + 1 \in 1..n /\ i \in 0..n /\ (i + 1) - 1 = i
    OBVIOUS
  <2>8. /\ ~Repeats(h[i], e[i + 1]) /\ Accepts(h[i], e[i + 1]) /\ h[i + 1] = After(h[i], e[i + 1])
        /\ Good(h[i])
    BY <1>1, <2>7 DEF Trace
  <2>9. h[i] # Refused
    BY <2>8, RefusedAssumption DEF Good
  <2>. QED BY <2>1, <2>6, <2>8, <2>9 DEF Replayed
<1>6. n \in T
  <2>. HIDE DEF T
  <2>1. \A i \in Nat : i \in T
    BY <1>4, <1>5, Inductive
  <2>. QED BY <2>1
<1>7. Restore(e) = g[1..n]
  BY <1>1, <1>2, RestoreIsFold
<1>. QED BY <1>1, <1>6, <1>7
-----------------------------------------------------------------------------
(* Authorities of one moment.  The attempt b of a later moment has the fills of *)
(* a, or it has filled more; and likewise for the exits.                        *)

Later(a, b) ==
  /\ a.filled =< b.filled /\ (a.filled = b.filled => a.fills = b.fills)
  /\ a.exited =< b.exited /\ (a.exited = b.exited => a.exits = b.exits)

LEMMA TransitionsGoOn ==
  ASSUME NEW a, Good(a), NEW t \in Transitions, Accepts(a, t)
  PROVE  Later(a, After(a, t))
<1>1. PICK b : b = After(a, t)
  OBVIOUS
<1>2. /\ b.filled = IF t.kind = "ENTRY_FILL" THEN a.filled + t.qty ELSE a.filled
      /\ b.fills = IF t.kind = "ENTRY_FILL" THEN Append(a.fills, t) ELSE a.fills
      /\ b.exited = IF t.kind = "EXIT_FILL" THEN a.exited + t.qty ELSE a.exited
      /\ b.exits = IF t.kind = "EXIT_FILL" THEN Append(a.exits, t) ELSE a.exits
  BY <1>1, Fields DEF Good
<1>3. a.filled \in Nat /\ a.exited \in Nat
  BY DEF Good, Attempts
<1>4. t.kind \in {"ENTRY_FILL", "EXIT_FILL"} => t.qty \in Nat /\ t.qty > 0
  BY DEF Transitions, Reports
<1>. QED BY <1>1, <1>2, <1>3, <1>4 DEF Later

LEMMA TraceGoesOn ==
  ASSUME NEW e \in Seq(Transitions), NEW h, Trace(h, e), NEW n \in 0..Len(e)
  PROVE  Later(h[n], h[Len(e)])
<1>1. PICK m \in Nat : m = Len(e)
  OBVIOUS
<1>2. \A i \in 0..m : h[i].filled \in Nat /\ h[i].exited \in Nat
  BY <1>1 DEF Trace, Good, Attempts
<1>. DEFINE T == {k \in Nat : n + k =< m => Later(h[n], h[n + k])}
<1>3. 0 \in T
  <2>1. n + 0 = n
    OBVIOUS
  <2>. QED BY <1>1, <1>2, <2>1 DEF Later
<1>4. ASSUME NEW k \in Nat, k \in T PROVE k + 1 \in T
  <2>. SUFFICES ASSUME n + (k + 1) =< m PROVE Later(h[n], h[n + (k + 1)])
    OBVIOUS
  <2>1. PICK i \in Nat : i = n + k
    OBVIOUS
  <2>2. i + 1 = n + (k + 1) /\ i + 1 \in 1..m /\ i \in 0..m /\ i + 1 \in 0..m /\ n \in 0..m /\ (i + 1) - 1 = i
    BY <1>1, <2>1
  <2>3. Later(h[n], h[i])
    BY <1>4, <2>1, <2>2
  <2>4. e[i + 1] \in Transitions
    BY <1>1, <2>2
  <2>5. Later(h[i], h[i + 1])
    <3>1. Good(h[i]) /\ Accepts(h[i], e[i + 1]) /\ h[i + 1] = After(h[i], e[i + 1])
      BY <1>1, <2>2 DEF Trace
    <3>. QED BY <2>4, <3>1, TransitionsGoOn
  <2>6. /\ h[n].filled \in Nat /\ h[i].filled \in Nat /\ h[i + 1].filled \in Nat
        /\ h[n].exited \in Nat /\ h[i].exited \in Nat /\ h[i + 1].exited \in Nat
    BY <1>2, <2>2
  <2>7. Later(h[n], h[i + 1])
    <3>1. PICK a, b, c : a = h[n] /\ b = h[i] /\ c = h[i + 1]
      OBVIOUS
    <3>2. Later(a, b) /\ Later(b, c)
      BY <2>3, <2>5, <3>1
    <3>3. /\ a.filled \in Nat /\ b.filled \in Nat /\ c.filled \in Nat
          /\ a.exited \in Nat /\ b.exited \in Nat /\ c.exited \in Nat
      BY <2>6, <3>1
    <3>4. PICK p, q, r \in Nat : p = a.filled /\ q = b.filled /\ r = c.filled
      BY <3>3
    <3>5. p =< q /\ q =< r
      BY <3>2, <3>4 DEF Later
    <3>6. p =< r /\ (p = r => p = q /\ q = r)
      BY <3>5
    <3>7. PICK u, v, w \in Nat : u = a.exited /\ v = b.exited /\ w = c.exited
      BY <3>3
    <3>8. u =< v /\ v =< w
      BY <3>2, <3>7 DEF Later
    <3>9. u =< w /\ (u = w => u = v /\ v = w)
      BY <3>8
    <3>10. Later(a, c)
      BY <3>2, <3>4, <3>6, <3>7, <3>9, Zenon DEF Later
    <3>. QED BY <3>1, <3>10
  <2>. QED BY <2>2, <2>7
<1>5. m - n \in T
  <2>1. \A k \in Nat : k \in T
    <3>. HIDE DEF T
    <3>. QED BY <1>3, <1>4, Inductive
  <2>2. m - n \in Nat
    BY <1>1
  <2>. HIDE DEF T
  <2>. QED BY <2>1, <2>2
<1>6. n + (m - n) = m
  BY <1>1
<1>. QED BY <1>1, <1>5, <1>6

\* A projection that was not rejected carries the exposure it was made of.
LEMMA ProjectedExposure ==
  ASSUME NEW a, NEW sign, Accounting(a, sign).status # Rejected
  PROVE  Accounting(a, sign).exposure = Exposure(a)
<1>. DEFINE refuses == \/ ~Exposed(a)
                       \/ ~InTimeOrder(a.fills) \/ SumOf(a.fills) # a.filled
                       \/ ~InTimeOrder(a.exits) \/ SumOf(a.exits) # a.exited
                       \/ DuplicateId(a) \/ Ambiguous(a)
                       \/ FifoBook(a, sign).short \/ Left(OpenLots(FifoBook(a, sign))) # Open(a)
            projected == [status |-> "PROJECTED", realized |-> FifoBook(a, sign).realized,
                          lots |-> OpenLots(FifoBook(a, sign)),
                          exposure |-> Exposure(a), asOf |-> ExecutionAsOf(a)]
<1>1. Accounting(a, sign) = IF refuses THEN [status |-> Rejected] ELSE projected
  BY Zenon DEF Accounting
<1>. HIDE DEF refuses
<1>2. [status |-> Rejected].status = Rejected /\ projected.exposure = Exposure(a)
  BY Zenon
<1>3. Accounting(a, sign) = projected
  BY <1>1, <1>2, Zenon
<1>. QED BY <1>2, <1>3, Zenon

\* A performance of now and costs of any earlier moment of the same history are
\* composed only when nothing was traded between them (net-trade-performance-
\* engine, authoritiesAreCoherent).
THEOREM StaleAuthoritiesAreAlwaysRefused == Spec => []StaleAuthoritiesAreRefused
<1>1. TraceInv => StaleAuthoritiesAreRefused
  <2>. SUFFICES ASSUME IInv, NEW h, Traced(h), AtRest, NEW n \in 0..Len(Evidence), NEW sign,
                       Accounting(attempt, sign).status # Rejected,
                       Accounting(Restore(SubSeq(Evidence, 1, n)), sign).status # Rejected,
                       Accounting(attempt, sign).exposure
                         = Accounting(Restore(SubSeq(Evidence, 1, n)), sign).exposure
                PROVE  /\ Restore(SubSeq(Evidence, 1, n)).fills = attempt.fills
                       /\ Restore(SubSeq(Evidence, 1, n)).exits = attempt.exits
    BY DEF TraceInv, StaleAuthoritiesAreRefused, Coherent
  <2>1. PICK e \in Seq(Transitions) : e = Evidence
    BY EvidenceIsSequence
  <2>2. attempt = h[Len(e)] /\ Trace(h, e)
    BY <2>1 DEF Traced, AtRest
  <2>3. PICK past : past = Restore(SubSeq(Evidence, 1, n))
    OBVIOUS
  <2>4. past = h[n]
    <3>1. PICK f : f = SubSeq(e, 1, n)
      OBVIOUS
    <3>2. f \in Seq(Transitions) /\ Len(f) = n /\ \A i \in 1..n : f[i] = e[i]
      BY <2>1, <3>1
    <3>3. PICK g : g = [i \in 0..Len(f) |-> h[i]]
      OBVIOUS
    <3>4. Len(f) =< Len(e)
      BY <2>1, <3>2
    <3>5. Trace(g, f)
      BY <2>2, <3>2, <3>3, <3>4, TraceOfPrefix
    <3>6. Restore(f) = g[Len(f)]
      BY <3>2, <3>5, RestoreFollowsTrace
    <3>7. n \in 0..Len(f)
      BY <2>1, <3>2
    <3>. QED BY <2>1, <2>3, <3>1, <3>2, <3>3, <3>6, <3>7
  <2>5. Later(past, attempt)
    BY <2>1, <2>2, <2>4, TraceGoesOn
  <2>6. Exposure(attempt) = Exposure(past)
    BY <2>3, ProjectedExposure
  <2>7. attempt.filled = past.filled /\ attempt.exited = past.exited
    BY <2>6 DEF Exposure
  <2>. QED BY <2>3, <2>5, <2>7 DEF Later
<1>. QED BY <1>1, TraceInvariant, PTL
-----------------------------------------------------------------------------
(* How an attempt moves through its fills.                                     *)

\* The broker numbers fills and exits from 1, and there are no more of them than units.
Numbered ==
  /\ Cardinality(Reported({"ENTRY_FILL"})) =< broker.filled
  /\ Cardinality(Reported({"EXIT_FILL"})) =< broker.exited
  /\ \A i \in DOMAIN reports :
       /\ reports[i].kind = "ENTRY_FILL" => reports[i].id >= 1
       /\ reports[i].kind = "EXIT_FILL" => reports[i].id >= Quantity + 1

LEMMA NumberedByReport ==
  ASSUME IInv, BrokerInv, Numbered, NEW r \in Reports, Does(r)
  PROVE  Numbered'
<1>1. PICK c \in Nat, d \in Nat : c = Cardinality(Reported({"ENTRY_FILL"})) /\ d = Cardinality(Reported({"EXIT_FILL"}))
  BY ReportedCount
<1>2. /\ Cardinality(Reported({"ENTRY_FILL"})') = IF r.kind = "ENTRY_FILL" THEN c + 1 ELSE c
      /\ Cardinality(Reported({"EXIT_FILL"})') = IF r.kind = "EXIT_FILL" THEN d + 1 ELSE d
  BY <1>1, ReportedMore
<1>3. PICK f \in Nat, x \in Nat : f = broker.filled /\ x = broker.exited
  BY DEF IInv, TypeOK
<1>4. /\ broker'.filled = IF r.kind = "ENTRY_FILL" THEN f + r.qty ELSE f
      /\ broker'.exited = IF r.kind = "EXIT_FILL" THEN x + r.qty ELSE x
      /\ r.kind = "ENTRY_FILL" => r.id = c + 1
      /\ r.kind = "EXIT_FILL" => r.id = Quantity + d + 1
  BY <1>1, <1>3 DEF Does
<1>5. r.kind \in FillKinds => r.qty \in 1..Quantity
  BY FillReports
<1>6. c =< f /\ d =< x
  BY <1>1, <1>3 DEF Numbered
<1>7. Cardinality(Reported({"ENTRY_FILL"})') =< broker'.filled
  BY <1>2, <1>4, <1>5, <1>6 DEF FillKinds
<1>8. Cardinality(Reported({"EXIT_FILL"})') =< broker'.exited
  BY <1>2, <1>4, <1>5, <1>6 DEF FillKinds
<1>9. ASSUME NEW i \in DOMAIN reports'
      PROVE  /\ reports'[i].kind = "ENTRY_FILL" => reports'[i].id >= 1
             /\ reports'[i].kind = "EXIT_FILL" => reports'[i].id >= Quantity + 1
  <2>1. \/ i \in DOMAIN reports /\ reports'[i] = reports[i]
        \/ reports'[i] = r
    BY ReportsGrow
  <2>2. /\ r.kind = "ENTRY_FILL" => r.id >= 1
        /\ r.kind = "EXIT_FILL" => r.id >= Quantity + 1
    <3>1. c + 1 >= 1 /\ Quantity + d + 1 >= Quantity + 1
      OBVIOUS
    <3>. QED BY <1>4, <3>1, Zenon
  <2>. QED BY <2>1, <2>2 DEF Numbered
<1>. QED BY <1>7, <1>8, <1>9 DEF Numbered

\* A fill has an id of a price, and a price.
Numerable(t) ==
  /\ t.kind = "ENTRY_FILL" => t.id \in 1..Quantity /\ t.qty \in 1..Quantity /\ t.at \in Nat
  /\ t.kind = "EXIT_FILL" => t.id - Quantity \in 1..Quantity /\ t.id \in Nat /\ t.qty \in 1..Quantity /\ t.at \in Nat

LEMMA DeliveredIsNumerable ==
  ASSUME IInv, BrokerInv, Numbered, NEW t \in Transitions, Delivered(t)
  PROVE  Numerable(t)
<1>1. PICK c \in Nat, d \in Nat : c = Cardinality(Reported({"ENTRY_FILL"})) /\ d = Cardinality(Reported({"EXIT_FILL"}))
  BY ReportedCount
<1>2. PICK f \in Nat, x \in Nat, k \in Int : f = broker.filled /\ x = broker.exited /\ k = broker.covered
  BY DEF IInv, TypeOK
<1>3. c =< Quantity /\ d =< Quantity
  <2>1. c =< f /\ d =< x
    BY <1>1, <1>2 DEF Numbered
  <2>2. PICK q \in Nat : q = Quantity
    OBVIOUS
  <2>3. f =< q /\ k =< f /\ x =< k
    BY <1>2, <2>2 DEF BrokerInv
  <2>4. c =< q /\ d =< q
    BY <2>1, <2>3
  <2>. QED BY <2>2, <2>4
<1>4. SUFFICES ASSUME t.kind \in FillKinds PROVE Numerable(t)
  BY DEF Numerable, FillKinds
<1>5. t.kind \notin Requests
  BY <1>4 DEF FillKinds, Requests
<1>6. PICK i \in DOMAIN reports : reports[i] = t
  BY <1>5 DEF Delivered
<1>7. t \in Reports
  BY <1>6, Element DEF IInv, TypeOK
<1>8. t.id \in Nat /\ t.qty \in 1..Quantity /\ t.at \in Nat
  <2>1. t.at \in Nat
    BY <1>7 DEF Reports
  <2>. QED BY <1>4, <1>7, <2>1, FillReports
<1>9. /\ t.kind = "ENTRY_FILL" => t.id >= 1 /\ t.id =< c
      /\ t.kind = "EXIT_FILL" => t.id >= Quantity + 1 /\ t.id =< Quantity + d
  BY <1>1, <1>6 DEF Numbered, BrokerInv
<1>10. PICK q \in Nat, n \in Nat : q = Quantity /\ n = t.id
  BY <1>8
<1>11. /\ t.kind = "ENTRY_FILL" => n >= 1 /\ n =< c
       /\ t.kind = "EXIT_FILL" => n >= q + 1 /\ n =< q + d
       /\ c =< q /\ d =< q
  BY <1>3, <1>9, <1>10
<1>12. t.kind = "ENTRY_FILL" => n \in 1..q
  BY <1>11
<1>13. t.kind = "EXIT_FILL" => n - q \in 1..q
  BY <1>11
<1>. QED BY <1>8, <1>10, <1>12, <1>13 DEF Numerable

LEMMA NumerableIsPriced ==
  ASSUME NEW t, Numerable(t), t.kind \in FillKinds
  PROVE  Price(t) \in Int
<1>1. EntryPrices \in [1..Quantity -> Int] /\ ExitPrices \in [1..Quantity -> Int]
  BY AccountingAssumption
<1>2. CASE t.kind = "ENTRY_FILL"
  BY <1>1, <1>2 DEF Numerable, Price
<1>3. CASE t.kind = "EXIT_FILL"
  BY <1>1, <1>3 DEF Numerable, Price
<1>. QED BY <1>2, <1>3 DEF FillKinds

\* An attempt, and the units of its fills and of its exits.
Pace(a, F, X) ==
  /\ Paced(a, F, X) /\ Good(a)
  /\ \A i \in DOMAIN a.fills : Numerable(a.fills[i]) /\ a.fills[i].at =< a.lastAt
  /\ \A i \in DOMAIN a.exits : Numerable(a.exits[i]) /\ a.exits[i].at =< a.lastAt
  /\ a.failed => a.protecting = 0 /\ a.protected < a.filled

\* A history with one more fill, and its units.
LEMMA TallyOfAppend ==
  ASSUME NEW s, NEW F, Tally(F, s), NEW t \in Transitions, t.qty \in Nat \ {0}, Price(t) \in Int
  PROVE  \E G : /\ Tally(G, Append(s, t)) /\ G[Len(s) + 1] = F[Len(s)] + t.qty
                /\ \A i \in 0..Len(s) : G[i] = F[i]
<1>1. PICK n \in Nat : n = Len(s) /\ DOMAIN s = 1..n /\ F[0] = 0
  BY TallyGrows
<1>2. PICK f : f = Append(s, t)
  OBVIOUS
<1>3. s \in Seq(Transitions)
  BY DEF Tally, Priced
<1>4. /\ f \in Seq(Transitions) /\ Len(f) = n + 1 /\ DOMAIN f = 1..(n + 1)
      /\ f[n + 1] = t /\ \A i \in 1..n : f[i] = s[i]
  <2>1. PICK S : S = Transitions
    OBVIOUS
  <2>2. s \in Seq(S) /\ t \in S
    BY <1>3, <2>1
  <2>3. /\ f \in Seq(S) /\ Len(f) = n + 1
        /\ f[n + 1] = t /\ \A i \in 1..n : f[i] = s[i]
    BY <1>1, <1>2, <2>2
  <2>. QED BY <2>1, <2>3
<1>5. Priced(f)
  <2>. SUFFICES ASSUME NEW i \in 1..(n + 1) PROVE f[i].qty \in Nat \ {0} /\ Price(f[i]) \in Int
    BY <1>4 DEF Priced
  <2>1. CASE i = n + 1
    BY <1>4, <2>1
  <2>2. CASE i # n + 1
    <3>1. i \in 1..n
      BY <2>2
    <3>. QED BY <1>1, <1>4, <3>1 DEF Tally, Priced
  <2>. QED BY <2>1, <2>2
<1>6. PICK q \in Nat : q = t.qty
  OBVIOUS
<1>7. /\ \A i \in 0..n : F[i] \in Nat
      /\ \A i \in 1..n : F[i] = F[i - 1] + s[i].qty
  BY <1>1, TallyGrows
<1>8. PICK m \in Nat : m = F[n]
  <2>1. n \in 0..n
    OBVIOUS
  <2>. QED BY <1>7, <2>1
<1>9. PICK G : G = [i \in 0..(n + 1) |-> IF i =< n THEN F[i] ELSE m + q]
  OBVIOUS
<1>10. (\A i \in 0..n : G[i] = F[i]) /\ G[n + 1] = m + q
  <2>1. \A i \in 0..n : i \in 0..(n + 1) /\ i =< n
    OBVIOUS
  <2>2. n + 1 \in 0..(n + 1) /\ ~(n + 1 =< n)
    OBVIOUS
  <2>. QED BY <1>9, <2>1, <2>2
<1>11. Sums(G, Quantities(f), n + 1)
  <2>1. PICK v : v = Quantities(f)
    OBVIOUS
  <2>2. v[n + 1] = q /\ \A i \in 1..n : v[i] = s[i].qty
    <3>1. n + 1 \in 1..(n + 1) /\ \A i \in 1..n : i \in 1..(n + 1)
      OBVIOUS
    <3>. QED BY <1>4, <1>6, <2>1, <3>1 DEF Quantities
  <2>3. G \in [0..(n + 1) -> Int]
    <3>1. \A i \in 0..(n + 1) : (IF i =< n THEN F[i] ELSE m + q) \in Int
      BY <1>7
    <3>. QED BY <1>9, <3>1
  <2>4. G[0] = 0
    <3>1. 0 \in 0..n
      OBVIOUS
    <3>. QED BY <1>1, <1>10, <3>1
  <2>5. ASSUME NEW i \in 1..(n + 1) PROVE v[i] \in Int /\ G[i] = G[i - 1] + v[i]
    <3>1. CASE i = n + 1
      <4>1. i - 1 = n /\ n \in 0..n
        BY <3>1
      <4>. QED BY <1>8, <1>10, <2>2, <3>1, <4>1
    <3>2. CASE i # n + 1
      <4>1. i \in 1..n /\ i \in 0..n /\ i - 1 \in 0..n
        BY <3>2
      <4>2. s[i].qty \in Int
        BY <1>1, <4>1, TallyGrows
      <4>. QED BY <1>7, <1>10, <2>2, <4>1, <4>2
    <3>. QED BY <3>1, <3>2
  <2>6. n + 1 \in Nat
    OBVIOUS
  <2>. QED BY <2>1, <2>3, <2>4, <2>5, <2>6 DEF Sums
<1>12. Tally(G, f)
  BY <1>4, <1>5, <1>11 DEF Tally
<1>. QED BY <1>1, <1>2, <1>6, <1>8, <1>10, <1>12

\* A history in order stays so when the last fill is added.
LEMMA DatedOfAppend ==
  ASSUME NEW s \in Seq(Transitions), NEW kind, Dated(s, kind), NEW t \in Transitions, t.kind = kind, t.at \in Nat,
         \A i \in DOMAIN s : s[i].at =< t.at
  PROVE  Dated(Append(s, t), kind)
<1>a. PICK n \in Nat : n = Len(s)
  OBVIOUS
<1>1. n = Len(s) /\ DOMAIN s = 1..n
  BY <1>a
<1>2. PICK f : f = Append(s, t)
  OBVIOUS
<1>3. /\ Len(f) = n + 1 /\ DOMAIN f = 1..(n + 1)
      /\ f[n + 1] = t /\ \A i \in 1..n : f[i] = s[i]
  <2>1. PICK S : S = Transitions
    OBVIOUS
  <2>2. s \in Seq(S) /\ t \in S
    BY <2>1
  <2>. QED BY <1>1, <1>2, <2>2
<1>4. PICK at \in Nat : at = t.at
  OBVIOUS
<1>5. /\ \A i \in 1..n : s[i].kind = kind /\ s[i].at \in Nat /\ s[i].at =< at
      /\ \A i, j \in 1..n : i =< j => s[i].at =< s[j].at
  BY <1>1, <1>4 DEF Dated
<1>6. ASSUME NEW i \in 1..(n + 1) PROVE f[i].kind = kind /\ f[i].at \in Nat /\ f[i].at =< at
  <2>1. CASE i = n + 1
    BY <1>3, <1>4, <2>1
  <2>2. CASE i # n + 1
    <3>1. i \in 1..n
      BY <2>2
    <3>. QED BY <1>3, <1>5, <3>1
  <2>. QED BY <2>1, <2>2
<1>7. ASSUME NEW i \in 1..(n + 1), NEW j \in 1..(n + 1), i =< j PROVE f[i].at =< f[j].at
  <2>1. CASE j = n + 1
    BY <1>3, <1>4, <1>6, <2>1
  <2>2. CASE j # n + 1
    <3>1. i \in 1..n /\ j \in 1..n
      BY <1>7, <2>2
    <3>. QED BY <1>3, <1>5, <1>7, <3>1
  <2>. QED BY <2>1, <2>2
<1>8. Len(f) \in Nat /\ DOMAIN f = 1..Len(f)
  BY <1>3
<1>9. \A i \in DOMAIN f : f[i].kind = kind /\ f[i].at \in Nat
  BY <1>3, <1>6, Zenon
<1>10. \A i, j \in DOMAIN f : i =< j => f[i].at =< f[j].at
  BY <1>3, <1>7, Zenon
<1>11. Dated(f, kind)
  BY <1>8, <1>9, <1>10, Zenon DEF Dated
<1>. QED BY <1>2, <1>11

LEMMA NoDuplicateIds ==
  ASSUME NEW a, Dated(a.fills, "ENTRY_FILL"), Dated(a.exits, "EXIT_FILL"),
         \A i \in DOMAIN a.fills : Numerable(a.fills[i]), \A j \in DOMAIN a.exits : Numerable(a.exits[j])
  PROVE  ~DuplicateId(a)
<1>. SUFFICES ASSUME NEW i \in DOMAIN a.fills, NEW j \in DOMAIN a.exits, a.fills[i].id = a.exits[j].id PROVE FALSE
  BY DEF DuplicateId
<1>1. a.fills[i].kind = "ENTRY_FILL" /\ a.exits[j].kind = "EXIT_FILL"
  BY DEF Dated
<1>2. PICK q \in Nat, k \in 1..Quantity, l \in Nat :
        q = Quantity /\ k = a.fills[i].id /\ l = a.exits[j].id /\ l - q \in 1..q /\ k \in 1..q
  BY <1>1 DEF Numerable
<1>. QED BY <1>2

LEMMA NewIsPaced == \E F, X : Pace(NewAttempt, F, X)
<1>1. PICK F : F = [i \in 0..0 |-> 0]
  OBVIOUS
<1>2. PICK s : s = <<>>
  OBVIOUS
<1>3. Len(s) = 0 /\ DOMAIN s = {} /\ s \in Seq(Transitions) /\ 1..0 = {}
  BY <1>2
<1>4. Tally(F, s) /\ F[Len(s)] = 0
  <2>1. Priced(s)
    BY <1>3 DEF Priced
  <2>2. F \in [0..0 -> Int] /\ F[0] = 0
    BY <1>1
  <2>3. \A i \in 1..0 : FALSE
    OBVIOUS
  <2>4. Sums(F, Quantities(s), 0)
    BY <2>2, <2>3 DEF Sums
  <2>. QED BY <1>3, <2>1, <2>2, <2>4 DEF Tally
<1>5. Dated(s, "ENTRY_FILL") /\ Dated(s, "EXIT_FILL")
  <2>1. Len(s) \in Nat /\ DOMAIN s = 1..Len(s)
    BY <1>3
  <2>. QED BY <1>3, <2>1, Zenon DEF Dated
<1>6. PICK a : a = NewAttempt
  OBVIOUS
<1>7. a.fills = s /\ a.exits = s /\ a.filled = 0 /\ a.exited = 0 /\ a.failed = FALSE
  BY <1>2, <1>6 DEF NewAttempt
<1>8. Covered(a, F, F) /\ ~DuplicateId(a)
  BY <1>3, <1>7 DEF Covered, DuplicateId
<1>9. Paced(a, F, F)
  BY <1>4, <1>5, <1>7, <1>8 DEF Paced
<1>10. Pace(a, F, F)
  BY <1>3, <1>6, <1>7, <1>9, NewIsGood DEF Pace
<1>. QED BY <1>6, <1>10

\* A transition does not go back in time.
LEMMA TimeGoesOn ==
  ASSUME NEW a, Good(a), NEW t \in Transitions, Accepts(a, t), t.kind \notin Requests
  PROVE  t.at \in Nat /\ a.lastAt \in Nat /\ a.lastAt =< t.at
<1>1. t \in Reports
  BY DEF Transitions, Requests
<1>2. t.at \in Nat
  BY <1>1 DEF Reports
<1>3. InTime(a, t)
  BY DEF Accepts, Requests, CanAcknowledgeEntry, CanRejectEntry, CanFill, CanExit,
         CanAcknowledgeProtection, CanRejectProtection, CanAnswerCancellation
<1>4. a.lastAt \in Nat
  BY DEF Good, Attempts
<1>. QED BY <1>2, <1>3, <1>4 DEF InTime

\* What a failed attempt has asked for and what of it is protected, afterwards.
LEMMA FailureStays ==
  ASSUME NEW a, Good(a), a.failed => a.protecting = 0 /\ a.protected < a.filled,
         NEW t \in Transitions, Accepts(a, t), t.kind = "ENTRY_FILL" => t.qty \in Nat
  PROVE  LET b == After(a, t) IN b.failed => b.protecting = 0 /\ b.protected < b.filled
<1>1. PICK b : b = After(a, t)
  OBVIOUS
<1>2. PICK p \in Nat, r \in Nat, f \in Nat : p = a.protected /\ r = a.protecting /\ f = a.filled
  BY DEF Good, Attempts
<1>3. a \in Attempts
  BY DEF Good
<1>4. /\ b.filled = IF t.kind = "ENTRY_FILL" THEN f + t.qty ELSE f
      /\ b.protected = IF t.kind = "PROTECTION_ACKNOWLEDGED" THEN t.target ELSE p
      /\ b.protecting = IF t.kind = "REQUEST_PROTECTION" THEN f
                        ELSE IF t.kind \in Answered THEN 0 ELSE r
      /\ t.kind # "PROTECTION_REJECTED" => b.failed = a.failed
  BY <1>1, <1>2, <1>3, Fields
<1>. SUFFICES ASSUME b.failed PROVE b.protecting = 0 /\ b.protected < b.filled
  BY <1>1
<1>5. CASE t.kind = "PROTECTION_REJECTED"
  <2>1. r # 0
    BY <1>2, <1>5 DEF Accepts, CanRejectProtection
  <2>2. p < r /\ r =< f
    BY <1>2, <2>1 DEF Good, Nest
  <2>3. b.protecting = 0 /\ b.protected = p /\ b.filled = f
    BY <1>4, <1>5 DEF Answered
  <2>. QED BY <2>2, <2>3
<1>6. CASE t.kind # "PROTECTION_REJECTED"
  <2>1. a.failed /\ r = 0 /\ p < f
    BY <1>2, <1>4, <1>6
  <2>2. t.kind # "REQUEST_PROTECTION" /\ t.kind # "PROTECTION_ACKNOWLEDGED"
    BY <1>2, <2>1 DEF Accepts, CanRequestProtection, CanAcknowledgeProtection
  <2>3. b.protecting = 0 /\ b.protected = p
    BY <1>4, <1>6, <2>1, <2>2 DEF Answered
  <2>4. CASE t.kind = "ENTRY_FILL"
    <3>1. PICK q \in Nat : q = t.qty
      BY <2>4
    <3>2. b.filled = f + q
      BY <1>4, <2>4, <3>1
    <3>. QED BY <2>1, <2>3, <3>2
  <2>5. CASE t.kind # "ENTRY_FILL"
    BY <1>4, <2>1, <2>3, <2>5
  <2>. QED BY <2>4, <2>5
<1>. QED BY <1>5, <1>6

\* Each fill of a history that goes on is an old one or the new one.
LEMMA HistoryGoesOn ==
  ASSUME NEW s \in Seq(Transitions), NEW t \in Transitions, Numerable(t), NEW at \in Nat, NEW bt \in Nat,
         at =< bt, t.at = bt, \A i \in DOMAIN s : Numerable(s[i]) /\ s[i].at =< at /\ s[i].at \in Nat
  PROVE  \A i \in DOMAIN Append(s, t) : Numerable(Append(s, t)[i]) /\ Append(s, t)[i].at =< bt
<1>1. PICK f : f = Append(s, t)
  OBVIOUS
<1>. SUFFICES ASSUME NEW i \in DOMAIN f PROVE Numerable(f[i]) /\ f[i].at =< bt
  BY <1>1
<1>2. f[i] = t \/ \E j \in DOMAIN s : f[i] = s[j]
  BY <1>1, AppendHas
<1>3. CASE f[i] = t
  BY <1>3
<1>4. ASSUME NEW j \in DOMAIN s, f[i] = s[j] PROVE Numerable(f[i]) /\ f[i].at =< bt
  <2>1. PICK k \in Nat : k = s[j].at /\ k =< at
    OBVIOUS
  <2>2. k =< bt
    BY <2>1
  <2>. QED BY <1>4, <2>1, <2>2
<1>. QED BY <1>2, <1>3, <1>4

LEMMA PaceByEntry ==
  ASSUME NEW a, NEW F, NEW X, Pace(a, F, X), NEW t \in Transitions, Accepts(a, t), Numerable(t),
         t.kind = "ENTRY_FILL"
  PROVE  \E G : Pace(After(a, t), G, X)
<1>1. PICK b : b = After(a, t)
  OBVIOUS
<1>2. PICK s, x : s = a.fills /\ x = a.exits
  OBVIOUS
<1>3. /\ Dated(s, "ENTRY_FILL") /\ Dated(x, "EXIT_FILL") /\ Tally(F, s) /\ Tally(X, x)
      /\ F[Len(s)] = a.filled /\ X[Len(x)] = a.exited /\ Covered(a, F, X) /\ Good(a)
  BY <1>2, Zenon DEF Pace, Paced
<1>4. /\ \A i \in DOMAIN s : Numerable(s[i]) /\ s[i].at =< a.lastAt
      /\ \A i \in DOMAIN x : Numerable(x[i]) /\ x[i].at =< a.lastAt
      /\ a.failed => a.protecting = 0 /\ a.protected < a.filled
  BY <1>2, Zenon DEF Pace
<1>5. /\ b.filled = a.filled + t.qty /\ b.fills = Append(s, t) /\ b.exited = a.exited /\ b.exits = x
      /\ b.lastAt = t.at
  <2>1. a \in Attempts
    BY <1>3 DEF Good
  <2>. QED BY <1>1, <1>2, <2>1, Fields DEF Requests
<1>6. t.at \in Nat /\ a.lastAt \in Nat /\ a.lastAt =< t.at
  BY <1>3, TimeGoesOn DEF Requests
<1>7. t.qty \in Nat \ {0} /\ Price(t) \in Int
  <2>1. t.qty \in 1..Quantity
    BY DEF Numerable
  <2>. QED BY <2>1, NumerableIsPriced DEF FillKinds
<1>8. s \in Seq(Transitions) /\ x \in Seq(Transitions)
  BY <1>3 DEF Tally, Priced
<1>9. /\ \A i \in DOMAIN s : s[i].at \in Nat
      /\ \A i \in DOMAIN x : x[i].at \in Nat
  BY <1>3 DEF Dated
<1>10. PICK G : /\ Tally(G, Append(s, t)) /\ G[Len(s) + 1] = F[Len(s)] + t.qty
                /\ \A i \in 0..Len(s) : G[i] = F[i]
  BY <1>3, <1>7, TallyOfAppend
<1>11. PICK f, n : f = Append(s, t) /\ n = Len(s)
  OBVIOUS
<1>12. n \in Nat /\ Len(f) = n + 1 /\ DOMAIN s = 1..n /\ \A i \in 1..n : f[i] = s[i]
  BY <1>8, <1>11
<1>13. Dated(f, "ENTRY_FILL")
  <2>1. \A i \in DOMAIN s : s[i].at =< t.at
    <3>. SUFFICES ASSUME NEW i \in DOMAIN s PROVE s[i].at =< t.at
      OBVIOUS
    <3>1. PICK k \in Nat : k = s[i].at /\ k =< a.lastAt
      BY <1>4, <1>9
    <3>. QED BY <1>6, <3>1
  <2>. QED BY <1>3, <1>6, <1>8, <1>11, <2>1, DatedOfAppend
<1>14. Good(b)
  BY <1>1, <1>3, TransitionKeepsGood
<1>15. \A i \in DOMAIN f : Numerable(f[i]) /\ f[i].at =< t.at
  BY <1>4, <1>6, <1>8, <1>9, <1>11, HistoryGoesOn
<1>16. \A i \in DOMAIN x : Numerable(x[i]) /\ x[i].at =< t.at
  <2>. SUFFICES ASSUME NEW i \in DOMAIN x PROVE Numerable(x[i]) /\ x[i].at =< t.at
    OBVIOUS
  <2>1. PICK k \in Nat : k = x[i].at /\ k =< a.lastAt
    BY <1>4, <1>9
  <2>. QED BY <1>4, <1>6, <2>1
<1>17. b.failed => b.protecting = 0 /\ b.protected < b.filled
  <2>1. t.qty \in Nat
    BY <1>7
  <2>. QED BY <1>1, <1>3, <1>4, <2>1, FailureStays
<1>18. Covered(b, G, X)
  <2>. SUFFICES ASSUME NEW j \in 1..Len(x)
                PROVE  \E i \in 0..(n + 1) : X[j] =< G[i] /\ (i # 0 => f[i].at =< x[j].at)
    BY <1>5, <1>11, <1>12 DEF Covered
  <2>1. PICK i \in 0..n : X[j] =< F[i] /\ (i # 0 => s[i].at =< x[j].at)
    BY <1>2, <1>3, <1>11 DEF Covered
  <2>2. i \in 0..(n + 1) /\ (i # 0 => i \in 1..n)
    BY <1>12
  <2>3. G[i] = F[i]
    BY <1>10, <1>11
  <2>. QED BY <1>12, <2>1, <2>2, <2>3
<1>19. ~DuplicateId(b)
  <2>1. Dated(b.fills, "ENTRY_FILL") /\ Dated(b.exits, "EXIT_FILL")
    BY <1>3, <1>5, <1>11, <1>13
  <2>2. (\A i \in DOMAIN b.fills : Numerable(b.fills[i])) /\ \A j \in DOMAIN b.exits : Numerable(b.exits[j])
    BY <1>5, <1>11, <1>15, <1>16
  <2>. QED BY <2>1, <2>2, NoDuplicateIds
<1>20. Paced(b, G, X)
  <2>1. G[Len(b.fills)] = b.filled
    BY <1>3, <1>5, <1>10, <1>11, <1>12
  <2>2. Tally(G, b.fills) /\ Tally(X, b.exits) /\ X[Len(b.exits)] = b.exited
    BY <1>3, <1>5, <1>10
  <2>. QED BY <1>3, <1>5, <1>11, <1>13, <1>18, <1>19, <2>1, <2>2, Zenon DEF Paced
<1>21. Pace(b, G, X)
  BY <1>5, <1>11, <1>14, <1>15, <1>16, <1>17, <1>20, Zenon DEF Pace
<1>. QED BY <1>1, <1>21

LEMMA PaceByExit ==
  ASSUME NEW a, NEW F, NEW X, Pace(a, F, X), NEW t \in Transitions, Accepts(a, t), Numerable(t),
         t.kind = "EXIT_FILL"
  PROVE  \E Y : Pace(After(a, t), F, Y)
<1>1. PICK b : b = After(a, t)
  OBVIOUS
<1>2. PICK s, x : s = a.fills /\ x = a.exits
  OBVIOUS
<1>3. /\ Dated(s, "ENTRY_FILL") /\ Dated(x, "EXIT_FILL") /\ Tally(F, s) /\ Tally(X, x)
      /\ F[Len(s)] = a.filled /\ X[Len(x)] = a.exited /\ Covered(a, F, X) /\ Good(a)
  BY <1>2, Zenon DEF Pace, Paced
<1>4. /\ \A i \in DOMAIN s : Numerable(s[i]) /\ s[i].at =< a.lastAt
      /\ \A i \in DOMAIN x : Numerable(x[i]) /\ x[i].at =< a.lastAt
      /\ a.failed => a.protecting = 0 /\ a.protected < a.filled
  BY <1>2, Zenon DEF Pace
<1>5. /\ b.filled = a.filled /\ b.fills = s /\ b.exited = a.exited + t.qty /\ b.exits = Append(x, t)
      /\ b.lastAt = t.at
  <2>1. a \in Attempts
    BY <1>3 DEF Good
  <2>. QED BY <1>1, <1>2, <2>1, Fields DEF Requests
<1>6. t.at \in Nat /\ a.lastAt \in Nat /\ a.lastAt =< t.at
  BY <1>3, TimeGoesOn DEF Requests
<1>7. t.qty \in Nat \ {0} /\ Price(t) \in Int
  <2>1. t.qty \in 1..Quantity
    BY DEF Numerable
  <2>. QED BY <2>1, NumerableIsPriced DEF FillKinds
<1>8. s \in Seq(Transitions) /\ x \in Seq(Transitions)
  BY <1>3 DEF Tally, Priced
<1>9. /\ \A i \in DOMAIN s : s[i].at \in Nat
      /\ \A i \in DOMAIN x : x[i].at \in Nat
  BY <1>3 DEF Dated
<1>10. PICK Y : /\ Tally(Y, Append(x, t)) /\ Y[Len(x) + 1] = X[Len(x)] + t.qty
                /\ \A i \in 0..Len(x) : Y[i] = X[i]
  BY <1>3, <1>7, TallyOfAppend
<1>a. PICK n \in Nat : n = Len(x)
  BY <1>8
<1>b. PICK p \in Nat : p = Len(s)
  BY <1>8
<1>11. PICK f : f = Append(x, t)
  OBVIOUS
<1>12. Len(f) = n + 1 /\ DOMAIN x = 1..n /\ DOMAIN s = 1..p /\ f[n + 1] = t /\ \A i \in 1..n : f[i] = x[i]
  BY <1>8, <1>11, <1>a, <1>b
<1>13. Dated(f, "EXIT_FILL")
  <2>1. \A i \in DOMAIN x : x[i].at =< t.at
    <3>. SUFFICES ASSUME NEW i \in DOMAIN x PROVE x[i].at =< t.at
      OBVIOUS
    <3>1. PICK k \in Nat : k = x[i].at /\ k =< a.lastAt
      BY <1>4, <1>9
    <3>. QED BY <1>6, <3>1
  <2>. QED BY <1>3, <1>6, <1>8, <1>11, <2>1, DatedOfAppend
<1>14. Good(b)
  BY <1>1, <1>3, TransitionKeepsGood
<1>15. \A i \in DOMAIN f : Numerable(f[i]) /\ f[i].at =< t.at
  BY <1>4, <1>6, <1>8, <1>9, <1>11, HistoryGoesOn
<1>16. \A i \in DOMAIN s : Numerable(s[i]) /\ s[i].at =< t.at
  <2>. SUFFICES ASSUME NEW i \in DOMAIN s PROVE Numerable(s[i]) /\ s[i].at =< t.at
    OBVIOUS
  <2>1. PICK k \in Nat : k = s[i].at /\ k =< a.lastAt
    BY <1>4, <1>9
  <2>. QED BY <1>4, <1>6, <2>1
<1>17. b.failed => b.protecting = 0 /\ b.protected < b.filled
  BY <1>1, <1>3, <1>4, FailureStays
<1>18. Y[n + 1] = a.exited + t.qty
  BY <1>3, <1>10, <1>a
<1>19. Covered(b, F, Y)
  <2>. SUFFICES ASSUME NEW j \in 1..(n + 1)
                PROVE  \E i \in 0..p : Y[j] =< F[i] /\ (i # 0 => s[i].at =< f[j].at)
    BY <1>5, <1>11, <1>12, <1>b DEF Covered
  <2>1. CASE j = n + 1
    <3>1. p \in 0..p /\ (p # 0 => p \in 1..p)
      OBVIOUS
    <3>2. Y[j] =< F[p]
      <4>1. a.exited + t.qty =< a.filled
        BY DEF Accepts, CanExit
      <4>. QED BY <1>3, <1>18, <1>b, <2>1, <4>1
    <3>3. p # 0 => s[p].at =< f[j].at
      BY <1>12, <1>16, <2>1, <3>1
    <3>. QED BY <3>1, <3>2, <3>3
  <2>2. CASE j # n + 1
    <3>1. j \in 1..n /\ j \in 0..n
      BY <2>2
    <3>2. PICK i \in 0..p : X[j] =< F[i] /\ (i # 0 => s[i].at =< x[j].at)
      BY <1>2, <1>3, <1>a, <1>b, <3>1 DEF Covered
    <3>3. Y[j] = X[j]
      BY <1>10, <1>a, <3>1
    <3>. QED BY <1>12, <3>1, <3>2, <3>3
  <2>. QED BY <2>1, <2>2
<1>20. ~DuplicateId(b)
  <2>1. Dated(b.fills, "ENTRY_FILL") /\ Dated(b.exits, "EXIT_FILL")
    BY <1>3, <1>5, <1>11, <1>13
  <2>2. (\A i \in DOMAIN b.fills : Numerable(b.fills[i])) /\ \A j \in DOMAIN b.exits : Numerable(b.exits[j])
    BY <1>5, <1>11, <1>15, <1>16
  <2>. QED BY <2>1, <2>2, NoDuplicateIds
<1>21. Paced(b, F, Y)
  <2>1. Y[Len(b.exits)] = b.exited
    BY <1>5, <1>11, <1>12, <1>18
  <2>2. Tally(F, b.fills) /\ Tally(Y, b.exits) /\ F[Len(b.fills)] = b.filled
    BY <1>3, <1>5, <1>10
  <2>. QED BY <1>3, <1>5, <1>11, <1>13, <1>19, <1>20, <2>1, <2>2, Zenon DEF Paced
<1>22. Pace(b, F, Y)
  BY <1>5, <1>11, <1>14, <1>15, <1>16, <1>17, <1>21, Zenon DEF Pace
<1>. QED BY <1>1, <1>22

\* Whatever else happens, the history of fills and exits stays.
LEMMA PaceByOther ==
  ASSUME NEW a, NEW F, NEW X, Pace(a, F, X), NEW t \in Transitions, Accepts(a, t), t.kind \notin FillKinds
  PROVE  Pace(After(a, t), F, X)
<1>1. PICK b : b = After(a, t)
  OBVIOUS
<1>2. PICK s, x : s = a.fills /\ x = a.exits
  OBVIOUS
<1>3. Paced(a, F, X) /\ Good(a) /\ Dated(s, "ENTRY_FILL") /\ Dated(x, "EXIT_FILL")
  BY <1>2, Zenon DEF Pace, Paced
<1>4. /\ \A i \in DOMAIN s : Numerable(s[i]) /\ s[i].at =< a.lastAt
      /\ \A i \in DOMAIN x : Numerable(x[i]) /\ x[i].at =< a.lastAt
      /\ a.failed => a.protecting = 0 /\ a.protected < a.filled
  BY <1>2, Zenon DEF Pace
<1>5. /\ b.filled = a.filled /\ b.fills = s /\ b.exited = a.exited /\ b.exits = x
      /\ b.lastAt = IF t.kind \in Requests THEN a.lastAt ELSE t.at
  <2>1. a \in Attempts
    BY <1>3 DEF Good
  <2>. QED BY <1>1, <1>2, <2>1, Fields DEF FillKinds
<1>6. b.lastAt \in Nat /\ a.lastAt \in Nat /\ a.lastAt =< b.lastAt
  <2>1. CASE t.kind \in Requests
    <3>1. a.lastAt \in Nat
      BY <1>3 DEF Good, Attempts
    <3>. QED BY <1>5, <2>1, <3>1
  <2>2. CASE t.kind \notin Requests
    BY <1>3, <1>5, <2>2, TimeGoesOn
  <2>. QED BY <2>1, <2>2
<1>7. /\ \A i \in DOMAIN s : s[i].at \in Nat
      /\ \A i \in DOMAIN x : x[i].at \in Nat
  BY <1>3 DEF Dated
<1>8. \A i \in DOMAIN s : Numerable(s[i]) /\ s[i].at =< b.lastAt
  <2>. SUFFICES ASSUME NEW i \in DOMAIN s PROVE Numerable(s[i]) /\ s[i].at =< b.lastAt
    OBVIOUS
  <2>1. PICK k \in Nat : k = s[i].at /\ k =< a.lastAt
    BY <1>4, <1>7
  <2>. QED BY <1>4, <1>6, <2>1
<1>9. \A i \in DOMAIN x : Numerable(x[i]) /\ x[i].at =< b.lastAt
  <2>. SUFFICES ASSUME NEW i \in DOMAIN x PROVE Numerable(x[i]) /\ x[i].at =< b.lastAt
    OBVIOUS
  <2>1. PICK k \in Nat : k = x[i].at /\ k =< a.lastAt
    BY <1>4, <1>7
  <2>. QED BY <1>4, <1>6, <2>1
<1>10. Good(b)
  BY <1>1, <1>3, TransitionKeepsGood
<1>11. b.failed => b.protecting = 0 /\ b.protected < b.filled
  <2>1. t.kind # "ENTRY_FILL"
    BY DEF FillKinds
  <2>. QED BY <1>1, <1>3, <1>4, <2>1, FailureStays
<1>12. Paced(b, F, X)
  <2>1. Covered(b, F, X) <=> Covered(a, F, X)
    BY <1>2, <1>5, Zenon DEF Covered
  <2>2. DuplicateId(b) <=> DuplicateId(a)
    BY <1>2, <1>5, Zenon DEF DuplicateId
  <2>. QED BY <1>2, <1>3, <1>5, <2>1, <2>2, Zenon DEF Paced
<1>13. Pace(b, F, X)
  BY <1>5, <1>8, <1>9, <1>10, <1>11, <1>12, Zenon DEF Pace
<1>. QED BY <1>1, <1>13

\* Wherever the evidence has come, the attempt has kept pace with it.
LEMMA PaceOfTrace ==
  ASSUME NEW e \in Seq(Transitions), NEW h, Trace(h, e), \A i \in 1..Len(e) : Numerable(e[i])
  PROVE  \E F, X : Pace(h[Len(e)], F, X)
<1>1. PICK n \in Nat : n = Len(e)
  OBVIOUS
<1>. DEFINE T == {i \in Nat : i =< n => \E F, X : Pace(h[i], F, X)}
<1>2. 0 \in T
  <2>1. h[0] = NewAttempt
    BY DEF Trace
  <2>. QED BY <2>1, NewIsPaced
<1>3. ASSUME NEW i \in Nat, i \in T PROVE i + 1 \in T
  <2>. SUFFICES ASSUME i + 1 =< n PROVE \E F, X : Pace(h[i + 1], F, X)
    OBVIOUS
  <2>1. i =< n /\ i + 1 \in 1..n /\ (i + 1) - 1 = i
    OBVIOUS
  <2>2. PICK F, X : Pace(h[i], F, X)
    BY <1>3, <2>1
  <2>3. PICK t \in Transitions : t = e[i + 1] /\ Numerable(t)
    <3>1. i + 1 \in DOMAIN e
      BY <1>1, <2>1
    <3>2. e[i + 1] \in Transitions
      BY <3>1, Element
    <3>. QED BY <1>1, <2>1, <3>2
  <2>4. Accepts(h[i], t) /\ h[i + 1] = After(h[i], t)
    BY <1>1, <2>1, <2>3 DEF Trace
  <2>5. CASE t.kind = "ENTRY_FILL"
    BY <2>2, <2>3, <2>4, <2>5, PaceByEntry
  <2>6. CASE t.kind = "EXIT_FILL"
    BY <2>2, <2>3, <2>4, <2>6, PaceByExit
  <2>7. CASE t.kind \notin FillKinds
    BY <2>2, <2>4, <2>7, PaceByOther
  <2>. QED BY <2>5, <2>6, <2>7 DEF FillKinds
<1>4. n \in T
  <2>1. \A i \in Nat : i \in T
    <3>. HIDE DEF T
    <3>. QED BY <1>2, <1>3, Inductive
  <2>. HIDE DEF T
  <2>. QED BY <2>1
<1>. QED BY <1>1, <1>4
-----------------------------------------------------------------------------
(* What is projected of the attempt.                                           *)

\* A position has the shape the projections expect, except while the answer to a
\* cancellation is awaited.
LEMMA PacedIsExposed ==
  ASSUME NEW a, NEW F, NEW X, Pace(a, F, X)
  PROVE  Exposed(a) \/ (State(a) = "CANCEL_PENDING" /\ Open(a) = 0)
<1>1. a \in Attempts /\ Nest(a) /\ Status(a) /\ (a.failed => a.protecting = 0 /\ a.protected < a.filled)
  BY DEF Pace, Good
<1>2. PICK f \in Nat, p \in Nat, x \in Nat, r \in Nat :
        f = a.filled /\ p = a.protected /\ x = a.exited /\ r = a.protecting
  BY <1>1 DEF Attempts
<1>3. x =< p /\ p =< f /\ f =< Quantity /\ (r # 0 => p < r /\ r =< f) /\ (a.failed => p < f)
  BY <1>1, <1>2 DEF Nest
<1>4. a.entry \in EntryStatuses /\ a.canceling \in BOOLEAN /\ a.failed \in BOOLEAN
  BY <1>1 DEF Attempts
<1>5. (f # 0 => a.entry \in {"WORKING", "FILLED", "CANCELED"}) /\ (a.canceling => a.entry \in {"WORKING", "FILLED"})
  BY <1>1, <1>2, <1>4 DEF Status, EntryStatuses
<1>6. Open(a) = f - x
  BY <1>2 DEF Open
<1>7. State(a) = "EXIT_FILLED" => f > 0 /\ f - x = 0 /\ a.entry \in {"FILLED", "CANCELED"}
  <2>1. State(a) = "EXIT_FILLED" => x > 0 /\ a.entry \in {"FILLED", "CANCELED"} /\ x = f
    BY <1>2 DEF State
  <2>. QED BY <1>3, <2>1
<1>8. CASE f = 0
  <2>1. ExposureState(a) = "NO_EXPOSURE"
    BY <1>2, <1>8 DEF ExposureState
  <2>. QED BY <1>2, <1>3, <1>6, <1>7, <2>1 DEF Exposed
<1>9. CASE f # 0 /\ x < f
  <2>1. f > 0 /\ f - x > 0
    BY <1>9
  <2>2. ExposureState(a) = IF x = 0 THEN "OPEN" ELSE "PARTIALLY_EXITED"
    BY <1>2, <1>6, <1>9, <2>1 DEF ExposureState
  <2>. QED BY <1>2, <1>3, <1>6, <1>7, <2>2 DEF Exposed
<1>10. CASE f # 0 /\ x = f
  <2>1. f > 0 /\ x > 0 /\ f - x = 0 /\ ~(f - x > 0) /\ p = f /\ r = 0 /\ ~a.failed
    BY <1>3, <1>10
  <2>2. CASE a.entry = "WORKING"
    <3>1. ExposureState(a) = "FLAT_ENTRY_ACTIVE"
      BY <1>2, <1>6, <1>10, <2>1, <2>2 DEF ExposureState
    <3>. QED BY <1>2, <1>3, <1>6, <1>7, <3>1 DEF Exposed
  <2>3. CASE a.entry \in {"FILLED", "CANCELED"} /\ a.canceling
    <3>1. State(a) = "CANCEL_PENDING"
      BY <2>1, <2>3 DEF State
    <3>. QED BY <1>6, <2>1, <3>1
  <2>4. CASE a.entry \in {"FILLED", "CANCELED"} /\ ~a.canceling
    <3>1. State(a) = "EXIT_FILLED"
      BY <1>2, <1>10, <2>1, <2>4 DEF State
    <3>2. ExposureState(a) = "CLOSED"
      BY <1>2, <1>6, <1>10, <2>1, <2>4, <3>1 DEF ExposureState
    <3>. QED BY <1>2, <1>3, <1>6, <1>7, <3>2 DEF Exposed
  <2>. QED BY <1>5, <1>10, <2>2, <2>3, <2>4
<1>. QED BY <1>3, <1>8, <1>9, <1>10

\* The attempt in memory, when it is not being restored.
LEMMA AttemptIsPaced ==
  ASSUME FactsInv, Numbered, replay = 0
  PROVE  \E F, X : Pace(attempt, F, X)
<1>1. IInv /\ BrokerInv
  BY DEF FactsInv
<1>2. PICK h, fm, xm : Facts(h, fm, xm)
  BY DEF FactsInv
<1>3. Trace(h, Evidence) /\ attempt = h[Len(Evidence)]
  BY <1>2 DEF Facts, Traced
<1>4. Evidence \in Seq(Transitions)
  BY <1>1, EvidenceIsSequence
<1>5. ASSUME NEW i \in 1..Len(Evidence) PROVE Numerable(Evidence[i])
  <2>1. Delivered(Evidence[i])
    BY <1>2 DEF Facts
  <2>2. Evidence[i] \in Transitions
    <3>1. i \in DOMAIN Evidence
      BY <1>4
    <3>. QED BY <1>4, <3>1, Element
  <2>. QED BY <1>1, <2>1, <2>2, DeliveredIsNumerable
<1>. QED BY <1>3, <1>4, <1>5, PaceOfTrace

\* The profit and the units left of an attempt, as FifoIsUnitByUnit states them.
LEMMA ProfitIsUnitByUnit ==
  ASSUME NEW a, NEW F, NEW X, Pace(a, F, X), Exposed(a), ~Ambiguous(a), NEW sign \in {1, -1}
  PROVE  LET accounting == Accounting(a, sign)
         IN  /\ accounting.status = "PROJECTED"
             /\ accounting.realized
                  = Total([k \in 1..a.exited |-> sign * (UnitPrice(a.exits, k) - UnitPrice(a.fills, k))])
             /\ Unrealized(accounting, [price |-> 0, at |-> 0], -sign)
                  = Total([k \in 1..Open(a) |-> sign * UnitPrice(a.fills, a.exited + k)])
<1>1. PICK r : r = Accounting(a, sign)
  OBVIOUS
<1>2. PICK n \in Nat, c \in Nat, p \in Nat : n = a.filled /\ c = a.exited /\ p = a.protected
  BY DEF Pace, Good, Attempts
<1>3. c =< n
  <2>1. c =< p /\ p =< n
    BY <1>2 DEF Pace, Good, Nest
  <2>. QED BY <2>1
<1>4. PICK s, x : s = a.fills /\ x = a.exits
  OBVIOUS
<1>5. Paced(a, F, X) /\ F[Len(s)] = n /\ X[Len(x)] = c
  BY <1>2, <1>4 DEF Pace, Paced
<1>6. PICK U, Y : Accounted(a, sign, F, U, X, Y, r)
  BY <1>1, <1>2, <1>5, AccountingIs
<1>7. Sides(s, F, U, x, X, Y, sign)
  BY <1>4, <1>6, Zenon DEF Accounted
<1>8. /\ r.status = "PROJECTED" /\ r.realized = sign * (Y[c] - U[c])
      /\ \A mark \in Int, sg \in {1, -1} :
           Total(Gains(r.lots, mark, sg)) = sg * (mark * Open(a) - (U[n] - U[c]))
  BY <1>2, <1>6, Zenon DEF Accounted
<1>9. Some(c, s, F) /\ Some(c, x, X)
  <2>1. c =< c
    OBVIOUS
  <2>. QED BY <1>3, <1>5, <2>1, Zenon DEF Some
<1>10. Total([k \in 1..c |-> sign * (UnitPrice(x, k) - UnitPrice(s, k))]) = sign * (Y[c] - U[c])
  BY <1>7, <1>9, GainsOfUnits
<1>11. Total([k \in 1..(n - c) |-> sign * UnitPrice(s, c + k)]) = sign * (U[n] - U[c])
  <2>1. Tally(F, s) /\ Worth(U, F, s)
    BY <1>7 DEF Sides
  <2>. QED BY <1>3, <1>5, <2>1, UnitsLeft
<1>12. PICK m \in Nat : m = Open(a) /\ m = n - c
  BY <1>2, <1>3 DEF Open
<1>13. PICK u \in Int, v \in Int : u = U[n] /\ v = U[c]
  <2>1. Tally(F, s) /\ Worth(U, F, s)
    BY <1>7 DEF Sides
  <2>2. n =< F[Len(s)] /\ c =< F[Len(s)]
    BY <1>3, <1>5
  <2>. QED BY <2>1, <2>2, WorthOfSome
<1>14. Unrealized(r, [price |-> 0, at |-> 0], -sign) = sign * (u - v)
  <2>1. PICK mark : mark = [price |-> 0, at |-> 0]
    OBVIOUS
  <2>2. mark.price = 0
    BY <2>1
  <2>3. Unrealized(r, mark, -sign) = Total(Gains(r.lots, 0, -sign))
    BY <2>2 DEF Unrealized, Gains
  <2>4. -sign \in {1, -1}
    OBVIOUS
  <2>5. Total(Gains(r.lots, 0, -sign)) = (-sign) * (0 * m - (u - v))
    <3>1. PICK sg \in {1, -1} : sg = -sign
      BY <2>4
    <3>2. PICK z \in Int : z = 0
      OBVIOUS
    <3>3. Total(Gains(r.lots, z, sg)) = sg * (z * Open(a) - (U[n] - U[c]))
      BY <1>8, Zenon
    <3>. QED BY <1>12, <1>13, <3>1, <3>2, <3>3, Zenon
  <2>6. (-sign) * (0 * m - (u - v)) = sign * (u - v)
    OBVIOUS
  <2>. QED BY <2>1, <2>3, <2>5, <2>6
<1>. QED BY <1>1, <1>2, <1>4, <1>8, <1>10, <1>11, <1>12, <1>13, <1>14

\* No more fills and exits are reported than units, and each has a number.
THEOREM NumbersInvariant == Spec => [](FactsInv /\ Numbered)
<1>1. Init => Numbered
  <2>1. ASSUME Init PROVE Numbered
    <3>1. reports = <<>> /\ DOMAIN reports = {} /\ broker.filled = 0 /\ broker.exited = 0
      BY <2>1 DEF Init
    <3>2. \A kinds : Reported(kinds) = {}
      BY <3>1 DEF Reported
    <3>3. Cardinality({}) = 0
      BY FS_EmptySet
    <3>4. /\ Cardinality(Reported({"ENTRY_FILL"})) = 0 /\ Cardinality(Reported({"EXIT_FILL"})) = 0
      BY <3>2, <3>3
    <3>. QED BY <3>1, <3>4 DEF Numbered
  <2>. QED BY <2>1
<1>2. FactsInv /\ Numbered /\ [Next]_vars => Numbered'
  <2>. SUFFICES ASSUME FactsInv, Numbered, [Next]_vars PROVE Numbered'
    OBVIOUS
  <2>1. IInv /\ BrokerInv
    BY DEF FactsInv
  <2>2. CASE BrokerNext
    <3>1. PICK r \in Reports : Does(r)
      BY <2>1, <2>2, BrokerSteps
    <3>. QED BY <2>1, <3>1, NumberedByReport
  <2>3. CASE OwnerNext
    <3>1. UNCHANGED <<broker, reports>>
      BY <2>3 DEF OwnerNext, RequestEntry, RequestProtection, RequestCancellation, Deliver, Take, Save, Crash, Replay
    <3>. QED BY <3>1 DEF Numbered, Reported
  <2>4. CASE UNCHANGED vars
    BY <2>4 DEF vars, Numbered, Reported
  <2>. QED BY <2>2, <2>3, <2>4 DEF Next
<1>. QED BY <1>1, <1>2, FactsInvariant, PTL DEF Spec

\* First in, first out, unit by unit: whatever was filled and closed in whatever
\* portions, the matching of lots makes the profit of the k-th unit sold being the
\* k-th unit bought, and leaves open the units that were not sold
\* (trade-accounting-engine, position-engine).
THEOREM FifoIsAlwaysUnitByUnit == Spec => []FifoIsUnitByUnit
<1>1. FactsInv /\ Numbered => FifoIsUnitByUnit
  <2>. SUFFICES ASSUME FactsInv, Numbered, AtRest, NEW sign \in Signs
                PROVE  LET a == attempt
                           accounting == Accounting(a, sign)
                           Gain(k) == sign * (UnitPrice(a.exits, k) - UnitPrice(a.fills, k))
                       IN  /\ Exposed(a) \/ (State(a) = "CANCEL_PENDING" /\ Open(a) = 0)
                           /\ Exposed(a) /\ ~Ambiguous(a) =>
                                /\ accounting.status = "PROJECTED"
                                /\ accounting.realized = Total([k \in 1..a.exited |-> Gain(k)])
                                /\ Unrealized(accounting, [price |-> 0, at |-> 0], -sign)
                                     = Total([k \in 1..Open(a) |-> sign * UnitPrice(a.fills, a.exited + k)])
    BY DEF FifoIsUnitByUnit
  <2>1. PICK F, X : Pace(attempt, F, X)
    BY AttemptIsPaced DEF AtRest
  <2>2. sign \in {1, -1}
    BY AccountingAssumption
  <2>. QED BY <2>1, <2>2, PacedIsExposed, ProfitIsUnitByUnit
<1>. QED BY <1>1, NumbersInvariant, PTL
-----------------------------------------------------------------------------
(* What the cost events come to: each of them once.                            *)

Chosen(s) == CHOOSE x \in s : TRUE

\* What the sum over a set of cost events is computed by.
Charging(S, g) ==
  g = [s \in SUBSET S |-> IF s = {} THEN 0 ELSE g[s \ {Chosen(s)}] + Effect(Chosen(s))]
Charge(S) == CHOOSE g : Charging(S, g)

CostOf(S) == FoldSet(LAMBDA e, sum : sum + Effect(e), 0, S)

LEMMA CostIsCharge ==
  ASSUME NEW S
  PROVE  CostOf(S) = Charge(S)[S]
BY DEF CostOf, FoldSet, MapThenFoldSet, Charging, Charge, Chosen

LEMMA EffectType ==
  ASSUME NEW e \in CostEvents
  PROVE  Effect(e) \in Int
<1>1. PICK n \in Nat : n = e.amount
  BY DEF CostEvents
<1>2. PICK m \in Int : m = -n
  OBVIOUS
<1>. QED BY <1>1, <1>2 DEF Effect

LEMMA ChargeExists ==
  ASSUME NEW S, IsFiniteSet(S)
  PROVE  Charging(S, Charge(S))
<1> DEFINE Small(n) == {s \in SUBSET S : Cardinality(s) =< n}
           Others(s) == s \ {Chosen(s)}
           Up(n, g) == g = [s \in Small(n) |-> IF s = {} THEN 0 ELSE g[Others(s)] + Effect(Chosen(s))]
           T == {n \in Nat : \E g : Up(n, g)}
<1>0. \A s \in SUBSET S : /\ Cardinality(s) \in Nat /\ Cardinality(s) =< Cardinality(S)
                          /\ s # {} => Others(s) \in SUBSET S /\ Cardinality(Others(s)) = Cardinality(s) - 1
                          /\ Cardinality(s) = 0 <=> s = {}
  <2> SUFFICES ASSUME NEW s \in SUBSET S
               PROVE /\ Cardinality(s) \in Nat /\ Cardinality(s) =< Cardinality(S)
                     /\ s # {} => Others(s) \in SUBSET S /\ Cardinality(Others(s)) = Cardinality(s) - 1
                     /\ Cardinality(s) = 0 <=> s = {}
    OBVIOUS
  <2>1. IsFiniteSet(s) /\ Cardinality(s) =< Cardinality(S)
    BY FS_Subset
  <2>2. Cardinality(s) \in Nat /\ (Cardinality(s) = 0 <=> s = {})
    BY <2>1, FS_CardinalityType, FS_EmptySet
  <2>3. s # {} => Cardinality(Others(s)) = Cardinality(s) - 1
    <3>1. s # {} => Chosen(s) \in s
      BY DEF Chosen
    <3>. QED BY <2>1, <3>1, FS_RemoveElement
  <2> QED BY <2>1, <2>2, <2>3
<1>1. 0 \in T
  <2>1. Up(0, [s \in Small(0) |-> 0])
    BY <1>0
  <2> QED BY <2>1
<1>2. ASSUME NEW n \in Nat, NEW g, Up(n, g) PROVE \E h : Up(n + 1, h)
  <2>1. PICK h : h = [s \in Small(n + 1) |-> IF s = {} THEN 0 ELSE g[Others(s)] + Effect(Chosen(s))]
    OBVIOUS
  <2>2. \A s \in Small(n) : s \in Small(n + 1) /\ h[s] = g[s]
    <3>1. \A s \in Small(n) : s \in Small(n + 1)
      <4>1. \A s \in SUBSET S : Cardinality(s) \in Nat
        BY Sizes
      <4> QED BY <4>1
    <3>2. \A s \in Small(n) : g[s] = IF s = {} THEN 0 ELSE g[Others(s)] + Effect(Chosen(s))
      <4> HIDE DEF Small, Others
      <4> QED BY <1>2
    <3> HIDE DEF Small, Others
    <3> QED BY <2>1, <3>1, <3>2
  <2>3. \A s \in Small(n + 1) : s # {} => Others(s) \in Small(n)
    BY <1>0
  <2>4. \A s \in Small(n + 1) : s # {} => g[Others(s)] = h[Others(s)]
    <3> HIDE DEF Others, Small
    <3> QED BY <2>2, <2>3
  <2> HIDE DEF Others, Small
  <2>5. Up(n + 1, h)
    BY <2>1, <2>4
  <2> QED BY <2>5
<1>8. \A n \in Nat : n \in T => n + 1 \in T
  <2> HIDE DEF Up
  <2> QED BY <1>2
<1>3. Cardinality(S) \in Nat
  BY FS_CardinalityType
<1>4. Cardinality(S) \in T
  <2> HIDE DEF T
  <2> QED BY <1>1, <1>8, <1>3, Inductive
<1>5. PICK g : Up(Cardinality(S), g)
  BY <1>4
<1>6. Small(Cardinality(S)) = SUBSET S
  BY <1>0
<1>7. Charging(S, g)
  BY <1>5, <1>6 DEF Charging
<1> QED BY <1>7 DEF Charge

LEMMA ChargeSteps ==
  ASSUME NEW S, IsFiniteSet(S), NEW g, Charging(S, g)
  PROVE  /\ g[{}] = 0
         /\ \A s \in SUBSET S : s # {} => /\ Chosen(s) \in s
                                          /\ g[s] = g[s \ {Chosen(s)}] + Effect(Chosen(s))
<1>1. g[{}] = 0 /\ \A s \in SUBSET S : s # {} => g[s] = g[s \ {Chosen(s)}] + Effect(Chosen(s))
  BY DEF Charging
<1>2. \A s \in SUBSET S : s # {} => Chosen(s) \in s
  BY DEF Chosen
<1> QED BY <1>1, <1>2

LEMMA ChargeType ==
  ASSUME NEW S \in SUBSET CostEvents, IsFiniteSet(S), NEW g, Charging(S, g)
  PROVE  \A s \in SUBSET S : g[s] \in Int
<1> DEFINE T == {n \in Nat : \A s \in SUBSET S : Cardinality(s) = n => g[s] \in Int}
<1>1. 0 \in T
  <2>1. \A s \in SUBSET S : Cardinality(s) = 0 => s = {}
    BY Sizes
  <2>2. g[{}] = 0 /\ 0 \in Int
    BY ChargeSteps
  <2> QED BY <2>1, <2>2
<1>2. ASSUME NEW n \in Nat, n \in T, NEW s \in SUBSET S, Cardinality(s) = n + 1
      PROVE  g[s] \in Int
  <2>0. s # {}
    BY <1>2, Sizes
  <2>1. PICK c : c = Chosen(s)
    OBVIOUS
  <2>2. c \in s /\ g[s] = g[s \ {c}] + Effect(c)
    BY <2>0, <2>1, ChargeSteps
  <2>3. s \ {c} \in SUBSET S /\ Cardinality(s \ {c}) = n
    BY <1>2, <2>2, Sizes
  <2>4. g[s \ {c}] \in Int
    BY <1>2, <2>3
  <2>5. Effect(c) \in Int
    BY <2>2, EffectType
  <2> QED BY <2>2, <2>4, <2>5
<1>3. \A n \in Nat : n \in T => n + 1 \in T
  BY <1>2
<1>4. \A n \in Nat : n \in T
  <2> HIDE DEF T
  <2> QED BY <1>1, <1>3, Inductive
<1> QED BY <1>4, Sizes

\* It does not matter in which order the events are added.
LEMMA ChargeRemove ==
  ASSUME NEW S \in SUBSET CostEvents, IsFiniteSet(S), NEW g, Charging(S, g), NEW u \in SUBSET S, NEW y \in u
  PROVE  g[u] = g[u \ {y}] + Effect(y)
<1> DEFINE T == {n \in Nat : \A s \in SUBSET S : Cardinality(s) = n => \A x \in s : g[s] = g[s \ {x}] + Effect(x)}
<1>0. \A s \in SUBSET S : g[s] \in Int
  BY ChargeType
<1>1. 0 \in T
  BY Sizes
<1>2. ASSUME NEW n \in Nat, n \in T, NEW s \in SUBSET S, Cardinality(s) = n + 1, NEW x \in s
      PROVE  g[s] = g[s \ {x}] + Effect(x)
  <2>1. PICK c : c = Chosen(s)
    OBVIOUS
  <2>2. c \in s /\ g[s] = g[s \ {c}] + Effect(c)
    <3>1. s # {}
      OBVIOUS
    <3> QED BY <2>1, <3>1, ChargeSteps
  <2>3. CASE c = x
    BY <2>2, <2>3
  <2>4. CASE c # x
    <3>1. /\ s \ {c} \in SUBSET S /\ Cardinality(s \ {c}) = n /\ x \in s \ {c}
          /\ s \ {x} \in SUBSET S /\ Cardinality(s \ {x}) = n /\ c \in s \ {x}
      BY <1>2, <2>2, <2>4, Sizes
    <3>2. g[s \ {c}] = g[(s \ {c}) \ {x}] + Effect(x) /\ g[s \ {x}] = g[(s \ {x}) \ {c}] + Effect(c)
      BY <1>2, <3>1
    <3>3. (s \ {c}) \ {x} = (s \ {x}) \ {c} /\ (s \ {x}) \ {c} \in SUBSET S
      OBVIOUS
    <3>4. PICK r \in Int : r = g[(s \ {x}) \ {c}]
      BY <1>0, <3>3
    <3>5. PICK e \in Int, f \in Int : e = Effect(x) /\ f = Effect(c)
      <4>1. x \in CostEvents /\ c \in CostEvents
        BY <2>2
      <4> QED BY <4>1, EffectType
    <3>6. g[s] = (r + e) + f /\ g[s \ {x}] = r + f
      BY <2>2, <3>2, <3>3, <3>4, <3>5
    <3> QED BY <3>4, <3>5, <3>6
  <2> QED BY <2>3, <2>4
<1>3. \A n \in Nat : n \in T => n + 1 \in T
  BY <1>2
<1>4. \A n \in Nat : n \in T
  <2> HIDE DEF T
  <2> QED BY <1>1, <1>3, Inductive
<1>5. Cardinality(u) \in T
  BY <1>4, Sizes
<1> QED BY <1>5

\* What Normalized is computed by.
Admitting(g, d) ==
  g = [s \in SUBSET DOMAIN d |-> IF s = {} THEN <<>> ELSE Admitted(g[s \ {Max(s)}], d[Max(s)])]
Admitter(d) == CHOOSE g : Admitting(g, d)

LEMMA NormalizedIsFold ==
  ASSUME NEW d
  PROVE  Normalized(d) = Admitter(d)[DOMAIN d]
BY DEF Normalized, FoldLeft, MapThenFoldSet, Admitting, Admitter

\* The distinct ones of the first i deliveries.
Distinct(o, d, n) ==
  /\ o[0] = <<>>
  /\ \A i \in 0..n : o[i] \in Seq(CostEvents)
  /\ \A i \in 1..n : o[i] = Admitted(o[i - 1], d[i])
  /\ Normalized(d) = o[n]

LEMMA AdmittedType ==
  ASSUME NEW unique \in Seq(CostEvents), NEW e \in CostEvents
  PROVE  Admitted(unique, e) \in Seq(CostEvents)
BY DEF Admitted

LEMMA NormalizedSteps ==
  ASSUME NEW d \in Seq(CostEvents), NEW n, n = Len(d)
  PROVE  \E o : Distinct(o, d, n)
<1>1. PICK c : c = d
  OBVIOUS
<1>2. n \in Nat /\ DOMAIN c = 1..n /\ \A i \in 1..n : c[i] \in CostEvents
  BY <1>1, Element
<1>3. PICK V : V = Seq(CostEvents)
  OBVIOUS
<1>4. <<>> \in V
  BY <1>3
<1>5. \A r \in V, i \in 1..n : Admitted(r, c[i]) \in V
  BY <1>2, <1>3, AdmittedType
<1>6. PICK step : step = [x \in V \X (1..n) |-> Admitted(x[1], c[x[2]])]
  OBVIOUS
<1>7. step \in [V \X (1..n) -> V] /\ \A r \in V, i \in 1..n : step[<<r, i>>] = Admitted(r, c[i])
  BY <1>5, <1>6
<1>8. PICK g \in [SUBSET (1..n) -> V] : Computes(g, n, <<>>, step)
  BY <1>2, <1>4, <1>7, FoldComputed
<1>9. \A s \in SUBSET (1..n) : s # {} => Max(s) \in 1..n /\ s \ {Max(s)} \in SUBSET (1..n)
  BY <1>2, RestIsSmaller DEF Rest
<1>10. \A s \in SUBSET (1..n) : s # {} => g[s] = Admitted(g[s \ {Max(s)}], c[Max(s)])
  <2>. SUFFICES ASSUME NEW s \in SUBSET (1..n), s # {} PROVE g[s] = Admitted(g[s \ {Max(s)}], c[Max(s)])
    OBVIOUS
  <2>1. PICK r, m : r = g[s \ {Max(s)}] /\ m = Max(s)
    OBVIOUS
  <2>2. m \in 1..n /\ r \in V
    BY <1>9, <2>1
  <2>3. g[s] = step[<<r, m>>]
    BY <1>8, <2>1 DEF Computes
  <2>. QED BY <1>7, <2>1, <2>2, <2>3
<1>11. Admitting(g, c)
  <2>1. g[{}] = <<>>
    BY <1>8 DEF Computes
  <2>2. g = [s \in SUBSET (1..n) |-> IF s = {} THEN <<>> ELSE Admitted(g[s \ {Max(s)}], c[Max(s)])]
    BY <1>10, <2>1
  <2>. QED BY <1>2, <2>2, Zenon DEF Admitting
<1>12. PICK f : f = Admitter(c)
  OBVIOUS
<1>13. Admitting(f, c)
  BY <1>11, <1>12, Zenon DEF Admitter
<1>14. f[1..n] = g[1..n]
  <2>1. {} \in SUBSET (1..n) /\ DOMAIN c = 1..n
    BY <1>2
  <2>2. f[{}] = g[{}]
    BY <1>11, <1>13, <2>1, Zenon DEF Admitting
  <2>3. ASSUME NEW s \in SUBSET (1..n), s # {}, f[Rest(s)] = g[Rest(s)] PROVE f[s] = g[s]
    <3>1. /\ f[s] = Admitted(f[s \ {Max(s)}], c[Max(s)])
          /\ g[s] = Admitted(g[s \ {Max(s)}], c[Max(s)])
      BY <1>11, <1>13, <2>1, <2>3, Zenon DEF Admitting
    <3>2. f[s \ {Max(s)}] = g[s \ {Max(s)}]
      BY <2>3 DEF Rest
    <3>. QED BY <3>1, <3>2
  <2>4. \A s \in SUBSET (1..n) : s # {} /\ f[Rest(s)] = g[Rest(s)] => f[s] = g[s]
    BY <2>3
  <2>5. n \in Nat
    BY <1>2
  <2>. QED BY <2>2, <2>4, <2>5, FoldsAgree
<1>15. PICK h : StepByStep(h, n, V, <<>>, step, g[1..n])
  BY <1>2, <1>8, FoldSteps
<1>16. \A i \in 0..n : h[i] \in V
  BY <1>15 DEF StepByStep
<1>17. \A i \in 1..n : h[i] = Admitted(h[i - 1], c[i])
  <2>. SUFFICES ASSUME NEW i \in 1..n PROVE h[i] = Admitted(h[i - 1], c[i])
    OBVIOUS
  <2>1. h[i - 1] \in V
    <3>1. i - 1 \in 0..n
      BY <1>2
    <3>. QED BY <1>16, <3>1
  <2>2. h[i] = step[<<h[i - 1], i>>]
    BY <1>15 DEF StepByStep
  <2>. QED BY <1>7, <2>1, <2>2
<1>18. h[n] = f[1..n] /\ h[0] = <<>>
  BY <1>14, <1>15 DEF StepByStep
<1>19. Normalized(d) = h[n]
  <2>1. Normalized(d) = Admitter(c)[DOMAIN c]
    BY <1>1, NormalizedIsFold
  <2>. QED BY <1>2, <1>12, <1>18, <2>1
<1>. QED BY <1>1, <1>3, <1>16, <1>17, <1>18, <1>19 DEF Distinct

LEMMA EffectsGrow ==
  ASSUME NEW u \in Seq(CostEvents), NEW e \in CostEvents
  PROVE  NetCost(Append(u, e)) = NetCost(u) + Effect(e) /\ NetCost(u) \in Int
<1>a. PICK n \in Nat : n = Len(u)
  OBVIOUS
<1>b. PICK more : more = Append(u, e)
  OBVIOUS
<1>2. DOMAIN u = 1..n /\ DOMAIN more = 1..(n + 1) /\ more[n + 1] = e
      /\ (\A i \in 1..n : more[i] = u[i]) /\ (\A i \in 1..n : u[i] \in CostEvents)
      /\ (\A i \in 1..(n + 1) : more[i] \in CostEvents)
  <2>1. PICK S : S = CostEvents
    OBVIOUS
  <2>2. u \in Seq(S) /\ e \in S
    BY <2>1
  <2>3. more \in Seq(S) /\ Len(more) = n + 1
    BY <1>a, <1>b, <2>2
  <2>4. DOMAIN u = 1..n /\ more[n + 1] = e /\ \A i \in 1..n : more[i] = u[i]
    BY <1>a, <1>b, <2>2
  <2>5. DOMAIN more = 1..(n + 1) /\ (\A i \in 1..(n + 1) : more[i] \in S) /\ (\A i \in 1..n : u[i] \in S)
    BY <1>a, <2>2, <2>3
  <2>. QED BY <2>1, <2>4, <2>5
<1>3. PICK x, y : x = [i \in DOMAIN u |-> Effect(u[i])] /\ y = [i \in DOMAIN more |-> Effect(more[i])]
  OBVIOUS
<1>4. x \in [1..n -> Int] /\ y \in [1..(n + 1) -> Int]
  BY <1>2, <1>3, EffectType
<1>5. y[n + 1] = Effect(e) /\ \A i \in 1..n : y[i] = x[i]
  <2>1. n + 1 \in 1..(n + 1) /\ \A i \in 1..n : i \in 1..(n + 1)
    OBVIOUS
  <2>. QED BY <1>2, <1>3, <2>1
<1>6. Total(y) = Total(x) + y[n + 1] /\ Total(x) \in Int
  BY <1>4, <1>5, TotalExtended
<1>7. Total(x) = NetCost(u) /\ Total(y) = NetCost(Append(u, e))
  BY <1>b, <1>3 DEF NetCost
<1>. QED BY <1>5, <1>6, <1>7

\* The events of the first i deliveries.
Seen(d, i) == {d[k] : k \in 1..i}

\* The distinct ones are those that were seen, and cost what those cost.
Costed(u, d, i, g) ==
  /\ u \in Seq(CostEvents) /\ Seen(u, Len(u)) = Seen(d, i)
  /\ NetCost(u) = g[Seen(d, i)]

LEMMA CostedGoesOn ==
  ASSUME NEW d \in Seq(CostEvents), ~Conflicting(d), NEW n \in Nat, n = Len(d),
         NEW g, Charging(Seen(d, n), g), IsFiniteSet(Seen(d, n)),
         NEW i \in Nat, i < n, NEW u, Costed(u, d, i, g)
  PROVE  Costed(Admitted(u, d[i + 1]), d, i + 1, g)
<1>1. DOMAIN d = 1..n /\ \A k \in 1..n : d[k] \in CostEvents
  <2>1. DOMAIN d = 1..n
    OBVIOUS
  <2>. QED BY <2>1, Element
<1>2. i + 1 \in 1..n /\ \A k \in 1..i : k \in 1..n
  OBVIOUS
<1>3. PICK e \in CostEvents : e = d[i + 1]
  BY <1>1, <1>2
<1>4. u \in Seq(CostEvents) /\ Seen(u, Len(u)) = Seen(d, i) /\ NetCost(u) = g[Seen(d, i)]
  BY DEF Costed
<1>5. PICK l \in Nat : l = Len(u) /\ DOMAIN u = 1..l
  BY <1>4
<1>6. Seen(d, i + 1) = Seen(d, i) \union {e}
  <2>1. \A k \in 1..(i + 1) : k \in 1..i \/ k = i + 1
    OBVIOUS
  <2>2. i + 1 \in 1..(i + 1) /\ \A k \in 1..i : k \in 1..(i + 1)
    OBVIOUS
  <2>. QED BY <1>3, <2>1, <2>2 DEF Seen
<1>7. CASE e \in Seen(d, i)
  <2>1. e \in Seen(u, l)
    BY <1>4, <1>5, <1>7
  <2>2. \E k \in DOMAIN u : u[k].id = e.id
    BY <1>5, <2>1 DEF Seen
  <2>3. Admitted(u, e) = u
    BY <2>2 DEF Admitted
  <2>4. Seen(d, i + 1) = Seen(d, i)
    BY <1>6, <1>7
  <2>. QED BY <1>3, <1>4, <2>3, <2>4 DEF Costed
<1>8. CASE e \notin Seen(d, i)
  <2>1. ASSUME NEW k \in DOMAIN u, u[k].id = e.id PROVE FALSE
    <3>1. u[k] \in Seen(u, l)
      BY <1>5 DEF Seen
    <3>2. u[k] \in Seen(d, i)
      BY <1>4, <1>5, <3>1
    <3>3. PICK m \in 1..i : u[k] = d[m]
      BY <3>2 DEF Seen
    <3>4. d[m].id = d[i + 1].id
      BY <1>3, <2>1, <3>3
    <3>5. m \in DOMAIN d /\ i + 1 \in DOMAIN d
      BY <1>1, <1>2
    <3>6. d[m] = d[i + 1]
      BY <3>4, <3>5 DEF Conflicting
    <3>7. e \in Seen(d, i)
      BY <1>3, <3>6 DEF Seen
    <3>. QED BY <1>8, <3>7
  <2>2. Admitted(u, e) = Append(u, e)
    BY <2>1 DEF Admitted
  <2>3. Append(u, e) \in Seq(CostEvents) /\ NetCost(Append(u, e)) = NetCost(u) + Effect(e)
    <3>1. PICK S : S = CostEvents
      OBVIOUS
    <3>2. Append(u, e) \in Seq(S)
      BY <1>4, <3>1
    <3>. QED BY <1>4, <3>1, <3>2, EffectsGrow
  <2>4. Seen(Append(u, e), Len(Append(u, e))) = Seen(u, l) \union {e}
    <3>1. PICK S, more : S = CostEvents /\ more = Append(u, e)
      OBVIOUS
    <3>2. u \in Seq(S) /\ e \in S
      BY <1>4, <3>1
    <3>3. Len(more) = l + 1 /\ more[l + 1] = e /\ \A k \in 1..l : more[k] = u[k]
      BY <1>5, <3>1, <3>2
    <3>4. \A k \in 1..(l + 1) : k \in 1..l \/ k = l + 1
      OBVIOUS
    <3>5. l + 1 \in 1..(l + 1) /\ \A k \in 1..l : k \in 1..(l + 1)
      OBVIOUS
    <3>6. Seen(more, l + 1) = Seen(u, l) \union {e}
      BY <3>3, <3>4, <3>5 DEF Seen
    <3>. QED BY <3>1, <3>3, <3>6
  <2>5. g[Seen(d, i + 1)] = g[Seen(d, i)] + Effect(e)
    <3>1. Seen(d, n) \in SUBSET CostEvents
      BY <1>1 DEF Seen
    <3>2. Seen(d, i + 1) \in SUBSET Seen(d, n) /\ e \in Seen(d, i + 1)
      BY <1>2, <1>3, <1>6 DEF Seen
    <3>3. Seen(d, i + 1) \ {e} = Seen(d, i)
      BY <1>6, <1>8
    <3>4. g[Seen(d, i + 1)] = g[Seen(d, i + 1) \ {e}] + Effect(e)
      BY <3>1, <3>2, ChargeRemove
    <3>. QED BY <3>3, <3>4
  <2>6. Seen(Append(u, e), Len(Append(u, e))) = Seen(d, i + 1)
    BY <1>4, <1>5, <1>6, <2>4
  <2>7. NetCost(Append(u, e)) = g[Seen(d, i + 1)]
    BY <1>4, <2>3, <2>5
  <2>. QED BY <1>3, <2>2, <2>3, <2>6, <2>7 DEF Costed
<1>. QED BY <1>7, <1>8

\* However often and in whatever order they are delivered, each event costs once.
LEMMA CostsOnce ==
  ASSUME NEW d \in Seq(CostEvents), ~Conflicting(d)
  PROVE  /\ NetCost(Normalized(d)) = CostOf(Range(d))
         /\ NetCost(Normalized(d)) \in Int
<1>1. PICK n \in Nat : n = Len(d) /\ DOMAIN d = 1..n
  OBVIOUS
<1>2. PICK o : Distinct(o, d, n)
  BY <1>1, NormalizedSteps
<1>3. Range(d) = Seen(d, n)
  BY <1>1 DEF Range, Seen
<1>4. IsFiniteSet(Seen(d, n))
  <2>. DEFINE T == {i \in Nat : IsFiniteSet(Seen(d, i))}
  <2>1. 0 \in T
    <3>1. Seen(d, 0) = {}
      BY DEF Seen
    <3>. QED BY <3>1, FS_EmptySet
  <2>2. ASSUME NEW i \in Nat, i \in T PROVE i + 1 \in T
    <3>1. \A k \in 1..(i + 1) : k \in 1..i \/ k = i + 1
      OBVIOUS
    <3>2. i + 1 \in 1..(i + 1) /\ \A k \in 1..i : k \in 1..(i + 1)
      OBVIOUS
    <3>3. Seen(d, i + 1) = Seen(d, i) \union {d[i + 1]}
      BY <3>1, <3>2 DEF Seen
    <3>4. PICK S, x : S = Seen(d, i) /\ x = d[i + 1] /\ IsFiniteSet(S)
      BY <2>2
    <3>5. IsFiniteSet(S \union {x})
      BY <3>4, FS_AddElement
    <3>6. i + 1 \in Nat
      OBVIOUS
    <3>. QED BY <3>3, <3>4, <3>5, <3>6
  <2>3. \A i \in Nat : i \in T
    <3>. HIDE DEF T
    <3>. QED BY <2>1, <2>2, Inductive
  <2>. QED BY <2>3
<1>5. PICK g : g = Charge(Seen(d, n)) /\ Charging(Seen(d, n), g)
  BY <1>4, ChargeExists
<1>. DEFINE T == {i \in Nat : i =< n => Costed(o[i], d, i, g)}
<1>6. 0 \in T
  <2>1. o[0] = <<>> /\ Seen(d, 0) = {} /\ g[{}] = 0
    BY <1>2, <1>4, <1>5, ChargeSteps DEF Distinct, Seen
  <2>2. NetCost(<<>>) = 0
    <3>1. PICK v : v = [i \in DOMAIN <<>> |-> Effect(<<>>[i])]
      OBVIOUS
    <3>2. DOMAIN v = 1..0 /\ v = [i \in DOMAIN v |-> v[i]]
      BY <3>1
    <3>. QED BY <3>1, <3>2, TotalOfNothing DEF NetCost
  <2>3. <<>> \in Seq(CostEvents) /\ Seen(<<>>, Len(<<>>)) = {}
    BY DEF Seen
  <2>4. Costed(o[0], d, 0, g)
    BY <2>1, <2>2, <2>3 DEF Costed
  <2>. QED BY <2>4
<1>7. ASSUME NEW i \in Nat, i \in T PROVE i + 1 \in T
  <2>. SUFFICES ASSUME i + 1 =< n PROVE Costed(o[i + 1], d, i + 1, g)
    OBVIOUS
  <2>1. i < n /\ i + 1 \in 1..n /\ (i + 1) - 1 = i
    OBVIOUS
  <2>2. Costed(o[i], d, i, g)
    BY <1>7, <2>1
  <2>3. o[i + 1] = Admitted(o[i], d[i + 1])
    BY <1>2, <2>1 DEF Distinct
  <2>4. Costed(Admitted(o[i], d[i + 1]), d, i + 1, g)
    BY <1>1, <1>4, <1>5, <2>1, <2>2, CostedGoesOn
  <2>. QED BY <2>3, <2>4
<1>8. Costed(o[n], d, n, g)
  <2>1. \A i \in Nat : i \in T
    <3>. HIDE DEF T
    <3>. QED BY <1>6, <1>7, Inductive
  <2>2. n \in T
    <3>. HIDE DEF T
    <3>. QED BY <2>1
  <2>. QED BY <2>2
<1>9. NetCost(o[n]) = g[Seen(d, n)]
  BY <1>8 DEF Costed
<1>10. g[Seen(d, n)] \in Int
  <2>1. Seen(d, n) \in SUBSET CostEvents
    <3>1. \A k \in 1..n : d[k] \in CostEvents
      BY <1>1, Element
    <3>. QED BY <3>1 DEF Seen
  <2>. QED BY <1>4, <1>5, <2>1, ChargeType
<1>11. Normalized(d) = o[n]
  BY <1>2 DEF Distinct
<1>12. CostOf(Range(d)) = g[Seen(d, n)]
  <2>1. CostOf(Range(d)) = Charge(Range(d))[Range(d)]
    BY CostIsCharge
  <2>. QED BY <1>3, <1>5, <2>1
<1>. QED BY <1>9, <1>10, <1>11, <1>12
-----------------------------------------------------------------------------
(* What is left of the money.                                                  *)

\* What was paid or received for fills.
Values(s) == [i \in DOMAIN s |-> s[i].qty * Price(s[i])]

LEMMA ValueOfAll ==
  ASSUME NEW s, NEW F, Tally(F, s), NEW U, Worth(U, F, s)
  PROVE  Total(Values(s)) = U[F[Len(s)]]
<1>a. PICK l \in Nat : l = Len(s)
  BY TallyGrows
<1>1. l = Len(s) /\ DOMAIN s = 1..l
  BY <1>a, TallyGrows
<1>2. F[0] = 0 /\ \A i \in 0..l : F[i] \in Nat /\ F[i] =< F[l]
  BY <1>1, TallyGrows
<1>3. PICK v : v = Values(s)
  OBVIOUS
<1>4. \A i \in 1..l : v[i] = s[i].qty * Price(s[i])
  BY <1>1, <1>3 DEF Values
<1>5. PICK h : h = [i \in 0..l |-> U[F[i]]]
  OBVIOUS
<1>6. \A i \in 0..l : h[i] = U[F[i]] /\ h[i] \in Int
  <2>. SUFFICES ASSUME NEW i \in 0..l PROVE U[F[i]] \in Int
    BY <1>5
  <2>1. PICK k \in Nat : k = F[i] /\ k =< F[Len(s)]
    BY <1>1, <1>2
  <2>2. U[k] \in Int
    BY <2>1, WorthOfSome
  <2>. QED BY <2>1, <2>2
<1>7. ASSUME NEW i \in 1..l PROVE v[i] \in Int /\ h[i] = h[i - 1] + v[i]
  <2>1. i \in 0..l /\ i - 1 \in 0..l /\ i \in 1..Len(s) /\ i - 1 \in 0..Len(s)
    BY <1>1
  <2>2. PICK k \in Nat, q \in Nat, price \in Int : k = F[i - 1] /\ q = s[i].qty /\ price = Price(s[i]) /\ F[i] = k + q
    <3>1. F[i - 1] \in Nat /\ s[i].qty \in Nat /\ Price(s[i]) \in Int /\ F[i] = F[i - 1] + s[i].qty
      BY <2>1, TallyGrows
    <3>. QED BY <3>1
  <2>3. F[i - 1] =< k /\ k + q =< F[i]
    BY <2>2
  <2>4. U[k + q] = U[k] + q * Price(s[i])
    BY <2>1, <2>3, WorthGrows
  <2>5. h[i] = h[i - 1] + v[i] /\ v[i] = q * price
    BY <1>4, <1>6, <2>1, <2>2, <2>4
  <2>6. q * price \in Int
    OBVIOUS
  <2>. QED BY <2>5, <2>6
<1>8. Sums(h, v, l)
  <2>1. h \in [0..l -> Int]
    BY <1>5, <1>6
  <2>2. h[0] = 0
    <3>1. 0 \in 0..l
      OBVIOUS
    <3>2. h[0] = U[0]
      BY <1>2, <1>6, <3>1
    <3>3. U[0] = 0
      BY DEF Worth, Sums
    <3>. QED BY <3>2, <3>3
  <2>. QED BY <1>7, <2>1, <2>2 DEF Sums
<1>9. Total(v) = h[l]
  <2>1. DOMAIN v = 1..l /\ v = [i \in DOMAIN v |-> v[i]]
    BY <1>1, <1>3 DEF Values
  <2>. QED BY <1>8, <2>1, TotalIs
<1>10. l \in 0..l
  OBVIOUS
<1>. QED BY <1>1, <1>3, <1>6, <1>9, <1>10

\* What is left of a profit on all units and of an open position.
LEMMA Balance ==
  ASSUME NEW sign \in {1, -1}, NEW y \in Int, NEW v \in Int, NEW u \in Int, NEW w \in Int, NEW n \in Int
  PROVE  sign * (y - v) + sign * (w - (u - v)) - n = sign * (y + w - u) - n
<1>1. sign = 1 \/ sign = -1
  OBVIOUS
<1>. QED BY <1>1

\* Both authorities were projected.
Projected(a, sign, mark, d, r, p, k) ==
  /\ r = Accounting(a, sign) /\ r.status # Rejected
  /\ p.gross = r.realized + Unrealized(r, mark, sign)
  /\ ~Conflicting(d) /\ k.cost = NetCost(Normalized(d))

LEMMA NetIsProjected ==
  ASSUME NEW a, NEW sign, NEW mark, NEW d, NEW p, NEW k, NEW net,
         p = Performance(a, mark, sign), k = CostAccounting(a, sign, d),
         net = NetPerformance(p, k), net.status = "PROJECTED"
  PROVE  net.net = p.gross - k.cost /\ Projected(a, sign, mark, d, Accounting(a, sign), p, k)
<1>1. net = [status |-> Rejected] \/ net = [status |-> "PROJECTED", net |-> p.gross - k.cost]
  BY DEF NetPerformance
<1>2. net # [status |-> Rejected]
  BY DEF Rejected
<1>3. p.status # Rejected /\ k.status # Rejected
  BY <1>2 DEF NetPerformance
<1>4. PICK r : r = Accounting(a, sign)
  OBVIOUS
<1>5. p = [status |-> Rejected] \/
      (r.status # Rejected /\ p = [status |-> "PROJECTED", accounting |-> r,
                                   gross |-> r.realized + Unrealized(r, mark, sign)])
  BY <1>4 DEF Performance
<1>6. k = [status |-> Rejected] \/
      (~Conflicting(d) /\ k = [status |-> "PROJECTED", accounting |-> r, cost |-> NetCost(Normalized(d))])
  BY <1>4 DEF CostAccounting
<1>7. [status |-> Rejected].status = Rejected
  OBVIOUS
<1>8. r.status # Rejected /\ p.gross = r.realized + Unrealized(r, mark, sign)
  BY <1>3, <1>5, <1>7
<1>9. ~Conflicting(d) /\ k.cost = NetCost(Normalized(d))
  BY <1>3, <1>6, <1>7
<1>10. net.net = p.gross - k.cost
  BY <1>1, <1>2
<1>. QED BY <1>4, <1>8, <1>9, <1>10 DEF Projected

LEMMA AccountingNeeds ==
  ASSUME NEW a, NEW sign, Accounting(a, sign).status # Rejected
  PROVE  Exposed(a) /\ ~Ambiguous(a)
<1>. SUFFICES ASSUME ~Exposed(a) \/ Ambiguous(a) PROVE FALSE
  OBVIOUS
<1>1. Accounting(a, sign) = [status |-> Rejected]
  BY DEF Accounting
<1>. QED BY <1>1

LEMMA NetOfAttempt ==
  ASSUME NEW a, NEW F, NEW X, Pace(a, F, X), NEW sign \in {1, -1}, NEW mark, mark.price \in Int,
         NEW d \in Seq(CostEvents), NEW p, NEW k, Projected(a, sign, mark, d, Accounting(a, sign), p, k)
  PROVE  p.gross - k.cost
           = sign * (Total(Values(a.exits)) + Open(a) * mark.price - Total(Values(a.fills))) - CostOf(Range(d))
<1>1. PICK r : r = Accounting(a, sign)
  OBVIOUS
<1>2. /\ r.status # Rejected /\ p.gross = r.realized + Unrealized(r, mark, sign)
      /\ ~Conflicting(d) /\ k.cost = NetCost(Normalized(d))
  BY <1>1 DEF Projected
<1>3. Exposed(a) /\ ~Ambiguous(a)
  BY <1>1, <1>2, AccountingNeeds
<1>4. PICK n \in Nat, c \in Nat, q \in Nat : n = a.filled /\ c = a.exited /\ q = a.protected
  BY DEF Pace, Good, Attempts
<1>5. c =< n
  <2>1. c =< q /\ q =< n
    BY <1>4 DEF Pace, Good, Nest
  <2>. QED BY <2>1
<1>6. PICK s, x : s = a.fills /\ x = a.exits
  OBVIOUS
<1>7. Paced(a, F, X) /\ F[Len(s)] = n /\ X[Len(x)] = c
  BY <1>4, <1>6 DEF Pace, Paced
<1>8. PICK U, Y : Accounted(a, sign, F, U, X, Y, r)
  BY <1>1, <1>3, <1>4, <1>7, AccountingIs
<1>9. Sides(s, F, U, x, X, Y, sign)
  BY <1>6, <1>8, Zenon DEF Accounted
<1>10. /\ r.realized = sign * (Y[c] - U[c])
       /\ \A z \in Int, sg \in {1, -1} :
            Total(Gains(r.lots, z, sg)) = sg * (z * Open(a) - (U[n] - U[c]))
  BY <1>4, <1>8, Zenon DEF Accounted
<1>11. PICK m \in Nat : m = Open(a) /\ m = n - c
  BY <1>4, <1>5 DEF Open
<1>12. Tally(F, s) /\ Worth(U, F, s) /\ Tally(X, x) /\ Worth(Y, X, x)
  BY <1>9 DEF Sides
<1>13. PICK u \in Int, v \in Int, y \in Int : u = U[n] /\ v = U[c] /\ y = Y[c]
  <2>1. n =< F[Len(s)] /\ c =< F[Len(s)] /\ c =< X[Len(x)]
    BY <1>5, <1>7
  <2>. QED BY <1>12, <2>1, WorthOfSome
<1>14. Total(Values(s)) = u /\ Total(Values(x)) = y
  <2>1. Total(Values(s)) = U[F[Len(s)]]
    BY <1>12, ValueOfAll
  <2>2. Total(Values(x)) = Y[X[Len(x)]]
    BY <1>12, ValueOfAll
  <2>. QED BY <1>7, <1>13, <2>1, <2>2
<1>15. PICK z \in Int : z = mark.price
  OBVIOUS
<1>16. Unrealized(r, mark, sign) = sign * (z * m - (u - v))
  <2>1. Unrealized(r, mark, sign) = Total(Gains(r.lots, z, sign))
    BY <1>15 DEF Unrealized, Gains
  <2>2. Total(Gains(r.lots, z, sign)) = sign * (z * Open(a) - (U[n] - U[c]))
    BY <1>10, Zenon
  <2>. QED BY <1>11, <1>13, <2>1, <2>2, Zenon
<1>17. PICK e \in Int : e = CostOf(Range(d)) /\ e = k.cost
  BY <1>2, CostsOnce
<1>18. PICK w \in Int : w = z * m /\ w = m * z
  OBVIOUS
<1>19. p.gross = sign * (y - v) + sign * (w - (u - v))
  BY <1>2, <1>10, <1>13, <1>16, <1>18
<1>20. sign * (y - v) + sign * (w - (u - v)) - e = sign * (y + w - u) - e
  BY Balance
<1>21. p.gross - k.cost = sign * (y + w - u) - e
  BY <1>17, <1>19, <1>20
<1>22. Total(Values(a.exits)) = y /\ Total(Values(a.fills)) = u /\ Open(a) * mark.price = w
  BY <1>6, <1>11, <1>14, <1>15, <1>18
<1>. QED BY <1>17, <1>21, <1>22

\* What is left of a trade is what was received for its exits and what is open at
\* the mark, less what its entries cost and each distinct cost event once, however
\* the cost events were delivered (trade-valuation, trade-performance,
\* trade-cost-accounting and net-trade-performance engines).
THEOREM NetIsAlwaysConserved == Spec => []NetIsConserved
<1>. DEFINE Right(sign, mark, d, net) ==
       net.status = "PROJECTED" =>
         net.net = sign * (Total(Values(attempt.exits)) + Open(attempt) * mark.price
                             - Total(Values(attempt.fills))) - CostOf(Range(d))
<1>1. ASSUME FactsInv, Numbered, AtRest, NEW sign \in Signs, NEW mark \in Marks, NEW d \in Deliveries
      PROVE  Right(sign, mark, d, NetPerformance(Performance(attempt, mark, sign), CostAccounting(attempt, sign, d)))
  <2>1. PICK p, k, net : /\ p = Performance(attempt, mark, sign) /\ k = CostAccounting(attempt, sign, d)
                         /\ net = NetPerformance(p, k)
    OBVIOUS
  <2>2. PICK F, X : Pace(attempt, F, X)
    BY <1>1, AttemptIsPaced DEF AtRest
  <2>3. sign \in {1, -1} /\ mark.price \in Int /\ d \in Seq(CostEvents)
    BY AccountingAssumption
  <2>. SUFFICES ASSUME net.status = "PROJECTED"
                PROVE  net.net = sign * (Total(Values(attempt.exits)) + Open(attempt) * mark.price
                                           - Total(Values(attempt.fills))) - CostOf(Range(d))
    BY <2>1
  <2>4. net.net = p.gross - k.cost /\ Projected(attempt, sign, mark, d, Accounting(attempt, sign), p, k)
    BY <2>1, NetIsProjected
  <2>. QED BY <2>2, <2>3, <2>4, NetOfAttempt
<1>2. FactsInv /\ Numbered => NetIsConserved
  BY <1>1 DEF NetIsConserved, Values, CostOf, FoldSet, MapThenFoldSet
<1>. QED BY <1>2, NumbersInvariant, PTL
=============================================================================
