--------------------------- MODULE TradePlanProofs ---------------------------
(* What the plans of a day may cost, and what they aim at, for every chart,    *)
(* configuration and account: LossIsBounded and TargetsAreUntouched, from the  *)
(* assumptions of Setups, TradeDecision and TradePlan alone.                   *)
(*                                                                             *)
(* Of the cost.  A setup that is found on a chart is grounded in it: the times *)
(* that it names are times of candles, so that its prices are prices of the    *)
(* chart (SetupsAreGrounded, through the structure, which is a fold over the   *)
(* candles).  An intent then loses at its stop no more than was asked for, and *)
(* the limits leave the floor of the day (IntentIsPaidFor, LimitsAreSafe).     *)
(* And a fill, an exit, an expiry or a preparation leaves no less than before  *)
(* (Bounded, the inductive invariant, which covers the intent that may still   *)
(* be prepared).                                                               *)
(*                                                                             *)
(* Of the aim.  After each candle the active levels are the swings that        *)
(* nothing has traded through, and an event is what a candle did to a level    *)
(* that stood until then (CurrentStays, an invariant of the fold).  A sequence *)
(* so swept and broke swings that were known in time (SequencesForesee), and a *)
(* decision's targets are the swings that stand (TargetsAreSwings).  The       *)
(* invariant of the steps, TargetsReadOff, adds that the chart is dated, so    *)
(* that another candle makes a decision one of the past.                       *)
EXTENDS TradePlan, FiniteSetTheorems, WellFoundedInduction, TLAPS
-----------------------------------------------------------------------------
(* Induction.  The least member of a set of numbers stands for the rule, which  *)
(* takes an operator; a lemma that is proved by induction names the set of the  *)
(* numbers that it holds for.                                                  *)

Before == OpToRel(<, Nat)

LEMMA LeastMember ==
  ASSUME NEW T, T \subseteq Nat, T # {}
  PROVE  \E m \in T : \A k \in T : m =< k
<1>1. IsWellFoundedOn(Before, Nat)
  BY NatLessThanWellFounded, Zenon DEF Before
<1>2. PICK m \in T : \A k \in T : ~(<<k, m>> \in Before)
  BY <1>1, WFMin
<1>3. \A k, n \in Nat : k < n => <<k, n>> \in Before
  BY DEF Before, OpToRel
<1>4. \A k \in T : ~(k < m)
  BY <1>2, <1>3
<1>5. m \in Nat /\ \A k \in T : k \in Nat
  OBVIOUS
<1> QED BY <1>4, <1>5

LEMMA Inductive ==
  ASSUME NEW T, 0 \in T, \A n \in Nat : n \in T => n + 1 \in T
  PROVE  \A n \in Nat : n \in T
<1> SUFFICES ASSUME NEW n \in Nat, n \notin T PROVE FALSE
  OBVIOUS
<1>1. PICK m \in Nat \ T : \A k \in Nat \ T : m =< k
  BY LeastMember
<1>2. m # 0 /\ m - 1 \in Nat /\ m - 1 \in T
  BY <1>1
<1> QED BY <1>2

\* A finite set of numbers that is not empty has a greatest and a least member.
LEMMA Extremes ==
  ASSUME NEW S, S \subseteq Nat, IsFiniteSet(S), S # {}
  PROVE  /\ Max(S) \in S /\ \A k \in S : k =< Max(S)
         /\ Min(S) \in S /\ \A k \in S : Min(S) =< k
<1> DEFINE T == {n \in Nat : \A U \in SUBSET Nat :
                   IsFiniteSet(U) /\ Cardinality(U) = n + 1 => \E m \in U : \A k \in U : k =< m}
<1>1. 0 \in T
  <2> SUFFICES ASSUME NEW U \in SUBSET Nat, IsFiniteSet(U), Cardinality(U) = 1
               PROVE  \E m \in U : \A k \in U : k =< m
    OBVIOUS
  <2>1. PICK m : U = {m}
    BY FS_Singleton
  <2> QED BY <2>1
<1>2. \A n \in Nat : n \in T => n + 1 \in T
  <2> SUFFICES ASSUME NEW n \in Nat, n \in T, NEW U \in SUBSET Nat, IsFiniteSet(U), Cardinality(U) = n + 2
               PROVE  \E m \in U : \A k \in U : k =< m
    OBVIOUS
  <2>0. U # {}
    BY FS_EmptySet
  <2>1. PICK x \in U : TRUE
    BY <2>0
  <2>2. IsFiniteSet(U \ {x}) /\ Cardinality(U \ {x}) = n + 1
    BY FS_RemoveElement
  <2>3. PICK m \in U \ {x} : \A k \in U \ {x} : k =< m
    BY <2>2
  <2>4. (m >= x /\ \A k \in U : k =< m) \/ (x >= m /\ \A k \in U : k =< x)
    BY <2>3
  <2> QED BY <2>4
<1>3. \A n \in Nat : n \in T
  <2> HIDE DEF T
  <2> QED BY <1>1, <1>2, Inductive
<1>4. Cardinality(S) \in Nat \ {0}
  BY FS_CardinalityType, FS_EmptySet
<1>5. Cardinality(S) - 1 \in T
  BY <1>3, <1>4
<1>6. \E m \in S : \A k \in S : k =< m
  BY <1>4, <1>5
<1>7. \E m \in S : \A k \in S : m =< k
  BY LeastMember
<1> QED BY <1>6, <1>7 DEF Max, Min
-----------------------------------------------------------------------------
(* Sums.                                                                       *)

\* What SumFunction is computed by: the sums of f over the subsets of S.
Recursion(f, S, g) ==
  g = [s \in SUBSET S |-> IF s = {} THEN 0
                          ELSE f[CHOOSE x \in s : TRUE] + g[s \ {CHOOSE x \in s : TRUE}]]
Partial(f, S) == CHOOSE g : Recursion(f, S, g)

LEMMA SumIsPartial ==
  ASSUME NEW f
  PROVE  SumFunction(f) = Partial(f, DOMAIN f)[DOMAIN f]
BY DEF SumFunction, SumFunctionOnSet, FoldFunctionOnSet, MapThenFoldSet, Partial, Recursion

LEMMA PartialExists ==
  ASSUME NEW f, NEW S, IsFiniteSet(S)
  PROVE  Recursion(f, S, Partial(f, S))
<1> DEFINE Small(n) == {s \in SUBSET S : Cardinality(s) =< n}
           Rest(s) == s \ {CHOOSE x \in s : TRUE}
           First(s) == f[CHOOSE x \in s : TRUE]
           Up(n, g) == g = [s \in Small(n) |-> IF s = {} THEN 0 ELSE First(s) + g[Rest(s)]]
           T == {n \in Nat : \E g : Up(n, g)}
<1>0. \A s \in SUBSET S : /\ Cardinality(s) \in Nat /\ Cardinality(s) =< Cardinality(S)
                          /\ s # {} => Rest(s) \in SUBSET S /\ Cardinality(Rest(s)) = Cardinality(s) - 1
                          /\ Cardinality(s) = 0 <=> s = {}
  <2> SUFFICES ASSUME NEW s \in SUBSET S
               PROVE /\ Cardinality(s) \in Nat /\ Cardinality(s) =< Cardinality(S)
                     /\ s # {} => Rest(s) \in SUBSET S /\ Cardinality(Rest(s)) = Cardinality(s) - 1
                     /\ Cardinality(s) = 0 <=> s = {}
    OBVIOUS
  <2>1. IsFiniteSet(s) /\ Cardinality(s) =< Cardinality(S)
    BY FS_Subset
  <2>2. Cardinality(s) \in Nat /\ (Cardinality(s) = 0 <=> s = {})
    BY <2>1, FS_CardinalityType, FS_EmptySet
  <2>3. s # {} => Cardinality(Rest(s)) = Cardinality(s) - 1
    BY <2>1, FS_RemoveElement
  <2> QED BY <2>1, <2>2, <2>3
<1>1. 0 \in T
  <2>1. Up(0, [s \in Small(0) |-> 0])
    BY <1>0
  <2> QED BY <2>1
<1>2. ASSUME NEW n \in Nat, NEW g, Up(n, g) PROVE \E h : Up(n + 1, h)
  <2>1. PICK h : h = [s \in Small(n + 1) |-> IF s = {} THEN 0 ELSE First(s) + g[Rest(s)]]
    OBVIOUS
  <2>2. \A s \in Small(n) : s \in Small(n + 1) /\ h[s] = g[s]
    BY <1>0, <1>2, <2>1
  <2>3. \A s \in Small(n + 1) : s # {} => Rest(s) \in Small(n)
    BY <1>0
  <2>4. \A s \in Small(n + 1) : s # {} => g[Rest(s)] = h[Rest(s)]
    <3> HIDE DEF Rest, Small
    <3> QED BY <2>2, <2>3
  <2> HIDE DEF Rest, First, Small
  <2>5. Up(n + 1, h)
    BY <2>1, <2>4
  <2> QED BY <2>5
<1>8. \A n \in Nat : n \in T => n + 1 \in T
  <2> HIDE DEF Up
  <2> QED BY <1>2
<1>3. Cardinality(S) \in Nat
  BY FS_CardinalityType
<1>4. Cardinality(S) \in T
  <2> HIDE DEF T
  <2> QED BY <1>1, <1>8, <1>3, Inductive
<1>5. PICK g : Up(Cardinality(S), g)
  BY <1>4
<1>6. Small(Cardinality(S)) = SUBSET S
  BY <1>0
<1>7. Recursion(f, S, g)
  BY <1>5, <1>6 DEF Recursion
<1> QED BY <1>7 DEF Partial

Chosen(s) == CHOOSE x \in s : TRUE

LEMMA Sizes ==
  ASSUME NEW S, IsFiniteSet(S), NEW s \in SUBSET S
  PROVE  /\ Cardinality(s) \in Nat /\ (Cardinality(s) = 0 <=> s = {})
         /\ \A x \in s : s \ {x} \in SUBSET S /\ Cardinality(s \ {x}) = Cardinality(s) - 1
BY FS_Subset, FS_CardinalityType, FS_EmptySet, FS_RemoveElement

LEMMA PartialEmpty ==
  ASSUME NEW f, NEW S, IsFiniteSet(S)
  PROVE  Partial(f, S)[{}] = 0
<1>1. PICK g : g = Partial(f, S)
  OBVIOUS
<1>2. Recursion(f, S, g)
  BY <1>1, PartialExists
<1>3. g[{}] = 0
  BY <1>2 DEF Recursion
<1> QED BY <1>1, <1>3

LEMMA PartialStep ==
  ASSUME NEW f, NEW S, IsFiniteSet(S), NEW s \in SUBSET S, s # {}
  PROVE  /\ Chosen(s) \in s
         /\ Partial(f, S)[s] = f[Chosen(s)] + Partial(f, S)[s \ {Chosen(s)}]
<1>1. PICK g : g = Partial(f, S)
  OBVIOUS
<1>2. Recursion(f, S, g)
  BY <1>1, PartialExists
<1>3. g[s] = f[Chosen(s)] + g[s \ {Chosen(s)}]
  BY <1>2 DEF Recursion, Chosen
<1>4. Chosen(s) \in s
  BY DEF Chosen
<1> QED BY <1>1, <1>3, <1>4

LEMMA PartialType ==
  ASSUME NEW f, NEW S, IsFiniteSet(S), \A x \in S : f[x] \in Int
  PROVE  \A s \in SUBSET S : Partial(f, S)[s] \in Int
<1> DEFINE T == {n \in Nat : \A s \in SUBSET S : Cardinality(s) = n => Partial(f, S)[s] \in Int}
<1>1. 0 \in T
  <2>1. \A s \in SUBSET S : Cardinality(s) = 0 => s = {}
    BY Sizes
  <2> QED BY <2>1, PartialEmpty
<1>2. ASSUME NEW n \in Nat, n \in T, NEW s \in SUBSET S, Cardinality(s) = n + 1
      PROVE  Partial(f, S)[s] \in Int
  <2>0. s # {}
    BY <1>2, Sizes
  <2>1. PICK c : c = Chosen(s)
    OBVIOUS
  <2>2. c \in s /\ Partial(f, S)[s] = f[c] + Partial(f, S)[s \ {c}]
    BY <2>0, <2>1, PartialStep
  <2>3. s \ {c} \in SUBSET S /\ Cardinality(s \ {c}) = n
    BY <1>2, <2>2, Sizes
  <2>4. Partial(f, S)[s \ {c}] \in Int
    BY <1>2, <2>3
  <2> QED BY <2>2, <2>4
<1>3. \A n \in Nat : n \in T => n + 1 \in T
  BY <1>2
<1>4. \A n \in Nat : n \in T
  <2> HIDE DEF T
  <2> QED BY <1>1, <1>3, Inductive
<1> QED BY <1>4, Sizes

\* It does not matter in which order the terms are added.
LEMMA PartialRemove ==
  ASSUME NEW f, NEW S, IsFiniteSet(S), \A x \in S : f[x] \in Int, NEW u \in SUBSET S, NEW y \in u
  PROVE  Partial(f, S)[u] = f[y] + Partial(f, S)[u \ {y}]
<1> DEFINE P(s) == Partial(f, S)[s]
           T == {n \in Nat : \A s \in SUBSET S : Cardinality(s) = n => \A x \in s : P(s) = f[x] + P(s \ {x})}
<1>0. \A s \in SUBSET S : P(s) \in Int
  BY PartialType
<1>1. 0 \in T
  BY Sizes
<1>2. ASSUME NEW n \in Nat, n \in T, NEW s \in SUBSET S, Cardinality(s) = n + 1, NEW x \in s
      PROVE  P(s) = f[x] + P(s \ {x})
  <2>1. PICK c : c = Chosen(s)
    OBVIOUS
  <2>2. c \in s /\ P(s) = f[c] + P(s \ {c})
    <3>1. s # {}
      OBVIOUS
    <3>2. Chosen(s) \in s /\ P(s) = f[Chosen(s)] + P(s \ {Chosen(s)})
      BY <3>1, PartialStep
    <3> QED BY <2>1, <3>2
  <2>3. CASE c = x
    BY <2>2, <2>3
  <2>4. CASE c # x
    <3>1. /\ s \ {c} \in SUBSET S /\ Cardinality(s \ {c}) = n /\ x \in s \ {c}
          /\ s \ {x} \in SUBSET S /\ Cardinality(s \ {x}) = n /\ c \in s \ {x}
      BY <1>2, <2>2, <2>4, Sizes
    <3>2. P(s \ {c}) = f[x] + P((s \ {c}) \ {x}) /\ P(s \ {x}) = f[c] + P((s \ {x}) \ {c})
      BY <1>2, <3>1
    <3>3. (s \ {c}) \ {x} = (s \ {x}) \ {c} /\ (s \ {x}) \ {c} \in SUBSET S
      OBVIOUS
    <3>4. P((s \ {x}) \ {c}) \in Int /\ f[x] \in Int /\ f[c] \in Int
      BY <1>0, <2>2, <3>3
    <3>5. PICK r : r = P((s \ {x}) \ {c})
      OBVIOUS
    <3>6. P(s) = f[c] + (f[x] + r) /\ P(s \ {x}) = f[c] + r
      BY <2>2, <3>2, <3>3, <3>5
    <3> HIDE DEF P
    <3> QED BY <3>4, <3>5, <3>6
  <2> QED BY <2>3, <2>4
<1>3. \A n \in Nat : n \in T => n + 1 \in T
  <2> HIDE DEF P
  <2> QED BY <1>2
<1>4. \A n \in Nat : n \in T
  <2> HIDE DEF T
  <2> QED BY <1>1, <1>3, Inductive
<1>5. Cardinality(u) \in T
  BY <1>4, Sizes
<1> QED BY <1>5

LEMMA PartialAgree ==
  ASSUME NEW f, NEW S, IsFiniteSet(S), NEW g, NEW U, IsFiniteSet(U)
  PROVE  \A s \in SUBSET S : s \subseteq U /\ (\A x \in s : f[x] = g[x]) => Partial(f, S)[s] = Partial(g, U)[s]
<1> DEFINE Agrees(s) == s \subseteq U /\ (\A x \in s : f[x] = g[x]) => Partial(f, S)[s] = Partial(g, U)[s]
           T == {n \in Nat : \A s \in SUBSET S : Cardinality(s) = n => Agrees(s)}
<1>1. 0 \in T
  <2>1. \A s \in SUBSET S : Cardinality(s) = 0 => s = {}
    BY Sizes
  <2> QED BY <2>1, PartialEmpty
<1>2. ASSUME NEW n \in Nat, n \in T, NEW s \in SUBSET S, Cardinality(s) = n + 1
      PROVE  Agrees(s)
  <2> SUFFICES ASSUME s \subseteq U, \A x \in s : f[x] = g[x] PROVE Partial(f, S)[s] = Partial(g, U)[s]
    OBVIOUS
  <2>1. PICK c : c = Chosen(s)
    OBVIOUS
  <2>2. s # {} /\ s \in SUBSET U
    BY <1>2, Sizes
  <2>8. Chosen(s) \in s /\ Partial(f, S)[s] = f[Chosen(s)] + Partial(f, S)[s \ {Chosen(s)}]
    BY <2>2, PartialStep
  <2>6. c \in s /\ Partial(f, S)[s] = f[c] + Partial(f, S)[s \ {c}]
    BY <2>1, <2>8
  <2>7. Partial(g, U)[s] = g[c] + Partial(g, U)[s \ {c}]
    BY <2>1, <2>2, PartialStep
  <2>3. f[c] = g[c]
    BY <2>6
  <2>4. s \ {c} \in SUBSET S /\ Cardinality(s \ {c}) = n
    BY <1>2, <2>6, Sizes
  <2>5. Partial(f, S)[s \ {c}] = Partial(g, U)[s \ {c}]
    BY <1>2, <2>4
  <2> QED BY <2>6, <2>7, <2>3, <2>5
<1>3. \A n \in Nat : n \in T => n + 1 \in T
  <2> HIDE DEF Agrees
  <2> QED BY <1>2
<1>4. \A n \in Nat : n \in T
  <2> HIDE DEF T
  <2> QED BY <1>1, <1>3, Inductive
<1> QED BY <1>4, Sizes

\* A sum of numbers over a finite set: one term more, one term less, other terms.
LEMMA SumType ==
  ASSUME NEW f, IsFiniteSet(DOMAIN f), \A x \in DOMAIN f : f[x] \in Int
  PROVE  SumFunction(f) \in Int
BY SumIsPartial, PartialType

LEMMA SumEmpty == ASSUME NEW f, DOMAIN f = {} PROVE SumFunction(f) = 0
BY SumIsPartial, PartialEmpty, FS_EmptySet

\* The sum of f over S and the sum of g over U are the same but for x.
LEMMA SumWithout ==
  ASSUME NEW f, IsFiniteSet(DOMAIN f), \A x \in DOMAIN f : f[x] \in Int,
         NEW x \in DOMAIN f, NEW g, DOMAIN g = DOMAIN f \ {x}, \A y \in DOMAIN g : g[y] = f[y]
  PROVE  SumFunction(f) = f[x] + SumFunction(g)
<1> DEFINE S == DOMAIN f  U == DOMAIN g
<1>1. IsFiniteSet(S) /\ IsFiniteSet(U) /\ U \in SUBSET U /\ U \in SUBSET S /\ S \in SUBSET S
  BY FS_RemoveElement
<1>2. Partial(f, S)[S] = f[x] + Partial(f, S)[U]
  BY <1>1, PartialRemove
<1>3. Partial(g, U)[U] = Partial(f, S)[U]
  BY <1>1, PartialAgree
<1> QED BY <1>2, <1>3, SumIsPartial

LEMMA SumAgrees ==
  ASSUME NEW f, NEW g, IsFiniteSet(DOMAIN f), DOMAIN g = DOMAIN f, \A x \in DOMAIN f : f[x] = g[x]
  PROVE  SumFunction(f) = SumFunction(g)
<1> DEFINE S == DOMAIN f
<1>1. Partial(f, S)[S] = Partial(g, S)[S]
  BY PartialAgree
<1> QED BY <1>1, SumIsPartial
-----------------------------------------------------------------------------
(* The structure of a chart.                                                   *)

\* The members of a finite set of numbers have the ranks from one on.
LEMMA Ranks ==
  ASSUME NEW I, I \subseteq Nat, IsFiniteSet(I)
  PROVE  /\ Cardinality(I) \in Nat
         /\ \A m \in 1..Cardinality(I) : \E i \in I : Cardinality({j \in I : j =< i}) = m
<1> DEFINE Ranked(U) == \A m \in 1..Cardinality(U) : \E i \in U : Cardinality({j \in U : j =< i}) = m
           T == {n \in Nat : \A U \in SUBSET Nat : IsFiniteSet(U) /\ Cardinality(U) = n => Ranked(U)}
<1>1. 0 \in T
  OBVIOUS
<1>2. ASSUME NEW n \in Nat, n \in T, NEW U \in SUBSET Nat, IsFiniteSet(U), Cardinality(U) = n + 1
      PROVE  Ranked(U)
  <2>1. U # {}
    BY <1>2, FS_EmptySet
  <2>2. PICK x : x = Max(U)
    OBVIOUS
  <2>3. x \in U /\ \A k \in U : k =< x
    BY <1>2, <2>1, <2>2, Extremes
  <2>4. IsFiniteSet(U \ {x}) /\ Cardinality(U \ {x}) = n
    <3>1. IsFiniteSet(U \ {x}) /\ Cardinality(U \ {x}) = Cardinality(U) - 1
      BY <1>2, <2>3, FS_RemoveElement
    <3> QED BY <1>2, <3>1
  <2>5. Ranked(U \ {x})
    BY <1>2, <2>4
  <2> SUFFICES ASSUME NEW m \in 1..(n + 1) PROVE \E i \in U : Cardinality({j \in U : j =< i}) = m
    BY <1>2
  <2>6. CASE m = n + 1
    <3>1. {j \in U : j =< x} = U
      BY <2>3
    <3> QED BY <1>2, <2>3, <2>6, <3>1
  <2>7. CASE m \in 1..n
    <3>1. PICK i \in U \ {x} : Cardinality({j \in U \ {x} : j =< i}) = m
      BY <2>4, <2>5, <2>7
    <3>2. {j \in U \ {x} : j =< i} = {j \in U : j =< i}
      BY <2>3
    <3> QED BY <3>1, <3>2
  <2> QED BY <2>6, <2>7
<1>3. \A n \in Nat : n \in T => n + 1 \in T
  <2> HIDE DEF Ranked
  <2> QED BY <1>2
<1>4. \A n \in Nat : n \in T
  <2> HIDE DEF T
  <2> QED BY <1>1, <1>3, Inductive
<1>5. Cardinality(I) \in Nat
  BY FS_CardinalityType
<1>6. Cardinality(I) \in T
  BY <1>4, <1>5
<1> QED BY <1>5, <1>6

LEMMA FunctionAsSequence ==
  ASSUME NEW S, NEW n \in Nat, NEW f \in [1..n -> S]
  PROVE  f \in Seq(S) /\ Len(f) = n
OBVIOUS

LEMMA ThoseType ==
  ASSUME NEW S, NEW s \in Seq(S), NEW I \in SUBSET DOMAIN s
  PROVE  Those(s, I) \in Seq(S)
<1>1. IsFiniteSet(I) /\ I \subseteq Nat
  BY FS_Interval, FS_Subset
<1>2. Cardinality(I) \in Nat /\ \A m \in 1..Cardinality(I) : \E i \in I : Cardinality({j \in I : j =< i}) = m
  BY <1>1, Ranks
<1>3. \A m \in 1..Cardinality(I) : s[CHOOSE i \in I : Cardinality({j \in I : j =< i}) = m] \in S
  <2> SUFFICES ASSUME NEW m \in 1..Cardinality(I)
               PROVE s[CHOOSE i \in I : Cardinality({j \in I : j =< i}) = m] \in S
    OBVIOUS
  <2>1. (CHOOSE i \in I : Cardinality({j \in I : j =< i}) = m) \in I
    BY <1>2
  <2> QED BY <2>1
<1>4. Those(s, I) \in [1..Cardinality(I) -> S]
  BY <1>3 DEF Those
<1> QED BY <1>2, <1>4, FunctionAsSequence

AnyCandle == [at : Nat, low : Nat, high : Nat, close : Nat, gap : BOOLEAN]
Times(w) == {w[i].at : i \in DOMAIN w}
AnyLevel == [side : {"BUY_SIDE", "SELL_SIDE"}, price : Nat, swing : {"HIGH", "LOW"} \X Nat,
             confirmedAt : Nat, status : {"ACTIVE", "BROKEN", "SWEPT"}]
AnyType == {"CLOSE_BREAK_ABOVE", "SWEEP_ABOVE_RECLAIM", "CLOSE_BREAK_BELOW", "SWEEP_BELOW_RECLAIM", NoEvent}
AnyEvent(w) == [type : AnyType, at : Times(w), level : AnyLevel]
AnyStructure(w) == [levels : Seq(AnyLevel), events : Seq(AnyEvent(w))]

LEMMA ResolvedType ==
  ASSUME NEW level \in AnyLevel, NEW c \in AnyCandle
  PROVE  Resolved(level, c) \in AnyLevel /\ EventType(level, c) \in AnyType
<1>1. EventType(level, c) \in AnyType
  BY DEF EventType, AnyType
<1>2. Resolved(level, c) = level \/ \E x \in {"BROKEN", "SWEPT"} : Resolved(level, c) = [level EXCEPT !.status = x]
  BY DEF Resolved
<1>3. \A x \in {"BROKEN", "SWEPT"} : [level EXCEPT !.status = x] \in AnyLevel
  BY DEF AnyLevel
<1> QED BY <1>1, <1>2, <1>3

LEMMA LevelOfType ==
  ASSUME NEW c \in AnyCandle, NEW kind \in {"HIGH", "LOW"}, NEW t \in Nat
  PROVE  LevelOf(c, kind, t) \in AnyLevel
BY DEF LevelOf, AnyLevel, AnyCandle

LEMMA StepType ==
  ASSUME NEW w \in Seq(AnyCandle), NEW s \in AnyStructure(w), NEW i \in 1..Len(w)
  PROVE  Step(w, s, i) \in AnyStructure(w)
<1> DEFINE c == w[i]
           p == i - Structure.right
           kinds == <<"HIGH", "LOW">>
           H == {k \in DOMAIN s.levels : Resolved(s.levels[k], c) # s.levels[k]}
           F == {k \in DOMAIN kinds : p > Structure.left /\ IsPivot(w, p, kinds[k])}
           hit == Those(s.levels, H)
           resolved == [k \in DOMAIN s.levels |-> Resolved(s.levels[k], c)]
           events == [k \in DOMAIN hit |-> [type |-> EventType(hit[k], c), at |-> c.at, level |-> hit[k]]]
<1>1. c \in AnyCandle /\ c.at \in Nat /\ c.at \in Times(w)
  <2>1. c \in AnyCandle
    OBVIOUS
  <2> QED BY <2>1 DEF AnyCandle, Times
<1>2. s.levels \in Seq(AnyLevel) /\ s.events \in Seq(AnyEvent(w))
  BY DEF AnyStructure
<1>3. hit \in Seq(AnyLevel)
  BY <1>2, ThoseType
<1>9. PICK found : found = Those(kinds, F)
  OBVIOUS
<1> DEFINE left == [k \in DOMAIN found |-> LevelOf(w[p], found[k], c.at)]
<1>4. found \in Seq({"HIGH", "LOW"}) /\ DOMAIN found = 1..Cardinality(F) /\ DOMAIN found = 1..Len(found)
  <2>1. kinds \in Seq({"HIGH", "LOW"})
    OBVIOUS
  <2>2. found \in Seq({"HIGH", "LOW"})
    BY <1>9, <2>1, ThoseType
  <2>3. DOMAIN found = 1..Cardinality(F)
    BY <1>9 DEF Those
  <2> QED BY <2>2, <2>3
<1>5. resolved \in Seq(AnyLevel)
  <2>1. \A k \in DOMAIN s.levels : Resolved(s.levels[k], c) \in AnyLevel
    <3> HIDE DEF c
    <3> QED BY <1>1, <1>2, ResolvedType
  <2>2. resolved \in [1..Len(s.levels) -> AnyLevel]
    <3> HIDE DEF c
    <3> QED BY <1>2, <2>1
  <2>3. Len(s.levels) \in Nat
    BY <1>2
  <2> HIDE DEF resolved
  <2> QED BY <2>2, <2>3, FunctionAsSequence
<1>6. left \in Seq(AnyLevel)
  <2>1. \A k \in DOMAIN found : LevelOf(w[p], found[k], c.at) \in AnyLevel
    <3> SUFFICES ASSUME NEW k \in DOMAIN found PROVE LevelOf(w[p], found[k], c.at) \in AnyLevel
      OBVIOUS
    <3>1. F # {}
      <4>1. Cardinality({}) = 0
        BY FS_EmptySet
      <4> HIDE DEF F
      <4>2. k \in 1..Cardinality(F)
        BY <1>4
      <4>3. F = {} => FALSE
        BY <4>1, <4>2
      <4> QED BY <4>3
    <3>4. p > Structure.left
      BY <3>1
    <3>2. p \in 1..Len(w)
      <4>1. Structure.left \in Nat /\ Structure.right \in Nat
        BY StructureAssumption
      <4> QED BY <3>4, <4>1
    <3> HIDE DEF p
    <3>3. w[p] \in AnyCandle /\ found[k] \in {"HIGH", "LOW"}
      <4>1. found \in Seq({"HIGH", "LOW"})
        BY <1>4
      <4>2. w[p] \in AnyCandle
        BY <3>2
      <4>3. found[k] \in {"HIGH", "LOW"}
        BY <4>1
      <4> QED BY <4>2, <4>3
    <3> HIDE DEF c, p
    <3> QED BY <1>1, <3>3, LevelOfType
  <2>2. left \in [1..Len(found) -> AnyLevel]
    <3> HIDE DEF c, p
    <3> QED BY <1>4, <2>1
  <2>3. Len(found) \in Nat
    BY <1>4
  <2> HIDE DEF left
  <2> QED BY <2>2, <2>3, FunctionAsSequence
<1>7. events \in Seq(AnyEvent(w))
  <2>1. \A k \in DOMAIN hit : [type |-> EventType(hit[k], c), at |-> c.at, level |-> hit[k]] \in AnyEvent(w)
    <3> HIDE DEF c, hit
    <3> QED BY <1>1, <1>3, ResolvedType DEF AnyEvent
  <2>2. events \in [1..Len(hit) -> AnyEvent(w)]
    <3> HIDE DEF c, hit
    <3> QED BY <1>3, <2>1
  <2>3. Len(hit) \in Nat
    BY <1>3
  <2> HIDE DEF events
  <2> QED BY <2>2, <2>3, FunctionAsSequence
<1>8. Step(w, s, i) = [levels |-> resolved \o left, events |-> s.events \o events]
  BY <1>9 DEF Step
<1> HIDE DEF resolved, left, events
<1> QED BY <1>2, <1>5, <1>6, <1>7, <1>8 DEF AnyStructure

None == [levels |-> <<>>, events |-> <<>>]

\* g[i] is the structure after candle i.
Runs(w, g) == g = [i \in 0..Len(w) |-> IF i = 0 THEN None ELSE Step(w, g[i - 1], i)]

\* The structure of a window is what the last of its candles leaves.
LEMMA MarketStructureRuns ==
  ASSUME NEW candles, NEW w \in Seq(AnyCandle), w = Window(candles, Structure.lookback)
  PROVE  \E g : Runs(w, g) /\ MarketStructure(candles) = g[Len(w)]
<1> DEFINE Upto(n, g) == g = [i \in 0..n |-> IF i = 0 THEN None ELSE Step(w, g[i - 1], i)]
           T == {n \in Nat : \E g : Upto(n, g)}
<1>1. Len(w) \in Nat
  OBVIOUS
<1>4. 0 \in T
  <2>1. Upto(0, [i \in 0..0 |-> None])
    OBVIOUS
  <2> QED BY <2>1
<1>5. ASSUME NEW n \in Nat, NEW g, Upto(n, g) PROVE \E h : Upto(n + 1, h)
  <2>1. PICK h : h = [i \in 0..(n + 1) |-> IF i = 0 THEN None ELSE Step(w, g[i - 1], i)]
    OBVIOUS
  <2>2. \A i \in 0..n : h[i] = g[i]
    BY <1>5, <2>1
  <2>3. \A i \in 0..(n + 1) : i # 0 => g[i - 1] = h[i - 1]
    BY <2>2
  <2>4. Upto(n + 1, h)
    BY <2>1, <2>3
  <2> QED BY <2>4
<1>6. \A n \in Nat : n \in T => n + 1 \in T
  <2> HIDE DEF Upto
  <2> QED BY <1>5
<1>7. \A n \in Nat : n \in T
  <2> HIDE DEF T
  <2> QED BY <1>4, <1>6, Inductive
<1>8. PICK g : g = CHOOSE After : After = [i \in 0..Len(w) |-> IF i = 0 THEN None ELSE Step(w, After[i - 1], i)]
  OBVIOUS
<1>9. Upto(Len(w), g)
  <2>1. \E h : Upto(Len(w), h)
    BY <1>1, <1>7
  <2> QED BY <1>8, <2>1
<1>10. MarketStructure(candles) = g[Len(w)]
  BY <1>8 DEF MarketStructure, None
<1> QED BY <1>9, <1>10 DEF Runs

LEMMA MarketStructureType ==
  ASSUME NEW candles \in Seq(AnyCandle), Len(candles) >= Structure.lookback
  PROVE  LET w == Window(candles, Structure.lookback)
         IN  w \in Seq(AnyCandle) /\ MarketStructure(candles) \in AnyStructure(w)
<1>1. Window(candles, Structure.lookback) \in Seq(AnyCandle)
  BY StructureAssumption DEF Window
<1>2. PICK w : w = Window(candles, Structure.lookback)
  OBVIOUS
<1>3. w \in Seq(AnyCandle) /\ Len(w) \in Nat
  BY <1>1, <1>2
<1>4. PICK g : Runs(w, g) /\ MarketStructure(candles) = g[Len(w)]
  BY <1>2, <1>3, MarketStructureRuns
<1> DEFINE U == {n \in Nat : n =< Len(w) => g[n] \in AnyStructure(w)}
<1>5. 0 \in U
  BY <1>3, <1>4 DEF Runs, None, AnyStructure
<1>6. ASSUME NEW n \in Nat, n \in U PROVE n + 1 \in U
  <2> SUFFICES ASSUME n + 1 =< Len(w) PROVE g[n + 1] \in AnyStructure(w)
    OBVIOUS
  <2>1. g[n] \in AnyStructure(w) /\ n + 1 \in 1..Len(w)
    BY <1>3, <1>6
  <2>2. g[n + 1] = Step(w, g[n], n + 1)
    BY <1>3, <1>4 DEF Runs
  <2> QED BY <1>3, <2>1, <2>2, StepType
<1>7. \A n \in Nat : n \in U
  <2> HIDE DEF U
  <2> QED BY <1>5, <1>6, Inductive
<1> QED BY <1>2, <1>3, <1>4, <1>7

\* An event that is looked for is one of the events, or none.
LEMMA EventsAreFound ==
  ASSUME NEW E, NEW events \in Seq(E), NEW type, NEW initiation
  PROVE  /\ Latest(events, type) # NoEvent => Latest(events, type) \in E
         /\ LaterBreak(events, initiation, type) # NoEvent => LaterBreak(events, initiation, type) \in E
<1>1. \A I \in SUBSET DOMAIN events : I # {} => events[Max(I)] \in E /\ events[Min(I)] \in E
  <2> SUFFICES ASSUME NEW I \in SUBSET DOMAIN events, I # {} PROVE events[Max(I)] \in E /\ events[Min(I)] \in E
    OBVIOUS
  <2>1. IsFiniteSet(I) /\ I \subseteq Nat
    BY FS_Interval, FS_Subset
  <2>2. Max(I) \in I /\ Min(I) \in I
    BY <2>1, Extremes
  <2> QED BY <2>2
<1>2. Latest(events, type) # NoEvent => Latest(events, type) \in E
  <2> DEFINE I == {i \in DOMAIN events : events[i].type = type}
  <2>1. I # {} => events[Max(I)] \in E
    BY <1>1
  <2> QED BY <2>1 DEF Latest
<1>3. LaterBreak(events, initiation, type) # NoEvent => LaterBreak(events, initiation, type) \in E
  <2> DEFINE I == {i \in DOMAIN events : /\ events[i].type = type /\ events[i].at > initiation.at
                                         /\ events[i].level.confirmedAt =< initiation.at}
  <2>1. I # {} => events[Min(I)] \in E
    BY <1>1
  <2> QED BY <2>1 DEF LaterBreak
<1> QED BY <1>2, <1>3

\* A setup that is confirmed goes one way, and begins and ends at candles of its frame.
Grounded(s, candles) ==
  /\ s.direction \in {"UP", "DOWN"}
  /\ s.confirmedAt \in Times(candles) /\ s.initiation.at \in Times(candles)

LEMMA WindowTimes ==
  ASSUME NEW candles \in Seq(AnyCandle), Len(candles) >= Structure.lookback
  PROVE  Times(Window(candles, Structure.lookback)) \subseteq Times(candles)
<1>0. Structure.lookback \in Nat /\ Len(candles) \in Nat
  BY StructureAssumption
<1>1. \A i \in 1..Structure.lookback :
        /\ Len(candles) - Structure.lookback + i \in DOMAIN candles
        /\ Window(candles, Structure.lookback)[i] = candles[Len(candles) - Structure.lookback + i]
  BY <1>0 DEF Window
<1>2. DOMAIN Window(candles, Structure.lookback) = 1..Structure.lookback
  BY <1>0 DEF Window
<1> QED BY <1>1, <1>2 DEF Times

LEMMA SequencesAreGrounded ==
  ASSUME NEW candles \in Seq(AnyCandle), Len(candles) >= Structure.lookback,
         NEW family, NEW direction \in {"UP", "DOWN"},
         NEW s \in SequenceCandidate(family, direction, MarketStructure(candles).events),
         s.confirmedAt # NoEvent
  PROVE  Grounded(s, candles)
<1> DEFINE w == Window(candles, Structure.lookback)
           events == MarketStructure(candles).events
           up == direction = "UP"
           initiation == Latest(events, IF up THEN "SWEEP_BELOW_RECLAIM" ELSE "SWEEP_ABOVE_RECLAIM")
           break == LaterBreak(events, initiation, IF up THEN "CLOSE_BREAK_ABOVE" ELSE "CLOSE_BREAK_BELOW")
<1>1. events \in Seq(AnyEvent(w))
  BY MarketStructureType DEF AnyStructure
<1>2. /\ initiation # NoEvent
      /\ s = Candidate(family, direction, initiation, IF break = NoEvent THEN NoEvent ELSE break.at)
  BY DEF SequenceCandidate
<1>3. s.direction = direction /\ s.initiation = initiation /\ break # NoEvent /\ s.confirmedAt = break.at
  BY <1>2 DEF Candidate
<1>4. initiation \in AnyEvent(w) /\ break \in AnyEvent(w)
  <2> HIDE DEF events, w
  <2> QED BY <1>1, <1>2, <1>3, EventsAreFound, SMTT(30)
<1>5. initiation.at \in Times(candles) /\ break.at \in Times(candles)
  <2> HIDE DEF initiation, break
  <2> QED BY <1>4, WindowTimes DEF AnyEvent
<1> QED BY <1>3, <1>5 DEF Grounded

LEMMA BreakoutsAreGrounded ==
  ASSUME NEW candles \in Seq(AnyCandle), Len(candles) >= Structure.lookback,
         NEW direction \in {"UP", "DOWN"},
         NEW s \in BreakoutCandidate(direction, MarketStructure(candles).events, candles),
         s.confirmedAt # NoEvent
  PROVE  Grounded(s, candles)
<1> DEFINE w == Window(candles, Structure.lookback)
           events == MarketStructure(candles).events
           initiation == Latest(events, IF direction = "UP" THEN "CLOSE_BREAK_ABOVE" ELSE "CLOSE_BREAK_BELOW")
           retest == {i \in DOMAIN candles : /\ candles[i].at > initiation.at
                                             /\ Retests(candles[i], initiation.level.price, direction)}
<1>1. events \in Seq(AnyEvent(w))
  BY MarketStructureType DEF AnyStructure
<1>2. /\ initiation # NoEvent
      /\ s = Candidate("BREAKOUT_RETEST", direction, initiation,
                       IF retest = {} THEN NoEvent ELSE candles[Min(retest)].at)
  BY DEF BreakoutCandidate
<1>3. s.direction = direction /\ s.initiation = initiation /\ retest # {} /\ s.confirmedAt = candles[Min(retest)].at
  <2> HIDE DEF initiation, retest
  <2> QED BY <1>2, SMTT(30) DEF Candidate
<1>4. initiation \in AnyEvent(w)
  <2> HIDE DEF events, w
  <2> QED BY <1>1, <1>2, EventsAreFound
<1>5. Min(retest) \in DOMAIN candles
  <2>1. IsFiniteSet(retest) /\ retest \subseteq Nat
    BY FS_Interval, FS_Subset
  <2> HIDE DEF initiation
  <2> QED BY <1>3, <2>1, Extremes
<1>6. initiation.at \in Times(candles) /\ candles[Min(retest)].at \in Times(candles)
  <2>1. candles[Min(retest)].at \in Times(candles)
    BY <1>5 DEF Times
  <2> HIDE DEF initiation, retest
  <2> QED BY <1>4, <2>1, WindowTimes DEF AnyEvent
<1> QED BY <1>3, <1>6 DEF Grounded

LEMMA SetupsAreGrounded ==
  ASSUME NEW candles \in Seq(AnyCandle), NEW context, NEW s \in Confirmed(Setups(context, candles))
  PROVE  Len(candles) >= Structure.lookback /\ Grounded(s, candles)
<1> DEFINE trend == Direction(context)
           events == MarketStructure(candles).events
<1>1. s.confirmedAt # NoEvent /\ s \in Setups(context, candles)
  BY DEF Confirmed
<1>2. Len(candles) >= Structure.lookback
  BY <1>1 DEF Setups
<1>3. {trend} \ {"NEUTRAL"} \subseteq {"UP", "DOWN"}
  BY DEF Direction
<1>4. \/ \E family : \E direction \in {"UP", "DOWN"} : s \in SequenceCandidate(family, direction, events)
      \/ \E direction \in {"UP", "DOWN"} : s \in BreakoutCandidate(direction, events, candles)
  <2>1. \/ s \in UNION {SequenceCandidate("TREND_PULLBACK_CONTINUATION", d, events) : d \in {trend} \ {"NEUTRAL"}}
        \/ s \in UNION {BreakoutCandidate(d, events, candles) :
                        d \in {"UP", "DOWN"} \ (IF trend = "UP" THEN {"DOWN"}
                                                ELSE IF trend = "DOWN" THEN {"UP"} ELSE {})}
        \/ s \in UNION {SequenceCandidate("LIQUIDITY_SWEEP_REVERSAL", d, events) : d \in {"UP", "DOWN"}}
    BY <1>1 DEF Setups
  <2> HIDE DEF trend, events
  <2> QED BY <1>3, <2>1
<1> QED BY <1>1, <1>2, <1>4, SequencesAreGrounded, BreakoutsAreGrounded
-----------------------------------------------------------------------------
(* What a decision costs.                                                      *)

LEMMA CandleAtType ==
  ASSUME NEW candles \in Seq(AnyCandle), NEW t \in Times(candles)
  PROVE  CandleAt(candles, t) \in AnyCandle
<1>1. (CHOOSE i \in DOMAIN candles : candles[i].at = t) \in DOMAIN candles
  BY DEF Times
<1> QED BY <1>1 DEF CandleAt

LEMMA TargetsType ==
  ASSUME NEW candles \in Seq(AnyCandle), Len(candles) >= Structure.lookback, NEW s
  PROVE  Targets(s, candles) \subseteq Nat /\ IsFiniteSet(Targets(s, candles))
<1>1. MarketStructure(candles).levels \in Seq(AnyLevel)
  BY MarketStructureType DEF AnyStructure
<1>2. PICK levels : levels = MarketStructure(candles).levels
  OBVIOUS
<1>3. levels \in Seq(AnyLevel)
  BY <1>1, <1>2
<1>4. PICK I : /\ I \in SUBSET DOMAIN levels
               /\ Targets(s, candles) = {levels[i].price : i \in I}
  <2> DEFINE Fits(k) ==
        /\ k.status = "ACTIVE" /\ k.side = (IF s.direction = "UP" THEN "BUY_SIDE" ELSE "SELL_SIDE")
        /\ Beyond(k.price, Entry(s, candles), s.direction)
  <2>1. Targets(s, candles) = {l.price : l \in {k \in Range(levels) : Fits(k)}}
    BY <1>2 DEF Targets
  <2>2. {l.price : l \in {k \in Range(levels) : Fits(k)}} = {levels[i].price : i \in {j \in DOMAIN levels : Fits(levels[j])}}
    <3> HIDE DEF Fits
    <3> QED BY DEF Range
  <2> QED BY <2>1, <2>2
<1>5. IsFiniteSet(I)
  BY <1>3, <1>4, FS_Interval, FS_Subset
<1>6. \A i \in I : levels[i].price \in Nat
  <2> SUFFICES ASSUME NEW i \in I PROVE levels[i].price \in Nat
    OBVIOUS
  <2>1. levels[i] \in AnyLevel
    BY <1>3, <1>4
  <2> QED BY <2>1 DEF AnyLevel
<1>7. [i \in I |-> levels[i].price] \in Surjection(I, Targets(s, candles))
  BY <1>4 DEF Surjection
<1> QED BY <1>4, <1>5, <1>6, <1>7, FS_Surjection

\* A setup that is qualified has prices, and pays.
LEMMA QualifiedPrices ==
  ASSUME NEW candles \in Seq(AnyCandle), NEW context, NEW s \in Confirmed(Setups(context, candles)),
         Qualified(s, candles)
  PROVE  /\ Entry(s, candles) \in Nat /\ Invalidation(s, candles) \in Nat /\ Target(s, candles) \in Nat
         /\ Entry(s, candles) # Invalidation(s, candles)
         /\ NetReward(Entry(s, candles), Target(s, candles)) > 0
<1>1. Len(candles) >= Structure.lookback /\ Grounded(s, candles)
  BY SetupsAreGrounded
<1>2. Entry(s, candles) \in Nat
  BY <1>1, CandleAtType DEF Entry, Grounded, AnyCandle
<1>3. Invalidation(s, candles) \in Nat
  <2>1. \A t \in Times(candles) : CandleAt(candles, t).low \in Nat /\ CandleAt(candles, t).high \in Nat
    BY CandleAtType DEF AnyCandle
  <2> QED BY <1>1, <2>1 DEF Invalidation, Grounded
<1>4. Targets(s, candles) # {} /\ Beyond(Entry(s, candles), Invalidation(s, candles), s.direction)
      /\ NetReward(Entry(s, candles), Target(s, candles)) > 0
  BY DEF Qualified
<1>5. Target(s, candles) \in Nat
  BY <1>1, <1>4, TargetsType, Extremes DEF Target
<1>6. Entry(s, candles) # Invalidation(s, candles)
  BY <1>2, <1>3, <1>4 DEF Beyond
<1> QED BY <1>2, <1>3, <1>4, <1>5, <1>6

LEMMA AbsType == ASSUME NEW n \in Int PROVE Abs(n) \in Nat /\ (n # 0 => Abs(n) > 0)
BY DEF Abs

LEMMA Products == ASSUME NEW m \in Nat, NEW n \in Nat PROVE m * n \in Nat /\ m * n >= 0
OBVIOUS

LEMMA RiskPerStepType ==
  ASSUME NEW entry \in Nat, NEW stop \in Nat, entry # stop
  PROVE  RiskPerStep(entry, stop) \in Nat \ {0}
<1>1. Whole \in Nat \ {0} /\ Costs.entry \in Nat /\ Costs.stop \in Nat /\ Sizing.value \in Nat \ {0}
  BY StructureAssumption, DecisionAssumption
<1>2. Abs(entry - stop) \in Nat \ {0}
  BY AbsType
<1>3. Whole * Abs(entry - stop) \in Nat \ {0}
  BY <1>1, <1>2
<1>4. entry * Costs.entry \in Nat /\ stop * Costs.stop \in Nat
  BY <1>1, Products
<1>5. NetRisk(entry, stop) \in Nat \ {0}
  BY <1>3, <1>4 DEF NetRisk
<1> QED BY <1>1, <1>5 DEF RiskPerStep

LEMMA StepsPay ==
  ASSUME NEW budget \in Nat, NEW riskPerStep \in Nat \ {0}
  PROVE  Steps(budget, riskPerStep) \in Nat /\ Steps(budget, riskPerStep) * riskPerStep =< budget
<1>1. PICK n : n = budget \div riskPerStep
  OBVIOUS
<1>2. n \in Nat /\ n * riskPerStep =< budget
  BY <1>1
<1>3. PICK m : m = Steps(budget, riskPerStep)
  OBVIOUS
<1>4. Sizing.maximum \in Nat
  BY DecisionAssumption
<1>5. m \in Nat /\ m =< n
  <2>1. PICK both : both = {n, Sizing.maximum}
    OBVIOUS
  <2>2. both \subseteq Nat /\ both # {} /\ IsFiniteSet(both)
    <3>1. IsFiniteSet({n})
      BY FS_Singleton
    <3>2. both = {n} \union {Sizing.maximum}
      BY <2>1
    <3> QED BY <1>2, <1>4, <2>1, <3>1, <3>2, FS_AddElement
  <2>3. m = Min(both)
    BY <1>1, <1>3, <2>1 DEF Steps
  <2>4. Min(both) \in both /\ \A k \in both : Min(both) =< k
    BY <2>2, Extremes
  <2> QED BY <1>2, <2>1, <2>2, <2>3, <2>4
<1>6. m * riskPerStep =< n * riskPerStep
  BY <1>2, <1>5
<1> QED BY <1>2, <1>3, <1>5, <1>6
-----------------------------------------------------------------------------
(* What the plans of a book may cost.                                          *)

\* A plan, or an intent, with prices.
Priced(p) ==
  /\ p.entry \in Nat /\ p.stop \in Nat /\ p.target \in Nat /\ p.quantity \in Nat
  /\ LossAtStop(p) \in Nat /\ GainAtTarget(p) \in Nat /\ p.risk = LossAtStop(p)

LossOf(plans) == SumFunction([p \in plans |-> LossAtStop(p.plan)])

\* What is left when everything open is stopped out, and the floor it keeps to.
Safe(amount) == amount * Whole * Whole >= DayStart * (Whole - Limits.dailyLoss) * (Whole - Limits.total)

LEMMA LimitsType ==
  /\ Whole \in Nat \ {0} /\ DayStart \in Nat \ {0}
  /\ Limits.total \in Nat /\ Limits.total =< Whole
  /\ Limits.dailyLoss \in Nat /\ Limits.dailyLoss =< Whole
  /\ Limits.perTrade \in Nat
  /\ Sizing.value \in Nat \ {0} /\ Sizing.minimum \in Nat \ {0}
  /\ Costs.entry \in Nat /\ Costs.stop \in Nat /\ Costs.target \in Nat
<1>1. Whole \in Nat \ {0} /\ DayStart \in Nat \ {0}
  BY StructureAssumption, PlanAssumption
<1>2. Limits.total \in 1..Whole /\ Limits.dailyLoss \in 1..Whole /\ Limits.perTrade \in 1..Limits.total
  BY DecisionAssumption
<1>3. /\ Sizing.value \in Nat \ {0} /\ Sizing.minimum \in Nat \ {0}
      /\ Costs.entry \in Nat /\ Costs.stop \in Nat /\ Costs.target \in Nat
  BY DecisionAssumption
<1> QED BY <1>1, <1>2, <1>3

LEMMA SafeGrows ==
  ASSUME NEW a \in Int, NEW b \in Int, a =< b, Safe(a)
  PROVE  Safe(b)
<1>1. PICK w \in Nat \ {0} : w = Whole
  BY LimitsType
<1>2. a * w =< b * w
  BY <1>1
<1>3. a * w * w =< b * w * w
  BY <1>1, <1>2
<1>4. PICK floor \in Int : floor = DayStart * (Whole - Limits.dailyLoss) * (Whole - Limits.total)
  BY LimitsType
<1>5. a * w * w >= floor
  BY <1>1, <1>4 DEF Safe
<1>6. b * w * w >= floor
  BY <1>1, <1>3, <1>4, <1>5
<1> QED BY <1>1, <1>4, <1>6 DEF Safe

\* At the start of the day nothing is lost.
LEMMA SafeAtFirst == Safe(DayStart)
<1>1. PICK w \in Nat \ {0} : w = Whole
  BY LimitsType
<1>2. PICK daily \in Nat : daily = Limits.dailyLoss
  BY LimitsType
<1>3. PICK total \in Nat : total = Limits.total
  BY LimitsType
<1>4. PICK day \in Nat \ {0} : day = DayStart
  BY LimitsType
<1>5. daily =< w /\ total =< w
  BY <1>1, <1>2, <1>3, LimitsType
<1>6. day * (w - daily) =< day * w /\ day * (w - daily) >= 0
  BY <1>1, <1>2, <1>4, <1>5
<1>7. PICK x \in Nat : x = day * (w - daily)
  BY <1>1, <1>2, <1>4, <1>5, <1>6
<1>8. x * (w - total) =< x * w
  BY <1>1, <1>3, <1>5, <1>7
<1>9. x * w =< day * w * w
  BY <1>1, <1>4, <1>6, <1>7
<1>10. day * w * w >= x * (w - total)
  <2>1. x * (w - total) \in Int /\ x * w \in Int /\ day * w * w \in Int
    BY <1>1, <1>3, <1>4, <1>7
  <2> QED BY <2>1, <1>8, <1>9
<1> QED BY <1>1, <1>2, <1>3, <1>4, <1>7, <1>10 DEF Safe

\* The limits of the daily loss and of the open risk leave the floor.
LEMMA LimitsAreSafe ==
  ASSUME NEW e \in Int, NEW open \in Int, NEW requested \in Nat,
         (IF e >= DayStart THEN 0 ELSE DayStart - e) * Whole < DayStart * Limits.dailyLoss,
         Within(open + requested, e, Limits.total)
  PROVE  Safe(e - open - requested)
<1>1. PICK w \in Nat \ {0} : w = Whole
  BY LimitsType
<1>2. PICK daily \in Nat : daily = Limits.dailyLoss
  BY LimitsType
<1>3. PICK total \in Nat : total = Limits.total
  BY LimitsType
<1>4. PICK day \in Nat \ {0} : day = DayStart
  BY LimitsType
<1>5. daily =< w /\ total =< w
  BY <1>1, <1>2, <1>3, LimitsType
<1>6. e * w >= day * (w - daily)
  <2>1. CASE e >= day
    <3>1. e * w >= day * w
      BY <1>1, <1>4, <2>1
    <3>2. day * w >= day * (w - daily)
      BY <1>1, <1>2, <1>4
    <3>3. e * w \in Int /\ day * w \in Int /\ day * (w - daily) \in Int
      BY <1>1, <1>2, <1>4
    <3> QED BY <3>1, <3>2, <3>3
  <2>2. CASE e < day
    <3>1. (day - e) * w < day * daily
      BY <1>1, <1>2, <1>4, <2>2
    <3>2. (day - e) * w = day * w - e * w /\ day * (w - daily) = day * w - day * daily
      BY <1>1, <1>2, <1>4
    <3>3. day * w \in Int /\ e * w \in Int /\ day * daily \in Int
      BY <1>1, <1>2, <1>4
    <3> QED BY <3>1, <3>2, <3>3
  <2> QED BY <1>4, <2>1, <2>2
<1>7. (open + requested) * w =< e * total
  BY <1>1, <1>3 DEF Within
<1>8. PICK left \in Int : left = e - open - requested
  OBVIOUS
<1>9. left * w >= e * (w - total)
  <2>1. left * w = e * w - (open + requested) * w /\ e * (w - total) = e * w - e * total
    BY <1>1, <1>3, <1>8
  <2>2. e * w \in Int /\ (open + requested) * w \in Int /\ e * total \in Int
    BY <1>1, <1>3
  <2> QED BY <1>7, <2>1, <2>2
<1>10. left * w * w >= e * (w - total) * w
  <2>1. PICK a \in Int : a = left * w
    BY <1>1, <1>8
  <2>2. PICK b \in Int : b = e * (w - total)
    BY <1>1, <1>3
  <2>3. a * w >= b * w
    BY <1>1, <1>9, <2>1, <2>2
  <2> QED BY <2>1, <2>2, <2>3
<1>11. e * (w - total) * w >= day * (w - daily) * (w - total)
  <2>1. PICK a \in Int : a = e * w
    BY <1>1
  <2>2. PICK b \in Int : b = day * (w - daily)
    BY <1>1, <1>2, <1>4
  <2>3. PICK c \in Nat : c = w - total
    BY <1>1, <1>3, <1>5
  <2>4. a * c >= b * c
    BY <1>6, <2>1, <2>2, <2>3
  <2>5. e * c * w = a * c
    BY <1>1, <2>1, <2>3
  <2> QED BY <2>2, <2>3, <2>4, <2>5
<1>12. left * w * w >= day * (w - daily) * (w - total)
  <2>1. /\ left * w * w \in Int /\ e * (w - total) * w \in Int
        /\ day * (w - daily) * (w - total) \in Int
    BY <1>1, <1>2, <1>3, <1>4, <1>8
  <2> QED BY <1>10, <1>11, <2>1
<1> QED BY <1>1, <1>2, <1>3, <1>4, <1>8, <1>12 DEF Safe
-----------------------------------------------------------------------------
(* Sums over a book.                                                           *)

\* What a book holds: plans with prices, and the risk they were granted.
Position(p) ==
  /\ p = [plan |-> p.plan, at |-> p.at, risk |-> p.risk, groups |-> p.groups, filled |-> p.filled]
  /\ Priced(p.plan) /\ p.risk = LossAtStop(p.plan)

Books(plans) == IsFiniteSet(plans) /\ \A p \in plans : Position(p)

LEMMA LossType == ASSUME NEW plans, Books(plans) PROVE LossOf(plans) \in Int
<1> DEFINE f == [p \in plans |-> LossAtStop(p.plan)]
<1>1. IsFiniteSet(DOMAIN f) /\ \A p \in DOMAIN f : f[p] \in Int
  BY DEF Books, Position, Priced
<1> HIDE DEF f
<1>2. SumFunction(f) \in Int
  BY <1>1, SumType
<1> QED BY <1>2 DEF f, LossOf

\* The open risk of the account is what its book loses.
LEMMA RiskIsLoss == ASSUME NEW plans, Books(plans) PROVE SumRisk(plans) = LossOf(plans)
<1>1. PICK f : f = [p \in plans |-> p.risk]
  OBVIOUS
<1>2. PICK g : g = [p \in plans |-> LossAtStop(p.plan)]
  OBVIOUS
<1>3. IsFiniteSet(DOMAIN f) /\ DOMAIN g = DOMAIN f /\ \A p \in DOMAIN f : f[p] = g[p]
  BY <1>1, <1>2 DEF Books, Position
<1>4. SumFunction(f) = SumFunction(g)
  BY <1>3, SumAgrees
<1> QED BY <1>1, <1>2, <1>4 DEF SumRisk, LossOf

LEMMA LossWithout ==
  ASSUME NEW plans, Books(plans), NEW p \in plans
  PROVE  /\ Books(plans \ {p})
         /\ LossOf(plans) = LossAtStop(p.plan) + LossOf(plans \ {p})
         /\ LossOf(plans \ {p}) =< LossOf(plans)
<1>1. Books(plans \ {p})
  BY FS_RemoveElement DEF Books
<1>2. PICK f : f = [q \in plans |-> LossAtStop(q.plan)]
  OBVIOUS
<1>3. PICK g : g = [q \in plans \ {p} |-> LossAtStop(q.plan)]
  OBVIOUS
<1>4. /\ IsFiniteSet(DOMAIN f) /\ \A q \in DOMAIN f : f[q] \in Int
      /\ p \in DOMAIN f /\ DOMAIN g = DOMAIN f \ {p} /\ \A q \in DOMAIN g : g[q] = f[q]
  BY <1>2, <1>3 DEF Books, Position, Priced
<1>5. SumFunction(f) = f[p] + SumFunction(g)
  BY <1>4, SumWithout
<1>6. LossOf(plans) = LossAtStop(p.plan) + LossOf(plans \ {p})
  BY <1>2, <1>3, <1>5 DEF LossOf
<1>7. LossAtStop(p.plan) \in Nat /\ LossOf(plans \ {p}) \in Int
  BY <1>1, LossType DEF Books, Position, Priced
<1> QED BY <1>1, <1>6, <1>7

LEMMA LossWith ==
  ASSUME NEW plans, Books(plans), NEW p, Position(p)
  PROVE  /\ Books(plans \union {p})
         /\ LossOf(plans \union {p}) =< LossOf(plans) + LossAtStop(p.plan)
<1>1. PICK more : more = plans \union {p}
  OBVIOUS
<1>2. Books(more) /\ p \in more
  BY <1>1, FS_AddElement DEF Books
<1>3. LossAtStop(p.plan) \in Nat /\ LossOf(plans) \in Int
  BY LossType DEF Position, Priced
<1>4. LossOf(more) =< LossOf(plans) + LossAtStop(p.plan)
  <2>1. CASE p \in plans
    <3>1. more = plans
      BY <1>1, <2>1
    <3> QED BY <1>3, <3>1
  <2>2. CASE p \notin plans
    <3>1. more \ {p} = plans
      BY <1>1, <2>2
    <3>2. LossOf(more) = LossAtStop(p.plan) + LossOf(more \ {p})
      BY <1>2, LossWithout
    <3>3. LossOf(more \ {p}) = LossOf(plans)
      BY <3>1, Zenon
    <3> QED BY <1>3, <3>2, <3>3
  <2> QED BY <2>1, <2>2
<1> QED BY <1>1, <1>2, <1>4

LEMMA NothingIsLost == Books({}) /\ LossOf({}) = 0
<1>1. PICK f : f = [p \in {} |-> LossAtStop(p.plan)]
  OBVIOUS
<1>2. SumFunction(f) = 0
  BY <1>1, SumEmpty
<1> QED BY <1>1, <1>2, FS_EmptySet DEF LossOf, Books
-----------------------------------------------------------------------------
(* A decision: the intent is priced, its risk is what it loses at its stop,    *)
(* and what is asked for covers it.                                            *)

LEMMA LossIsRisk ==
  ASSUME NEW p, p.entry \in Nat, p.stop \in Nat, p.quantity \in Nat
  PROVE  LossAtStop(p) = p.quantity * RiskPerStep(p.entry, p.stop)
<1>1. PICK e \in Nat : e = p.entry
  OBVIOUS
<1>2. PICK s \in Nat : s = p.stop
  OBVIOUS
<1>3. PICK q \in Nat : q = p.quantity
  OBVIOUS
<1>4. PICK v \in Nat : v = Sizing.value
  BY LimitsType
<1>5. PICK ce \in Nat : ce = Costs.entry
  BY LimitsType
<1>6. PICK cs \in Nat : cs = Costs.stop
  BY LimitsType
<1>7. PICK d \in Nat : d = Whole * Abs(e - s)
  BY LimitsType, AbsType
<1>8. NetRisk(e, s) = d + e * ce + s * cs
  BY <1>5, <1>6, <1>7 DEF NetRisk
<1>9. q * v * (d + ce * e + cs * s) = q * ((d + e * ce + s * cs) * v)
  OBVIOUS
<1> QED BY <1>1, <1>2, <1>3, <1>4, <1>5, <1>6, <1>7, <1>8, <1>9 DEF LossAtStop, RiskPerStep

LEMMA GainIsReward ==
  ASSUME NEW p, p.entry \in Nat, p.target \in Nat, p.quantity \in Nat, NetReward(p.entry, p.target) > 0
  PROVE  GainAtTarget(p) \in Nat
<1>1. PICK e \in Nat : e = p.entry
  OBVIOUS
<1>2. PICK t \in Nat : t = p.target
  OBVIOUS
<1>3. PICK q \in Nat : q = p.quantity
  OBVIOUS
<1>4. PICK v \in Nat : v = Sizing.value
  BY LimitsType
<1>5. PICK ce \in Nat : ce = Costs.entry
  BY LimitsType
<1>6. PICK ct \in Nat : ct = Costs.target
  BY LimitsType
<1>7. PICK d \in Nat : d = Whole * Abs(t - e)
  BY LimitsType, AbsType
<1>8. NetReward(e, t) = d - e * ce - t * ct
  BY <1>5, <1>6, <1>7 DEF NetReward
<1>9. PICK r \in Int : r = d - ce * e - ct * t
  OBVIOUS
<1>10. r > 0
  <2>1. ce * e = e * ce /\ ct * t = t * ct
    OBVIOUS
  <2> QED BY <1>1, <1>2, <1>8, <1>9, <2>1
<1>11. q * v * r \in Nat
  <2>1. q * v \in Nat /\ r \in Nat
    BY <1>10, Products
  <2> QED BY <2>1, Products
<1> QED BY <1>1, <1>2, <1>3, <1>4, <1>5, <1>6, <1>7, <1>9, <1>11 DEF GainAtTarget

LEMMA IntentIsPaidFor ==
  ASSUME NEW at, NEW context, NEW candles \in Seq(AnyCandle), NEW account, NEW requested \in Nat, NEW groups,
         NEW d, d = Decision(at, Setups(context, candles), candles, account, requested, groups),
         d.status = "TRADE_INTENT_CREATED"
  PROVE  /\ Priced(d) /\ LossAtStop(d) =< requested
         /\ Eligible(account, requested, groups) /\ d.equity = account.equity
<1>1. PICK s : s = CHOOSE x \in Confirmed(Setups(context, candles)) : TRUE
  OBVIOUS
<1>2. PICK entry : entry = Entry(s, candles)
  OBVIOUS
<1>3. PICK stop : stop = Invalidation(s, candles)
  OBVIOUS
<1>4. PICK quantity : quantity = Steps(requested, RiskPerStep(entry, stop))
  OBVIOUS
<1>5. /\ Confirmed(Setups(context, candles)) # {} /\ Qualified(s, candles)
      /\ Eligible(account, requested, groups)
      /\ d.entry = entry /\ d.stop = stop /\ d.target = Target(s, candles)
      /\ d.quantity = quantity /\ d.risk = quantity * RiskPerStep(entry, stop) /\ d.equity = account.equity
  BY <1>1, <1>2, <1>3, <1>4 DEF Decision
<1>6. s \in Confirmed(Setups(context, candles))
  BY <1>1, <1>5
<1>7. /\ entry \in Nat /\ stop \in Nat /\ d.target \in Nat /\ entry # stop
      /\ NetReward(entry, d.target) > 0
  BY <1>2, <1>3, <1>5, <1>6, QualifiedPrices
<1>8. RiskPerStep(entry, stop) \in Nat \ {0}
  BY <1>7, RiskPerStepType
<1>9. quantity \in Nat /\ quantity * RiskPerStep(entry, stop) =< requested
  BY <1>4, <1>8, StepsPay
<1>10. LossAtStop(d) = quantity * RiskPerStep(entry, stop)
  BY <1>5, <1>7, <1>9, LossIsRisk
<1>11. quantity * RiskPerStep(entry, stop) \in Nat
  BY <1>8, <1>9, Products
<1>12. GainAtTarget(d) \in Nat
  BY <1>5, <1>7, <1>9, GainIsReward
<1> QED BY <1>5, <1>7, <1>9, <1>10, <1>11, <1>12 DEF Priced
-----------------------------------------------------------------------------
(* The inductive invariant: what is open, with the intent that may still be    *)
(* prepared, leaves the floor of the day.                                      *)

IntentIsCovered ==
  decision.status = "TRADE_INTENT_CREATED" =>
    /\ Priced(decision)
    /\ LossAtStop(decision) * Whole =< decision.equity * Limits.perTrade
    /\ Safe(equity - LossOf(book) - LossAtStop(decision))

Bounded ==
  /\ chart \in Seq(AnyCandle)
  /\ equity \in Int
  /\ Books(book)
  /\ Safe(equity - LossOf(book))
  /\ IntentIsCovered

LEMMA CandleOfShape ==
  ASSUME NEW shape \in ShapeOfCandle, NEW t \in Nat
  PROVE  At(shape, t) \in AnyCandle
BY DEF At, ShapeOfCandle, AnyCandle

LEMMA FrameType ==
  ASSUME NEW candles \in Seq(AnyCandle)
  PROVE  Frame(candles) \in Seq(AnyCandle)
BY PlanAssumption DEF Frame, Window

LEMMA BoundedAtFirst == ASSUME Init PROVE Bounded
<1>1. chart \in Seq(AnyCandle)
  <2>1. PICK c \in Charts : chart = [t \in DOMAIN c |-> At(c[t], t)]
    BY DEF Init
  <2>2. c \in Seq(ShapeOfCandle)
    BY <2>1, PlanAssumption
  <2>3. DOMAIN c = 1..Len(c) /\ Len(c) \in Nat /\ \A t \in 1..Len(c) : c[t] \in ShapeOfCandle
    BY <2>2
  <2>4. \A t \in 1..Len(c) : At(c[t], t) \in AnyCandle
    BY <2>3, CandleOfShape
  <2>5. chart \in [1..Len(c) -> AnyCandle]
    BY <2>1, <2>3, <2>4
  <2> QED BY <2>3, <2>5, FunctionAsSequence
<1>2. equity = DayStart /\ book = {} /\ decision.status # "TRADE_INTENT_CREATED"
  BY DEF Init, NoDecision
<1>3. Books(book) /\ equity - LossOf(book) = DayStart /\ equity \in Int
  BY <1>2, NothingIsLost, LimitsType
<1> QED BY <1>1, <1>2, <1>3, SafeAtFirst DEF Bounded, IntentIsCovered

\* Whatever the account has afterwards, if it covers more, it is safe.
LEMMA CoveredStill ==
  ASSUME Bounded, chart' \in Seq(AnyCandle), equity' \in Int, Books(book'),
         equity' - LossOf(book') >= equity - LossOf(book),
         decision' = decision
  PROVE  Bounded'
<1>1. PICK before \in Int : before = equity - LossOf(book)
  BY LossType DEF Bounded
<1>2. LossOf(book') \in Int
  BY LossType
<1>3. PICK after \in Int : after = equity' - LossOf(book')
  BY <1>2
<1>4. before =< after
  BY <1>1, <1>3
<1>5. Safe(after)
  <2>1. Safe(before)
    BY <1>1 DEF Bounded
  <2> QED BY <1>4, <2>1, SafeGrows
<1>6. ASSUME decision.status = "TRADE_INTENT_CREATED"
      PROVE  Safe(after - LossAtStop(decision))
  <2>1. Priced(decision) /\ Safe(before - LossAtStop(decision))
    BY <1>1, <1>6 DEF Bounded, IntentIsCovered
  <2>2. LossAtStop(decision) \in Nat
    BY <2>1 DEF Priced
  <2>3. /\ before - LossAtStop(decision) \in Int /\ after - LossAtStop(decision) \in Int
        /\ before - LossAtStop(decision) =< after - LossAtStop(decision)
    BY <1>4, <2>2
  <2> QED BY <2>1, <2>3, SafeGrows
<1>7. IntentIsCovered'
  BY <1>3, <1>6 DEF Bounded, IntentIsCovered
<1>8. Safe(equity' - LossOf(book'))
  BY <1>3, <1>5
<1> QED BY <1>7, <1>8 DEF Bounded

LEMMA NextCandleStays ==
  ASSUME Bounded, NEW shape \in Shapes, NextCandle(shape)
  PROVE  Bounded'
<1>1. /\ chart \in Seq(AnyCandle) /\ chart' = Append(chart, At(shape, Len(chart) + 1))
      /\ equity' = equity /\ decision' = decision /\ book' = book
  BY DEF NextCandle, Bounded
<1>2. At(shape, Len(chart) + 1) \in AnyCandle
  BY <1>1, PlanAssumption, CandleOfShape
<1>3. chart' \in Seq(AnyCandle)
  BY <1>1, <1>2
<1>4. equity \in Int /\ Books(book) /\ LossOf(book) \in Int
  BY LossType DEF Bounded
<1> QED BY <1>1, <1>3, <1>4, CoveredStill

LEMMA DecideStays == ASSUME Bounded, Decide PROVE Bounded'
<1>1. PICK requested \in Requests, groups \in Groups :
        decision' = Decision(Now(chart), SetupsOf(chart), Frame(chart), Account, requested, groups)
  BY DEF Decide
<1>2. chart' = chart /\ equity' = equity /\ book' = book
  BY DEF Decide
<1>3. requested \in Nat
  BY PlanAssumption
<1>4. Frame(chart) \in Seq(AnyCandle)
  BY FrameType DEF Bounded
<1>5. PICK open \in Int : open = LossOf(book)
  BY LossType DEF Bounded
<1>6. ASSUME decision'.status = "TRADE_INTENT_CREATED"
      PROVE  IntentIsCovered'
  <2>1. PICK d : d = decision'
    OBVIOUS
  <2>2. /\ Priced(d) /\ LossAtStop(d) =< requested
        /\ Eligible(Account, requested, groups) /\ d.equity = Account.equity
    <3>1. d = Decision(Now(chart), Setups(Context(chart), Frame(chart)), Frame(chart), Account, requested, groups)
      BY <1>1, <2>1 DEF SetupsOf
    <3>2. d.status = "TRADE_INTENT_CREATED"
      BY <1>6, <2>1
    <3> QED BY <1>3, <1>4, <3>1, <3>2, IntentIsPaidFor
  <2>3. Account.equity = equity /\ Account.dayStart = DayStart /\ Account.open = book
    BY DEF Account
  <2>4. /\ (IF equity >= DayStart THEN 0 ELSE DayStart - equity) * Whole < DayStart * Limits.dailyLoss
        /\ Within(requested, equity, Limits.perTrade)
        /\ Within(open + requested, equity, Limits.total)
    BY <1>5, <2>2, <2>3, RiskIsLoss DEF Eligible, Bounded
  <2>5. PICK loss \in Nat : loss = LossAtStop(d)
    BY <2>2 DEF Priced
  <2>6. loss =< requested
    BY <2>2, <2>5
  <2>7. Safe(equity - open - loss)
    <3>1. equity \in Int
      BY DEF Bounded
    <3>2. Safe(equity - open - requested)
      BY <1>3, <2>4, <3>1, LimitsAreSafe
    <3>3. /\ equity - open - requested \in Int /\ equity - open - loss \in Int
          /\ equity - open - requested =< equity - open - loss
      BY <1>3, <2>6, <3>1
    <3> QED BY <3>2, <3>3, SafeGrows
  <2>8. loss * Whole =< equity * Limits.perTrade
    <3>1. requested * Whole =< equity * Limits.perTrade
      BY <2>4 DEF Within
    <3>2. equity \in Int
      BY DEF Bounded
    <3>3. PICK w \in Nat : w = Whole
      BY LimitsType
    <3>4. loss * w =< requested * w
      BY <1>3, <2>6
    <3>5. loss * w \in Int /\ requested * w \in Int /\ equity * Limits.perTrade \in Int
      BY <1>3, <3>2, LimitsType
    <3> QED BY <3>1, <3>3, <3>4, <3>5
  <2>9. /\ Priced(decision') /\ LossAtStop(decision') = loss /\ decision'.equity = equity
    BY <2>1, <2>2, <2>3, <2>5
  <2> QED BY <1>2, <1>5, <2>7, <2>8, <2>9 DEF IntentIsCovered
<1>7. IntentIsCovered'
  BY <1>6 DEF IntentIsCovered
<1> QED BY <1>2, <1>7 DEF Bounded

LEMMA PrepareStays ==
  ASSUME Bounded, NEW quote \in Quotes, Prepare(quote)
  PROVE  Bounded'
<1>1. PICK p : p = [plan |-> Plan(decision, Now(chart)), at |-> decision.at, risk |-> decision.risk,
                    groups |-> decision.groups, filled |-> FALSE]
  OBVIOUS
<1>2. /\ decision.status = "TRADE_INTENT_CREATED" /\ book' = book \union {p}
      /\ decision'.status = "PREPARED" /\ chart' = chart /\ equity' = equity
  BY <1>1 DEF Prepare
<1>3. Priced(decision) /\ Safe(equity - LossOf(book) - LossAtStop(decision))
  BY <1>2 DEF Bounded, IntentIsCovered
<1>4. PICK plan : plan = Plan(decision, Now(chart))
  OBVIOUS
<1>5. /\ plan.entry = decision.entry /\ plan.stop = decision.stop /\ plan.target = decision.target
      /\ plan.quantity = decision.quantity /\ plan.risk = decision.risk
  BY <1>4 DEF Plan
<1>6. LossAtStop(plan) = LossAtStop(decision) /\ GainAtTarget(plan) = GainAtTarget(decision)
  BY <1>5 DEF LossAtStop, GainAtTarget
<1>7. Position(p)
  <2>1. p.plan = plan /\ p.risk = decision.risk
    BY <1>1, <1>4
  <2>2. p = [plan |-> p.plan, at |-> p.at, risk |-> p.risk, groups |-> p.groups, filled |-> p.filled]
    BY <1>1
  <2> QED BY <1>3, <1>5, <1>6, <2>1, <2>2 DEF Position, Priced
<1>8. p.plan = plan
  BY <1>1, <1>4
<1>9. PICK more : more = book \union {p}
  OBVIOUS
<1>10. Books(more) /\ LossOf(more) =< LossOf(book) + LossAtStop(plan)
  BY <1>7, <1>8, <1>9, LossWith DEF Bounded
<1>11. PICK x \in Int : x = equity - LossOf(book) - LossAtStop(decision)
  BY <1>3, LossType DEF Bounded, Priced
<1>12. PICK y \in Int : y = equity - LossOf(more)
  BY <1>10, LossType DEF Bounded
<1>13. x =< y
  <2>1. LossOf(more) \in Int /\ LossOf(book) \in Int /\ LossAtStop(decision) \in Int /\ equity \in Int
    BY <1>3, <1>10, LossType DEF Bounded, Priced
  <2> QED BY <1>6, <1>10, <1>11, <1>12, <2>1
<1>14. Safe(y)
  BY <1>3, <1>11, <1>13, SafeGrows
<1>15. book' = more
  BY <1>2, <1>9
<1>16. Books(book') /\ Safe(equity' - LossOf(book'))
  BY <1>2, <1>10, <1>12, <1>14, <1>15
<1> QED BY <1>2, <1>16 DEF Bounded, IntentIsCovered

\* A plan leaves the book: nothing is more at risk.
LEMMA RemovalStays ==
  ASSUME Bounded, NEW p \in book, book' = book \ {p}, decision' = decision, chart' = chart,
         equity' \in Int, equity' >= equity - LossAtStop(p.plan)
  PROVE  Bounded'
<1>1. PICK rest : rest = book \ {p}
  OBVIOUS
<1>2. Books(rest) /\ LossOf(book) = LossAtStop(p.plan) + LossOf(rest)
  BY <1>1, LossWithout DEF Bounded
<1>3. book' = rest
  BY <1>1
<1>4. Books(book') /\ LossOf(book') = LossOf(rest)
  BY <1>2, <1>3
<1>5. LossOf(rest) \in Int /\ LossAtStop(p.plan) \in Int /\ equity \in Int /\ LossOf(book) \in Int
  BY <1>2, LossType DEF Bounded, Books, Position, Priced
<1>6. equity' - LossOf(book') >= equity - LossOf(book)
  BY <1>2, <1>4, <1>5
<1>7. chart' \in Seq(AnyCandle)
  BY DEF Bounded
<1> QED BY <1>4, <1>6, <1>7, CoveredStill

LEMMA EnterStays == ASSUME Bounded, NEW p \in book, Enter(p) PROVE Bounded'
<1>1. PICK q : q = [p EXCEPT !.filled = TRUE]
  OBVIOUS
<1>2. Position(p) /\ Books(book)
  BY DEF Bounded, Books
<1>3. Position(q) /\ q.plan = p.plan
  <2>1. p = [plan |-> p.plan, at |-> p.at, risk |-> p.risk, groups |-> p.groups, filled |-> p.filled]
    BY <1>2 DEF Position
  <2>2. q = [plan |-> p.plan, at |-> p.at, risk |-> p.risk, groups |-> p.groups, filled |-> TRUE]
    BY <1>1, <2>1
  <2> QED BY <1>2, <2>2 DEF Position
<1>4. PICK rest : rest = book \ {p}
  OBVIOUS
<1>5. Books(rest) /\ LossOf(book) = LossAtStop(p.plan) + LossOf(rest)
  BY <1>2, <1>4, LossWithout
<1>6. PICK more : more = rest \union {q}
  OBVIOUS
<1>7. Books(more) /\ LossOf(more) =< LossOf(rest) + LossAtStop(q.plan)
  BY <1>3, <1>5, <1>6, LossWith
<1>8. book' = more /\ chart' = chart /\ decision' = decision /\ equity' = equity
  BY <1>1, <1>4, <1>6 DEF Enter
<1>9. /\ LossOf(more) \in Int /\ LossOf(rest) \in Int /\ LossOf(book) \in Int
      /\ LossAtStop(p.plan) \in Int /\ equity \in Int
  BY <1>2, <1>5, <1>7, LossType DEF Bounded, Position, Priced
<1>10. LossOf(more) =< LossOf(book)
  BY <1>3, <1>5, <1>7, <1>9
<1>11. Books(book') /\ LossOf(book') = LossOf(more)
  BY <1>7, <1>8
<1>12. equity' \in Int /\ equity' - LossOf(book') >= equity - LossOf(book)
  BY <1>8, <1>9, <1>10, <1>11
<1>13. chart' \in Seq(AnyCandle)
  BY <1>8 DEF Bounded
<1> QED BY <1>8, <1>11, <1>12, <1>13, CoveredStill

LEMMA ExpireStays == ASSUME Bounded, NEW p \in book, Expire(p) PROVE Bounded'
<1>1. LossAtStop(p.plan) \in Nat /\ equity \in Int
  BY DEF Bounded, Books, Position, Priced
<1>2. /\ book' = book \ {p} /\ decision' = decision /\ chart' = chart
      /\ equity' \in Int /\ equity' >= equity - LossAtStop(p.plan)
  BY <1>1 DEF Expire
<1> QED BY <1>2, RemovalStays

LEMMA LeaveStays ==
  ASSUME Bounded, NEW p \in book, Leave(p, -LossAtStop(p.plan)) \/ Leave(p, GainAtTarget(p.plan))
  PROVE  Bounded'
<1>1. LossAtStop(p.plan) \in Nat /\ GainAtTarget(p.plan) \in Nat /\ equity \in Int
  BY DEF Bounded, Books, Position, Priced
<1>2. /\ book' = book \ {p} /\ decision' = decision /\ chart' = chart
      /\ equity' \in Int /\ equity' >= equity - LossAtStop(p.plan)
  BY <1>1 DEF Leave
<1> QED BY <1>2, RemovalStays

LEMMA BoundedStays == ASSUME Bounded, [Next]_vars PROVE Bounded'
<1>1. CASE UNCHANGED vars
  BY <1>1 DEF vars, Bounded, IntentIsCovered
<1>2. CASE \E shape \in Shapes : NextCandle(shape)
  BY <1>2, NextCandleStays
<1>3. CASE Decide
  BY <1>3, DecideStays
<1>4. CASE \E quote \in Quotes : Prepare(quote)
  BY <1>4, PrepareStays
<1>5. CASE \E p \in book : Enter(p)
  BY <1>5, EnterStays
<1>6. CASE \E p \in book : Expire(p)
  BY <1>6, ExpireStays
<1>7. CASE \E p \in book : Leave(p, -LossAtStop(p.plan)) \/ Leave(p, GainAtTarget(p.plan))
  BY <1>7, LeaveStays
<1> QED BY <1>1, <1>2, <1>3, <1>4, <1>5, <1>6, <1>7 DEF Next

\* What is open and the intent that is granted lose no more than the limits of
\* a day leave, in any order of fills and exits, on every chart
\* (portfolio-risk-engine evaluatePortfolioRisk, position-sizing-engine
\* sizePosition).
THEOREM LossIsAlwaysBounded == Spec => []LossIsBounded
<1>1. Init => Bounded
  BY BoundedAtFirst
<1>2. Bounded /\ [Next]_vars => Bounded'
  BY BoundedStays
<1>3. Bounded => LossIsBounded
  BY DEF Bounded, IntentIsCovered, LossIsBounded, Safe, LossOf
<1> QED BY <1>1, <1>2, <1>3, PTL DEF Spec
-----------------------------------------------------------------------------
(* The structure of a window, read from the candles alone.  Both directions are *)
(* treated as one: up is TRUE for highs and FALSE for lows.                     *)

\* The elements that are kept are those at the indices, all of them.
LEMMA ThoseAre ==
  ASSUME NEW S, NEW s \in Seq(S), NEW I \in SUBSET DOMAIN s
  PROVE  /\ \A k \in DOMAIN Those(s, I) : \E i \in I : Those(s, I)[k] = s[i]
         /\ \A i \in I : \E k \in DOMAIN Those(s, I) : Those(s, I)[k] = s[i]
<1>1. IsFiniteSet(I) /\ I \subseteq Nat
  BY FS_Interval, FS_Subset
<1> DEFINE Rank(i) == Cardinality({j \in I : j =< i})
<1>2. Cardinality(I) \in Nat /\ \A m \in 1..Cardinality(I) : \E i \in I : Rank(i) = m
  BY <1>1, Ranks
<1>3. DOMAIN Those(s, I) = 1..Cardinality(I)
      /\ \A m \in 1..Cardinality(I) : Those(s, I)[m] = s[CHOOSE i \in I : Rank(i) = m]
  BY DEF Those
<1>4. \A i \in I : Rank(i) \in 1..Cardinality(I)
  <2> SUFFICES ASSUME NEW i \in I PROVE Rank(i) \in 1..Cardinality(I)
    OBVIOUS
  <2>1. PICK U : U = {j \in I : j =< i}
    OBVIOUS
  <2>2. i \in U /\ U \subseteq I
    BY <1>1, <2>1
  <2>3. IsFiniteSet(U) /\ Cardinality(U) =< Cardinality(I)
    BY <1>1, <2>2, FS_Subset
  <2>4. Cardinality(U) \in Nat /\ Cardinality(U) # 0
    BY <2>2, <2>3, FS_CardinalityType, FS_EmptySet
  <2>5. Rank(i) = Cardinality(U)
    BY <2>1
  <2> HIDE DEF Rank
  <2> QED BY <1>2, <2>3, <2>4, <2>5
<1>5. \A i, j \in I : Rank(i) = Rank(j) => i = j
  <2>1. ASSUME NEW i \in I, NEW j \in I, i < j PROVE Rank(i) # Rank(j)
    <3>1. PICK U, V : U = {k \in I : k =< i} /\ V = {k \in I : k =< j}
      OBVIOUS
    <3>2. U \subseteq V /\ V \subseteq I /\ j \in V /\ j \notin U
      BY <1>1, <2>1, <3>1
    <3>3. IsFiniteSet(V)
      BY <1>1, <3>2, FS_Subset
    <3>4. Cardinality(U) # Cardinality(V)
      BY <3>2, <3>3, FS_Subset
    <3> QED BY <3>1, <3>4
  <2>2. \A i, j \in I : i < j \/ j < i \/ i = j
    BY <1>1
  <2> HIDE DEF Rank
  <2> QED BY <2>1, <2>2
<1> HIDE DEF Rank
<1>6. ASSUME NEW m \in 1..Cardinality(I) PROVE \E i \in I : Those(s, I)[m] = s[i]
  <2>1. (CHOOSE i \in I : Rank(i) = m) \in I
    BY <1>2
  <2> QED BY <1>3, <2>1
<1>7. ASSUME NEW i \in I PROVE \E k \in DOMAIN Those(s, I) : Those(s, I)[k] = s[i]
  <2>1. PICK m \in 1..Cardinality(I) : m = Rank(i)
    BY <1>4
  <2>2. PICK j : j = CHOOSE k \in I : Rank(k) = m
    OBVIOUS
  <2>3. j \in I /\ Rank(j) = m
    BY <2>1, <2>2
  <2>4. j = i
    BY <1>5, <2>1, <2>3
  <2> QED BY <1>3, <2>1, <2>2, <2>4
<1> QED BY <1>3, <1>6, <1>7

Side(up) == IF up THEN "BUY_SIDE" ELSE "SELL_SIDE"
Kind(up) == IF up THEN "HIGH" ELSE "LOW"
Extreme(c, up) == IF up THEN c.high ELSE c.low
Past(m, n, up) == IF up THEN m > n ELSE m < n
BreakOf(up) == IF up THEN "CLOSE_BREAK_ABOVE" ELSE "CLOSE_BREAK_BELOW"
SweepOf(up) == IF up THEN "SWEEP_ABOVE_RECLAIM" ELSE "SWEEP_BELOW_RECLAIM"

\* Candles as trades make them.
Sound(w) == w \in Seq(AnyCandle) /\ \A i \in DOMAIN w : w[i].low =< w[i].close /\ w[i].close =< w[i].high

\* The swing at candle p is known at candle n, and nothing traded through it before m.
Swings(w, up, p, n, m) ==
  /\ p \in DOMAIN w /\ p - Structure.left >= 1 /\ p + Structure.right =< n
  /\ IsPivot(w, p, Kind(up))
  /\ \A k \in p..(m - 1) : ~Past(Extreme(w[k], up), Extreme(w[p], up), up)

\* What is known of a level at candle n that is active before candle m.
Standing(w, l, n, m) ==
  \E up \in BOOLEAN : \E p \in DOMAIN w :
    /\ Swings(w, up, p, n, m)
    /\ l.side = Side(up) /\ l.price = Extreme(w[p], up) /\ l.confirmedAt = w[p + Structure.right].at

LEMMA SwingsAre ==
  ASSUME NEW w \in Seq(AnyCandle), NEW n \in Nat, NEW m \in Nat, n =< Len(w), m =< Len(w) + 1
  PROVE  \A p : /\ p \in Highs(w, n, m) <=> Swings(w, TRUE, p, n, m)
                /\ p \in Lows(w, n, m) <=> Swings(w, FALSE, p, n, m)
<1>1. Structure.left \in Nat \ {0} /\ Structure.right \in Nat \ {0}
  BY StructureAssumption
<1>2. ASSUME NEW p \in DOMAIN w, p - Structure.left >= 1, p + Structure.right =< n
      PROVE  /\ Peak(w, p, n) <=> IsPivot(w, p, "HIGH")
             /\ Trough(w, p, n) <=> IsPivot(w, p, "LOW")
  <2>1. ASSUME NEW k \in (p - Structure.left)..(p + Structure.right) PROVE w[k] \in AnyCandle
    <3>0. PICK left \in Nat, right \in Nat, q \in Nat : left = Structure.left /\ right = Structure.right /\ q = p
      BY <1>1
    <3>1. k \in (q - left)..(q + right) /\ q - left >= 1 /\ q + right =< n
      BY <1>2, <3>0
    <3>2. k >= 1 /\ k =< n /\ k \in Int
      BY <3>1
    <3>3. k \in DOMAIN w
      BY <3>2
    <3> QED BY <3>3
  <2>2. /\ \A k \in (p - Structure.left)..(p + Structure.right) : w[k].high \in Nat /\ w[k].low \in Nat
        /\ w[p].high \in Nat /\ w[p].low \in Nat
    <3>1. w[p] \in AnyCandle
      OBVIOUS
    <3> QED BY <2>1, <3>1 DEF AnyCandle
  <2>3. Peak(w, p, n) <=> IsPivot(w, p, "HIGH")
    BY <1>2, <2>2 DEF Peak, IsPivot
  <2>4. Trough(w, p, n) <=> IsPivot(w, p, "LOW")
    BY <1>2, <2>2 DEF Trough, IsPivot
  <2> QED BY <2>3, <2>4
<1>3. ASSUME NEW p \in DOMAIN w
      PROVE  /\ (\A k \in p..(m - 1) : w[k].high =< w[p].high)
                  <=> \A k \in p..(m - 1) : ~Past(Extreme(w[k], TRUE), Extreme(w[p], TRUE), TRUE)
             /\ (\A k \in p..(m - 1) : w[k].low >= w[p].low)
                  <=> \A k \in p..(m - 1) : ~Past(Extreme(w[k], FALSE), Extreme(w[p], FALSE), FALSE)
  <2>1. ASSUME NEW k \in p..(m - 1) PROVE w[k] \in AnyCandle
    <3>1. k \in DOMAIN w
      OBVIOUS
    <3> QED BY <3>1
  <2>2. w[p] \in AnyCandle
    OBVIOUS
  <2>3. ASSUME NEW k \in p..(m - 1)
        PROVE  /\ w[k].high =< w[p].high <=> ~Past(Extreme(w[k], TRUE), Extreme(w[p], TRUE), TRUE)
               /\ w[k].low >= w[p].low <=> ~Past(Extreme(w[k], FALSE), Extreme(w[p], FALSE), FALSE)
    <3>1. PICK a \in Nat, b \in Nat, c \in Nat, d \in Nat :
            a = w[k].high /\ b = w[p].high /\ c = w[k].low /\ d = w[p].low
      BY <2>1, <2>2 DEF AnyCandle
    <3>2. (a =< b <=> ~(a > b)) /\ (c >= d <=> ~(c < d))
      OBVIOUS
    <3>3. /\ Past(Extreme(w[k], TRUE), Extreme(w[p], TRUE), TRUE) <=> w[k].high > w[p].high
          /\ Past(Extreme(w[k], FALSE), Extreme(w[p], FALSE), FALSE) <=> w[k].low < w[p].low
      BY DEF Past, Extreme
    <3> QED BY <3>1, <3>2, <3>3
  <2> QED BY <2>3
<1>4. ASSUME NEW p PROVE p \in Highs(w, n, m) <=> Swings(w, TRUE, p, n, m)
  <2>1. p \in Highs(w, n, m) <=> /\ p \in DOMAIN w /\ Peak(w, p, n)
                                 /\ \A k \in p..(m - 1) : w[k].high =< w[p].high
    BY DEF Highs
  <2>2. Peak(w, p, n) => p - Structure.left >= 1 /\ p + Structure.right =< n
    BY DEF Peak
  <2> QED BY <1>2, <1>3, <2>1, <2>2 DEF Swings, Kind
<1>5. ASSUME NEW p PROVE p \in Lows(w, n, m) <=> Swings(w, FALSE, p, n, m)
  <2>1. p \in Lows(w, n, m) <=> /\ p \in DOMAIN w /\ Trough(w, p, n)
                                /\ \A k \in p..(m - 1) : w[k].low >= w[p].low
    BY DEF Lows
  <2>2. Trough(w, p, n) => p - Structure.left >= 1 /\ p + Structure.right =< n
    BY DEF Trough
  <2> QED BY <1>2, <1>3, <2>1, <2>2 DEF Swings, Kind
<1> QED BY <1>4, <1>5

\* What a candle makes of a level that is active.
LEMMA ResolvedIs ==
  ASSUME NEW up \in BOOLEAN, NEW l \in AnyLevel, l.side = Side(up), l.status = "ACTIVE",
         NEW c \in AnyCandle, c.low =< c.close, c.close =< c.high
  PROVE  /\ EventType(l, c) = IF Past(c.close, l.price, up) THEN BreakOf(up)
                              ELSE IF Past(Extreme(c, up), l.price, up) THEN SweepOf(up) ELSE NoEvent
         /\ EventType(l, c) = NoEvent <=> ~Past(Extreme(c, up), l.price, up)
         /\ ~Past(Extreme(c, up), l.price, up) => Resolved(l, c) = l
         /\ Past(Extreme(c, up), l.price, up) => Resolved(l, c).status # "ACTIVE"
<1>1. EventType(l, c) = IF Past(c.close, l.price, up) THEN BreakOf(up)
                        ELSE IF Past(Extreme(c, up), l.price, up) THEN SweepOf(up) ELSE NoEvent
  BY DEF EventType, Past, BreakOf, SweepOf, Extreme, Side
<1>2. PICK low \in Nat, high \in Nat, close \in Nat, price \in Nat :
        low = c.low /\ high = c.high /\ close = c.close /\ price = l.price
  BY DEF AnyCandle, AnyLevel
<1>3. Past(c.close, l.price, up) => Past(Extreme(c, up), l.price, up)
  BY <1>2 DEF Past, Extreme
<1>4. BreakOf(up) # NoEvent /\ SweepOf(up) # NoEvent
  BY StructureAssumption DEF BreakOf, SweepOf
<1>5. EventType(l, c) = NoEvent <=> ~Past(Extreme(c, up), l.price, up)
  BY <1>1, <1>3, <1>4
<1>6. EventType(l, c) = NoEvent => Resolved(l, c) = l
  BY DEF Resolved
<1>7. EventType(l, c) # NoEvent => Resolved(l, c).status # "ACTIVE"
  <2>1. EventType(l, c) # NoEvent => \E x \in {"BROKEN", "SWEPT"} : Resolved(l, c) = [l EXCEPT !.status = x]
    BY DEF Resolved
  <2>2. \A x \in {"BROKEN", "SWEPT"} : [l EXCEPT !.status = x].status = x
    BY DEF AnyLevel
  <2> QED BY <2>1, <2>2
<1> QED BY <1>1, <1>5, <1>6, <1>7
-----------------------------------------------------------------------------
(* The structure after each candle of a window.                                *)

\* The elements of c are those of a and those of b.
Merges(a, b, c) ==
  /\ \A k \in DOMAIN c : (\E m \in DOMAIN a : c[k] = a[m]) \/ \E m \in DOMAIN b : c[k] = b[m]
  /\ \A m \in DOMAIN a : \E k \in DOMAIN c : c[k] = a[m]
  /\ \A m \in DOMAIN b : \E k \in DOMAIN c : c[k] = b[m]

LEMMA Concatenated ==
  ASSUME NEW S, NEW a \in Seq(S), NEW b \in Seq(S)
  PROVE  Merges(a, b, a \o b)
<1> SUFFICES ASSUME NEW c, c = a \o b PROVE Merges(a, b, c)
  OBVIOUS
<1>1. Len(a) \in Nat /\ DOMAIN a = 1..Len(a)
  OBVIOUS
<1>2. Len(b) \in Nat /\ DOMAIN b = 1..Len(b)
  OBVIOUS
<1>3. PICK m \in Nat, n \in Nat : m = Len(a) /\ n = Len(b)
  BY <1>1, <1>2
<1>4. /\ DOMAIN a = 1..m /\ DOMAIN b = 1..n /\ DOMAIN c = 1..(m + n)
      /\ \A k \in 1..(m + n) : c[k] = IF k =< m THEN a[k] ELSE b[k - m]
  <2>1. DOMAIN a = 1..m /\ DOMAIN b = 1..n
    BY <1>1, <1>2, <1>3
  <2>2. c \in Seq(S) /\ Len(c) = m + n
    BY <1>3
  <2>3. DOMAIN c = 1..(m + n)
    BY <2>2
  <2>4. ASSUME NEW k \in 1..(m + n) PROVE c[k] = IF k =< m THEN a[k] ELSE b[k - m]
    BY <1>3
  <2> QED BY <2>1, <2>3, <2>4
<1>5. \A k \in DOMAIN c : (\E i \in DOMAIN a : c[k] = a[i]) \/ \E i \in DOMAIN b : c[k] = b[i]
  <2> SUFFICES ASSUME NEW k \in 1..(m + n)
               PROVE  (\E i \in 1..m : c[k] = a[i]) \/ \E i \in 1..n : c[k] = b[i]
    BY <1>4
  <2>1. (k =< m /\ k \in 1..m) \/ (~(k =< m) /\ k - m \in 1..n)
    OBVIOUS
  <2> QED BY <1>4, <2>1
<1>6. \A i \in DOMAIN a : \E k \in DOMAIN c : c[k] = a[i]
  <2> SUFFICES ASSUME NEW i \in 1..m PROVE i \in 1..(m + n) /\ c[i] = a[i]
    BY <1>4
  <2>1. i \in 1..(m + n) /\ i =< m
    OBVIOUS
  <2> QED BY <1>4, <2>1
<1>7. \A i \in DOMAIN b : \E k \in DOMAIN c : c[k] = b[i]
  <2> SUFFICES ASSUME NEW i \in 1..n PROVE m + i \in 1..(m + n) /\ c[m + i] = b[i]
    BY <1>4
  <2>1. m + i \in 1..(m + n) /\ ~(m + i =< m) /\ m + i - m = i
    OBVIOUS
  <2> QED BY <1>4, <2>1
<1> QED BY <1>5, <1>6, <1>7 DEF Merges

Known(w, i, kind) == i - Structure.right > Structure.left /\ IsPivot(w, i - Structure.right, kind)
Left(w, i, kind) == LevelOf(w[i - Structure.right], kind, w[i].at)
Told(l, c) == [type |-> EventType(l, c), at |-> c.at, level |-> l]

\* A candle resolves every level, and leaves the swings that it makes known.
LEMMA StepMakes ==
  ASSUME NEW w \in Seq(AnyCandle), NEW s \in AnyStructure(w), NEW i \in 1..Len(w),
         NEW t, t = Step(w, s, i)
  PROVE  /\ \A k \in DOMAIN t.levels : \/ \E m \in DOMAIN s.levels : t.levels[k] = Resolved(s.levels[m], w[i])
                                       \/ \E kind \in {"HIGH", "LOW"} : Known(w, i, kind) /\ t.levels[k] = Left(w, i, kind)
         /\ \A m \in DOMAIN s.levels : \E k \in DOMAIN t.levels : t.levels[k] = Resolved(s.levels[m], w[i])
         /\ \A kind \in {"HIGH", "LOW"} : Known(w, i, kind) => \E k \in DOMAIN t.levels : t.levels[k] = Left(w, i, kind)
         /\ \A k \in DOMAIN t.events : \/ \E m \in DOMAIN s.events : t.events[k] = s.events[m]
                                       \/ \E m \in DOMAIN s.levels : /\ Resolved(s.levels[m], w[i]) # s.levels[m]
                                                                     /\ t.events[k] = Told(s.levels[m], w[i])
<1>1. PICK c : c = w[i]
  OBVIOUS
<1>2. PICK kinds : kinds = <<"HIGH", "LOW">>
  OBVIOUS
<1>3. PICK H : H = {k \in DOMAIN s.levels : Resolved(s.levels[k], c) # s.levels[k]}
  OBVIOUS
<1>4. PICK F : F = {k \in DOMAIN kinds : Known(w, i, kinds[k])}
  OBVIOUS
<1>5. PICK hit : hit = Those(s.levels, H)
  OBVIOUS
<1>6. PICK found : found = Those(kinds, F)
  OBVIOUS
<1>7. PICK resolved : resolved = [k \in DOMAIN s.levels |-> Resolved(s.levels[k], c)]
  OBVIOUS
<1>8. PICK left : left = [k \in DOMAIN found |-> Left(w, i, found[k])]
  OBVIOUS
<1>9. PICK events : events = [k \in DOMAIN hit |-> Told(hit[k], c)]
  OBVIOUS
<1>10. t.levels = resolved \o left /\ t.events = s.events \o events
  BY <1>1, <1>2, <1>3, <1>4, <1>5, <1>6, <1>7, <1>8, <1>9 DEF Step, Known, Left, Told
<1>11. s.levels \in Seq(AnyLevel) /\ s.events \in Seq(AnyEvent(w))
  BY DEF AnyStructure
<1>12. kinds \in Seq({"HIGH", "LOW"}) /\ DOMAIN kinds = {1, 2} /\ kinds[1] = "HIGH" /\ kinds[2] = "LOW"
  BY <1>2
<1>13. /\ found \in Seq({"HIGH", "LOW"})
       /\ \A k \in DOMAIN found : \E j \in F : found[k] = kinds[j]
       /\ \A j \in F : \E k \in DOMAIN found : found[k] = kinds[j]
  <2>1. F \in SUBSET DOMAIN kinds
    BY <1>4
  <2> QED BY <1>6, <1>12, <2>1, ThoseType, ThoseAre
<1>14. /\ hit \in Seq(AnyLevel)
       /\ \A k \in DOMAIN hit : \E j \in H : hit[k] = s.levels[j]
  <2>1. H \in SUBSET DOMAIN s.levels
    BY <1>3
  <2> QED BY <1>5, <1>11, <2>1, ThoseType, ThoseAre
<1>15. PICK A : resolved \in Seq(A) /\ left \in Seq(A)
  <2>1. PICK C : C = {Resolved(s.levels[k], c) : k \in DOMAIN s.levels} \union {Left(w, i, found[k]) : k \in DOMAIN found}
    OBVIOUS
  <2>2. resolved \in [DOMAIN s.levels -> C] /\ left \in [DOMAIN found -> C]
    BY <1>7, <1>8, <2>1
  <2>3. resolved \in [1..Len(s.levels) -> C] /\ left \in [1..Len(found) -> C] /\ Len(s.levels) \in Nat /\ Len(found) \in Nat
    BY <1>11, <1>13, <2>2
  <2> QED BY <2>3, FunctionAsSequence
<1>16. PICK B : s.events \in Seq(B) /\ events \in Seq(B)
  <2>1. PICK C : C = AnyEvent(w) \union {Told(hit[k], c) : k \in DOMAIN hit}
    OBVIOUS
  <2>2. events \in [DOMAIN hit -> C]
    BY <1>9, <2>1
  <2>3. events \in [1..Len(hit) -> C] /\ Len(hit) \in Nat
    BY <1>14, <2>2
  <2>4. events \in Seq(C)
    BY <2>3, FunctionAsSequence
  <2>5. s.events \in Seq(C)
    BY <1>11, <2>1
  <2> QED BY <2>4, <2>5
<1>17. Merges(resolved, left, t.levels)
  BY <1>10, <1>15, Concatenated, Zenon
<1>18. Merges(s.events, events, t.events)
  BY <1>10, <1>16, Concatenated, Zenon
<1>19. /\ DOMAIN resolved = DOMAIN s.levels /\ \A m \in DOMAIN s.levels : resolved[m] = Resolved(s.levels[m], w[i])
       /\ DOMAIN left = DOMAIN found /\ \A m \in DOMAIN found : left[m] = Left(w, i, found[m])
       /\ DOMAIN events = DOMAIN hit /\ \A m \in DOMAIN hit : events[m] = Told(hit[m], w[i])
  BY <1>1, <1>7, <1>8, <1>9
<1>20. /\ \A m \in DOMAIN left : \E kind \in {"HIGH", "LOW"} : Known(w, i, kind) /\ left[m] = Left(w, i, kind)
       /\ \A kind \in {"HIGH", "LOW"} : Known(w, i, kind) => \E m \in DOMAIN left : left[m] = Left(w, i, kind)
  <2>1. \A j \in F : kinds[j] \in {"HIGH", "LOW"} /\ Known(w, i, kinds[j])
    BY <1>4, <1>12
  <2>2. \A kind \in {"HIGH", "LOW"} : Known(w, i, kind) => \E j \in F : kinds[j] = kind
    BY <1>4, <1>12
  <2>3. \A m \in DOMAIN left : \E kind \in {"HIGH", "LOW"} : Known(w, i, kind) /\ left[m] = Left(w, i, kind)
    <3> SUFFICES ASSUME NEW m \in DOMAIN found
                 PROVE  \E kind \in {"HIGH", "LOW"} : Known(w, i, kind) /\ left[m] = Left(w, i, kind)
      BY <1>19
    <3>1. found[m] \in {"HIGH", "LOW"} /\ Known(w, i, found[m])
      BY <1>13, <2>1
    <3> QED BY <1>19, <3>1
  <2>4. ASSUME NEW kind \in {"HIGH", "LOW"}, Known(w, i, kind) PROVE \E m \in DOMAIN left : left[m] = Left(w, i, kind)
    <3>1. PICK m \in DOMAIN found : found[m] = kind
      BY <1>13, <2>2, <2>4
    <3> QED BY <1>19, <3>1
  <2> QED BY <2>3, <2>4
<1>21. \A m \in DOMAIN events : \E j \in DOMAIN s.levels : /\ Resolved(s.levels[j], w[i]) # s.levels[j]
                                                           /\ events[m] = Told(s.levels[j], w[i])
  <2>1. \A j \in H : j \in DOMAIN s.levels /\ Resolved(s.levels[j], w[i]) # s.levels[j]
    BY <1>1, <1>3
  <2> QED BY <1>14, <1>19, <2>1
<1>22. \A k \in DOMAIN t.levels : \/ \E m \in DOMAIN s.levels : t.levels[k] = Resolved(s.levels[m], w[i])
                                  \/ \E kind \in {"HIGH", "LOW"} : Known(w, i, kind) /\ t.levels[k] = Left(w, i, kind)
  BY <1>17, <1>19, <1>20 DEF Merges
<1>23. \A m \in DOMAIN s.levels : \E k \in DOMAIN t.levels : t.levels[k] = Resolved(s.levels[m], w[i])
  BY <1>17, <1>19 DEF Merges
<1>24. \A kind \in {"HIGH", "LOW"} : Known(w, i, kind) => \E k \in DOMAIN t.levels : t.levels[k] = Left(w, i, kind)
  BY <1>17, <1>20 DEF Merges
<1>25. \A k \in DOMAIN t.events : \/ \E m \in DOMAIN s.events : t.events[k] = s.events[m]
                                  \/ \E m \in DOMAIN s.levels : /\ Resolved(s.levels[m], w[i]) # s.levels[m]
                                                                /\ t.events[k] = Told(s.levels[m], w[i])
  BY <1>18, <1>21 DEF Merges
<1> QED BY <1>22, <1>23, <1>24, <1>25

\* An event is what a candle did to a level that stood until then.
Happened(w, e, i) ==
  \E j \in 1..i : /\ e.at = w[j].at /\ e.type = EventType(e.level, w[j]) /\ e.type # NoEvent
                  /\ Standing(w, e.level, j - 1, j)

\* A swing that nothing traded through has an active level.
Marked(w, s, up, p) ==
  \E k \in DOMAIN s.levels : /\ s.levels[k].status = "ACTIVE"
                             /\ s.levels[k].side = Side(up) /\ s.levels[k].price = Extreme(w[p], up)

\* What the structure is after candle i: active levels are the swings that
\* nothing traded through, and events what happened to the others.
Current(w, s, i) ==
  /\ \A k \in DOMAIN s.levels : s.levels[k].status = "ACTIVE" => Standing(w, s.levels[k], i, i + 1)
  /\ \A up \in BOOLEAN : \A p \in DOMAIN w : Swings(w, up, p, i, i + 1) => Marked(w, s, up, p)
  /\ \A k \in DOMAIN s.events : Happened(w, s.events[k], i)

LEMMA SidesDiffer ==
  /\ Side(TRUE) = "BUY_SIDE" /\ Side(FALSE) = "SELL_SIDE"
  /\ \A kind \in {"HIGH", "LOW"} : \E up \in BOOLEAN : kind = Kind(up)
  /\ \A up \in BOOLEAN : Kind(up) \in {"HIGH", "LOW"}
<1>1. Kind(TRUE) = "HIGH" /\ Kind(FALSE) = "LOW"
  BY DEF Kind
<1>2. \A up \in BOOLEAN : Kind(up) \in {"HIGH", "LOW"}
  BY DEF Kind
<1>3. Side(TRUE) = "BUY_SIDE" /\ Side(FALSE) = "SELL_SIDE"
  BY DEF Side
<1>4. \A kind \in {"HIGH", "LOW"} : \E up \in BOOLEAN : kind = Kind(up)
  <2>1. TRUE \in BOOLEAN /\ FALSE \in BOOLEAN
    OBVIOUS
  <2> QED BY <1>1, <2>1, Zenon
<1> QED BY <1>2, <1>3, <1>4

LEMMA LeftIs ==
  ASSUME NEW w, NEW i, NEW up \in BOOLEAN
  PROVE  /\ Left(w, i, Kind(up)).side = Side(up)
         /\ Left(w, i, Kind(up)).price = Extreme(w[i - Structure.right], up)
         /\ Left(w, i, Kind(up)).confirmedAt = w[i].at
         /\ Left(w, i, Kind(up)).status = "ACTIVE"
BY DEF Left, LevelOf, Kind, Side, Extreme

LEMMA ExtremeType == ASSUME NEW c \in AnyCandle, NEW up \in BOOLEAN PROVE Extreme(c, up) \in Nat
BY DEF Extreme, AnyCandle

\* A swing stands for one more candle when the candle does not trade through it.
LEMMA SwingsOn ==
  ASSUME NEW w \in Seq(AnyCandle), NEW i \in Nat, NEW up \in BOOLEAN, NEW p \in DOMAIN w, Swings(w, up, p, i - 1, i),
         ~Past(Extreme(w[i], up), Extreme(w[p], up), up)
  PROVE  Swings(w, up, p, i, i + 1)
<1>1. Structure.right \in Nat /\ p \in Nat
  BY StructureAssumption
<1>2. /\ IsPivot(w, p, Kind(up)) /\ p - Structure.left >= 1 /\ p + Structure.right =< i - 1
      /\ \A k \in p..(i - 1) : ~Past(Extreme(w[k], up), Extreme(w[p], up), up)
  BY DEF Swings
<1>3. p + Structure.right =< i
  BY <1>1, <1>2
<1>4. \A k \in p..((i + 1) - 1) : k \in p..(i - 1) \/ k = i
  BY <1>1
<1>5. \A k \in p..((i + 1) - 1) : ~Past(Extreme(w[k], up), Extreme(w[p], up), up)
  BY <1>2, <1>4
<1> QED BY <1>2, <1>3, <1>5 DEF Swings

\* The swing that candle i makes known stands.
LEMMA SwingsFirst ==
  ASSUME NEW w \in Seq(AnyCandle), NEW i \in 1..Len(w), NEW up \in BOOLEAN, Known(w, i, Kind(up))
  PROVE  /\ i - Structure.right \in DOMAIN w
         /\ Swings(w, up, i - Structure.right, i, i + 1)
<1>1. PICK left \in Nat \ {0}, right \in Nat \ {0} : left = Structure.left /\ right = Structure.right
  BY StructureAssumption
<1>0. i \in Nat /\ Len(w) \in Nat /\ i =< Len(w) /\ DOMAIN w = 1..Len(w)
  OBVIOUS
<1>2. PICK p \in Int : p = i - right
  BY <1>0
<1>3. p > left /\ IsPivot(w, p, Kind(up))
  <2>1. i - Structure.right = p
    BY <1>1, <1>2
  <2> QED BY <1>1, <2>1 DEF Known
<1>4. p \in DOMAIN w /\ p - left >= 1 /\ p + right = i
  <2>1. p >= 1 /\ p - left >= 1 /\ p + right = i
    BY <1>2, <1>3
  <2>2. p =< Len(w)
    BY <1>0, <2>1
  <2> QED BY <1>0, <2>1, <2>2
<1>5. ASSUME NEW k \in p..i PROVE ~Past(Extreme(w[k], up), Extreme(w[p], up), up)
  <2>1. k \in DOMAIN w /\ k \in (p - left)..(p + right)
    <3>1. p >= 1 /\ k >= p /\ k =< i /\ k \in Int
      BY <1>1, <1>4
    <3> QED BY <1>0, <1>1, <1>4, <3>1
  <2>2. w[k] \in AnyCandle /\ w[p] \in AnyCandle
    BY <1>4, <2>1
  <2>3. k # p => IF up THEN w[p].high > w[k].high ELSE w[p].low < w[k].low
    BY <1>1, <1>3, <2>1 DEF IsPivot, Kind
  <2>4. PICK a \in Nat, b \in Nat : a = Extreme(w[k], up) /\ b = Extreme(w[p], up)
    BY <2>2, ExtremeType
  <2>5. a = b \/ IF up THEN b > a ELSE b < a
    BY <2>3, <2>4 DEF Extreme
  <2> QED BY <2>4, <2>5 DEF Past
<1>6. \A k \in p..((i + 1) - 1) : ~Past(Extreme(w[k], up), Extreme(w[p], up), up)
  BY <1>5
<1>7. Swings(w, up, p, i, i + 1)
  BY <1>1, <1>3, <1>4, <1>6 DEF Swings
<1> QED BY <1>1, <1>2, <1>4, <1>7

\* A level that is not active is left alone.
LEMMA ResolvedOnce ==
  ASSUME NEW l \in AnyLevel, NEW c
  PROVE  /\ l.status # "ACTIVE" => Resolved(l, c) = l
         /\ Resolved(l, c) # l => l.status = "ACTIVE" /\ EventType(l, c) # NoEvent
BY DEF Resolved

LEMMA CurrentStays ==
  ASSUME NEW w, Sound(w), NEW s \in AnyStructure(w), NEW i \in 1..Len(w), Current(w, s, i - 1),
         NEW t, t = Step(w, s, i)
  PROVE  Current(w, t, i)
<1>1. /\ w \in Seq(AnyCandle) /\ i \in DOMAIN w /\ i \in Nat
      /\ w[i] \in AnyCandle /\ w[i].low =< w[i].close /\ w[i].close =< w[i].high
  BY DEF Sound
<1>2. /\ \A k \in DOMAIN s.levels : s.levels[k].status = "ACTIVE" => Standing(w, s.levels[k], i - 1, i)
      /\ \A up \in BOOLEAN : \A p \in DOMAIN w : Swings(w, up, p, i - 1, i) => Marked(w, s, up, p)
      /\ \A k \in DOMAIN s.events : Happened(w, s.events[k], i - 1)
  <2>1. (i - 1) + 1 = i
    OBVIOUS
  <2> QED BY <2>1 DEF Current
<1>3. \A k \in DOMAIN s.levels : s.levels[k] \in AnyLevel
  <2>1. s.levels \in Seq(AnyLevel)
    BY DEF AnyStructure
  <2> QED BY <2>1
<1>4. /\ \A k \in DOMAIN t.levels : \/ \E m \in DOMAIN s.levels : t.levels[k] = Resolved(s.levels[m], w[i])
                                    \/ \E kind \in {"HIGH", "LOW"} : Known(w, i, kind) /\ t.levels[k] = Left(w, i, kind)
      /\ \A m \in DOMAIN s.levels : \E k \in DOMAIN t.levels : t.levels[k] = Resolved(s.levels[m], w[i])
      /\ \A kind \in {"HIGH", "LOW"} : Known(w, i, kind) => \E k \in DOMAIN t.levels : t.levels[k] = Left(w, i, kind)
      /\ \A k \in DOMAIN t.events : \/ \E m \in DOMAIN s.events : t.events[k] = s.events[m]
                                    \/ \E m \in DOMAIN s.levels : /\ Resolved(s.levels[m], w[i]) # s.levels[m]
                                                                  /\ t.events[k] = Told(s.levels[m], w[i])
  BY <1>1, StepMakes
\* What candle i does to a swing's level.
<1>5. ASSUME NEW l \in AnyLevel, NEW up \in BOOLEAN, l.status = "ACTIVE", l.side = Side(up)
      PROVE  /\ ~Past(Extreme(w[i], up), l.price, up) => Resolved(l, w[i]) = l
             /\ Past(Extreme(w[i], up), l.price, up) => Resolved(l, w[i]).status # "ACTIVE"
  BY <1>1, <1>5, ResolvedIs
<1>6. ASSUME NEW k \in DOMAIN t.levels, t.levels[k].status = "ACTIVE"
      PROVE  Standing(w, t.levels[k], i, i + 1)
  <2>1. CASE \E m \in DOMAIN s.levels : t.levels[k] = Resolved(s.levels[m], w[i])
    <3>1. PICK m \in DOMAIN s.levels : t.levels[k] = Resolved(s.levels[m], w[i])
      BY <2>1
    <3>2. PICK l \in AnyLevel : l = s.levels[m]
      BY <1>3
    <3>3. Resolved(l, w[i]).status = "ACTIVE" /\ t.levels[k] = Resolved(l, w[i])
      BY <1>6, <3>1, <3>2
    <3>4. l.status = "ACTIVE"
      BY <3>3, ResolvedOnce
    <3>5. PICK up \in BOOLEAN, p \in DOMAIN w :
            /\ Swings(w, up, p, i - 1, i)
            /\ l.side = Side(up) /\ l.price = Extreme(w[p], up) /\ l.confirmedAt = w[p + Structure.right].at
      BY <1>2, <3>2, <3>4 DEF Standing
    <3>6. ~Past(Extreme(w[i], up), l.price, up) /\ Resolved(l, w[i]) = l
      BY <1>5, <3>3, <3>4, <3>5
    <3>7. Swings(w, up, p, i, i + 1)
      BY <1>1, <3>5, <3>6, SwingsOn
    <3>8. t.levels[k] = l
      BY <3>3, <3>6
    <3> QED BY <3>5, <3>7, <3>8 DEF Standing
  <2>2. CASE \E kind \in {"HIGH", "LOW"} : Known(w, i, kind) /\ t.levels[k] = Left(w, i, kind)
    <3>1. PICK up \in BOOLEAN : Known(w, i, Kind(up)) /\ t.levels[k] = Left(w, i, Kind(up))
      BY <2>2, SidesDiffer
    <3>2. PICK p : p = i - Structure.right
      OBVIOUS
    <3>3. p \in DOMAIN w /\ Swings(w, up, p, i, i + 1)
      BY <1>1, <3>1, <3>2, SwingsFirst
    <3>4. p + Structure.right = i
      BY <1>1, <3>2, StructureAssumption
    <3>5. /\ t.levels[k].side = Side(up) /\ t.levels[k].price = Extreme(w[p], up)
          /\ t.levels[k].confirmedAt = w[p + Structure.right].at
      BY <3>1, <3>2, <3>4, LeftIs
    <3> QED BY <3>3, <3>5 DEF Standing
  <2> QED BY <1>4, <2>1, <2>2
<1>7. ASSUME NEW up \in BOOLEAN, NEW p \in DOMAIN w, Swings(w, up, p, i, i + 1)
      PROVE  Marked(w, t, up, p)
  <2>1. /\ p + Structure.right =< i /\ p - Structure.left >= 1 /\ IsPivot(w, p, Kind(up))
        /\ \A k \in p..i : ~Past(Extreme(w[k], up), Extreme(w[p], up), up)
    <3>1. (i + 1) - 1 = i
      OBVIOUS
    <3> QED BY <1>7, <3>1 DEF Swings
  <2>2. Structure.right \in Nat /\ Structure.left \in Nat /\ p \in Nat
    BY <1>1, StructureAssumption
  <2>3. CASE p + Structure.right = i
    <3>1. i - Structure.right = p /\ p > Structure.left
      BY <2>1, <2>2, <2>3
    <3>2. Known(w, i, Kind(up))
      BY <2>1, <3>1 DEF Known
    <3>3. PICK k \in DOMAIN t.levels : t.levels[k] = Left(w, i, Kind(up))
      BY <1>4, <3>2, SidesDiffer
    <3> QED BY <3>1, <3>3, LeftIs DEF Marked
  <2>4. CASE p + Structure.right =< i - 1
    <3>1. Swings(w, up, p, i - 1, i)
      <4>1. \A k \in p..(i - 1) : k \in p..i
        BY <1>1, <2>2
      <4> QED BY <2>1, <2>4, <4>1 DEF Swings
    <3>2. PICK m \in DOMAIN s.levels : /\ s.levels[m].status = "ACTIVE"
                                       /\ s.levels[m].side = Side(up) /\ s.levels[m].price = Extreme(w[p], up)
      BY <1>2, <3>1 DEF Marked
    <3>3. PICK l \in AnyLevel : l = s.levels[m]
      BY <1>3
    <3>4. i \in p..i
      BY <1>1, <2>2, <2>4
    <3>5. Resolved(l, w[i]) = l
      BY <1>5, <2>1, <3>2, <3>3, <3>4
    <3>6. PICK k \in DOMAIN t.levels : t.levels[k] = Resolved(s.levels[m], w[i])
      BY <1>4
    <3> QED BY <3>2, <3>3, <3>5, <3>6 DEF Marked
  <2>5. p + Structure.right = i \/ p + Structure.right =< i - 1
    BY <1>1, <2>1, <2>2
  <2> QED BY <2>3, <2>4, <2>5
<1>8. ASSUME NEW k \in DOMAIN t.events PROVE Happened(w, t.events[k], i)
  <2>1. CASE \E m \in DOMAIN s.events : t.events[k] = s.events[m]
    <3>1. Happened(w, t.events[k], i - 1)
      BY <1>2, <2>1
    <3>2. \A j \in 1..(i - 1) : j \in 1..i
      BY <1>1
    <3> QED BY <3>1, <3>2 DEF Happened
  <2>2. CASE \E m \in DOMAIN s.levels : /\ Resolved(s.levels[m], w[i]) # s.levels[m]
                                        /\ t.events[k] = Told(s.levels[m], w[i])
    <3>1. PICK m \in DOMAIN s.levels : /\ Resolved(s.levels[m], w[i]) # s.levels[m]
                                       /\ t.events[k] = Told(s.levels[m], w[i])
      BY <2>2
    <3>2. PICK l \in AnyLevel : l = s.levels[m]
      BY <1>3
    <3>3. l.status = "ACTIVE" /\ EventType(l, w[i]) # NoEvent
      BY <3>1, <3>2, ResolvedOnce
    <3>4. Standing(w, l, i - 1, i)
      BY <1>2, <3>2, <3>3
    <3>5. PICK e : e = t.events[k]
      OBVIOUS
    <3>6. e.level = l /\ e.at = w[i].at /\ e.type = EventType(l, w[i])
      BY <3>1, <3>2, <3>5 DEF Told
    <3>7. i \in 1..i
      BY <1>1
    <3>8. Happened(w, e, i)
      BY <3>3, <3>4, <3>6, <3>7 DEF Happened
    <3> QED BY <3>5, <3>8
  <2> QED BY <1>4, <2>1, <2>2
<1> QED BY <1>6, <1>7, <1>8 DEF Current

LEMMA StructureIsCurrent ==
  ASSUME NEW candles, NEW w, w = Window(candles, Structure.lookback), Sound(w)
  PROVE  Current(w, MarketStructure(candles), Len(w))
<1>1. w \in Seq(AnyCandle) /\ Len(w) \in Nat
  BY DEF Sound
<1>2. PICK g : Runs(w, g) /\ MarketStructure(candles) = g[Len(w)]
  BY <1>1, MarketStructureRuns
<1> DEFINE U == {n \in Nat : n =< Len(w) => g[n] \in AnyStructure(w) /\ Current(w, g[n], n)}
<1>3. 0 \in U
  <2>1. g[0] = None
    BY <1>1, <1>2 DEF Runs
  <2>2. None \in AnyStructure(w)
    BY DEF None, AnyStructure
  <2>3. Current(w, None, 0)
    <3>1. DOMAIN None.levels = {} /\ DOMAIN None.events = {}
      BY DEF None
    <3>2. ASSUME NEW up \in BOOLEAN, NEW p \in DOMAIN w PROVE ~Swings(w, up, p, 0, 1)
      BY <1>1, StructureAssumption DEF Swings
    <3>3. 0 + 1 = 1
      OBVIOUS
    <3> QED BY <3>1, <3>2, <3>3 DEF Current
  <2> QED BY <2>1, <2>2, <2>3
<1>4. ASSUME NEW n \in Nat, n \in U PROVE n + 1 \in U
  <2> SUFFICES ASSUME n + 1 =< Len(w) PROVE g[n + 1] \in AnyStructure(w) /\ Current(w, g[n + 1], n + 1)
    OBVIOUS
  <2>1. PICK s, t : s = g[n] /\ t = g[n + 1]
    OBVIOUS
  <2>2. PICK i \in 1..Len(w) : i = n + 1
    BY <1>1
  <2>3. i - 1 = n
    BY <2>2
  <2>4. s \in AnyStructure(w) /\ Current(w, s, i - 1)
    BY <1>1, <1>4, <2>1, <2>3
  <2>5. t = Step(w, s, i)
    <3>1. g[i] = IF i = 0 THEN None ELSE Step(w, g[i - 1], i)
      <4>1. i \in 0..Len(w)
        OBVIOUS
      <4> QED BY <1>2, <4>1 DEF Runs
    <3>2. i # 0
      OBVIOUS
    <3> QED BY <2>1, <2>2, <2>3, <3>1, <3>2
  <2>6. t \in AnyStructure(w)
    BY <1>1, <2>4, <2>5, StepType
  <2>7. Current(w, t, i)
    BY <2>4, <2>5, CurrentStays
  <2> QED BY <2>1, <2>2, <2>6, <2>7
<1>5. \A n \in Nat : n \in U
  <2> HIDE DEF U
  <2> QED BY <1>3, <1>4, Inductive
<1> QED BY <1>1, <1>2, <1>5
-----------------------------------------------------------------------------
(* The window of a chart, whose candles are dated one after the other.         *)

\* Candle i of the sequence is that of time b + i.
Dated(candles, b) == \A i \in DOMAIN candles : candles[i].at = b + i

\* The last n of l candles.
LastOf(w, candles, l, n) ==
  /\ w \in Seq(AnyCandle) /\ Len(w) = n /\ DOMAIN w = 1..n
  /\ l = Len(candles) /\ DOMAIN candles = 1..l
  /\ \A i \in 1..n : l - n + i \in 1..l /\ w[i] = candles[l - n + i]

LEMMA WindowIs ==
  ASSUME NEW candles \in Seq(AnyCandle), NEW n \in Nat, n =< Len(candles)
  PROVE  LastOf(Window(candles, n), candles, Len(candles), n)
<1>0. PICK w : w = Window(candles, n)
  OBVIOUS
<1>1. PICK l \in Nat : l = Len(candles)
  OBVIOUS
<1>2. w = SubSeq(candles, l - n + 1, l) /\ n =< l /\ DOMAIN candles = 1..l
  BY <1>0, <1>1 DEF Window
<1>3. w \in Seq(AnyCandle)
  BY <1>1, <1>2
<1>4. Len(w) = n
  BY <1>1, <1>2
<1>5. DOMAIN w = 1..n
  BY <1>3, <1>4
<1>6. ASSUME NEW i \in 1..n PROVE l - n + i \in 1..l /\ w[i] = candles[l - n + i]
  BY <1>1, <1>2
<1> QED BY <1>0, <1>1, <1>2, <1>3, <1>4, <1>5, <1>6 DEF LastOf

\* A window of a frame is that of the chart.
LEMMA WindowOfFrame ==
  ASSUME NEW candles \in Seq(AnyCandle), NEW n \in Nat, n =< Len(Frame(candles))
  PROVE  n =< Len(candles) /\ Window(Frame(candles), n) = Window(candles, n)
<1>1. CASE Len(candles) =< History
  BY <1>1 DEF Frame
<1>2. CASE ~(Len(candles) =< History)
  <2>1. PICK f : f = Frame(candles)
    OBVIOUS
  <2>2. PICK l \in Nat, h \in Nat : l = Len(candles) /\ h = History
    BY PlanAssumption
  <2>3. f = Window(candles, h) /\ h < l
    BY <1>2, <2>1, <2>2 DEF Frame
  <2>4. LastOf(f, candles, l, h)
    BY <2>2, <2>3, WindowIs
  <2>5. n =< h /\ n =< l
    BY <2>1, <2>3, <2>4 DEF LastOf
  <2>6. PICK v, w : v = Window(f, n) /\ w = Window(candles, n)
    OBVIOUS
  <2>7. LastOf(v, f, h, n)
    <3>1. f \in Seq(AnyCandle) /\ Len(f) = h
      BY <2>4 DEF LastOf
    <3> QED BY <2>5, <2>6, <3>1, WindowIs
  <2>8. LastOf(w, candles, l, n)
    BY <2>2, <2>5, <2>6, WindowIs
  <2>9. ASSUME NEW i \in 1..n PROVE v[i] = w[i]
    <3>1. h - n + i \in 1..h /\ l - h + (h - n + i) = l - n + i
      BY <2>3, <2>5
    <3>2. v[i] = f[h - n + i] /\ f[h - n + i] = candles[l - h + (h - n + i)]
      BY <2>4, <2>7, <3>1 DEF LastOf
    <3>3. w[i] = candles[l - n + i]
      BY <2>8 DEF LastOf
    <3> QED BY <3>1, <3>2, <3>3
  <2>10. v = w
    <3>1. v \in [1..n -> AnyCandle] /\ w \in [1..n -> AnyCandle]
      BY <2>7, <2>8 DEF LastOf
    <3> QED BY <2>9, <3>1
  <2> QED BY <2>1, <2>2, <2>5, <2>6, <2>10
<1> QED BY <1>1, <1>2

LEMMA DatedOrder ==
  ASSUME NEW w \in Seq(AnyCandle), NEW b \in Int, Dated(w, b)
  PROVE  /\ \A i, j \in DOMAIN w : w[i].at =< w[j].at <=> i =< j
         /\ \A j \in DOMAIN w : (CHOOSE i \in DOMAIN w : w[i].at = w[j].at) = j
         /\ \A j \in DOMAIN w : CandleAt(w, w[j].at) = w[j]
<1>1. \A i \in DOMAIN w : i \in Int /\ w[i].at = b + i
  BY DEF Dated
<1>2. \A i, j \in DOMAIN w : w[i].at =< w[j].at <=> i =< j
  BY <1>1
<1>3. \A i, j \in DOMAIN w : w[i].at = w[j].at => i = j
  BY <1>1
<1>4. \A j \in DOMAIN w : (CHOOSE i \in DOMAIN w : w[i].at = w[j].at) = j
  BY <1>3
<1> QED BY <1>2, <1>4 DEF CandleAt

\* The window of dated candles is dated, and its candles are found in them.
LEMMA WindowDated ==
  ASSUME NEW candles \in Seq(AnyCandle), NEW b \in Int, Dated(candles, b),
         NEW n \in Nat, n =< Len(candles), NEW w, w = Window(candles, n)
  PROVE  /\ \E a \in Int : Dated(w, a)
         /\ \A j \in DOMAIN w : CandleAt(candles, w[j].at) = w[j]
         /\ \A j \in DOMAIN w : \A i \in DOMAIN candles :
              candles[i].at > w[j].at => \E k \in DOMAIN w : w[k].at = candles[i].at
<1>0. LastOf(w, candles, Len(candles), n)
  BY WindowIs
<1>1. PICK l \in Nat : l = Len(candles)
  OBVIOUS
<1>2. /\ w \in Seq(AnyCandle) /\ DOMAIN w = 1..n /\ n =< l /\ DOMAIN candles = 1..l
      /\ \A i \in 1..n : l - n + i \in DOMAIN candles /\ w[i] = candles[l - n + i]
  BY <1>0, <1>1 DEF LastOf
<1>3. \A i \in 1..n : w[i].at = b + (l - n) + i
  <2> SUFFICES ASSUME NEW i \in 1..n PROVE w[i].at = b + (l - n) + i
    OBVIOUS
  <2>1. w[i].at = b + (l - n + i)
    BY <1>2 DEF Dated
  <2> QED BY <2>1
<1>4. Dated(w, b + (l - n))
  BY <1>2, <1>3 DEF Dated
<1>5. \A j \in DOMAIN w : CandleAt(candles, w[j].at) = w[j]
  <2> SUFFICES ASSUME NEW j \in 1..n PROVE CandleAt(candles, w[j].at) = w[j]
    BY <1>2
  <2>1. PICK i \in DOMAIN candles : w[j] = candles[i]
    BY <1>2
  <2>2. CandleAt(candles, candles[i].at) = candles[i]
    BY DatedOrder
  <2> QED BY <2>1, <2>2
<1>6. ASSUME NEW j \in 1..n, NEW i \in 1..l, candles[i].at > w[j].at
      PROVE  \E k \in 1..n : w[k].at = candles[i].at
  <2>1. b + i > b + (l - n) + j
    <3>1. candles[i].at = b + i
      BY <1>2 DEF Dated
    <3> QED BY <1>3, <1>6, <3>1
  <2>2. PICK k \in 1..n : k = i - (l - n)
    BY <1>2, <2>1
  <2>3. l - n + k = i
    BY <2>2
  <2> QED BY <1>2, <2>3
<1>7. \A j \in DOMAIN w : \A i \in DOMAIN candles :
        candles[i].at > w[j].at => \E k \in DOMAIN w : w[k].at = candles[i].at
  BY <1>2, <1>6
<1>8. b + (l - n) \in Int
  BY <1>1
<1> QED BY <1>4, <1>5, <1>7, <1>8

\* The window of sound candles is sound.
LEMMA WindowSound ==
  ASSUME NEW candles, Sound(candles), NEW n \in Nat, n =< Len(candles)
  PROVE  Sound(Window(candles, n))
<1>1. PICK w : w = Window(candles, n)
  OBVIOUS
<1>2. /\ candles \in Seq(AnyCandle) /\ \A i \in DOMAIN candles : candles[i].low =< candles[i].close /\ candles[i].close =< candles[i].high
  BY DEF Sound
<1>3. /\ w \in Seq(AnyCandle) /\ DOMAIN w = 1..n
      /\ \A i \in 1..n : \E k \in DOMAIN candles : w[i] = candles[k]
  <2>1. LastOf(w, candles, Len(candles), n)
    BY <1>1, <1>2, WindowIs
  <2> QED BY <2>1 DEF LastOf
<1> QED BY <1>1, <1>2, <1>3 DEF Sound
-----------------------------------------------------------------------------
(* What a setup rests on.                                                      *)

\* The event that is looked for is an event of its type.
LEMMA EventsAreOfType ==
  ASSUME NEW E, NEW events \in Seq(E), NEW type, NEW initiation
  PROVE  /\ Latest(events, type) # NoEvent =>
              \E i \in DOMAIN events : events[i] = Latest(events, type) /\ events[i].type = type
         /\ LaterBreak(events, initiation, type) # NoEvent =>
              \E i \in DOMAIN events : /\ events[i] = LaterBreak(events, initiation, type)
                                       /\ events[i].type = type
                                       /\ events[i].level.confirmedAt =< initiation.at
<1>1. \A I \in SUBSET DOMAIN events : I # {} => Max(I) \in I /\ Min(I) \in I
  <2> SUFFICES ASSUME NEW I \in SUBSET DOMAIN events, I # {} PROVE Max(I) \in I /\ Min(I) \in I
    OBVIOUS
  <2>1. IsFiniteSet(I) /\ I \subseteq Nat
    BY FS_Interval, FS_Subset
  <2> QED BY <2>1, Extremes
<1>2. ASSUME Latest(events, type) # NoEvent
      PROVE  \E i \in DOMAIN events : events[i] = Latest(events, type) /\ events[i].type = type
  <2>1. PICK I : I = {i \in DOMAIN events : events[i].type = type}
    OBVIOUS
  <2>2. Latest(events, type) = IF I = {} THEN NoEvent ELSE events[Max(I)]
    BY <2>1 DEF Latest
  <2>3. I # {} /\ Latest(events, type) = events[Max(I)]
    BY <1>2, <2>2
  <2>4. Max(I) \in I
    BY <1>1, <2>1, <2>3
  <2> QED BY <2>1, <2>3, <2>4
<1>3. ASSUME LaterBreak(events, initiation, type) # NoEvent
      PROVE  \E i \in DOMAIN events : /\ events[i] = LaterBreak(events, initiation, type)
                                      /\ events[i].type = type
                                      /\ events[i].level.confirmedAt =< initiation.at
  <2>1. PICK I : I = {i \in DOMAIN events : /\ events[i].type = type /\ events[i].at > initiation.at
                                            /\ events[i].level.confirmedAt =< initiation.at}
    OBVIOUS
  <2>2. LaterBreak(events, initiation, type) = IF I = {} THEN NoEvent ELSE events[Min(I)]
    BY <2>1 DEF LaterBreak
  <2>3. I # {} /\ LaterBreak(events, initiation, type) = events[Min(I)]
    BY <1>3, <2>2
  <2>4. Min(I) \in I
    BY <1>1, <2>1, <2>3
  <2> QED BY <2>1, <2>3, <2>4
<1> QED BY <1>2, <1>3

\* What the type of an event says of its level and of its candle.
LEMMA EventMeans ==
  ASSUME NEW l, NEW c, NEW up \in BOOLEAN, l.side \in {"BUY_SIDE", "SELL_SIDE"}, EventType(l, c) # NoEvent
  PROVE  /\ EventType(l, c) = BreakOf(up) => l.side = Side(up) /\ Past(c.close, l.price, up)
         /\ EventType(l, c) = SweepOf(up) => /\ l.side = Side(up) /\ Past(Extreme(c, up), l.price, up)
                                             /\ ~Past(c.close, l.price, up)
<1>1. CASE l.side = "BUY_SIDE"
  <2>1. EventType(l, c) = IF c.close > l.price THEN "CLOSE_BREAK_ABOVE"
                          ELSE IF c.high > l.price THEN "SWEEP_ABOVE_RECLAIM" ELSE NoEvent
    BY <1>1 DEF EventType
  <2>2. CASE up
    BY <1>1, <2>1, <2>2 DEF BreakOf, SweepOf, Side, Past, Extreme
  <2>3. CASE ~up
    BY <1>1, <2>1, <2>3 DEF BreakOf, SweepOf
  <2> QED BY <2>2, <2>3
<1>2. CASE l.side = "SELL_SIDE"
  <2>1. EventType(l, c) = IF c.close < l.price THEN "CLOSE_BREAK_BELOW"
                          ELSE IF c.low < l.price THEN "SWEEP_BELOW_RECLAIM" ELSE NoEvent
    BY <1>2 DEF EventType
  <2>2. CASE up
    BY <1>2, <2>1, <2>2 DEF BreakOf, SweepOf
  <2>3. CASE ~up
    BY <1>2, <2>1, <2>3 DEF BreakOf, SweepOf, Side, Past, Extreme
  <2> QED BY <2>2, <2>3
<1> QED BY <1>1, <1>2

\* A candle sweeps a swing that stood, known before it.
Sweeps(w, up, n) ==
  \E i \in DOMAIN w : /\ Swings(w, up, i, n - 1, n)
                      /\ Past(Extreme(w[n], up), Extreme(w[i], up), up)
                      /\ ~Past(w[n].close, Extreme(w[i], up), up)

\* A candle closes through a swing that stood, known at candle m.
Breaks(w, up, n, m) ==
  \E i \in DOMAIN w : Swings(w, up, i, m, n) /\ Past(w[n].close, Extreme(w[i], up), up)

\* Two sides are one: the side tells the direction.
LEMMA SideTells == ASSUME NEW a \in BOOLEAN, NEW b \in BOOLEAN, Side(a) = Side(b) PROVE a = b
<1>1. CASE a = TRUE
  <2>1. b = TRUE \/ b = FALSE
    OBVIOUS
  <2>2. b = FALSE => FALSE
    BY <1>1, SidesDiffer
  <2> QED BY <1>1, <2>1, <2>2
<1>2. CASE a = FALSE
  <2>1. b = TRUE \/ b = FALSE
    OBVIOUS
  <2>2. b = TRUE => FALSE
    BY <1>2, SidesDiffer
  <2> QED BY <1>2, <2>1, <2>2
<1>3. a = TRUE \/ a = FALSE
  OBVIOUS
<1> QED BY <1>1, <1>2, <1>3

\* What happened to a level, from the candles.
LEMMA SweepHappens ==
  ASSUME NEW w \in Seq(AnyCandle), NEW e \in AnyEvent(w), NEW up \in BOOLEAN, e.type = SweepOf(up),
         Happened(w, e, Len(w))
  PROVE  \E n \in DOMAIN w : e.at = w[n].at /\ Sweeps(w, up, n)
<1>1. PICK n \in 1..Len(w) : /\ e.at = w[n].at /\ e.type = EventType(e.level, w[n]) /\ e.type # NoEvent
                             /\ Standing(w, e.level, n - 1, n)
  BY DEF Happened
<1>2. PICK x \in BOOLEAN, p \in DOMAIN w :
        /\ Swings(w, x, p, n - 1, n)
        /\ e.level.side = Side(x) /\ e.level.price = Extreme(w[p], x)
  BY <1>1 DEF Standing
<1>3. e.level.side \in {"BUY_SIDE", "SELL_SIDE"}
  BY DEF AnyEvent, AnyLevel
<1>4. /\ e.level.side = Side(up) /\ Past(Extreme(w[n], up), e.level.price, up)
      /\ ~Past(w[n].close, e.level.price, up)
  BY <1>1, <1>3, EventMeans
<1>5. x = up
  BY <1>2, <1>4, SideTells
<1>6. n \in DOMAIN w
  OBVIOUS
<1>7. Sweeps(w, up, n)
  BY <1>2, <1>4, <1>5 DEF Sweeps
<1> QED BY <1>1, <1>6, <1>7

LEMMA BreakHappens ==
  ASSUME NEW w \in Seq(AnyCandle), NEW b \in Int, Dated(w, b),
         NEW e \in AnyEvent(w), NEW up \in BOOLEAN, e.type = BreakOf(up),
         Happened(w, e, Len(w)), NEW m \in DOMAIN w, e.level.confirmedAt =< w[m].at
  PROVE  \E n \in DOMAIN w : e.at = w[n].at /\ Breaks(w, up, n, m)
<1>1. PICK n \in 1..Len(w) : /\ e.at = w[n].at /\ e.type = EventType(e.level, w[n]) /\ e.type # NoEvent
                             /\ Standing(w, e.level, n - 1, n)
  BY DEF Happened
<1>2. PICK x \in BOOLEAN, p \in DOMAIN w :
        /\ Swings(w, x, p, n - 1, n)
        /\ e.level.side = Side(x) /\ e.level.price = Extreme(w[p], x)
        /\ e.level.confirmedAt = w[p + Structure.right].at
  BY <1>1 DEF Standing
<1>3. e.level.side \in {"BUY_SIDE", "SELL_SIDE"}
  BY DEF AnyEvent, AnyLevel
<1>4. e.level.side = Side(up) /\ Past(w[n].close, e.level.price, up)
  BY <1>1, <1>3, EventMeans
<1>5. x = up
  BY <1>2, <1>4, SideTells
<1>6. n \in DOMAIN w
  OBVIOUS
<1>7. p + Structure.right =< m
  <2>1. PICK right \in Nat : right = Structure.right
    BY StructureAssumption
  <2>2. p + right =< n - 1
    BY <1>2, <2>1 DEF Swings
  <2>3. p + right \in DOMAIN w
    BY <2>2
  <2>4. w[p + right].at =< w[m].at
    BY <1>2, <2>1
  <2> QED BY <2>1, <2>3, <2>4, DatedOrder
<1>8. Swings(w, up, p, m, n)
  BY <1>2, <1>5, <1>7 DEF Swings
<1>9. Breaks(w, up, n, m)
  BY <1>2, <1>4, <1>5, <1>8 DEF Breaks
<1> QED BY <1>1, <1>6, <1>9

\* A setup of a window: the candles that it names are of the window, and a
\* sequence swept and broke swings that were known and had not been traded through.
Foreseen(w, s, up) ==
  \E begun, entered \in DOMAIN w :
    /\ s.initiation.at = w[begun].at /\ s.confirmedAt = w[entered].at
    /\ s.family # "BREAKOUT_RETEST" => Sweeps(w, ~up, begun) /\ Breaks(w, up, entered, begun)

\* The candles that a decision is taken on.
Framed(candles, w, b) ==
  /\ candles \in Seq(AnyCandle) /\ b \in Int /\ Dated(candles, b)
  /\ Structure.lookback =< Len(candles) /\ w = Window(candles, Structure.lookback) /\ Sound(w)

LEMMA FramedEvents ==
  ASSUME NEW candles, NEW w, NEW b, Framed(candles, w, b),
         NEW events, events = MarketStructure(candles).events
  PROVE  /\ events \in Seq(AnyEvent(w))
         /\ \A k \in DOMAIN events : events[k] \in AnyEvent(w) /\ Happened(w, events[k], Len(w))
<1>1. events \in Seq(AnyEvent(w))
  BY MarketStructureType DEF Framed, AnyStructure
<1>2. Current(w, MarketStructure(candles), Len(w))
  BY StructureIsCurrent DEF Framed
<1>3. \A k \in DOMAIN events : Happened(w, events[k], Len(w))
  BY <1>2 DEF Current
<1>4. \A k \in DOMAIN events : events[k] \in AnyEvent(w)
  BY <1>1
<1> QED BY <1>1, <1>3, <1>4

LEMMA FramedWindow ==
  ASSUME NEW candles, NEW w, NEW b, Framed(candles, w, b)
  PROVE  /\ w \in Seq(AnyCandle) /\ \E a \in Int : Dated(w, a)
         /\ \A j \in DOMAIN w : CandleAt(candles, w[j].at) = w[j]
         /\ \A j \in DOMAIN w : \A i \in DOMAIN candles :
              candles[i].at > w[j].at => \E k \in DOMAIN w : w[k].at = candles[i].at
<1>1. /\ candles \in Seq(AnyCandle) /\ b \in Int /\ Dated(candles, b)
      /\ Structure.lookback =< Len(candles) /\ w = Window(candles, Structure.lookback)
      /\ w \in Seq(AnyCandle) /\ Structure.lookback \in Nat
  BY StructureAssumption DEF Framed, Sound
<1>2. PICK n \in Nat : n = Structure.lookback
  BY <1>1
<1>3. /\ candles \in Seq(AnyCandle) /\ b \in Int /\ Dated(candles, b)
      /\ n =< Len(candles) /\ w = Window(candles, n)
  BY <1>1, <1>2
<1>4. \E a \in Int : Dated(w, a)
  BY <1>3, WindowDated
<1>5. \A j \in DOMAIN w : CandleAt(candles, w[j].at) = w[j]
  BY <1>3, WindowDated
<1>6. \A j \in DOMAIN w : \A i \in DOMAIN candles :
        candles[i].at > w[j].at => \E k \in DOMAIN w : w[k].at = candles[i].at
  BY <1>3, WindowDated
<1> QED BY <1>1, <1>4, <1>5, <1>6

LEMMA SequencesForesee ==
  ASSUME NEW candles, NEW w, NEW b, Framed(candles, w, b),
         NEW family, NEW up \in BOOLEAN, NEW direction, direction = (IF up THEN "UP" ELSE "DOWN"),
         NEW s \in SequenceCandidate(family, direction, MarketStructure(candles).events),
         s.confirmedAt # NoEvent
  PROVE  s.direction = direction /\ Foreseen(w, s, up)
<1>1. PICK events : events = MarketStructure(candles).events
  OBVIOUS
<1>2. /\ events \in Seq(AnyEvent(w))
      /\ \A k \in DOMAIN events : events[k] \in AnyEvent(w) /\ Happened(w, events[k], Len(w))
  BY <1>1, FramedEvents
<1>3. PICK initiation : initiation = Latest(events, SweepOf(~up))
  OBVIOUS
<1>4. PICK break : break = LaterBreak(events, initiation, BreakOf(up))
  OBVIOUS
<1>5. /\ initiation # NoEvent
      /\ s = Candidate(family, direction, initiation, IF break = NoEvent THEN NoEvent ELSE break.at)
  <2>1. /\ (IF direction = "UP" THEN "SWEEP_BELOW_RECLAIM" ELSE "SWEEP_ABOVE_RECLAIM") = SweepOf(~up)
        /\ (IF direction = "UP" THEN "CLOSE_BREAK_ABOVE" ELSE "CLOSE_BREAK_BELOW") = BreakOf(up)
    BY DEF SweepOf, BreakOf
  <2> QED BY <1>1, <1>3, <1>4, <2>1 DEF SequenceCandidate
<1>6. s.direction = direction /\ s.initiation = initiation /\ break # NoEvent /\ s.confirmedAt = break.at
  BY <1>5 DEF Candidate
<1>7. PICK k \in DOMAIN events : events[k] = initiation /\ events[k].type = SweepOf(~up)
  BY <1>2, <1>3, <1>5, EventsAreOfType
<1>8. PICK m \in DOMAIN events : /\ events[m] = break /\ events[m].type = BreakOf(up)
                                 /\ events[m].level.confirmedAt =< initiation.at
  BY <1>2, <1>4, <1>6, EventsAreOfType
<1>9. w \in Seq(AnyCandle) /\ \E a \in Int : Dated(w, a)
  BY FramedWindow
<1>10. PICK begun \in DOMAIN w : initiation.at = w[begun].at /\ Sweeps(w, ~up, begun)
  <2>1. initiation \in AnyEvent(w) /\ initiation.type = SweepOf(~up) /\ Happened(w, initiation, Len(w))
    BY <1>2, <1>7
  <2>2. (~up) \in BOOLEAN
    OBVIOUS
  <2> QED BY <1>9, <2>1, <2>2, SweepHappens
<1>11. PICK entered \in DOMAIN w : break.at = w[entered].at /\ Breaks(w, up, entered, begun)
  <2>1. /\ break \in AnyEvent(w) /\ break.type = BreakOf(up) /\ Happened(w, break, Len(w))
        /\ break.level.confirmedAt =< w[begun].at
    BY <1>2, <1>8, <1>10
  <2> QED BY <1>9, <2>1, BreakHappens
<1>12. s.initiation.at = w[begun].at /\ s.confirmedAt = w[entered].at
  BY <1>6, <1>10, <1>11
<1>13. Foreseen(w, s, up)
  BY <1>10, <1>11, <1>12 DEF Foreseen
<1> QED BY <1>6, <1>13

LEMMA BreakoutsForesee ==
  ASSUME NEW candles, NEW w, NEW b, Framed(candles, w, b),
         NEW up \in BOOLEAN, NEW direction, direction = (IF up THEN "UP" ELSE "DOWN"),
         NEW s \in BreakoutCandidate(direction, MarketStructure(candles).events, candles),
         s.confirmedAt # NoEvent
  PROVE  s.direction = direction /\ Foreseen(w, s, up)
<1>1. PICK events : events = MarketStructure(candles).events
  OBVIOUS
<1>2. /\ events \in Seq(AnyEvent(w))
      /\ \A k \in DOMAIN events : events[k] \in AnyEvent(w) /\ Happened(w, events[k], Len(w))
  BY <1>1, FramedEvents
<1>3. PICK initiation : initiation = Latest(events, BreakOf(up))
  OBVIOUS
<1>4. PICK retest : retest = {i \in DOMAIN candles : /\ candles[i].at > initiation.at
                                                     /\ Retests(candles[i], initiation.level.price, direction)}
  OBVIOUS
<1>5. /\ initiation # NoEvent
      /\ s = Candidate("BREAKOUT_RETEST", direction, initiation,
                       IF retest = {} THEN NoEvent ELSE candles[Min(retest)].at)
  <2>1. (IF direction = "UP" THEN "CLOSE_BREAK_ABOVE" ELSE "CLOSE_BREAK_BELOW") = BreakOf(up)
    BY DEF BreakOf
  <2> QED BY <1>1, <1>3, <1>4, <2>1 DEF BreakoutCandidate
<1>6. /\ s.direction = direction /\ s.initiation = initiation /\ s.family = "BREAKOUT_RETEST"
      /\ retest # {} /\ s.confirmedAt = candles[Min(retest)].at
  BY <1>5 DEF Candidate
<1>7. PICK k \in DOMAIN events : events[k] = initiation
  BY <1>2, <1>3, <1>5, EventsAreOfType
<1>8. PICK begun \in DOMAIN w : initiation.at = w[begun].at
  <2>1. initiation \in AnyEvent(w)
    BY <1>2, <1>7
  <2> QED BY <2>1 DEF AnyEvent, Times
<1>9. Min(retest) \in retest
  <2>1. candles \in Seq(AnyCandle)
    BY DEF Framed
  <2>2. IsFiniteSet(retest) /\ retest \subseteq Nat
    BY <1>4, <2>1, FS_Interval, FS_Subset
  <2> QED BY <1>6, <2>2, Extremes
<1>10. PICK m \in DOMAIN candles : m = Min(retest) /\ candles[m].at > w[begun].at
  BY <1>4, <1>8, <1>9
<1>11. PICK entered \in DOMAIN w : w[entered].at = candles[m].at
  BY <1>10, FramedWindow
<1>12. s.initiation.at = w[begun].at /\ s.confirmedAt = w[entered].at
  BY <1>6, <1>8, <1>10, <1>11
<1>13. Foreseen(w, s, up)
  BY <1>6, <1>12 DEF Foreseen
<1> QED BY <1>6, <1>13

LEMMA SetupsForesee ==
  ASSUME NEW candles, NEW w, NEW b, Framed(candles, w, b),
         NEW context, NEW s \in Confirmed(Setups(context, candles))
  PROVE  \E up \in BOOLEAN : s.direction = (IF up THEN "UP" ELSE "DOWN") /\ Foreseen(w, s, up)
<1>1. PICK trend : trend = Direction(context)
  OBVIOUS
<1>2. PICK events : events = MarketStructure(candles).events
  OBVIOUS
<1>3. s.confirmedAt # NoEvent /\ s \in Setups(context, candles)
  BY DEF Confirmed
<1>4. {trend} \ {"NEUTRAL"} \subseteq {"UP", "DOWN"}
  BY <1>1 DEF Direction
<1>5. \/ \E family : \E direction \in {"UP", "DOWN"} : s \in SequenceCandidate(family, direction, events)
      \/ \E direction \in {"UP", "DOWN"} : s \in BreakoutCandidate(direction, events, candles)
  <2>1. \/ s \in UNION {SequenceCandidate("TREND_PULLBACK_CONTINUATION", d, events) : d \in {trend} \ {"NEUTRAL"}}
        \/ s \in UNION {BreakoutCandidate(d, events, candles) :
                        d \in {"UP", "DOWN"} \ (IF trend = "UP" THEN {"DOWN"}
                                                ELSE IF trend = "DOWN" THEN {"UP"} ELSE {})}
        \/ s \in UNION {SequenceCandidate("LIQUIDITY_SWEEP_REVERSAL", d, events) : d \in {"UP", "DOWN"}}
    BY <1>1, <1>2, <1>3 DEF Setups
  <2> QED BY <1>4, <2>1
<1>6. PICK direction \in {"UP", "DOWN"} :
        (\E family : s \in SequenceCandidate(family, direction, events)) \/ s \in BreakoutCandidate(direction, events, candles)
  BY <1>5
<1>7. PICK up \in BOOLEAN : direction = (IF up THEN "UP" ELSE "DOWN")
  <2>1. CASE direction = "UP"
    BY <2>1
  <2>2. CASE direction = "DOWN"
    BY <2>2
  <2> QED BY <2>1, <2>2
<1>8. CASE \E family : s \in SequenceCandidate(family, direction, events)
  BY <1>2, <1>3, <1>7, <1>8, SequencesForesee
<1>9. CASE s \in BreakoutCandidate(direction, events, candles)
  BY <1>2, <1>3, <1>7, <1>9, BreakoutsForesee
<1> QED BY <1>6, <1>8, <1>9
-----------------------------------------------------------------------------
(* What a decision aims at.                                                    *)

\* The prices of the swings that nothing traded through.
Untouched(w, up) == {Extreme(w[p], up) : p \in {q \in DOMAIN w : Swings(w, up, q, Len(w), Len(w) + 1)}}

LEMMA TargetsAreSwings ==
  ASSUME NEW candles, NEW w, NEW b, Framed(candles, w, b),
         NEW s, NEW up \in BOOLEAN, s.direction = (IF up THEN "UP" ELSE "DOWN")
  PROVE  Targets(s, candles) = {t \in Untouched(w, up) : Beyond(t, Entry(s, candles), s.direction)}
<1>1. PICK levels, entry : levels = MarketStructure(candles).levels /\ entry = Entry(s, candles)
  OBVIOUS
<1>2. Current(w, MarketStructure(candles), Len(w))
  BY StructureIsCurrent DEF Framed
<1>3. \A k \in DOMAIN levels : levels[k].status = "ACTIVE" => Standing(w, levels[k], Len(w), Len(w) + 1)
  BY <1>1, <1>2 DEF Current
<1>4. \A p \in DOMAIN w : Swings(w, up, p, Len(w), Len(w) + 1) =>
        \E k \in DOMAIN levels : /\ levels[k].status = "ACTIVE"
                                 /\ levels[k].side = Side(up) /\ levels[k].price = Extreme(w[p], up)
  BY <1>1, <1>2 DEF Current, Marked
<1>5. (IF s.direction = "UP" THEN "BUY_SIDE" ELSE "SELL_SIDE") = Side(up)
  BY DEF Side
<1>6. Targets(s, candles) =
        {l.price : l \in {k \in Range(levels) : /\ k.status = "ACTIVE" /\ k.side = Side(up)
                                                /\ Beyond(k.price, entry, s.direction)}}
  BY <1>1, <1>5 DEF Targets
<1>7. ASSUME NEW t \in Targets(s, candles)
      PROVE  t \in Untouched(w, up) /\ Beyond(t, entry, s.direction)
  <2>1. PICK l \in Range(levels) : /\ l.status = "ACTIVE" /\ l.side = Side(up)
                                   /\ Beyond(l.price, entry, s.direction) /\ t = l.price
    BY <1>6
  <2>2. PICK k \in DOMAIN levels : l = levels[k]
    BY <2>1 DEF Range
  <2>3. Standing(w, l, Len(w), Len(w) + 1)
    BY <1>3, <2>1, <2>2
  <2>4. PICK x \in BOOLEAN, p \in DOMAIN w :
          /\ Swings(w, x, p, Len(w), Len(w) + 1)
          /\ l.side = Side(x) /\ l.price = Extreme(w[p], x)
    BY <2>3 DEF Standing
  <2>5. x = up
    BY <2>1, <2>4, SideTells
  <2>6. t \in Untouched(w, up)
    BY <2>1, <2>4, <2>5 DEF Untouched
  <2> QED BY <2>1, <2>6
<1>8. ASSUME NEW t \in Untouched(w, up), Beyond(t, entry, s.direction)
      PROVE  t \in Targets(s, candles)
  <2>1. PICK p \in DOMAIN w : Swings(w, up, p, Len(w), Len(w) + 1) /\ t = Extreme(w[p], up)
    BY DEF Untouched
  <2>2. PICK k \in DOMAIN levels : /\ levels[k].status = "ACTIVE"
                                   /\ levels[k].side = Side(up) /\ levels[k].price = Extreme(w[p], up)
    BY <1>4, <2>1
  <2>3. levels[k] \in Range(levels) /\ levels[k].price = t
    BY <2>1, <2>2 DEF Range
  <2> QED BY <1>6, <1>8, <2>2, <2>3
<1> QED BY <1>1, <1>7, <1>8

\* The decision's target is the nearest of what nothing traded through, beyond
\* the entry; the entry, and a sequence's stop, are those of the window's candles.
Aims(w, d, up) ==
  /\ d.direction = (IF up THEN "UP" ELSE "DOWN")
  /\ d.target \in Untouched(w, up) /\ Beyond(d.target, d.entry, d.direction)
  /\ \A t \in Untouched(w, up) : Beyond(t, d.entry, d.direction) => ~Beyond(d.target, t, d.direction)
  /\ \E begun, entered \in DOMAIN w :
       /\ d.setup.initiation.at = w[begun].at /\ d.setup.confirmedAt = w[entered].at
       /\ d.entry = w[entered].close
       /\ d.setup.family # "BREAKOUT_RETEST" => /\ Sweeps(w, ~up, begun) /\ Breaks(w, up, entered, begun)
                                                /\ d.stop = Extreme(w[begun], ~up)

LEMMA DecisionsAim ==
  ASSUME NEW candles, NEW w, NEW b, Framed(candles, w, b),
         NEW at, NEW context, NEW account, NEW requested, NEW groups,
         NEW d, d = Decision(at, Setups(context, candles), candles, account, requested, groups),
         d.status = "TRADE_INTENT_CREATED"
  PROVE  d.at = at /\ \E up \in BOOLEAN : Aims(w, d, up)
<1>1. PICK s : s = CHOOSE x \in Confirmed(Setups(context, candles)) : TRUE
  OBVIOUS
<1>2. PICK entry : entry = Entry(s, candles)
  OBVIOUS
<1>3. PICK stop : stop = Invalidation(s, candles)
  OBVIOUS
<1>5. /\ Confirmed(Setups(context, candles)) # {} /\ Qualified(s, candles)
      /\ d.at = at /\ d.setup = s /\ d.direction = s.direction
      /\ d.entry = entry /\ d.stop = stop /\ d.target = Target(s, candles)
  BY <1>1, <1>2, <1>3 DEF Decision
<1>6. s \in Confirmed(Setups(context, candles))
  BY <1>1, <1>5
<1>7. PICK up \in BOOLEAN : s.direction = (IF up THEN "UP" ELSE "DOWN") /\ Foreseen(w, s, up)
  BY <1>6, SetupsForesee
<1>8. PICK begun \in DOMAIN w, entered \in DOMAIN w :
        /\ s.initiation.at = w[begun].at /\ s.confirmedAt = w[entered].at
        /\ s.family # "BREAKOUT_RETEST" => Sweeps(w, ~up, begun) /\ Breaks(w, up, entered, begun)
  BY <1>7 DEF Foreseen
<1>9. /\ w \in Seq(AnyCandle)
      /\ CandleAt(candles, w[begun].at) = w[begun] /\ CandleAt(candles, w[entered].at) = w[entered]
  BY FramedWindow
<1>10. entry = w[entered].close
  BY <1>2, <1>8, <1>9 DEF Entry
<1>11. s.family # "BREAKOUT_RETEST" => stop = Extreme(w[begun], ~up)
  <2>1. s.family # "BREAKOUT_RETEST" => stop = IF s.direction = "UP" THEN w[begun].low ELSE w[begun].high
    BY <1>3, <1>8, <1>9 DEF Invalidation
  <2>2. (IF s.direction = "UP" THEN w[begun].low ELSE w[begun].high) = Extreme(w[begun], ~up)
    BY <1>7 DEF Extreme
  <2> QED BY <2>1, <2>2
<1>12. PICK targets : targets = Targets(s, candles)
  OBVIOUS
<1>13. targets = {t \in Untouched(w, up) : Beyond(t, entry, s.direction)}
  BY <1>2, <1>7, <1>12, TargetsAreSwings
<1>14. targets \subseteq Nat /\ IsFiniteSet(targets)
  BY <1>12, TargetsType DEF Framed
<1>15. targets # {} /\ d.target = IF s.direction = "UP" THEN Min(targets) ELSE Max(targets)
  BY <1>5, <1>12 DEF Qualified, Target
<1>16. /\ Max(targets) \in targets /\ \A k \in targets : k =< Max(targets)
       /\ Min(targets) \in targets /\ \A k \in targets : Min(targets) =< k
  BY <1>14, <1>15, Extremes
<1>17. d.target \in targets /\ \A t \in targets : ~Beyond(d.target, t, d.direction)
  <2>1. CASE s.direction = "UP"
    <3>1. PICK m \in Nat : m = Min(targets)
      BY <1>14, <1>16
    <3>2. d.target = m /\ m \in targets /\ \A t \in targets : m =< t
      BY <1>15, <1>16, <2>1, <3>1
    <3>3. \A t \in targets : ~(m > t)
      BY <1>14, <3>2
    <3> QED BY <1>5, <2>1, <3>2, <3>3 DEF Beyond
  <2>2. CASE s.direction # "UP"
    <3>1. PICK m \in Nat : m = Max(targets)
      BY <1>14, <1>16
    <3>2. d.target = m /\ m \in targets /\ \A t \in targets : t =< m
      BY <1>15, <1>16, <2>2, <3>1
    <3>3. \A t \in targets : ~(m < t)
      BY <1>14, <3>2
    <3> QED BY <1>5, <2>2, <3>2, <3>3 DEF Beyond
  <2> QED BY <2>1, <2>2
<1>18. /\ d.target \in Untouched(w, up) /\ Beyond(d.target, d.entry, d.direction)
       /\ \A t \in Untouched(w, up) : Beyond(t, d.entry, d.direction) => ~Beyond(d.target, t, d.direction)
  BY <1>5, <1>13, <1>17
<1>19. /\ d.setup.initiation.at = w[begun].at /\ d.setup.confirmedAt = w[entered].at
       /\ d.entry = w[entered].close
       /\ d.setup.family # "BREAKOUT_RETEST" => /\ Sweeps(w, ~up, begun) /\ Breaks(w, up, entered, begun)
                                                /\ d.stop = Extreme(w[begun], ~up)
  BY <1>5, <1>8, <1>10, <1>11
<1>20. d.direction = (IF up THEN "UP" ELSE "DOWN")
  BY <1>5, <1>7
<1>21. Aims(w, d, up)
  BY <1>18, <1>19, <1>20 DEF Aims
<1> QED BY <1>5, <1>21

\* What TargetsAreUntouched says of a decision, at the candles that it names.
Reads(w, d, begun, entered) ==
  LET n == Len(w)
      up == d.direction = "UP"
      targets == IF up THEN {w[i].high : i \in Highs(w, n, n + 1)} ELSE {w[i].low : i \in Lows(w, n, n + 1)}
      beyond == {t \in targets : Beyond(t, d.entry, d.direction)}
  IN  /\ d.target \in beyond
      /\ \A t \in beyond : ~Beyond(d.target, t, d.direction)
      /\ d.entry = w[entered].close
      /\ d.setup.family # "BREAKOUT_RETEST" =>
           IF up
           THEN /\ \E i \in Lows(w, begun - 1, begun) : w[begun].low < w[i].low /\ w[begun].close >= w[i].low
                /\ \E i \in Highs(w, begun, entered) : d.entry > w[i].high
                /\ d.stop = w[begun].low
           ELSE /\ \E i \in Highs(w, begun - 1, begun) : w[begun].high > w[i].high /\ w[begun].close =< w[i].high
                /\ \E i \in Lows(w, begun, entered) : d.entry < w[i].low
                /\ d.stop = w[begun].high

LEMMA UntouchedIs ==
  ASSUME NEW w \in Seq(AnyCandle)
  PROVE  /\ Untouched(w, TRUE) = {w[i].high : i \in Highs(w, Len(w), Len(w) + 1)}
         /\ Untouched(w, FALSE) = {w[i].low : i \in Lows(w, Len(w), Len(w) + 1)}
<1>1. PICK n \in Nat : n = Len(w)
  OBVIOUS
<1>2. \A p : /\ p \in Highs(w, n, n + 1) <=> Swings(w, TRUE, p, n, n + 1)
             /\ p \in Lows(w, n, n + 1) <=> Swings(w, FALSE, p, n, n + 1)
  <2>1. PICK m \in Nat : m = n + 1
    OBVIOUS
  <2>2. n =< Len(w) /\ m =< Len(w) + 1
    BY <1>1, <2>1
  <2> QED BY <2>1, <2>2, SwingsAre
<1>3. Highs(w, n, n + 1) = {p \in DOMAIN w : Swings(w, TRUE, p, n, n + 1)}
      /\ Lows(w, n, n + 1) = {p \in DOMAIN w : Swings(w, FALSE, p, n, n + 1)}
  BY <1>2 DEF Swings
<1>4. Untouched(w, TRUE) = {w[i].high : i \in {p \in DOMAIN w : Swings(w, TRUE, p, n, n + 1)}}
  BY <1>1 DEF Untouched, Extreme
<1>5. Untouched(w, FALSE) = {w[i].low : i \in {p \in DOMAIN w : Swings(w, FALSE, p, n, n + 1)}}
  BY <1>1 DEF Untouched, Extreme
<1> QED BY <1>1, <1>3, <1>4, <1>5

LEMMA SweepsAre ==
  ASSUME NEW w \in Seq(AnyCandle), NEW n \in DOMAIN w
  PROVE  /\ Sweeps(w, FALSE, n) => \E i \in Lows(w, n - 1, n) : w[n].low < w[i].low /\ w[n].close >= w[i].low
         /\ Sweeps(w, TRUE, n) => \E i \in Highs(w, n - 1, n) : w[n].high > w[i].high /\ w[n].close =< w[i].high
<1>1. PICK m \in Nat : m = n - 1 /\ m =< Len(w) /\ n \in Nat /\ n =< Len(w) + 1
  OBVIOUS
<1>2. \A p : /\ p \in Highs(w, m, n) <=> Swings(w, TRUE, p, m, n)
             /\ p \in Lows(w, m, n) <=> Swings(w, FALSE, p, m, n)
  BY <1>1, SwingsAre
<1>3. \A i \in DOMAIN w : /\ w[i].low \in Nat /\ w[i].high \in Nat /\ w[i].close \in Nat
  <2>1. \A i \in DOMAIN w : w[i] \in AnyCandle
    OBVIOUS
  <2> QED BY <2>1 DEF AnyCandle
<1>4. ASSUME Sweeps(w, FALSE, n)
      PROVE  \E i \in Lows(w, m, n) : w[n].low < w[i].low /\ w[n].close >= w[i].low
  <2>1. PICK i \in DOMAIN w : /\ Swings(w, FALSE, i, m, n)
                              /\ Past(Extreme(w[n], FALSE), Extreme(w[i], FALSE), FALSE)
                              /\ ~Past(w[n].close, Extreme(w[i], FALSE), FALSE)
    BY <1>1, <1>4 DEF Sweeps
  <2>2. w[n].low < w[i].low /\ ~(w[n].close < w[i].low)
    BY <2>1 DEF Past, Extreme
  <2>3. w[n].close >= w[i].low
    BY <1>3, <2>2
  <2> QED BY <1>2, <2>1, <2>2, <2>3
<1>5. ASSUME Sweeps(w, TRUE, n)
      PROVE  \E i \in Highs(w, m, n) : w[n].high > w[i].high /\ w[n].close =< w[i].high
  <2>1. PICK i \in DOMAIN w : /\ Swings(w, TRUE, i, m, n)
                              /\ Past(Extreme(w[n], TRUE), Extreme(w[i], TRUE), TRUE)
                              /\ ~Past(w[n].close, Extreme(w[i], TRUE), TRUE)
    BY <1>1, <1>5 DEF Sweeps
  <2>2. w[n].high > w[i].high /\ ~(w[n].close > w[i].high)
    BY <2>1 DEF Past, Extreme
  <2>3. w[n].close =< w[i].high
    BY <1>3, <2>2
  <2> QED BY <1>2, <2>1, <2>2, <2>3
<1> QED BY <1>1, <1>4, <1>5

LEMMA BreaksAre ==
  ASSUME NEW w \in Seq(AnyCandle), NEW n \in DOMAIN w, NEW m \in DOMAIN w
  PROVE  /\ Breaks(w, TRUE, n, m) => \E i \in Highs(w, m, n) : w[n].close > w[i].high
         /\ Breaks(w, FALSE, n, m) => \E i \in Lows(w, m, n) : w[n].close < w[i].low
<1>1. m \in Nat /\ n \in Nat /\ m =< Len(w) /\ n =< Len(w) + 1
  OBVIOUS
<1>2. \A p : /\ p \in Highs(w, m, n) <=> Swings(w, TRUE, p, m, n)
             /\ p \in Lows(w, m, n) <=> Swings(w, FALSE, p, m, n)
  BY <1>1, SwingsAre
<1>3. \A i : /\ Past(w[n].close, Extreme(w[i], TRUE), TRUE) <=> w[n].close > w[i].high
             /\ Past(w[n].close, Extreme(w[i], FALSE), FALSE) <=> w[n].close < w[i].low
  BY DEF Past, Extreme
<1> QED BY <1>2, <1>3 DEF Breaks

LEMMA AimsRead ==
  ASSUME NEW w \in Seq(AnyCandle), NEW a \in Int, Dated(w, a), NEW d, NEW up \in BOOLEAN, Aims(w, d, up)
  PROVE  Reads(w, d, CHOOSE i \in DOMAIN w : w[i].at = d.setup.initiation.at,
                     CHOOSE i \in DOMAIN w : w[i].at = d.setup.confirmedAt)
<1>1. PICK begun \in DOMAIN w, entered \in DOMAIN w :
        /\ d.setup.initiation.at = w[begun].at /\ d.setup.confirmedAt = w[entered].at
        /\ d.entry = w[entered].close
        /\ d.setup.family # "BREAKOUT_RETEST" => /\ Sweeps(w, ~up, begun) /\ Breaks(w, up, entered, begun)
                                                 /\ d.stop = Extreme(w[begun], ~up)
  BY DEF Aims
<1>2. /\ (CHOOSE i \in DOMAIN w : w[i].at = d.setup.initiation.at) = begun
      /\ (CHOOSE i \in DOMAIN w : w[i].at = d.setup.confirmedAt) = entered
  <2>1. /\ (CHOOSE i \in DOMAIN w : w[i].at = w[begun].at) = begun
        /\ (CHOOSE i \in DOMAIN w : w[i].at = w[entered].at) = entered
    BY DatedOrder
  <2> QED BY <1>1, <2>1
<1>3. /\ d.target \in Untouched(w, up) /\ Beyond(d.target, d.entry, d.direction)
      /\ \A t \in Untouched(w, up) : Beyond(t, d.entry, d.direction) => ~Beyond(d.target, t, d.direction)
  BY DEF Aims
<1>4. Reads(w, d, begun, entered)
  <2>1. CASE up = TRUE
    <3>1. d.direction = "UP"
      BY <2>1 DEF Aims
    <3>2. Untouched(w, up) = {w[i].high : i \in Highs(w, Len(w), Len(w) + 1)}
      BY <2>1, UntouchedIs
    <3>3. ASSUME d.setup.family # "BREAKOUT_RETEST"
          PROVE  /\ \E i \in Lows(w, begun - 1, begun) : w[begun].low < w[i].low /\ w[begun].close >= w[i].low
                 /\ \E i \in Highs(w, begun, entered) : d.entry > w[i].high
                 /\ d.stop = w[begun].low
      <4>1. Sweeps(w, FALSE, begun) /\ Breaks(w, TRUE, entered, begun) /\ d.stop = Extreme(w[begun], FALSE)
        <5>1. (~up) = FALSE
          BY <2>1
        <5> QED BY <1>1, <2>1, <3>3, <5>1
      <4>2. d.stop = w[begun].low
        BY <4>1 DEF Extreme
      <4> QED BY <1>1, <4>1, <4>2, SweepsAre, BreaksAre
    <3> QED BY <1>1, <1>3, <3>1, <3>2, <3>3 DEF Reads
  <2>2. CASE up = FALSE
    <3>1. d.direction = "DOWN" /\ d.direction # "UP"
      BY <2>2 DEF Aims
    <3>2. Untouched(w, up) = {w[i].low : i \in Lows(w, Len(w), Len(w) + 1)}
      BY <2>2, UntouchedIs
    <3>3. ASSUME d.setup.family # "BREAKOUT_RETEST"
          PROVE  /\ \E i \in Highs(w, begun - 1, begun) : w[begun].high > w[i].high /\ w[begun].close =< w[i].high
                 /\ \E i \in Lows(w, begun, entered) : d.entry < w[i].low
                 /\ d.stop = w[begun].high
      <4>1. Sweeps(w, TRUE, begun) /\ Breaks(w, FALSE, entered, begun) /\ d.stop = Extreme(w[begun], TRUE)
        <5>1. (~up) = TRUE
          BY <2>2
        <5> QED BY <1>1, <2>2, <3>3, <5>1
      <4>2. d.stop = w[begun].high
        BY <4>1 DEF Extreme
      <4> QED BY <1>1, <4>1, <4>2, SweepsAre, BreaksAre
    <3> QED BY <1>1, <1>3, <3>1, <3>2, <3>3 DEF Reads
  <2>3. up = TRUE \/ up = FALSE
    OBVIOUS
  <2> QED BY <2>1, <2>2, <2>3
<1> QED BY <1>2, <1>4
-----------------------------------------------------------------------------
(* The inductive invariant: the chart is dated and sound, and an intent is of  *)
(* a candle of the chart; the one of the last candle aims at what the chart    *)
(* shows.                                                                      *)

Charted ==
  /\ Sound(chart) /\ Dated(chart, 0)
  /\ decision.status = "TRADE_INTENT_CREATED" => decision.at \in 1..Len(chart)

TargetsReadOff == Charted /\ TargetsAreUntouched

\* The last candle of a dated chart is that of its length.
LEMMA NowIsLength ==
  ASSUME NEW candles \in Seq(AnyCandle), Dated(candles, 0), Len(candles) > 0
  PROVE  Now(candles) = Len(candles)
<1>1. PICK n \in Nat : n = Len(candles)
  OBVIOUS
<1>2. n \in DOMAIN candles
  BY <1>1
<1>3. candles[n].at = 0 + n
  BY <1>2 DEF Dated
<1> QED BY <1>1, <1>3 DEF Now, Last

LEMMA SoundCandle ==
  ASSUME NEW shape \in ShapeOfCandle, NEW t \in Nat
  PROVE  /\ At(shape, t) \in AnyCandle /\ At(shape, t).at = t
         /\ At(shape, t).low =< At(shape, t).close /\ At(shape, t).close =< At(shape, t).high
<1>1. shape.low =< shape.close /\ shape.close =< shape.high
  BY DEF ShapeOfCandle
<1>2. At(shape, t).at = t /\ At(shape, t).low = shape.low /\ At(shape, t).high = shape.high /\ At(shape, t).close = shape.close
  BY DEF At
<1> QED BY <1>1, <1>2, CandleOfShape

LEMMA ReadOffAtFirst == ASSUME Init PROVE TargetsReadOff
<1>1. PICK c \in Charts : chart = [t \in DOMAIN c |-> At(c[t], t)]
  BY DEF Init
<1>2. c \in Seq(ShapeOfCandle)
  BY PlanAssumption
<1>3. DOMAIN c = 1..Len(c) /\ \A t \in 1..Len(c) : c[t] \in ShapeOfCandle
  BY <1>2
<1>4. DOMAIN chart = 1..Len(c) /\ \A t \in 1..Len(c) : chart[t] = At(c[t], t)
  BY <1>1, <1>3
<1>5. \A t \in 1..Len(c) : /\ chart[t].at = t
                           /\ chart[t].low =< chart[t].close /\ chart[t].close =< chart[t].high
  BY <1>3, <1>4, SoundCandle
<1>6. chart \in Seq(AnyCandle)
  BY BoundedAtFirst DEF Bounded
<1>7. Dated(chart, 0)
  BY <1>4, <1>5 DEF Dated
<1>8. Sound(chart)
  BY <1>4, <1>5, <1>6 DEF Sound
<1>9. decision.status # "TRADE_INTENT_CREATED"
  <2>1. decision = NoDecision
    BY DEF Init
  <2>2. NoDecision.status = "NO_DECISION"
    BY DEF NoDecision
  <2> QED BY <2>1, <2>2
<1> QED BY <1>7, <1>8, <1>9 DEF TargetsReadOff, Charted, TargetsAreUntouched, Decided

LEMMA NextCandleReads ==
  ASSUME TargetsReadOff, NEW shape \in Shapes, NextCandle(shape)
  PROVE  TargetsReadOff'
<1>1. PICK c : c = At(shape, Len(chart) + 1)
  OBVIOUS
<1>2. PICK more : more = Append(chart, c)
  OBVIOUS
<1>3. chart' = more /\ decision' = decision
  BY <1>1, <1>2 DEF NextCandle
<1>4. /\ chart \in Seq(AnyCandle) /\ Dated(chart, 0)
      /\ \A i \in DOMAIN chart : chart[i].low =< chart[i].close /\ chart[i].close =< chart[i].high
  BY DEF TargetsReadOff, Charted, Sound
<1>5. PICK n \in Nat : n = Len(chart)
  BY <1>4
<1>6. c \in AnyCandle /\ c.at = n + 1 /\ c.low =< c.close /\ c.close =< c.high
  BY <1>1, <1>5, PlanAssumption, SoundCandle
<1>7. /\ more \in Seq(AnyCandle) /\ Len(more) = n + 1 /\ DOMAIN more = 1..(n + 1)
      /\ \A i \in 1..n : more[i] = chart[i]
      /\ more[n + 1] = c
  BY <1>2, <1>4, <1>5, <1>6
<1>8. \A i \in 1..(n + 1) : (i \in 1..n /\ i \in DOMAIN chart) \/ i = n + 1
  BY <1>4, <1>5
<1>9. Dated(more, 0)
  <2>1. \A i \in 1..n : chart[i].at = 0 + i
    BY <1>4, <1>5 DEF Dated
  <2>2. \A i \in 1..(n + 1) : more[i].at = 0 + i
    BY <1>6, <1>7, <1>8, <2>1
  <2> QED BY <1>7, <2>2 DEF Dated
<1>10. Sound(more)
  BY <1>4, <1>6, <1>7, <1>8 DEF Sound
<1>11. ASSUME decision.status = "TRADE_INTENT_CREATED"
       PROVE  decision.at \in 1..Len(more) /\ decision.at # Now(more)
  <2>1. decision.at \in 1..n
    BY <1>5, <1>11 DEF TargetsReadOff, Charted
  <2>2. Len(more) > 0
    BY <1>7
  <2>3. Now(more) = n + 1
    BY <1>7, <1>9, <2>2, NowIsLength
  <2> QED BY <1>7, <2>1, <2>3
<1> QED BY <1>3, <1>9, <1>10, <1>11 DEF TargetsReadOff, Charted, TargetsAreUntouched, Decided

LEMMA DecideReads ==
  ASSUME TargetsReadOff, Decide
  PROVE  TargetsReadOff'
<1>1. PICK requested \in Requests, groups \in Groups :
        decision' = Decision(Now(chart), SetupsOf(chart), Frame(chart), Account, requested, groups)
  BY DEF Decide
<1>2. chart' = chart
  BY DEF Decide
<1>3. Sound(chart) /\ chart \in Seq(AnyCandle) /\ Dated(chart, 0)
  BY DEF TargetsReadOff, Charted, Sound
<1>4. ASSUME decision'.status = "TRADE_INTENT_CREATED"
      PROVE  /\ decision'.at \in 1..Len(chart)
             /\ \E a \in Int : Dated(Window(chart, Structure.lookback), a)
             /\ Window(chart, Structure.lookback) \in Seq(AnyCandle)
             /\ \E up \in BOOLEAN : Aims(Window(chart, Structure.lookback), decision', up)
  <2>1. PICK d, candles, w : d = decision' /\ candles = Frame(chart) /\ w = Window(chart, Structure.lookback)
    OBVIOUS
  <2>2. /\ d = Decision(Now(chart), Setups(Context(chart), candles), candles, Account, requested, groups)
        /\ d.status = "TRADE_INTENT_CREATED"
    BY <1>1, <1>4, <2>1 DEF SetupsOf
  <2>3. candles \in Seq(AnyCandle)
    BY <1>3, <2>1, FrameType
  <2>4. Structure.lookback =< Len(candles)
    <3>1. Confirmed(Setups(Context(chart), candles)) # {}
      BY <2>2 DEF Decision
    <3>2. PICK s \in Confirmed(Setups(Context(chart), candles)) : TRUE
      BY <3>1
    <3>3. Len(candles) >= Structure.lookback
      BY <2>3, <3>2, SetupsAreGrounded
    <3>4. Len(candles) \in Nat /\ Structure.lookback \in Nat
      BY <2>3, StructureAssumption
    <3> QED BY <3>3, <3>4
  <2>5. PICK n \in Nat : n = Structure.lookback /\ n > 0
    BY StructureAssumption
  <2>6. n =< Len(chart) /\ Window(candles, n) = w
    BY <1>3, <2>1, <2>4, <2>5, WindowOfFrame
  <2>7. Sound(w)
    BY <1>3, <2>1, <2>5, <2>6, WindowSound
  <2>8. \E b \in Int : Dated(candles, b)
    <3>1. CASE candles = chart
      BY <1>3, <3>1
    <3>2. CASE candles # chart
      <4>1. candles = Window(chart, History) /\ History =< Len(chart)
        <5>1. Len(chart) \in Nat /\ History \in Nat
          BY <1>3, PlanAssumption
        <5> QED BY <2>1, <3>2, <5>1 DEF Frame
      <4>2. History \in Nat /\ 0 \in Int
        BY PlanAssumption
      <4> QED BY <1>3, <4>1, <4>2, WindowDated
    <3> QED BY <3>1, <3>2
  <2>9. PICK b \in Int : Dated(candles, b)
    BY <2>8
  <2>10. Framed(candles, w, b)
    BY <2>3, <2>4, <2>5, <2>6, <2>7, <2>9 DEF Framed
  <2>11. d.at = Now(chart) /\ \E up \in BOOLEAN : Aims(w, d, up)
    BY <2>2, <2>10, DecisionsAim
  <2>12. w \in Seq(AnyCandle) /\ \E a \in Int : Dated(w, a)
    BY <2>10, FramedWindow
  <2>13. d.at \in 1..Len(chart)
    <3>1. PICK l \in Nat : l = Len(chart)
      BY <1>3
    <3>2. l > 0 /\ n =< l
      BY <2>5, <2>6, <3>1
    <3>3. Now(chart) = l
      BY <1>3, <3>1, <3>2, NowIsLength
    <3> QED BY <2>11, <3>1, <3>2, <3>3
  <2> QED BY <2>1, <2>11, <2>12, <2>13
<1>5. ASSUME decision'.status = "TRADE_INTENT_CREATED"
      PROVE  Reads(Window(chart, Structure.lookback), decision',
                   CHOOSE i \in DOMAIN Window(chart, Structure.lookback) :
                     Window(chart, Structure.lookback)[i].at = decision'.setup.initiation.at,
                   CHOOSE i \in DOMAIN Window(chart, Structure.lookback) :
                     Window(chart, Structure.lookback)[i].at = decision'.setup.confirmedAt)
  <2>1. PICK w, d : w = Window(chart, Structure.lookback) /\ d = decision'
    OBVIOUS
  <2>2. w \in Seq(AnyCandle) /\ (\E a \in Int : Dated(w, a)) /\ \E up \in BOOLEAN : Aims(w, d, up)
    BY <1>4, <1>5, <2>1
  <2>3. PICK a \in Int, up \in BOOLEAN : Dated(w, a) /\ Aims(w, d, up)
    BY <2>2
  <2>4. Reads(w, d, CHOOSE i \in DOMAIN w : w[i].at = d.setup.initiation.at,
                    CHOOSE i \in DOMAIN w : w[i].at = d.setup.confirmedAt)
    BY <2>2, <2>3, AimsRead
  <2> QED BY <2>1, <2>4
<1>6. TargetsAreUntouched'
  <2>1. Decided' => decision'.status = "TRADE_INTENT_CREATED"
    BY DEF Decided
  <2> QED BY <1>2, <1>5, <2>1, Zenon DEF TargetsAreUntouched, Reads
<1>7. Charted'
  BY <1>2, <1>3, <1>4 DEF Charted
<1> QED BY <1>6, <1>7 DEF TargetsReadOff

LEMMA ReadOffStays == ASSUME TargetsReadOff, [Next]_vars PROVE TargetsReadOff'
<1>1. CASE chart' = chart /\ decision' = decision
  <2>1. Charted'
    BY <1>1 DEF TargetsReadOff, Charted
  <2>2. Decided' <=> Decided
    BY <1>1 DEF Decided
  <2>3. TargetsAreUntouched'
    BY <1>1, <2>2, Zenon DEF TargetsReadOff, TargetsAreUntouched
  <2> QED BY <2>1, <2>3 DEF TargetsReadOff
<1>2. CASE UNCHANGED vars
  BY <1>1, <1>2 DEF vars
<1>3. CASE \E shape \in Shapes : NextCandle(shape)
  BY <1>3, NextCandleReads
<1>4. CASE Decide
  BY <1>4, DecideReads
<1>5. CASE \E quote \in Quotes : Prepare(quote)
  <2>1. chart' = chart /\ decision'.status # "TRADE_INTENT_CREATED"
    BY <1>5 DEF Prepare
  <2> QED BY <2>1 DEF TargetsReadOff, Charted, TargetsAreUntouched, Decided
<1>6. CASE \E p \in book : Enter(p) \/ Expire(p) \/ Leave(p, -LossAtStop(p.plan)) \/ Leave(p, GainAtTarget(p.plan))
  <2>1. chart' = chart /\ decision' = decision
    BY <1>6 DEF Enter, Expire, Leave
  <2> QED BY <1>1, <2>1
<1> QED BY <1>2, <1>3, <1>4, <1>5, <1>6 DEF Next

\* A trade aims at the nearest swing that the market has not traded through, and
\* a sequence enters through a swing that was known, and stood, when its sweep
\* took an older one, on every chart (structure-engine analyzer.ts, setup-engine
\* levelFor and laterBreak, risk-engine orderedTargets).
THEOREM TargetsAreAlwaysUntouched == Spec => []TargetsAreUntouched
<1>1. Init => TargetsReadOff
  BY ReadOffAtFirst
<1>2. TargetsReadOff /\ [Next]_vars => TargetsReadOff'
  BY ReadOffStays
<1>3. TargetsReadOff => TargetsAreUntouched
  BY DEF TargetsReadOff
<1> QED BY <1>1, <1>2, <1>3, PTL DEF Spec
=============================================================================
