----------------------------- MODULE HistoryProofs -----------------------------
(***************************************************************************)
(* Safety proofs for History: for any histories of the symbols with any      *)
(* holes, any prices, any sizes of the pages, any commands, and a clock that  *)
(* goes on at any moment.                                                    *)
(***************************************************************************)
EXTENDS History, FiniteSetTheorems, SequenceTheorems, TLAPS

-----------------------------------------------------------------------------
(* Sorting *)

\* The facts about numbers and finite sets of them; nothing is folded here.
LOCAL Unchanged(p, value, x) == value

Numbers == INSTANCE FoldProofs WITH Step <- Unchanged

LEMMA MinOf ==
  ASSUME NEW T, T \subseteq Nat, T # {}
  PROVE  Min(T) \in T /\ \A k \in T : Min(T) <= k
<1>1. \E m \in T : \A k \in T : m <= k
  BY Numbers!LeastOf
<1> QED
  BY <1>1 DEF Min

LEMMA MaxOf ==
  ASSUME NEW T, T \subseteq Nat, IsFiniteSet(T), T # {}
  PROVE  Max(T) \in T /\ \A k \in T : k <= Max(T)
<1>1. Numbers!IsFiniteSet(T)
  BY DEF IsFiniteSet, Numbers!IsFiniteSet
<1>2. Numbers!Max(T) \in T /\ \A k \in T : k <= Numbers!Max(T)
  BY <1>1, Numbers!MaxOfFinite
<1> QED
  BY <1>2 DEF Max, Numbers!Max

Finite(set) == set \subseteq Int /\ IsFiniteSet(set)

Below(set, x) == {y \in set : y < x}
Rank(set, x) == Cardinality(Below(set, x))

LEMMA RankOfMember ==
  ASSUME NEW S, Finite(S), NEW x \in S
  PROVE  Cardinality(S) \in Nat /\ Rank(S, x) \in Nat /\ Rank(S, x) < Cardinality(S)
<1>1. Below(S, x) \subseteq S \ {x}
  BY DEF Below, Finite
<1>2. IsFiniteSet(S \ {x}) /\ Cardinality(S \ {x}) = Cardinality(S) - 1 /\ Cardinality(S) \in Nat
  BY FS_RemoveElement, FS_CardinalityType DEF Finite
<1>3. IsFiniteSet(Below(S, x)) /\ Cardinality(Below(S, x)) <= Cardinality(S \ {x})
  BY <1>1, <1>2, FS_Subset
<1>4. Cardinality(Below(S, x)) \in Nat
  BY <1>3, FS_CardinalityType
<1> QED
  BY <1>2, <1>3, <1>4 DEF Rank

LEMMA RanksAscend ==
  ASSUME NEW S, Finite(S), NEW x \in S, NEW y \in S, x < y
  PROVE  Rank(S, x) < Rank(S, y)
<1>1. Below(S, x) \subseteq Below(S, y)
  <2> SUFFICES ASSUME NEW n \in S, n < x PROVE n < y
    BY DEF Below
  <2>1. x \in Int /\ y \in Int /\ n \in Int
    BY DEF Finite
  <2> QED
    BY <2>1
<1> HIDE DEF Finite
<1>2. /\ IsFiniteSet(Below(S, x)) /\ IsFiniteSet(Below(S, y))
      /\ x \in Below(S, y) /\ x \notin Below(S, x)
  BY FS_Subset DEF Below, Finite
<1>3. /\ IsFiniteSet(Below(S, x) \union {x})
      /\ Cardinality(Below(S, x) \union {x}) = Rank(S, x) + 1
  BY <1>2, FS_AddElement DEF Rank
<1>4. Cardinality(Below(S, x) \union {x}) <= Rank(S, y)
  BY <1>1, <1>2, <1>3, FS_Subset DEF Rank
<1>5. Rank(S, x) \in Int /\ Rank(S, y) \in Int
  BY RankOfMember
<1> QED
  BY <1>3, <1>4, <1>5

\* Every place is taken.
LEMMA RankTaken ==
  ASSUME NEW S, Finite(S), NEW k \in 1..Cardinality(S)
  PROVE  \E x \in S : Rank(S, x) = k - 1
<1> DEFINE n == Cardinality(S)
           f == [x \in S |-> Rank(S, x) + 1]
<1>1. n \in Nat /\ IsFiniteSet(1..n) /\ Cardinality(1..n) = n
  BY FS_CardinalityType, FS_Interval DEF Finite
<1>2. \A x \in S : Rank(S, x) + 1 \in 1..n
  BY <1>1, RankOfMember
<1>3. \A x, y \in S : Rank(S, x) + 1 = Rank(S, y) + 1 => x = y
  <2> SUFFICES ASSUME NEW x \in S, NEW y \in S, Rank(S, x) + 1 = Rank(S, y) + 1, x # y
               PROVE  FALSE
    OBVIOUS
  <2>1. x < y \/ y < x
    BY DEF Finite
  <2>2. Rank(S, x) \in Int /\ Rank(S, y) \in Int
    BY RankOfMember
  <2> QED
    BY <2>1, <2>2, RanksAscend
<1>4. f \in Injection(S, 1..n)
  BY <1>2, <1>3 DEF Injection, IsInjective
<1> HIDE DEF n
<1>5. f \in Surjection(S, 1..n)
  <2> HIDE DEF f
  <2> QED
    BY <1>1, <1>4, FS_Injection DEF n
<1>6. PICK x \in S : f[x] = k
  BY <1>5 DEF Surjection, n
<1> QED
  BY <1>6, RankOfMember

LEMMA AscendingSorts ==
  ASSUME NEW S, Finite(S)
  PROVE  /\ Cardinality(S) \in Nat /\ DOMAIN Ascending(S) = 1..Cardinality(S)
         /\ \A i \in 1..Cardinality(S) : Ascending(S)[i] \in S /\ Rank(S, Ascending(S)[i]) = i - 1
         /\ \A i, j \in 1..Cardinality(S) : i < j => Ascending(S)[i] < Ascending(S)[j]
         /\ \A x \in S : \E i \in 1..Cardinality(S) : Ascending(S)[i] = x
<1> DEFINE n == Cardinality(S)
           a == Ascending(S)
<1>1. n \in Nat
  BY FS_CardinalityType DEF Finite
<1>2. DOMAIN a = 1..n
  BY DEF Ascending
<1>3. ASSUME NEW i \in 1..n PROVE a[i] \in S /\ Rank(S, a[i]) = i - 1
  <2>1. a[i] = CHOOSE x \in S : Rank(S, x) = i - 1
    BY DEF Ascending, Rank, Below
  <2>2. \E x \in S : Rank(S, x) = i - 1
    BY RankTaken
  <2> QED
    BY <2>1, <2>2
<1>4. ASSUME NEW x \in S, NEW y \in S, Rank(S, x) <= Rank(S, y) PROVE x <= y
  <2>1. Rank(S, x) \in Int /\ Rank(S, y) \in Int
    BY RankOfMember
  <2>2. ~(y < x)
    BY <2>1, <1>4, RanksAscend
  <2>3. x \in Int /\ y \in Int
    BY DEF Finite
  <2> QED
    BY <2>2, <2>3
<1> HIDE DEF a, n
<1>5. ASSUME NEW i \in 1..n, NEW j \in 1..n, i < j PROVE a[i] < a[j]
  <2>1. a[i] \in S /\ a[j] \in S /\ Rank(S, a[i]) = i - 1 /\ Rank(S, a[j]) = j - 1
    BY <1>3
  <2>2. a[i] <= a[j]
    BY <2>1, <1>4, <1>5
  <2>3. a[i] # a[j]
    <3>1. i - 1 # j - 1
      BY <1>5
    <3> QED
      BY <2>1, <3>1
  <2>4. a[i] \in Int /\ a[j] \in Int
    BY <2>1 DEF Finite
  <2> QED
    BY <2>2, <2>3, <2>4
<1>6. ASSUME NEW x \in S PROVE \E i \in 1..n : a[i] = x
  <2>1. Rank(S, x) \in Nat /\ Rank(S, x) < n
    BY RankOfMember DEF n
  <2> DEFINE i == Rank(S, x) + 1
  <2>2. i \in 1..n /\ Rank(S, x) = i - 1
    BY <1>1, <2>1
  <2>3. a[i] \in S /\ Rank(S, a[i]) = Rank(S, x)
    BY <1>3, <2>2
  <2>4. a[i] <= x /\ x <= a[i] /\ x \in Int /\ a[i] \in Int
    <3>1. Rank(S, x) <= Rank(S, a[i]) /\ Rank(S, a[i]) <= Rank(S, x)
      BY <2>1, <2>3
    <3>2. x \in Int /\ a[i] \in Int
      BY <2>3 DEF Finite
    <3> QED
      BY <3>1, <3>2, <2>3, <1>4
  <2>5. a[i] = x
    BY <2>4
  <2> QED
    BY <2>2, <2>5
<1> QED
  BY <1>1, <1>2, <1>3, <1>5, <1>6 DEF a, n

\* A strictly ascending list of numbers is its set, sorted: so two with the same numbers
\* are the same.
Ascends(f, n) ==
  /\ \A i \in 1..n : f[i] \in Int
  /\ \A i, j \in 1..n : i < j => f[i] < f[j]

LEMMA FirstOnes ==
  ASSUME NEW n \in Nat, NEW f, Ascends(f, n), NEW k \in 0..n
  PROVE  IsFiniteSet({f[j] : j \in 1..k}) /\ Cardinality({f[j] : j \in 1..k}) = k
<1> DEFINE T == {f[j] : j \in 1..k}
           g == [j \in 1..k |-> f[j]]
<1>1. ASSUME NEW i \in 1..k, NEW j \in 1..k, f[i] = f[j] PROVE i = j
  <2>1. i \in 1..n /\ j \in 1..n /\ f[i] \in Int
    BY DEF Ascends
  <2>2. ~(i < j) /\ ~(j < i)
    BY <2>1, <1>1 DEF Ascends
  <2> QED
    BY <2>1, <2>2
<1>2. g \in Bijection(1..k, T)
  BY <1>1 DEF Bijection, Injection, Surjection, IsInjective
<1>3. ExistsBijection(1..k, T)
  BY <1>2 DEF ExistsBijection
<1> HIDE DEF T
<1>4. IsFiniteSet(1..k) /\ Cardinality(1..k) = k
  BY FS_Interval
<1>5. IsFiniteSet(T) /\ Cardinality(T) = k
  BY <1>3, <1>4, FS_Bijection
<1> QED
  BY <1>5 DEF T

LEMMA AscendingUnique ==
  ASSUME NEW n \in Nat, NEW f, Ascends(f, n), NEW S, S = {f[j] : j \in 1..n}
  PROVE  Finite(S) /\ Cardinality(S) = n /\ \A i \in 1..n : Ascending(S)[i] = f[i]
<1>1. Finite(S) /\ Cardinality(S) = n
  <2>1. n \in 0..n /\ S \subseteq Int
    BY DEF Ascends
  <2>2. IsFiniteSet(S) /\ Cardinality(S) = n
    BY <2>1, FirstOnes
  <2> QED
    BY <2>1, <2>2 DEF Finite
<1>2. ASSUME NEW i \in 1..n PROVE Rank(S, f[i]) = i - 1
  <2>1. i - 1 \in 0..n
    OBVIOUS
  <2>2. Below(S, f[i]) = {f[j] : j \in 1..(i - 1)}
    <3>1. ASSUME NEW j \in 1..n PROVE f[j] < f[i] <=> j \in 1..(i - 1)
      <4>1. CASE j < i
        BY <4>1 DEF Ascends
      <4>2. CASE j = i
        BY <4>2 DEF Ascends
      <4>3. CASE i < j
        <5>1. f[i] < f[j] /\ f[i] \in Int /\ f[j] \in Int
          BY <4>3 DEF Ascends
        <5> QED
          BY <5>1, <4>3
      <4> QED
        BY <4>1, <4>2, <4>3
    <3>2. 1..(i - 1) \subseteq 1..n
      OBVIOUS
    <3> QED
      BY <3>1, <3>2 DEF Below
  <2>3. Cardinality({f[j] : j \in 1..(i - 1)}) = i - 1
    BY <2>1, FirstOnes
  <2> QED
    BY <2>2, <2>3 DEF Rank
<1>3. ASSUME NEW i \in 1..n PROVE Ascending(S)[i] = f[i]
  <2>1. Ascending(S)[i] \in S /\ Rank(S, Ascending(S)[i]) = i - 1
    BY <1>1, AscendingSorts
  <2>2. PICK j \in 1..n : Ascending(S)[i] = f[j]
    BY <2>1
  <2>3. j - 1 = i - 1
    BY <2>1, <2>2, <1>2
  <2> QED
    BY <2>2, <2>3
<1> QED
  BY <1>1, <1>3

-----------------------------------------------------------------------------
(* Series of bars *)

Increasing(bars) == \A i, j \in DOMAIN bars : i < j => bars[i].time < bars[j].time

\* What every file holds and every backtest reads.
Sorted(bars) == bars \in Seq(Bars) /\ Increasing(bars)

LEMMA TimesFinite ==
  ASSUME NEW T, T \subseteq Times
  PROVE  Finite(T) /\ T \subseteq Nat
<1>1. IsFiniteSet(Times)
  BY HistoryAssumption, FS_Interval DEF Times
<1>2. IsFiniteSet(T)
  BY <1>1, FS_Subset
<1> QED
  BY <1>2, HistoryAssumption DEF Finite, Times

LEMMA ListOf ==
  ASSUME NEW n \in Nat, NEW S, NEW f \in [1..n -> S]
  PROVE  f \in Seq(S) /\ Len(f) = n /\ DOMAIN f = 1..n /\ Range(f) = {f[i] : i \in 1..n}
<1>1. DOMAIN f = 1..n
  OBVIOUS
<1>2. f \in Seq(S)
  BY SeqDef
<1>3. Len(f) = n
  BY <1>1, <1>2, LenProperties
<1> QED
  BY <1>1, <1>2, <1>3 DEF Range

\* A dictionary by time sorted: the bars of all its times, each once.
LEMMA ByTimeSorts ==
  ASSUME NEW B, B \subseteq Bars
  PROVE  /\ Sorted(ByTime(B)) /\ Range(ByTime(B)) \subseteq B
         /\ TimesIn(ByTime(B)) = BarTimes(B)
<1> DEFINE T == BarTimes(B)
           n == Cardinality(T)
           at == Ascending(T)
           f == ByTime(B)
<1>1. Finite(T)
  <2>1. T \subseteq Times
    BY DEF BarTimes, Bars
  <2> QED
    BY <2>1, TimesFinite
<1>2. n \in Nat /\ DOMAIN at = 1..n
  BY <1>1, AscendingSorts
<1>3. /\ \A i \in 1..n : at[i] \in T
      /\ \A i, j \in 1..n : i < j => at[i] < at[j]
      /\ \A x \in T : \E i \in 1..n : at[i] = x
  BY <1>1, AscendingSorts
<1>4. f = [i \in 1..n |-> CHOOSE b \in B : b.time = at[i]]
  BY <1>2 DEF ByTime, InOrder
<1> HIDE DEF T, n, at, f
<1>5. ASSUME NEW i \in 1..n PROVE f[i] \in B /\ f[i].time = at[i]
  <2>1. \E b \in B : b.time = at[i]
    BY <1>3 DEF T, BarTimes
  <2> QED
    BY <2>1, <1>4
<1>6. f \in Seq(Bars) /\ DOMAIN f = 1..n /\ Range(f) = {f[i] : i \in 1..n}
  <2>1. f \in [1..n -> Bars]
    BY <1>4, <1>5
  <2> QED
    BY <1>2, <2>1, ListOf
<1>7. Sorted(f)
  BY <1>3, <1>5, <1>6 DEF Sorted, Increasing
<1>8. Range(f) \subseteq B
  BY <1>5, <1>6
<1>9. TimesIn(f) = T
  <2>1. TimesIn(f) = {f[i].time : i \in 1..n}
    BY <1>6 DEF TimesIn, BarTimes
  <2> QED
    BY <2>1, <1>3, <1>5
<1> QED
  BY <1>7, <1>8, <1>9 DEF f, T

LEMMA SeriesShape ==
  ASSUME NEW bars, Sorted(bars)
  PROVE  /\ Len(bars) \in Nat /\ DOMAIN bars = 1..Len(bars) /\ \A i \in 1..Len(bars) : bars[i] \in Bars
         /\ \A i \in 1..Len(bars) : bars[i].time \in Times /\ bars[i].time \in Nat
         /\ \A i, j \in 1..Len(bars) : i < j => bars[i].time < bars[j].time
         /\ TimesIn(bars) = {bars[i].time : i \in 1..Len(bars)}
<1>1. Len(bars) \in Nat /\ DOMAIN bars = 1..Len(bars) /\ \A i \in 1..Len(bars) : bars[i] \in Bars
  BY LenProperties DEF Sorted
<1>2. \A i \in 1..Len(bars) : bars[i].time \in Times /\ bars[i].time \in Nat
  BY <1>1, HistoryAssumption DEF Bars, Times
<1>3. TimesIn(bars) = {bars[i].time : i \in 1..Len(bars)}
  BY <1>1 DEF TimesIn, BarTimes, Range
<1> QED
  BY <1>1, <1>2, <1>3 DEF Sorted, Increasing

\* Two series with the same times have them at the same places.
LEMMA SameAxis ==
  ASSUME NEW a, NEW b, Sorted(a), Sorted(b), TimesIn(a) = TimesIn(b)
  PROVE  Len(a) = Len(b) /\ \A i \in DOMAIN a : a[i].time = b[i].time
<1> DEFINE f == [i \in 1..Len(a) |-> a[i].time]
           g == [i \in 1..Len(b) |-> b[i].time]
           S == TimesIn(a)
<1>1. /\ Len(a) \in Nat /\ Ascends(f, Len(a)) /\ S = {f[i] : i \in 1..Len(a)}
      /\ DOMAIN a = 1..Len(a)
  BY SeriesShape DEF Ascends
<1>2. Len(b) \in Nat /\ Ascends(g, Len(b)) /\ S = {g[i] : i \in 1..Len(b)}
  <2>1. S = TimesIn(b)
    OBVIOUS
  <2> HIDE DEF S
  <2> QED
    BY <2>1, SeriesShape DEF Ascends
<1> HIDE DEF f, g, S
<1>3. Cardinality(S) = Len(a) /\ \A i \in 1..Len(a) : Ascending(S)[i] = f[i]
  BY <1>1, AscendingUnique
<1>4. Cardinality(S) = Len(b) /\ \A i \in 1..Len(b) : Ascending(S)[i] = g[i]
  BY <1>2, AscendingUnique
<1> QED
  BY <1>1, <1>3, <1>4 DEF f, g

LEMMA PickedSorts ==
  ASSUME NEW bars, Sorted(bars), NEW P, P \subseteq DOMAIN bars
  PROVE  Sorted(Picked(bars, P)) /\ TimesIn(Picked(bars, P)) = {bars[p].time : p \in P}
<1> DEFINE at == Ascending(P)
           n == Cardinality(P)
           f == Picked(bars, P)
<1>1. Finite(P)
  <2>1. Len(bars) \in Nat /\ P \subseteq 1..Len(bars)
    BY SeriesShape
  <2>2. IsFiniteSet(1..Len(bars))
    BY <2>1, FS_Interval
  <2>3. IsFiniteSet(P)
    BY <2>1, <2>2, FS_Subset
  <2> QED
    BY <2>1, <2>3 DEF Finite
<1>n. n \in Nat /\ DOMAIN at = 1..n
  BY <1>1, AscendingSorts
<1>2. /\ \A i \in 1..n : at[i] \in P
      /\ \A i, j \in 1..n : i < j => at[i] < at[j]
      /\ \A x \in P : \E i \in 1..n : at[i] = x
  BY <1>1, AscendingSorts
<1>3. f = [i \in 1..n |-> bars[at[i]]]
  BY <1>n DEF Picked
<1> HIDE DEF at, n, f
<1>4. /\ DOMAIN bars = 1..Len(bars) /\ \A i \in 1..Len(bars) : bars[i] \in Bars
      /\ \A i, j \in 1..Len(bars) : i < j => bars[i].time < bars[j].time
  BY SeriesShape
<1>5. \A i \in 1..n : f[i] = bars[at[i]] /\ at[i] \in 1..Len(bars) /\ f[i] \in Bars
  BY <1>2, <1>3, <1>4
<1>6. f \in Seq(Bars) /\ DOMAIN f = 1..n /\ Range(f) = {f[i] : i \in 1..n}
  <2>1. f \in [1..n -> Bars]
    BY <1>3, <1>5
  <2> QED
    BY <1>n, <2>1, ListOf
<1>7. Sorted(f)
  BY <1>2, <1>4, <1>5, <1>6 DEF Sorted, Increasing
<1>8. TimesIn(f) = {bars[p].time : p \in P}
  <2>1. TimesIn(f) = {f[i].time : i \in 1..n}
    BY <1>6 DEF TimesIn, BarTimes
  <2>2. \A i \in 1..n : at[i] \in P /\ f[i].time = bars[at[i]].time
    BY <1>2, <1>5
  <2>3. \A p \in P : \E i \in 1..n : f[i].time = bars[p].time
    BY <1>2, <1>5
  <2> QED
    BY <2>1, <2>2, <2>3
<1> QED
  BY <1>7, <1>8 DEF f

\* A cut of a series.
LEMMA CutSorts ==
  ASSUME NEW bars, Sorted(bars), NEW m \in 1..(Len(bars) + 1), NEW n \in 0..Len(bars)
  PROVE  /\ Sorted(SubSeq(bars, m, n))
         /\ TimesIn(SubSeq(bars, m, n)) = {bars[i].time : i \in m..n}
<1> DEFINE f == SubSeq(bars, m, n)
           k == IF m <= n THEN n - m + 1 ELSE 0
<1>1. /\ Len(bars) \in Nat /\ DOMAIN bars = 1..Len(bars) /\ bars \in Seq(Bars)
      /\ \A i \in 1..Len(bars) : bars[i] \in Bars
      /\ \A i, j \in 1..Len(bars) : i < j => bars[i].time < bars[j].time
  BY SeriesShape DEF Sorted
<1>2. f \in Seq(Bars) /\ DOMAIN f = 1..k /\ \A i \in 1..k : f[i] = bars[m + i - 1]
  <2>1. CASE m <= n
    <3>1. \A i \in m..n : bars[i] \in Bars
      BY <1>1
    <3>2. f \in Seq(Bars)
      BY <3>1, <1>1, SubSeqProperties
    <3>3. Len(f) = k /\ \A i \in 1..k : f[i] = bars[m + i - 1]
      BY <2>1, <1>1, SubSeqProperties
    <3> QED
      BY <3>2, <3>3, LenProperties
  <2>2. CASE ~(m <= n)
    <3>1. f = << >>
      BY <2>2, <1>1
    <3> QED
      BY <2>2, <3>1
  <2> QED
    BY <2>1, <2>2
<1>3. k \in Nat /\ \A i \in 1..k : m + i - 1 \in m..n /\ m + i - 1 \in 1..Len(bars)
  BY <1>1
<1>4. \A j \in m..n : j - m + 1 \in 1..k /\ m + (j - m + 1) - 1 = j
  BY <1>1
<1> HIDE DEF f, k
<1>5. Sorted(f)
  <2> SUFFICES ASSUME NEW i \in 1..k, NEW j \in 1..k, i < j PROVE f[i].time < f[j].time
    BY <1>2 DEF Sorted, Increasing
  <2>1. m + i - 1 < m + j - 1
    BY <1>3
  <2> QED
    BY <2>1, <1>1, <1>2, <1>3
<1>6. TimesIn(f) = {bars[i].time : i \in m..n}
  <2>1. TimesIn(f) = {f[i].time : i \in 1..k}
    BY <1>2 DEF TimesIn, BarTimes, Range
  <2>2. \A i \in 1..k : \E j \in m..n : f[i].time = bars[j].time
    BY <1>2, <1>3
  <2>3. \A j \in m..n : \E i \in 1..k : f[i].time = bars[j].time
    <3> SUFFICES ASSUME NEW j \in m..n PROVE f[j - m + 1] = bars[j] /\ j - m + 1 \in 1..k
      OBVIOUS
    <3> QED
      BY <1>2, <1>4
  <2>4. TimesIn(f) \subseteq {bars[i].time : i \in m..n}
    BY <2>1, <2>2
  <2>5. {bars[i].time : i \in m..n} \subseteq TimesIn(f)
    BY <2>1, <2>3
  <2> QED
    BY <2>4, <2>5
<1> QED
  BY <1>5, <1>6 DEF f

-----------------------------------------------------------------------------
(* One time axis *)

AllSorted(series) == \A s \in Symbols : Sorted(series[s])

\* What is left of each series has the times that all of them have.
LEMMA AlignSorts ==
  ASSUME NEW series, AllSorted(series), Align(series) # NoSeries
  PROVE  /\ SameTimes(Align(series))
         /\ \A s \in Symbols : AllTimes(Align(series)) \subseteq TimesIn(series[s])
<1> DEFINE common == {t \in Times : \A s \in Symbols : t \in TimesIn(series[s])}
<1>1. CASE Cardinality(Symbols) = 1
  <2>1. Align(series) = series
    BY <1>1 DEF Align
  <2>2. PICK r : Symbols = {r}
    BY <1>1, HistoryAssumption, FS_Singleton
  <2>3. Sorted(series[r])
    BY <2>2 DEF AllSorted
  <2> QED
    BY <2>1, <2>2, <2>3 DEF SameTimes, AllTimes
<1>2. CASE Cardinality(Symbols) # 1
  <2> DEFINE aligned == [s \in Symbols |-> Picked(series[s], PlacesOf(common, series[s]))]
  <2>1. Align(series) = aligned
    <3>1. Cardinality(Symbols) \in Nat
      BY HistoryAssumption, FS_CardinalityType
    <3>2. ~(Cardinality(Symbols) > 1 /\ Cardinality(common) < MinBars)
      BY <1>2 DEF Align
    <3> QED
      BY <1>2, <3>1, <3>2 DEF Align
  <2>2. ASSUME NEW s \in Symbols PROVE Sorted(aligned[s]) /\ TimesIn(aligned[s]) = common
    <3>1. Sorted(series[s])
      BY DEF AllSorted
    <3> DEFINE P == PlacesOf(common, series[s])
    <3>2. P \subseteq DOMAIN series[s]
      BY DEF PlacesOf
    <3>3. Sorted(Picked(series[s], P)) /\ TimesIn(Picked(series[s], P)) = {series[s][p].time : p \in P}
      <4> HIDE DEF P
      <4> QED
        BY <3>1, <3>2, PickedSorts
    <3>4. \A t \in common : t \in {series[s][i].time : i \in DOMAIN series[s]}
      BY <3>1, SeriesShape
    <3>5. {series[s][p].time : p \in P} = common
      BY <3>4 DEF PlacesOf
    <3> QED
      BY <3>3, <3>5
  <2> HIDE DEF aligned, common
  <2>3. SameTimes(aligned)
    <3>1. ASSUME NEW r \in Symbols, NEW s \in Symbols
          PROVE  /\ Len(aligned[r]) = Len(aligned[s])
                 /\ \A i \in DOMAIN aligned[r] : aligned[r][i].time = aligned[s][i].time
      <4>1. Sorted(aligned[r]) /\ Sorted(aligned[s]) /\ TimesIn(aligned[r]) = TimesIn(aligned[s])
        BY <2>2
      <4> HIDE DEF aligned
      <4> QED
        BY <4>1, SameAxis
    <3> QED
      BY <3>1 DEF SameTimes
  <2>4. \A s \in Symbols : AllTimes(aligned) \subseteq TimesIn(series[s])
    <3>1. AllTimes(aligned) \subseteq common
      BY <2>2 DEF AllTimes
    <3> QED
      BY <3>1 DEF common
  <2> QED
    BY <2>1, <2>3, <2>4
<1> QED
  BY <1>1, <1>2

LEMMA ShareOf ==
  ASSUME NEW n \in Nat, NEW a \in Nat, NEW d \in Nat \ {0}, a <= n * d
  PROVE  a \div d \in 0..n
<1> DEFINE q == a \div d
<1>1. q \in Nat /\ q * d <= a
  OBVIOUS
<1> HIDE DEF q
<1>2. CASE q > n
  <2>1. (n + 1) * d <= q * d
    BY <1>1, <1>2
  <2>2. (n + 1) * d = n * d + d /\ n * d \in Nat /\ q * d \in Nat
    BY <1>1
  <2> QED
    BY <2>1, <2>2, <1>1
<1> QED
  BY <1>1, <1>2 DEF q

\* Each symbol is split at a place of its own, yet no time of a window of all of them is
\* later than the split of any.
LEMMA WindowsApart ==
  ASSUME NEW series, AllSorted(series)
  PROVE  /\ AllSorted(Train(series)) /\ AllSorted(Test(series))
         /\ \A s \in Symbols :
              \A t \in TimesIn(Train(series)[s]), u \in TimesIn(Test(series)[s]) : t < u
<1> SUFFICES ASSUME NEW s \in Symbols
             PROVE  /\ Sorted(Train(series)[s]) /\ Sorted(Test(series)[s])
                    /\ \A t \in TimesIn(Train(series)[s]), u \in TimesIn(Test(series)[s]) : t < u
  BY DEF AllSorted
<1> DEFINE bars == series[s]
           p == Pivot(bars)
           n == Len(bars)
<1>1. Sorted(bars)
  BY DEF AllSorted
<1>2. n \in Nat /\ \A i, j \in 1..n : i < j => bars[i].time < bars[j].time
  BY <1>1, SeriesShape
<1>3. p \in 0..n
  <2>1. SplitNum \in Nat /\ SplitDen \in Nat \ {0} /\ SplitNum <= SplitDen
    BY HistoryAssumption
  <2>2. n * SplitNum \in Nat /\ n * SplitNum <= n * SplitDen
    BY <1>2, <2>1
  <2>3. (n * SplitNum) \div SplitDen \in 0..n
    BY <1>2, <2>1, <2>2, ShareOf
  <2> QED
    BY <2>3 DEF Pivot
<1>4. Train(series)[s] = SubSeq(bars, 1, p) /\ Test(series)[s] = SubSeq(bars, p + 1, n)
  BY DEF Train, Test
<1> HIDE DEF bars, p, n
<1>5. /\ Sorted(SubSeq(bars, 1, p)) /\ TimesIn(SubSeq(bars, 1, p)) = {bars[i].time : i \in 1..p}
  <2>1. 1 \in 1..(Len(bars) + 1) /\ p \in 0..Len(bars)
    BY <1>2, <1>3 DEF n
  <2> QED
    BY <2>1, <1>1, CutSorts
<1>6. /\ Sorted(SubSeq(bars, p + 1, n))
      /\ TimesIn(SubSeq(bars, p + 1, n)) = {bars[i].time : i \in (p + 1)..n}
  <2>1. p + 1 \in 1..(Len(bars) + 1) /\ n \in 0..Len(bars)
    BY <1>2, <1>3 DEF n
  <2> QED
    BY <2>1, <1>1, CutSorts
<1>7. \A i \in 1..p, j \in (p + 1)..n : bars[i].time < bars[j].time
  BY <1>2, <1>3
<1> QED
  BY <1>4, <1>5, <1>6, <1>7

-----------------------------------------------------------------------------
(* Resampling *)

MarketKnown == now \in Times /\ listed \in Listings

LEMMA FloorBelow ==
  ASSUME NEW t \in Nat
  PROVE  Floor(t) \in 0..t /\ t < Floor(t) + Interval
<1> DEFINE q == t \div Interval
<1>1. Interval \in Nat \ {0}
  BY HistoryAssumption
<1>2. q \in Nat /\ q * Interval <= t /\ t < q * Interval + Interval
  BY <1>1
<1>3. q * Interval \in Nat
  BY <1>1, <1>2
<1> QED
  BY <1>2, <1>3 DEF Floor

LEMMA FloorsApart ==
  ASSUME NEW t \in Nat, NEW u \in Nat, Floor(t) < Floor(u)
  PROVE  Floor(t) + Interval <= Floor(u)
<1> DEFINE p == t \div Interval
           q == u \div Interval
<1>1. Interval \in Nat \ {0}
  BY HistoryAssumption
<1>2. p \in Nat /\ q \in Nat
  BY <1>1
<1>3. Floor(t) = p * Interval /\ Floor(u) = q * Interval
  BY DEF Floor
<1> HIDE DEF p, q
<1>4. CASE q <= p
  <2>1. q * Interval <= p * Interval
    BY <1>1, <1>2, <1>4
  <2>2. q * Interval \in Nat /\ p * Interval \in Nat
    BY <1>1, <1>2
  <2> QED
    BY <2>1, <2>2, <1>3
<1>5. CASE p < q
  <2>1. (p + 1) * Interval <= q * Interval
    BY <1>1, <1>2, <1>5
  <2>2. (p + 1) * Interval = p * Interval + Interval
    BY <1>1, <1>2
  <2> QED
    BY <2>1, <2>2, <1>3
<1> QED
  BY <1>2, <1>4, <1>5

\* The rows of a file from elsewhere, and the bars read from them, each with the time of its row.
RowOf(rows, i) == Ascending(rows)[i]

LEMMA ExportedRows ==
  ASSUME MarketKnown, NEW s \in Symbols, NEW export
  PROVE  Exported(s, export) \subseteq Times /\ Exported(s, export) \subseteq listed[s]
<1>1. listed[s] \subseteq Times
  BY HistoryAssumption DEF MarketKnown
<1> QED
  BY <1>1 DEF Exported, Visible

LEMMA ReadAnyShape ==
  ASSUME NEW rows, rows \subseteq Times, NEW bars, bars = ReadAny(rows),
         NEW n, n = Cardinality(rows)
  PROVE  /\ n \in Nat /\ bars \in Seq(Bars) /\ DOMAIN bars = 1..n
         /\ \A i \in 1..n :
              /\ RowOf(rows, i) \in rows /\ bars[i].time = Stamp(RowOf(rows, i))
              /\ bars[i].open = Price[RowOf(rows, i)] /\ bars[i].close = Price[RowOf(rows, i)]
              /\ bars[i].high = Price[RowOf(rows, i)] /\ bars[i].low = Price[RowOf(rows, i)]
<1> DEFINE at == Ascending(rows)
<1>1. n \in Nat /\ DOMAIN at = 1..n /\ \A i \in 1..n : at[i] \in rows
  BY TimesFinite, AscendingSorts
<1>2. bars = [i \in 1..n |-> [Bar(at[i]) EXCEPT !.time = Stamp(@)]]
  BY <1>1 DEF ReadAny
<1> HIDE DEF at
<1>3. ASSUME NEW t \in Times
      PROVE  [Bar(t) EXCEPT !.time = Stamp(@)]
               = [time |-> Stamp(t), open |-> Price[t], high |-> Price[t], low |-> Price[t],
                  close |-> Price[t], final |-> t < now]
  BY DEF Bar
<1>4. ASSUME NEW t \in Times PROVE Stamp(t) \in Times /\ Price[t] \in Nat
  BY HistoryAssumption DEF Stamp
<1>5. ASSUME NEW i \in 1..n
      PROVE  /\ bars[i] \in Bars /\ at[i] \in rows /\ bars[i].time = Stamp(at[i])
             /\ bars[i].open = Price[at[i]] /\ bars[i].close = Price[at[i]]
             /\ bars[i].high = Price[at[i]] /\ bars[i].low = Price[at[i]]
  <2>1. at[i] \in rows /\ at[i] \in Times
    BY <1>1
  <2>2. bars[i] = [time |-> Stamp(at[i]), open |-> Price[at[i]], high |-> Price[at[i]],
                   low |-> Price[at[i]], close |-> Price[at[i]], final |-> at[i] < now]
    BY <1>2, <1>3, <2>1
  <2> QED
    BY <1>4, <2>1, <2>2 DEF Bars
<1>6. bars \in Seq(Bars) /\ DOMAIN bars = 1..n
  <2>1. bars \in [1..n -> Bars]
    BY <1>2, <1>5
  <2> QED
    BY <1>1, <2>1, ListOf
<1> QED
  BY <1>1, <1>5, <1>6 DEF RowOf, at

KeySet(bars) == {Floor(b.time) : b \in Range(bars)}

LEMMA KeysSort ==
  ASSUME NEW bars \in Seq(Bars), bars # <<>>,
         NEW m, m = Cardinality(KeySet(bars))
  PROVE  /\ m \in Nat \ {0} /\ DOMAIN Keys(bars) = 1..m /\ Len(Keys(bars)) = m
         /\ KeySet(bars) \subseteq Times
         /\ \A i \in 1..m : Keys(bars)[i] \in KeySet(bars)
         /\ \A i, j \in 1..m : i < j => Keys(bars)[i] < Keys(bars)[j]
         /\ \A k \in KeySet(bars) : \E i \in 1..m : Keys(bars)[i] = k
<1> DEFINE K == KeySet(bars)
<1>1. Keys(bars) = Ascending(K)
  BY DEF Keys, KeySet
<1>2. Len(bars) \in Nat \ {0} /\ \A i \in 1..Len(bars) : bars[i] \in Bars
  BY LenProperties, EmptySeq
<1>3. K \subseteq Times
  <2> SUFFICES ASSUME NEW i \in 1..Len(bars) PROVE Floor(bars[i].time) \in Times
    BY LenProperties DEF KeySet, Range
  <2>1. bars[i].time \in Times /\ bars[i].time \in Nat
    <3>1. bars[i].time \in Times
      BY <1>2 DEF Bars
    <3> QED
      BY <3>1, HistoryAssumption DEF Times
  <2>2. Floor(bars[i].time) \in 0..bars[i].time
    BY <2>1, FloorBelow
  <2> QED
    BY <2>1, <2>2, HistoryAssumption DEF Times
<1>4. K # {}
  BY <1>2, LenProperties DEF KeySet, Range
<1> HIDE DEF K
<1>5. Finite(K) /\ IsFiniteSet(K)
  BY <1>3, TimesFinite DEF Finite
<1>6. Cardinality(K) # 0
  BY <1>4, <1>5, FS_EmptySet
<1>7. /\ m \in Nat /\ DOMAIN Ascending(K) = 1..m
      /\ \A i \in 1..m : Ascending(K)[i] \in K
      /\ \A i, j \in 1..m : i < j => Ascending(K)[i] < Ascending(K)[j]
      /\ \A k \in K : \E i \in 1..m : Ascending(K)[i] = k
  <2>1. m = Cardinality(K)
    BY DEF K
  <2> QED
    BY <2>1, <1>5, AscendingSorts
<1>8. Len(Ascending(K)) = m
  <2>1. Ascending(K) \in [1..m -> K]
    <3>1. Ascending(K) = [i \in 1..m |-> Ascending(K)[i]]
      BY <1>7 DEF Ascending
    <3> QED
      BY <3>1, <1>7
  <2>2. m \in Nat
    BY <1>7
  <2> QED
    BY <2>1, <2>2, ListOf
<1>9. m # 0
  BY <1>6 DEF K
<1> QED
  BY <1>1, <1>3, <1>7, <1>8, <1>9 DEF K

\* The bar of an interval, from its first, its last and its extreme bars.
LEMMA MergedShape ==
  ASSUME NEW bars \in Seq(Bars), NEW key \in Times, key \in KeySet(bars),
         NEW bucket, bucket = Bucket(bars, key)
  PROVE  /\ bucket # {} /\ bucket \subseteq 1..Len(bars) /\ Finite(bucket)
         /\ Min(bucket) \in bucket /\ \A i \in bucket : Min(bucket) <= i
         /\ Max(bucket) \in bucket /\ \A i \in bucket : i <= Max(bucket)
         /\ Merged(bars, key) \in Bars /\ Merged(bars, key).time = key
         /\ Merged(bars, key).open = bars[Min(bucket)].open
         /\ Merged(bars, key).close = bars[Max(bucket)].close
         /\ Merged(bars, key).high = Max({bars[i].high : i \in bucket})
         /\ Merged(bars, key).low = Min({bars[i].low : i \in bucket})
<1>1. /\ Len(bars) \in Nat /\ DOMAIN bars = 1..Len(bars)
      /\ \A i \in 1..Len(bars) : bars[i] \in Bars
  BY LenProperties
<1>2. bucket # {} /\ bucket \subseteq 1..Len(bars)
  BY <1>1 DEF KeySet, Range, Bucket
<1>3. IsFiniteSet(bucket) /\ bucket \subseteq Nat /\ bucket \subseteq Int
  <2>1. IsFiniteSet(1..Len(bars))
    BY <1>1, FS_Interval
  <2>2. IsFiniteSet(bucket)
    BY <1>2, <2>1, FS_Subset
  <2> QED
    BY <1>1, <1>2, <2>2
<1>4. Min(bucket) \in bucket /\ \A i \in bucket : Min(bucket) <= i
  BY <1>2, <1>3, MinOf
<1>5. Max(bucket) \in bucket /\ \A i \in bucket : i <= Max(bucket)
  BY <1>2, <1>3, MaxOf
<1> DEFINE highs == {bars[i].high : i \in bucket}
           lows == {bars[i].low : i \in bucket}
<1>6. /\ highs \subseteq Nat /\ highs # {} /\ lows \subseteq Nat /\ lows # {}
  <2>1. \A i \in bucket : bars[i].high \in Nat /\ bars[i].low \in Nat
    BY <1>1, <1>2 DEF Bars
  <2> QED
    BY <2>1, <1>2
<1>7. IsFiniteSet(highs)
  <2>1. [i \in bucket |-> bars[i].high] \in Surjection(bucket, highs)
    BY DEF Surjection
  <2> QED
    BY <2>1, <1>3, FS_Surjection
<1>8. Merged(bars, key) = [time |-> key, open |-> bars[Min(bucket)].open,
                           close |-> bars[Max(bucket)].close, high |-> Max(highs), low |-> Min(lows),
                           final |-> TRUE]
  BY DEF Merged
<1> HIDE DEF highs, lows
<1>9. Max(highs) \in Nat /\ Min(lows) \in Nat
  BY <1>6, <1>7, MaxOf, MinOf
<1>10. bars[Min(bucket)].open \in Nat /\ bars[Max(bucket)].close \in Nat
  BY <1>1, <1>2, <1>4, <1>5 DEF Bars
<1>11. Merged(bars, key) \in Bars
  BY <1>8, <1>9, <1>10 DEF Bars
<1> QED
  BY <1>2, <1>3, <1>4, <1>5, <1>8, <1>11 DEF highs, lows, Finite

Whole(bars) ==
  LET wanted == IF HasInterval(bars) THEN Interval \div SourceInterval(bars) ELSE 1
  IN  ~(wanted > 1 /\ Cardinality(Bucket(bars, Last(Keys(bars)))) < wanted)

\* What resample returns: the bars of all intervals, but for a last one that is not whole.
LEMMA ResampleSorts ==
  ASSUME NEW bars \in Seq(Bars), bars # <<>>,
         NEW m, m = Cardinality(KeySet(bars))
  PROVE  /\ Sorted(Resample(bars))
         /\ \A b \in Range(Resample(bars)) : \E i \in 1..m :
              b = Merged(bars, Keys(bars)[i]) /\ (i = m => Whole(bars))
<1> DEFINE all == AllMerged(bars)
<1>1. /\ m \in Nat \ {0} /\ DOMAIN Keys(bars) = 1..m
      /\ \A i \in 1..m : Keys(bars)[i] \in KeySet(bars) /\ Keys(bars)[i] \in Times
      /\ \A i, j \in 1..m : i < j => Keys(bars)[i] < Keys(bars)[j]
  BY KeysSort
<1>2. all = [i \in 1..m |-> Merged(bars, Keys(bars)[i])]
  BY <1>1 DEF AllMerged
<1>3. \A i \in 1..m : /\ all[i] \in Bars /\ all[i].time = Keys(bars)[i]
                     /\ all[i] = Merged(bars, Keys(bars)[i])
  <2> SUFFICES ASSUME NEW i \in 1..m
               PROVE  /\ Merged(bars, Keys(bars)[i]) \in Bars
                      /\ Merged(bars, Keys(bars)[i]).time = Keys(bars)[i]
    BY <1>2
  <2>1. Keys(bars)[i] \in Times /\ Keys(bars)[i] \in KeySet(bars)
    BY <1>1
  <2> QED
    BY <2>1, MergedShape
<1>4. all \in Seq(Bars) /\ Len(all) = m /\ DOMAIN all = 1..m /\ Range(all) = {all[i] : i \in 1..m}
  <2>1. all \in [1..m -> Bars] /\ m \in Nat
    BY <1>1, <1>2, <1>3
  <2> HIDE DEF all
  <2> QED
    BY <2>1, ListOf
<1> HIDE DEF all
<1>5. Sorted(all)
  BY <1>1, <1>3, <1>4 DEF Sorted, Increasing
<1>6. CASE Whole(bars)
  <2>1. Resample(bars) = all
    BY <1>6 DEF Resample, Whole, all
  <2>2. \A b \in Range(all) : \E i \in 1..m : b = Merged(bars, Keys(bars)[i])
    BY <1>3, <1>4
  <2> QED
    BY <1>5, <1>6, <2>1, <2>2
<1>7. CASE ~Whole(bars)
  <2> DEFINE front == SubSeq(all, 1, m - 1)
  <2>1. Resample(bars) = front
    BY <1>4, <1>7 DEF Resample, Whole, all, Front
  <2>2. 1 \in 1..(Len(all) + 1) /\ m - 1 \in 0..Len(all) /\ \A i \in 1..(m - 1) : i \in 1..m /\ i # m
    BY <1>1, <1>4
  <2>3. Sorted(front)
    BY <1>5, <2>2, CutSorts
  <2>4. DOMAIN front = 1..(m - 1) /\ \A i \in 1..(m - 1) : front[i] = all[i]
    <3>1. \A i \in 1..(m - 1) : all[i] \in Bars
      BY <1>1, <1>3
    <3>2. /\ front \in Seq(Bars) /\ Len(front) = (IF 1 <= m - 1 THEN (m - 1) - 1 + 1 ELSE 0)
          /\ \A i \in 1..((m - 1) - 1 + 1) : front[i] = all[1 + i - 1]
      <4>1. 1 \in Int /\ m - 1 \in Int
        BY <1>1
      <4> HIDE DEF front
      <4> QED
        BY <3>1, <4>1, SubSeqProperties DEF front
    <3>3. Len(front) = m - 1 /\ (m - 1) - 1 + 1 = m - 1 /\ \A i \in 1..(m - 1) : 1 + i - 1 = i
      BY <1>1, <3>2
    <3> HIDE DEF front
    <3> QED
      BY <3>2, <3>3, LenProperties
  <2> HIDE DEF front
  <2>5. \A b \in Range(front) : \E i \in 1..m : b = Merged(bars, Keys(bars)[i]) /\ i # m
    <3> SUFFICES ASSUME NEW i \in 1..(m - 1)
                 PROVE  i \in 1..m /\ i # m /\ front[i] = Merged(bars, Keys(bars)[i])
      BY <2>4 DEF Range
    <3> QED
      BY <1>3, <2>2, <2>4
  <2> QED
    BY <2>1, <2>3, <2>5
<1> QED
  BY <1>6, <1>7

\* The rows are those in the bucket of their interval, in their order.
LEMMA RowsAscend ==
  ASSUME NEW rows, rows \subseteq Times, NEW n, n = Cardinality(rows)
  PROVE  /\ \A i, j \in 1..n : i < j => RowOf(rows, i) < RowOf(rows, j)
         /\ \A t \in rows : \E i \in 1..n : RowOf(rows, i) = t
  BY TimesFinite, AscendingSorts DEF RowOf

LEMMA Neighbours ==
  ASSUME FoldAt = NoTime, NEW rows, rows \subseteq Times, NEW bars, bars = ReadAny(rows),
         NEW t, t \in rows, t + 1 \in rows
  PROVE  HasInterval(bars) /\ SourceInterval(bars) = 1
<1> DEFINE n == Cardinality(rows)
           D == {d \in 1..Horizon : \E i, j \in DOMAIN bars : bars[j].time - bars[i].time = d}
<1>1. DOMAIN bars = 1..n /\ \A i \in 1..n : bars[i].time = RowOf(rows, i) /\ RowOf(rows, i) \in rows
  BY ReadAnyShape DEF Stamp
<1>2. PICK i \in 1..n : RowOf(rows, i) = t
  BY RowsAscend
<1>3. PICK j \in 1..n : RowOf(rows, j) = t + 1
  BY RowsAscend
<1>4. t \in Nat /\ t + 1 \in 0..Horizon /\ Horizon \in Nat
  BY HistoryAssumption DEF Times
<1>5. 1 \in 1..Horizon /\ bars[j].time - bars[i].time = 1
  BY <1>1, <1>2, <1>3, <1>4
<1>6. 1 \in D
  BY <1>1, <1>5
<1>7. \A d \in D : d \in Int /\ 1 <= d
  BY <1>4
<1> HIDE DEF D
<1>8. Min(D) = 1
  <2>1. Min(D) \in D /\ \A d \in D : Min(D) <= d
    BY <1>6, <1>7 DEF Min
  <2>2. Min(D) \in Int /\ Min(D) <= 1 /\ 1 <= Min(D)
    BY <2>1, <1>6, <1>7
  <2> QED
    BY <2>2
<1> DEFINE stamps == BarTimes(Range(bars))
<1>9. t \in stamps /\ t + 1 \in stamps /\ stamps \subseteq Times
  BY <1>1, <1>2, <1>3 DEF BarTimes, Range
<1> HIDE DEF stamps
<1>10. IsFiniteSet(stamps) /\ Cardinality(stamps) \in Nat
  <2>1. IsFiniteSet(stamps)
    BY <1>9, TimesFinite DEF Finite
  <2> QED
    BY <2>1, FS_CardinalityType
<1>11. Cardinality(stamps) > 1
  <2>1. IsFiniteSet({t, t + 1}) /\ Cardinality({t, t + 1}) = 2
    <3>1. t # t + 1
      BY <1>4
    <3>2. IsFiniteSet({t}) /\ Cardinality({t}) = 1
      BY FS_Singleton
    <3>3. IsFiniteSet({t} \union {t + 1}) /\ Cardinality({t} \union {t + 1}) = 1 + 1
      BY <3>1, <3>2, FS_AddElement
    <3>4. {t} \union {t + 1} = {t, t + 1}
      OBVIOUS
    <3> QED
      BY <3>3, <3>4
  <2>2. {t, t + 1} \subseteq stamps
    BY <1>9
  <2>3. Cardinality({t, t + 1}) <= Cardinality(stamps)
    BY <1>10, <2>2, FS_Subset
  <2> QED
    BY <1>10, <2>1, <2>3
<1> QED
  BY <1>8, <1>11 DEF SourceInterval, D, HasInterval, stamps

\* What the property claims of an imported bar.
WholeBar(s, b, rows) ==
  LET inside == {t \in rows : Floor(t) = b.time}
  IN  /\ inside # {}
      /\ b.open = Price[Min(inside)] /\ b.close = Price[Max(inside)]
      /\ b.high = Max({Price[t] : t \in inside}) /\ b.low = Min({Price[t] : t \in inside})
      /\ \A t \in listed[s] \ rows : Floor(t) = b.time => t < Max(rows)

LEMMA ImportIsWhole ==
  ASSUME MarketKnown, FoldAt = NoTime, NEW s \in Symbols, NEW rows, rows \subseteq Times,
         NEW bars, bars = ReadAny(rows), bars # <<>>,
         NEW next, next \in rows, next + 1 \in rows, NEW b \in Range(Resample(bars))
  PROVE  WholeBar(s, b, rows)
<1> DEFINE n == Cardinality(rows)
           m == Cardinality(KeySet(bars))
           row(i) == RowOf(rows, i)
<1>1. /\ n \in Nat /\ bars \in Seq(Bars) /\ DOMAIN bars = 1..n
      /\ \A i \in 1..n :
              /\ row(i) \in rows /\ bars[i].time = row(i)
              /\ bars[i].open = Price[row(i)] /\ bars[i].close = Price[row(i)]
              /\ bars[i].high = Price[row(i)] /\ bars[i].low = Price[row(i)]
  BY ReadAnyShape DEF Stamp
<1>2. /\ \A i, j \in 1..n : i < j => row(i) < row(j)
      /\ \A t \in rows : \E i \in 1..n : row(i) = t
  BY RowsAscend
<1>3. /\ rows \subseteq Nat /\ listed[s] \subseteq Nat /\ Finite(rows)
      /\ Max(rows) \in Nat /\ \A t \in rows : t <= Max(rows)
  <2>1. listed[s] \subseteq Times /\ Times \subseteq Nat
    BY HistoryAssumption DEF MarketKnown, Times
  <2>2. Finite(rows) /\ rows # {}
    BY TimesFinite
  <2> QED
    BY <2>1, <2>2, MaxOf DEF Finite
<1>4. KeySet(bars) = {Floor(t) : t \in rows}
  <2>1. KeySet(bars) = {Floor(row(i)) : i \in 1..n}
    BY <1>1 DEF KeySet, Range
  <2> QED
    BY <2>1, <1>1, <1>2
<1>5. /\ m \in Nat \ {0} /\ Len(Keys(bars)) = m /\ KeySet(bars) \subseteq Times
      /\ \A i \in 1..m : Keys(bars)[i] \in KeySet(bars)
      /\ \A i, j \in 1..m : i < j => Keys(bars)[i] < Keys(bars)[j]
  BY <1>1, KeysSort
<1>6. PICK p \in 1..m : b = Merged(bars, Keys(bars)[p]) /\ (p = m => Whole(bars))
  BY <1>1, ResampleSorts
<1> DEFINE key == Keys(bars)[p]
           bucket == Bucket(bars, key)
           inside == {t \in rows : Floor(t) = key}
<1> HIDE DEF n, m, row
<1>7. key \in KeySet(bars) /\ key \in Times /\ key \in Nat
  <2>1. key \in KeySet(bars)
    BY <1>5, <1>6
  <2> HIDE DEF key
  <2>2. key \in Times
    BY <1>5, <2>1
  <2>3. Times \subseteq Nat
    BY HistoryAssumption DEF Times
  <2> QED
    BY <2>1, <2>2, <2>3
<1>8. /\ bucket # {} /\ bucket \subseteq 1..n /\ IsFiniteSet(bucket)
      /\ Min(bucket) \in bucket /\ \A i \in bucket : Min(bucket) <= i
      /\ Max(bucket) \in bucket /\ \A i \in bucket : i <= Max(bucket)
      /\ b.time = key
      /\ b.open = bars[Min(bucket)].open /\ b.close = bars[Max(bucket)].close
      /\ b.high = Max({bars[i].high : i \in bucket}) /\ b.low = Min({bars[i].low : i \in bucket})
  <2> HIDE DEF key
  <2>1. b = Merged(bars, key)
    BY <1>6 DEF key
  <2>2. bucket \subseteq 1..n
    BY <1>1 DEF Bucket
  <2> HIDE DEF bucket
  <2>3. bucket = Bucket(bars, key)
    BY DEF bucket
  <2>4. /\ bucket # {} /\ Finite(bucket)
        /\ Min(bucket) \in bucket /\ \A i \in bucket : Min(bucket) <= i
        /\ Max(bucket) \in bucket /\ \A i \in bucket : i <= Max(bucket)
        /\ Merged(bars, key).time = key
        /\ Merged(bars, key).open = bars[Min(bucket)].open
        /\ Merged(bars, key).close = bars[Max(bucket)].close
        /\ Merged(bars, key).high = Max({bars[i].high : i \in bucket})
        /\ Merged(bars, key).low = Min({bars[i].low : i \in bucket})
    <3>1. bars \in Seq(Bars)
      BY <1>1
    <3> QED
      BY <1>7, <2>3, <3>1, MergedShape
  <2>5. IsFiniteSet(bucket)
    BY <2>4 DEF Finite
  <2> QED
    BY <2>1, <2>2, <2>4, <2>5
<1>9. \A t \in Nat : Floor(t) = key => key <= t /\ t < key + Interval
  BY FloorBelow
<1>10. \A i \in bucket : Floor(row(i)) = key /\ key <= row(i) /\ row(i) < key + Interval
  <2>1. \A i \in bucket : Floor(row(i)) = key /\ row(i) \in rows
    BY <1>1, <1>8 DEF Bucket
  <2> QED
    BY <2>1, <1>3, <1>9
<1>11. \A t \in listed[s] \ rows : Floor(t) = key => t < Max(rows)
  <2> SUFFICES ASSUME NEW t \in listed[s], t \notin rows, Floor(t) = key PROVE t < Max(rows)
    OBVIOUS
  <2>1. t \in Nat /\ key <= t /\ t < key + Interval /\ Interval \in Nat \ {0}
    BY <1>3, <1>9, HistoryAssumption
  <2>2. CASE p # m
    <3>1. p < m /\ m \in 1..m
      BY <1>5, <2>2
    <3>2. Keys(bars)[m] \in KeySet(bars) /\ key < Keys(bars)[m]
      BY <1>5, <3>1
    <3>3. PICK u \in rows : Keys(bars)[m] = Floor(u)
      BY <1>4, <3>2
    <3>4. u \in Nat /\ u <= Max(rows)
      BY <1>3
    <3>5. Floor(u) \in 0..u /\ key + Interval <= Floor(u)
      <4> HIDE DEF key
      <4> QED
        BY <2>1, <3>2, <3>3, <3>4, FloorBelow, FloorsApart
    <3> HIDE DEF key
    <3> QED
      BY <1>3, <1>7, <2>1, <3>4, <3>5
  <2>3. CASE p = m
    <3>1. Interval \div SourceInterval(bars) = Interval
      <4>1. SourceInterval(bars) = 1
        BY Neighbours
      <4> QED
        BY <2>1, <4>1
    <3>2. Last(Keys(bars)) = key
      BY <1>5, <2>3 DEF Last
    <3>3. ~(Interval > 1 /\ Cardinality(bucket) < Interval)
      <4>1. Whole(bars) /\ HasInterval(bars)
        BY <1>6, <2>3, Neighbours
      <4> HIDE DEF key, bucket
      <4>2. bucket = Bucket(bars, key)
        BY DEF bucket
      <4> QED
        BY <3>1, <3>2, <4>1, <4>2 DEF Whole
    <3>4. PICK i \in bucket : key <= row(i) /\ row(i) < key + Interval /\ row(i) # t
      BY <1>1, <1>8, <1>10
    <3>5. row(i) \in Nat
      BY <1>1, <1>3, <1>8
    <3> HIDE DEF bucket, inside, key
    <3>6. Interval > 1
      BY <1>3, <1>7, <2>1, <3>4, <3>5
    <3> DEFINE free == (key..(key + Interval - 1)) \ {t}
               g == [j \in bucket |-> row(j)]
    <3>7. IsFiniteSet(free) /\ Cardinality(free) = Interval - 1
      <4> DEFINE last == key + Interval - 1
                 inner == key..last
      <4>1. key \in Int /\ last \in Int /\ key <= last /\ last - key + 1 = Interval /\ t \in inner
        BY <1>7, <2>1
      <4>2. free = inner \ {t}
        OBVIOUS
      <4> HIDE DEF last, free
      <4>3. IsFiniteSet(inner) /\ Cardinality(inner) = Interval
        BY <4>1, FS_Interval
      <4> HIDE DEF inner
      <4>4. IsFiniteSet(inner \ {t}) /\ Cardinality(inner \ {t}) = Cardinality(inner) - 1
        BY <4>1, <4>3, FS_RemoveElement
      <4> QED
        BY <4>2, <4>3, <4>4
    <3>8. g \in [bucket -> free]
      <4> SUFFICES ASSUME NEW j \in bucket PROVE row(j) \in free
        OBVIOUS
      <4>1. row(j) \in Nat /\ key <= row(j) /\ row(j) < key + Interval /\ row(j) # t
        BY <1>1, <1>3, <1>8, <1>10
      <4> QED
        BY <1>3, <1>7, <2>1, <4>1
    <3>9. \A j, k \in bucket : g[j] = g[k] => j = k
      <4> SUFFICES ASSUME NEW j \in bucket, NEW k \in bucket, row(j) = row(k) PROVE j = k
        OBVIOUS
      <4>1. j \in 1..n /\ k \in 1..n /\ row(j) \in Nat
        BY <1>1, <1>3, <1>8
      <4>2. ~(j < k) /\ ~(k < j)
        BY <1>2, <4>1
      <4> QED
        BY <1>1, <4>1, <4>2
    <3> HIDE DEF free, g
    <3>10. Cardinality(bucket) \in Nat
      BY <1>8, FS_CardinalityType
    <3>11. ~(Cardinality(free) < Cardinality(bucket))
      <4> SUFFICES ASSUME Cardinality(free) < Cardinality(bucket) PROVE FALSE
        OBVIOUS
      <4>1. IsFiniteSet(bucket) /\ IsFiniteSet(free)
        BY <1>8, <3>7
      <4>2. \E j, k \in bucket : j # k /\ g[j] = g[k]
        BY <4>1, <3>8, FS_PigeonHole
      <4> QED
        BY <3>9, <4>2
    <3> QED
      BY <2>1, <3>3, <3>6, <3>7, <3>10, <3>11
  <2> QED
    BY <2>2, <2>3
<1>12. inside = {row(i) : i \in bucket}
  <2>1. \A t \in inside : \E i \in bucket : row(i) = t
    <3> SUFFICES ASSUME NEW t \in inside PROVE \E i \in bucket : row(i) = t
      OBVIOUS
    <3>1. PICK i \in 1..n : row(i) = t
      BY <1>2
    <3> QED
      BY <1>1, <3>1 DEF Bucket
  <2>2. \A i \in bucket : row(i) \in inside
    BY <1>1, <1>8, <1>10
  <2> HIDE DEF bucket, inside
  <2> QED
    BY <2>1, <2>2
<1>13. inside \subseteq Nat /\ inside # {} /\ IsFiniteSet(inside)
  <2>1. inside \subseteq rows
    OBVIOUS
  <2>3. \E t : t \in inside
    <3> HIDE DEF bucket, inside
    <3> QED
      BY <1>8, <1>12
  <2> HIDE DEF inside
  <2>2. IsFiniteSet(inside)
    BY <1>3, <2>1, FS_Subset DEF Finite
  <2> QED
    BY <1>3, <2>1, <2>2, <2>3
<1> HIDE DEF key, bucket, inside
<1>14. Min(inside) = row(Min(bucket))
  <2>1. Min(inside) \in inside /\ \A t \in inside : Min(inside) <= t
    BY <1>13, MinOf
  <2>2. PICK i \in bucket : Min(inside) = row(i)
    BY <1>12, <2>1
  <2>3. Min(inside) <= row(Min(bucket))
    BY <1>8, <1>12, <2>1
  <2>4. /\ Min(bucket) \in 1..n /\ i \in 1..n /\ Min(bucket) <= i
        /\ row(i) \in Nat /\ row(Min(bucket)) \in Nat
    BY <1>1, <1>3, <1>8
  <2>5. Min(bucket) < i => row(Min(bucket)) < row(i)
    BY <1>2, <2>4
  <2>6. i = Min(bucket)
    BY <1>1, <2>2, <2>3, <2>4, <2>5
  <2> QED
    BY <2>2, <2>6
<1>15. Max(inside) = row(Max(bucket))
  <2>1. Max(inside) \in inside /\ \A t \in inside : t <= Max(inside)
    BY <1>13, MaxOf
  <2>2. PICK i \in bucket : Max(inside) = row(i)
    BY <1>12, <2>1
  <2>3. row(Max(bucket)) <= Max(inside)
    BY <1>8, <1>12, <2>1
  <2>4. /\ Max(bucket) \in 1..n /\ i \in 1..n /\ i <= Max(bucket)
        /\ row(i) \in Nat /\ row(Max(bucket)) \in Nat
    BY <1>1, <1>3, <1>8
  <2>5. i < Max(bucket) => row(i) < row(Max(bucket))
    BY <1>2, <2>4
  <2>6. i = Max(bucket)
    BY <1>1, <2>2, <2>3, <2>4, <2>5
  <2> QED
    BY <2>2, <2>6
<1>16. \A i \in bucket : /\ bars[i].open = Price[row(i)] /\ bars[i].close = Price[row(i)]
                        /\ bars[i].high = Price[row(i)] /\ bars[i].low = Price[row(i)]
  BY <1>1, <1>8
<1>17. {bars[i].high : i \in bucket} = {Price[t] : t \in inside}
  BY <1>12, <1>16
<1>18. {bars[i].low : i \in bucket} = {Price[t] : t \in inside}
  BY <1>12, <1>16
<1>19. b.open = Price[Min(inside)] /\ b.close = Price[Max(inside)]
  BY <1>8, <1>14, <1>15, <1>16
<1>20. inside = {t \in rows : Floor(t) = b.time}
  BY <1>8 DEF inside
<1>21. \A t \in listed[s] \ rows : Floor(t) = b.time => t < Max(rows)
  BY <1>8, <1>11
<1> QED
  BY <1>8, <1>13, <1>17, <1>18, <1>19, <1>20, <1>21 DEF WholeBar

-----------------------------------------------------------------------------
(* The inductive invariant *)

Candidates == [bar : Bars, complete : BOOLEAN]

Fetches ==
  [symbol : Symbols, broker : Brokers, start : Int, end : Times \union {NoTime},
   cursor : Times \union {NoTime}, requests : 1..MaxRequests, collected : SUBSET Candidates,
   answer : {NoAnswer} \union SUBSET Bars, at : Times, misled : BOOLEAN]

FetchTyped == fetch # NoFetch => fetch \in Fetches /\ fetch.at <= now

\* What OANDA calls complete was finished; what the ccxt adapter does need not be.
SaidFinished ==
  fetch # NoFetch /\ fetch.broker = "oanda" => \A c \in fetch.collected : c.complete => c.bar.final

\* What the ccxt adapter was answered while it was still forming is the newest of all: each
\* page is of the time before what is collected, and was over when that was answered.
FormingIsNewest ==
  fetch # NoFetch /\ fetch.broker = "ccxt" =>
    /\ \A c, d \in fetch.collected : ~c.bar.final => d.bar.time <= c.bar.time
    /\ fetch.collected # {} =>
         /\ fetch.cursor # NoTime /\ fetch.cursor <= now
         /\ \A c \in fetch.collected : fetch.cursor <= c.bar.time
    /\ fetch.answer # NoAnswer =>
         /\ \A b \in fetch.answer : b.time <= now
         /\ \A b, d \in fetch.answer : ~b.final => d.time <= b.time
         /\ fetch.collected # {} => \A b \in fetch.answer : Before(b.time, fetch.cursor) => b.final

\* Nothing between two pages: a bar from the cursor on that was over at the start is there.
SearchedBack ==
  fetch # NoFetch /\ ~fetch.misled =>
    /\ IF fetch.collected = {} THEN fetch.cursor = fetch.end
       ELSE /\ fetch.cursor \in listed[fetch.symbol] /\ fetch.cursor <= now
            /\ \A c \in fetch.collected : fetch.cursor <= c.bar.time
    /\ \A t \in listed[fetch.symbol] :
         t < fetch.at /\ Before(t, fetch.end) /\ ~Before(t, fetch.cursor) =>
           \E c \in fetch.collected : c.bar.time = t /\ c.complete

\* Nothing inside a page, and a page without bars only where the property allows for one.
PageFits ==
  fetch # NoFetch /\ fetch.answer # NoAnswer /\ ~fetch.misled =>
    /\ \A b \in fetch.answer :
         /\ b.time \in listed[fetch.symbol] /\ b.time <= now
         /\ b.time < fetch.at => b.final
         /\ fetch.broker = "oanda" => Before(b.time, fetch.cursor)
    /\ \A t \in listed[fetch.symbol] :
         t < fetch.at /\ Before(t, fetch.cursor) /\ t \notin BarTimes(fetch.answer) =>
           /\ \A u \in BarTimes(fetch.answer) : Before(u, fetch.cursor) => t < u
           /\ \/ \E u \in BarTimes(fetch.answer) : Before(u, fetch.cursor)
              \/ fetch.collected = {}
              \/ /\ fetch.broker = "ccxt" /\ fetch.cursor # NoTime /\ t < fetch.cursor - Limit
                 /\ listed[fetch.symbol] \intersect ((fetch.cursor - Limit)..(fetch.cursor - 1)) = {}

Writers == {"ccxt", "oanda", "download", "import"}

Files == [bars : Seq(Bars), by : Writers, since : Int, until : Times \union {NoTime},
          at : Times, cut : BOOLEAN, rows : SUBSET Times]

\* The end of what a fetch is answerable for: nothing that was not over when it began.
EndOf(file) == IF file.until = NoTime \/ file.until > file.at THEN file.at ELSE file.until

FileIsComplete(s, file) ==
  file.by \in Brokers /\ ~file.cut =>
    \A t \in listed[s] :
      file.since <= t /\ t < EndOf(file) /\ ~(file.by = "ccxt" /\ PageWithoutBars(s, t, file.until)) =>
        t \in TimesIn(file.bars)

FileIsFinished(file) ==
  file.by \in Brokers =>
    \A i \in DOMAIN file.bars : ~file.bars[i].final => file.by = "ccxt" /\ i = Len(file.bars)

FileIsWhole(s, file) ==
  FoldAt = NoTime /\ file.by = "import" /\ HasNeighbours(file.rows) =>
    \A b \in Range(file.bars) : WholeBar(s, b, file.rows)

GoodFile(s, file) ==
  /\ file \in Files /\ Sorted(file.bars)
  /\ FileIsComplete(s, file) /\ FileIsFinished(file) /\ FileIsWhole(s, file)

FilesGood ==
  /\ files \in [Symbols -> Files \union {NoFile}]
  /\ \A s \in Symbols : files[s] # NoFile => GoodFile(s, files[s])

HInv ==
  /\ MarketKnown /\ FetchTyped /\ SaidFinished /\ FormingIsNewest /\ SearchedBack /\ PageFits
  /\ FilesGood

LEMMA LimitPositive == Limit \in Nat \ {0}
  BY HistoryAssumption DEF Limit

-----------------------------------------------------------------------------
(* One page *)

\* The newest ones: whatever is left out is older than all of them.
LEMMA NewestOf ==
  ASSUME NEW S, Finite(S), S \subseteq Nat, NEW k \in Nat \ {0}
  PROVE  /\ Newest(k, S) \subseteq S
         /\ \A t \in S, u \in Newest(k, S) : t \notin Newest(k, S) => t < u
         /\ S # {} => Newest(k, S) # {}
<1> DEFINE Above(x) == {y \in S : y > x}
<1>1. \A x \in S : x \in Newest(k, S) <=> Cardinality(Above(x)) < k
  BY DEF Newest
<1>2. \A x \in S : IsFiniteSet(Above(x)) /\ Cardinality(Above(x)) \in Nat
  <2> SUFFICES ASSUME NEW x \in S PROVE IsFiniteSet(Above(x)) /\ Cardinality(Above(x)) \in Nat
    OBVIOUS
  <2>1. Above(x) \subseteq S /\ IsFiniteSet(S)
    BY DEF Finite
  <2> HIDE DEF Above
  <2>2. IsFiniteSet(Above(x))
    BY <2>1, FS_Subset
  <2> QED
    BY <2>2, FS_CardinalityType
<1>3. ASSUME NEW t \in S, NEW u \in Newest(k, S), t \notin Newest(k, S) PROVE t < u
  <2> SUFFICES ASSUME u <= t PROVE FALSE
    BY DEF Newest
  <2>1. u \in S /\ Cardinality(Above(u)) < k /\ ~(Cardinality(Above(t)) < k)
    BY <1>1, <1>3 DEF Newest
  <2>2. Above(t) \subseteq Above(u)
    <3> SUFFICES ASSUME NEW y \in S, y > t PROVE y > u
      OBVIOUS
    <3>1. y \in Nat /\ t \in Nat /\ u \in Nat /\ u <= t
      BY <2>1
    <3> QED
      BY <3>1
  <2>3. /\ IsFiniteSet(Above(t)) /\ IsFiniteSet(Above(u))
        /\ Cardinality(Above(t)) \in Nat /\ Cardinality(Above(u)) \in Nat
    BY <1>2, <2>1
  <2> HIDE DEF Above
  <2>4. Cardinality(Above(t)) <= Cardinality(Above(u))
    BY <2>2, <2>3, FS_Subset
  <2> QED
    BY <2>1, <2>3, <2>4
<1>4. ASSUME S # {} PROVE Newest(k, S) # {}
  <2>1. Max(S) \in S /\ \A y \in S : y <= Max(S)
    BY <1>4, MaxOf DEF Finite
  <2>2. Above(Max(S)) = {}
    <3> SUFFICES ASSUME NEW y \in S, y > Max(S) PROVE FALSE
      OBVIOUS
    <3>1. y \in Nat /\ Max(S) \in Nat /\ y <= Max(S)
      BY <2>1
    <3> QED
      BY <3>1
  <2>3. Cardinality(Above(Max(S))) = 0
    BY <2>2, FS_EmptySet
  <2>4. Max(S) \in Newest(k, S)
    <3>1. 0 < k
      OBVIOUS
    <3>2. Cardinality({y \in S : y > Max(S)}) < k
      BY <2>3, <3>1
    <3> QED
      BY <2>1, <3>2 DEF Newest
  <2> QED
    BY <2>4
<1> QED
  BY <1>3, <1>4 DEF Newest

\* The oldest ones from a page before `to` on: all there are before `to`.
LEMMA OldestOf ==
  ASSUME NEW V, Finite(V), NEW k \in Nat \ {0}, NEW to \in Int, NEW t \in V, t < to, to - k <= t
  PROVE  t \in Oldest(k, {x \in V : x >= to - k})
<1> DEFINE S == {x \in V : x >= to - k}
           before == {y \in S : y < t}
           room == (to - k)..(t - 1)
<1>1. t \in S /\ t \in Int /\ \A y \in S : y \in Int /\ to - k <= y
  BY DEF Finite
<1>2. before \subseteq room
  <2> SUFFICES ASSUME NEW y \in S, y < t PROVE y \in room
    OBVIOUS
  <2>1. y \in Int /\ to - k <= y /\ y <= t - 1
    BY <1>1
  <2> QED
    BY <1>1, <2>1
<1>3. IsFiniteSet(room) /\ Cardinality(room) < k /\ Cardinality(room) \in Nat
  <2>1. to - k \in Int /\ t - 1 \in Int
    BY <1>1
  <2>2. IsFiniteSet(room) /\ Cardinality(room) = IF to - k > t - 1 THEN 0 ELSE (t - 1) - (to - k) + 1
    BY <2>1, FS_Interval
  <2> HIDE DEF room
  <2> QED
    BY <1>1, <2>2
<1>4. t \in Oldest(k, S) <=> Cardinality(before) < k
  BY <1>1 DEF Oldest
<1> HIDE DEF S, before, room
<1>5. IsFiniteSet(before) /\ Cardinality(before) <= Cardinality(room)
  BY <1>2, <1>3, FS_Subset
<1>6. Cardinality(before) \in Nat
  BY <1>5, FS_CardinalityType
<1> QED
  BY <1>3, <1>4, <1>5, <1>6 DEF S

\* What there is to answer from is finite, and what is over has been traded.
LEMMA VisibleOnes ==
  ASSUME MarketKnown, NEW s \in Symbols
  PROVE  /\ now \in Nat /\ listed[s] \subseteq Nat
         /\ Visible(s) = {t \in listed[s] : t <= now} /\ Visible(s) \subseteq Times
         /\ \A T : T \subseteq Visible(s) => Finite(T) /\ T \subseteq Nat
<1>1. listed[s] \subseteq Times /\ now \in Nat /\ Times \subseteq Nat
  BY HistoryAssumption DEF MarketKnown, Times
<1>2. Visible(s) \subseteq Times /\ Visible(s) = {t \in listed[s] : t <= now}
  BY <1>1 DEF Visible
<1>3. ASSUME NEW T, T \subseteq Visible(s) PROVE Finite(T) /\ T \subseteq Nat
  <2>1. T \subseteq Times
    BY <1>2, <1>3
  <2> QED
    BY <2>1, TimesFinite
<1> QED
  BY <1>1, <1>2, <1>3

LEMMA BarOf ==
  ASSUME NEW T, T \subseteq Times
  PROVE  /\ {Bar(t) : t \in T} \subseteq Bars /\ BarTimes({Bar(t) : t \in T}) = T
         /\ \A b \in {Bar(t) : t \in T} : b.time \in T /\ b.final = (b.time < now)
<1>1. \A t \in T : Bar(t) \in Bars /\ Bar(t).time = t /\ Bar(t).final = (t < now)
  BY HistoryAssumption DEF Bar, Bars
<1> QED
  BY <1>1 DEF BarTimes

LEMMA FetchFields ==
  ASSUME HInv, fetch # NoFetch
  PROVE  /\ fetch.symbol \in Symbols /\ fetch.broker \in {"ccxt", "oanda"} /\ fetch.start \in Int
         /\ fetch.end \in Times \union {NoTime} /\ fetch.cursor \in Times \union {NoTime}
         /\ fetch.at \in Nat /\ fetch.at <= now /\ now \in Nat /\ fetch.misled \in BOOLEAN
         /\ fetch.collected \subseteq Candidates
         /\ fetch.cursor # NoTime => fetch.cursor \in Nat
         /\ fetch.end # NoTime => fetch.end \in Nat
  BY HistoryAssumption DEF HInv, FetchTyped, Fetches, MarketKnown, Times

LEMMA RowsVisible ==
  ASSUME NEW s, NEW end
  PROVE  Rows(s, end) \subseteq Visible(s)
  BY DEF Rows, Newest, Oldest

\* The page before the cursor, with a server that looks for it there.
LEMMA RowsFit ==
  ASSUME HInv, fetch # NoFetch, ~fetch.misled,
         NEW s, s = fetch.symbol, NEW q, q = fetch.cursor, NEW T, T = Rows(s, q),
         NEW t \in listed[s], t < fetch.at, Before(t, q), t \notin T
  PROVE  /\ \A u \in T : Before(u, q) => t < u
         /\ \/ \E u \in T : Before(u, q)
            \/ fetch.collected = {}
            \/ /\ fetch.broker = "ccxt" /\ q # NoTime /\ t < q - Limit
               /\ listed[s] \intersect ((q - Limit)..(q - 1)) = {}
<1>1. /\ s \in Symbols /\ fetch.at \in Nat /\ fetch.at <= now /\ MarketKnown
      /\ q # NoTime => q \in Nat
  BY FetchFields DEF HInv
<1>2. /\ now \in Nat /\ listed[s] \subseteq Nat /\ Visible(s) = {x \in listed[s] : x <= now}
      /\ \A X : X \subseteq Visible(s) => Finite(X) /\ X \subseteq Nat
  BY <1>1, VisibleOnes
<1>3. t \in Nat /\ t \in Visible(s)
  BY <1>1, <1>2
<1>4. CASE fetch.broker = "ccxt" /\ q # NoTime
  <2> DEFINE X == {x \in Visible(s) : x >= q - Limit}
  <2>1. T = Oldest(Limit, X)
    BY <1>4 DEF Rows
  <2>2. Finite(X) /\ q \in Nat /\ Limit \in Nat \ {0} /\ \A x \in X : x \in Nat /\ q - Limit <= x
    <3>1. X \subseteq Visible(s)
      OBVIOUS
    <3> HIDE DEF X
    <3>2. Finite(X) /\ q \in Nat /\ Limit \in Nat \ {0} /\ \A x \in X : x \in Nat
      BY <3>1, <1>1, <1>2, <1>4, LimitPositive
    <3> QED
      BY <3>2 DEF X
  <2>3. \A x \in Visible(s) : x < q /\ x \notin T => x < q - Limit
    <3> SUFFICES ASSUME NEW x \in Visible(s), x < q, ~(x < q - Limit) PROVE x \in T
      OBVIOUS
    <3>1. x \in Nat /\ q - Limit <= x
      BY <1>2, <2>2
    <3>2. Finite(Visible(s)) /\ q \in Int
      BY <1>2, <2>2
    <3>3. x \in Oldest(Limit, X)
      BY <2>2, <3>1, <3>2, OldestOf
    <3> QED
      BY <2>1, <3>3
  <2>4. t < q - Limit
    BY <1>3, <1>4, <2>3 DEF Before
  <2>5. \A u \in T : u \in X
    BY <2>1 DEF Oldest
  <2>6. \A u \in T : t < u
    <3> SUFFICES ASSUME NEW u \in T PROVE t < u
      OBVIOUS
    <3>1. u \in Nat /\ q - Limit <= u
      BY <2>2, <2>5
    <3> QED
      BY <1>3, <2>2, <2>4, <3>1
  <2>7. ASSUME \A u \in T : ~Before(u, q), fetch.collected # {}
        PROVE  listed[s] \intersect ((q - Limit)..(q - 1)) = {}
    <3> SUFFICES ASSUME NEW x \in listed[s], x \in (q - Limit)..(q - 1) PROVE FALSE
      OBVIOUS
    <3>1. q <= now
      BY <2>7 DEF HInv, SearchedBack
    <3>2. x \in Visible(s) /\ x < q /\ ~(x < q - Limit)
      BY <1>2, <2>2, <3>1
    <3>3. x \in T
      BY <2>3, <3>2
    <3> QED
      BY <2>7, <3>2, <3>3 DEF Before
  <2> QED
    BY <1>4, <2>4, <2>6, <2>7
<1>5. CASE ~(fetch.broker = "ccxt" /\ q # NoTime)
  <2> DEFINE X == {x \in Visible(s) : Before(x, q)}
  <2>1. T = Newest(Limit, X)
    BY <1>5 DEF Rows
  <2>2. t \in X
    BY <1>3
  <2>3. Finite(X) /\ X \subseteq Nat /\ Limit \in Nat \ {0}
    <3>1. X \subseteq Visible(s)
      OBVIOUS
    <3> HIDE DEF X
    <3> QED
      BY <3>1, <1>2, LimitPositive
  <2>4. \A x \in X : Before(x, q)
    OBVIOUS
  <2> HIDE DEF X
  <2>5. T \subseteq X /\ T # {} /\ \A u \in T : t < u
    BY <2>1, <2>2, <2>3, NewestOf
  <2> QED
    BY <2>4, <2>5
<1> QED
  BY <1>4, <1>5

LEMMA ServeKeeps ==
  ASSUME HInv, Serve
  PROVE  HInv'
<1>1. fetch # NoFetch /\ UNCHANGED <<now, listed, files>>
  BY DEF Serve, Asked
<1>2. PICK end \in {fetch.cursor, NoTime} :
        fetch' = [fetch EXCEPT !.answer = {Bar(t) : t \in Rows(fetch.symbol, end)},
                               !.misled = @ \/ end # fetch.cursor]
  BY DEF Serve
<1> DEFINE s == fetch.symbol
           T == Rows(s, end)
           answer == {Bar(t) : t \in T}
<1>3. s \in Symbols /\ fetch \in Fetches /\ MarketKnown /\ fetch.at <= now
  BY <1>1 DEF HInv, FetchTyped, Fetches
<1>4. T \subseteq Visible(s) /\ T \subseteq Times /\ Visible(s) = {t \in listed[s] : t <= now}
  <2>1. Visible(s) \subseteq Times /\ Visible(s) = {t \in listed[s] : t <= now}
    BY <1>3, VisibleOnes
  <2> QED
    BY <2>1, RowsVisible
<1> HIDE DEF T
<1>5. /\ answer \subseteq Bars /\ BarTimes(answer) = T
      /\ \A b \in answer : b.time \in T /\ b.final = (b.time < now)
  BY <1>4, BarOf
<1> HIDE DEF s, answer
<1>6. /\ fetch' \in Fetches /\ fetch'.symbol = s /\ fetch'.broker = fetch.broker /\ fetch'.at = fetch.at
      /\ fetch'.end = fetch.end /\ fetch'.cursor = fetch.cursor /\ fetch'.collected = fetch.collected
      /\ fetch'.answer = answer /\ (~fetch'.misled => ~fetch.misled /\ end = fetch.cursor)
  <2>1. fetch' = [fetch EXCEPT !.answer = answer, !.misled = @ \/ end # fetch.cursor]
    BY <1>2 DEF answer, T, s
  <2>2. (fetch.misled \/ end # fetch.cursor) \in BOOLEAN
    OBVIOUS
  <2> QED
    BY <1>3, <1>5, <2>1, <2>2 DEF Fetches, s
<1>7. FetchTyped' /\ SaidFinished'
  BY <1>1, <1>3, <1>6 DEF HInv, FetchTyped, SaidFinished
<1>8. SearchedBack'
  BY <1>1, <1>6 DEF HInv, SearchedBack, Before, s
<1>9. FormingIsNewest'
  <2> SUFFICES ASSUME fetch.broker = "ccxt" PROVE FormingIsNewest'
    BY <1>6 DEF FormingIsNewest
  <2>1. \A b \in answer : b.time \in Nat /\ b.time <= now /\ b.final = (b.time < now)
    BY <1>3, <1>4, <1>5, VisibleOnes
  <2>2. now \in Nat
    BY <1>3, VisibleOnes
  <2>3. \A b \in answer : (~b.final => b.time = now) /\ (b.time < now => b.final)
    <3> SUFFICES ASSUME NEW b \in answer PROVE (~b.final => b.time = now) /\ (b.time < now => b.final)
      OBVIOUS
    <3>1. b.final = (b.time < now)
      BY <2>1
    <3>2. ~(b.time < now) => b.time = now
      BY <2>1, <2>2
    <3> QED
      BY <3>1, <3>2, Zenon
  <2>4. \A b, d \in answer : ~b.final => d.time <= b.time
    <3> SUFFICES ASSUME NEW b \in answer, NEW d \in answer, ~b.final PROVE d.time <= b.time
      OBVIOUS
    <3>1. b.time = now /\ d.time <= now
      BY <2>1, <2>3
    <3> QED
      BY <3>1
  <2>5. ASSUME fetch.collected # {}, NEW b \in answer, Before(b.time, fetch.cursor) PROVE b.final
    <3>1. fetch.cursor # NoTime /\ fetch.cursor <= now /\ fetch.cursor \in Nat
      BY <1>1, <2>5, FetchFields DEF HInv, FormingIsNewest
    <3>2. b.time < now
      BY <2>1, <2>2, <2>5, <3>1 DEF Before
    <3> QED
      BY <2>3, <2>5, <3>2
  <2> QED
    BY <1>1, <1>6, <2>1, <2>4, <2>5 DEF HInv, FormingIsNewest, Before
<1>10. PageFits'
  <2> SUFFICES ASSUME ~fetch'.misled PROVE PageFits'
    BY DEF PageFits
  <2>1. ~fetch.misled /\ end = fetch.cursor
    BY <1>6
  <2>2. ASSUME NEW b \in answer
        PROVE  /\ b.time \in listed[s] /\ b.time <= now
               /\ b.time < fetch.at => b.final
               /\ fetch.broker = "oanda" => Before(b.time, fetch.cursor)
    <3>1. b.time \in T /\ b.time \in listed[s] /\ b.time <= now /\ b.final = (b.time < now)
      BY <1>4, <1>5
    <3>2. b.time < fetch.at => b.time < now
      <4>1. b.time \in Nat /\ fetch.at \in Nat /\ now \in Nat
        BY <1>1, <1>3, <3>1, VisibleOnes, FetchFields
      <4> QED
        BY <1>3, <4>1
    <3>3. fetch.broker = "oanda" => Before(b.time, fetch.cursor)
      BY <2>1, <3>1 DEF T, Rows, Newest
    <3> QED
      BY <3>1, <3>2, <3>3
  <2>3. \A t \in listed[s] :
         t < fetch.at /\ Before(t, fetch.cursor) /\ t \notin T =>
           /\ \A u \in T : Before(u, fetch.cursor) => t < u
           /\ \/ \E u \in T : Before(u, fetch.cursor)
              \/ fetch.collected = {}
              \/ /\ fetch.broker = "ccxt" /\ fetch.cursor # NoTime /\ t < fetch.cursor - Limit
                 /\ listed[s] \intersect ((fetch.cursor - Limit)..(fetch.cursor - 1)) = {}
    BY <1>1, <2>1, RowsFit DEF T, s
  <2> QED
    BY <1>1, <1>5, <1>6, <2>2, <2>3 DEF PageFits, Before, BarTimes
<1>11. FilesGood'
  BY <1>1 DEF HInv, FilesGood, GoodFile, FileIsComplete, FileIsFinished, FileIsWhole, WholeBar,
              PageWithoutBars
<1> QED
  BY <1>1, <1>3, <1>7, <1>8, <1>9, <1>10, <1>11 DEF HInv, MarketKnown

LEMMA TickKeeps ==
  ASSUME HInv, Tick
  PROVE  HInv'
<1>1. /\ UNCHANGED <<listed, fetch, files>> /\ now \in Nat /\ now' = now + 1 /\ now' \in Times
      /\ MarketKnown'
  BY HistoryAssumption DEF HInv, MarketKnown, Tick, Times
<1>2. /\ \A t \in Nat : t <= now => t <= now'
      /\ \A s \in Symbols : listed[s] \subseteq Nat
  BY <1>1, VisibleOnes DEF HInv
<1>3. FetchTyped'
  <2> SUFFICES ASSUME fetch # NoFetch PROVE FetchTyped'
    BY <1>1 DEF FetchTyped
  <2> QED
    BY <1>1, <1>2, FetchFields DEF HInv, FetchTyped
<1>4. SaidFinished'
  BY <1>1 DEF HInv, SaidFinished
<1>5. FormingIsNewest'
  <2> SUFFICES ASSUME fetch # NoFetch, fetch.broker = "ccxt" PROVE FormingIsNewest'
    BY <1>1 DEF FormingIsNewest
  <2>1. fetch.cursor # NoTime => fetch.cursor \in Nat
    BY FetchFields
  <2>2. fetch.answer # NoAnswer => \A b \in fetch.answer : b.time \in Nat
    <3>1. fetch.answer # NoAnswer => \A b \in fetch.answer : b.time \in Times
      BY DEF HInv, FetchTyped, Fetches, Bars
    <3> QED
      BY <3>1, HistoryAssumption DEF Times
  <2> QED
    BY <1>1, <1>2, <2>1, <2>2 DEF HInv, FormingIsNewest, Before
<1>6. SearchedBack' /\ PageFits'
  <2> SUFFICES ASSUME fetch # NoFetch PROVE SearchedBack' /\ PageFits'
    BY <1>1 DEF SearchedBack, PageFits
  <2>1. \A t \in listed[fetch.symbol] : t <= now => t <= now'
    BY <1>1, <1>2, FetchFields
  <2>2. SearchedBack'
    BY <1>1, <2>1 DEF HInv, SearchedBack, Before
  <2>3. PageFits'
    BY <1>1, <2>1 DEF HInv, PageFits, Before, BarTimes
  <2> QED
    BY <2>2, <2>3
<1>7. FilesGood'
  BY <1>1 DEF HInv, FilesGood, GoodFile, FileIsComplete, FileIsFinished, FileIsWhole, WholeBar,
              PageWithoutBars
<1> QED
  BY <1>1, <1>3, <1>4, <1>5, <1>6, <1>7 DEF HInv

\* What the fetches do: a file stays good as long as nobody writes it.
LEMMA FilesStay ==
  ASSUME FilesGood, UNCHANGED <<listed, files>>
  PROVE  FilesGood'
  BY DEF FilesGood, GoodFile, FileIsComplete, FileIsFinished, FileIsWhole, WholeBar, PageWithoutBars

LEMMA FileWritten ==
  ASSUME FilesGood, UNCHANGED listed, NEW s \in Symbols, NEW file, GoodFile(s, file),
         files' = [files EXCEPT ![s] = file]
  PROVE  FilesGood'
<1>1. files' \in [Symbols -> Files \union {NoFile}]
  BY DEF FilesGood, GoodFile
<1>2. ASSUME NEW r \in Symbols, files'[r] # NoFile PROVE GoodFile(r, files'[r])
  <2>1. files'[r] = IF r = s THEN file ELSE files[r]
    BY DEF FilesGood
  <2> QED
    BY <1>2, <2>1 DEF FilesGood
<1>3. ASSUME NEW r \in Symbols, NEW f, GoodFile(r, f) PROVE GoodFile(r, f)'
  BY <1>3 DEF GoodFile, FileIsComplete, FileIsFinished, FileIsWhole, WholeBar, PageWithoutBars
<1>4. ASSUME NEW r \in Symbols, files'[r] # NoFile PROVE GoodFile(r, files[r])'
  <2> DEFINE f == files'[r]
  <2>1. GoodFile(r, f)
    BY <1>2, <1>4
  <2> QED
    BY <2>1 DEF GoodFile, FileIsComplete, FileIsFinished, FileIsWhole, WholeBar, PageWithoutBars
<1> QED
  BY <1>1, <1>4 DEF FilesGood

LEMMA StartFetchKeeps ==
  ASSUME HInv, NEW s \in Symbols, NEW broker \in Brokers, NEW days \in Spans, NEW end \in Ends,
         StartFetch(s, broker, days, end)
  PROVE  HInv'
<1>1. /\ UNCHANGED <<now, listed, files>> /\ now \in Nat /\ now \in Times /\ now - days \in Int
      /\ end \in Times \union {NoTime} /\ 1 \in 1..MaxRequests
  BY HistoryAssumption DEF HInv, MarketKnown, StartFetch, Times
<1>2. fetch' = [symbol |-> s, broker |-> broker, start |-> now - days, end |-> end, cursor |-> end,
                requests |-> 1, collected |-> {}, answer |-> NoAnswer, at |-> now, misled |-> FALSE]
  BY DEF StartFetch
<1>3. fetch' \in Fetches /\ fetch'.at = now
  BY <1>1, <1>2 DEF Fetches
<1>4. FetchTyped' /\ SaidFinished' /\ FormingIsNewest' /\ PageFits'
  BY <1>1, <1>2, <1>3 DEF FetchTyped, SaidFinished, FormingIsNewest, PageFits
<1>5. SearchedBack'
  BY <1>2 DEF SearchedBack, Before
<1>6. FilesGood'
  BY <1>1, FilesStay DEF HInv
<1> QED
  BY <1>1, <1>4, <1>5, <1>6 DEF HInv, MarketKnown

LEMMA CallFailsKeeps ==
  ASSUME HInv, CallFails
  PROVE  HInv'
<1>1. fetch' = NoFetch /\ UNCHANGED <<now, listed, files>>
  BY DEF CallFails
<1>2. FilesGood'
  BY <1>1, FilesStay DEF HInv
<1> QED
  BY <1>1, <1>2 DEF HInv, MarketKnown, FetchTyped, SaidFinished, FormingIsNewest, SearchedBack, PageFits

\* The two commands that need no broker leave the fetch alone: there is none.
LEMMA CommandKeeps ==
  ASSUME HInv, fetch = NoFetch, UNCHANGED <<now, listed, fetch>>, FilesGood'
  PROVE  HInv'
  BY DEF HInv, MarketKnown, FetchTyped, SaidFinished, FormingIsNewest, SearchedBack, PageFits

LEMMA DownloadKeeps ==
  ASSUME HInv, NEW s \in Symbols, NEW days \in Spans, Download(s, days)
  PROVE  HInv'
<1> DEFINE rows == {t \in Visible(s) : t >= now - days}
           bars == ByTime({Bar(t) : t \in rows})
           file == File(bars, "download", now - days, NoTime, now, FALSE, {})
<1>1. /\ fetch = NoFetch /\ UNCHANGED <<now, listed, fetch>>
      /\ files' = [files EXCEPT ![s] = file]
  BY DEF Download, Command
<1>2. now \in Times /\ now \in Nat /\ now - days \in Int
  BY HistoryAssumption DEF HInv, MarketKnown, Times
<1>3. rows \subseteq Times
  BY VisibleOnes DEF HInv
<1> HIDE DEF rows
<1>4. Sorted(bars)
  BY <1>3, BarOf, ByTimeSorts
<1> HIDE DEF bars
<1>5. /\ file \in Files /\ file.bars = bars /\ file.by = "download"
  <2>1. /\ bars \in Seq(Bars) /\ "download" \in Writers /\ now - days \in Int /\ now \in Times
        /\ NoTime \in Times \union {NoTime} /\ FALSE \in BOOLEAN /\ {} \in SUBSET Times
    BY <1>2, <1>4 DEF Sorted, Writers
  <2> QED
    BY <2>1 DEF Files, File
<1>6. GoodFile(s, file)
  <2> HIDE DEF file
  <2>1. "download" \notin Brokers
    BY HistoryAssumption
  <2> QED
    BY <1>4, <1>5, <2>1 DEF GoodFile, FileIsComplete, FileIsFinished, FileIsWhole
<1> HIDE DEF file
<1>7. FilesGood'
  BY <1>1, <1>6, FileWritten DEF HInv
<1> QED
  BY <1>1, <1>7, CommandKeeps

LEMMA ImportKeeps ==
  ASSUME HInv, NEW s \in Symbols, NEW export \in Exports, Import(s, export)
  PROVE  HInv'
<1> DEFINE rows == Exported(s, export)
           bars == ReadAny(rows)
           file == File(Resample(bars), "import", 0, NoTime, now, FALSE, rows)
<1>1. /\ fetch = NoFetch /\ UNCHANGED <<now, listed, fetch>>
      /\ files' = [files EXCEPT ![s] = file] /\ rows # {}
  BY DEF Import, Command
<1>2. now \in Times /\ MarketKnown /\ rows \subseteq Times
  BY ExportedRows DEF HInv, MarketKnown
<1> HIDE DEF rows
<1>3. bars \in Seq(Bars) /\ DOMAIN bars = 1..Cardinality(rows)
  BY <1>2, ReadAnyShape
<1>4. bars # <<>>
  <2>1. IsFiniteSet(rows)
    BY <1>2, TimesFinite DEF Finite
  <2>2. Cardinality(rows) # 0 /\ Cardinality(rows) \in Nat
    BY <1>1, <2>1, FS_EmptySet, FS_CardinalityType
  <2> HIDE DEF bars
  <2> QED
    BY <1>3, <2>2
<1>5. Sorted(Resample(bars))
  <2> HIDE DEF bars
  <2> QED
    BY <1>3, <1>4, ResampleSorts
<1>6. /\ file \in Files /\ file.bars = Resample(bars) /\ file.by = "import" /\ file.at = now
      /\ file.rows = rows
  <2> HIDE DEF bars
  <2>1. /\ Resample(bars) \in Seq(Bars) /\ "import" \in Writers /\ 0 \in Int /\ now \in Times
        /\ NoTime \in Times \union {NoTime} /\ FALSE \in BOOLEAN /\ rows \in SUBSET Times
    BY <1>2, <1>5 DEF Sorted, Writers
  <2> QED
    BY <2>1 DEF Files, File
<1> HIDE DEF file
<1>7. FileIsWhole(s, file)
  <2> SUFFICES ASSUME FoldAt = NoTime, NEW next \in rows, next + 1 \in rows,
                      NEW b \in Range(Resample(bars))
               PROVE  WholeBar(s, b, rows)
    BY <1>6 DEF FileIsWhole, HasNeighbours
  <2> QED
    BY <1>2, <1>4, ImportIsWhole
<1> HIDE DEF bars
<1>8. GoodFile(s, file)
  <2>1. "import" \notin Brokers
    BY HistoryAssumption
  <2> QED
    BY <1>5, <1>6, <1>7, <2>1 DEF GoodFile, FileIsComplete, FileIsFinished
<1>9. FilesGood'
  BY <1>1, <1>8, FileWritten DEF HInv
<1> QED
  BY <1>1, <1>9, CommandKeeps

Answered == fetch # NoFetch /\ fetch.answer # NoAnswer

LEMMA BatchShape ==
  ASSUME HInv, Answered
  PROVE  /\ Batch \subseteq Candidates /\ Collected(Batch) \subseteq Candidates
         /\ TimesOf(Batch) \subseteq Times /\ IsFiniteSet(TimesOf(Batch)) /\ TimesOf(Batch) \subseteq Nat
         /\ fetch.broker = "oanda" => \A c \in Batch : c.complete => c.bar.final
<1>1. fetch.answer \subseteq Bars /\ fetch.collected \subseteq Candidates
  BY DEF HInv, Answered, FetchTyped, Fetches
<1>2. Batch \subseteq Candidates
  <2>1. \A b \in fetch.answer : b \in Bars /\ b.final \in BOOLEAN
    BY <1>1 DEF Bars
  <2>2. CASE fetch.broker = "ccxt"
    <3> SUFFICES ASSUME NEW b \in fetch.answer
                 PROVE  [bar |-> b, complete |-> b.time + 1 <= now] \in Candidates
      BY <2>2 DEF Batch
    <3> QED
      BY <2>1 DEF Candidates
  <2>3. CASE fetch.broker # "ccxt"
    <3> SUFFICES ASSUME NEW b \in fetch.answer PROVE [bar |-> b, complete |-> b.final] \in Candidates
      BY <2>3 DEF Batch
    <3> QED
      BY <2>1 DEF Candidates
  <2> QED
    BY <2>2, <2>3
<1>3. TimesOf(Batch) \subseteq Times
  BY <1>2 DEF TimesOf, Candidates, Bars
<1>4. IsFiniteSet(TimesOf(Batch)) /\ TimesOf(Batch) \subseteq Nat
  BY <1>3, TimesFinite DEF Finite
<1>5. Collected(Batch) \subseteq Candidates
  BY <1>1, <1>2 DEF Collected
<1>6. ASSUME fetch.broker = "oanda", NEW c \in Batch, c.complete PROVE c.bar.final
  <2>1. PICK b \in fetch.answer : c = [bar |-> b, complete |-> b.final]
    BY <1>6 DEF Batch
  <2> QED
    BY <1>6, <2>1
<1> QED
  BY <1>2, <1>3, <1>4, <1>5, <1>6

\* What the adapters make of a page with which the server did what it was asked to.
LEMMA BatchFits ==
  ASSUME HInv, Answered, ~fetch.misled
  PROVE  /\ \A u \in TimesOf(Batch) :
              u \in listed[fetch.symbol] /\ u <= now /\ Before(u, fetch.cursor)
         /\ \A c \in Batch : c.bar.time < fetch.at => c.complete
         /\ \A u \in BarTimes(fetch.answer) : Before(u, fetch.cursor) => u \in TimesOf(Batch)
         /\ TimesOf(Batch) \subseteq BarTimes(fetch.answer)
<1>1. \A b \in fetch.answer :
        /\ b.time \in listed[fetch.symbol] /\ b.time <= now /\ b.time \in Nat
        /\ b.time < fetch.at => b.final
        /\ fetch.broker = "oanda" => Before(b.time, fetch.cursor)
  <2>1. listed[fetch.symbol] \subseteq Nat
    BY FetchFields, VisibleOnes DEF HInv, Answered
  <2> QED
    BY <2>1 DEF HInv, Answered, PageFits
<1>2. now \in Nat /\ fetch.at \in Nat /\ fetch.at <= now /\ fetch.broker \in {"ccxt", "oanda"}
  BY FetchFields DEF Answered
<1>3. CASE fetch.broker = "ccxt"
  <2>1. \A c \in Batch : \E b \in fetch.answer :
          Before(b.time, fetch.cursor) /\ c.bar = b /\ c.complete = (b.time + 1 <= now)
    BY <1>3 DEF Batch
  <2>2. \A b \in fetch.answer : Before(b.time, fetch.cursor) => \E c \in Batch : c.bar = b
    <3> SUFFICES ASSUME NEW b \in fetch.answer, Before(b.time, fetch.cursor)
                 PROVE  [bar |-> b, complete |-> b.time + 1 <= now] \in Batch
      OBVIOUS
    <3> QED
      BY <1>3 DEF Batch
  <2>3. \A x \in Nat : x < fetch.at => x + 1 <= now
    BY <1>2
  <2>4. \A u \in TimesOf(Batch) : \E b \in fetch.answer : u = b.time /\ Before(b.time, fetch.cursor)
    BY <2>1 DEF TimesOf
  <2>5. \A c \in Batch : c.bar.time < fetch.at => c.complete
    BY <1>1, <2>1, <2>3
  <2>6. \A u \in BarTimes(fetch.answer) : Before(u, fetch.cursor) => u \in TimesOf(Batch)
    BY <2>2 DEF TimesOf, BarTimes
  <2>7. TimesOf(Batch) \subseteq BarTimes(fetch.answer)
    BY <2>4 DEF BarTimes
  <2> QED
    BY <1>1, <2>4, <2>5, <2>6, <2>7
<1>4. CASE fetch.broker = "oanda"
  <2>1. \A c \in Batch : \E b \in fetch.answer : c.bar = b /\ c.complete = b.final
    BY <1>4 DEF Batch
  <2>2. \A b \in fetch.answer : \E c \in Batch : c.bar = b
    <3> SUFFICES ASSUME NEW b \in fetch.answer PROVE [bar |-> b, complete |-> b.final] \in Batch
      OBVIOUS
    <3> QED
      BY <1>4 DEF Batch
  <2> QED
    BY <1>1, <1>4, <2>1, <2>2 DEF TimesOf, BarTimes
<1> QED
  BY <1>2, <1>3, <1>4

\* Nothing between what is collected and the first bar of the page.
LEMMA PageCovers ==
  ASSUME HInv, Answered, ~fetch.misled,
         NEW t \in listed[fetch.symbol], t < fetch.at, Before(t, fetch.end)
  PROVE  \/ \E c \in Collected(Batch) : c.bar.time = t /\ c.complete
         \/ /\ \A u \in TimesOf(Batch) : t < u
            /\ Before(t, fetch.cursor)
            /\ \/ TimesOf(Batch) # {} \/ fetch.collected = {}
               \/ /\ fetch.broker = "ccxt" /\ fetch.cursor # NoTime /\ t < fetch.cursor - Limit
                  /\ listed[fetch.symbol] \intersect ((fetch.cursor - Limit)..(fetch.cursor - 1)) = {}
<1> DEFINE T == TimesOf(Batch)
<1>1. CASE t \in T
  <2>1. PICK c \in Batch : c.bar.time = t
    BY <1>1 DEF TimesOf
  <2>2. c.complete /\ c \in Collected(Batch)
    BY <2>1, BatchFits DEF Collected
  <2> QED
    BY <2>1, <2>2
<1>2. CASE t \notin T /\ ~Before(t, fetch.cursor)
  <2>1. PICK c \in fetch.collected : c.bar.time = t /\ c.complete
    BY <1>2 DEF HInv, Answered, SearchedBack
  <2>2. c \in Collected(Batch)
    BY <1>2, <2>1 DEF Collected
  <2> QED
    BY <2>1, <2>2
<1>3. CASE t \notin T /\ Before(t, fetch.cursor)
  <2>1. /\ \A u \in T : Before(u, fetch.cursor) /\ u \in BarTimes(fetch.answer)
        /\ \A u \in BarTimes(fetch.answer) : Before(u, fetch.cursor) => u \in T
    BY BatchFits
  <2> HIDE DEF T
  <2>2. t \notin BarTimes(fetch.answer)
    BY <1>3, <2>1
  <2>3. /\ \A u \in BarTimes(fetch.answer) : Before(u, fetch.cursor) => t < u
        /\ \/ \E u \in BarTimes(fetch.answer) : Before(u, fetch.cursor)
           \/ fetch.collected = {}
           \/ /\ fetch.broker = "ccxt" /\ fetch.cursor # NoTime /\ t < fetch.cursor - Limit
              /\ listed[fetch.symbol] \intersect ((fetch.cursor - Limit)..(fetch.cursor - 1)) = {}
    BY <1>3, <2>2 DEF HInv, Answered, PageFits
  <2>4. (\E u \in BarTimes(fetch.answer) : Before(u, fetch.cursor)) => T # {}
    BY <2>1
  <2>5. \A u \in T : t < u
    BY <2>1, <2>3
  <2>6. TimesOf(Batch) # {} <=> T # {}
    BY DEF T
  <2>7. \A u \in TimesOf(Batch) : t < u
    BY <2>5 DEF T
  <2> QED
    BY <1>3, <2>3, <2>4, <2>6, <2>7
<1> QED
  BY <1>1, <1>2, <1>3

\* A page of the ccxt adapter is older than what is collected, and then over.
LEMMA PageIsOlder ==
  ASSUME HInv, Answered, fetch.broker = "ccxt"
  PROVE  /\ \A c \in Batch : /\ c.bar.time \in Nat /\ c.bar.time <= now
                             /\ fetch.collected # {} =>
                                  c.bar.final /\ fetch.cursor # NoTime /\ c.bar.time < fetch.cursor
         /\ \A c, d \in Collected(Batch) : ~c.bar.final => d.bar.time <= c.bar.time
<1>1. fetch # NoFetch /\ fetch.answer # NoAnswer /\ FormingIsNewest
  BY DEF HInv, Answered
<1>2. \A c \in Batch : c.bar \in fetch.answer /\ Before(c.bar.time, fetch.cursor)
  BY DEF Batch
<1>3. \A c \in Batch : c.bar.time \in Nat /\ c.bar.time <= now
  <2>1. \A c \in Batch : c.bar.time \in TimesOf(Batch)
    BY DEF TimesOf
  <2> QED
    BY <1>1, <1>2, <2>1, BatchShape DEF FormingIsNewest
<1>4. fetch.collected # {} =>
        \A c \in Batch : c.bar.final /\ fetch.cursor # NoTime /\ c.bar.time < fetch.cursor
  BY <1>1, <1>2 DEF FormingIsNewest, Before
<1>5. \A c, d \in Batch : ~c.bar.final => d.bar.time <= c.bar.time
  BY <1>1, <1>2 DEF FormingIsNewest
<1>6. ASSUME NEW c \in Collected(Batch), NEW d \in Collected(Batch), ~c.bar.final
      PROVE  d.bar.time <= c.bar.time
  <2>1. CASE fetch.collected = {}
    BY <1>5, <1>6, <2>1 DEF Collected
  <2>2. CASE fetch.collected # {}
    <3>1. c \in fetch.collected
      BY <1>4, <1>6, <2>2 DEF Collected
    <3>2. CASE d \in fetch.collected
      BY <1>1, <1>6, <3>1, <3>2 DEF FormingIsNewest
    <3>3. CASE d \in Batch
      <4>1. d.bar.time < fetch.cursor /\ fetch.cursor <= c.bar.time /\ fetch.cursor # NoTime
        BY <1>1, <1>4, <2>2, <3>1, <3>3 DEF FormingIsNewest
      <4>2. d.bar.time \in Nat /\ fetch.cursor \in Nat
        BY <1>1, <1>3, <3>3, <4>1, FetchFields
      <4>3. c.bar.time \in Nat
        <5>1. c.bar.time \in Times
          BY <1>1, <3>1, FetchFields DEF Candidates, Bars
        <5> QED
          BY <5>1, HistoryAssumption DEF Times
      <4> QED
        BY <4>1, <4>2, <4>3
    <3> QED
      BY <3>2, <3>3 DEF Collected
  <2> QED
    BY <2>1, <2>2
<1> QED
  BY <1>3, <1>4, <1>6

LEMMA NextPageKeeps ==
  ASSUME HInv, Answered, NextPage(Batch), UNCHANGED <<now, listed>>
  PROVE  HInv'
<1> DEFINE T == TimesOf(Batch)
           first == Min(T)
           all == Collected(Batch)
           requests == IF fetch.requests < MaxRequests THEN fetch.requests + 1 ELSE fetch.requests
<1>1. /\ UNCHANGED <<now, listed, files>> /\ fetch # NoFetch /\ fetch \in Fetches /\ fetch.at <= now
      /\ fetch' = [fetch EXCEPT !.cursor = first, !.answer = NoAnswer, !.requests = requests,
                                !.collected = all]
  <2>1. fetch' = [fetch EXCEPT !.cursor = first, !.answer = NoAnswer,
                               !.requests = IF @ < MaxRequests THEN @ + 1 ELSE @, !.collected = all]
    BY DEF NextPage
  <2>2. fetch \in Fetches
    BY DEF HInv, Answered, FetchTyped
  <2>3. fetch' = [fetch EXCEPT !.cursor = first, !.answer = NoAnswer, !.requests = requests,
                              !.collected = all]
    BY <2>1, <2>2 DEF Fetches
  <2> QED
    BY <2>2, <2>3 DEF HInv, Answered, FetchTyped, NextPage
<1>2. T # {} /\ all # {} /\ Batch \subseteq all
  BY DEF NextPage, GoesOn, TimesOf, Collected
<1>3. all \subseteq Candidates /\ T \subseteq Times /\ T \subseteq Nat
  BY BatchShape
<1>4. first \in T /\ \A u \in T : first <= u
  <2> HIDE DEF T
  <2> QED
    BY <1>2, <1>3, MinOf
<1>5. requests \in 1..MaxRequests
  BY <1>1, HistoryAssumption DEF Fetches
<1> HIDE DEF T, first, all, requests
<1>6. /\ fetch' \in Fetches /\ fetch'.symbol = fetch.symbol /\ fetch'.broker = fetch.broker
      /\ fetch'.at = fetch.at /\ fetch'.end = fetch.end /\ fetch'.cursor = first
      /\ fetch'.collected = all /\ fetch'.answer = NoAnswer /\ fetch'.misled = fetch.misled
  BY <1>1, <1>3, <1>4, <1>5 DEF Fetches
<1>7. FetchTyped' /\ PageFits'
  BY <1>1, <1>6 DEF FetchTyped, PageFits
<1>8. SaidFinished'
  <2>1. fetch.broker = "oanda" => \A c \in all : c.complete => c.bar.final
    BY <1>1, BatchShape DEF HInv, SaidFinished, Collected, all
  <2> QED
    BY <1>1, <1>6, <2>1 DEF SaidFinished
<1>9. FormingIsNewest'
  <2> SUFFICES ASSUME fetch.broker = "ccxt" PROVE FormingIsNewest'
    BY <1>6 DEF FormingIsNewest
  <2>1. \A c, d \in all : ~c.bar.final => d.bar.time <= c.bar.time
    BY PageIsOlder DEF all
  <2>2. PICK c \in Batch : first = c.bar.time
    BY <1>4 DEF T, TimesOf
  <2>3. first \in Nat /\ first # NoTime /\ first <= now
    BY <2>2, PageIsOlder, HistoryAssumption
  <2>4. ASSUME NEW d \in all PROVE first <= d.bar.time
    <3>1. CASE d \in Batch
      BY <1>4, <3>1 DEF T, TimesOf
    <3>2. CASE d \in fetch.collected
      <4>1. first < fetch.cursor /\ fetch.cursor <= d.bar.time /\ fetch.cursor # NoTime
        BY <1>1, <2>2, <3>2, PageIsOlder DEF HInv, FormingIsNewest
      <4>2. fetch.cursor \in Nat
        BY <1>1, <4>1, FetchFields
      <4>3. d.bar.time \in Nat
        <5>1. d.bar.time \in Times
          BY <1>3 DEF Candidates, Bars
        <5> QED
          BY <5>1, HistoryAssumption DEF Times
      <4> QED
        BY <2>3, <4>1, <4>2, <4>3
    <3> QED
      BY <3>1, <3>2 DEF all, Collected
  <2> QED
    BY <1>1, <1>6, <2>1, <2>3, <2>4 DEF FormingIsNewest
<1>10. SearchedBack'
  <2> SUFFICES ASSUME ~fetch.misled PROVE SearchedBack'
    BY <1>6 DEF SearchedBack
  <2>1. first \in listed[fetch.symbol] /\ first <= now /\ Before(first, fetch.cursor) /\ first \in Nat
    BY <1>3, <1>4, BatchFits DEF T
  <2>2. ASSUME NEW c \in all PROVE first <= c.bar.time
    <3>1. CASE c \in Batch
      BY <1>4, <3>1 DEF T, TimesOf
    <3>2. CASE c \in fetch.collected
      <4>1. /\ fetch.cursor \in listed[fetch.symbol] /\ fetch.cursor <= c.bar.time
        BY <1>1, <3>2 DEF HInv, SearchedBack
      <4>2. fetch.cursor \in Nat /\ c.bar.time \in Nat /\ fetch.cursor # NoTime
        <5>1. fetch.cursor \in Nat /\ fetch.cursor # NoTime
          BY <1>1, <4>1, FetchFields, VisibleOnes, HistoryAssumption DEF HInv
        <5>2. c.bar.time \in Times
          BY <1>1, <3>2 DEF Fetches, Candidates, Bars
        <5> QED
          BY <5>1, <5>2, HistoryAssumption DEF Times
      <4> QED
        BY <2>1, <4>1, <4>2 DEF Before
    <3> QED
      BY <2>2, <3>1, <3>2 DEF all, Collected
  <2>3. ASSUME NEW t \in listed[fetch.symbol], t < fetch.at, Before(t, fetch.end), ~Before(t, first)
        PROVE  \E c \in all : c.bar.time = t /\ c.complete
    <3>1. ~(t < first)
      BY <2>3 DEF Before
    <3>2. ~ \A u \in TimesOf(Batch) : t < u
      BY <1>4, <3>1 DEF T
    <3> QED
      BY <2>3, <3>2, PageCovers DEF all
  <2> QED
    BY <1>1, <1>2, <1>6, <2>1, <2>2, <2>3 DEF SearchedBack, Before
<1>11. FilesGood'
  BY <1>1, FilesStay DEF HInv
<1> QED
  BY <1>1, <1>7, <1>8, <1>9, <1>10, <1>11 DEF HInv, MarketKnown

\* Where a fetch stops it has gone far enough, was cut short, or met a page without bars.
LEMMA LastPageIsComplete ==
  ASSUME HInv, Answered, ~GoesOn(Batch), Collected(Batch) # {}, ~fetch.misled,
         Batch = {} \/ fetch.requests < MaxRequests,
         NEW t \in listed[fetch.symbol], fetch.start <= t, t < fetch.at, Before(t, fetch.end),
         ~(fetch.broker = "ccxt" /\ PageWithoutBars(fetch.symbol, t, fetch.end))
  PROVE  \E c \in Collected(Batch) : c.bar.time = t /\ c.complete
<1> DEFINE T == TimesOf(Batch)
<1> SUFFICES ASSUME \A u \in T : t < u, Before(t, fetch.cursor),
                    \/ T # {} \/ fetch.collected = {}
                    \/ /\ fetch.broker = "ccxt" /\ fetch.cursor # NoTime /\ t < fetch.cursor - Limit
                       /\ listed[fetch.symbol] \intersect ((fetch.cursor - Limit)..(fetch.cursor - 1)) = {}
             PROVE  FALSE
  BY PageCovers
<1>1. t \in Nat /\ fetch.start \in Int /\ listed[fetch.symbol] \subseteq Nat /\ fetch # NoFetch
  BY FetchFields, VisibleOnes DEF HInv, Answered
<1>2. T \subseteq Nat
  BY BatchShape
<1>3. fetch.collected # {} =>
        /\ fetch.cursor \in listed[fetch.symbol] /\ fetch.cursor \in Nat /\ fetch.cursor # NoTime
        /\ \A c \in fetch.collected : fetch.cursor <= c.bar.time
  BY <1>1, HistoryAssumption DEF HInv, SearchedBack
<1>4. fetch.collected = {} => fetch.cursor = fetch.end
  BY <1>1 DEF HInv, SearchedBack
<1>5. CASE T = {}
  <2>1. Batch = {}
    BY <1>5 DEF TimesOf
  <2>2. fetch.collected # {}
    BY <2>1 DEF Collected
  <2>3. PageWithoutBars(fetch.symbol, t, fetch.end) /\ fetch.broker = "ccxt"
    BY <1>3, <1>5, <2>2 DEF PageWithoutBars
  <2> QED
    BY <2>3
<1>6. CASE T # {} /\ T \subseteq TimesOf(fetch.collected)
  <2>1. PICK u \in T : TRUE
    BY <1>6
  <2>2. PICK c \in fetch.collected : c.bar.time = u
    BY <1>6, <2>1 DEF TimesOf
  <2>3. Before(u, fetch.cursor)
    BY <2>1, BatchFits
  <2>4. u \in Nat
    BY <1>2, <2>1
  <2> QED
    BY <1>3, <2>2, <2>3, <2>4 DEF Before
<1>7. CASE T # {} /\ ~(T \subseteq TimesOf(fetch.collected))
  <2>1. Min(T) \in T
    BY <1>2, <1>7, MinOf
  <2>2. t < Min(T) /\ Min(T) \in Nat
    BY <1>2, <2>1
  <2>3. Batch # {}
    BY <1>7 DEF TimesOf
  <2>4. ~(Min(T) > fetch.start)
    BY <1>7, <2>3 DEF GoesOn
  <2> HIDE DEF T
  <2> QED
    BY <1>1, <2>2, <2>4
<1> QED
  BY <1>5, <1>6, <1>7

LEMMA LastPageKeeps ==
  ASSUME HInv, Answered, LastPage(Batch), UNCHANGED <<now, listed>>
  PROVE  HInv'
<1> DEFINE s == fetch.symbol
           all == Collected(Batch)
           kept == Kept(all)
           bars == ByTime(kept)
           cut == fetch.misled \/ (Batch # {} /\ fetch.requests >= MaxRequests)
           file == File(bars, fetch.broker, fetch.start, fetch.end, fetch.at, cut, {})
<1>1. fetch' = NoFetch /\ UNCHANGED <<now, listed>> /\ ~GoesOn(Batch) /\ s \in Symbols
  BY FetchFields DEF LastPage, Answered
<1>2. files' = IF all = {} THEN files ELSE [files EXCEPT ![s] = file]
  BY DEF LastPage
<1>3. all \subseteq Candidates /\ (fetch.broker = "oanda" => \A c \in all : c.complete => c.bar.final)
  <2>1. all \subseteq Candidates /\ (fetch.broker = "oanda" => \A c \in Batch : c.complete => c.bar.final)
    BY BatchShape
  <2> QED
    BY <2>1 DEF HInv, Answered, SaidFinished, Collected
<1>4. fetch.broker = "ccxt" => \A c, d \in all : ~c.bar.final => d.bar.time <= c.bar.time
  BY PageIsOlder
<1>5. kept = {c.bar : c \in {d \in all : /\ d.bar.time >= fetch.start /\ Before(d.bar.time, fetch.end)
                                       /\ d.complete}}
  BY DEF Kept
<1> HIDE DEF all, kept
<1>6. kept \subseteq Bars
  BY <1>3, <1>5 DEF Candidates
<1>7. Sorted(bars) /\ Range(bars) \subseteq kept /\ TimesIn(bars) = BarTimes(kept)
  BY <1>6, ByTimeSorts
<1> HIDE DEF bars, cut
<1>8. CASE all = {}
  <2>1. files' = files
    BY <1>2, <1>8
  <2>2. FilesGood'
    BY <1>1, <2>1, FilesStay DEF HInv
  <2> QED
    BY <1>1, <2>2 DEF HInv, MarketKnown, FetchTyped, SaidFinished, FormingIsNewest, SearchedBack, PageFits
<1>9. CASE all # {}
  <2>1. /\ file \in Files /\ file.bars = bars /\ file.by = fetch.broker /\ file.since = fetch.start
        /\ file.until = fetch.end /\ file.at = fetch.at /\ file.cut = cut
    <3>1. /\ bars \in Seq(Bars) /\ fetch.broker \in Writers /\ fetch.start \in Int
          /\ fetch.end \in Times \union {NoTime} /\ fetch.at \in Times
      BY <1>7, FetchFields DEF Sorted, Writers, Answered, HInv, FetchTyped, Fetches
    <3>2. cut \in BOOLEAN /\ {} \in SUBSET Times
      BY DEF cut
    <3> QED
      BY <3>1, <3>2 DEF Files, File
  <2> HIDE DEF file
  <2>2. FileIsFinished(file)
    <3> SUFFICES ASSUME NEW i \in DOMAIN bars, ~bars[i].final
                 PROVE  fetch.broker = "ccxt" /\ i = Len(bars)
      BY <2>1 DEF FileIsFinished
    <3>1. /\ Len(bars) \in Nat /\ DOMAIN bars = 1..Len(bars)
          /\ \A j \in 1..Len(bars) : bars[j].time \in Nat
          /\ \A j, k \in 1..Len(bars) : j < k => bars[j].time < bars[k].time
      BY <1>7, SeriesShape
    <3>2. \A j \in DOMAIN bars : \E c \in all : bars[j] = c.bar /\ c.complete
      <4>1. \A j \in DOMAIN bars : bars[j] \in kept
        BY <1>7 DEF Range
      <4> QED
        BY <1>5, <4>1
    <3>3. PICK c \in all : bars[i] = c.bar /\ c.complete
      BY <3>2
    <3>4. fetch.broker = "ccxt"
      BY <1>3, <3>3, FetchFields DEF Answered
    <3>5. Len(bars) \in DOMAIN bars
      BY <3>1
    <3>6. PICK d \in all : bars[Len(bars)] = d.bar
      BY <3>2, <3>5
    <3>7. bars[Len(bars)].time <= bars[i].time
      BY <1>4, <3>3, <3>4, <3>6
    <3> QED
      BY <3>1, <3>4, <3>5, <3>7
  <2>3. FileIsWhole(s, file)
    BY <2>1, FetchFields DEF FileIsWhole, Answered
  <2>4. FileIsComplete(s, file)
    <3> SUFFICES ASSUME ~file.cut, NEW t \in listed[s], file.since <= t, t < EndOf(file),
                        ~(file.by = "ccxt" /\ PageWithoutBars(s, t, file.until))
                 PROVE  t \in TimesIn(file.bars)
      BY DEF FileIsComplete
    <3>1. /\ t \in Nat /\ fetch.at \in Nat /\ fetch.start \in Int
          /\ fetch.end # NoTime => fetch.end \in Nat
      BY FetchFields, VisibleOnes DEF HInv, Answered, s
    <3>2. t < fetch.at /\ Before(t, fetch.end) /\ fetch.start <= t
      BY <2>1, <3>1 DEF EndOf, Before
    <3>3. ~fetch.misled /\ (Batch = {} \/ fetch.requests < MaxRequests)
      <4>1. fetch.requests \in Nat /\ MaxRequests \in Nat
        BY HistoryAssumption DEF HInv, Answered, FetchTyped, Fetches
      <4>2. ~cut
        BY <2>1
      <4>3. ~fetch.misled /\ ~(Batch # {} /\ fetch.requests >= MaxRequests)
        BY <4>2 DEF cut
      <4> QED
        BY <4>1, <4>3
    <3>4. PICK c \in all : c.bar.time = t /\ c.complete
      BY <1>1, <1>9, <2>1, <3>2, <3>3, LastPageIsComplete DEF all, s
    <3>5. c.bar \in kept
      <4>1. c.bar.time >= fetch.start /\ Before(c.bar.time, fetch.end)
        BY <3>1, <3>2, <3>4
      <4> QED
        BY <1>5, <3>4, <4>1
    <3>6. t \in BarTimes(kept)
      BY <3>4, <3>5 DEF BarTimes
    <3> QED
      BY <1>7, <2>1, <3>6
  <2>5. GoodFile(s, file)
    BY <1>7, <2>1, <2>2, <2>3, <2>4 DEF GoodFile
  <2>6. files' = [files EXCEPT ![s] = file]
    BY <1>2, <1>9
  <2>7. FilesGood'
    BY <1>1, <2>5, <2>6, FileWritten DEF HInv
  <2> QED
    BY <1>1, <2>7 DEF HInv, MarketKnown, FetchTyped, SaidFinished, FormingIsNewest, SearchedBack, PageFits
<1> QED
  BY <1>8, <1>9

-----------------------------------------------------------------------------
(* The theorems *)

LEMMA Starts ==
  ASSUME Init
  PROVE  HInv
<1>1. MarketKnown /\ FetchTyped /\ SaidFinished /\ FormingIsNewest /\ SearchedBack /\ PageFits
  BY DEF Init, MarketKnown, FetchTyped, SaidFinished, FormingIsNewest, SearchedBack, PageFits
<1>2. FilesGood
  BY DEF Init, FilesGood
<1> QED
  BY <1>1, <1>2 DEF HInv

LEMMA Steps ==
  ASSUME HInv, [Next]_vars
  PROVE  HInv'
<1>1. CASE UNCHANGED vars
  <2>1. FilesGood'
    BY <1>1, FilesStay DEF HInv, vars
  <2> QED
    BY <1>1, <2>1 DEF HInv, vars, MarketKnown, FetchTyped, SaidFinished, FormingIsNewest, SearchedBack,
                      PageFits, Before, BarTimes
<1>2. CASE Tick
  BY <1>2, TickKeeps
<1>3. ASSUME NEW s \in Symbols, NEW days \in Spans, NEW broker \in Brokers, NEW end \in Ends,
             StartFetch(s, broker, days, end)
      PROVE  HInv'
  BY <1>3, StartFetchKeeps
<1>4. ASSUME NEW s \in Symbols, NEW days \in Spans, Download(s, days)
      PROVE  HInv'
  BY <1>4, DownloadKeeps
<1>5. ASSUME NEW s \in Symbols, NEW export \in Exports, Import(s, export)
      PROVE  HInv'
  BY <1>5, ImportKeeps
<1>6. CASE Serve
  BY <1>6, ServeKeeps
<1>7. CASE CallFails
  BY <1>7, CallFailsKeeps
<1>8. CASE Receive
  <2>1. Answered /\ UNCHANGED <<now, listed>> /\ (NextPage(Batch) \/ LastPage(Batch))
    BY <1>8 DEF Receive, Answered
  <2> QED
    BY <2>1, NextPageKeeps, LastPageKeeps
<1> QED
  BY <1>1, <1>2, <1>3, <1>4, <1>5, <1>6, <1>7, <1>8 DEF Next

\* The invariant that all the others follow from, at all times.
THEOREM HistoryInvariant == Spec => []HInv
<1>1. Init => HInv
  BY Starts
<1>2. HInv /\ [Next]_vars => HInv'
  BY Steps
<1> QED
  BY <1>1, <1>2, PTL DEF Spec

\* What is kept is what the types say, and every file is in the order of time.
THEOREM HistoryTypeCorrect == Spec => []TypeOK
<1>1. HInv => TypeOK
  <2> SUFFICES ASSUME HInv PROVE TypeOK
    OBVIOUS
  <2>1. ASSUME fetch # NoFetch
        PROVE  /\ fetch.symbol \in Symbols /\ fetch.requests \in 1..MaxRequests
               /\ fetch.cursor \in Times \union {NoTime}
               /\ {c.bar : c \in fetch.collected} \subseteq Bars
    BY <2>1 DEF HInv, FetchTyped, Fetches, Candidates
  <2>2. ASSUME NEW s \in Symbols, files[s] # NoFile
        PROVE  /\ Range(files[s].bars) \subseteq Bars
               /\ \A i \in 2..Len(files[s].bars) : files[s].bars[i - 1].time <= files[s].bars[i].time
    <3> DEFINE bars == files[s].bars
    <3>1. Sorted(bars)
      BY <2>2 DEF HInv, FilesGood, GoodFile
    <3> HIDE DEF bars
    <3>2. /\ Len(bars) \in Nat /\ DOMAIN bars = 1..Len(bars) /\ \A i \in 1..Len(bars) : bars[i] \in Bars
          /\ \A i \in 1..Len(bars) : bars[i].time \in Nat
          /\ \A i, j \in 1..Len(bars) : i < j => bars[i].time < bars[j].time
      BY <3>1, SeriesShape
    <3>3. Range(bars) \subseteq Bars
      BY <3>2 DEF Range
    <3>4. ASSUME NEW i \in 2..Len(bars) PROVE bars[i - 1].time <= bars[i].time
      <4>1. i - 1 \in 1..Len(bars) /\ i \in 1..Len(bars) /\ i - 1 < i
        BY <3>2
      <4>2. bars[i - 1].time \in Nat /\ bars[i].time \in Nat /\ bars[i - 1].time < bars[i].time
        BY <3>2, <4>1
      <4> QED
        BY <4>2
    <3> QED
      BY <3>3, <3>4 DEF bars
  <2> QED
    BY <2>1, <2>2 DEF TypeOK, HInv, MarketKnown
<1> QED
  BY <1>1, HistoryInvariant, PTL

LEMMA TimesDistinct ==
  ASSUME NEW bars, Sorted(bars)
  PROVE  Cardinality(TimesIn(bars)) = Len(bars)
<1> DEFINE f == [i \in 1..Len(bars) |-> bars[i].time]
<1>1. /\ Len(bars) \in Nat /\ Ascends(f, Len(bars)) /\ TimesIn(bars) = {f[i] : i \in 1..Len(bars)}
  BY SeriesShape DEF Ascends
<1> HIDE DEF f
<1> QED
  BY <1>1, AscendingUnique

\* fetch_candles brings every bar that was over when it began, whatever the pages and the
\* holes in the history, but for a hole as long as a page, and none of them twice.
THEOREM FetchesAreComplete == Spec => []FetchIsComplete
<1>1. HInv => FetchIsComplete
  <2> SUFFICES ASSUME HInv, NEW s \in Symbols, files[s] # NoFile, files[s].by \in Brokers, ~files[s].cut
               PROVE  /\ \A t \in listed[s] :
                           /\ files[s].since <= t /\ t < EndOf(files[s])
                           /\ ~(files[s].by = "ccxt" /\ PageWithoutBars(s, t, files[s].until))
                           => t \in TimesIn(files[s].bars)
                      /\ Cardinality(TimesIn(files[s].bars)) = Len(files[s].bars)
    BY DEF FetchIsComplete, EndOf
  <2>1. Sorted(files[s].bars) /\ FileIsComplete(s, files[s])
    BY DEF HInv, FilesGood, GoodFile
  <2>2. Cardinality(TimesIn(files[s].bars)) = Len(files[s].bars)
    BY <2>1, TimesDistinct
  <2> QED
    BY <2>1, <2>2 DEF FileIsComplete
<1> QED
  BY <1>1, HistoryInvariant, PTL

\* Whatever the server answers and however long the fetch takes, a bar that was still forming
\* when it was answered is the newest of the file, and only the ccxt adapter lets it in.
THEOREM UnfinishedIsNewest == Spec => []OnlyTheNewestIsUnfinished
<1>1. HInv => OnlyTheNewestIsUnfinished
  BY DEF HInv, FilesGood, GoodFile, FileIsFinished, OnlyTheNewestIsUnfinished
<1> QED
  BY <1>1, HistoryInvariant, PTL

\* Every bar that resample makes has exactly the bars of its interval in it that the file read
\* had, whichever these are, and none is missing because that file ended too early, where no
\* local time occurs twice in the file and the distance of its bars is known.
THEOREM ImportsAreWhole ==
  ASSUME FoldAt = NoTime
  PROVE  Spec => []ImportedBarsAreWhole
<1>1. HInv => ImportedBarsAreWhole
  <2> SUFFICES ASSUME HInv, NEW s \in Symbols, files[s] # NoFile, files[s].by = "import",
                      HasNeighbours(files[s].rows), NEW b \in Range(files[s].bars)
               PROVE  WholeBar(s, b, files[s].rows)
    BY DEF ImportedBarsAreWhole, WholeBar
  <2>1. FileIsWhole(s, files[s])
    BY DEF HInv, FilesGood, GoodFile
  <2> QED
    BY <2>1 DEF FileIsWhole
<1> QED
  BY <1>1, HistoryInvariant, PTL

\* Bar number i of every symbol is of the same time, and no training bar is later than a
\* test bar.
THEOREM BacktestsOnOneAxis == Spec => []OneTimeAxis
<1>1. HInv => OneTimeAxis
  <2> SUFFICES ASSUME HInv, Loaded PROVE OneTimeAxis
    BY DEF OneTimeAxis
  <2> DEFINE train == Align(Train(Series))
             test == Align(Test(Series))
  <2>1. AllSorted(Series)
    BY DEF HInv, FilesGood, GoodFile, Loaded, Series, AllSorted
  <2>2. /\ AllSorted(Train(Series)) /\ AllSorted(Test(Series))
        /\ \A s \in Symbols : \A t \in TimesIn(Train(Series)[s]), u \in TimesIn(Test(Series)[s]) : t < u
    BY <2>1, WindowsApart
  <2>3. SameTimes(Align(Series))
    BY <2>1, AlignSorts DEF SameTimes
  <2>4. /\ SameTimes(train)
        /\ train # NoSeries => \A s \in Symbols : AllTimes(train) \subseteq TimesIn(Train(Series)[s])
    BY <2>2, AlignSorts DEF SameTimes
  <2>5. /\ SameTimes(test)
        /\ test # NoSeries => \A s \in Symbols : AllTimes(test) \subseteq TimesIn(Test(Series)[s])
    BY <2>2, AlignSorts DEF SameTimes
  <2> HIDE DEF train, test
  <2>6. ASSUME train # NoSeries, test # NoSeries, NEW t \in AllTimes(train), NEW u \in AllTimes(test)
        PROVE  t < u
    <3>1. PICK s \in Symbols : TRUE
      BY DEF AllTimes
    <3>2. t \in TimesIn(Train(Series)[s]) /\ u \in TimesIn(Test(Series)[s])
      BY <2>4, <2>5, <2>6
    <3> QED
      BY <2>2, <3>2
  <2> QED
    BY <2>3, <2>4, <2>5, <2>6 DEF OneTimeAxis, train, test
<1> QED
  BY <1>1, HistoryInvariant, PTL
=============================================================================
