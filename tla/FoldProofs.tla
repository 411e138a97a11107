------------------------------ MODULE FoldProofs ------------------------------
(***************************************************************************)
(* What FoldLeft of the community modules computes, for any step: the facts   *)
(* the proofs about sums of trades and about loops over orders rest on.  A    *)
(* module that needs them takes an instance with its own step; p is whatever  *)
(* that depends on besides the value folded.                                  *)
(***************************************************************************)
EXTENDS Integers, Sequences, SequencesExt, FiniteSetTheorems, SequenceTheorems,
        WellFoundedInduction, TLAPS

CONSTANT Step(_, _, _)

Folded(p, base, seq) == FoldLeft(LAMBDA value, x : Step(p, value, x), base, seq)

-----------------------------------------------------------------------------
(* Induction over the natural numbers, as a fact about sets.                   *)

\* A set of natural numbers has a least one: intervals are ordered by inclusion, which
\* is well-founded on finite sets.
LEMMA LeastOf ==
  ASSUME NEW T, T \subseteq Nat, T # {}
  PROVE  \E m \in T : \A n \in T : m <= n
<1> DEFINE R == StrictSubsetOrdering(Nat)
           F == FiniteSubsetsOf(Nat)
           U == {0..n : n \in T}
<1>1. U \subseteq F /\ U # {}
  <2>1. \A n \in T : IsFiniteSet(0..n) /\ 0..n \subseteq Nat
    BY FS_Interval
  <2> QED
    BY <2>1 DEF FiniteSubsetsOf
<1>2. \E u \in U : \A v \in U : <<v, u>> \notin R
  <2> HIDE DEF R, F, U
  <2>1. IsWellFoundedOn(R, F)
    BY FS_StrictSubsetOrderingWellFounded DEF R, F
  <2> QED
    BY <1>1, <2>1, WFMin
<1>3. PICK m \in T : \A n \in T : <<0..n, 0..m>> \notin R
  BY <1>2
<1>4. \A n \in T : n < m => <<0..n, 0..m>> \in R
  <2> TAKE n \in T
  <2> HAVE n < m
  <2>1. 0..n \subseteq 0..m /\ 0..n # 0..m
    OBVIOUS
  <2> QED
    BY <2>1 DEF StrictSubsetOrdering
<1>5. \A n \in T : ~(n < m)
  <2> HIDE DEF R
  <2> QED
    BY <1>3, <1>4
<1> QED
  BY <1>5

\* What holds of 0 and goes from each number below n to the next holds up to n.
LEMMA UpTo ==
  ASSUME NEW n \in Nat, NEW T, 0 \in T, \A k \in 0..(n - 1) : k \in T => k + 1 \in T
  PROVE  0..n \subseteq T
<1> SUFFICES ASSUME ~(0..n \subseteq T)
             PROVE  FALSE
  OBVIOUS
<1> DEFINE U == (0..n) \ T
<1>1. U \subseteq Nat /\ U # {}
  OBVIOUS
<1>2. PICK m \in U : \A k \in U : m <= k
  <2> HIDE DEF U
  <2> QED
    BY <1>1, LeastOf
<1>3. m # 0 /\ m \in 1..n
  BY <1>2
<1>4. m - 1 \in T
  BY <1>2, <1>3
<1> QED
  BY <1>2, <1>3, <1>4

-----------------------------------------------------------------------------
(* The function by which FoldLeft is defined                                   *)

Unfolded(p, base, seq, fold, D) ==
  IF D = {} THEN base ELSE Step(p, fold[D \ {Max(D)}], seq[Max(D)])

IsFold(p, base, seq, fold, n) ==
  fold = [D \in SUBSET (1..n) |-> Unfolded(p, base, seq, fold, D)]

LEMMA MaxOf ==
  ASSUME NEW n \in Nat, NEW D, D \subseteq 0..n, D # {}
  PROVE  Max(D) \in D /\ \A k \in D : k <= Max(D)
<1> DEFINE T == {n - k : k \in D}
<1>1. PICK m \in T : \A k \in T : m <= k
  <2>1. T \subseteq Nat /\ T # {}
    <3>1. \A k \in D : n - k \in Nat
      OBVIOUS
    <3> QED
      BY <3>1
  <2> HIDE DEF T
  <2> QED
    BY <2>1, LeastOf
<1>2. PICK i \in D : m = n - i
  BY <1>1
<1>3. \A k \in D : n - i <= n - k
  BY <1>1, <1>2
<1>4. \A k \in D : k <= i
  BY <1>2, <1>3
<1>5. \E x \in D : \A y \in D : x >= y
  BY <1>4
<1> QED
  BY <1>5 DEF Max

LEMMA MaxOfInterval ==
  ASSUME NEW n \in Nat \ {0}
  PROVE  Max(1..n) = n /\ (1..n) \ {Max(1..n)} = 1..(n - 1)
<1>1. Max(1..n) \in 1..n /\ \A k \in 1..n : k <= Max(1..n)
  <2>1. 1..n \subseteq 0..n /\ 1..n # {}
    OBVIOUS
  <2> QED
    BY <2>1, MaxOf
<1>2. Max(1..n) = n
  BY <1>1
<1> QED
  BY <1>2

\* A finite set of natural numbers is bounded: else there were a least unbounded one.
LEMMA MaxOfFinite ==
  ASSUME NEW T, T \subseteq Nat, IsFiniteSet(T), T # {}
  PROVE  Max(T) \in T /\ \A k \in T : k <= Max(T)
<1> DEFINE R == StrictSubsetOrdering(Nat)
           F == FiniteSubsetsOf(Nat)
           U == {S \in F : ~\E n \in Nat : S \subseteq 0..n}
<1>1. U = {}
  <2> SUFFICES ASSUME U # {} PROVE FALSE
    OBVIOUS
  <2>1. PICK S \in U : \A V \in U : <<V, S>> \notin R
    <3> HIDE DEF R, F
    <3>1. IsWellFoundedOn(R, F)
      BY FS_StrictSubsetOrderingWellFounded DEF R, F
    <3>2. U \subseteq F
      OBVIOUS
    <3> HIDE DEF U
    <3> QED
      BY <3>1, <3>2, WFMin
  <2>2. /\ S \subseteq Nat /\ IsFiniteSet(S) /\ ~\E n \in Nat : S \subseteq 0..n
    BY DEF FiniteSubsetsOf
  <2>3. PICK x : x \in S
    <3>1. {} \subseteq 0..0
      OBVIOUS
    <3> QED
      BY <2>2, <3>1
  <2> DEFINE V == S \ {x}
  <2>4. V \in F /\ <<V, S>> \in R
    <3>1. IsFiniteSet(V)
      BY <2>2, FS_RemoveElement
    <3> QED
      BY <2>2, <2>3, <3>1 DEF FiniteSubsetsOf, StrictSubsetOrdering
  <2>5. PICK n \in Nat : V \subseteq 0..n
    BY <2>1, <2>4
  <2>6. S \subseteq 0..(n + x)
    BY <2>2, <2>3, <2>5
  <2> QED
    BY <2>2, <2>3, <2>6
<1>2. PICK n \in Nat : T \subseteq 0..n
  BY <1>1 DEF FiniteSubsetsOf
<1> QED
  BY <1>2, MaxOf

\* The recursion has a solution, of every length.
LEMMA FoldExists ==
  ASSUME NEW p, NEW base, NEW seq, NEW n \in Nat
  PROVE  \E fold : IsFold(p, base, seq, fold, n)
<1> DEFINE T == {m \in Nat : \E fold : IsFold(p, base, seq, fold, m)}
<1>1. 0 \in T
  <2>1. SUBSET (1..0) = {{}}
    OBVIOUS
  <2>2. IsFold(p, base, seq, [D \in {{}} |-> base], 0)
    BY <2>1 DEF IsFold, Unfolded
  <2> QED
    BY <2>2
<1>2. ASSUME NEW m \in Nat, m \in T
      PROVE  m + 1 \in T
  <2>1. PICK fold : IsFold(p, base, seq, fold, m)
    BY <1>2
  <2> DEFINE longer == [D \in SUBSET (1..(m + 1)) |-> Unfolded(p, base, seq, fold, D)]
  <2>2. \A D \in SUBSET (1..m) : longer[D] = fold[D]
    <3>1. \A D \in SUBSET (1..m) : D \in SUBSET (1..(m + 1))
      OBVIOUS
    <3> QED
      BY <2>1, <3>1 DEF IsFold
  <2>3. \A D \in SUBSET (1..(m + 1)) : Unfolded(p, base, seq, fold, D) = Unfolded(p, base, seq, longer, D)
    <3> TAKE D \in SUBSET (1..(m + 1))
    <3>1. CASE D = {}
      BY <3>1 DEF Unfolded
    <3>2. CASE D # {}
      <4>1. Max(D) \in D /\ \A k \in D : k <= Max(D)
        <5>1. m + 1 \in Nat /\ D \subseteq 0..(m + 1)
          OBVIOUS
        <5> QED
          BY <3>2, <5>1, MaxOf
      <4>2. \A k \in D : k # Max(D) => k \in 1..m
        <5> TAKE k \in D
        <5>1. k \in 1..(m + 1) /\ Max(D) \in 1..(m + 1) /\ k <= Max(D)
          BY <4>1
        <5> HIDE DEF longer
        <5> QED
          BY <5>1
      <4>3. D \ {Max(D)} \in SUBSET (1..m)
        BY <4>2
      <4> HIDE DEF longer
      <4> QED
        BY <2>2, <3>2, <4>3 DEF Unfolded
    <3> QED
      BY <3>1, <3>2
  <2>4. IsFold(p, base, seq, longer, m + 1)
    BY <2>3 DEF IsFold
  <2> QED
    BY <2>4
<1>3. n \in 0..n /\ 0..n \subseteq T
  <2> HIDE DEF T
  <2> QED
    BY <1>1, <1>2, UpTo
<1> QED
  BY <1>3

\* The values of a fold, one after each element.
Values(p, base, seq, n, value) ==
  /\ value[0] = base
  /\ \A k \in 1..n : value[k] = Step(p, value[k - 1], seq[k])
  /\ Folded(p, base, seq) = value[n]

\* FoldLeft starts at base and takes one step for each element, the first one first.
LEMMA FoldSteps ==
  ASSUME NEW p, NEW base, NEW n \in Nat, NEW seq, DOMAIN seq = 1..n
  PROVE  \E value : Values(p, base, seq, n, value)
<1> DEFINE fold == CHOOSE g : IsFold(p, base, seq, g, n)
           value == [k \in 0..n |-> fold[1..k]]
<1>1. IsFold(p, base, seq, fold, n)
  BY FoldExists
<1>2. Folded(p, base, seq) = fold[1..n]
  BY DEF Folded, FoldLeft, MapThenFoldSet, IsFold, Unfolded
<1> HIDE DEF fold
<1>3. \A k \in 0..n : fold[1..k] = Unfolded(p, base, seq, fold, 1..k)
  <2>1. \A k \in 0..n : 1..k \in SUBSET (1..n)
    OBVIOUS
  <2> QED
    BY <1>1, <2>1 DEF IsFold
<1>4. fold[1..0] = base
  <2>1. 0 \in 0..n /\ 1..0 = {}
    OBVIOUS
  <2>2. fold[1..0] = Unfolded(p, base, seq, fold, 1..0)
    BY <1>3, <2>1
  <2> QED
    BY <2>1, <2>2 DEF Unfolded
<1>5. \A k \in 1..n : fold[1..k] = Step(p, fold[1..(k - 1)], seq[k])
  <2> TAKE k \in 1..n
  <2>1. k \in 0..n /\ k \in Nat \ {0} /\ 1..k # {}
    OBVIOUS
  <2>2. fold[1..k] = Unfolded(p, base, seq, fold, 1..k)
    BY <1>3, <2>1
  <2>3. Max(1..k) = k /\ (1..k) \ {Max(1..k)} = 1..(k - 1)
    BY <2>1, MaxOfInterval
  <2> QED
    BY <2>1, <2>2, <2>3 DEF Unfolded
<1>6. Values(p, base, seq, n, value)
  BY <1>2, <1>4, <1>5 DEF Values
<1> QED
  BY <1>6

-----------------------------------------------------------------------------
(* The results *)

\* The fold of nothing is the value it starts with.
LEMMA FoldOfEmpty ==
  ASSUME NEW p, NEW base
  PROVE  Folded(p, base, <<>>) = base
<1>1. DOMAIN <<>> = 1..0
  OBVIOUS
<1>2. PICK v : Values(p, base, <<>>, 0, v)
  BY <1>1, FoldSteps
<1> QED
  BY <1>2 DEF Values

\* One more element is one more step.
LEMMA FoldOfAppend ==
  ASSUME NEW S, NEW seq \in Seq(S), NEW x \in S, NEW p, NEW base
  PROVE  Folded(p, base, Append(seq, x)) = Step(p, Folded(p, base, seq), x)
<1> DEFINE n == Len(seq)
           longer == Append(seq, x)
<1>1. /\ n \in Nat /\ DOMAIN seq = 1..n /\ DOMAIN longer = 1..(n + 1)
      /\ \A k \in 1..n : longer[k] = seq[k]
      /\ longer[n + 1] = x
  BY AppendProperties, LenProperties
<1> HIDE DEF n, longer
<1>2. PICK v : Values(p, base, seq, n, v)
  BY <1>1, FoldSteps
<1>3. PICK w : Values(p, base, longer, n + 1, w)
  <2>1. n + 1 \in Nat
    BY <1>1
  <2> QED
    BY <1>1, <2>1, FoldSteps
<1> USE DEF Values
<1> DEFINE T == {k \in 0..n : v[k] = w[k]}
<1>4. 0 \in T
  BY <1>1, <1>2, <1>3
<1>5. ASSUME NEW k \in 0..(n - 1), k \in T
      PROVE  k + 1 \in T
  <2>1. k + 1 \in 1..n /\ k + 1 \in 1..(n + 1) /\ (k + 1) - 1 = k
    BY <1>1
  <2>2. v[k + 1] = Step(p, v[k], seq[k + 1]) /\ w[k + 1] = Step(p, w[k], seq[k + 1])
    BY <1>1, <1>2, <1>3, <2>1
  <2> QED
    BY <1>5, <2>1, <2>2
<1>6. n \in T
  <2>1. 0..n \subseteq T
    <3> HIDE DEF T
    <3> QED
      BY <1>1, <1>4, <1>5, UpTo
  <2> QED
    BY <1>1, <2>1
<1>7. w[n + 1] = Step(p, w[n], x)
  <2>1. n + 1 \in 1..(n + 1) /\ (n + 1) - 1 = n
    BY <1>1
  <2> QED
    BY <1>1, <1>3, <2>1
<1> QED
  BY <1>2, <1>3, <1>6, <1>7 DEF longer

\* A set that has the value at the start and that each step stays in has the result.
LEMMA FoldKeeps ==
  ASSUME NEW p, NEW S, NEW base \in S, NEW n \in Nat, NEW seq, DOMAIN seq = 1..n,
         \A k \in 1..n : \A value \in S : Step(p, value, seq[k]) \in S
  PROVE  Folded(p, base, seq) \in S
<1>1. PICK v : Values(p, base, seq, n, v)
  BY FoldSteps
<1> USE DEF Values
<1> DEFINE T == {k \in 0..n : v[k] \in S}
<1>2. 0 \in T
  BY <1>1
<1>3. ASSUME NEW k \in 0..(n - 1), k \in T
      PROVE  k + 1 \in T
  <2>1. k + 1 \in 1..n /\ (k + 1) - 1 = k
    OBVIOUS
  <2>2. v[k] \in S /\ v[k + 1] = Step(p, v[k], seq[k + 1])
    BY <1>1, <1>3, <2>1
  <2> QED
    BY <2>1, <2>2
<1>4. n \in T
  <2>1. 0..n \subseteq T
    <3> HIDE DEF T
    <3> QED
      BY <1>2, <1>3, UpTo
  <2> QED
    BY <2>1
<1> QED
  BY <1>1, <1>4

\* A prefix of a longer list is the same prefix.
LEMMA PrefixOfAppend ==
  ASSUME NEW S, NEW seq \in Seq(S), NEW x \in S, NEW k \in 0..Len(seq)
  PROVE  SubSeq(Append(seq, x), 1, k) = SubSeq(seq, 1, k)
<1>1. CASE k = 0
  BY <1>1, SubSeqEmpty
<1>2. CASE k # 0
  <2>1. /\ Len(seq) \in Nat /\ k \in 1..Len(seq) /\ 1 \in 1..Len(seq)
        /\ <<x>> \in Seq(S) /\ Append(seq, x) = seq \o <<x>>
    BY <1>2, AppendIsConcat
  <2> QED
    BY <2>1, SubSeqOfConcat1
<1> QED
  BY <1>1, <1>2

\* The fold of a prefix takes one step more with one element more.
LEMMA FoldOfPrefix ==
  ASSUME NEW S, NEW seq \in Seq(S), NEW k \in 0..(Len(seq) - 1), NEW p, NEW base
  PROVE  Folded(p, base, SubSeq(seq, 1, k + 1))
           = Step(p, Folded(p, base, SubSeq(seq, 1, k)), seq[k + 1])
<1>1. /\ Len(seq) \in Nat /\ k + 1 \in 1..Len(seq) /\ 1 \in 1..Len(seq) /\ (k + 1) - 1 = k
      /\ k + 1 \in 1..Len(seq)
  OBVIOUS
<1>2. /\ seq[k + 1] \in S
      /\ SubSeq(seq, 1, k) \in Seq(S)
  <2>1. \A i \in 1..k : seq[i] \in S
    BY <1>1, ElementOfSeq
  <2> QED
    BY <1>1, <2>1, ElementOfSeq, SubSeqProperties
<1>3. SubSeq(seq, 1, k + 1) = SubSeq(seq, 1, k) \o <<seq[k + 1]>>
  <2>1. k + 1 \in 1..Len(seq) /\ k + 1 \in Nat
    BY <1>1
  <2> QED
    BY <1>1, <2>1, SubSeqRecursiveSecond
<1>4. SubSeq(seq, 1, k + 1) = Append(SubSeq(seq, 1, k), seq[k + 1])
  BY <1>2, <1>3, AppendIsConcat
<1> QED
  BY <1>2, <1>4, FoldOfAppend

\* Lists of which each step takes the same have the same fold.
LEMMA FoldOfSame ==
  ASSUME NEW p, NEW base, NEW n \in Nat, NEW seq, DOMAIN seq = 1..n, NEW twin, DOMAIN twin = 1..n,
         \A k \in 1..n : \A value : Step(p, value, seq[k]) = Step(p, value, twin[k])
  PROVE  Folded(p, base, seq) = Folded(p, base, twin)
<1>1. PICK v : Values(p, base, seq, n, v)
  BY FoldSteps
<1>2. PICK w : Values(p, base, twin, n, w)
  BY FoldSteps
<1> USE DEF Values
<1> DEFINE T == {k \in 0..n : v[k] = w[k]}
<1>3. 0 \in T
  BY <1>1, <1>2
<1>4. ASSUME NEW k \in 0..(n - 1), k \in T
      PROVE  k + 1 \in T
  <2>1. k + 1 \in 1..n /\ (k + 1) - 1 = k
    OBVIOUS
  <2>2. v[k + 1] = Step(p, v[k], seq[k + 1]) /\ w[k + 1] = Step(p, w[k], twin[k + 1])
    BY <1>1, <1>2, <2>1
  <2> QED
    BY <1>4, <2>1, <2>2
<1>5. n \in T
  <2>1. 0..n \subseteq T
    <3> HIDE DEF T
    <3> QED
      BY <1>3, <1>4, UpTo
  <2> QED
    BY <2>1
<1> QED
  BY <1>1, <1>2, <1>5

\* The fold adds up part of each element.
AddsUp(p, n, seq, part) ==
  \A k \in 1..n : part[k] \in Int /\ \A sum \in Int : Step(p, sum, seq[k]) = sum + part[k]

LEMMA SumType ==
  ASSUME NEW p, NEW n \in Nat, NEW seq, DOMAIN seq = 1..n, NEW part, AddsUp(p, n, seq, part)
  PROVE  Folded(p, 0, seq) \in Int
<1>1. \A k \in 1..n : \A sum \in Int : Step(p, sum, seq[k]) \in Int
  BY DEF AddsUp
<1>2. \A zero \in Int : Folded(p, zero, seq) \in Int
  BY <1>1, FoldKeeps
<1> QED
  BY <1>2

SameBut(i, n, part, changed) == \A k \in 1..n : k # i => changed[k] = part[k]

\* In a sum, exchanging one element changes the result by as much as the elements differ.
LEMMA SumOfChange ==
  ASSUME NEW p, NEW n \in Nat, NEW seq, DOMAIN seq = 1..n, NEW other, DOMAIN other = 1..n,
         NEW part, AddsUp(p, n, seq, part), NEW changed, AddsUp(p, n, other, changed),
         NEW i \in 1..n, SameBut(i, n, part, changed)
  PROVE  Folded(p, 0, other) = Folded(p, 0, seq) + (changed[i] - part[i])
<1>1. PICK v : Values(p, 0, seq, n, v)
  BY FoldSteps
<1>2. PICK w : Values(p, 0, other, n, w)
  BY FoldSteps
<1> DEFINE more == changed[i] - part[i]
           Ahead(k) == v[k] \in Int /\ w[k] = IF k < i THEN v[k] ELSE v[k] + more
           T == {k \in 0..n : Ahead(k)}
<1>3. part[i] \in Int /\ changed[i] \in Int
  BY DEF AddsUp
<1>4. more \in Int /\ changed[i] = part[i] + more
  BY <1>3
<1> HIDE DEF more
<1>5. v[0] = 0 /\ w[0] = 0 /\ Folded(p, 0, seq) = v[n] /\ Folded(p, 0, other) = w[n]
  BY <1>1, <1>2 DEF Values
<1>6. 0 \in T
  BY <1>5
<1>7. ASSUME NEW k \in 0..(n - 1), k \in T
      PROVE  k + 1 \in T
  <2>1. k + 1 \in 1..n /\ (k + 1) - 1 = k
    OBVIOUS
  <2>2. v[k] \in Int /\ w[k] = IF k < i THEN v[k] ELSE v[k] + more
    BY <1>7
  <2>3. w[k] \in Int
    BY <1>4, <2>2
  <2>4. part[k + 1] \in Int /\ v[k + 1] = v[k] + part[k + 1]
    <3>1. v[k + 1] = Step(p, v[k], seq[k + 1])
      BY <1>1, <2>1 DEF Values
    <3> QED
      BY <2>1, <2>2, <3>1 DEF AddsUp
  <2>5. w[k + 1] = w[k] + changed[k + 1]
    <3>1. w[k + 1] = Step(p, w[k], other[k + 1])
      BY <1>2, <2>1 DEF Values
    <3> QED
      BY <2>1, <2>3, <3>1 DEF AddsUp
  <2>6. changed[k + 1] = IF k + 1 = i THEN part[k + 1] + more ELSE part[k + 1]
    BY <1>4, <2>1 DEF SameBut
  <2>7. Ahead(k + 1)
    BY <1>4, <2>2, <2>4, <2>5, <2>6
  <2> QED
    BY <2>1, <2>7
<1>8. n \in T
  <2>1. 0..n \subseteq T
    <3> HIDE DEF T
    <3> QED
      BY <1>6, <1>7, UpTo
  <2> QED
    BY <2>1
<1> QED
  BY <1>5, <1>8 DEF more
=============================================================================
