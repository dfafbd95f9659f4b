-------------------------- MODULE LatencyTimerProofs --------------------------
(***************************************************************************)
(* The percentiles of compute(), for every finite set of latencies and     *)
(* every number of samples.                                                *)
(***************************************************************************)
EXTENDS LatencyTimer, Arithmetic

-----------------------------------------------------------------------------
(* The arithmetic of the index.                                            *)

LEMMA MinOfTwo ==
  ASSUME NEW a \in Int, NEW b \in Int
  PROVE  Min({a, b}) = IF a <= b THEN a ELSE b
<1> DEFINE m == IF a <= b THEN a ELSE b
<1>1. m \in {a, b} /\ \A y \in {a, b} : m <= y
  OBVIOUS
<1>2. \A x \in {a, b} : (\A y \in {a, b} : x <= y) => x = m
  OBVIOUS
<1> QED
  BY <1>1, <1>2 DEF Min

LEMMA CeilIsCeiling ==
  ASSUME NEW k, k \in 1 .. 1000, NEW n, n \in Nat \ {0}
  PROVE  /\ Ceil(k, n) \in 1 .. n
         /\ 1000 * Ceil(k, n) >= k * n
         /\ 1000 * (Ceil(k, n) - 1) < k * n
<1> DEFINE x == k * n
<1>1. x \in Nat /\ x >= 1 /\ x <= 1000 * n
  <2>1. k * n <= 1000 * n /\ k * n >= 1 /\ k * n \in Nat
    BY Z3
  <2> QED
    BY <2>1
<1>2. Ceil(k, n) = (x + 999) \div 1000
  BY DEF Ceil
<1> HIDE DEF x
<1> QED
  BY <1>1, <1>2 DEF x

\* Of n sorted samples the one at index i is the nearest rank for k permille:
\* the samples up to it are at least the share asked for, and the ones before
\* it are fewer.
IsNearestIndex(i, k, n) ==
  i \in 0 .. n - 1 /\ 1000 * (i + 1) >= k * n /\ 1000 * i < k * n

\* The index compute() uses for a percentile above 0 is that of the nearest
\* rank for every number of samples: it never falls below 0 (it is a size_t)
\* nor past the last sample.
THEOREM IndexIsNearestRank ==
  ASSUME NEW k \in 1 .. 1000, NEW n \in Nat \ {0}
  PROVE  IsNearestIndex(Index(k, n), k, n)
<1>1. /\ Ceil(k, n) \in 1 .. n
      /\ 1000 * Ceil(k, n) >= k * n
      /\ 1000 * (Ceil(k, n) - 1) < k * n
  BY CeilIsCeiling
<1>2. Index(k, n) = Ceil(k, n) - 1
  BY <1>1, MinOfTwo DEF Index
<1> QED
  BY <1>1, <1>2 DEF IsNearestIndex

-----------------------------------------------------------------------------
(* The sorted samples.                                                     *)

Recorded == samples \in [Nanos -> Nat]

LEMMA RecordedAlways == Spec => []Recorded
<1>1. Init => Recorded
  BY DEF Init, Recorded
<1>2. Recorded /\ [Next]_samples => Recorded'
  BY DEF Recorded, Next, Reset, RecordNs
<1>. QED
  BY <1>1, <1>2, PTL DEF Spec

\* The latencies up to ns; UpTo counts the samples there.
Upper(ns) == {m \in Nanos : m <= ns}

LEMMA SamplesAre ==
  ASSUME Recorded
  PROVE  /\ \A S \in SUBSET Nanos :
              /\ IsFiniteSet(S) /\ S \subseteq Int /\ \A x \in S : samples[x] \in Nat
              /\ SumFunctionOnSet(samples, S) \in Nat
              /\ \A T \in SUBSET S : SumFunctionOnSet(samples, T) <= SumFunctionOnSet(samples, S)
         /\ Count = SumFunctionOnSet(samples, Nanos)
<1>1. IsFiniteSet(Nanos) /\ Nanos \subseteq Int /\ \A x \in Nanos : samples[x] \in Nat
  BY TimerAssumption DEF Recorded
<1>2. ASSUME NEW S \in SUBSET Nanos
      PROVE  /\ IsFiniteSet(S) /\ S \subseteq Int /\ \A x \in S : samples[x] \in Nat
             /\ SumFunctionOnSet(samples, S) \in Nat
             /\ \A T \in SUBSET S : SumFunctionOnSet(samples, T) <= SumFunctionOnSet(samples, S)
  <2>1. IsFiniteSet(S) /\ S \subseteq Int /\ \A x \in S : samples[x] \in Nat
    BY <1>1, FS_Subset
  <2>. QED BY <2>1, SumOfNaturals
<1>3. Count = SumFunctionOnSet(samples, Nanos)
  <2>1. samples = [x \in Nanos |-> samples[x]]
    BY DEF Recorded
  <2>2. \A x \in Nanos : samples[x] \in Int
    BY <1>1
  <2>3. SumFunction([x \in Nanos |-> samples[x]]) = SumFunctionOnSet(samples, Nanos)
    BY <1>1, <2>2, SumOfAll
  <2>. QED BY <2>1, <2>3 DEF Count
<1>. QED
  BY <1>2, <1>3

\* Below(ns) counts the samples that are less than ns.
LEMMA BelowIs ==
  ASSUME Recorded, NEW ns \in Nanos
  PROVE  /\ UpTo(ns) = SumFunctionOnSet(samples, Upper(ns)) /\ UpTo(ns) \in Nat
         /\ Below(ns) = SumFunctionOnSet(samples, Upper(ns) \ {ns}) /\ Below(ns) \in Nat
<1>. DEFINE S == Upper(ns)
<1>1. S \in SUBSET Nanos /\ S \ {ns} \in SUBSET Nanos /\ ns \in S
  BY TimerAssumption DEF Upper
<1>2. UpTo(ns) = SumFunctionOnSet(samples, S)
  BY DEF UpTo, Upper
<1>. HIDE DEF S
<1>3. SumFunctionOnSet(samples, S) = samples[ns] + SumFunctionOnSet(samples, S \ {ns})
  <2>1. IsFiniteSet(S) /\ \A x \in S : samples[x] \in Int
    BY <1>1, SamplesAre
  <2>. QED BY <1>1, <2>1, SumTakes
<1>4. /\ SumFunctionOnSet(samples, S) \in Nat /\ SumFunctionOnSet(samples, S \ {ns}) \in Nat
      /\ samples[ns] \in Nat
  BY <1>1, SamplesAre
<1>. QED
  BY <1>2, <1>3, <1>4 DEF Below, S

\* There is a sample at every index.
LEMMA SortedIs ==
  ASSUME Recorded, NEW idx \in 0 .. Count - 1
  PROVE  /\ Sorted(idx) \in Nanos
         /\ Below(Sorted(idx)) <= idx /\ idx < UpTo(Sorted(idx))
<1>0. Count \in Nat /\ Count > 0 /\ idx < Count /\ Count = SumFunctionOnSet(samples, Nanos)
  BY SamplesAre
<1>. DEFINE T == {ns \in Nanos : idx < UpTo(ns)}
<1>1. Nanos # {}
  BY <1>0, SumOfNone
<1>2. PICK top \in Nanos : \A y \in Nanos : y <= top
  BY <1>1, TimerAssumption, FiniteHasEnds
<1>3. top \in T
  <2>1. Upper(top) = Nanos
    BY <1>2 DEF Upper
  <2>. QED BY <1>0, <2>1, BelowIs
<1>4. PICK ns \in T : \A y \in T : ns <= y
  <2>1. T \in SUBSET Nanos
    OBVIOUS
  <2>2. IsFiniteSet(T) /\ T \subseteq Int
    <3>. HIDE DEF T
    <3>. QED BY <2>1, SamplesAre
  <2>. HIDE DEF T
  <2>. QED BY <1>3, <2>2, FiniteHasEnds
<1>5. Below(ns) <= idx
  <2>. DEFINE R == Upper(ns) \ {ns}
  <2>1. Below(ns) = SumFunctionOnSet(samples, R) /\ R \in SUBSET Nanos
    BY BelowIs DEF Upper
  <2>2. CASE R = {}
    <3>. HIDE DEF R
    <3>. QED BY <2>1, <2>2, SumOfNone
  <2>3. CASE R # {}
    <3>1. PICK m \in R : \A y \in R : y <= m
      <4>1. IsFiniteSet(R) /\ R \subseteq Int
        <5>. HIDE DEF R
        <5>. QED BY <2>1, SamplesAre
      <4>. HIDE DEF R
      <4>. QED BY <2>3, <4>1, FiniteHasEnds
    <3>2. m \in Nanos /\ ~(ns <= m) /\ Upper(m) = R
      <4>1. m \in Nanos /\ m < ns
        BY TimerAssumption DEF Upper
      <4>2. Upper(m) \subseteq R
        <5>1. ASSUME NEW x \in Upper(m)
              PROVE  x \in R
          <6>1. x \in Nanos /\ x <= m /\ x \in Int /\ m \in Int /\ ns \in Int
            BY <4>1, TimerAssumption DEF Upper
          <6>. QED BY <4>1, <6>1 DEF Upper
        <5>. QED BY <5>1
      <4>3. R \subseteq Upper(m)
        BY <3>1 DEF Upper
      <4>. QED BY <4>1, <4>2, <4>3, TimerAssumption
    <3>3. UpTo(m) = Below(ns) /\ UpTo(m) \in Nat
      BY <2>1, <3>2, BelowIs
    <3>4. m \notin T
      BY <1>4, <3>2
    <3>. QED BY <3>2, <3>3, <3>4
  <2>. QED BY <2>2, <2>3
<1>6. ns \in Nanos /\ Below(ns) <= idx /\ idx < UpTo(ns)
  BY <1>5
<1>. QED
  BY <1>6 DEF Sorted

\* The samples are in order.
LEMMA SortedIsMonotonic ==
  ASSUME Recorded, NEW i \in 0 .. Count - 1, NEW j \in 0 .. Count - 1, i <= j
  PROVE  Sorted(i) <= Sorted(j)
<1>. DEFINE a == Sorted(i)
            b == Sorted(j)
<1>1. a \in Nanos /\ Below(a) <= i /\ b \in Nanos /\ j < UpTo(b)
  BY SortedIs
<1>. HIDE DEF a, b
<1>2. a \in Int /\ b \in Int
  BY <1>1, TimerAssumption
<1>3. ASSUME b < a
      PROVE  FALSE
  <2>1. Upper(b) \subseteq Upper(a) \ {a} /\ Upper(a) \ {a} \in SUBSET Nanos
    <3>1. ASSUME NEW x \in Upper(b)
          PROVE  x \in Upper(a) \ {a}
      <4>1. x \in Nanos /\ x <= b /\ x \in Int
        BY TimerAssumption DEF Upper
      <4>. QED BY <1>2, <1>3, <4>1 DEF Upper
    <3>. QED BY <3>1 DEF Upper
  <2>2. SumFunctionOnSet(samples, Upper(b)) <= SumFunctionOnSet(samples, Upper(a) \ {a})
    BY <2>1, SamplesAre
  <2>3. UpTo(b) <= Below(a) /\ UpTo(b) \in Nat /\ Below(a) \in Nat
    BY <1>1, <2>2, BelowIs
  <2>4. i \in Int /\ j \in Int
    BY SamplesAre
  <2>. QED BY <1>1, <2>3, <2>4
<1>. QED
  BY <1>2, <1>3 DEF a, b

LEMMA PctIsNearestRank ==
  ASSUME Recorded, Count > 0, NEW k \in 1 .. 1000
  PROVE  Index(k, Count) \in 0 .. Count - 1 /\ IsNearestRank(Pct(k), k)
<1>. DEFINE idx == Index(k, Count)
            ns  == Sorted(idx)
<1>0. Count \in Nat \ {0}
  BY SamplesAre
<1>1. idx \in 0 .. Count - 1 /\ 1000 * (idx + 1) >= k * Count /\ 1000 * idx < k * Count
  <2>1. IsNearestIndex(idx, k, Count)
    BY <1>0, IndexIsNearestRank
  <2>. HIDE DEF idx
  <2>. QED BY <2>1 DEF IsNearestIndex
<1>2. ns \in Nanos /\ Below(ns) <= idx /\ idx < UpTo(ns)
  <2>. HIDE DEF idx
  <2>. QED BY <1>1, SortedIs
<1>3. UpTo(ns) \in Nat /\ Below(ns) \in Nat
  <2>. HIDE DEF ns
  <2>. QED BY <1>2, BelowIs
<1>4. 1000 * UpTo(ns) >= k * Count /\ 1000 * Below(ns) < k * Count
  <2>. DEFINE x == k * Count
  <2>1. x \in Int
    BY <1>0
  <2>. HIDE DEF ns, idx, x
  <2>2. idx \in Int /\ 1000 * (idx + 1) >= x /\ 1000 * idx < x
    BY <1>0, <1>1 DEF x
  <2>. QED BY <1>2, <1>3, <2>1, <2>2 DEF x
<1>. QED
  BY <1>1, <1>4 DEF Pct, IsNearestRank

\* Every percentile that compute() reports is its nearest rank, and the least
\* and the greatest sample enclose them, whatever was recorded and reset.
THEOREM NearestRanks == Spec => []PercentilesAreNearestRanks
<1>1. ASSUME Recorded, Count > 0
      PROVE  LET s == Compute
             IN  /\ IsNearestRank(s.p50_ns, 500) /\ IsNearestRank(s.p90_ns, 900)
                 /\ IsNearestRank(s.p99_ns, 990) /\ IsNearestRank(s.p999_ns, 999)
                 /\ s.min_ns <= s.p50_ns /\ s.p999_ns <= s.max_ns
  <2>0. Count \in Nat /\ Count # 0 /\ 0 \in 0 .. Count - 1 /\ Count - 1 \in 0 .. Count - 1
    BY <1>1, SamplesAre
  <2>1. /\ IsNearestRank(Pct(500), 500) /\ IsNearestRank(Pct(900), 900)
        /\ IsNearestRank(Pct(990), 990) /\ IsNearestRank(Pct(999), 999)
        /\ Index(500, Count) \in 0 .. Count - 1 /\ Index(999, Count) \in 0 .. Count - 1
    <3>. DEFINE P(k) == Index(k, Count) \in 0 .. Count - 1 /\ IsNearestRank(Pct(k), k)
    <3>1. \A k \in 1 .. 1000 : P(k)
      BY <1>1, PctIsNearestRank
    <3>. HIDE DEF P
    <3>2. P(500) /\ P(900) /\ P(990) /\ P(999)
      BY <3>1
    <3>. QED BY <3>2 DEF P
  <2>2. Sorted(0) <= Pct(500) /\ Pct(999) <= Sorted(Count - 1)
    BY <1>1, <2>0, <2>1, SortedIsMonotonic DEF Pct
  <2>3. Compute = [samples |-> Count, min_ns |-> Sorted(0), max_ns |-> Sorted(Count - 1),
                   p50_ns |-> Pct(500), p90_ns |-> Pct(900), p99_ns |-> Pct(990),
                   p999_ns |-> Pct(999)]
    BY <2>0 DEF Compute
  <2>. QED BY <2>1, <2>2, <2>3
<1>2. Recorded => PercentilesAreNearestRanks
  BY <1>1 DEF PercentilesAreNearestRanks
<1>. QED
  BY <1>2, RecordedAlways, PTL

=============================================================================
