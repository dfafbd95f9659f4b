----------------------------- MODULE LatencyTimer -----------------------------
(***************************************************************************)
(* The latency recorder (latency_timer.hpp): samples, and the percentiles  *)
(* that compute() reads off the sorted samples.  The samples are a bag,    *)
(* for compute() sorts them before it looks; mean and standard deviation   *)
(* are left out.  p * n is computed in doubles in the code; for the four   *)
(* percentiles used its ceiling is the exact one, so permille stand for p. *)
(***************************************************************************)
EXTENDS Integers, FiniteSets, FiniteSetsExt

CONSTANTS
  Nanos,      \* the latencies that occur
  MaxSamples  \* bound: how many are recorded before a reset

ASSUME TimerAssumption ==
  /\ Nanos \subseteq Int /\ IsFiniteSet(Nanos)
  /\ MaxSamples \in Nat

VARIABLE samples  \* samples_: how often each latency was recorded

Count == SumFunction(samples)

Init == samples = [ns \in Nanos |-> 0]

\* record and record_ns.
RecordNs(ns) ==
  /\ Count < MaxSamples
  /\ samples' = [samples EXCEPT ![ns] = @ + 1]

Reset == samples' = [ns \in Nanos |-> 0]

Next == Reset \/ \E ns \in Nanos : RecordNs(ns)

Spec == Init /\ [][Next]_samples

-----------------------------------------------------------------------------
(* compute().                                                              *)

UpTo(ns)  == SumFunctionOnSet(samples, {m \in Nanos : m <= ns})
Below(ns) == UpTo(ns) - samples[ns]

\* sorted[idx]
Sorted(idx) == CHOOSE ns \in Nanos : Below(ns) <= idx /\ idx < UpTo(ns)

\* ceil(p * n)
Ceil(permille, n) == (permille * n + 999) \div 1000

\* Seeded fault: the index is not brought down by one.
IndexAbove(permille, n) == Min({Ceil(permille, n), n - 1})

Index(permille, n) == Min({Ceil(permille, n) - 1, n - 1})

Pct(permille) == Sorted(Index(permille, Count))

\* The stats of no samples are zeros.
Compute ==
  IF Count = 0
  THEN [samples |-> 0, min_ns |-> 0, max_ns |-> 0, p50_ns |-> 0, p90_ns |-> 0,
        p99_ns |-> 0, p999_ns |-> 0]
  ELSE [samples |-> Count, min_ns |-> Sorted(0), max_ns |-> Sorted(Count - 1),
        p50_ns |-> Pct(500), p90_ns |-> Pct(900), p99_ns |-> Pct(990), p999_ns |-> Pct(999)]

-----------------------------------------------------------------------------
(* Properties.                                                             *)

\* ns is the nearest rank for permille: the smallest latency that at least
\* that share of all samples do not exceed.
IsNearestRank(ns, permille) ==
  /\ 1000 * UpTo(ns) >= permille * Count
  /\ 1000 * Below(ns) < permille * Count

\* Every percentile is its nearest rank, on either side of the sizes where
\* the ceiling moves on and where the last sample is reached; the extremes
\* enclose them all.
PercentilesAreNearestRanks ==
  LET s == Compute
  IN  Count > 0 =>
        /\ IsNearestRank(s.p50_ns, 500) /\ IsNearestRank(s.p90_ns, 900)
        /\ IsNearestRank(s.p99_ns, 990) /\ IsNearestRank(s.p999_ns, 999)
        /\ s.min_ns <= s.p50_ns /\ s.p999_ns <= s.max_ns

=============================================================================
