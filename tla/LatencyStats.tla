----------------------------- MODULE LatencyStats ----------------------------
(***************************************************************************)
(* The percentiles of latency: _percentile of app/audit/queries.py, which  *)
(* latency_stats reports from the audit log, and _percentile of            *)
(* tests/eval/latency.py, on which the latency gate of the test suite      *)
(* rests.  Both are documented as the nearest rank.                        *)
(*                                                                         *)
(* A sorted list of samples is how many of them are fast, within the       *)
(* budget, and how many are slow, the others.  Ranks count from 1; pct/100 *)
(* and round() are written with whole numbers.                             *)
(***************************************************************************)
EXTENDS Integers

CONSTANT MaxSamples    \* bound: samples in a report

VARIABLES fast, slow   \* how many samples of each kind there are

vars == <<fast, slow>>

Count == fast + slow

\* The sample at a position of the sorted list.
SampleAt(rank) == IF rank <= fast THEN "fast" ELSE "slow"

\* idx = min(max(rank, 1), len) - 1, counted from 1.
Clamped(rank, n) == IF rank < 1 THEN 1 ELSE IF rank > n THEN n ELSE rank

\* Faulty variant of Rank: the quotient is truncated.
RankTruncated(pct, n) == Clamped((pct * n) \div 100, n)

\* queries._percentile: math.ceil(pct / 100 * n).
Rank(pct, n) == Clamped((pct * n + 99) \div 100, n)

\* Python's round of a number that is a half more than q / 100: to the
\* nearest integer, and to the even one if q / 100 is a whole number.
RoundHalfMore(q) ==
    IF q % 100 = 0 /\ (q \div 100) % 2 = 0 THEN q \div 100 ELSE (q \div 100) + 1

\* latency._percentile: round(pct / 100 * n + 0.5) - 1, counted from 1.
EvalRank(pct, n) == Clamped(RoundHalfMore(pct * n), n)

\* LatencyReport.passed, of one series: the p95 is within the budget.
GatePasses == Count = 0 \/ SampleAt(EvalRank(95, Count)) = "fast"

Percentiles == {50, 95, 99}

Init == fast = 0 /\ slow = 0

\* A stage was timed, or a record was written, once more.
Sample ==
    /\ Count < MaxSamples
    /\ \/ fast' = fast + 1 /\ UNCHANGED slow
       \/ slow' = slow + 1 /\ UNCHANGED fast

Finished == Count = MaxSamples /\ UNCHANGED vars

Next == Sample \/ Finished

Spec == Init /\ [][Next]_vars

-----------------------------------------------------------------------------
(* Properties                                                               *)

\* The type invariant.
TypeOK == fast \in Nat /\ slow \in Nat

\* The sample at a rank is a percentile if pct of all samples are not above
\* it, and no smaller sample will do.
IsPercentile(sample, pct) ==
    IF sample = "fast" THEN fast > 0 /\ pct * Count <= 100 * fast
                       ELSE pct * Count > 100 * fast

\* The percentiles that are reported from the audit log are those of the
\* definition, for any number of records and any share of slow ones: the
\* boundaries of rounding included (latency_stats, queries._percentile).
ReportsThePercentile ==
    Count > 0 => \A pct \in Percentiles : IsPercentile(SampleAt(Rank(pct, Count)), pct)

\* The latency gate never passes a series of which more than one sample in
\* twenty is over the budget, although its rank may be one too high
\* (latency._percentile, LatencyReport.passed).
GateIsSound == (Count > 0 /\ GatePasses) => 95 * Count <= 100 * fast

\* Both reports of latency can be relied on.
PercentilesAreSound == ReportsThePercentile /\ GateIsSound

\* Claim of the docstring of latency._percentile: it is the nearest rank.
EvalReportsThePercentile ==
    Count > 0 => \A pct \in {50, 95} : IsPercentile(SampleAt(EvalRank(pct, Count)), pct)
=============================================================================
