---------------------------- MODULE RecordChecks -----------------------------
(***************************************************************************)
(* What is computed around the audit table and shares no state with its    *)
(* backend: the record of a decision (AuditRecord), the review queries     *)
(* (AuditQueries) and the percentiles of latency (LatencyStats).           *)
(***************************************************************************)
EXTENDS Integers, Sequences

CONSTANTS
    None,
    Detectors, RuleIds, Catalogs, DefaultVersion, Version, ManySignals,
    DecisionValues, Users, Rules, LastHour, Fractions, MaxAudited,   \* of AuditQueries
    MaxSamples      \* bound: samples of latency

VARIABLES
    request, record, row, printed,
    rows,
    fast, slow

lineVars == <<request, record, row, printed>>
latencyVars == <<fast, slow>>

Lines == INSTANCE AuditRecord
Queries == INSTANCE AuditQueries WITH Decisions <- DecisionValues
Latency == INSTANCE LatencyStats

ASSUME LinesAssumption == Lines!NoneIsNothing

\* A filter that is not given is not a value of one.
ASSUME QueriesAssumption ==
    /\ None \notin DecisionValues \cup Users \cup Queries!Instants \cup {"STOP", 1}
    /\ LastHour \in Nat /\ Fractions \subseteq Nat

-----------------------------------------------------------------------------
\* What is read back from the table is a valid record of a decision no more
\* lenient than the one taken (_disposition_to_str), for a disposition in one
\* of the forms of OtherDispositions or of the pipeline.
NeverMoreLenient == Lines!NeverMoreLenient

\* Console and table tell the same story of a request (ConsoleAuditSink,
\* LoggerAuditSink).
SinksAgree == Lines!SinksAgree

\* The review queries return what they should, whichever backend keeps the
\* table (queries.py and fetch of backends.py).
QueriesAreExact == Queries!QueriesAreExact

\* Percentiles and gate are sound (_percentile of queries.py and latency.py).
PercentilesAreSound == Latency!PercentilesAreSound
=============================================================================
