---------------------------- MODULE MCAuditStore -----------------------------
(***************************************************************************)
(* TLC instances of what surrounds the audit table: the database of        *)
(* AuditStore, which implements AuditBackend, and three parts that share   *)
(* no state with it: the queries of AuditQueries, the record of            *)
(* AuditRecord and the percentiles of LatencyStats.  A behaviour follows   *)
(* one of the four.                                                        *)
(***************************************************************************)
EXTENDS AuditStore, RecordChecks, TLC

Symmetry == Permutations(Tools)

SomeCatalogs == {[r \in {"R-01"} |-> "P-01"]}

queriesIdle == Queries!Init
linesIdle == Lines!Init
latencyIdle == Latency!Init
storeIdle == opens = 0 /\ kind = "sqlite"

otherVars == <<rows, lineVars, latencyVars>>

StoreInit == Init /\ queriesIdle /\ linesIdle /\ latencyIdle

StoreStep == queriesIdle /\ linesIdle /\ latencyIdle /\ Next /\ UNCHANGED otherVars
QueryStep ==
    /\ storeIdle /\ linesIdle /\ latencyIdle
    /\ Queries!Next
    /\ UNCHANGED <<storeVars, lineVars, latencyVars>>
LineStep ==
    /\ storeIdle /\ queriesIdle /\ latencyIdle
    /\ Lines!Next
    /\ UNCHANGED <<storeVars, rows, latencyVars>>
LatencyStep ==
    /\ storeIdle /\ queriesIdle /\ linesIdle
    /\ Latency!Next
    /\ UNCHANGED <<storeVars, rows, lineVars>>

StoreSpec ==
    StoreInit /\ [][StoreStep \/ QueryStep \/ LineStep \/ LatencyStep]_<<storeVars, otherVars>>

\* Claims of the source that do not hold.
SameFields == Lines!SameFields
EvalReportsThePercentile == Latency!EvalReportsThePercentile
=============================================================================
