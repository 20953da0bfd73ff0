\* The two sinks and an unstamped decision or an unknown caller; two samples,
\* of which the evaluation harness takes the larger one for the median.  One
\* invariant at a time.
CONSTANTS
    App = App
    Tools = {t1}
    MaxBatch = 1
    MaxRows = 1
    MaxOpens = 1
    MaxFaults = 0
    MaxCrashes = 0
    None = None
    Detectors = {"pii", "intent"}
    RuleIds = {"R-01", "R-05"}
    Catalogs <- SomeCatalogs
    DefaultVersion = "v1.0"
    Version = "v2"
    ManySignals = 2
    DecisionValues = {"STOP", "ESCALATE"}
    Users = {"u-001", "u-002"}
    Rules = {"R-01"}
    LastHour = 2
    Fractions = {0, 5}
    MaxAudited = 3
    MaxSamples = 4
SPECIFICATION StoreSpec
INVARIANTS
    SameFields
\*  EvalReportsThePercentile
CHECK_DEADLOCK FALSE
