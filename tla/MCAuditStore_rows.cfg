\* A logger and two tools on either database, three batches of one or two
\* rows, a failing write, a process killed at any point.
CONSTANTS
    App = App
    Tools = {t1, t2}
    MaxBatch = 2
    MaxRows = 4
    MaxOpens = 4
    MaxFaults = 2
    MaxCrashes = 1
    None = None
    Detectors = {"pii", "intent"}
    RuleIds = {"R-01", "R-05"}
    Catalogs <- SomeCatalogs
    DefaultVersion = "v1.0"
    Version = "v2"
    ManySignals = 2
    DecisionValues = {"STOP", "ESCALATE"}
    Users = {"u-001", "u-002"}
    Rules = {"R-01"}
    LastHour = 2
    Fractions = {0, 5}
    MaxAudited = 3
    MaxSamples = 40
SYMMETRY Symmetry
SPECIFICATION StoreSpec
INVARIANTS
    TypeOK
    ReportedIsDurable
    ReadsAreWhole
    QueriesAreExact
    NeverMoreLenient
    SinksAgree
    PercentilesAreSound
PROPERTIES
    ImplementsBackend
CHECK_DEADLOCK TRUE
