\* No errors: a reload between the evaluation of a request and its record, a
\* refusal, a detector that fails.  One invariant at a time.
CONSTANTS
    Requests = {r1}
    KnownUsers = {alice}
    Strangers = {stranger}
    Stages <- DefaultStages
    OutcomesOf <- DefaultOutcomes
    Answers <- SomeAnswers
    Versions <- TwoVersions
    StaticPolicy <- RuleToPolicy
    CatalogPolicy <- Catalog
    SinkMayRaise = FALSE
    MaxErrors = 0
    MaxFlips = 0
SPECIFICATION Spec
INVARIANTS
    OnePolicyPerRecord
\*  CitationsAgree
\*  CrashedDetectorHolds
