\* An error on the guarded path, after a reload.
CONSTANTS
    Requests = {r1}
    KnownUsers = {alice}
    Strangers = {stranger}
    Stages <- DefaultStages
    OutcomesOf <- DefaultOutcomes
    Answers <- SomeAnswers
    Versions <- TwoVersions
    StaticPolicy <- RuleToPolicy
    CatalogPolicy <- Catalog
    SinkMayRaise = FALSE
    MaxErrors = 1
    MaxFlips = 0
SPECIFICATION Spec
INVARIANTS
    CitesExactVersion
