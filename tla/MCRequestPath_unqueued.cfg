\* An error on the guarded path.
CONSTANTS
    Requests = {r1}
    KnownUsers = {alice}
    Strangers = {stranger}
    Stages <- DefaultStages
    OutcomesOf <- DefaultOutcomes
    Answers <- SomeAnswers
    Versions <- TwoVersions
    StaticPolicy <- RuleToPolicy
    CatalogPolicy <- Catalog
    SinkMayRaise = FALSE
    MaxErrors = 1
    MaxFlips = 0
SPECIFICATION Spec
INVARIANTS
    HeldIsQueued
