\* The audit sink raises.
CONSTANTS
    Requests = {r1}
    KnownUsers = {alice}
    Strangers = {stranger}
    Stages <- DefaultStages
    OutcomesOf <- DefaultOutcomes
    Answers <- SomeAnswers
    Versions <- TwoVersions
    StaticPolicy <- RuleToPolicy
    CatalogPolicy <- Catalog
    SinkMayRaise = TRUE
    MaxErrors = 1
    MaxFlips = 0
SPECIFICATION Spec
INVARIANTS
    NeverFails
