\* Two requests at once, three stages; a reload, an error anywhere, an audit
\* backend that goes down.
CONSTANTS
    Requests = {r1, r2}
    KnownUsers = {alice}
    Strangers = {stranger}
    Stages <- ShortStages
    OutcomesOf <- ShortOutcomes
    Answers <- SomeAnswers
    Versions <- TwoVersions
    StaticPolicy <- RuleToPolicy
    CatalogPolicy <- Catalog
    SinkMayRaise = TRUE
    MaxErrors = 1
    MaxFlips = 1
SYMMETRY Symmetry
SPECIFICATION Spec
INVARIANTS
    TypeOK
    AnswerIsScreened
    StrictestWins
    AccountsAgree
    CitesWhatDecided
CHECK_DEADLOCK TRUE
