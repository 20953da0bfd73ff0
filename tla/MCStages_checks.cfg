\* Every query of evaluate and every order of inserts into the trie; three scans
\* on two threads; prompts of up to four fragments, answers of up to five atoms.
\* With the library or without it, whoever builds the automaton.
CONSTANTS
    Threads = {t1, t2}
    MaxScans = 3
    MaxFragments = 4
    MaxAtoms = 5
    NotNamed = NotNamed
    Contexts <- SomeContexts
    Actions = {"chat", "code_review", "doc_access", "arch_view", "security_review", "compliance_review", "deploy"}
    Orgs = {"org-acme", "org-beta", "firm-alpha"}
    KnownOrgs = {"org-acme", "org-beta"}
    Services = {"kyc-engine", "payment-service"}
    Prompts <- SmallPrompts
    Paths <- SomePaths
    Tenants = {"acme", "beta"}
    Scoped = {"kyc", "pay"}
    Empty = ""
    Fragments <- SomeFragments
SYMMETRY Symmetry
SPECIFICATION StagesSpec
INVARIANTS
    TypeOK
    FirstObjectionIsStrictest
    KnownUsersPassTheStage
    LazyLoadsLoseNoMore
    DetectorsAreExact
    StripsSpansApart
PROPERTIES
    ScopeIsExact
    LongerIsNoMoreLenient
CHECK_DEADLOCK TRUE
