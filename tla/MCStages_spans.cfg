\* Code in another form than its pattern, or spans that overlap.
CONSTANTS
    Threads = {t1}
    MaxScans = 0
    MaxFragments = 0
    MaxAtoms = 3
    NotNamed = NotNamed
    Contexts <- SomeContexts
    Actions = {"chat", "code_review", "doc_access", "arch_view", "security_review", "compliance_review", "deploy"}
    Orgs = {"org-acme", "org-beta", "firm-alpha"}
    KnownOrgs = {"org-acme", "org-beta"}
    Services = {"kyc-engine", "payment-service"}
    Prompts <- SmallPrompts
    Paths <- SomePaths
    Tenants = {"acme", "beta"}
    Scoped = {"kyc", "pay"}
    Empty = ""
    Fragments <- SomeFragments
SPECIFICATION StagesSpec
INVARIANTS
    StripsEverySpan
CHECK_DEADLOCK FALSE
