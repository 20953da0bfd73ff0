\* Two threads that are both first, without the library.
CONSTANTS
    Threads = {t1, t2}
    MaxScans = 2
    MaxFragments = 0
    MaxAtoms = 0
    NotNamed = NotNamed
    Contexts <- SomeContexts
    Actions = {"chat", "code_review", "doc_access", "arch_view", "security_review", "compliance_review", "deploy"}
    Orgs = {"org-acme", "org-beta", "firm-alpha"}
    KnownOrgs = {"org-acme", "org-beta"}
    Services = {"kyc-engine", "payment-service"}
    Prompts <- SmallPrompts
    Paths <- SomePaths
    Tenants = {"acme", "beta"}
    Scoped = {"kyc", "pay"}
    Empty = ""
    Fragments <- SomeFragments
SPECIFICATION StagesSpec
INVARIANTS
    FindsThePhrases
CHECK_DEADLOCK FALSE
