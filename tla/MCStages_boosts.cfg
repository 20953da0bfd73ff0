\* The engine is installed and raises.
CONSTANTS
    Threads = {t1}
    MaxScans = 1
    MaxFragments = 0
    MaxAtoms = 0
    NotNamed = NotNamed
    Contexts <- SomeContexts
    Actions = {"chat", "code_review", "doc_access", "arch_view", "security_review", "compliance_review", "deploy"}
    Orgs = {"org-acme", "org-beta", "firm-alpha"}
    KnownOrgs = {"org-acme", "org-beta"}
    Services = {"kyc-engine", "payment-service"}
    Prompts <- SmallPrompts
    Paths <- SomePaths
    Tenants = {"acme", "beta"}
    Scoped = {"kyc", "pay"}
    Empty = ""
    Fragments <- SomeFragments
SPECIFICATION StagesSpec
INVARIANTS
    SecondPassOnlyBoosts
CHECK_DEADLOCK FALSE
