\* A live credential behind a placeholder of the same kind.
CONSTANTS
    Threads = {t1}
    MaxScans = 0
    MaxFragments = 2
    MaxAtoms = 0
    NotNamed = NotNamed
    Contexts <- SomeContexts
    Actions = {"chat", "code_review", "doc_access", "arch_view", "security_review", "compliance_review", "deploy"}
    Orgs = {"org-acme", "org-beta", "firm-alpha"}
    KnownOrgs = {"org-acme", "org-beta"}
    Services = {"kyc-engine", "payment-service"}
    Prompts <- SmallPrompts
    Paths <- SomePaths
    Tenants = {"acme", "beta"}
    Scoped = {"kyc", "pay"}
    Empty = ""
    Fragments <- SomeFragments
SPECIFICATION StagesSpec
INVARIANTS
    AnySecretIsFound
CHECK_DEADLOCK FALSE
