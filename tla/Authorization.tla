---------------------------- MODULE Authorization ----------------------------
(***************************************************************************)
(* Stage 3: EIMClient (app/identity/eim_client.py), the capability masks   *)
(* (app/pdp/authz/rbac.py), evaluate (app/pdp/authz/cedar_engine.py), and  *)
(* the call that _authz_stage (app/pdp/factory.py) makes.                  *)
(*                                                                         *)
(* A mask is the set of its bits.  A prompt is the set of the known        *)
(* organisations whose name occurs in it, letter case aside.               *)
(***************************************************************************)
EXTENDS Integers, Verdicts

CONSTANTS
    Contexts,    \* contexts [role, tenant, owned] of the callers of evaluate
    Actions,     \* values of action: the known ones and others
    Orgs,        \* tenants, and values of resource_tenant
    KnownOrgs,   \* settings.KNOWN_ORGS
    Services,    \* values of service
    None         \* an argument left empty

KnownRoles == {"Engineer", "Support", "SecurityReviewer", "ComplianceOfficer"}

RoleMask(role) ==
    CASE role = "Engineer"          -> {"CODE_HELP", "DOC", "ARCH"}
      [] role = "Support"           -> {"DOC"}
      [] role = "SecurityReviewer"  -> {"CODE_HELP", "DOC", "ARCH", "REVIEW_SEC"}
      [] role = "ComplianceOfficer" -> {"DOC", "REVIEW_COMP"}
      [] OTHER                      -> {}

\* The action of a role that is not listed is "chat".
ActionCapability ==
    [chat |-> "CODE_HELP", code_review |-> "CODE_HELP", doc_access |-> "DOC",
     arch_view |-> "ARCH", security_review |-> "REVIEW_SEC", compliance_review |-> "REVIEW_COMP"]

RequiredCapability(action) ==
    IF action \in DOMAIN ActionCapability THEN ActionCapability[action] ELSE "CODE_HELP"

HasCapability(role, capability) == capability \in RoleMask(role)

\* Faulty variant of DefaultAction: the action of every role is "chat".
ChatForAll(role) == "chat"

DefaultAction(role) ==
    CASE role = "Support"           -> "doc_access"
      [] role = "ComplianceOfficer" -> "compliance_review"
      [] OTHER                      -> "chat"

DetectCrossOrg(tenant, mentioned) == \E org \in KnownOrgs : org # tenant /\ org \in mentioned

-----------------------------------------------------------------------------
(* evaluate: the first check that objects decides.                          *)

Owns(ctx, service) == "*" \in ctx.owned \/ service \in ctx.owned
CrossesTenants(ctx, q) == q.resourceTenant # None /\ q.resourceTenant # ctx.tenant
ObjectIf(condition, disposition) == IF condition THEN disposition ELSE ALLOW

\* Faulty variant of Checks: the services come before the tenants.
ChecksServiceEarly(ctx, q) ==
    << ObjectIf(ctx.role \notin KnownRoles, STOP),
       ObjectIf(~HasCapability(ctx.role, RequiredCapability(q.action)), STOP),
       ObjectIf(q.service # None /\ ~Owns(ctx, q.service), ESCALATE),
       ObjectIf(CrossesTenants(ctx, q) /\ ctx.role # "SecurityReviewer", STOP),
       ObjectIf(DetectCrossOrg(ctx.tenant, q.mentioned), ESCALATE) >>

\* The checks in the order of the code, each with what it returns.
Checks(ctx, q) ==
    << ObjectIf(ctx.role \notin KnownRoles, STOP),
       ObjectIf(~HasCapability(ctx.role, RequiredCapability(q.action)), STOP),
       ObjectIf(CrossesTenants(ctx, q) /\ ctx.role # "SecurityReviewer", STOP),
       ObjectIf(DetectCrossOrg(ctx.tenant, q.mentioned), ESCALATE),
       ObjectIf(q.service # None /\ ~Owns(ctx, q.service), ESCALATE) >>

Evaluate(ctx, q) ==
    LET checks == Checks(ctx, q)
        objecting == {i \in DOMAIN checks : checks[i] # ALLOW}
    IN  IF objecting = {} THEN ALLOW
        ELSE checks[CHOOSE i \in objecting : \A j \in objecting : i <= j]

\* The seeded users.
Context(role, owned) == [role |-> role, tenant |-> "org-acme", owned |-> owned]
UserData ==
    [user \in {"u-001", "u-002", "u-003", "u-004", "u-005"} |->
        CASE user = "u-001" -> Context("Engineer", {"dvs-service", "kyc-engine"})
          [] user = "u-002" -> Context("Engineer", {"payment-service"})
          [] user = "u-003" -> Context("Support", {})
          [] user = "u-004" -> Context("SecurityReviewer", {"*"})
          [] user = "u-005" -> Context("ComplianceOfficer", {"*"})]

\* The query of _authz_stage: an action and nothing else.
StageQuery(ctx) ==
    [action |-> DefaultAction(ctx.role), mentioned |-> {}, service |-> None,
     resourceTenant |-> None]

-----------------------------------------------------------------------------
VARIABLES
    caller,      \* who asked: nobody yet, a caller of evaluate, the stage
    context,     \* the context that was passed
    query,       \* the other arguments
    said,        \* the organisations in the prompt of the request
    result

vars == <<caller, context, query, said, result>>

Init ==
    /\ caller = "nobody"
    /\ context = UserData["u-001"] /\ query = StageQuery(context) /\ said = {}
    /\ result = ALLOW

CallEvaluate ==
    /\ caller = "nobody" /\ caller' = "caller"
    /\ context' \in Contexts
    /\ said' \in SUBSET KnownOrgs
    /\ query' \in [action : Actions, mentioned : {said'}, service : Services \cup {None},
                  resourceTenant : Orgs \cup {None}]
    /\ result' = Evaluate(context', query')

RunAuthzStage ==
    /\ caller = "nobody" /\ caller' = "stage"
    /\ \E user \in DOMAIN UserData : context' = UserData[user]
    /\ said' \in SUBSET KnownOrgs
    /\ query' = StageQuery(context')
    /\ result' = Evaluate(context', query')

\* evaluate keeps no state: one call of each kind shows all there is.
Answered == caller # "nobody" /\ UNCHANGED vars

Next == CallEvaluate \/ RunAuthzStage \/ Answered

Spec == Init /\ [][Next]_vars

-----------------------------------------------------------------------------
(* Properties                                                               *)

\* The first check that objects is one of the strictest: whatever the
\* arguments, an escalation never hides a refusal that a later check holds.
FirstObjectionIsStrictest ==
    \A i \in DOMAIN Checks(context, query) : Checks(context, query)[i] <= result

\* The tables of default actions, of required capabilities and of masks agree:
\* the stage lets every seeded user through to the detectors.
KnownUsersPassTheStage == caller = "stage" => result = ALLOW

\* Claim of the comment on DEFAULT_KNOWN_ORGS: a prompt that refers to an
\* organisation other than the caller's own tenant is flagged.
ForeignOrgIsFlagged ==
    caller = "stage" /\ (\E org \in said : org # context.tenant) => result # ALLOW
=============================================================================
