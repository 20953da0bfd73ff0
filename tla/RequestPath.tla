------------------------------ MODULE RequestPath -----------------------------
(***************************************************************************)
(* One chat request from end to end: ingress.handle_request                *)
(* (app/pep/ingress.py), Pipeline._evaluate (app/pdp/pipeline.py),         *)
(* enforcement.apply (app/pep/enforcement.py), EscalationQueue.enqueue     *)
(* (app/escalation/queue.py), the record that the audit sink builds        *)
(* (app/pep/audit_hook.py, app/audit/models.py) and the counters of        *)
(* app/monitoring/signals.py, while snapshots are swapped and the audit    *)
(* backend fails and recovers.                                             *)
(*                                                                         *)
(* What the prompt and the answer hold is fixed when the request arrives:  *)
(* the user, the outcome of every stage and the findings in the answer.    *)
(* The decision cache in front of _evaluate is module DecisionCache; the   *)
(* queue behind the sink is module AuditLogger.                            *)
(***************************************************************************)
EXTENDS Verdicts, FiniteSets

CONSTANTS
    Requests,      \* chat requests, each on a thread of the pool
    KnownUsers,    \* users the identity manager knows
    Strangers,     \* other values of user_id
    Stages,        \* names of the pipeline's stages, in order
    OutcomesOf,    \* for each stage, the outcomes a prompt can have there
    Answers,       \* what an answer of the assistant can hold
    Versions,      \* the version of each snapshot, in order of activation
    StaticPolicy,  \* _RULE_TO_POLICY: the policy a refusal cites for a rule
    CatalogPolicy, \* the policy_id of each rule in the catalog
    SinkMayRaise,  \* TRUE: record() may raise, its fallback prints
    MaxErrors,     \* bound: exceptions on the guarded path and in the sink
    MaxFlips       \* bound: changes of the audit backend's health

ASSUME StagesAssumption == Stages \in Seq(STRING)
\* A snapshot has the constant BUNDLE_VERSION or "empty": a version is never
\* the empty string, which is what an unstamped decision has.
ASSUME VersionsAssumption ==
    Versions \in Seq(STRING) /\ Versions # <<>> /\ Unstamped \notin Range(Versions)
ASSUME UsersAssumption == KnownUsers \cap Strangers = {}
\* A stage that finds something cites a rule of the catalog, as the tables of
\* the output scanner do; an error has no rule.
ASSUME OutcomesAssumption ==
    \A s \in Range(Stages) : \A o \in OutcomesOf[s] :
        /\ o.result = "finds" => o.rule \in DOMAIN CatalogPolicy /\ o.disposition \in Dispositions
        /\ o.result = "raises" => o.rule = NoRule
ASSUME CatalogAssumption == Range(ScannedRules) \subseteq DOMAIN CatalogPolicy
ASSUME BoundsAssumption ==
    SinkMayRaise \in BOOLEAN /\ MaxErrors \in Nat /\ MaxFlips \in Nat

StageNumbers == 1..Len(Stages)
Snapshots == 1..Len(Versions)
NoSnapshot == 0
NoPolicy == "no_policy"

VARIABLES
    user, outcome, answer,   \* what each request is: its user and its content
    pc,          \* where each request is
    snap,        \* _evaluate's snapshot
    stage,       \* the number of the next stage
    verdicts,    \* _evaluate's local verdicts
    decision,    \* handle_request's local decision
    response,    \* the response body: decision, policy cited, answer given
    active,      \* PolicyStore._active
    healthy,     \* audit_hook.is_healthy()
    escalated,   \* requests in the escalation queue
    trail,       \* audit records, in order
    counted,     \* the keys signals.increment was called with, in order
    failed,      \* history: requests the outer guard had to answer
    errors, flips

contentVars == <<user, outcome, answer>>
requestVars == <<pc, snap, stage, verdicts, decision, response>>
sharedVars == <<active, healthy, escalated, trail, counted>>
vars == <<contentVars, requestVars, sharedVars, failed, errors, flips>>

Response(told, policy, answered) ==
    [decision |-> told, policy |-> policy, answered |-> answered]
NoResponse == Response("none", NoPolicy, FALSE)

Init ==
    /\ user \in [Requests -> KnownUsers \cup Strangers]
    /\ outcome \in [Requests -> {o \in [StageNumbers -> UNION {OutcomesOf[s] : s \in Range(Stages)}] :
                                    \A i \in StageNumbers : o[i] \in OutcomesOf[Stages[i]]}]
    /\ answer \in [Requests -> Answers]
    /\ pc = [r \in Requests |-> "arrived"]
    /\ snap = [r \in Requests |-> NoSnapshot]
    /\ stage = [r \in Requests |-> 1]
    /\ verdicts = [r \in Requests |-> <<>>]
    /\ decision = [r \in Requests |-> Decision(ALLOW, <<>>)]
    /\ response = [r \in Requests |-> NoResponse]
    /\ active = 1 /\ healthy = TRUE
    /\ escalated = {} /\ trail = <<>> /\ counted = <<>>
    /\ failed = {} /\ errors = 0 /\ flips = 0

Goto(r, label) == pc' = [pc EXCEPT ![r] = label]
Decide(r, d) == decision' = [decision EXCEPT ![r] = d]
Tell(r, body) == response' = [response EXCEPT ![r] = body]

\* Faulty variant of Cited: the rule stands in for a policy it lacks.
CitedElseRule(policies, rule) == IF rule \in DOMAIN policies THEN policies[rule] ELSE rule

\* The policy cited for a rule: the lookup of policy_id_for and of
\* _resolve_policy_id.
Cited(policies, rule) == IF rule \in DOMAIN policies THEN policies[rule] ELSE NoPolicy

-----------------------------------------------------------------------------
(* handle_request up to the decision.                                       *)

\* An unknown user is refused before anything else looks at the prompt.
RefuseStranger(r) ==
    /\ pc[r] = "arrived"
    /\ user[r] \in Strangers
    /\ Decide(r, Decision(STOP, <<>>))
    /\ Tell(r, Response("STOP", NoPolicy, FALSE))
    /\ Goto(r, "record")
    /\ UNCHANGED <<contentVars, snap, stage, verdicts, sharedVars, failed, errors, flips>>

\* The audit backend is down: hold the request without evaluating it.
HoldUnaudited(r) ==
    /\ pc[r] = "arrived"
    /\ user[r] \in KnownUsers
    /\ ~healthy
    /\ Decide(r, Decision(ESCALATE, <<>>))
    /\ Goto(r, "enforce")
    /\ UNCHANGED <<contentVars, snap, stage, verdicts, response, sharedVars, failed, errors, flips>>

PassGate(r) ==
    /\ pc[r] = "arrived"
    /\ user[r] \in KnownUsers
    /\ healthy
    /\ Goto(r, "evaluate")
    /\ UNCHANGED <<contentVars, snap, stage, verdicts, decision, response, sharedVars,
                   failed, errors, flips>>

\* One snapshot for all stages; the verdicts start with a baseline ALLOW.
ReadSnapshot(r) ==
    /\ pc[r] = "evaluate"
    /\ snap' = [snap EXCEPT ![r] = active]
    /\ verdicts' = [verdicts EXCEPT ![r] = <<Decision(ALLOW, <<>>)>>]
    /\ Goto(r, "stages")
    /\ UNCHANGED <<contentVars, stage, decision, response, sharedVars, failed, errors, flips>>

\* Faulty variant of RunStage: the loop also ends at an escalation.
RunStageBreaksEarly(r) ==
    /\ pc[r] = "stages"
    /\ stage[r] \in StageNumbers
    /\ LET new == StageVerdicts(Stages[stage[r]], outcome[r][stage[r]])
       IN  /\ verdicts' = [verdicts EXCEPT ![r] = @ \o new]
           /\ Goto(r, IF new # <<>> THEN "combine" ELSE "stages")
    /\ stage' = [stage EXCEPT ![r] = @ + 1]
    /\ UNCHANGED <<contentVars, snap, decision, response, sharedVars, failed, errors, flips>>

\* Only a STOP ends the loop before the last stage.
RunStage(r) ==
    /\ pc[r] = "stages"
    /\ stage[r] \in StageNumbers
    /\ LET new == StageVerdicts(Stages[stage[r]], outcome[r][stage[r]])
       IN  /\ verdicts' = [verdicts EXCEPT ![r] = @ \o new]
           /\ Goto(r, IF new # <<>> /\ new[1].disposition = STOP THEN "combine" ELSE "stages")
    /\ stage' = [stage EXCEPT ![r] = @ + 1]
    /\ UNCHANGED <<contentVars, snap, decision, response, sharedVars, failed, errors, flips>>

\* Faulty variant of Conclude: the version of the policy active by now.
ConcludeWithActive(r) ==
    /\ pc[r] = "combine" \/ (pc[r] = "stages" /\ stage[r] > Len(Stages))
    /\ Decide(r, [Combine(verdicts[r]) EXCEPT !.version = Versions[active]])
    /\ Goto(r, "enforce")
    /\ UNCHANGED <<contentVars, snap, stage, verdicts, response, sharedVars, failed, errors, flips>>

\* The decision is stamped with the version of the snapshot it came from.
Conclude(r) ==
    /\ pc[r] = "combine" \/ (pc[r] = "stages" /\ stage[r] > Len(Stages))
    /\ Decide(r, [Combine(verdicts[r]) EXCEPT !.version = Versions[snap[r]]])
    /\ Goto(r, "enforce")
    /\ UNCHANGED <<contentVars, snap, stage, verdicts, response, sharedVars, failed, errors, flips>>

-----------------------------------------------------------------------------
(* enforcement.apply                                                        *)

\* Faulty variants of Allow: the answer leaves unscanned; the decision that
\* is audited is the one before the egress scan.
AllowUnscanned(r) ==
    /\ pc[r] = "enforce"
    /\ decision[r].disposition = ALLOW
    /\ Tell(r, Response("ALLOW", NoPolicy, TRUE))
    /\ Goto(r, "record")
    /\ UNCHANGED <<contentVars, snap, stage, verdicts, decision, sharedVars, failed, errors, flips>>

AllowKeepsDecision(r) ==
    /\ pc[r] = "enforce"
    /\ decision[r].disposition = ALLOW
    /\ \/ /\ Passes(answer[r])
          /\ Tell(r, Response("ALLOW", NoPolicy, TRUE))
       \/ /\ ~Passes(answer[r])
          /\ Tell(r, Response("STOP", Cited(StaticPolicy,
                    DecisiveRule(EgressDecision(answer[r], decision[r].version))), FALSE))
    /\ Goto(r, "record")
    /\ UNCHANGED <<contentVars, snap, stage, verdicts, decision, sharedVars, failed, errors, flips>>

\* The assistant answers and the answer is scanned: it is given, or turned
\* into a refusal that cites what the scan found.
Allow(r) ==
    /\ pc[r] = "enforce"
    /\ decision[r].disposition = ALLOW
    /\ \/ /\ Passes(answer[r])
          /\ Tell(r, Response("ALLOW", NoPolicy, TRUE))
          /\ UNCHANGED decision
       \/ /\ ~Passes(answer[r])
          /\ Decide(r, EgressDecision(answer[r], decision[r].version))
          /\ Tell(r, Response("STOP", Cited(StaticPolicy, DecisiveRule(decision'[r])), FALSE))
    /\ Goto(r, "record")
    /\ UNCHANGED <<contentVars, snap, stage, verdicts, sharedVars, failed, errors, flips>>

Refuse(r) ==
    /\ pc[r] = "enforce"
    /\ decision[r].disposition = STOP
    /\ Tell(r, Response("STOP", Cited(StaticPolicy, DecisiveRule(decision[r])), FALSE))
    /\ Goto(r, "record")
    /\ UNCHANGED <<contentVars, snap, stage, verdicts, decision, sharedVars, failed, errors, flips>>

\* The request is queued for a human; a failing webhook changes nothing.
Escalate(r) ==
    /\ pc[r] = "enforce"
    /\ decision[r].disposition = ESCALATE
    /\ escalated' = escalated \cup {r}
    /\ Tell(r, Response("ESCALATE", NoPolicy, FALSE))
    /\ Goto(r, "record")
    /\ UNCHANGED <<contentVars, snap, stage, verdicts, decision, active, healthy, trail,
                   counted, failed, errors, flips>>

\* The cache in evaluate(), the assistant or a handler raises: the outer
\* guard answers that the request is under review.
OuterGuard(r) ==
    /\ pc[r] \in {"evaluate", "enforce"}
    /\ errors < MaxErrors
    /\ errors' = errors + 1
    /\ Decide(r, Decision(ESCALATE, <<>>))
    /\ Tell(r, Response("ESCALATE", NoPolicy, FALSE))
    /\ failed' = failed \cup {r}
    /\ Goto(r, "record")
    /\ UNCHANGED <<contentVars, snap, stage, verdicts, sharedVars, flips>>

-----------------------------------------------------------------------------
(* The record and the counters, outside the guard.                          *)

\* disposition -> the name under which it is audited.
NameOf(disposition) ==
    CASE disposition = ALLOW -> "ALLOW" [] disposition = ESCALATE -> "ESCALATE"
      [] disposition = STOP -> "STOP"

\* POLICY_VERSION of app/audit/models.py: what an unstamped decision gets.
DefaultVersion == "v1.0"

\* from_decision, with policy_triggered looked up in the snapshot active now.
AuditRecord(r) ==
    [request |-> r,
     decision |-> NameOf(decision[r].disposition),
     rule |-> DecisiveRule(decision[r]),
     version |-> IF decision[r].version = Unstamped THEN DefaultVersion ELSE decision[r].version,
     policy |-> Cited(CatalogPolicy, DecisiveRule(decision[r])),
     catalog |-> active]

Record(r) ==
    /\ pc[r] = "record"
    /\ trail' = Append(trail, AuditRecord(r))
    /\ Goto(r, "count")
    /\ UNCHANGED <<contentVars, snap, stage, verdicts, decision, response, active, healthy,
                   escalated, counted, failed, errors, flips>>

\* Nothing catches an exception of the sink: the request ends with an error.
RecordRaises(r) ==
    /\ pc[r] = "record"
    /\ SinkMayRaise
    /\ errors < MaxErrors
    /\ errors' = errors + 1
    /\ Goto(r, "crashed")
    /\ UNCHANGED <<contentVars, snap, stage, verdicts, decision, response, sharedVars,
                   failed, flips>>

\* The key under which the request is counted.
CountKey(r) ==
    [rule |-> DecisiveRule(decision[r]), known |-> user[r] \in KnownUsers,
     decision |-> response[r].decision]

Count(r) ==
    /\ pc[r] = "count"
    /\ counted' = Append(counted, CountKey(r))
    /\ Goto(r, "done")
    /\ UNCHANGED <<contentVars, snap, stage, verdicts, decision, response, active, healthy,
                   escalated, trail, failed, errors, flips>>

-----------------------------------------------------------------------------
(* The surroundings.                                                        *)

Reload ==
    /\ active < Len(Versions)
    /\ active' = active + 1
    /\ UNCHANGED <<contentVars, requestVars, healthy, escalated, trail, counted, failed,
                   errors, flips>>

\* A batch of the audit logger fails, or one succeeds again.
HealthFlips ==
    /\ flips < MaxFlips
    /\ flips' = flips + 1
    /\ healthy' = ~healthy
    /\ UNCHANGED <<contentVars, requestVars, active, escalated, trail, counted, failed, errors>>

Finished ==
    /\ \A r \in Requests : pc[r] \in {"done", "crashed"}
    /\ UNCHANGED vars

HandleRequest(r) ==
    \/ RefuseStranger(r) \/ HoldUnaudited(r) \/ PassGate(r)
    \/ ReadSnapshot(r) \/ RunStage(r) \/ Conclude(r)
    \/ Allow(r) \/ Refuse(r) \/ Escalate(r) \/ OuterGuard(r)
    \/ Record(r) \/ RecordRaises(r) \/ Count(r)

Next == (\E r \in Requests : HandleRequest(r)) \/ Reload \/ HealthFlips \/ Finished

Spec == Init /\ [][Next]_vars

-----------------------------------------------------------------------------
(* Properties                                                               *)

Labels == {"arrived", "evaluate", "stages", "combine", "enforce", "record", "count",
           "done", "crashed"}
Names == {"ALLOW", "ESCALATE", "STOP"}
Rules == DOMAIN CatalogPolicy \cup {NoRule}
Policies == Range(CatalogPolicy) \cup Range(StaticPolicy) \cup {NoPolicy}
Signals == [detector : Range(Stages) \cup {"pipeline", "output"}, rule : Rules,
            disposition : Dispositions]
DecisionType == [disposition : Dispositions, signals : Seq(Signals),
                 version : Range(Versions) \cup {Unstamped}]
ResponseType == [decision : Names \cup {"none"}, policy : Policies, answered : BOOLEAN]
RecordType == [request : Requests, decision : Names, rule : Rules,
               version : Range(Versions) \cup {DefaultVersion}, policy : Policies,
               catalog : Snapshots]
CountType == [rule : Rules, known : BOOLEAN, decision : Names]

\* The type invariant.
TypeOK ==
    /\ pc \in [Requests -> Labels]
    /\ snap \in [Requests -> Snapshots \cup {NoSnapshot}]
    /\ stage \in [Requests -> 1..(Len(Stages) + 1)]
    /\ verdicts \in [Requests -> Seq(DecisionType)]
    /\ decision \in [Requests -> DecisionType]
    /\ response \in [Requests -> ResponseType]
    /\ active \in Snapshots /\ healthy \in BOOLEAN
    /\ escalated \subseteq Requests /\ failed \subseteq Requests
    /\ trail \in Seq(RecordType) /\ counted \in Seq(CountType)
    /\ errors \in 0..MaxErrors /\ flips \in 0..MaxFlips

\* What a stage has against a request: an error that escapes it counts as an
\* escalation.
Objection(o) ==
    CASE o.result = "finds" -> o.disposition
      [] o.result = "raises" -> ESCALATE
      [] OTHER -> ALLOW

\* An answer reaches the user only if the user is known, no stage objects to
\* the prompt, none of them failed, and the scan of the answer found nothing
\* and did not fail: whatever else happens meanwhile.
AnswerIsScreened ==
    \A r \in Requests :
        response[r].answered =>
            /\ user[r] \in KnownUsers
            /\ \A i \in StageNumbers : Objection(outcome[r][i]) = ALLOW
            /\ Passes(answer[r])

\* Ending the loop at the first STOP loses nothing: the decision has the
\* strictest disposition that any of the stages, those not run included, has
\* for the prompt, and cites the first stage that has it.
StrictestWins ==
    \A r \in Requests :
        (pc[r] = "enforce" /\ snap[r] # NoSnapshot) =>
            LET objections == [i \in StageNumbers |-> Objection(outcome[r][i])]
                strictest == CHOOSE d \in Dispositions :
                                /\ d \in Range(objections) \cup {ALLOW}
                                /\ \A i \in StageNumbers : objections[i] <= d
            IN  /\ decision[r].disposition = strictest
                /\ strictest # ALLOW =>
                    \E i \in StageNumbers :
                        /\ objections[i] = strictest
                        /\ \A j \in 1..(i - 1) : objections[j] < strictest
                        /\ DecisiveRule(decision[r]) = outcome[r][i].rule

RecordsOf(r) == {i \in 1..Len(trail) : trail[i].request = r}

\* Each request has one audit record, made before it returns, and the record
\* tells the decision that the user was told: after an egress block and after
\* an internal error as well.
TrailTellsTheResponse ==
    \A r \in Requests :
        /\ pc[r] \in {"count", "done"} => Cardinality(RecordsOf(r)) = 1
        /\ pc[r] \notin {"count", "done"} => RecordsOf(r) = {}
        /\ \A i \in RecordsOf(r) : trail[i].decision = response[r].decision

\* The counters and the trail tell the same: as many requests are counted
\* under a rule and a decision as finished requests are recorded under them.
CountersMatchTrail ==
    \A rule \in Rules, name \in Names :
        Cardinality({i \in 1..Len(counted) :
                        counted[i].rule = rule /\ counted[i].decision = name})
        = Cardinality({i \in 1..Len(trail) :
                        /\ trail[i].rule = rule /\ trail[i].decision = name
                        /\ pc[trail[i].request] = "done"})

\* The user, the trail and the counters are told the same.
AccountsAgree == TrailTellsTheResponse /\ CountersMatchTrail

\* The record of an evaluated request cites the version of the snapshot that
\* its stages saw, although others may have become active since, and although
\* the egress scan replaced the decision.  A request that was not evaluated,
\* or failed, gets the default.
CitesEvaluatedVersion ==
    \A i \in 1..Len(trail) :
        LET r == trail[i].request
        IN  trail[i].version =
                IF snap[r] = NoSnapshot \/ r \in failed THEN DefaultVersion ELSE Versions[snap[r]]

\* The rules a request can be refused for: those of the stages that stop it or,
\* if none holds or stops it, what the scan finds in the answer.
StoppingRules(r) ==
    LET stopping == {i \in StageNumbers : Objection(outcome[r][i]) = STOP}
    IN  IF stopping # {} THEN {outcome[r][i].rule : i \in stopping}
                         ELSE Range(Findings(answer[r]))

\* There are two tables from rules to policies, one for the user and one for
\* the trail, and two readings of the decisive rule.  A refusal cites to both
\* one and the same rule, and one that did stop the request: not one of a
\* stage that only held it, or that failed before.
CitesTheRuleThatStopped ==
    \A i \in 1..Len(trail) :
        LET r == trail[i].request
        IN  (trail[i].decision = "STOP" /\ user[r] \in KnownUsers) =>
                /\ trail[i].rule \in StoppingRules(r)
                /\ response[r].policy = Cited(StaticPolicy, trail[i].rule)
                /\ trail[i].policy = Cited(CatalogPolicy, trail[i].rule)

\* A record cites the version and the rule on which its decision rests.
CitesWhatDecided == CitesEvaluatedVersion /\ CitesTheRuleThatStopped

\* Claim of the comment in _evaluate: the audit log cites the exact policy
\* version used, of every request that was evaluated.
CitesExactVersion ==
    \A i \in 1..Len(trail) :
        LET r == trail[i].request
        IN  snap[r] # NoSnapshot => trail[i].version = Versions[snap[r]]

\* Claim of the comments in ingress and in audit_hook: the rule's policy is
\* resolved by the same lookup as the PDP's, so that a record cites the rule,
\* the policy and the version of one snapshot.
OnePolicyPerRecord ==
    \A i \in 1..Len(trail) :
        (trail[i].rule # NoRule /\ trail[i].request \notin failed) =>
            Versions[trail[i].catalog] = trail[i].version

\* Claim of the comment on _RULE_TO_POLICY: the policy cited to the user is
\* the one that the audit log resolves.
CitationsAgree ==
    \A i \in 1..Len(trail) :
        (trail[i].decision = "STOP" /\ trail[i].rule # NoRule) =>
            response[trail[i].request].policy = trail[i].policy

\* Claim of the docstring of handle_request: what escapes becomes a
\* human-review ESCALATE.  The user is told so; a human has to know as well.
HeldIsQueued ==
    \A r \in Requests : response[r].decision = "ESCALATE" => r \in escalated

\* Claim of the comment in _evaluate: a request whose detector crashed is
\* held for review, not answered unscreened.
CrashedDetectorHolds ==
    \A r \in Requests :
        response[r].answered => \A i \in StageNumbers : outcome[r][i].result # "swallows"

\* Claim of the header of ingress: an error in the context, the enforcement or
\* the audit becomes a safe response, not a 500.
NeverFails == \A r \in Requests : pc[r] # "crashed"
=============================================================================
