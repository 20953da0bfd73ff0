----------------------------- MODULE AuditRecord -----------------------------
(***************************************************************************)
(* One line of the audit trail: AuditRecord of app/audit/models.py, and    *)
(* the two sinks of app/pep/audit_hook.py that build one, the logger's     *)
(* from AuditRecord.from_decision and the console's field by field.        *)
(*                                                                         *)
(* A request is what reaches record(): a decision, the context of the      *)
(* caller or None, and the snapshot's catalog or None.  The disposition of *)
(* a decision is an enum of the pipeline, or one of the other forms that   *)
(* from_decision takes from a caller.  Texts are their words, numbers are  *)
(* counted in halves.  request_id, ts, reason and latency are copied and   *)
(* left out.                                                               *)
(***************************************************************************)
EXTENDS Integers, Sequences, FiniteSets

CONSTANTS
    None,
    Detectors, RuleIds,    \* what a signal names
    Catalogs,              \* the catalogs of a snapshot: rule -> policy_id
    DefaultVersion,        \* POLICY_VERSION
    Version,               \* the version that the pipeline stamps
    ManySignals            \* bound: signals of a decision

VARIABLES
    request,   \* what record() is called with
    record,    \* the record of the logger's sink
    row,       \* its row
    printed    \* the line of the console's sink

recordVars == <<request, record, row, printed>>

Decisions == {"ALLOW", "STOP", "REDACT", "ESCALATE", "ALLOW_CONSTRAIN"}
ActorTypes == {"A-01", "A-02", "A-03", "A-04"}
Dispositions == {"ALLOW", "ESCALATE", "STOP"}
Value(d) == CASE d = "ALLOW" -> 0 [] d = "ESCALATE" -> 1 [] d = "STOP" -> 2

\* RequestContext, of the roles that the identity provider knows.
ActorOfRole == [Engineer |-> "A-01", Support |-> "A-02", SecurityReviewer |-> "A-03",
                ComplianceOfficer |-> "A-04"]
Contexts == [user_id : {"u-001"}, role : DOMAIN ActorOfRole,
             owned_services : {<<>>, <<"kyc-engine", "dvs-service">>}]

Signals == [detector : Detectors, rule_id : RuleIds \cup {None}, disposition : Dispositions]

Enum(d) == [form |-> "enum", value |-> d]
Text(words) == [form |-> "text", value |-> words]
Number(halves) == [form |-> "number", value |-> halves]

\* What the pipeline and the PEP build: an enum, at least as strict as every
\* signal.
PipelineDecisions ==
    {d \in [disposition : {Enum(d) : d \in Dispositions},
            signals : UNION {[1..n -> Signals] : n \in 0..ManySignals},
            policy_version : {"", Version}] :
        \A i \in DOMAIN d.signals :
            Value(d.signals[i].disposition) <= Value(d.disposition.value)}

\* Other shapes that the docstrings and the tests of from_decision name.
OtherDispositions ==
    {[form |-> "none", value |-> None]}
    \cup {Number(halves) : halves \in {0, 2, 3, 4}}
    \cup {Text(words) : words \in {<<"ALLOW">>, <<"STOP">>, <<"REDACT">>, <<"ESCALATE">>,
                                  <<"ALLOW", "CONSTRAIN">>, <<"ALLOW", "CONSTRAINT">>,
                                  <<"ALLOWCONSTRAIN">>, <<"BLOCK">>}}
OtherDecisions ==
    [disposition : OtherDispositions, signals : {<<>>}, policy_version : {""}]

PipelineRequests ==
    [decision : PipelineDecisions, ctx : Contexts \cup {None}, catalog : Catalogs \cup {None}]
OtherRequests == [decision : OtherDecisions, ctx : Contexts, catalog : {None}]

\* None is Python's None: none of the texts that a field is compared with, no
\* list of labels and no request.  A catalog is keyed by the ids of rules, which
\* are not empty.
NoneIsNothing ==
    /\ None \notin Decisions \cup {"digest", "kyc-engine"}
    /\ None \notin Seq(Detectors)
    /\ None \notin PipelineRequests \cup OtherRequests
    /\ \A c \in Catalogs : None \notin DOMAIN c /\ "" \notin DOMAIN c

-----------------------------------------------------------------------------
(* from_decision and its helpers.                                           *)

\* _canonical_decision: case, and what joins the words, do not matter.
CanonicalDecision(words) ==
    IF words \in {<<"ALLOW", "CONSTRAIN">>, <<"ALLOW", "CONSTRAINT">>, <<"ALLOWCONSTRAIN">>}
    THEN "ALLOW_CONSTRAIN"
    ELSE IF Len(words) = 1 /\ words[1] \in Decisions THEN words[1] ELSE "ESCALATE"

\* Faulty variant of DispositionToStr: int() before the test for 1.5.
DispositionTruncated(disp) ==
    CASE disp.form = "none" -> "ESCALATE"
      [] disp.form = "enum" -> CanonicalDecision(<<disp.value>>)
      [] disp.form = "text" -> CanonicalDecision(disp.value)
      [] disp.form = "number" ->
            CASE disp.value \div 2 = 0 -> "ALLOW"
              [] disp.value \div 2 = 2 -> "STOP"
              [] OTHER -> "ESCALATE"

\* _disposition_to_str.
DispositionToStr(disp) ==
    CASE disp.form = "none" -> "ESCALATE"
      [] disp.form = "enum" -> CanonicalDecision(<<disp.value>>)
      [] disp.form = "text" -> CanonicalDecision(disp.value)
      [] disp.form = "number" ->
            CASE disp.value = 3 -> "REDACT"
              [] disp.value \div 2 = 0 -> "ALLOW"
              [] disp.value \div 2 = 2 -> "STOP"
              [] OTHER -> "ESCALATE"

\* decisive_signal, which _decisive_signal takes: the first of the strictest.
DecisiveSignal(signals) ==
    LET isDecisive(i) ==
            \A j \in DOMAIN signals :
                /\ Value(signals[j].disposition) <= Value(signals[i].disposition)
                /\ j < i => Value(signals[j].disposition) < Value(signals[i].disposition)
    IN  IF signals = <<>> THEN None ELSE signals[CHOOSE i \in DOMAIN signals : isDecisive(i)]

\* str(x or "").
OrEmpty(x) == IF x = None THEN "" ELSE x

\* Faulty variant of LoggedRule: the rule of the first signal.
LoggedRuleFirst(decision) ==
    IF decision.signals = <<>> THEN "" ELSE OrEmpty(decision.signals[1].rule_id)

\* The decision has no rule_triggered of its own.
LoggedRule(decision) ==
    LET signal == DecisiveSignal(decision.signals)
    IN  IF signal = None THEN "" ELSE OrEmpty(signal.rule_id)

\* _normalise_signals: the label of a signal is its detector.
SignalLabels(signals) == [i \in DOMAIN signals |-> signals[i].detector]

\* _context_service: the first of owned_services.
ContextService(ctx) ==
    IF ctx = None \/ ctx.owned_services = <<>> THEN "" ELSE ctx.owned_services[1]

\* _resolve_policy_id.
ResolvePolicyId(catalog, rule) ==
    IF catalog = None \/ rule \notin DOMAIN catalog THEN None ELSE catalog[rule]

\* from_decision, and the policy that LoggerAuditSink.record puts in.
FromDecision(r) ==
    LET rule == LoggedRule(r.decision)
    IN  [user_id |-> IF r.ctx = None THEN "unknown" ELSE r.ctx.user_id,
         role |-> IF r.ctx = None THEN "unknown" ELSE r.ctx.role,
         service |-> ContextService(r.ctx),
         prompt_hash |-> "digest",
         policy_triggered |-> OrEmpty(ResolvePolicyId(r.catalog, rule)),
         decision |-> DispositionToStr(r.decision.disposition),
         actor_type |-> IF r.ctx = None THEN "" ELSE ActorOfRole[r.ctx.role],
         rule_triggered |-> rule,
         signals |-> SignalLabels(r.decision.signals),
         policy_version |-> IF r.decision.policy_version = "" THEN DefaultVersion
                                                              ELSE r.decision.policy_version]

\* __post_init__: what a record may hold.
IsValid(rec) ==
    /\ rec.decision \in Decisions
    /\ rec.actor_type \in ActorTypes \cup {""}
    /\ rec.prompt_hash = "digest"

-----------------------------------------------------------------------------
(* Rows.                                                                    *)

\* to_row: the values in the order of COLUMNS, signals as JSON.
ToRow(rec) ==
    <<rec.user_id, rec.role, rec.service, rec.prompt_hash, rec.policy_triggered, rec.decision,
      rec.actor_type, rec.rule_triggered, [json |-> rec.signals], rec.policy_version>>

\* from_row: by the place of the column.
FromRow(values) ==
    [user_id |-> values[1], role |-> values[2], service |-> values[3],
     prompt_hash |-> values[4], policy_triggered |-> values[5], decision |-> values[6],
     actor_type |-> values[7], rule_triggered |-> values[8], signals |-> values[9].json,
     policy_version |-> values[10]]

-----------------------------------------------------------------------------
(* ConsoleAuditSink.record.                                                 *)

\* The decision that the response names is that of the decision object.
ConsoleLine(r) ==
    LET signal == DecisiveSignal(r.decision.signals)
        rule == IF signal = None THEN None ELSE signal.rule_id
    IN  [user_id |-> IF r.ctx = None THEN None ELSE r.ctx.user_id,
         role |-> IF r.ctx = None THEN None ELSE r.ctx.role,
         service |-> IF r.ctx = None \/ r.ctx.owned_services = <<>> THEN None
                     ELSE r.ctx.owned_services[1],
         prompt_hash |-> "digest",
         policy_triggered |-> ResolvePolicyId(r.catalog, rule),
         decision |-> r.decision.disposition.value,
         actor_type |-> IF r.ctx = None THEN "A-01" ELSE ActorOfRole[r.ctx.role],
         rule_triggered |-> rule,
         signals |-> SignalLabels(r.decision.signals),
         policy_version |-> r.decision.policy_version]

-----------------------------------------------------------------------------
Init == request = None /\ record = None /\ row = None /\ printed = None

\* record() of both sinks, for a decision of the pipeline.
Record ==
    /\ request = None
    /\ request' \in PipelineRequests
    /\ record' = FromDecision(request')
    /\ printed' = ConsoleLine(request')
    /\ UNCHANGED row

\* from_decision, for a decision of another shape.
RecordOther ==
    /\ request = None
    /\ request' \in OtherRequests
    /\ record' = FromDecision(request')
    /\ UNCHANGED <<row, printed>>

\* The INSERT, for a record that __post_init__ lets through.
Store ==
    /\ record # None /\ row = None
    /\ IsValid(record)
    /\ row' = ToRow(record)
    /\ UNCHANGED <<request, record, printed>>

Finished == row # None /\ UNCHANGED recordVars

Next == Record \/ RecordOther \/ Store \/ Finished
Spec == Init /\ [][Next]_recordVars

-----------------------------------------------------------------------------
(* Properties                                                               *)

\* How strict a decision is, in halves, by the scale of _disposition_to_str.
Strictness(name) ==
    CASE name = "ALLOW" -> 0 [] name = "ALLOW_CONSTRAIN" -> 1 [] name = "ESCALATE" -> 2
      [] name = "REDACT" -> 3 [] name = "STOP" -> 4

\* The strictness a caller meant: what is no known decision is to be held.
Meant(disp) ==
    CASE disp.form = "number" -> disp.value
      [] disp.form = "enum" -> 2 * Value(disp.value)
      [] disp.form = "text" /\ Len(disp.value) = 1 /\ disp.value[1] \in Decisions
            -> Strictness(disp.value[1])
      [] disp.form = "text" /\ (Len(disp.value) = 2 \/ disp.value[1] = "ALLOWCONSTRAIN") -> 1
      [] OTHER -> 2

\* In each form of a disposition that the docstring and the tests name - an
\* enum, a text, nothing, a number 0, 1, 1.5 or 2 of the scale - what is read
\* back from the table is a valid record, and never of a decision more lenient
\* than the one taken (_disposition_to_str).  Any other fraction has no meaning
\* on the scale; int() truncates it, and nothing is said of that.
NeverMoreLenient ==
    row # None =>
        /\ IsValid(FromRow(row))
        /\ Strictness(FromRow(row).decision) >= Meant(request.decision.disposition)

\* The two sinks tell the same story of a request of the pipeline: what is read
\* back from the table has the decision, rule, policy, signals and digest of
\* the line on the console, and for a known caller all the rest but the version
\* of a decision that the pipeline did not stamp.  What is None on the console
\* is empty in the table.  The tuple of to_row, the columns of the INSERT and
\* the keys of from_row follow one order.
SinksAgree ==
    (printed # None /\ row # None) =>
        LET stored == FromRow(row)
        IN  /\ \A field \in {"prompt_hash", "policy_triggered", "decision", "rule_triggered",
                             "signals", "service"} : stored[field] = OrEmpty(printed[field])
            /\ request.ctx # None =>
                \A field \in {"user_id", "role", "actor_type"} : stored[field] = printed[field]
            /\ printed.policy_version \in {"", stored.policy_version}

\* Claim of the docstring of the audit hook, of ConsoleAuditSink: same fields.
SameFields ==
    printed # None => \A field \in DOMAIN record : record[field] = OrEmpty(printed[field])
=============================================================================
