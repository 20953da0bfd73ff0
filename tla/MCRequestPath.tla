---------------------------- MODULE MCRequestPath ----------------------------
(***************************************************************************)
(* TLC instances of RequestPath: the stages of default_stages() with the   *)
(* rules each detector can cite, and the two tables of policies.           *)
(***************************************************************************)
EXTENDS RequestPath, TLC

\* authz, the stages 4 to 7.
DefaultStages ==
    <<"authz", "secrets_scanner", "injection_scanner", "pii_detector",
      "intent_compliance_scanner">>

\* The users are known, with roles that may do what the stage asks for, so
\* that authz objects only if its lazy import fails.
DefaultOutcomes ==
    [s \in Range(DefaultStages) |->
        CASE s = "authz" -> {Nothing, Raises}
          [] s = "secrets_scanner" -> {Nothing, Swallows, Finds("R-07", STOP)}
          [] s = "injection_scanner" -> {Nothing, Swallows, Finds("R-06", STOP)}
          [] s = "pii_detector" -> {Nothing, Swallows, Finds("R-01", STOP)}
          [] s = "intent_compliance_scanner" ->
                {Nothing, Swallows, Finds("R-05", ESCALATE), Finds("R-08", ESCALATE)}
                \cup {Finds(rule, STOP) : rule \in {"R-02", "R-03", "R-04", "R-09"}}]

\* Three stages, for instances with two requests: each way a stage can go.
ShortStages == <<"authz", "secrets_scanner", "intent_compliance_scanner">>
ShortOutcomes ==
    [s \in Range(ShortStages) |->
        CASE s = "authz" -> {Nothing, Raises}
          [] s = "secrets_scanner" -> {Nothing, Finds("R-07", STOP)}
          [] s = "intent_compliance_scanner" ->
                {Nothing, Finds("R-05", ESCALATE), Finds("R-02", STOP)}]

\* A clean answer, one with a credential and weakened checks, one on which a
\* scanner fails.
SomeAnswers == {Answer(FALSE, {}), Answer(FALSE, {"R-03", "R-07"}), Answer(TRUE, {})}

\* policies/v1/catalog.yaml maps R-n to P-n.
Catalog ==
    "R-01" :> "P-01" @@ "R-02" :> "P-02" @@ "R-03" :> "P-03" @@ "R-04" :> "P-04" @@
    "R-05" :> "P-05" @@ "R-06" :> "P-06" @@ "R-07" :> "P-07" @@ "R-08" :> "P-08" @@
    "R-09" :> "P-09"

\* _RULE_TO_POLICY of the output scanner.
RuleToPolicy ==
    "R-01" :> "P-01" @@ "R-07" :> "P-01" @@ "R-03" :> "P-02" @@ "R-09" :> "P-02" @@
    "R-04" :> "P-03" @@ "R-06" :> "P-07"

Symmetry == Permutations(Requests)

TwoVersions == <<"v1.0", "v2.0">>
=============================================================================
