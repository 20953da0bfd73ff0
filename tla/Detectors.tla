------------------------------ MODULE Detectors ------------------------------
(***************************************************************************)
(* The detectors of stages 4, 6 and 7: secrets, pii and intent of          *)
(* app/pdp/detectors.  They keep no state: a prompt goes in, at most one   *)
(* signal comes out.                                                       *)
(*                                                                         *)
(* A prompt is the sequence of its fragments, and a fragment is named for  *)
(* the pattern that matches it.  A prompt is cut at white space, where no  *)
(* match goes on.  Then a fragment does not change what another one        *)
(* matches, with one exception: _SMR_HIT looks at what comes behind an     *)
(* abbreviation, here "SMR" with "IS" behind it.  (The lookahead of the    *)
(* .env pattern stays within its fragment.)  Real patterns overlap in some *)
(* words, so that not every sequence of fragments can be written down;     *)
(* what holds of all sequences holds of those that can.                    *)
(***************************************************************************)
EXTENDS Verdicts, FiniteSets

CONSTANTS
    Fragments,      \* what a prompt can be made of
    MaxFragments    \* bound: the length of a prompt

VARIABLES
    text,       \* the prompt, a sequence of fragments
    outcome     \* what each detector made of it

vars == <<text, outcome>>

Names == {"secrets_scanner", "pii_detector", "intent_compliance_scanner"}

-----------------------------------------------------------------------------
(* The intent scanner: every part of a rule has to match, and nothing that  *)
(* guards it may.                                                           *)

Rule(name, disposition, parts, guards) ==
    [name |-> name, disposition |-> disposition, parts |-> parts, guards |-> guards]

CheckSmr == Rule("R-02", STOP, {"SMR_HIT"}, {"SMR_OK"})
CheckBypass == Rule("R-03", STOP, {"BYPASS_A", "BYPASS_B"}, {"BYPASS_OK"})
CheckAttack == Rule("R-04", STOP, {"ATTACK_A", "ATTACK_B"}, {"ATTACK_OK"})
CheckManipulation == Rule("R-09", STOP, {"MANIP_A", "MANIP_B", "MANIP_C"}, {"MANIP_OK"})
CheckBulk == Rule("R-05", ESCALATE, {"BULK_HIT"}, {"BULK_OK"})
\* Two organisations that differ, and operational data.  Nothing guards it.
CheckCrossOrg == Rule("R-08", ESCALATE, {"ORG_1", "ORG_2", "ORG_DATA"}, {})

StopRules == <<CheckSmr, CheckBypass, CheckAttack, CheckManipulation>>
EscalateRules == <<CheckBulk, CheckCrossOrg>>

\* "SMR" or "TTR" is a match by itself, unless the text goes on with "is",
\* "means", or any word that begins like one of them.
IsBare(prompt, i) ==
    /\ prompt[i] = "SMR"
    /\ i < Len(prompt) => prompt[i + 1] # "IS"

Matched(prompt) ==
    LET bare == {i \in DOMAIN prompt : IsBare(prompt, i)}
    IN  IF bare = {} THEN ToSet(prompt) ELSE ToSet(prompt) \cup {"SMR_HIT"}

Applies(rule, prompt) ==
    /\ rule.parts \subseteq Matched(prompt)
    /\ rule.guards \cap ToSet(prompt) = {}

Least(indices) == CHOOSE i \in indices : \A j \in indices : i <= j

FirstOf(rules, prompt) ==
    LET applying == {i \in DOMAIN rules : Applies(rules[i], prompt)}
        rule == rules[Least(applying)]
    IN  IF applying = {} THEN Nothing ELSE Finds(rule.name, rule.disposition)

\* Faulty variant of ScanIntent: the rules that hold a prompt go first.
ScanIntentLenientFirst(prompt) == FirstOf(EscalateRules \o StopRules, prompt)

ScanIntent(prompt) == FirstOf(StopRules \o EscalateRules, prompt)

-----------------------------------------------------------------------------
(* The secrets detector.  The structured patterns are of three kinds: with  *)
(* a password in an URI (or an AWS secret in an assignment: the same        *)
(* checks), with a value in an .env assignment, and without a part that     *)
(* could be a placeholder.  A sample is a match with a placeholder.         *)

Live == [uri |-> "LIVE_URI", key |-> "LIVE_KEY", env |-> "LIVE_ENV"]
Sample == [uri |-> "SAMPLE_URI", key |-> "no such fragment", env |-> "SAMPLE_ENV"]
Structured == {"uri", "key", "env"}

IsTemplate(prompt) == "TEMPLATE" \in ToSet(prompt)

\* search() yields the first match of a pattern, whatever comes later.
IsReported(pattern, prompt) ==
    LET found == {i \in DOMAIN prompt : prompt[i] \in {Live[pattern], Sample[pattern]}}
    IN  /\ found # {}
        /\ pattern = "env" => ~IsTemplate(prompt)
        /\ prompt[Least(found)] = Live[pattern]

\* Faulty variant of FindSecret: the last match of a pattern counts.
FindSecretLooksAtTheLast(prompt) ==
    \/ "KNOWN_BAD" \in ToSet(prompt)
    \/ \E pattern \in Structured : IsReported(pattern, Reverse(prompt))
    \/ "RANDOM" \in ToSet(prompt)

\* Bloom filter, then the patterns, then entropy: which of them reports only
\* decides the label.
FindSecret(prompt) ==
    \/ "KNOWN_BAD" \in ToSet(prompt)
    \/ \E pattern \in Structured : IsReported(pattern, prompt)
    \/ "RANDOM" \in ToSet(prompt)

ScanSecrets(prompt) == IF FindSecret(prompt) THEN Finds("R-07", STOP) ELSE Nothing

-----------------------------------------------------------------------------
(* The PII detector: a format that matches is confirmed by a second pass.   *)
(* Its score goes into the confidence only, but scan() swallows its errors. *)

ScanPii(prompt, fails) ==
    CASE "PII" \notin ToSet(prompt) -> Nothing
      [] fails -> Swallows
      [] OTHER -> Finds("R-01", STOP)

-----------------------------------------------------------------------------
Scan(prompt, fails) ==
    [name \in Names |->
        CASE name = "secrets_scanner" -> ScanSecrets(prompt)
          [] name = "pii_detector" -> ScanPii(prompt, fails)
          [] name = "intent_compliance_scanner" -> ScanIntent(prompt)]

Init == text = <<>> /\ outcome = Scan(<<>>, FALSE)

\* The prompt with one more fragment, which is a prompt as well.
ScanLonger ==
    /\ Len(text) < MaxFragments
    /\ \E f \in Fragments \ ToSet(text) : text' = Append(text, f)
    /\ \E fails \in BOOLEAN : outcome' = Scan(text', fails)

\* The longest prompts have been scanned.
Finished ==
    /\ Len(text) = MaxFragments \/ Fragments = ToSet(text)
    /\ UNCHANGED vars

Next == ScanLonger \/ Finished

Spec == Init /\ [][Next]_vars

-----------------------------------------------------------------------------
(* Properties                                                               *)

\* The type invariant: each detector cites its own rules, with their verdicts.
TypeOK ==
    /\ text \in Seq(Fragments)
    /\ outcome["secrets_scanner"] \in {Nothing, Finds("R-07", STOP)}
    /\ outcome["pii_detector"] \in {Nothing, Swallows, Finds("R-01", STOP)}
    /\ outcome["intent_compliance_scanner"] \in
          {Nothing, Finds("R-05", ESCALATE), Finds("R-08", ESCALATE)}
          \cup {Finds(rule, STOP) : rule \in {"R-02", "R-03", "R-04", "R-09"}}

Applying == {rule \in ToSet(StopRules \o EscalateRules) : Applies(rule, text)}

\* First match wins in the scanner, and still no stricter rule is lost: the
\* scanner is as strict as the strictest rule that applies to the prompt, and
\* a guard of one rule exempts from no other.
IntentIsStrictest ==
    LET found == outcome["intent_compliance_scanner"] IN
    /\ Applying = {} => found = Nothing
    /\ \A rule \in Applying :
          found.result = "finds" /\ found.disposition >= rule.disposition

\* Whether the i-th fragment is behind a sample of its own pattern.
BehindASample(i, pattern) == \E j \in 1..(i - 1) : text[j] = Sample[pattern]

\* A live credential stops the prompt, whatever placeholders of other kinds
\* stand beside it, unless a placeholder of its own kind comes first or, for
\* assignments, the prompt speaks of a template.
LiveSecretIsFound ==
    \A i \in 1..Len(text), pattern \in Structured :
        /\ text[i] = Live[pattern]
        /\ ~BehindASample(i, pattern)
        /\ pattern = "env" => ~IsTemplate(text)
        => outcome["secrets_scanner"].result = "finds"

\* The false-positive guards of the secrets detector: placeholders pass, in
\* whatever number and order, and so do assignments in a template.
SamplesPass ==
    ToSet(text) \cap {"KNOWN_BAD", "RANDOM", "LIVE_URI", "LIVE_KEY"} = {}
    /\ ("LIVE_ENV" \in ToSet(text) => IsTemplate(text))
        => outcome["secrets_scanner"] = Nothing

\* The detectors miss nothing that they do not exempt, and flag no more.
DetectorsAreExact == IntentIsStrictest /\ LiveSecretIsFound /\ SamplesPass

\* What makes a detector pass a text that it objects to without it.
Exemptions == (UNION {rule.guards : rule \in ToSet(StopRules \o EscalateRules)}) \cup {"TEMPLATE"}

\* The prompt ends in an abbreviation, and goes on with "is".
ExplainsSmr == text # <<>> /\ Last(text) = "SMR" /\ Last(text') = "IS"

\* Text at the end of a prompt makes a detector more lenient in two cases only:
\* if it is an exemption, or if it takes back the match of an abbreviation at
\* the very end.  Neither a further rule, nor a placeholder, nor PII, nor "is"
\* anywhere else hides what was found before.  A failing second pass may.
LongerIsNoMoreLenient ==
    [][ Len(text') > Len(text) =>
          \/ Last(text') \in Exemptions
          \/ ExplainsSmr
          \/ \A name \in Names :
                \/ outcome'[name] = Swallows
                \/ outcome'[name].disposition >= outcome[name].disposition ]_vars

\* Claim of the docstring of find_secret, that the first secret found is
\* returned: a prompt with a live credential, and without a word of templates,
\* is stopped.
AnySecretIsFound ==
    /\ ToSet(text) \cap {Live[pattern] : pattern \in Structured} # {}
    /\ ~IsTemplate(text)
    => outcome["secrets_scanner"].result = "finds"
=============================================================================
