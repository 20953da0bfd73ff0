------------------------------- MODULE MCStages ------------------------------
(***************************************************************************)
(* TLC instances of the checks on a prompt and on its answer, each of      *)
(* which takes what it is given and calls none of the others.  A behaviour *)
(* follows one of the six.  Whether a request gets to them is module       *)
(* RequestPath.                                                            *)
(***************************************************************************)
EXTENDS PromptChecks, TLC

Symmetry == Permutations(Threads)

-----------------------------------------------------------------------------
\* Every known role and one that is not, in two tenants.
SomeContexts ==
    [role : {"Engineer", "Support", "SecurityReviewer", "ComplianceOfficer", "Intern"},
     tenant : {"org-acme", "org-beta"}, owned : {{}, {"kyc-engine"}, {"*"}}]

\* Paths of up to three parts, shared prefixes, a path inside another, slashes
\* at either end and in the middle.
SomePaths == {
    <<"acme">>, <<"acme", "kyc">>, <<"acme", "kyc", "read">>, <<"acme", "pay">>,
    <<"beta", "kyc">>, <<"beta", "kyc", "read">>,
    <<"", "acme", "pay", "">>, <<"acme", "", "kyc">>, <<"">>, <<"", "">> }

\* Every prompt with at most two decoded blocks.
SmallPrompts == [text : BOOLEAN, blocks : UNION {[1..n -> BOOLEAN] : n \in 0..2}]

SomeFragments == {
    "SMR_HIT", "SMR", "IS", "SMR_OK", "BYPASS_A", "BYPASS_B", "BYPASS_OK",
    "ATTACK_A", "ATTACK_B", "ATTACK_OK", "MANIP_A", "MANIP_B", "MANIP_C", "MANIP_OK",
    "BULK_HIT", "BULK_OK", "ORG_1", "ORG_2", "ORG_DATA", "KNOWN_BAD", "LIVE_URI", "SAMPLE_URI",
    "LIVE_KEY", "LIVE_ENV", "SAMPLE_ENV", "TEMPLATE", "RANDOM", "PII" }

-----------------------------------------------------------------------------
\* What a part needs is missing only for that part.
StagesInit ==
    /\ Authz!Init /\ Trie!Init /\ Phrases!Init /\ Pii!Init /\ Patterns!Init /\ Answers!Init
    /\ library \/ installed

\* The parts that have not begun, and lack nothing.
Idle ==
    [authz |-> caller = "nobody", trie |-> inserted = {}, phrases |-> scans = 0 /\ library,
     pii |-> calls = 0 /\ installed, patterns |-> text = <<>>, answers |-> answer = <<>>]
Alone(name) == \A other \in DOMAIN Idle : other = name \/ Idle[other]

Authorize ==
    /\ Alone("authz") /\ Authz!Next
    /\ UNCHANGED <<trieVars, phraseVars, piiVars, patternVars, answerVars>>
FillTrie ==
    /\ Alone("trie") /\ Trie!Next
    /\ UNCHANGED <<authzVars, phraseVars, piiVars, patternVars, answerVars>>
ScanPhrases ==
    /\ Alone("phrases") /\ Phrases!Next
    /\ UNCHANGED <<authzVars, trieVars, piiVars, patternVars, answerVars>>
ScanPii ==
    /\ Alone("pii") /\ Pii!Next
    /\ UNCHANGED <<authzVars, trieVars, phraseVars, patternVars, answerVars>>
ScanPatterns ==
    /\ Alone("patterns") /\ Patterns!Next
    /\ UNCHANGED <<authzVars, trieVars, phraseVars, piiVars, answerVars>>
ScanAnswer ==
    /\ Alone("answers") /\ Answers!Next
    /\ UNCHANGED <<authzVars, trieVars, phraseVars, piiVars, patternVars>>

StagesNext ==
    Authorize \/ FillTrie \/ ScanPhrases \/ ScanPii \/ ScanPatterns \/ ScanAnswer

StagesSpec ==
    StagesInit /\ [][StagesNext]_<<authzVars, trieVars, phraseVars, piiVars, patternVars, answerVars>>

-----------------------------------------------------------------------------
\* Claims of the source that do not hold.
FindsThePhrases == Phrases!FindsThePhrases
ForeignOrgIsFlagged == Authz!ForeignOrgIsFlagged
SecondPassOnlyBoosts == Pii!SecondPassOnlyBoosts
AnySecretIsFound == Patterns!AnySecretIsFound
StripsEverySpan == Answers!StripsEverySpan
=============================================================================
