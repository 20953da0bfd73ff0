---------------------------- MODULE PromptChecks -----------------------------
(***************************************************************************)
(* The checks on a prompt and on its answer, each of which takes what it   *)
(* is given and calls none of the others: evaluate and the scopes          *)
(* (Authorization, ScopeTrie), the detectors that load what they share on  *)
(* first use (InjectionScan, PiiScan) and those without state (Detectors), *)
(* and the scan of an answer with its redaction (OutputScan).              *)
(***************************************************************************)
EXTENDS Integers, Sequences

CONSTANTS
    Contexts, Actions, Orgs, KnownOrgs, Services,   \* what evaluate is asked
    NotNamed,       \* an empty argument of evaluate
    Threads,        \* threads that run detectors
    Prompts,        \* the prompts of InjectionScan
    MaxScans,       \* bound: scans by each of the detectors
    Paths, Tenants, Scoped,     \* scopes, and the tenants and services that
                                \* are checked against them
    Empty,          \* an empty part of a scope
    Fragments,      \* what the prompts of Detectors are made of
    MaxFragments,   \* bound: their length
    MaxAtoms        \* bound: the length of an answer

ASSUME PromptsAssumption ==
    Prompts # {} /\ Prompts \subseteq [text : BOOLEAN, blocks : Seq(BOOLEAN)]

ASSUME MaxScansAssumption == MaxScans \in Nat

ASSUME PathsAssumption == Paths \subseteq Seq(STRING)

VARIABLES
    caller, context, query, said, verdict,
    library, automaton, useAho, pc, prompt, part, result, scans, exposed,
    installed, analyzer, at, matches, signal, raised, calls,
    nodes, ends, inserted,
    text, outcome,
    answer, cleaned

authzVars == <<caller, context, query, said, verdict>>
phraseVars == <<library, automaton, useAho, pc, prompt, part, result, scans, exposed>>
piiVars == <<installed, analyzer, at, matches, signal, raised, calls>>
trieVars == <<nodes, ends, inserted>>
patternVars == <<text, outcome>>
answerVars == <<answer, cleaned>>

Authz == INSTANCE Authorization WITH None <- NotNamed, result <- verdict
Phrases == INSTANCE InjectionScan
Pii == INSTANCE PiiScan WITH pc <- at, result <- signal, scans <- calls
Trie == INSTANCE ScopeTrie WITH Services <- Scoped
Patterns == INSTANCE Detectors
Answers == INSTANCE OutputScan

-----------------------------------------------------------------------------
\* The types of the state of the trie and of the detectors (ScopeTrie,
\* _automaton and _use_aho, the signals of secrets, pii and intent).
TypeOK == Trie!TypeOK /\ Phrases!TypeOK /\ Patterns!TypeOK

\* The first check of evaluate that objects is one of the strictest (evaluate
\* of cedar_engine.py).
FirstObjectionIsStrictest == Authz!FirstObjectionIsStrictest

\* The stage lets every seeded user through to the detectors (_authz_stage and
\* the tables it reads).
KnownUsersPassTheStage == Authz!KnownUsersPassTheStage

\* What two detectors load on first use (_automaton and _use_aho, _analyzer)
\* costs a finding in two cases only: in a scan for phrases that began while
\* another thread was in the first build of a process without the library, and
\* in a second pass for PII that raises.
LazyLoadsLoseNoMore == Phrases!LostOnlyInTheFirstBuild /\ Pii!LostOnlyIfTheEngineRaises

\* The trie matches exactly what was inserted in whatever order, and a grant
\* outlives any insert but the first, which switches check from the scopes of
\* the user to the trie and may take one back (insert, prefix_match and check
\* of ScopeTrie).
ScopeIsExact == Trie!ScopeIsExact

\* Each detector reports a prompt exactly when it should, and the strictest
\* rule (scan_secrets, detect_pii and scan_intent).
DetectorsAreExact == Patterns!DetectorsAreExact

\* Nothing that is added to a prompt makes a detector more lenient, unless it
\* is what the detector exempts, or completes "SMR is ..." (the lookahead of
\* _SMR_HIT).
LongerIsNoMoreLenient == Patterns!LongerIsNoMoreLenient

\* Redaction strips the spans of an answer wherever they stand, and nothing
\* else, as long as they are apart (redact of output_scanner.py).
StripsSpansApart == Answers!StripsSpansApart
=============================================================================
