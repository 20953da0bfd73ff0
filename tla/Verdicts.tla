------------------------------- MODULE Verdicts ------------------------------
(***************************************************************************)
(* Verdicts and what is done with them: Disposition, Signal and Decision   *)
(* (app/pdp/decision.py), combine (app/pdp/combiner.py), the adapters of   *)
(* app/pdp/factory.py, and the verdict of the output scanner               *)
(* (app/pdp/output_scanner.py).                                            *)
(*                                                                         *)
(* Reasons, confidences and metadata are left out: nothing branches on     *)
(* them.  What a detector finds in a prompt is an outcome, chosen from the *)
(* rules the detector can cite.                                            *)
(***************************************************************************)
EXTENDS Integers, Sequences, SequencesExt

ALLOW == 0
ESCALATE == 1
STOP == 2
Dispositions == {ALLOW, ESCALATE, STOP}

NoRule == "no_rule"          \* rule_id is None
Unstamped == "unstamped"     \* policy_version is the empty string

Signal(detector, rule, disposition) ==
    [detector |-> detector, rule |-> rule, disposition |-> disposition]

Decision(disposition, signals) ==
    [disposition |-> disposition, signals |-> signals, version |-> Unstamped]

\* The strictest of a nonempty sequence; the first one, if several are.
Strictest(seq) ==
    seq[CHOOSE i \in 1..Len(seq) :
          /\ \A j \in 1..Len(seq) : seq[j].disposition <= seq[i].disposition
          /\ \A j \in 1..(i - 1) : seq[j].disposition < seq[i].disposition]

\* The rule of Decision.decisive_signal, if there is one.
DecisiveRule(decision) ==
    IF decision.signals = <<>> THEN NoRule ELSE Strictest(decision.signals).rule

Combine(verdicts) ==
    IF verdicts = <<>>
      THEN Decision(ESCALATE, <<>>)
      ELSE Decision(Strictest(verdicts).disposition,
                    FlattenSeq([i \in 1..Len(verdicts) |-> verdicts[i].signals]))

-----------------------------------------------------------------------------
(* What a stage makes of a prompt.                                          *)

Outcome(result, rule, disposition) ==
    [result |-> result, rule |-> rule, disposition |-> disposition]

Nothing == Outcome("nothing", NoRule, ALLOW)
Swallows == Outcome("swallows", NoRule, ALLOW)   \* scan() catches its own error
Raises == Outcome("raises", NoRule, ALLOW)
Finds(rule, disposition) == Outcome("finds", rule, disposition)

\* The verdicts a stage adds: none for no objection, and for an error that
\* the detector swallows; one for a signal; a raise becomes an escalation.
StageVerdicts(stage, outcome) ==
    CASE outcome.result = "finds" ->
            <<Decision(outcome.disposition,
                       <<Signal(stage, outcome.rule, outcome.disposition)>>)>>
      [] outcome.result = "raises" ->
            <<Decision(ESCALATE, <<Signal("pipeline", NoRule, ESCALATE)>>)>>
      [] OTHER -> <<>>

-----------------------------------------------------------------------------
(* The way out.  An answer is the rules whose patterns match it, and        *)
(* whether one of the scanners fails on it.                                 *)

Answer(broken, matching) == [broken |-> broken, matching |-> matching]

\* The tables of the scanners O2, O3 and O4.
LeakRules == <<"R-01", "R-07">>
CodeRules == <<"R-03", "R-09", "R-04">>
AlignmentRules == <<"R-06">>

ScannedRules == LeakRules \o CodeRules \o AlignmentRules

\* One for each rule that matches, in the order of the tables.  Every finding
\* blocks; a scan that fails is a finding without a rule.
Findings(answer) ==
    IF answer.broken
      THEN <<NoRule>>
      ELSE FlattenSeq([i \in 1..Len(ScannedRules) |->
                          IF ScannedRules[i] \in answer.matching
                            THEN <<ScannedRules[i]>> ELSE <<>>])

Passes(answer) == Findings(answer) = <<>>

\* OutputVerdict.to_decision.
EgressDecision(answer, version) ==
    [Decision(STOP, [i \in 1..Len(Findings(answer)) |->
                        Signal("output", Findings(answer)[i], STOP)])
        EXCEPT !.version = version]
=============================================================================
