-------------------------- MODULE RequestPath_proofs --------------------------
(***************************************************************************)
(* Machine-checked theorems about Verdicts and RequestPath, for every set  *)
(* of requests and users, every number of stages, whatever the stages can  *)
(* find and the answers hold, every number of snapshots, errors and        *)
(* changes of the audit backend's health.                                  *)
(***************************************************************************)
EXTENDS RequestPath, SequenceLemmas, FiniteSetTheorems

-----------------------------------------------------------------------------
(* Verdicts                                                                 *)

\* i is the first place at which seq has its strictest disposition.
FirstStrictest(seq, i) ==
    /\ i \in 1..Len(seq)
    /\ \A j \in 1..Len(seq) : seq[j].disposition <= seq[i].disposition
    /\ \A j \in 1..(i - 1) : seq[j].disposition < seq[i].disposition

\* A nonempty sequence has its strictest disposition somewhere first, and
\* Strictest is the element there.
LEMMA StrictestIsFirst ==
    ASSUME NEW seq, NEW n \in Nat \ {0}, Len(seq) = n,
           \A i \in 1..n : seq[i].disposition \in Dispositions
    PROVE  \E i \in 1..n : FirstStrictest(seq, i) /\ Strictest(seq) = seq[i]
<1> DEFINE At(d) == {i \in 1..n : seq[i].disposition = d}
<1>1. PICK d \in Dispositions :
         At(d) # {} /\ \A i \in 1..n : seq[i].disposition <= d
  <2>1. \A i \in 1..n : seq[i].disposition \in {0, 1, 2}
    BY DEF Dispositions, ALLOW, ESCALATE, STOP
  <2>2. CASE \E i \in 1..n : seq[i].disposition = 2
    BY <2>1, <2>2 DEF Dispositions, STOP
  <2>3. CASE /\ \A i \in 1..n : seq[i].disposition # 2
             /\ \E i \in 1..n : seq[i].disposition = 1
    BY <2>1, <2>3 DEF Dispositions, ESCALATE
  <2>4. CASE \A i \in 1..n : seq[i].disposition \notin {1, 2}
    <3>1. 1 \in At(0) /\ \A i \in 1..n : seq[i].disposition <= 0
      BY <2>1, <2>4
    <3>2. QED
      BY <3>1 DEF Dispositions, ALLOW
  <2>5. QED
    BY <2>2, <2>3, <2>4
<1>2. PICK i \in At(d) : \A j \in At(d) : i <= j
  <2>1. At(d) \subseteq Nat
    OBVIOUS
  <2> HIDE DEF At
  <2>2. QED
    BY <1>1, <2>1, Minimum
<1>3. FirstStrictest(seq, i)
  <2>1. i \in 1..n /\ seq[i].disposition = d /\ d \in {0, 1, 2}
    BY <1>2 DEF Dispositions, ALLOW, ESCALATE, STOP
  <2>2. ASSUME NEW j \in 1..(i - 1) PROVE seq[j].disposition < seq[i].disposition
    <3>1. j \in 1..n /\ j < i
      BY <2>1
    <3>2. seq[j].disposition # d
      BY <1>2, <3>1
    <3>3. seq[j].disposition \in {0, 1, 2}
      BY <3>1 DEF Dispositions, ALLOW, ESCALATE, STOP
    <3>4. QED
      BY <1>1, <2>1, <3>1, <3>2, <3>3
  <2>3. QED
    BY <1>1, <2>1, <2>2 DEF FirstStrictest
<1>4. \E k : FirstStrictest(seq, k) /\ k \in 1..Len(seq)
  BY <1>3 DEF FirstStrictest
<1> DEFINE first == CHOOSE k \in 1..Len(seq) :
              /\ \A j \in 1..Len(seq) : seq[j].disposition <= seq[k].disposition
              /\ \A j \in 1..(k - 1) : seq[j].disposition < seq[k].disposition
<1>5. FirstStrictest(seq, first)
  BY <1>4 DEF FirstStrictest
<1>6. Strictest(seq) = seq[first]
  BY DEF Strictest
<1>7. QED
  BY <1>5, <1>6 DEF FirstStrictest

\* What Combine makes of the signals of the verdicts.
SignalsOf(verds) == FlattenSeq([i \in 1..Len(verds) |-> verds[i].signals])

LEMMA DecisionsType ==
    ASSUME NEW v \in Seq(DecisionType)
    PROVE  /\ Len(v) \in Nat
           /\ \A i \in 1..Len(v) : v[i].signals \in Seq(Signals)
           /\ \A i \in 1..Len(v) : v[i].disposition \in Dispositions
<1>1. Len(v) \in Nat /\ \A i \in 1..Len(v) : v[i] \in DecisionType
  BY LenProperties, ElementOfSeq
<1>2. \A d \in DecisionType : d.signals \in Seq(Signals) /\ d.disposition \in Dispositions
  BY DEF DecisionType
<1>3. QED
  BY <1>1, <1>2

LEMMA SignalsType ==
    ASSUME NEW v \in Seq(DecisionType)
    PROVE  /\ [i \in 1..Len(v) |-> v[i].signals] \in Seq(Seq(Signals))
           /\ SignalsOf(v) \in Seq(Signals)
<1>1. Len(v) \in Nat /\ \A i \in 1..Len(v) : v[i].signals \in Seq(Signals)
  BY DecisionsType
<1>2. [i \in 1..Len(v) |-> v[i].signals] \in [1..Len(v) -> Seq(Signals)]
  BY <1>1
<1>3. [i \in 1..Len(v) |-> v[i].signals] \in Seq(Seq(Signals))
  BY <1>1, <1>2, FunctionIsSeq
<1>4. QED
  BY <1>3, FlattenType DEF SignalsOf

\* A further verdict adds its signals at the end.
LEMMA SignalsAppend ==
    ASSUME NEW v \in Seq(DecisionType), NEW d \in DecisionType
    PROVE  SignalsOf(v \o <<d>>) = SignalsOf(v) \o d.signals
<1> DEFINE w == v \o <<d>>
           part == [i \in 1..Len(v) |-> v[i].signals]
           whole == [i \in 1..Len(w) |-> w[i].signals]
<1>1. /\ w = Append(v, d) /\ w \in Seq(DecisionType)
      /\ Len(v) \in Nat /\ Len(w) = Len(v) + 1 /\ w[Len(v) + 1] = d
      /\ \A i \in 1..Len(v) : w[i] = v[i]
  BY AppendProperties, AppendIsConcat, LenProperties
<1>2. /\ part \in Seq(Seq(Signals)) /\ whole \in Seq(Seq(Signals))
      /\ d.signals \in Seq(Signals)
  BY <1>1, SignalsType DEF DecisionType
<1>3. whole = Append(part, d.signals)
  <2>1. Len(part) = Len(v) /\ Len(whole) = Len(v) + 1
    <3>1. DOMAIN part = 1..Len(v) /\ DOMAIN whole = 1..(Len(v) + 1)
      BY <1>1
    <3>2. /\ DOMAIN part = 1..Len(part) /\ Len(part) \in Nat
          /\ DOMAIN whole = 1..Len(whole) /\ Len(whole) \in Nat
      BY <1>2, LenProperties
    <3>3. QED
      BY <1>1, <3>1, <3>2
  <2>2. /\ Append(part, d.signals) \in Seq(Seq(Signals))
        /\ Len(Append(part, d.signals)) = Len(v) + 1
        /\ \A i \in 1..Len(v) : Append(part, d.signals)[i] = part[i]
        /\ Append(part, d.signals)[Len(v) + 1] = d.signals
    BY <1>2, <2>1, AppendProperties
  <2>3. \A i \in 1..(Len(v) + 1) : whole[i] = Append(part, d.signals)[i]
    <3>1. \A i \in 1..Len(v) : whole[i] = part[i]
      BY <1>1
    <3>2. whole[Len(v) + 1] = d.signals
      BY <1>1
    <3>3. \A i \in 1..(Len(v) + 1) : i \in 1..Len(v) \/ i = Len(v) + 1
      BY <1>1
    <3> HIDE DEF whole, part
    <3>4. QED
      BY <2>2, <3>1, <3>2, <3>3
  <2> HIDE DEF whole, part
  <2>4. QED
    BY <1>1, <1>2, <2>1, <2>2, <2>3, SeqEqual
<1>4. FlattenSeq(Append(part, d.signals)) = FlattenSeq(part) \o d.signals
  BY <1>2, FlattenAppend
<1>5. QED
  BY <1>3, <1>4 DEF SignalsOf

LEMMA CombineType ==
    ASSUME NEW v \in Seq(DecisionType), v # <<>>
    PROVE  /\ Combine(v) \in DecisionType
           /\ Combine(v).signals = SignalsOf(v)
           /\ Combine(v).disposition = Strictest(v).disposition
           /\ \E i \in 1..Len(v) : FirstStrictest(v, i) /\ Strictest(v) = v[i]
<1>1. Len(v) \in Nat \ {0} /\ \A i \in 1..Len(v) : v[i].disposition \in Dispositions
  BY EmptySeq, DecisionsType
<1>2. PICK i \in 1..Len(v) : FirstStrictest(v, i) /\ Strictest(v) = v[i]
  BY <1>1, StrictestIsFirst
<1>3. Strictest(v).disposition \in Dispositions
  BY <1>1, <1>2
<1>4. SignalsOf(v) \in Seq(Signals)
  BY SignalsType
<1>5. Combine(v) = Decision(Strictest(v).disposition, SignalsOf(v))
  BY DEF Combine, SignalsOf
<1>6. QED
  BY <1>2, <1>3, <1>4, <1>5 DEF Decision, DecisionType

\* The decisive rule is the rule of one of the signals, the first of the
\* strictest ones.
LEMMA DecisiveRuleIs ==
    ASSUME NEW d, d.signals \in Seq(Signals)
    PROVE  /\ DecisiveRule(d) \in Rules
           /\ d.signals # <<>> =>
                \E k \in 1..Len(d.signals) :
                    FirstStrictest(d.signals, k) /\ DecisiveRule(d) = d.signals[k].rule
<1>1. CASE d.signals = <<>>
  BY <1>1 DEF DecisiveRule, Rules
<1>2. CASE d.signals # <<>>
  <2> DEFINE s == d.signals
  <2>1. Len(s) \in Nat \ {0} /\ \A i \in 1..Len(s) : s[i] \in Signals
    BY <1>2, EmptySeq, ElementOfSeq
  <2>2. \A i \in 1..Len(s) : s[i].disposition \in Dispositions /\ s[i].rule \in Rules
    BY <2>1 DEF Signals
  <2> HIDE DEF s
  <2>3. PICK k \in 1..Len(s) : FirstStrictest(s, k) /\ Strictest(s) = s[k]
    BY <2>1, <2>2, StrictestIsFirst
  <2>4. DecisiveRule(d) = s[k].rule
    BY <1>2, <2>3 DEF DecisiveRule, s
  <2>5. QED
    BY <2>2, <2>3, <2>4 DEF s
<1>3. QED
  BY <1>1, <1>2

\* A stage adds a verdict exactly if its outcome is a finding or an error; the
\* verdict has one signal, with the disposition of the objection.
LEMMA StageVerdictsAre ==
    ASSUME NEW s \in Range(Stages), NEW o \in OutcomesOf[s]
    PROVE  \/ /\ StageVerdicts(s, o) = <<>>
              /\ Objection(o) = ALLOW
           \/ \E d \in DecisionType, sig \in Signals :
                /\ StageVerdicts(s, o) = <<d>> /\ d.signals = <<sig>>
                /\ d.disposition = Objection(o) /\ sig.disposition = Objection(o)
                /\ sig.rule = o.rule
<1>1. CASE o.result = "finds"
  <2> DEFINE sig == Signal(s, o.rule, o.disposition)
  <2>1. o.rule \in DOMAIN CatalogPolicy /\ o.disposition \in Dispositions
    BY <1>1, OutcomesAssumption
  <2>2. sig \in Signals /\ sig.disposition = o.disposition /\ sig.rule = o.rule
    BY <2>1 DEF Signal, Signals, Rules
  <2> HIDE DEF sig
  <2>3. <<sig>> \in Seq(Signals)
    BY <2>2
  <2> DEFINE d == Decision(o.disposition, <<sig>>)
  <2>4. d \in DecisionType /\ d.signals = <<sig>> /\ d.disposition = o.disposition
    BY <2>1, <2>3 DEF Decision, DecisionType
  <2>5. StageVerdicts(s, o) = <<d>> /\ Objection(o) = o.disposition
    BY <1>1 DEF StageVerdicts, Objection, sig
  <2> HIDE DEF d
  <2>6. QED
    BY <2>2, <2>4, <2>5
<1>2. CASE o.result = "raises"
  <2> DEFINE sig == Signal("pipeline", NoRule, ESCALATE)
  <2>1. ESCALATE \in Dispositions /\ o.rule = NoRule
    BY <1>2, OutcomesAssumption DEF Dispositions
  <2>2. sig \in Signals /\ sig.disposition = ESCALATE /\ sig.rule = o.rule
    BY <2>1 DEF Signal, Signals, Rules
  <2> HIDE DEF sig
  <2>3. <<sig>> \in Seq(Signals)
    BY <2>2
  <2> DEFINE d == Decision(ESCALATE, <<sig>>)
  <2>4. d \in DecisionType /\ d.signals = <<sig>> /\ d.disposition = ESCALATE
    BY <2>1, <2>3 DEF Decision, DecisionType
  <2>5. StageVerdicts(s, o) = <<d>> /\ Objection(o) = ESCALATE
    BY <1>2 DEF StageVerdicts, Objection, sig
  <2> HIDE DEF d
  <2>6. QED
    BY <2>2, <2>4, <2>5
<1>3. CASE o.result \notin {"finds", "raises"}
  BY <1>3 DEF StageVerdicts, Objection
<1>4. QED
  BY <1>1, <1>2, <1>3

\* What the scan of an answer finds are rules of the catalog, or a failure.
LEMMA FindingsType ==
    ASSUME NEW a
    PROVE  Findings(a) \in Seq(Rules)
<1>1. CASE a.broken
  BY <1>1 DEF Findings, Rules
<1>2. CASE ~a.broken
  <2> DEFINE found == [i \in 1..Len(ScannedRules) |->
                          IF ScannedRules[i] \in a.matching THEN <<ScannedRules[i]>> ELSE <<>>]
  <2> DEFINE Tables == {"R-01", "R-03", "R-04", "R-06", "R-07", "R-09"}
  <2>1. ScannedRules \in Seq(Tables)
    <3>1. /\ LeakRules \in Seq(Tables) /\ CodeRules \in Seq(Tables)
          /\ AlignmentRules \in Seq(Tables)
      BY DEF LeakRules, CodeRules, AlignmentRules
    <3>2. QED
      BY <3>1, ConcatProperties DEF ScannedRules
  <2>2. /\ Len(ScannedRules) \in Nat
        /\ \A i \in 1..Len(ScannedRules) : ScannedRules[i] \in Rules
    BY <2>1, LenProperties, RangeEquality, CatalogAssumption DEF Rules
  <2>3. \A i \in 1..Len(ScannedRules) :
          (IF ScannedRules[i] \in a.matching THEN <<ScannedRules[i]>> ELSE <<>>) \in Seq(Rules)
    BY <2>2
  <2>4. found \in [1..Len(ScannedRules) -> Seq(Rules)]
    BY <2>3
  <2>5. found \in Seq(Seq(Rules))
    BY <2>2, <2>4, FunctionIsSeq
  <2>6. Findings(a) = FlattenSeq(found)
    BY <1>2 DEF Findings
  <2> HIDE DEF found
  <2>7. QED
    BY <2>5, <2>6, FlattenType
<1>3. QED
  BY <1>1, <1>2

LEMMA EgressIs ==
    ASSUME NEW a, NEW version \in Range(Versions) \cup {Unstamped}
    PROVE  /\ EgressDecision(a, version) \in DecisionType
           /\ EgressDecision(a, version).disposition = STOP
           /\ EgressDecision(a, version).version = version
           /\ ~Passes(a) => DecisiveRule(EgressDecision(a, version)) \in Range(Findings(a))
<1> DEFINE f == Findings(a)
           signals == [i \in 1..Len(f) |-> Signal("output", f[i], STOP)]
           e == EgressDecision(a, version)
<1>1. f \in Seq(Rules) /\ Len(f) \in Nat /\ \A i \in 1..Len(f) : f[i] \in Rules
  BY FindingsType, LenProperties, ElementOfSeq
<1> HIDE DEF f
<1>2. signals \in Seq(Signals) /\ Len(signals) = Len(f)
  <2>1. STOP \in Dispositions
    BY DEF Dispositions
  <2>2. \A i \in 1..Len(f) : Signal("output", f[i], STOP) \in Signals
    BY <1>1, <2>1 DEF Signal, Signals
  <2>3. signals \in [1..Len(f) -> Signals]
    BY <2>2
  <2>4. QED
    BY <1>1, <2>3, FunctionIsSeq
<1>3. \A i \in 1..Len(f) : signals[i].rule = f[i]
  BY DEF Signal
<1>4. e = [Decision(STOP, signals) EXCEPT !.version = version]
  BY DEF EgressDecision, f
<1> HIDE DEF signals, e
<1>5. e \in DecisionType /\ e.disposition = STOP /\ e.version = version /\ e.signals = signals
  BY <1>2, <1>4 DEF Decision, DecisionType, Dispositions
<1>6. ASSUME ~Passes(a) PROVE DecisiveRule(e) \in Range(f)
  <2>1. f # <<>> /\ Len(signals) # 0
    BY <1>1, <1>2, <1>6, EmptySeq DEF Passes, f
  <2>2. signals # <<>>
    BY <2>1
  <2>3. PICK k \in 1..Len(signals) : DecisiveRule(e) = signals[k].rule
    BY <1>2, <1>5, <2>2, DecisiveRuleIs
  <2>4. DecisiveRule(e) = f[k] /\ k \in 1..Len(f)
    BY <1>2, <1>3, <2>3
  <2>5. QED
    BY <1>1, <2>4, RangeEquality
<1>7. QED
  BY <1>5, <1>6 DEF e, f

-----------------------------------------------------------------------------
(* The inductive invariants of the request path.                            *)

\* The verdicts tell what the first n stages have against a request, next to
\* the baseline ALLOW.
Shows(verds, o, n) ==
    {verds[k].disposition : k \in 1..Len(verds)} = {ALLOW} \cup {Objection(o[i]) : i \in 1..n}

\* The signals stem from the first n stages, in their order, and each stage
\* that objects has one.
Traces(sig, o, n) ==
    \E at \in [1..Len(sig) -> 1..n] :
        /\ \A k, m \in 1..Len(sig) : k < m => at[k] < at[m]
        /\ \A k \in 1..Len(sig) : /\ sig[k].disposition = Objection(o[at[k]])
                                  /\ sig[k].rule = o[at[k]].rule
        /\ \A i \in 1..n : Objection(o[i]) # ALLOW => \E k \in 1..Len(sig) : at[k] = i

\* A decision is as strict as the strictest of the first n stages, and cites
\* the first one that is.
Judges(d, o, n) ==
    /\ d.disposition \in {ALLOW} \cup {Objection(o[i]) : i \in 1..n}
    /\ \A i \in 1..n : Objection(o[i]) <= d.disposition
    /\ d.disposition # ALLOW =>
          \E i \in 1..n : /\ Objection(o[i]) = d.disposition
                          /\ \A j \in 1..(i - 1) : Objection(o[j]) < d.disposition
                          /\ DecisiveRule(d) = o[i].rule

\* The content of the requests is what Init chose.
ContentInv ==
    /\ user \in [Requests -> KnownUsers \cup Strangers]
    /\ \A r \in Requests, i \in StageNumbers : outcome[r][i] \in OutcomesOf[Stages[i]]

\* What the types of the later steps rest on: the stages run on a snapshot and
\* have the baseline verdict, and what is counted is a response.
LabelInv ==
    \A r \in Requests :
        /\ pc[r] \in {"stages", "combine"} => snap[r] # NoSnapshot /\ verdicts[r] # <<>>
        /\ pc[r] \in {"record", "count"} => response[r].decision \in Names

TypeInv == TypeOK /\ ContentInv /\ LabelInv

\* What holds of a request before its decision is enforced.
EvaluationOf(r) ==
    /\ pc[r] \in {"arrived", "evaluate"} => snap[r] = NoSnapshot /\ stage[r] = 1
    /\ pc[r] \in {"evaluate", "stages", "combine", "enforce"} => user[r] \in KnownUsers
    /\ pc[r] \in {"arrived", "evaluate", "stages", "combine", "enforce"} => r \notin failed
    /\ pc[r] \in {"stages", "combine"} =>
          /\ Shows(verdicts[r], outcome[r], stage[r] - 1)
          /\ Traces(SignalsOf(verdicts[r]), outcome[r], stage[r] - 1)
    /\ pc[r] = "combine" =>
          \E i \in 1..(stage[r] - 1) : Objection(outcome[r][i]) = STOP

\* A decision that is to be enforced: the one of the stages, or the hold of an
\* unaudited request.
EnforceOf(r) ==
    pc[r] = "enforce" =>
        IF snap[r] = NoSnapshot
          THEN decision[r] = Decision(ESCALATE, <<>>)
          ELSE /\ Judges(decision[r], outcome[r], Len(Stages))
               /\ decision[r].version = Versions[snap[r]]

\* An answer is given to what AnswerIsScreened asks for.
ScreenedOf(r) ==
    response[r].answered =>
        /\ user[r] \in KnownUsers
        /\ \A i \in StageNumbers : Objection(outcome[r][i]) = ALLOW
        /\ Passes(answer[r])

\* The response tells the decision, and both rest on the same rule.
DecidedOf(r) ==
    pc[r] \in {"record", "count", "done"} =>
        /\ response[r].decision = NameOf(decision[r].disposition)
        /\ decision[r].version = IF snap[r] = NoSnapshot \/ r \in failed
                                   THEN Unstamped ELSE Versions[snap[r]]
        /\ decision[r].disposition = STOP /\ user[r] \in KnownUsers =>
              /\ DecisiveRule(decision[r]) \in StoppingRules(r)
              /\ response[r].policy = Cited(StaticPolicy, DecisiveRule(decision[r]))

RequestInv ==
    \A r \in Requests : EvaluationOf(r) /\ EnforceOf(r) /\ ScreenedOf(r) /\ DecidedOf(r)

\* What a stage has against a request is a disposition.
LEMMA ObjectionType ==
    ASSUME NEW s \in Range(Stages), NEW o \in OutcomesOf[s]
    PROVE  Objection(o) \in Dispositions
<1>1. CASE o.result = "finds"
  BY <1>1, OutcomesAssumption DEF Objection
<1>2. CASE o.result # "finds"
  BY <1>2 DEF Objection, Dispositions
<1>3. QED
  BY <1>1, <1>2

\* A stage that adds no verdict leaves what is shown and traced.
LEMMA WithoutVerdict ==
    ASSUME NEW verds, NEW sig, NEW o, NEW n \in Nat, Len(sig) \in Nat,
           Shows(verds, o, n), Traces(sig, o, n), Objection(o[n + 1]) = ALLOW
    PROVE  Shows(verds, o, n + 1) /\ Traces(sig, o, n + 1)
<1>1. 1..(n + 1) = 1..n \cup {n + 1}
  OBVIOUS
<1>2. Shows(verds, o, n + 1)
  BY <1>1 DEF Shows
<1>3. PICK at \in [1..Len(sig) -> 1..n] :
        /\ \A k, m \in 1..Len(sig) : k < m => at[k] < at[m]
        /\ \A k \in 1..Len(sig) : /\ sig[k].disposition = Objection(o[at[k]])
                                  /\ sig[k].rule = o[at[k]].rule
        /\ \A i \in 1..n : Objection(o[i]) # ALLOW => \E k \in 1..Len(sig) : at[k] = i
  BY DEF Traces
<1>4. at \in [1..Len(sig) -> 1..(n + 1)]
  BY <1>1
<1>5. \A i \in 1..(n + 1) : Objection(o[i]) # ALLOW => \E k \in 1..Len(sig) : at[k] = i
  BY <1>1, <1>3
<1>6. Traces(sig, o, n + 1)
  BY <1>3, <1>4, <1>5 DEF Traces
<1>7. QED
  BY <1>2, <1>6

\* The verdict of a stage that objects shows and traces it.
LEMMA VerdictShows ==
    ASSUME NEW v, NEW w, NEW o, NEW n \in Nat, NEW len \in Nat,
           Len(v) = len, Len(w) = len + 1, \A i \in 1..len : w[i] = v[i],
           w[len + 1].disposition = Objection(o[n + 1]), Shows(v, o, n)
    PROVE  Shows(w, o, n + 1)
<1>1. 1..(n + 1) = 1..n \cup {n + 1} /\ 1..(len + 1) = 1..len \cup {len + 1}
  OBVIOUS
<1>2. {w[k].disposition : k \in 1..(len + 1)}
        = {v[k].disposition : k \in 1..len} \cup {Objection(o[n + 1])}
  BY <1>1
<1>3. {Objection(o[i]) : i \in 1..(n + 1)}
        = {Objection(o[i]) : i \in 1..n} \cup {Objection(o[n + 1])}
  BY <1>1
<1>4. QED
  BY <1>2, <1>3 DEF Shows

LEMMA SignalTraces ==
    ASSUME NEW s, NEW t, NEW o, NEW n \in Nat, NEW len \in Nat,
           Len(s) = len, Len(t) = len + 1, \A i \in 1..len : t[i] = s[i],
           t[len + 1].disposition = Objection(o[n + 1]),
           t[len + 1].rule = o[n + 1].rule, Traces(s, o, n)
    PROVE  Traces(t, o, n + 1)
<1>1. 1..(n + 1) = 1..n \cup {n + 1} /\ 1..(len + 1) = 1..len \cup {len + 1}
  OBVIOUS
<1>2. PICK at \in [1..len -> 1..n] :
        /\ \A k, m \in 1..len : k < m => at[k] < at[m]
        /\ \A k \in 1..len : /\ s[k].disposition = Objection(o[at[k]])
                             /\ s[k].rule = o[at[k]].rule
        /\ \A i \in 1..n : Objection(o[i]) # ALLOW => \E k \in 1..len : at[k] = i
  BY DEF Traces
<1> DEFINE new == [k \in 1..(len + 1) |-> IF k = len + 1 THEN n + 1 ELSE at[k]]
<1>3. new \in [1..(len + 1) -> 1..(n + 1)]
  BY <1>1
<1>4. new[len + 1] = n + 1 /\ \A k \in 1..len : new[k] = at[k]
  BY <1>1
<1> HIDE DEF new
<1>5. \A k, m \in 1..(len + 1) : k < m => new[k] < new[m]
  <2>1. SUFFICES ASSUME NEW k \in 1..(len + 1), NEW m \in 1..(len + 1), k < m
                 PROVE  new[k] < new[m]
    OBVIOUS
  <2>2. k \in 1..len /\ at[k] \in 1..n /\ new[k] = at[k]
    BY <1>4, <2>1
  <2>3. CASE m = len + 1
    BY <1>4, <2>2, <2>3
  <2>4. CASE m \in 1..len
    BY <1>2, <1>4, <2>1, <2>2, <2>4
  <2>5. QED
    BY <1>1, <2>3, <2>4
<1>6. \A k \in 1..(len + 1) : /\ t[k].disposition = Objection(o[new[k]])
                              /\ t[k].rule = o[new[k]].rule
  <2>1. SUFFICES ASSUME NEW k \in 1..(len + 1)
                 PROVE  /\ t[k].disposition = Objection(o[new[k]])
                        /\ t[k].rule = o[new[k]].rule
    OBVIOUS
  <2>2. CASE k = len + 1
    BY <1>4, <2>2
  <2>3. CASE k \in 1..len
    <3>1. t[k] = s[k] /\ new[k] = at[k]
      BY <1>4, <2>3
    <3>2. s[k].disposition = Objection(o[at[k]]) /\ s[k].rule = o[at[k]].rule
      BY <1>2, <2>3
    <3>3. QED
      BY <3>1, <3>2
  <2>4. QED
    BY <1>1, <2>1, <2>2, <2>3
<1>7. \A i \in 1..(n + 1) : Objection(o[i]) # ALLOW => \E k \in 1..(len + 1) : new[k] = i
  <2>1. SUFFICES ASSUME NEW i \in 1..(n + 1), Objection(o[i]) # ALLOW
                 PROVE  \E k \in 1..(len + 1) : new[k] = i
    OBVIOUS
  <2>2. CASE i = n + 1
    BY <1>1, <1>4, <2>2
  <2>3. CASE i \in 1..n
    <3>1. PICK k \in 1..len : at[k] = i
      BY <1>2, <2>1, <2>3
    <3>2. QED
      BY <1>1, <1>4, <3>1
  <2>4. QED
    BY <1>1, <2>1, <2>2, <2>3
<1>8. Len(t) = len + 1
  OBVIOUS
<1>9. QED
  <2>1. /\ new \in [1..Len(t) -> 1..(n + 1)]
        /\ \A k, m \in 1..Len(t) : k < m => new[k] < new[m]
        /\ \A k \in 1..Len(t) : /\ t[k].disposition = Objection(o[new[k]])
                                /\ t[k].rule = o[new[k]].rule
        /\ \A i \in 1..(n + 1) : Objection(o[i]) # ALLOW => \E k \in 1..Len(t) : new[k] = i
    BY <1>3, <1>5, <1>6, <1>7, <1>8
  <2>2. QED
    BY <2>1, Zenon DEF Traces

LEMMA WithVerdict ==
    ASSUME NEW v \in Seq(DecisionType), NEW o, NEW n \in Nat,
           Shows(v, o, n), Traces(SignalsOf(v), o, n),
           NEW d \in DecisionType, NEW sig \in Signals, d.signals = <<sig>>,
           d.disposition = Objection(o[n + 1]),
           sig.disposition = Objection(o[n + 1]), sig.rule = o[n + 1].rule
    PROVE  /\ v \o <<d>> \in Seq(DecisionType)
           /\ v \o <<d>> # <<>>
           /\ Shows(v \o <<d>>, o, n + 1)
           /\ Traces(SignalsOf(v \o <<d>>), o, n + 1)
<1>1. /\ v \o <<d>> = Append(v, d) /\ v \o <<d>> \in Seq(DecisionType)
      /\ Len(v) \in Nat /\ Len(v \o <<d>>) = Len(v) + 1
      /\ (v \o <<d>>)[Len(v) + 1] = d
      /\ \A i \in 1..Len(v) : (v \o <<d>>)[i] = v[i]
  BY AppendProperties, AppendIsConcat, LenProperties
<1>2. v \o <<d>> # <<>>
  BY <1>1, EmptySeq
<1>3. Shows(v \o <<d>>, o, n + 1)
  BY <1>1, VerdictShows
<1> DEFINE s == SignalsOf(v)
<1>4. s \in Seq(Signals) /\ SignalsOf(v \o <<d>>) = s \o <<sig>>
  BY SignalsType, SignalsAppend
<1> HIDE DEF s
<1>5. /\ s \o <<sig>> = Append(s, sig) /\ Len(s) \in Nat
      /\ Len(s \o <<sig>>) = Len(s) + 1 /\ (s \o <<sig>>)[Len(s) + 1] = sig
      /\ \A i \in 1..Len(s) : (s \o <<sig>>)[i] = s[i]
  BY <1>4, AppendProperties, AppendIsConcat, LenProperties
<1>6. Traces(s, o, n)
  BY DEF s
<1>7. Traces(s \o <<sig>>, o, n + 1)
  BY <1>5, <1>6, SignalTraces
<1>8. QED
  BY <1>1, <1>2, <1>3, <1>4, <1>7

\* Judgements depend on the disposition and the signals alone.
LEMMA SameJudgement ==
    ASSUME NEW d, NEW e, NEW o, NEW n,
           d.disposition = e.disposition, d.signals = e.signals, Judges(d, o, n)
    PROVE  Judges(e, o, n)
BY DEF Judges, DecisiveRule

\* A sequence of signals that traces the stages has, at the place where it is
\* first as strict as they are, the rule of the first stage that is.
LEMMA TracedRule ==
    ASSUME NEW s, NEW o, NEW n \in Nat, NEW len \in Nat, Len(s) = len, Traces(s, o, n),
           \A i \in 1..n : Objection(o[i]) \in Dispositions,
           NEW top \in {ESCALATE, STOP}, \E i \in 1..n : Objection(o[i]) = top,
           \A i \in 1..n : Objection(o[i]) <= top
    PROVE  /\ len # 0
           /\ \A k \in 1..len :
                FirstStrictest(s, k) =>
                    \E i \in 1..n : /\ Objection(o[i]) = top
                                    /\ \A j \in 1..(i - 1) : Objection(o[j]) < top
                                    /\ s[k].rule = o[i].rule
<1>1. PICK at \in [1..len -> 1..n] :
        /\ \A k, m \in 1..len : k < m => at[k] < at[m]
        /\ \A k \in 1..len : /\ s[k].disposition = Objection(o[at[k]])
                             /\ s[k].rule = o[at[k]].rule
        /\ \A i \in 1..n : Objection(o[i]) # ALLOW => \E k \in 1..len : at[k] = i
  BY DEF Traces
<1>2. top \in {1, 2} /\ ALLOW = 0 /\ \A i \in 1..n : Objection(o[i]) \in {0, 1, 2}
  BY DEF ALLOW, ESCALATE, STOP, Dispositions
<1>3. PICK p \in 1..len : Objection(o[at[p]]) = top
  BY <1>1, <1>2
<1>4. ASSUME NEW k \in 1..len, FirstStrictest(s, k)
      PROVE  \E i \in 1..n : /\ Objection(o[i]) = top
                             /\ \A j \in 1..(i - 1) : Objection(o[j]) < top
                             /\ s[k].rule = o[i].rule
  <2>1. at[k] \in 1..n /\ s[k].disposition = Objection(o[at[k]]) /\ s[k].rule = o[at[k]].rule
    BY <1>1
  <2>2. s[p].disposition <= s[k].disposition /\ s[p].disposition = top
    BY <1>1, <1>3, <1>4 DEF FirstStrictest
  <2>3. Objection(o[at[k]]) = top
    BY <1>2, <2>1, <2>2
  <2>4. ASSUME NEW j \in 1..(at[k] - 1) PROVE Objection(o[j]) < top
    <3>1. j \in 1..n /\ j < at[k] /\ Objection(o[j]) <= top /\ Objection(o[j]) \in {0, 1, 2}
      BY <1>2, <2>1
    <3>2. SUFFICES ASSUME Objection(o[j]) = top PROVE FALSE
      BY <1>2, <3>1
    <3>3. PICK m \in 1..len : at[m] = j
      <4>1. Objection(o[j]) # ALLOW /\ j \in 1..n
        BY <1>2, <3>1, <3>2
      <4>2. QED
        BY <1>1, <4>1
    <3>4. m < k
      <4>1. ~ (k < m)
        BY <1>1, <2>1, <3>1, <3>3
      <4>2. m # k
        BY <2>1, <3>1, <3>3
      <4>3. QED
        BY <4>1, <4>2
    <3>5. s[m].disposition < s[k].disposition
      BY <1>4, <3>4 DEF FirstStrictest
    <3>6. s[m].disposition = top
      BY <1>1, <3>2, <3>3
    <3>7. QED
      BY <1>2, <2>1, <2>3, <3>5, <3>6
  <2>5. QED
    BY <2>1, <2>3, <2>4
<1>5. QED
  BY <1>3, <1>4

\* What Combine makes of the verdicts of the first n stages judges as they do.
LEMMA CombineJudges ==
    ASSUME NEW v \in Seq(DecisionType), v # <<>>, NEW o, NEW n \in Nat,
           Shows(v, o, n), Traces(SignalsOf(v), o, n),
           \A i \in 1..n : Objection(o[i]) \in Dispositions
    PROVE  Combine(v) \in DecisionType /\ Judges(Combine(v), o, n)
<1> DEFINE d == Combine(v)
           s == SignalsOf(v)
<1>1. d \in DecisionType /\ d.signals = s
  BY CombineType
<1>2. PICK p \in 1..Len(v) : FirstStrictest(v, p) /\ d.disposition = v[p].disposition
  BY CombineType
<1>3. d.disposition \in {ALLOW} \cup {Objection(o[i]) : i \in 1..n}
  BY <1>2 DEF Shows
<1>4. ASSUME NEW i \in 1..n PROVE Objection(o[i]) <= d.disposition
  <2>1. PICK q \in 1..Len(v) : v[q].disposition = Objection(o[i])
    BY DEF Shows
  <2>2. QED
    BY <1>2, <2>1 DEF FirstStrictest
<1>5. ASSUME d.disposition # ALLOW
      PROVE  \E i \in 1..n : /\ Objection(o[i]) = d.disposition
                             /\ \A j \in 1..(i - 1) : Objection(o[j]) < d.disposition
                             /\ DecisiveRule(d) = o[i].rule
  <2>1. s \in Seq(Signals) /\ Len(s) \in Nat
    BY SignalsType, LenProperties
  <2>2. /\ d.disposition \in {ESCALATE, STOP}
        /\ \E i \in 1..n : Objection(o[i]) = d.disposition
    BY <1>3, <1>5 DEF Dispositions
  <2>3. Traces(s, o, n)
    OBVIOUS
  <2> HIDE DEF s, d
  <2>4. /\ Len(s) # 0
        /\ \A k \in 1..Len(s) :
             FirstStrictest(s, k) =>
                 \E i \in 1..n : /\ Objection(o[i]) = d.disposition
                                 /\ \A j \in 1..(i - 1) : Objection(o[j]) < d.disposition
                                 /\ s[k].rule = o[i].rule
    BY <1>4, <2>1, <2>2, <2>3, TracedRule
  <2>5. s # <<>>
    BY <2>4
  <2>6. PICK k \in 1..Len(s) : FirstStrictest(s, k) /\ DecisiveRule(d) = s[k].rule
    BY <1>1, <2>1, <2>5, DecisiveRuleIs
  <2>7. QED
    BY <2>4, <2>6
<1>6. Judges(d, o, n)
  BY <1>3, <1>4, <1>5 DEF Judges
<1>7. QED
  BY <1>1, <1>6

\* A stage that stops the request makes the judgement that of all stages.
LEMMA StopJudges ==
    ASSUME NEW d, NEW o, NEW n \in Nat, NEW k \in 0..n, Judges(d, o, k),
           d.disposition \in Dispositions,
           \A i \in 1..n : Objection(o[i]) \in Dispositions,
           k = n \/ \E i \in 1..k : Objection(o[i]) = STOP
    PROVE  Judges(d, o, n)
<1>1. CASE k = n
  BY <1>1
<1>2. CASE \E i \in 1..k : Objection(o[i]) = STOP
  <2>1. \A i \in 1..k : i \in 1..n
    OBVIOUS
  <2>2. d.disposition = STOP
    BY <1>2 DEF Judges, Dispositions, ALLOW, ESCALATE, STOP
  <2>3. \A i \in 1..n : Objection(o[i]) <= STOP
    BY DEF Dispositions, ALLOW, ESCALATE, STOP
  <2>4. d.disposition \in {ALLOW} \cup {Objection(o[i]) : i \in 1..n}
    BY <1>2, <2>1, <2>2
  <2>5. \E i \in 1..n : /\ Objection(o[i]) = d.disposition
                        /\ \A j \in 1..(i - 1) : Objection(o[j]) < d.disposition
                        /\ DecisiveRule(d) = o[i].rule
    <3>1. d.disposition # ALLOW
      BY <2>2 DEF ALLOW, STOP
    <3>2. QED
      BY <2>1, <3>1 DEF Judges
  <2>6. QED
    BY <2>2, <2>3, <2>4, <2>5 DEF Judges
<1>3. QED
  BY <1>1, <1>2

-----------------------------------------------------------------------------
(* Type correctness                                                         *)

LEMMA CitedType ==
    ASSUME NEW rule
    PROVE  Cited(StaticPolicy, rule) \in Policies /\ Cited(CatalogPolicy, rule) \in Policies
BY DEF Cited, Policies, Range

LEMMA ResponseIs ==
    ASSUME NEW told \in Names \cup {"none"}, NEW policy \in Policies,
           NEW answered \in BOOLEAN
    PROVE  /\ Response(told, policy, answered) \in ResponseType
           /\ Response(told, policy, answered).decision = told
BY DEF Response, ResponseType

\* The responses that the handlers give.
LEMMA RefusalIs ==
    ASSUME NEW rule
    PROVE  LET told == Response("STOP", Cited(StaticPolicy, rule), FALSE)
           IN  told \in ResponseType /\ told.decision \in Names
BY CitedType, ResponseIs DEF Names

LEMMA ReplyIs ==
    ASSUME NEW name \in Names, NEW answered \in BOOLEAN
    PROVE  /\ Response(name, NoPolicy, answered) \in ResponseType
           /\ Response(name, NoPolicy, answered).decision \in Names
<1>1. NoPolicy \in Policies /\ name \in Names \cup {"none"}
  BY DEF Policies
<1>2. QED
  BY <1>1, ResponseIs

LEMMA HoldType ==
    ASSUME NEW disposition \in Dispositions
    PROVE  Decision(disposition, <<>>) \in DecisionType
BY DEF Decision, DecisionType

LEMMA VersionType ==
    ASSUME NEW n \in Snapshots
    PROVE  Versions[n] \in Range(Versions)
<1>1. Versions \in Seq(STRING)
  BY VersionsAssumption
<1>2. QED
  BY <1>1, RangeEquality DEF Snapshots

LEMMA StageIs ==
    ASSUME NEW i \in StageNumbers
    PROVE  Stages[i] \in Range(Stages)
<1>1. Stages \in Seq(STRING)
  BY StagesAssumption
<1>2. QED
  BY <1>1, RangeEquality DEF StageNumbers

LEMMA BoundsType ==
    /\ Len(Stages) \in Nat /\ 1 \in Snapshots /\ MaxErrors \in Nat /\ MaxFlips \in Nat
    /\ Len(Versions) \in Nat
<1>1. Stages \in Seq(STRING) /\ Versions \in Seq(STRING)
  BY StagesAssumption, VersionsAssumption
<1>2. Len(Stages) \in Nat /\ Len(Versions) \in Nat /\ Len(Versions) # 0
  BY <1>1, VersionsAssumption, EmptySeq, LenProperties
<1>3. MaxErrors \in Nat /\ MaxFlips \in Nat
  BY BoundsAssumption
<1>4. QED
  BY <1>2, <1>3 DEF Snapshots

LEMMA InitTypes == Init => TypeInv
<1>1. SUFFICES ASSUME Init PROVE TypeInv
  OBVIOUS
<1>2. NoResponse \in ResponseType
  BY ResponseIs DEF NoResponse, Policies
<1>3. Decision(ALLOW, <<>>) \in DecisionType
  BY HoldType DEF Dispositions
<1>4. /\ trail \in Seq(RecordType) /\ counted \in Seq(CountType)
      /\ <<>> \in Seq(DecisionType)
  BY <1>1 DEF Init
<1>5. stage \in [Requests -> 1..(Len(Stages) + 1)] /\ active \in Snapshots
  BY <1>1, BoundsType DEF Init
<1>6. errors \in 0..MaxErrors /\ flips \in 0..MaxFlips
  BY <1>1, BoundsType DEF Init
<1>7. TypeOK
  BY <1>1, <1>2, <1>3, <1>4, <1>5, <1>6 DEF Init, TypeOK, Labels
<1>8. ContentInv
  BY <1>1 DEF Init, ContentInv
<1>9. LabelInv
  BY <1>1 DEF Init, LabelInv
<1>10. QED
  BY <1>7, <1>8, <1>9 DEF TypeInv

\* The fields of a decision, whatever becomes of its version.
LEMMA StampedType ==
    ASSUME NEW d \in DecisionType, NEW version \in Range(Versions) \cup {Unstamped}
    PROVE  /\ [d EXCEPT !.version = version] \in DecisionType
           /\ [d EXCEPT !.version = version].disposition = d.disposition
           /\ [d EXCEPT !.version = version].signals = d.signals
           /\ [d EXCEPT !.version = version].version = version
BY DEF DecisionType

LEMMA RecordIs ==
    ASSUME TypeInv, NEW r \in Requests
    PROVE  AuditRecord(r) \in RecordType
<1>1. decision[r] \in DecisionType /\ active \in Snapshots
  BY DEF TypeInv, TypeOK
<1>2. NameOf(decision[r].disposition) \in Names
  BY <1>1 DEF DecisionType, Dispositions, NameOf, Names, ALLOW, ESCALATE, STOP
<1>3. DecisiveRule(decision[r]) \in Rules
  BY <1>1, DecisiveRuleIs DEF DecisionType
<1>4. (IF decision[r].version = Unstamped THEN DefaultVersion ELSE decision[r].version)
        \in Range(Versions) \cup {DefaultVersion}
  BY <1>1 DEF DecisionType
<1>5. QED
  BY <1>1, <1>2, <1>3, <1>4, CitedType DEF AuditRecord, RecordType

LEMMA CountIs ==
    ASSUME TypeInv, NEW r \in Requests, pc[r] = "count"
    PROVE  CountKey(r) \in CountType
<1>1. decision[r] \in DecisionType /\ response[r].decision \in Names
  BY DEF TypeInv, TypeOK, LabelInv
<1>2. DecisiveRule(decision[r]) \in Rules
  BY <1>1, DecisiveRuleIs DEF DecisionType
<1>3. (user[r] \in KnownUsers) \in BOOLEAN
  OBVIOUS
<1>4. QED
  BY <1>1, <1>2, <1>3 DEF CountKey, CountType

\* A stage adds verdicts of the type.
LEMMA VerdictsGrow ==
    ASSUME TypeInv, NEW r \in Requests, NEW i \in StageNumbers
    PROVE  /\ StageVerdicts(Stages[i], outcome[r][i]) \in Seq(DecisionType)
           /\ verdicts[r] \o StageVerdicts(Stages[i], outcome[r][i]) \in Seq(DecisionType)
           /\ verdicts[r] # <<>> =>
                verdicts[r] \o StageVerdicts(Stages[i], outcome[r][i]) # <<>>
<1> DEFINE new == StageVerdicts(Stages[i], outcome[r][i])
<1>1. Stages[i] \in Range(Stages) /\ outcome[r][i] \in OutcomesOf[Stages[i]]
  BY StageIs DEF TypeInv, ContentInv
<1>2. new = <<>> \/ \E d \in DecisionType : new = <<d>>
  BY <1>1, StageVerdictsAre
<1> HIDE DEF new
<1>3. new \in Seq(DecisionType) /\ verdicts[r] \in Seq(DecisionType)
  <2>1. \A d \in DecisionType : <<d>> \in Seq(DecisionType)
    OBVIOUS
  <2>2. <<>> \in Seq(DecisionType)
    OBVIOUS
  <2>3. new \in Seq(DecisionType)
    BY <1>2, <2>1, <2>2, Zenon
  <2>4. QED
    BY <2>3 DEF TypeInv, TypeOK
<1>4. /\ verdicts[r] \o new \in Seq(DecisionType)
      /\ Len(verdicts[r] \o new) = Len(verdicts[r]) + Len(new)
      /\ Len(verdicts[r]) \in Nat /\ Len(new) \in Nat
  BY <1>3, ConcatProperties, LenProperties
<1>5. ASSUME verdicts[r] # <<>> PROVE verdicts[r] \o new # <<>>
  BY <1>3, <1>4, <1>5, EmptySeq
<1>6. QED
  BY <1>3, <1>4, <1>5 DEF new

LEMMA StepTypes == TypeInv /\ [Next]_vars => TypeInv'
<1>1. SUFFICES ASSUME TypeInv, [Next]_vars PROVE TypeInv'
  OBVIOUS
<1>2. CASE UNCHANGED vars
  BY <1>1, <1>2 DEF TypeInv, TypeOK, ContentInv, LabelInv, vars, contentVars, requestVars,
     sharedVars
<1>3. ASSUME NEW r \in Requests, HandleRequest(r) PROVE TypeInv'
  <2>1. CASE RefuseStranger(r)
    <3>1. /\ Decision(STOP, <<>>) \in DecisionType
          /\ Response("STOP", NoPolicy, FALSE) \in ResponseType
          /\ Response("STOP", NoPolicy, FALSE).decision \in Names
      BY HoldType, ReplyIs DEF Dispositions, Names
    <3>2. QED
      BY <1>1, <2>1, <3>1 DEF TypeInv, TypeOK, ContentInv, LabelInv, RefuseStranger, Goto,
         Decide, Tell, Labels, contentVars, sharedVars
  <2>2. CASE HoldUnaudited(r)
    <3>1. Decision(ESCALATE, <<>>) \in DecisionType
      BY HoldType DEF Dispositions
    <3>2. QED
      BY <1>1, <2>2, <3>1 DEF TypeInv, TypeOK, ContentInv, LabelInv, HoldUnaudited, Goto,
         Decide, Tell, Labels, contentVars, sharedVars
  <2>3. CASE PassGate(r)
    BY <1>1, <2>3 DEF TypeInv, TypeOK, ContentInv, LabelInv, PassGate, Goto, Labels,
       contentVars, sharedVars
  <2>4. CASE ReadSnapshot(r)
    <3>1. Decision(ALLOW, <<>>) \in DecisionType
      BY HoldType DEF Dispositions
    <3> DEFINE first == <<Decision(ALLOW, <<>>)>>
    <3>2. first \in Seq(DecisionType) /\ first # <<>>
      BY <3>1
    <3>3. active # NoSnapshot
      BY <1>1 DEF TypeInv, TypeOK, Snapshots, NoSnapshot
    <3>4. verdicts' = [verdicts EXCEPT ![r] = first]
      BY <2>4 DEF ReadSnapshot
    <3> HIDE DEF first
    <3>5. QED
      BY <1>1, <2>4, <3>2, <3>3, <3>4 DEF TypeInv, TypeOK, ContentInv, LabelInv,
         ReadSnapshot, Goto, Labels, contentVars, sharedVars
  <2>5. CASE RunStage(r)
    <3>1. PICK i \in StageNumbers : i = stage[r]
      BY <2>5 DEF RunStage
    <3> DEFINE new == StageVerdicts(Stages[i], outcome[r][i])
    <3>2. /\ verdicts[r] \o new \in Seq(DecisionType)
          /\ verdicts[r] # <<>> => verdicts[r] \o new # <<>>
      BY <1>1, <3>1, VerdictsGrow
    <3>3. stage[r] + 1 \in 1..(Len(Stages) + 1)
      BY <3>1, BoundsType DEF StageNumbers
    <3>4. \E label \in {"stages", "combine"} :
            /\ verdicts' = [verdicts EXCEPT ![r] = @ \o new]
            /\ pc' = [pc EXCEPT ![r] = label]
            /\ stage' = [stage EXCEPT ![r] = @ + 1]
            /\ pc[r] = "stages"
            /\ UNCHANGED <<contentVars, snap, decision, response, sharedVars, failed,
                           errors, flips>>
      BY <2>5, <3>1 DEF RunStage, Goto
    <3> HIDE DEF new
    <3>5. QED
      BY <1>1, <3>2, <3>3, <3>4 DEF TypeInv, TypeOK, ContentInv, LabelInv, Labels,
         contentVars, sharedVars
  <2>6. CASE Conclude(r)
    <3>1. verdicts[r] \in Seq(DecisionType) /\ verdicts[r] # <<>> /\ snap[r] \in Snapshots
      BY <1>1, <2>6 DEF TypeInv, TypeOK, LabelInv, Conclude
    <3>2. Versions[snap[r]] \in Range(Versions) \cup {Unstamped}
      BY <3>1, VersionType
    <3>3. [Combine(verdicts[r]) EXCEPT !.version = Versions[snap[r]]] \in DecisionType
      BY <3>1, <3>2, CombineType, StampedType
    <3>4. QED
      BY <1>1, <2>6, <3>3 DEF TypeInv, TypeOK, ContentInv, LabelInv, Conclude, Goto,
         Decide, Labels, contentVars, sharedVars
  <2>7. CASE Allow(r)
    <3>1. Response("ALLOW", NoPolicy, TRUE) \in ResponseType
          /\ Response("ALLOW", NoPolicy, TRUE).decision \in Names
      BY ReplyIs DEF Names
    <3>2. \E d \in DecisionType, body \in ResponseType :
            /\ decision' = [decision EXCEPT ![r] = d]
            /\ response' = [response EXCEPT ![r] = body]
            /\ body.decision \in Names
      <4>1. CASE Passes(answer[r])
        <5>1. decision' = [decision EXCEPT ![r] = decision[r]] /\ decision[r] \in DecisionType
          BY <1>1, <2>7, <4>1 DEF Allow, TypeInv, TypeOK
        <5>2. QED
          BY <2>7, <3>1, <4>1, <5>1 DEF Allow, Tell
      <4>2. CASE ~Passes(answer[r])
        <5>1. decision[r].version \in Range(Versions) \cup {Unstamped}
          BY <1>1 DEF TypeInv, TypeOK, DecisionType
        <5>2. EgressDecision(answer[r], decision[r].version) \in DecisionType
          BY <5>1, EgressIs
        <5>3. QED
          BY <2>7, <4>2, <5>2, RefusalIs DEF Allow, Tell, Decide
      <4>3. QED
        BY <4>1, <4>2
    <3>3. QED
      BY <1>1, <2>7, <3>2 DEF TypeInv, TypeOK, ContentInv, LabelInv, Allow, Goto, Labels,
         contentVars, sharedVars
  <2>8. CASE Refuse(r)
    <3>1. \E body \in ResponseType : /\ response' = [response EXCEPT ![r] = body]
                                     /\ body.decision \in Names
      BY <2>8, RefusalIs DEF Refuse, Tell
    <3>2. QED
      BY <1>1, <2>8, <3>1 DEF TypeInv, TypeOK, ContentInv, LabelInv, Refuse, Goto, Labels,
         contentVars, sharedVars
  <2>9. CASE Escalate(r)
    <3>1. Response("ESCALATE", NoPolicy, FALSE) \in ResponseType
          /\ Response("ESCALATE", NoPolicy, FALSE).decision \in Names
      BY ReplyIs DEF Names
    <3>2. QED
      BY <1>1, <2>9, <3>1 DEF TypeInv, TypeOK, ContentInv, LabelInv, Escalate, Goto, Tell,
         Labels, contentVars
  <2>10. CASE OuterGuard(r)
    <3>1. /\ Decision(ESCALATE, <<>>) \in DecisionType
          /\ Response("ESCALATE", NoPolicy, FALSE) \in ResponseType
          /\ Response("ESCALATE", NoPolicy, FALSE).decision \in Names
      BY HoldType, ReplyIs DEF Dispositions, Names
    <3>2. errors + 1 \in 0..MaxErrors
      BY <1>1, <2>10, BoundsType DEF TypeInv, TypeOK, OuterGuard
    <3>3. QED
      BY <1>1, <2>10, <3>1, <3>2 DEF TypeInv, TypeOK, ContentInv, LabelInv, OuterGuard,
         Goto, Decide, Tell, Labels, contentVars, sharedVars
  <2>11. CASE Record(r)
    <3>1. Append(trail, AuditRecord(r)) \in Seq(RecordType)
      BY <1>1, RecordIs, AppendProperties DEF TypeInv, TypeOK
    <3>2. QED
      BY <1>1, <2>11, <3>1 DEF TypeInv, TypeOK, ContentInv, LabelInv, Record, Goto, Labels,
         contentVars
  <2>12. CASE RecordRaises(r)
    <3>1. errors + 1 \in 0..MaxErrors
      BY <1>1, <2>12, BoundsType DEF TypeInv, TypeOK, RecordRaises
    <3>2. QED
      BY <1>1, <2>12, <3>1 DEF TypeInv, TypeOK, ContentInv, LabelInv, RecordRaises, Goto,
         Labels, contentVars, sharedVars
  <2>13. CASE Count(r)
    <3>1. Append(counted, CountKey(r)) \in Seq(CountType)
      BY <1>1, <2>13, CountIs, AppendProperties DEF TypeInv, TypeOK, Count
    <3>2. QED
      BY <1>1, <2>13, <3>1 DEF TypeInv, TypeOK, ContentInv, LabelInv, Count, Goto, Labels,
         contentVars
  <2>14. QED
    BY <1>3, <2>1, <2>2, <2>3, <2>4, <2>5, <2>6, <2>7, <2>8, <2>9, <2>10, <2>11, <2>12,
       <2>13 DEF HandleRequest
<1>4. CASE Reload
  <2>1. active + 1 \in Snapshots
    BY <1>1, <1>4, BoundsType DEF TypeInv, TypeOK, Reload, Snapshots
  <2>2. QED
    BY <1>1, <1>4, <2>1 DEF TypeInv, TypeOK, ContentInv, LabelInv, Reload, contentVars,
       requestVars
<1>5. CASE HealthFlips
  <2>1. flips + 1 \in 0..MaxFlips
    BY <1>1, <1>5, BoundsType DEF TypeInv, TypeOK, HealthFlips
  <2>2. healthy' \in BOOLEAN
    BY <1>5, Zenon DEF HealthFlips
  <2>3. QED
    BY <1>1, <1>5, <2>1, <2>2 DEF TypeInv, TypeOK, ContentInv, LabelInv, HealthFlips,
       contentVars, requestVars
<1>6. CASE Finished
  BY <1>2, <1>6 DEF Finished
<1>7. QED
  BY <1>1, <1>2, <1>3, <1>4, <1>5, <1>6 DEF Next

LEMMA TypeInvariant == Spec => []TypeInv
<1>1. QED
  BY InitTypes, StepTypes, PTL DEF Spec

\* The type invariant: what each variable can hold, at every point of every
\* request.  A verdict, a decision, a record and a counter key are of their
\* types whatever the stages and the scan find.
THEOREM TypeCorrect == Spec => []TypeOK
<1>1. TypeInv => TypeOK
  BY DEF TypeInv
<1>2. QED
  BY <1>1, TypeInvariant, PTL

-----------------------------------------------------------------------------
(* The evaluation and the response of one request.                          *)

\* A step of one request leaves the others alone, and no step changes what the
\* requests are.
LEMMA OthersKeep ==
    ASSUME TypeInv, NEW r \in Requests, HandleRequest(r), NEW q \in Requests, q # r
    PROVE  /\ pc'[q] = pc[q] /\ snap'[q] = snap[q] /\ stage'[q] = stage[q]
           /\ verdicts'[q] = verdicts[q] /\ decision'[q] = decision[q]
           /\ response'[q] = response[q] /\ (q \in failed' <=> q \in failed)
<1> USE DEF TypeInv, TypeOK, Goto, Decide, Tell, contentVars, sharedVars
<1>1. CASE RefuseStranger(r)
  BY <1>1 DEF RefuseStranger
<1>2. CASE HoldUnaudited(r)
  BY <1>2 DEF HoldUnaudited
<1>3. CASE PassGate(r)
  BY <1>3 DEF PassGate
<1>4. CASE ReadSnapshot(r)
  BY <1>4 DEF ReadSnapshot
<1>5. CASE RunStage(r)
  BY <1>5 DEF RunStage
<1>6. CASE Conclude(r)
  BY <1>6 DEF Conclude
<1>7. CASE Allow(r)
  BY <1>7 DEF Allow
<1>8. CASE Refuse(r)
  BY <1>8 DEF Refuse
<1>9. CASE Escalate(r)
  BY <1>9 DEF Escalate
<1>10. CASE OuterGuard(r)
  BY <1>10 DEF OuterGuard
<1>11. CASE Record(r)
  BY <1>11 DEF Record
<1>12. CASE RecordRaises(r)
  BY <1>12 DEF RecordRaises
<1>13. CASE Count(r)
  BY <1>13 DEF Count
<1>14. QED
  BY <1>1, <1>2, <1>3, <1>4, <1>5, <1>6, <1>7, <1>8, <1>9, <1>10, <1>11, <1>12, <1>13
  DEF HandleRequest

LEMMA ContentKept == [Next]_vars => user' = user /\ outcome' = outcome /\ answer' = answer
BY DEF Next, HandleRequest, vars, contentVars, RefuseStranger, HoldUnaudited, PassGate,
   ReadSnapshot, RunStage, Conclude, Allow, Refuse, Escalate, OuterGuard, Record,
   RecordRaises, Count, Reload, HealthFlips, Finished

\* The outcomes of a request are outcomes of its stages.
LEMMA ObjectionsType ==
    ASSUME TypeInv, NEW r \in Requests, NEW i \in StageNumbers
    PROVE  /\ Objection(outcome[r][i]) \in Dispositions
           /\ Stages[i] \in Range(Stages)
           /\ outcome[r][i] \in OutcomesOf[Stages[i]]
BY StageIs, ObjectionType DEF TypeInv, ContentInv

\* What holds of a request stays if nothing of it changes.
LEMMA RequestKeeps ==
    ASSUME NEW r, EvaluationOf(r), EnforceOf(r), ScreenedOf(r), DecidedOf(r),
           user' = user, outcome' = outcome, answer' = answer,
           pc'[r] = pc[r], snap'[r] = snap[r], stage'[r] = stage[r],
           verdicts'[r] = verdicts[r], decision'[r] = decision[r],
           response'[r] = response[r], r \in failed' <=> r \in failed
    PROVE  EvaluationOf(r)' /\ EnforceOf(r)' /\ ScreenedOf(r)' /\ DecidedOf(r)'
<1>1. EvaluationOf(r)'
  BY DEF EvaluationOf
<1>2. EnforceOf(r)'
  BY DEF EnforceOf
<1>3. ScreenedOf(r)'
  BY DEF ScreenedOf
<1>4. DecidedOf(r)'
  BY DEF DecidedOf, StoppingRules
<1>5. QED
  BY <1>1, <1>2, <1>3, <1>4

\* The facts about a request that the steps below use.
LEMMA RequestFacts ==
    ASSUME TypeInv, RequestInv, NEW r \in Requests
    PROVE  /\ EvaluationOf(r) /\ EnforceOf(r) /\ ScreenedOf(r) /\ DecidedOf(r)
           /\ r \in DOMAIN pc /\ r \in DOMAIN snap /\ r \in DOMAIN stage
           /\ r \in DOMAIN verdicts /\ r \in DOMAIN decision /\ r \in DOMAIN response
           /\ snap[r] \in Snapshots \cup {NoSnapshot}
           /\ stage[r] \in 1..(Len(Stages) + 1) /\ Len(Stages) \in Nat
           /\ decision[r] \in DecisionType /\ verdicts[r] \in Seq(DecisionType)
           /\ Len(verdicts[r]) \in Nat
<1>1. Len(Stages) \in Nat
  BY BoundsType
<1>2. verdicts[r] \in Seq(DecisionType) /\ Len(verdicts[r]) \in Nat
  BY LenProperties DEF TypeInv, TypeOK
<1>3. QED
  BY <1>1, <1>2 DEF TypeInv, TypeOK, RequestInv

\* The verdicts of the stages, as long as the stages run.
LEMMA RunStageKeeps ==
    ASSUME TypeInv, RequestInv, NEW r \in Requests, RunStage(r)
    PROVE  EvaluationOf(r)'
<1> DEFINE n == stage[r] - 1
           o == outcome[r]
           new == StageVerdicts(Stages[stage[r]], o[stage[r]])
<1>1. /\ n \in Nat /\ stage[r] = n + 1 /\ stage[r] \in StageNumbers /\ pc[r] = "stages"
      /\ EvaluationOf(r) /\ verdicts[r] \in Seq(DecisionType)
  BY RequestFacts DEF RunStage, StageNumbers
<1>2. Shows(verdicts[r], o, n) /\ Traces(SignalsOf(verdicts[r]), o, n)
  BY <1>1 DEF EvaluationOf
<1>3. /\ verdicts'[r] = verdicts[r] \o new /\ stage'[r] = stage[r] + 1
      /\ pc'[r] = IF new # <<>> /\ new[1].disposition = STOP THEN "combine" ELSE "stages"
      /\ outcome' = outcome /\ user' = user /\ failed' = failed
  BY RequestFacts DEF RunStage, Goto, contentVars
<1>4. user[r] \in KnownUsers /\ r \notin failed
  BY <1>1 DEF EvaluationOf
<1>5. /\ Shows(verdicts'[r], o, n + 1) /\ Traces(SignalsOf(verdicts'[r]), o, n + 1)
      /\ pc'[r] = "combine" => Objection(o[n + 1]) = STOP
  <2>1. Stages[stage[r]] \in Range(Stages) /\ o[stage[r]] \in OutcomesOf[Stages[stage[r]]]
    BY <1>1, ObjectionsType
  <2> HIDE DEF new, o, n
  <2>2. CASE new = <<>> /\ Objection(o[stage[r]]) = ALLOW
    <3>1. verdicts'[r] = verdicts[r]
      BY <1>1, <1>3, <2>2, ConcatEmptySeq
    <3>2. SignalsOf(verdicts[r]) \in Seq(Signals) /\ Len(SignalsOf(verdicts[r])) \in Nat
      BY <1>1, SignalsType, LenProperties
    <3>3. Shows(verdicts[r], o, n + 1) /\ Traces(SignalsOf(verdicts[r]), o, n + 1)
      BY <1>1, <1>2, <2>2, <3>2, WithoutVerdict
    <3>4. pc'[r] # "combine"
      BY <1>3, <2>2
    <3>5. QED
      BY <3>1, <3>3, <3>4
  <2>3. ASSUME NEW d \in DecisionType, NEW sig \in Signals, new = <<d>>, d.signals = <<sig>>,
               d.disposition = Objection(o[stage[r]]),
               sig.disposition = Objection(o[stage[r]]), sig.rule = o[stage[r]].rule
        PROVE  /\ Shows(verdicts'[r], o, n + 1) /\ Traces(SignalsOf(verdicts'[r]), o, n + 1)
               /\ pc'[r] = "combine" => Objection(o[n + 1]) = STOP
    <3>1. /\ Shows(verdicts[r] \o <<d>>, o, n + 1)
          /\ Traces(SignalsOf(verdicts[r] \o <<d>>), o, n + 1)
      BY <1>1, <1>2, <2>3, WithVerdict
    <3>2. verdicts'[r] = verdicts[r] \o <<d>> /\ new[1] = d
      BY <1>3, <2>3
    <3>3. QED
      BY <1>1, <1>3, <2>3, <3>1, <3>2
  <2>4. \/ new = <<>> /\ Objection(o[stage[r]]) = ALLOW
        \/ \E d \in DecisionType, sig \in Signals :
                /\ new = <<d>> /\ d.signals = <<sig>>
                /\ d.disposition = Objection(o[stage[r]])
                /\ sig.disposition = Objection(o[stage[r]])
                /\ sig.rule = o[stage[r]].rule
    BY <2>1, StageVerdictsAre DEF new
  <2>5. QED
    BY <2>2, <2>3, <2>4
<1>6. /\ stage'[r] - 1 = n + 1 /\ pc'[r] \in {"stages", "combine"}
      /\ pc'[r] = "combine" => \E i \in 1..(n + 1) : Objection(o[i]) = STOP
  <2> HIDE DEF new
  <2>1. stage'[r] - 1 = n + 1 /\ n + 1 \in 1..(n + 1)
    BY <1>1, <1>3
  <2>2. QED
    BY <1>3, <1>5, <2>1
<1> HIDE DEF n, new
<1>7. QED
  BY <1>3, <1>4, <1>5, <1>6 DEF EvaluationOf, o

\* The decision judges as all stages do, those that did not run included.
LEMMA ConcludeJudges ==
    ASSUME TypeInv, RequestInv, NEW r \in Requests, Conclude(r)
    PROVE  EnforceOf(r)'
<1> DEFINE n == stage[r] - 1
           o == outcome[r]
           N == Len(Stages)
           c == Combine(verdicts[r])
           d == [c EXCEPT !.version = Versions[snap[r]]]
<1>1. /\ n \in 0..N /\ N \in Nat /\ EvaluationOf(r) /\ verdicts[r] \in Seq(DecisionType)
      /\ pc[r] \in {"stages", "combine"}
      /\ n = N \/ pc[r] = "combine"
  BY RequestFacts DEF Conclude
<1>2. verdicts[r] # <<>> /\ snap[r] \in Snapshots /\ snap[r] # NoSnapshot
  BY <1>1 DEF TypeInv, TypeOK, LabelInv
<1>3. /\ Shows(verdicts[r], o, n) /\ Traces(SignalsOf(verdicts[r]), o, n)
      /\ n = N \/ \E i \in 1..n : Objection(o[i]) = STOP
  BY <1>1 DEF EvaluationOf
<1>4. /\ \A i \in 1..N : Objection(o[i]) \in Dispositions
      /\ \A i \in 1..n : i \in 1..N
  BY <1>1, ObjectionsType DEF StageNumbers
<1>5. decision'[r] = d /\ pc'[r] = "enforce" /\ snap' = snap /\ outcome' = outcome
  BY RequestFacts DEF Conclude, Decide, Goto, contentVars
<1> HIDE DEF n, N, o, c, d
<1>6. c \in DecisionType /\ Judges(c, o, n)
  <2>1. n \in Nat /\ \A i \in 1..n : Objection(o[i]) \in Dispositions
    BY <1>1, <1>4
  <2>2. QED
    BY <1>1, <1>2, <1>3, <2>1, CombineJudges DEF c
<1>7. Judges(c, o, N)
  <2>1. c.disposition \in Dispositions
    BY <1>6 DEF DecisionType
  <2>2. QED
    BY <1>1, <1>3, <1>4, <1>6, <2>1, StopJudges
<1>8. /\ d.disposition = c.disposition /\ d.signals = c.signals
      /\ d.version = Versions[snap[r]]
  BY <1>2, <1>6, VersionType, StampedType DEF d
<1>9. Judges(d, o, N)
  BY <1>7, <1>8, SameJudgement
<1>10. QED
  BY <1>2, <1>5, <1>8, <1>9 DEF EnforceOf, o, N

\* A request that is refused for its prompt cites a stage that stops it.
LEMMA JudgedRule ==
    ASSUME TypeInv, NEW r \in Requests, NEW d,
           Judges(d, outcome[r], Len(Stages)), d.disposition = STOP
    PROVE  DecisiveRule(d) \in StoppingRules(r)
<1>1. PICK i \in StageNumbers : /\ Objection(outcome[r][i]) = STOP
                                /\ DecisiveRule(d) = outcome[r][i].rule
  <2>1. STOP # ALLOW
    BY DEF STOP, ALLOW
  <2>2. QED
    BY <2>1 DEF Judges, StageNumbers
<1>2. QED
  BY <1>1 DEF StoppingRules

\* A request that is allowed has no stage that objects to it.
LEMMA JudgedAllow ==
    ASSUME TypeInv, NEW r \in Requests, NEW d,
           Judges(d, outcome[r], Len(Stages)), d.disposition = ALLOW
    PROVE  \A i \in StageNumbers : Objection(outcome[r][i]) = ALLOW
<1>1. \A i \in StageNumbers : /\ Objection(outcome[r][i]) \in Dispositions
                              /\ Objection(outcome[r][i]) <= ALLOW
  BY ObjectionsType DEF Judges, StageNumbers
<1>2. QED
  BY <1>1 DEF Dispositions, ALLOW, ESCALATE, STOP

\* Allow gives an answer that was screened, or a refusal with a rule of the scan.
LEMMA AllowKeeps ==
    ASSUME TypeInv, RequestInv, NEW r \in Requests, Allow(r)
    PROVE  EvaluationOf(r)' /\ EnforceOf(r)' /\ ScreenedOf(r)' /\ DecidedOf(r)'
<1>1. /\ EvaluationOf(r) /\ EnforceOf(r) /\ pc[r] = "enforce"
      /\ decision[r] \in DecisionType /\ decision[r].disposition = ALLOW
  BY RequestFacts DEF Allow
<1>2. pc'[r] = "record" /\ snap' = snap /\ outcome' = outcome /\ user' = user
      /\ answer' = answer /\ failed' = failed
  BY RequestFacts DEF Allow, Goto, contentVars
<1>3. user[r] \in KnownUsers /\ r \notin failed
  BY <1>1 DEF EvaluationOf
<1>4. snap[r] # NoSnapshot
  BY <1>1 DEF EnforceOf, Decision, ALLOW, ESCALATE
<1>5. Judges(decision[r], outcome[r], Len(Stages)) /\ decision[r].version = Versions[snap[r]]
  BY <1>1, <1>4 DEF EnforceOf
<1>6. \A i \in StageNumbers : Objection(outcome[r][i]) = ALLOW
  BY <1>1, <1>5, JudgedAllow
<1>7. EvaluationOf(r)' /\ EnforceOf(r)'
  BY <1>2 DEF EvaluationOf, EnforceOf
<1>8. CASE Passes(answer[r])
  <2>1. decision' = decision /\ response'[r] = Response("ALLOW", NoPolicy, TRUE)
    BY <1>8, RequestFacts DEF Allow, Tell
  <2>2. ScreenedOf(r)'
    BY <1>2, <1>3, <1>6, <1>8 DEF ScreenedOf
  <2>3. DecidedOf(r)'
    BY <1>1, <1>2, <1>3, <1>4, <1>5, <2>1
    DEF DecidedOf, Response, NameOf, ALLOW, ESCALATE, STOP
  <2>4. QED
    BY <1>7, <2>2, <2>3
<1>9. CASE ~ Passes(answer[r])
  <2> DEFINE e == EgressDecision(answer[r], decision[r].version)
             told == Response("STOP", Cited(StaticPolicy, DecisiveRule(e)), FALSE)
  <2>1. decision'[r] = e /\ response'[r] = told
    BY <1>9, RequestFacts DEF Allow, Tell, Decide
  <2>2. /\ e.disposition = STOP /\ e.version = decision[r].version
        /\ DecisiveRule(e) \in Range(Findings(answer[r]))
    BY <1>1, <1>9, EgressIs DEF DecisionType
  <2>3. /\ told.decision = "STOP" /\ told.answered = FALSE
        /\ told.policy = Cited(StaticPolicy, DecisiveRule(e))
    BY DEF Response
  <2> HIDE DEF e, told
  <2>4. DecisiveRule(e) \in StoppingRules(r)
    BY <1>6, <2>2 DEF StoppingRules, ALLOW, STOP
  <2>5. StoppingRules(r)' = StoppingRules(r)
    BY <1>2 DEF StoppingRules
  <2>6. ScreenedOf(r)'
    BY <2>1, <2>3 DEF ScreenedOf
  <2>7. NameOf(STOP) = "STOP"
    BY DEF NameOf, ALLOW, ESCALATE, STOP
  <2>8. DecidedOf(r)'
    BY <1>2, <1>3, <1>4, <1>5, <2>1, <2>2, <2>3, <2>4, <2>5, <2>7 DEF DecidedOf
  <2>9. QED
    BY <1>7, <2>6, <2>8
<1>10. QED
  BY <1>8, <1>9

LEMMA RefuseKeeps ==
    ASSUME TypeInv, RequestInv, NEW r \in Requests, Refuse(r)
    PROVE  EvaluationOf(r)' /\ EnforceOf(r)' /\ ScreenedOf(r)' /\ DecidedOf(r)'
<1> DEFINE told == Response("STOP", Cited(StaticPolicy, DecisiveRule(decision[r])), FALSE)
<1>1. /\ EvaluationOf(r) /\ EnforceOf(r) /\ pc[r] = "enforce"
      /\ decision[r].disposition = STOP
  BY RequestFacts DEF Refuse
<1>2. /\ pc'[r] = "record" /\ snap' = snap /\ outcome' = outcome /\ user' = user
      /\ answer' = answer /\ failed' = failed /\ decision' = decision
      /\ response'[r] = told
  BY RequestFacts DEF Refuse, Goto, Tell, contentVars
<1>3. /\ told.decision = "STOP" /\ told.answered = FALSE
      /\ told.policy = Cited(StaticPolicy, DecisiveRule(decision[r]))
  BY DEF Response
<1> HIDE DEF told
<1>4. r \notin failed /\ snap[r] # NoSnapshot
  BY <1>1 DEF EvaluationOf, EnforceOf, Decision, STOP, ESCALATE
<1>5. Judges(decision[r], outcome[r], Len(Stages)) /\ decision[r].version = Versions[snap[r]]
  BY <1>1, <1>4 DEF EnforceOf
<1>6. DecisiveRule(decision[r]) \in StoppingRules(r)
  BY <1>1, <1>5, JudgedRule
<1>7. StoppingRules(r)' = StoppingRules(r) /\ NameOf(STOP) = "STOP"
  BY <1>2 DEF StoppingRules, NameOf, ALLOW, ESCALATE, STOP
<1>8. EvaluationOf(r)' /\ EnforceOf(r)' /\ ScreenedOf(r)'
  BY <1>2, <1>3 DEF EvaluationOf, EnforceOf, ScreenedOf
<1>9. DecidedOf(r)'
  BY <1>1, <1>2, <1>3, <1>4, <1>5, <1>6, <1>7 DEF DecidedOf
<1>10. QED
  BY <1>8, <1>9

LEMMA EscalateKeeps ==
    ASSUME TypeInv, RequestInv, NEW r \in Requests, Escalate(r)
    PROVE  EvaluationOf(r)' /\ EnforceOf(r)' /\ ScreenedOf(r)' /\ DecidedOf(r)'
<1> DEFINE told == Response("ESCALATE", NoPolicy, FALSE)
<1>1. /\ EvaluationOf(r) /\ EnforceOf(r) /\ pc[r] = "enforce"
      /\ decision[r].disposition = ESCALATE
  BY RequestFacts DEF Escalate
<1>2. /\ pc'[r] = "record" /\ snap' = snap /\ outcome' = outcome /\ user' = user
      /\ answer' = answer /\ failed' = failed /\ decision' = decision
      /\ response'[r] = told
  BY RequestFacts DEF Escalate, Goto, Tell, contentVars
<1>3. told.decision = "ESCALATE" /\ told.answered = FALSE
  BY DEF Response
<1> HIDE DEF told
<1>4. /\ r \notin failed
      /\ decision[r].version = IF snap[r] = NoSnapshot THEN Unstamped ELSE Versions[snap[r]]
  BY <1>1 DEF EvaluationOf, EnforceOf, Decision
<1>5. NameOf(ESCALATE) = "ESCALATE" /\ ESCALATE # STOP
  BY DEF NameOf, ALLOW, ESCALATE, STOP
<1>6. EvaluationOf(r)' /\ EnforceOf(r)' /\ ScreenedOf(r)'
  BY <1>2, <1>3 DEF EvaluationOf, EnforceOf, ScreenedOf
<1>7. DecidedOf(r)'
  BY <1>1, <1>2, <1>3, <1>4, <1>5 DEF DecidedOf
<1>8. QED
  BY <1>6, <1>7

\* The other steps of a request.
LEMMA OthersStepsKeep ==
    ASSUME TypeInv, RequestInv, NEW r \in Requests,
           \/ RefuseStranger(r) \/ HoldUnaudited(r) \/ PassGate(r) \/ OuterGuard(r)
           \/ Record(r) \/ RecordRaises(r) \/ Count(r)
    PROVE  EvaluationOf(r)' /\ EnforceOf(r)' /\ ScreenedOf(r)' /\ DecidedOf(r)'
<1> USE RequestFacts
<1>1. StoppingRules(r)' = StoppingRules(r) /\ user' = user /\ outcome' = outcome
      /\ answer' = answer
  BY DEF StoppingRules, contentVars, RefuseStranger, HoldUnaudited, PassGate, OuterGuard,
     Record, RecordRaises, Count
<1>2. ESCALATE # STOP /\ NameOf(STOP) = "STOP" /\ NameOf(ESCALATE) = "ESCALATE"
  BY DEF NameOf, ALLOW, ESCALATE, STOP
<1>3. CASE RefuseStranger(r)
  <2>1. /\ pc[r] = "arrived" /\ user[r] \notin KnownUsers /\ snap[r] = NoSnapshot
        /\ decision'[r] = Decision(STOP, <<>>)
        /\ response'[r] = Response("STOP", NoPolicy, FALSE)
        /\ pc'[r] = "record" /\ snap' = snap
    BY <1>3, UsersAssumption DEF RefuseStranger, EvaluationOf, Decide, Tell, Goto
  <2>2. EvaluationOf(r)' /\ EnforceOf(r)' /\ ScreenedOf(r)'
    BY <1>1, <2>1 DEF EvaluationOf, EnforceOf, ScreenedOf, Response
  <2>3. DecidedOf(r)'
    BY <1>1, <1>2, <2>1 DEF DecidedOf, Decision, Response
  <2>4. QED
    BY <2>2, <2>3
<1>4. CASE HoldUnaudited(r)
  <2>1. /\ pc[r] = "arrived" /\ user[r] \in KnownUsers /\ snap[r] = NoSnapshot
        /\ decision'[r] = Decision(ESCALATE, <<>>) /\ response' = response
        /\ pc'[r] = "enforce" /\ snap' = snap /\ failed' = failed /\ r \notin failed
    BY <1>4 DEF HoldUnaudited, EvaluationOf, Decide, Goto
  <2>2. QED
    BY <1>1, <2>1 DEF EvaluationOf, EnforceOf, ScreenedOf, DecidedOf
<1>5. CASE PassGate(r)
  <2>1. /\ pc[r] = "arrived" /\ user[r] \in KnownUsers /\ snap[r] = NoSnapshot
        /\ stage[r] = 1 /\ stage' = stage /\ response' = response
        /\ pc'[r] = "evaluate" /\ snap' = snap /\ failed' = failed /\ r \notin failed
    BY <1>5 DEF PassGate, EvaluationOf, Goto
  <2>2. QED
    BY <1>1, <2>1 DEF EvaluationOf, EnforceOf, ScreenedOf, DecidedOf
<1>6. CASE OuterGuard(r)
  <2>1. /\ decision'[r] = Decision(ESCALATE, <<>>)
        /\ response'[r] = Response("ESCALATE", NoPolicy, FALSE)
        /\ pc'[r] = "record" /\ snap' = snap /\ r \in failed'
    BY <1>6 DEF OuterGuard, Decide, Tell, Goto
  <2>2. EvaluationOf(r)' /\ EnforceOf(r)' /\ ScreenedOf(r)'
    BY <1>1, <2>1 DEF EvaluationOf, EnforceOf, ScreenedOf, Response
  <2>3. DecidedOf(r)'
    BY <1>1, <1>2, <2>1 DEF DecidedOf, Decision, Response
  <2>4. QED
    BY <2>2, <2>3
<1>7. CASE Record(r) \/ RecordRaises(r) \/ Count(r)
  <2>1. /\ pc[r] \in {"record", "count"} /\ pc'[r] \in {"count", "done", "crashed"}
        /\ snap' = snap /\ failed' = failed /\ decision' = decision /\ response' = response
    BY <1>7 DEF Record, RecordRaises, Count, Goto
  <2>2. EvaluationOf(r)' /\ EnforceOf(r)' /\ ScreenedOf(r)'
    BY <1>1, <2>1 DEF EvaluationOf, EnforceOf, ScreenedOf
  <2>3. DecidedOf(r)'
    BY <1>1, <2>1 DEF DecidedOf
  <2>4. QED
    BY <2>2, <2>3
<1>8. QED
  BY <1>3, <1>4, <1>5, <1>6, <1>7

\* The baseline verdict shows no objection.
LEMMA ReadSnapshotKeeps ==
    ASSUME TypeInv, RequestInv, NEW r \in Requests, ReadSnapshot(r)
    PROVE  EvaluationOf(r)'
<1> DEFINE d == Decision(ALLOW, <<>>)
           none == [i \in 1..0 |-> <<>>[i].signals]
<1>1. /\ EvaluationOf(r) /\ pc[r] = "evaluate" /\ pc'[r] = "stages"
      /\ stage' = stage /\ verdicts'[r] = <<d>> /\ user' = user /\ failed' = failed
  BY RequestFacts DEF ReadSnapshot, Goto, contentVars
<1>2. stage[r] = 1 /\ user[r] \in KnownUsers /\ r \notin failed
  BY <1>1 DEF EvaluationOf
<1>3. d \in DecisionType /\ d.signals = <<>> /\ d.disposition = ALLOW
  <2>1. ALLOW \in Dispositions
    BY DEF Dispositions
  <2>2. QED
    BY <2>1, HoldType DEF Decision
<1> HIDE DEF d
<1>4. SignalsOf(<<d>>) = <<>>
  <2>1. <<>> \in Seq(DecisionType) /\ <<>> \o <<d>> = <<d>>
    BY <1>3
  <2>2. SignalsOf(<<>> \o <<d>>) = SignalsOf(<<>>) \o d.signals
    BY <1>3, <2>1, SignalsAppend
  <2>3. SignalsOf(<<>>) = <<>>
    <3>1. Len(<<>>) = 0 /\ SignalsOf(<<>>) = FlattenSeq([i \in 1..Len(<<>>) |-> <<>>[i].signals])
      BY DEF SignalsOf
    <3>2. SignalsOf(<<>>) = FlattenSeq(none)
      BY <3>1
    <3>3. none \in Seq({}) /\ Len(none) = 0
      <4>1. none \in [1..0 -> {}]
        OBVIOUS
      <4> HIDE DEF none
      <4>2. QED
        BY <4>1, FunctionIsSeq
    <3>4. none = <<>>
      BY <3>3, EmptySeq
    <3>5. FlattenSeq(<<>>) = <<>>
      BY EmptySeq DEF FlattenSeq
    <3>6. QED
      BY <3>2, <3>4, <3>5
  <2>4. QED
    BY <1>3, <2>1, <2>2, <2>3
<1>5. Shows(<<d>>, outcome'[r], 0)
  BY <1>3 DEF Shows
<1>6. Traces(<<>>, outcome'[r], 0)
  <2> DEFINE at == [i \in 1..0 |-> 0]
             s == <<>>
  <2>1. Len(s) = 0 /\ \A i \in 1..0 : FALSE
    OBVIOUS
  <2>2. at \in [1..Len(s) -> 1..0]
    BY <2>1
  <2> HIDE DEF at, s
  <2>3. /\ \A k, m \in 1..Len(s) : k < m => at[k] < at[m]
        /\ \A k \in 1..Len(s) : /\ s[k].disposition = Objection(outcome'[r][at[k]])
                                /\ s[k].rule = outcome'[r][at[k]].rule
        /\ \A i \in 1..0 : Objection(outcome'[r][i]) # ALLOW => \E k \in 1..Len(s) : at[k] = i
    BY <2>1
  <2>4. Traces(s, outcome'[r], 0)
    BY <2>2, <2>3, Zenon DEF Traces
  <2>5. QED
    BY <2>4 DEF s
<1>7. QED
  BY <1>1, <1>2, <1>4, <1>5, <1>6 DEF EvaluationOf

LEMMA HandlerKeeps ==
    ASSUME TypeInv, RequestInv, NEW r \in Requests, HandleRequest(r)
    PROVE  EvaluationOf(r)' /\ EnforceOf(r)' /\ ScreenedOf(r)' /\ DecidedOf(r)'
<1>1. EvaluationOf(r) /\ ScreenedOf(r)
  BY RequestFacts
<1>2. CASE ReadSnapshot(r)
  <2>1. /\ pc'[r] = "stages" /\ response' = response /\ user' = user /\ outcome' = outcome
        /\ answer' = answer
    BY <1>2, RequestFacts DEF ReadSnapshot, Goto, contentVars
  <2>2. EnforceOf(r)' /\ ScreenedOf(r)' /\ DecidedOf(r)'
    BY <1>1, <2>1 DEF EnforceOf, ScreenedOf, DecidedOf
  <2>3. QED
    BY <1>2, <2>2, ReadSnapshotKeeps
<1>3. CASE RunStage(r)
  <2>1. /\ pc'[r] \in {"stages", "combine"} /\ response' = response /\ user' = user
        /\ outcome' = outcome /\ answer' = answer
    BY <1>3, RequestFacts DEF RunStage, Goto, contentVars
  <2>2. EnforceOf(r)' /\ ScreenedOf(r)' /\ DecidedOf(r)'
    BY <1>1, <2>1 DEF EnforceOf, ScreenedOf, DecidedOf
  <2>3. QED
    BY <1>3, <2>2, RunStageKeeps
<1>4. CASE Conclude(r)
  <2>1. /\ pc[r] \in {"stages", "combine"} /\ pc'[r] = "enforce" /\ response' = response
        /\ user' = user /\ outcome' = outcome /\ answer' = answer /\ failed' = failed
    BY <1>4, RequestFacts DEF Conclude, Goto, contentVars
  <2>2. EvaluationOf(r)' /\ ScreenedOf(r)' /\ DecidedOf(r)'
    BY <1>1, <2>1 DEF EvaluationOf, ScreenedOf, DecidedOf
  <2>3. QED
    BY <1>4, <2>2, ConcludeJudges
<1>5. QED
  BY <1>2, <1>3, <1>4, AllowKeeps, RefuseKeeps, EscalateKeeps, OthersStepsKeep
  DEF HandleRequest

LEMMA InitRequests == Init => RequestInv
<1>1. SUFFICES ASSUME Init, NEW r \in Requests
               PROVE  EvaluationOf(r) /\ EnforceOf(r) /\ ScreenedOf(r) /\ DecidedOf(r)
  BY DEF RequestInv
<1>2. /\ pc[r] = "arrived" /\ snap[r] = NoSnapshot /\ stage[r] = 1 /\ failed = {}
      /\ response[r] = NoResponse
  BY <1>1 DEF Init
<1>3. QED
  BY <1>2 DEF EvaluationOf, EnforceOf, ScreenedOf, DecidedOf, NoResponse, Response

LEMMA StepRequests == TypeInv /\ RequestInv /\ [Next]_vars => RequestInv'
<1>1. SUFFICES ASSUME TypeInv, RequestInv, [Next]_vars, NEW q \in Requests
               PROVE  EvaluationOf(q)' /\ EnforceOf(q)' /\ ScreenedOf(q)' /\ DecidedOf(q)'
  BY DEF RequestInv
<1>2. EvaluationOf(q) /\ EnforceOf(q) /\ ScreenedOf(q) /\ DecidedOf(q)
  BY <1>1 DEF RequestInv
<1>3. user' = user /\ outcome' = outcome /\ answer' = answer
  BY <1>1, ContentKept
<1>4. ASSUME NEW r \in Requests, HandleRequest(r)
      PROVE  EvaluationOf(q)' /\ EnforceOf(q)' /\ ScreenedOf(q)' /\ DecidedOf(q)'
  <2>1. CASE q = r
    BY <1>1, <1>4, <2>1, HandlerKeeps
  <2>2. CASE q # r
    BY <1>1, <1>2, <1>3, <1>4, <2>2, OthersKeep, RequestKeeps
  <2>3. QED
    BY <2>1, <2>2
<1>5. CASE Reload \/ HealthFlips \/ Finished \/ UNCHANGED vars
  <2>1. /\ pc' = pc /\ snap' = snap /\ stage' = stage /\ verdicts' = verdicts
        /\ decision' = decision /\ response' = response /\ failed' = failed
    BY <1>5 DEF Reload, HealthFlips, Finished, vars, requestVars
  <2>2. QED
    BY <1>2, <1>3, <2>1, RequestKeeps
<1>6. QED
  BY <1>1, <1>4, <1>5 DEF Next

LEMMA RequestInvariant == Spec => []RequestInv
<1>1. TypeInv /\ RequestInv /\ [Next]_vars => RequestInv'
  BY StepRequests
<1>2. QED
  BY <1>1, InitRequests, TypeInvariant, PTL DEF Spec

\* An answer reaches the user only if the user is known, no stage objects to
\* the prompt and the scan of the answer found nothing: handle_request gives an
\* answer in enforcement.apply alone, after _evaluate has combined the verdicts
\* of every stage, whatever reloads, failures and other requests come between.
THEOREM AnswerIsScreenedHolds == Spec => []AnswerIsScreened
<1>1. RequestInv => AnswerIsScreened
  BY DEF RequestInv, ScreenedOf, AnswerIsScreened
<1>2. QED
  BY <1>1, RequestInvariant, PTL

\* The decision of _evaluate has the strictest disposition of all stages, and
\* cites the first stage that has it, although the loop ends at the first STOP
\* and combine() looks at the verdicts only.
THEOREM StrictestWinsHolds == Spec => []StrictestWins
<1>1. ASSUME TypeInv, RequestInv PROVE StrictestWins
  <2>1. SUFFICES ASSUME NEW r \in Requests, pc[r] = "enforce", snap[r] # NoSnapshot
                 PROVE  LET objections == [i \in StageNumbers |-> Objection(outcome[r][i])]
                            strictest == CHOOSE d \in Dispositions :
                                            /\ d \in Range(objections) \cup {ALLOW}
                                            /\ \A i \in StageNumbers : objections[i] <= d
                        IN  /\ decision[r].disposition = strictest
                            /\ strictest # ALLOW =>
                                \E i \in StageNumbers :
                                    /\ objections[i] = strictest
                                    /\ \A j \in 1..(i - 1) : objections[j] < strictest
                                    /\ DecisiveRule(decision[r]) = outcome[r][i].rule
    BY DEF StrictestWins
  <2> DEFINE objections == [i \in StageNumbers |-> Objection(outcome[r][i])]
             Top(d) == /\ d \in Range(objections) \cup {ALLOW}
                       /\ \A i \in StageNumbers : objections[i] <= d
             strictest == CHOOSE d \in Dispositions : Top(d)
             mine == decision[r].disposition
  <2>2. Judges(decision[r], outcome[r], Len(Stages)) /\ mine \in Dispositions
    BY <1>1, <2>1 DEF RequestInv, EnforceOf, TypeInv, TypeOK, DecisionType
  <2>3. /\ \A i \in StageNumbers : objections[i] = Objection(outcome[r][i])
        /\ Range(objections) = {Objection(outcome[r][i]) : i \in StageNumbers}
    BY DEF Range
  <2>4. \A i \in StageNumbers : \A j \in 1..(i - 1) : j \in StageNumbers
    BY BoundsType DEF StageNumbers
  <2>5. Top(mine)
    BY <2>2, <2>3 DEF Judges, StageNumbers
  <2>6. \A d \in Dispositions : d \in {0, 1, 2}
    BY DEF Dispositions, ALLOW, ESCALATE, STOP
  <2>7. ASSUME NEW d \in Dispositions, NEW e \in Dispositions, Top(d), Top(e) PROVE d <= e
    <3>1. CASE d = ALLOW
      BY <2>6, <3>1 DEF ALLOW
    <3>2. CASE \E i \in StageNumbers : d = objections[i]
      BY <2>7, <3>2
    <3>3. QED
      BY <2>3, <2>7, <3>1, <3>2
  <2> HIDE DEF Top
  <2>8. strictest \in Dispositions /\ Top(strictest)
    BY <2>2, <2>5
  <2>9. mine = strictest
    <3>1. mine <= strictest /\ strictest <= mine
      BY <2>2, <2>5, <2>7, <2>8
    <3>2. QED
      BY <2>2, <2>6, <2>8, <3>1
  <2>10. ASSUME strictest # ALLOW
         PROVE  \E i \in StageNumbers :
                    /\ objections[i] = strictest
                    /\ \A j \in 1..(i - 1) : objections[j] < strictest
                    /\ DecisiveRule(decision[r]) = outcome[r][i].rule
    <3> HIDE DEF strictest
    <3>1. PICK i \in StageNumbers :
            /\ Objection(outcome[r][i]) = mine
            /\ \A j \in 1..(i - 1) : Objection(outcome[r][j]) < mine
            /\ DecisiveRule(decision[r]) = outcome[r][i].rule
      BY <2>2, <2>9, <2>10 DEF Judges, StageNumbers
    <3> HIDE DEF objections
    <3>2. QED
      BY <2>3, <2>4, <2>9, <3>1
  <2>11. QED
    BY <2>9, <2>10 DEF Top
<1>2. QED
  BY <1>1, RequestInvariant, TypeInvariant, PTL

-----------------------------------------------------------------------------
(* The trail and the counters.                                              *)

\* The trail grows by Record, the counters by Count, and a request that was
\* recorded keeps its decision.
LEMMA RecordedKeep ==
    ASSUME TypeInv, NEW r \in Requests, HandleRequest(r)
    PROVE  /\ Record(r) \/ trail' = trail
           /\ Count(r) \/ counted' = counted
           /\ pc[r] = "count" => Count(r)
           /\ pc[r] # "done"
           /\ pc'[r] = "count" => Record(r)
           /\ pc'[r] = "done" => Count(r)
<1> USE DEF TypeInv, TypeOK, Goto, sharedVars
<1>1. CASE RefuseStranger(r) \/ HoldUnaudited(r) \/ PassGate(r) \/ ReadSnapshot(r)
  BY <1>1 DEF RefuseStranger, HoldUnaudited, PassGate, ReadSnapshot
<1>2. CASE RunStage(r) \/ Conclude(r)
  BY <1>2 DEF RunStage, Conclude
<1>3. CASE Allow(r) \/ Refuse(r) \/ Escalate(r) \/ OuterGuard(r)
  BY <1>3 DEF Allow, Refuse, Escalate, OuterGuard
<1>4. CASE Record(r) \/ RecordRaises(r) \/ Count(r)
  BY <1>4 DEF Record, RecordRaises, Count
<1>5. QED
  BY <1>1, <1>2, <1>3, <1>4 DEF HandleRequest

\* A record tells the decision of its request.
TellsDecision(e) ==
    /\ pc[e.request] \in {"count", "done"}
    /\ e.decision = NameOf(decision[e.request].disposition)
    /\ e.rule = DecisiveRule(decision[e.request])
    /\ e.version = IF decision[e.request].version = Unstamped
                     THEN DefaultVersion ELSE decision[e.request].version
    /\ e.policy = Cited(CatalogPolicy, DecisiveRule(decision[e.request]))

\* The trail has one record of each request that passed the sink.
TrailInv ==
    /\ \A i \in 1..Len(trail) : TellsDecision(trail[i])
    /\ \A r \in Requests :
          pc[r] \in {"count", "done"} => \E i \in 1..Len(trail) : trail[i].request = r
    /\ \A i, j \in 1..Len(trail) : trail[i].request = trail[j].request => i = j

LEMMA TrailType ==
    ASSUME TypeInv
    PROVE  /\ Len(trail) \in Nat /\ Len(counted) \in Nat
           /\ \A i \in 1..Len(trail) : trail[i].request \in Requests
<1>1. trail \in Seq(RecordType) /\ counted \in Seq(CountType)
  BY DEF TypeInv, TypeOK
<1>2. \A i \in 1..Len(trail) : trail[i] \in RecordType
  BY <1>1, ElementOfSeq
<1>3. QED
  BY <1>1, <1>2, LenProperties DEF RecordType

\* A step that does not record keeps the trail's invariant.
LEMMA TrailKeeps ==
    ASSUME TypeInv, TrailInv, trail' = trail,
           \A q \in Requests : /\ pc[q] \in {"count", "done"} <=> pc'[q] \in {"count", "done"}
                               /\ pc[q] \in {"count", "done"} => decision'[q] = decision[q]
    PROVE  TrailInv'
<1>1. ASSUME NEW i \in 1..Len(trail) PROVE TellsDecision(trail[i])'
  <2>1. trail[i].request \in Requests /\ TellsDecision(trail[i])
    BY TrailType DEF TrailInv
  <2>2. QED
    BY <2>1 DEF TellsDecision
<1>2. QED
  BY <1>1 DEF TrailInv

\* Record appends the record of a request that had none.
LEMMA RecordKeepsTrail ==
    ASSUME TypeInv, TrailInv, NEW r \in Requests, Record(r)
    PROVE  /\ TrailInv'
           /\ Len(trail') = Len(trail) + 1 /\ trail'[Len(trail) + 1].request = r
           /\ \A i \in 1..Len(trail) : trail'[i] = trail[i] /\ trail[i].request # r
<1> DEFINE new == AuditRecord(r)
           n == Len(trail)
<1>1. /\ pc[r] = "record" /\ pc' = [pc EXCEPT ![r] = "count"] /\ decision' = decision
      /\ trail' = Append(trail, new) /\ r \in DOMAIN pc
  BY DEF Record, Goto, TypeInv, TypeOK
<1>2. trail \in Seq(RecordType) /\ new \in RecordType
  BY RecordIs DEF TypeInv, TypeOK
<1>3. /\ new.request = r /\ new.decision = NameOf(decision[r].disposition)
      /\ new.rule = DecisiveRule(decision[r])
      /\ new.version = IF decision[r].version = Unstamped
                         THEN DefaultVersion ELSE decision[r].version
      /\ new.policy = Cited(CatalogPolicy, DecisiveRule(decision[r]))
  BY DEF AuditRecord
<1> HIDE DEF new
<1>4. /\ n \in Nat /\ Len(trail') = n + 1 /\ trail'[n + 1] = new
      /\ \A i \in 1..n : trail'[i] = trail[i]
  BY <1>1, <1>2, AppendProperties, LenProperties
<1> HIDE DEF n
<1>5. \A i \in 1..n : /\ trail[i].request \in Requests /\ trail[i].request # r
                      /\ TellsDecision(trail[i])
  BY <1>1, TrailType DEF TrailInv, TellsDecision, n
<1>6. \A q \in Requests : q # r => pc'[q] = pc[q]
  BY <1>1 DEF TypeInv, TypeOK
<1>7. pc'[r] = "count"
  BY <1>1
<1>8. \A i \in 1..(n + 1) : i \in 1..n \/ i = n + 1
  BY <1>4
<1>9. \A i \in 1..(n + 1) : TellsDecision(trail[i])'
  <2>1. ASSUME NEW i \in 1..n PROVE TellsDecision(trail[i])'
    BY <1>1, <1>4, <1>5, <1>6 DEF TellsDecision
  <2>2. ASSUME NEW i \in {n + 1} PROVE TellsDecision(trail[i])'
    <3>1. trail'[i] = new
      BY <1>4
    <3>2. QED
      BY <1>1, <1>3, <1>7, <3>1 DEF TellsDecision
  <2>3. \A i \in 1..(n + 1) : i \in 1..n \/ i \in {n + 1}
    BY <1>8
  <2>4. QED
    BY <2>1, <2>2, <2>3
<1>10. ASSUME NEW q \in Requests, pc'[q] \in {"count", "done"}
       PROVE  \E i \in 1..(n + 1) : trail'[i].request = q
  <2>1. CASE q = r
    BY <1>3, <1>4, <2>1
  <2>2. CASE q # r
    <3>1. PICK i \in 1..n : trail[i].request = q
      BY <1>6, <1>10, <2>2 DEF TrailInv, n
    <3>2. i \in 1..(n + 1) /\ trail'[i].request = q
      BY <1>4, <3>1
    <3>3. QED
      BY <3>2
  <2>3. QED
    BY <2>1, <2>2
<1>11. \A i, j \in 1..(n + 1) : trail'[i].request = trail'[j].request => i = j
  <2>1. \A i, j \in 1..n : trail[i].request = trail[j].request => i = j
    BY DEF TrailInv, n
  <2>2. QED
    BY <1>3, <1>4, <1>5, <1>8, <2>1
<1>12. TrailInv'
  BY <1>4, <1>9, <1>10, <1>11 DEF TrailInv
<1>13. QED
  BY <1>3, <1>4, <1>5, <1>12 DEF n

LEMMA StepTrail == TypeInv /\ TrailInv /\ [Next]_vars => TrailInv'
<1>1. SUFFICES ASSUME TypeInv, TrailInv, [Next]_vars PROVE TrailInv'
  OBVIOUS
<1>2. ASSUME NEW r \in Requests, HandleRequest(r) PROVE TrailInv'
  <2>1. CASE Record(r)
    BY <1>1, <2>1, RecordKeepsTrail
  <2>2. CASE ~ Record(r)
    <3>1. /\ trail' = trail /\ pc[r] # "done" /\ pc'[r] # "count"
          /\ pc[r] = "count" => Count(r)
          /\ pc'[r] = "done" => Count(r)
      BY <1>1, <1>2, <2>2, RecordedKeep
    <3>2. Count(r) => pc[r] = "count" /\ pc'[r] = "done" /\ decision' = decision
      BY <1>1 DEF Count, Goto, TypeInv, TypeOK
    <3>3. ASSUME NEW q \in Requests
          PROVE  /\ pc[q] \in {"count", "done"} <=> pc'[q] \in {"count", "done"}
                 /\ pc[q] \in {"count", "done"} => decision'[q] = decision[q]
      <4>1. CASE q = r
        BY <1>1, <1>2, <2>2, <3>2, <4>1, RecordedKeep
      <4>2. CASE q # r
        BY <1>1, <1>2, <4>2, OthersKeep
      <4>3. QED
        BY <4>1, <4>2
    <3>4. QED
      BY <1>1, <3>1, <3>3, TrailKeeps
  <2>3. QED
    BY <2>1, <2>2
<1>3. CASE Reload \/ HealthFlips \/ Finished \/ UNCHANGED vars
  <2>1. pc' = pc /\ decision' = decision /\ trail' = trail
    BY <1>3 DEF Reload, HealthFlips, Finished, vars, requestVars, sharedVars
  <2>2. QED
    BY <1>1, <2>1, TrailKeeps
<1>4. QED
  BY <1>1, <1>2, <1>3 DEF Next

LEMMA TrailInvariant == Spec => []TrailInv
<1>1. Init => TrailInv
  <2>1. SUFFICES ASSUME Init PROVE TrailInv
    OBVIOUS
  <2>2. trail = <<>> /\ Len(trail) = 0 /\ \A r \in Requests : pc[r] = "arrived"
    BY <2>1 DEF Init
  <2>3. QED
    BY <2>2 DEF TrailInv
<1>2. TypeInv /\ TrailInv /\ [Next]_vars => TrailInv'
  BY StepTrail
<1>3. QED
  BY <1>1, <1>2, TypeInvariant, PTL DEF Spec

\* A record cites the version of the snapshot that the request's stages saw,
\* and a refusal cites to the user and to the trail one rule that stopped the
\* request: _evaluate stamps the decision once, and enforcement.apply, the
\* audit sink and the counters all read the decisive rule of that decision.
THEOREM CitesWhatDecidedHolds == Spec => []CitesWhatDecided
<1>1. ASSUME TypeInv, RequestInv, TrailInv, NEW i \in 1..Len(trail)
      PROVE  LET r == trail[i].request
             IN  /\ trail[i].version = IF snap[r] = NoSnapshot \/ r \in failed
                                         THEN DefaultVersion ELSE Versions[snap[r]]
                 /\ trail[i].decision = "STOP" /\ user[r] \in KnownUsers =>
                       /\ trail[i].rule \in StoppingRules(r)
                       /\ response[r].policy = Cited(StaticPolicy, trail[i].rule)
                       /\ trail[i].policy = Cited(CatalogPolicy, trail[i].rule)
  <2> DEFINE r == trail[i].request
  <2>1. r \in Requests /\ TellsDecision(trail[i])
    BY <1>1, TrailType DEF TrailInv
  <2>2. /\ pc[r] \in {"count", "done"} /\ DecidedOf(r)
        /\ snap[r] \in Snapshots \cup {NoSnapshot}
        /\ decision[r].disposition \in Dispositions
    BY <1>1, <2>1, RequestFacts DEF TellsDecision, DecisionType
  <2>3. snap[r] # NoSnapshot => Versions[snap[r]] # Unstamped
    <3>1. snap[r] \in Snapshots => Versions[snap[r]] \in Range(Versions)
      BY VersionType
    <3>2. QED
      BY <2>2, <3>1, VersionsAssumption
  <2>4. NameOf(decision[r].disposition) = "STOP" => decision[r].disposition = STOP
    BY <2>2 DEF Dispositions, NameOf, ALLOW, ESCALATE, STOP
  <2>5. QED
    BY <2>1, <2>2, <2>3, <2>4 DEF DecidedOf, TellsDecision
<1>2. TypeInv /\ RequestInv /\ TrailInv => CitesWhatDecided
  BY <1>1 DEF CitesWhatDecided, CitesEvaluatedVersion, CitesTheRuleThatStopped
<1>3. QED
  BY <1>2, TypeInvariant, RequestInvariant, TrailInvariant, PTL

\* The keys counted and the records of finished requests, for a rule and a name.
CountedAs(rule, name) ==
    {i \in 1..Len(counted) : counted[i].rule = rule /\ counted[i].decision = name}
RecordedAs(rule, name) ==
    {i \in 1..Len(trail) : /\ trail[i].rule = rule /\ trail[i].decision = name
                           /\ pc[trail[i].request] = "done"}

LEMMA AccountsFinite ==
    ASSUME TypeInv, NEW rule, NEW name
    PROVE  IsFiniteSet(CountedAs(rule, name)) /\ IsFiniteSet(RecordedAs(rule, name))
<1>1. IsFiniteSet(1..Len(counted)) /\ IsFiniteSet(1..Len(trail))
  BY TrailType, FS_Interval
<1>2. /\ CountedAs(rule, name) \subseteq 1..Len(counted)
      /\ RecordedAs(rule, name) \subseteq 1..Len(trail)
  BY DEF CountedAs, RecordedAs
<1>3. QED
  BY <1>1, <1>2, FS_Subset

CountersInv ==
    \A rule, name : Cardinality(CountedAs(rule, name)) = Cardinality(RecordedAs(rule, name))

\* Count adds to the counters what the trail has of the request.
LEMMA CountKeepsCounters ==
    ASSUME TypeInv, RequestInv, TrailInv, CountersInv, NEW r \in Requests, Count(r)
    PROVE  CountersInv'
<1> DEFINE key == CountKey(r)
           n == Len(counted)
<1>1. /\ pc[r] = "count" /\ pc' = [pc EXCEPT ![r] = "done"] /\ trail' = trail
      /\ counted' = Append(counted, key)
  BY DEF Count, Goto
<1>2. counted \in Seq(CountType) /\ key \in CountType
  BY <1>1, CountIs DEF TypeInv, TypeOK
<1>3. /\ key.rule = DecisiveRule(decision[r])
      /\ key.decision = NameOf(decision[r].disposition)
  BY <1>1, RequestFacts DEF CountKey, DecidedOf
<1> HIDE DEF key
<1>4. /\ n \in Nat /\ Len(counted') = n + 1 /\ counted'[n + 1] = key
      /\ \A i \in 1..n : counted'[i] = counted[i]
  BY <1>1, <1>2, AppendProperties, LenProperties
<1>5. PICK p \in 1..Len(trail) : trail[p].request = r
  BY <1>1 DEF TrailInv
<1>6. trail[p].rule = key.rule /\ trail[p].decision = key.decision
  BY <1>3, <1>5 DEF TrailInv, TellsDecision
<1>7. \A i \in 1..Len(trail) : i # p => /\ trail[i].request \in Requests
                                        /\ trail[i].request # r
  BY <1>5, TrailType DEF TrailInv
<1>8. /\ pc'[r] = "done" /\ \A q \in Requests : q # r => pc'[q] = pc[q]
  BY <1>1 DEF TypeInv, TypeOK
<1>9. SUFFICES ASSUME NEW rule, NEW name
               PROVE  Cardinality(CountedAs(rule, name)') = Cardinality(RecordedAs(rule, name)')
  BY DEF CountersInv
<1> DEFINE C == CountedAs(rule, name)
           T == RecordedAs(rule, name)
<1>10. IsFiniteSet(C) /\ IsFiniteSet(T) /\ Cardinality(C) = Cardinality(T)
  BY AccountsFinite DEF CountersInv
<1>11. n + 1 \notin C /\ p \notin T
  BY <1>1, <1>4, <1>5 DEF CountedAs, RecordedAs
<1>12. CASE key.rule = rule /\ key.decision = name
  <2>1. CountedAs(rule, name)' = C \cup {n + 1}
    <3> HIDE DEF n
    <3>1. \A i \in 1..(n + 1) : i \in 1..n \/ i = n + 1
      BY <1>4
    <3>2. CountedAs(rule, name)' = {i \in 1..(n + 1) : counted'[i].rule = rule /\ counted'[i].decision = name}
      BY <1>4 DEF CountedAs
    <3>3. C = {i \in 1..n : counted[i].rule = rule /\ counted[i].decision = name}
      BY DEF CountedAs, n
    <3> HIDE DEF C
    <3>4. QED
      BY <1>4, <1>12, <3>1, <3>2, <3>3
  <2>2. RecordedAs(rule, name)' = T \cup {p}
    BY <1>1, <1>5, <1>6, <1>7, <1>8, <1>12 DEF RecordedAs
  <2> HIDE DEF C, T, n
  <2>3. QED
    BY <1>10, <1>11, <2>1, <2>2, FS_AddElement
<1>13. CASE ~ (key.rule = rule /\ key.decision = name)
  <2>1. CountedAs(rule, name)' = C
    <3> HIDE DEF n
    <3>1. \A i \in 1..(n + 1) : i \in 1..n \/ i = n + 1
      BY <1>4
    <3>2. CountedAs(rule, name)' = {i \in 1..(n + 1) : counted'[i].rule = rule /\ counted'[i].decision = name}
      BY <1>4 DEF CountedAs
    <3>3. C = {i \in 1..n : counted[i].rule = rule /\ counted[i].decision = name}
      BY DEF CountedAs, n
    <3> HIDE DEF C
    <3>4. QED
      BY <1>4, <1>13, <3>1, <3>2, <3>3
  <2>2. RecordedAs(rule, name)' = T
    BY <1>1, <1>5, <1>6, <1>7, <1>8, <1>13 DEF RecordedAs
  <2>3. QED
    BY <1>10, <2>1, <2>2
<1>14. QED
  BY <1>12, <1>13

\* The other steps change neither: a request that is recorded is not done yet.
LEMMA CountersKeep ==
    ASSUME TypeInv, TrailInv, CountersInv, counted' = counted,
           /\ \A i \in 1..Len(trail) : trail'[i] = trail[i]
           /\ Len(trail') = Len(trail)
              \/ /\ Len(trail') = Len(trail) + 1
                 /\ pc'[trail'[Len(trail) + 1].request] # "done",
           \A q \in Requests : pc[q] \in {"count", "done"} => pc'[q] = pc[q]
    PROVE  CountersInv'
<1>1. SUFFICES ASSUME NEW rule, NEW name
               PROVE  Cardinality(CountedAs(rule, name)') = Cardinality(RecordedAs(rule, name)')
  BY DEF CountersInv
<1>2. CountedAs(rule, name)' = CountedAs(rule, name)
  BY DEF CountedAs
<1>3. RecordedAs(rule, name)' = RecordedAs(rule, name)
  <2> DEFINE n == Len(trail)
  <2>1. n \in Nat /\ \A i \in 1..n : pc'[trail[i].request] = pc[trail[i].request]
    BY TrailType DEF TrailInv, TellsDecision
  <2>2. \A i \in 1..(n + 1) : i \in 1..n \/ i = n + 1
    BY <2>1
  <2>3. \A i \in 1..n : i \in 1..(n + 1)
    BY <2>1
  <2> HIDE DEF n
  <2>4. QED
    BY <2>1, <2>2, <2>3 DEF RecordedAs, n
<1>4. QED
  BY <1>2, <1>3 DEF CountersInv

LEMMA StepCounters ==
    TypeInv /\ RequestInv /\ TrailInv /\ CountersInv /\ [Next]_vars => CountersInv'
<1>1. SUFFICES ASSUME TypeInv, RequestInv, TrailInv, CountersInv, [Next]_vars
               PROVE  CountersInv'
  OBVIOUS
<1>2. ASSUME NEW r \in Requests, HandleRequest(r) PROVE CountersInv'
  <2>1. CASE Count(r)
    BY <1>1, <2>1, CountKeepsCounters
  <2>2. CASE ~ Count(r)
    <3>1. pc[r] \notin {"count", "done"} /\ counted' = counted /\ pc'[r] # "done"
      BY <1>1, <1>2, <2>2, RecordedKeep
    <3>2. \A q \in Requests : pc[q] \in {"count", "done"} => pc'[q] = pc[q]
      BY <1>1, <1>2, <3>1, OthersKeep
    <3>3. /\ \A i \in 1..Len(trail) : trail'[i] = trail[i]
          /\ Len(trail') = Len(trail)
             \/ /\ Len(trail') = Len(trail) + 1
                /\ pc'[trail'[Len(trail) + 1].request] # "done"
      BY <1>1, <1>2, <2>2, <3>1, RecordedKeep, RecordKeepsTrail
    <3>4. QED
      BY <1>1, <3>1, <3>2, <3>3, CountersKeep
  <2>3. QED
    BY <2>1, <2>2
<1>3. CASE Reload \/ HealthFlips \/ Finished \/ UNCHANGED vars
  <2>1. pc' = pc /\ counted' = counted /\ trail' = trail
    BY <1>3 DEF Reload, HealthFlips, Finished, vars, requestVars, sharedVars
  <2>2. QED
    BY <1>1, <2>1, CountersKeep
<1>4. QED
  BY <1>1, <1>2, <1>3 DEF Next

LEMMA CountersInvariant == Spec => []CountersInv
<1>1. Init => CountersInv
  <2>1. SUFFICES ASSUME Init, NEW rule, NEW name
                 PROVE  Cardinality(CountedAs(rule, name)) = Cardinality(RecordedAs(rule, name))
    BY DEF CountersInv
  <2>2. Len(trail) = 0 /\ Len(counted) = 0
    BY <2>1 DEF Init
  <2>3. CountedAs(rule, name) = {} /\ RecordedAs(rule, name) = {}
    BY <2>2 DEF CountedAs, RecordedAs
  <2>4. QED
    BY <2>3
<1>2. TypeInv /\ RequestInv /\ TrailInv /\ CountersInv /\ [Next]_vars => CountersInv'
  BY StepCounters
<1>3. QED
  BY <1>1, <1>2, TypeInvariant, RequestInvariant, TrailInvariant, PTL DEF Spec

\* A request has one audit record from the sink on and none before, the record
\* tells the decision that the response tells, and the counters show of every
\* rule and decision as many requests as the trail has finished ones: the sink
\* and the counters run after the response is made, outside the outer guard,
\* and read what it was made from.
THEOREM AccountsAgreeHolds == Spec => []AccountsAgree
<1>1. ASSUME TypeInv, RequestInv, TrailInv, NEW r \in Requests
      PROVE  /\ pc[r] \in {"count", "done"} => Cardinality(RecordsOf(r)) = 1
             /\ pc[r] \notin {"count", "done"} => RecordsOf(r) = {}
             /\ \A i \in RecordsOf(r) : trail[i].decision = response[r].decision
  <2>1. ASSUME NEW i \in RecordsOf(r)
        PROVE  pc[r] \in {"count", "done"} /\ trail[i].decision = response[r].decision
    <3>1. i \in 1..Len(trail) /\ trail[i].request = r /\ TellsDecision(trail[i])
      BY <1>1 DEF RecordsOf, TrailInv
    <3>2. QED
      BY <1>1, <3>1, RequestFacts DEF TellsDecision, DecidedOf
  <2>2. ASSUME pc[r] \in {"count", "done"} PROVE Cardinality(RecordsOf(r)) = 1
    <3>1. PICK p \in 1..Len(trail) : trail[p].request = r
      BY <1>1, <2>2 DEF TrailInv
    <3>2. RecordsOf(r) = {p}
      BY <1>1, <3>1 DEF RecordsOf, TrailInv
    <3>3. QED
      BY <3>2, FS_Singleton
  <2>3. QED
    BY <2>1, <2>2
<1>2. TypeInv /\ RequestInv /\ TrailInv => TrailTellsTheResponse
  BY <1>1 DEF TrailTellsTheResponse
<1>3. CountersInv => CountersMatchTrail
  <2>1. ASSUME CountersInv, NEW rule \in Rules, NEW name \in Names
        PROVE  Cardinality(CountedAs(rule, name)) = Cardinality(RecordedAs(rule, name))
    BY <2>1 DEF CountersInv
  <2>2. QED
    BY <2>1 DEF CountersMatchTrail, CountedAs, RecordedAs
<1>4. QED
  BY <1>2, <1>3, TypeInvariant, RequestInvariant, TrailInvariant, CountersInvariant, PTL
  DEF AccountsAgree
=============================================================================
