---------------------------- MODULE Checks_proofs -----------------------------
(***************************************************************************)
(* Machine-checked theorems about what takes what it is given and calls    *)
(* nothing else of the system, in this order: the two detectors that load  *)
(* what they share on first use (PiiScan, InjectionScan), for any number   *)
(* of threads and scans and any prompts; the percentiles of latency        *)
(* (LatencyStats); evaluate (Authorization), for any contexts, actions and *)
(* organisations; the record of a decision (AuditRecord), for any signals, *)
(* catalogs and versions; the scopes (ScopeTrie), for any paths, tenants   *)
(* and services; the detectors without state (Detectors), for prompts of   *)
(* any fragments and length; the redaction of an answer (OutputScan) of    *)
(* any length; and the review queries (AuditQueries) of any table.         *)
(***************************************************************************)
EXTENDS PromptChecks, RecordChecks, SequenceLemmas

-----------------------------------------------------------------------------
(* The two passes of the PII detector.                                      *)

\* A thread in the second pass has a match, no signal yet, and no exception
\* that an engine could not have raised; a thread that is going to confirm
\* finds the global set, since it is never reset.
PiiInv ==
    /\ at \in [Threads -> {"idle", "returned", "get", "load", "confirm"}]
    /\ matches \in [Threads -> BOOLEAN]
    /\ signal \in [Threads -> {"none", "signal"}]
    /\ analyzer \in {"None", "unavailable", "engine"}
    /\ ~installed => raised = {} /\ analyzer # "engine"
    /\ \A t \in Threads :
          /\ at[t] \in {"get", "load", "confirm"} => matches[t] /\ t \notin raised
          /\ at[t] = "confirm" => analyzer # "None"
          /\ at[t] = "returned" => (signal[t] = "signal" <=> (matches[t] /\ t \notin raised))

LEMMA InitPii == Pii!Init => PiiInv
BY DEF Pii!Init, PiiInv

LEMMA NextPii == PiiInv /\ [Pii!Next]_(Pii!vars) => PiiInv'
<1> SUFFICES ASSUME PiiInv, [Pii!Next]_(Pii!vars) PROVE PiiInv'
  OBVIOUS
<1> USE DEF PiiInv, Pii!Goto, Pii!Return
<1>1. ASSUME NEW t \in Threads, Pii!FirstPass(t) PROVE PiiInv'
  BY <1>1 DEF Pii!FirstPass, Pii!Resting
<1>2. ASSUME NEW t \in Threads, Pii!GetAnalyzer(t) PROVE PiiInv'
  BY <1>2 DEF Pii!GetAnalyzer
<1>3. ASSUME NEW t \in Threads, Pii!ImportFails(t) \/ Pii!LoadEngine(t) PROVE PiiInv'
  BY <1>3 DEF Pii!ImportFails, Pii!LoadEngine
<1>4. ASSUME NEW t \in Threads, Pii!EngineRaises(t) PROVE PiiInv'
  BY <1>4 DEF Pii!EngineRaises
<1>5. ASSUME NEW t \in Threads, Pii!Confirm(t) PROVE PiiInv'
  BY <1>5 DEF Pii!Confirm
<1>6. CASE UNCHANGED Pii!vars
  BY <1>6 DEF Pii!vars
<1>7. QED
  BY <1>1, <1>2, <1>3, <1>4, <1>5, <1>6 DEF Pii!Next, Pii!Scan, Pii!Finished

\* A prompt that the first pass of the PII detector matches is stopped, however
\* many threads load the engine at once; only an engine that is installed and
\* raises loses it, in the scan in which it raises.
THEOREM PiiLosesNothing == Pii!Spec => []Pii!LostOnlyIfTheEngineRaises
<1>1. PiiInv => Pii!LostOnlyIfTheEngineRaises
  BY DEF PiiInv, Pii!LostOnlyIfTheEngineRaises
<1>2. QED
  BY InitPii, NextPii, <1>1, PTL DEF Pii!Spec

-----------------------------------------------------------------------------
(* The phrases of the injection detector.                                   *)

AllPrompts == [text : BOOLEAN, blocks : Seq(BOOLEAN)]

PhraseTypes ==
    /\ library \in BOOLEAN /\ useAho \in BOOLEAN
    /\ automaton \in {"none", "aho", "list"}
    /\ pc \in [Threads -> {"idle", "returned", "search", "build", "flag", "choose", "match"}]
    /\ prompt \in [Threads -> AllPrompts]
    /\ part \in [Threads -> Nat]
    /\ \A t \in Threads : part[t] <= Len(prompt[t].blocks)
    /\ result \in [Threads -> {"none", "signal"}]
    /\ scans \in Nat
    /\ exposed \in [Threads -> BOOLEAN]

\* The list takes the place of the library only, and _use_aho is right for good
\* once a thread has set it: a scan that is not exposed reads what it should.
BuildInv ==
    /\ library => automaton # "list"
    /\ \A t \in Threads : pc[t] # "idle" /\ ~exposed[t] => useAho = library

\* The parts that a scan has passed hold no phrase, and it returns what the
\* parts of its prompt hold.
PartsInv ==
    \A t \in Threads :
        /\ pc[t] \notin Phrases!Resting /\ part[t] > 0 => ~prompt[t].text
        /\ pc[t] \notin Phrases!Resting =>
              \A i \in 1..(part[t] - 1) : ~prompt[t].blocks[i]

PhraseInv ==
    /\ PhraseTypes
    /\ BuildInv
    /\ PartsInv
    /\ Phrases!LostOnlyInTheFirstBuild

LEMMA KnownPrompts == Prompts \subseteq AllPrompts
BY PromptsAssumption DEF AllPrompts

LEMMA InitPhrases == Phrases!Init => PhraseInv
<1> SUFFICES ASSUME Phrases!Init PROVE PhraseInv
  OBVIOUS
<1> DEFINE first == CHOOSE p \in Prompts : TRUE
<1>1. \E p \in Prompts : TRUE
  BY PromptsAssumption
<1>2. first \in AllPrompts
  <2>1. first \in Prompts
    BY <1>1, Zenon
  <2>2. QED
    BY <2>1, KnownPrompts
<1>3. prompt \in [Threads -> {first}]
  BY DEF Phrases!Init
<1> HIDE DEF first
<1>4. prompt \in [Threads -> AllPrompts]
  BY <1>2, <1>3
<1>5. \A t \in Threads : Len(prompt[t].blocks) \in Nat
  BY <1>4, LenProperties DEF AllPrompts
<1>6. PhraseTypes
  BY <1>4, <1>5 DEF Phrases!Init, PhraseTypes
<1>7. QED
  BY <1>6 DEF Phrases!Init, PhraseInv, BuildInv, PartsInv,
     Phrases!LostOnlyInTheFirstBuild, Phrases!Resting

LEMMA NextPhrases == PhraseInv /\ [Phrases!Next]_(Phrases!vars) => PhraseInv'
<1> SUFFICES ASSUME PhraseInv, [Phrases!Next]_(Phrases!vars) PROVE PhraseInv'
  OBVIOUS
<1> USE DEF Phrases!Goto, Phrases!Return, Phrases!globals, Phrases!locals, Phrases!Resting
<1>1. \A p \in AllPrompts : Len(p.blocks) \in Nat
  BY LenProperties DEF AllPrompts
<1>2. ASSUME NEW t \in Threads, Phrases!Begin(t) PROVE PhraseInv'
  <2>1. PhraseTypes' /\ library' = library /\ useAho' = useAho /\ automaton' = automaton
    <3>1. PICK p \in AllPrompts : prompt' = [prompt EXCEPT ![t] = p]
      BY <1>2, KnownPrompts DEF Phrases!Begin
    <3>2. Len(p.blocks) \in Nat
      BY <1>1
    <3>3. QED
      BY <1>1, <1>2, <3>1, <3>2 DEF PhraseInv, PhraseTypes, Phrases!Begin
  <2>2. BuildInv'
    <3>1. ASSUME NEW u \in Threads, u # t PROVE pc'[u] = pc[u] /\ exposed'[u] = exposed[u]
      BY <1>2, <3>1 DEF PhraseInv, PhraseTypes, Phrases!Begin
    <3>2. exposed'[t] <=> useAho # library
      BY <1>2, Zenon DEF PhraseInv, PhraseTypes, Phrases!Begin
    <3>3. QED
      BY <2>1, <3>1, <3>2 DEF PhraseInv, BuildInv
  <2>3. PartsInv'
    BY <1>2 DEF PhraseInv, PhraseTypes, PartsInv, Phrases!Begin
  <2>4. Phrases!LostOnlyInTheFirstBuild'
    BY <1>2, <2>1 DEF PhraseInv, PhraseTypes, Phrases!LostOnlyInTheFirstBuild,
       Phrases!HasPhrase, Phrases!Begin
  <2>5. QED
    BY <2>1, <2>2, <2>3, <2>4 DEF PhraseInv
<1>3. ASSUME NEW t \in Threads,
             Phrases!SearchPhrases(t) \/ Phrases!SetAutomaton(t) \/ Phrases!SetFlag(t)
      PROVE PhraseInv'
  <2> USE DEF Phrases!SearchPhrases, Phrases!SetAutomaton, Phrases!SetFlag
  <2>1. PhraseTypes' /\ library' = library
    BY <1>3 DEF PhraseInv, PhraseTypes
  <2>2. BuildInv'
    BY <1>3 DEF PhraseInv, PhraseTypes, BuildInv
  <2>3. PartsInv'
    BY <1>3 DEF PhraseInv, PhraseTypes, PartsInv
  <2>4. Phrases!LostOnlyInTheFirstBuild'
    BY <1>3, <2>1 DEF PhraseInv, PhraseTypes, Phrases!LostOnlyInTheFirstBuild, Phrases!HasPhrase
  <2>5. QED
    BY <2>1, <2>2, <2>3, <2>4 DEF PhraseInv
<1>4. ASSUME NEW t \in Threads, Phrases!Choose(t) PROVE PhraseInv'
  <2>1. /\ PhraseTypes'
        /\ UNCHANGED <<library, useAho, automaton, prompt, part, scans, exposed>>
    BY <1>4 DEF PhraseInv, PhraseTypes, Phrases!Choose
  <2>2. BuildInv'
    BY <1>4, <2>1 DEF PhraseInv, PhraseTypes, BuildInv, Phrases!Choose
  <2>3. PartsInv'
    BY <1>4 DEF PhraseInv, PhraseTypes, PartsInv, Phrases!Choose
  <2>4. useAho /\ automaton = "list" => ~library /\ exposed[t]
    BY <1>4 DEF PhraseInv, PhraseTypes, BuildInv, Phrases!Choose
  <2>5. Phrases!LostOnlyInTheFirstBuild'
    BY <1>4, <2>1, <2>4 DEF PhraseInv, PhraseTypes, Phrases!LostOnlyInTheFirstBuild,
       Phrases!HasPhrase, Phrases!Choose
  <2>6. QED
    BY <2>1, <2>2, <2>3, <2>5 DEF PhraseInv
<1>5. ASSUME NEW t \in Threads, Phrases!Match(t) PROVE PhraseInv'
  <2>1. /\ pc[t] = "match" /\ UNCHANGED <<library, useAho, automaton, prompt, scans, exposed>>
        /\ Len(prompt[t].blocks) \in Nat /\ part[t] \in Nat
        /\ part[t] <= Len(prompt[t].blocks)
    BY <1>1, <1>5 DEF PhraseInv, PhraseTypes, Phrases!Match
  <2>2. /\ part' = [part EXCEPT ![t] = part'[t]] /\ pc' = [pc EXCEPT ![t] = pc'[t]]
        /\ result' = [result EXCEPT ![t] = result'[t]]
        /\ \/ /\ Phrases!Holds(t) /\ part'[t] = part[t]
              /\ pc'[t] = "returned" /\ result'[t] = "signal"
           \/ /\ ~Phrases!Holds(t) /\ part[t] < Len(prompt[t].blocks)
              /\ part'[t] = part[t] + 1 /\ pc'[t] = "search" /\ result'[t] = result[t]
           \/ /\ ~Phrases!Holds(t) /\ part[t] = Len(prompt[t].blocks) /\ part'[t] = part[t]
              /\ pc'[t] = "returned" /\ result'[t] = "none"
    BY <1>5 DEF PhraseInv, PhraseTypes, Phrases!Match
  <2>3. PhraseTypes'
    <3>1. part'[t] \in Nat /\ part'[t] <= Len(prompt[t].blocks)
      BY <2>1, <2>2
    <3>2. part' \in [Threads -> Nat] /\ \A u \in Threads : part'[u] <= Len(prompt'[u].blocks)
      BY <2>1, <2>2, <3>1 DEF PhraseInv, PhraseTypes
    <3>3. /\ pc' \in [Threads -> {"idle", "returned", "search", "build", "flag", "choose", "match"}]
          /\ result' \in [Threads -> {"none", "signal"}]
      <4>1. pc'[t] \in {"returned", "search"} /\ result'[t] \in {"none", "signal", result[t]}
        BY <2>2
      <4>2. result[t] \in {"none", "signal"}
        BY DEF PhraseInv, PhraseTypes
      <4>3. pc' = [pc EXCEPT ![t] = pc'[t]] /\ result' = [result EXCEPT ![t] = result'[t]]
        BY <2>2
      <4>4. QED
        BY <4>1, <4>2, <4>3 DEF PhraseInv, PhraseTypes
    <3>4. QED
      BY <2>1, <3>2, <3>3 DEF PhraseInv, PhraseTypes
  <2>4. BuildInv'
    BY <2>1, <2>2 DEF PhraseInv, PhraseTypes, BuildInv
  <2>5. Phrases!Holds(t) <=> IF part[t] = 0 THEN prompt[t].text ELSE prompt[t].blocks[part[t]]
    BY DEF Phrases!Holds
  <2>6. part[t] > 0 => ~prompt[t].text
    BY <2>1 DEF PhraseInv, PartsInv
  <2>7. \A i \in 1..(part[t] - 1) : ~prompt[t].blocks[i]
    BY <2>1 DEF PhraseInv, PartsInv
  <2>8. ~Phrases!Holds(t) => ~prompt[t].text /\ \A i \in 1..part[t] : ~prompt[t].blocks[i]
    BY <2>1, <2>5, <2>6, <2>7
  <2>9. PartsInv'
    <3>1. pc'[t] \notin Phrases!Resting =>
              ~prompt'[t].text /\ \A i \in 1..(part'[t] - 1) : ~prompt'[t].blocks[i]
      BY <2>1, <2>2, <2>8
    <3>2. ASSUME NEW u \in Threads, u # t
          PROVE  pc'[u] = pc[u] /\ part'[u] = part[u] /\ prompt'[u] = prompt[u]
      BY <2>1, <2>2, <3>2 DEF PhraseInv, PhraseTypes
    <3>3. QED
      BY <3>1, <3>2 DEF PhraseInv, PartsInv
  <2>10. pc'[t] = "returned" => (result'[t] = "signal" <=> Phrases!HasPhrase(prompt[t]))
    <3>1. Phrases!Holds(t) => Phrases!HasPhrase(prompt[t])
      BY <2>1, <2>5 DEF Phrases!HasPhrase
    <3>2. ~Phrases!Holds(t) /\ part[t] = Len(prompt[t].blocks) => ~Phrases!HasPhrase(prompt[t])
      BY <2>8 DEF Phrases!HasPhrase
    <3>3. QED
      BY <2>2, <3>1, <3>2
  <2>11. Phrases!LostOnlyInTheFirstBuild'
    <3>1. ASSUME NEW u \in Threads, u # t
          PROVE  pc'[u] = pc[u] /\ result'[u] = result[u] /\ prompt'[u] = prompt[u]
      BY <2>1, <2>2, <3>1 DEF PhraseInv, PhraseTypes
    <3>2. QED
      BY <2>1, <2>2, <2>10, <3>1
      DEF PhraseInv, Phrases!LostOnlyInTheFirstBuild, Phrases!HasPhrase
  <2>12. QED
    BY <2>1, <2>3, <2>4, <2>9, <2>11 DEF PhraseInv
<1>6. CASE UNCHANGED Phrases!vars
  BY <1>6 DEF Phrases!vars, PhraseInv, PhraseTypes, BuildInv, PartsInv,
     Phrases!LostOnlyInTheFirstBuild, Phrases!HasPhrase
<1>7. QED
  BY <1>2, <1>3, <1>4, <1>5, <1>6 DEF Phrases!Next, Phrases!Scan, Phrases!Finished

\* Every scan is of a prompt, and counted.
PhraseBounds == prompt \in [Threads -> Prompts] /\ scans \in 0..MaxScans

LEMMA AlwaysPhraseBounds == Phrases!Spec => []PhraseBounds
<1>1. Phrases!Init => PhraseBounds
  <2> SUFFICES ASSUME Phrases!Init PROVE PhraseBounds
    OBVIOUS
  <2> DEFINE first == CHOOSE p \in Prompts : TRUE
  <2>1. \E p \in Prompts : TRUE
    BY PromptsAssumption
  <2>2. first \in Prompts
    BY <2>1, Zenon
  <2>3. prompt \in [Threads -> {first}]
    BY DEF Phrases!Init
  <2> HIDE DEF first
  <2>4. QED
    BY <2>2, <2>3, MaxScansAssumption DEF Phrases!Init, PhraseBounds
<1>2. PhraseBounds /\ [Phrases!Next]_(Phrases!vars) => PhraseBounds'
  <2> SUFFICES ASSUME PhraseBounds, [Phrases!Next]_(Phrases!vars) PROVE PhraseBounds'
    OBVIOUS
  <2>1. ASSUME NEW t \in Threads, Phrases!Begin(t) PROVE PhraseBounds'
    <3>1. PICK p \in Prompts : prompt' = [prompt EXCEPT ![t] = p]
      BY <2>1 DEF Phrases!Begin
    <3>2. scans < MaxScans /\ scans' = scans + 1
      BY <2>1 DEF Phrases!Begin
    <3>3. QED
      BY <3>1, <3>2, MaxScansAssumption DEF PhraseBounds
  <2>2. ASSUME NEW t \in Threads,
               \/ Phrases!SearchPhrases(t) \/ Phrases!SetAutomaton(t) \/ Phrases!SetFlag(t)
               \/ Phrases!Choose(t) \/ Phrases!Match(t)
        PROVE  PhraseBounds'
    <3>1. prompt' = prompt /\ scans' = scans
      BY <2>2 DEF Phrases!SearchPhrases, Phrases!SetAutomaton, Phrases!SetFlag, Phrases!Choose,
         Phrases!Match, Phrases!locals
    <3>2. QED
      BY <3>1 DEF PhraseBounds
  <2>3. CASE UNCHANGED Phrases!vars
    <3>1. prompt' = prompt /\ scans' = scans
      BY <2>3 DEF Phrases!vars, Phrases!locals
    <3>2. QED
      BY <3>1 DEF PhraseBounds
  <2>4. QED
    BY <2>1, <2>2, <2>3 DEF Phrases!Next, Phrases!Scan, Phrases!Finished
<1>3. QED
  BY <1>1, <1>2, PTL DEF Phrases!Spec

LEMMA PhraseTypesOK == PhraseInv /\ PhraseBounds => Phrases!TypeOK
BY DEF PhraseInv, PhraseTypes, PhraseBounds, Phrases!TypeOK

\* Whoever is building the automaton, and however often, the injection detector
\* flags nothing but phrases and loses one only in a scan that began before the
\* first build of a process without the library was over, and that did not take
\* part in it up to the flag.
LEMMA PhrasesAreFound == Phrases!Spec => []Phrases!LostOnlyInTheFirstBuild
<1>1. PhraseInv => Phrases!LostOnlyInTheFirstBuild
  BY DEF PhraseInv
<1>2. QED
  BY InitPhrases, NextPhrases, <1>1, PTL DEF Phrases!Spec

\* Of the detectors that load what they share on first use, without a lock,
\* the one for PII loses nothing to a thread that is loading it, and the one
\* for phrases nothing but what a first build without the library exposes.
THEOREM LazyLoadsAreSafe == Phrases!Spec /\ Pii!Spec => []LazyLoadsLoseNoMore
<1>1. Phrases!LostOnlyInTheFirstBuild /\ Pii!LostOnlyIfTheEngineRaises => LazyLoadsLoseNoMore
  BY DEF LazyLoadsLoseNoMore
<1>2. QED
  BY PhrasesAreFound, PiiLosesNothing, <1>1, PTL

\* Where the library is installed the fallback is never taken, and the detector
\* finds the phrases of a prompt exactly (the claim that MCStages_race refutes
\* for a process without it).
THEOREM PhrasesWithTheLibrary == Phrases!Spec => [](library => Phrases!FindsThePhrases)
<1>1. PhraseInv => (library => Phrases!FindsThePhrases)
  BY DEF PhraseInv, PhraseTypes, Phrases!LostOnlyInTheFirstBuild, Phrases!FindsThePhrases
<1>2. QED
  BY InitPhrases, NextPhrases, <1>1, PTL DEF Phrases!Spec

-----------------------------------------------------------------------------
(* The percentiles of latency.                                              *)

\* The rank of the audit report: the samples before it are less than pct of
\* all, those up to it at least pct.
LEMMA RankIs ==
    ASSUME NEW n \in Nat \ {0}, NEW pct \in Latency!Percentiles
    PROVE  /\ Latency!Rank(pct, n) \in 1..n
           /\ 100 * (Latency!Rank(pct, n) - 1) < pct * n
           /\ pct * n <= 100 * Latency!Rank(pct, n)
<1> USE DEF Latency!Rank, Latency!Clamped
<1>1. CASE pct = 50
  BY <1>1
<1>2. CASE pct = 95
  BY <1>2
<1>3. CASE pct = 99
  BY <1>3
<1>4. QED
  BY <1>1, <1>2, <1>3 DEF Latency!Percentiles

\* The rank of the latency gate is never too low.
LEMMA EvalRankIs ==
    ASSUME NEW n \in Nat \ {0}
    PROVE  Latency!EvalRank(95, n) \in 1..n /\ 95 * n <= 100 * Latency!EvalRank(95, n)
<1> DEFINE q == 95 * n
<1>1. /\ q \in Nat /\ q \div 100 \in Nat /\ 100 * (q \div 100) <= q
      /\ q < 100 * (q \div 100) + 100 /\ (q % 100 = 0 => q = 100 * (q \div 100))
  OBVIOUS
<1>2. \/ Latency!RoundHalfMore(q) = q \div 100 /\ q = 100 * (q \div 100)
      \/ Latency!RoundHalfMore(q) = (q \div 100) + 1
  BY <1>1 DEF Latency!RoundHalfMore
<1>3. /\ Latency!RoundHalfMore(q) \in Nat \ {0}
      /\ 95 * n <= 100 * Latency!RoundHalfMore(q)
  BY <1>1, <1>2
<1>4. QED
  BY <1>3 DEF Latency!EvalRank, Latency!Clamped

LEMMA LatencyTypes == Latency!Spec => []Latency!TypeOK
<1>1. Latency!Init => Latency!TypeOK
  BY DEF Latency!Init, Latency!TypeOK
<1>2. Latency!TypeOK /\ [Latency!Next]_(Latency!vars) => Latency!TypeOK'
  BY DEF Latency!TypeOK, Latency!Next, Latency!Sample, Latency!Finished, Latency!vars
<1>3. QED
  BY <1>1, <1>2, PTL DEF Latency!Spec

\* The percentiles that latency_stats reports are those of the definition, and
\* the latency gate passes no series of which more than one sample in twenty is
\* over the budget, for any number of samples: queries._percentile and
\* latency._percentile round differently, and both to the safe side.
THEOREM PercentilesAreSoundAlways == Latency!Spec => []PercentilesAreSound
<1>1. Latency!TypeOK => Latency!PercentilesAreSound
  <2> SUFFICES ASSUME Latency!TypeOK PROVE Latency!PercentilesAreSound
    OBVIOUS
  <2>1. fast \in Nat /\ slow \in Nat /\ Latency!Count \in Nat /\ Latency!Count = fast + slow
    BY DEF Latency!TypeOK, Latency!Count
  <2>2. Latency!ReportsThePercentile
    <3> SUFFICES ASSUME Latency!Count > 0, NEW pct \in Latency!Percentiles
                 PROVE  Latency!IsPercentile(Latency!SampleAt(Latency!Rank(pct, Latency!Count)), pct)
      BY DEF Latency!ReportsThePercentile
    <3> DEFINE n == Latency!Count
               rank == Latency!Rank(pct, n)
    <3>1. /\ n \in Nat \ {0} /\ rank \in 1..n
          /\ 100 * (rank - 1) < pct * n /\ pct * n <= 100 * rank
      BY <2>1, RankIs
    <3>2. pct * n \in Int
      BY <3>1 DEF Latency!Percentiles
    <3> HIDE DEF n, rank
    <3>3. CASE rank <= fast
      <4>1. fast > 0 /\ pct * n <= 100 * fast
        BY <2>1, <3>1, <3>2, <3>3
      <4>2. QED
        BY <3>3, <4>1 DEF Latency!IsPercentile, Latency!SampleAt, n, rank
    <3>4. CASE ~ (rank <= fast)
      <4>1. 100 * fast < pct * n
        BY <2>1, <3>1, <3>2, <3>4
      <4>2. pct * n > 100 * fast
        BY <2>1, <3>2, <4>1
      <4>3. QED
        BY <3>4, <4>2 DEF Latency!IsPercentile, Latency!SampleAt, n, rank
    <3>5. QED
      BY <3>3, <3>4
  <2>3. Latency!GateIsSound
    <3> SUFFICES ASSUME Latency!Count > 0, Latency!GatePasses
                 PROVE  95 * Latency!Count <= 100 * fast
      BY DEF Latency!GateIsSound
    <3>1. Latency!Count \in Nat \ {0}
      BY <2>1
    <3>2. Latency!EvalRank(95, Latency!Count) <= fast
      BY <3>1 DEF Latency!GatePasses, Latency!SampleAt
    <3>3. QED
      BY <2>1, <3>1, <3>2, EvalRankIs
  <2>4. QED
    BY <2>2, <2>3 DEF Latency!PercentilesAreSound
<1>2. QED
  BY LatencyTypes, <1>1, PTL DEF PercentilesAreSound

-----------------------------------------------------------------------------
(* evaluate.                                                                *)

\* The checks in their order, and what each can return: those that refuse come
\* before those that escalate.
LEMMA ChecksAre ==
    ASSUME NEW ctx, NEW q
    PROVE  /\ DOMAIN Authz!Checks(ctx, q) = 1..5
           /\ \A i \in 1..3 : Authz!Checks(ctx, q)[i] \in {Authz!ALLOW, Authz!STOP}
           /\ \A i \in 4..5 : Authz!Checks(ctx, q)[i] \in {Authz!ALLOW, Authz!ESCALATE}
<1>1. \A condition, d : Authz!ObjectIf(condition, d) \in {Authz!ALLOW, d}
  BY DEF Authz!ObjectIf
<1> DEFINE c1 == Authz!ObjectIf(ctx.role \notin Authz!KnownRoles, Authz!STOP)
           c2 == Authz!ObjectIf(~Authz!HasCapability(ctx.role, Authz!RequiredCapability(q.action)),
                                Authz!STOP)
           c3 == Authz!ObjectIf(Authz!CrossesTenants(ctx, q) /\ ctx.role # "SecurityReviewer",
                                Authz!STOP)
           c4 == Authz!ObjectIf(Authz!DetectCrossOrg(ctx.tenant, q.mentioned), Authz!ESCALATE)
           c5 == Authz!ObjectIf(q.service # NotNamed /\ ~Authz!Owns(ctx, q.service), Authz!ESCALATE)
<1>2. Authz!Checks(ctx, q) = <<c1, c2, c3, c4, c5>>
  BY DEF Authz!Checks
<1>3. /\ c1 \in {Authz!ALLOW, Authz!STOP} /\ c2 \in {Authz!ALLOW, Authz!STOP}
      /\ c3 \in {Authz!ALLOW, Authz!STOP}
      /\ c4 \in {Authz!ALLOW, Authz!ESCALATE} /\ c5 \in {Authz!ALLOW, Authz!ESCALATE}
  BY <1>1
<1> HIDE DEF c1, c2, c3, c4, c5
<1>4. QED
  BY <1>2, <1>3

\* Evaluate returns the strictest of the checks.
LEMMA EvaluateIsStrictest ==
    ASSUME NEW ctx, NEW q
    PROVE  /\ \A i \in DOMAIN Authz!Checks(ctx, q) :
                 Authz!Checks(ctx, q)[i] <= Authz!Evaluate(ctx, q)
           /\ (\A i \in DOMAIN Authz!Checks(ctx, q) : Authz!Checks(ctx, q)[i] = Authz!ALLOW)
                 => Authz!Evaluate(ctx, q) = Authz!ALLOW
<1> DEFINE checks == Authz!Checks(ctx, q)
           objecting == {i \in DOMAIN checks : checks[i] # Authz!ALLOW}
           first == CHOOSE i \in objecting : \A j \in objecting : i <= j
<1>1. /\ DOMAIN checks = 1..5
      /\ \A i \in 1..3 : checks[i] \in {Authz!ALLOW, Authz!STOP}
      /\ \A i \in 4..5 : checks[i] \in {Authz!ALLOW, Authz!ESCALATE}
  BY ChecksAre
<1>2. Authz!Evaluate(ctx, q) = IF objecting = {} THEN Authz!ALLOW ELSE checks[first]
  BY DEF Authz!Evaluate
<1>3. Authz!ALLOW = 0 /\ Authz!ESCALATE = 1 /\ Authz!STOP = 2
  BY DEF Authz!ALLOW, Authz!ESCALATE, Authz!STOP
<1> HIDE DEF checks
<1>4. objecting # {} => first \in objecting /\ \A j \in objecting : first <= j
  <2>1. objecting # {} => \E i \in objecting : \A j \in objecting : i <= j
    <3> SUFFICES ASSUME objecting # {} PROVE \E i \in objecting : \A j \in objecting : i <= j
      OBVIOUS
    <3>1. objecting \subseteq Nat
      BY <1>1
    <3> HIDE DEF objecting
    <3>2. QED
      BY <3>1, Minimum
  <2> HIDE DEF objecting
  <2>2. QED
    BY <2>1
<1> HIDE DEF first
<1>5. \A i \in 1..5 : checks[i] <= Authz!Evaluate(ctx, q)
  <2>1. CASE objecting = {}
    BY <1>1, <1>2, <1>3, <2>1
  <2>2. CASE objecting # {} /\ first \in 1..3
    <3>1. checks[first] = 2
      BY <1>1, <1>3, <1>4, <2>2
    <3>2. QED
      BY <1>1, <1>2, <1>3, <2>2, <3>1
  <2>3. CASE objecting # {} /\ first \in 4..5
    <3>1. checks[first] = 1
      BY <1>1, <1>3, <1>4, <2>3
    <3>2. \A i \in 1..3 : checks[i] = 0
      BY <1>1, <1>3, <1>4, <2>3
    <3>3. QED
      BY <1>1, <1>2, <1>3, <2>3, <3>1, <3>2
  <2>4. QED
    BY <1>1, <1>4, <2>1, <2>2, <2>3
<1>6. (\A i \in 1..5 : checks[i] = Authz!ALLOW) => Authz!Evaluate(ctx, q) = Authz!ALLOW
  BY <1>1, <1>2
<1>7. QED
  BY <1>1, <1>5, <1>6 DEF checks

\* No check objects to a seeded user whose stage query names nothing else.
LEMMA SeededUsersPass ==
    ASSUME NEW user \in DOMAIN Authz!UserData
    PROVE  Authz!Evaluate(Authz!UserData[user], Authz!StageQuery(Authz!UserData[user]))
               = Authz!ALLOW
<1> DEFINE ctx == Authz!UserData[user]
           q == Authz!StageQuery(ctx)
<1>1. /\ ctx.role \in Authz!KnownRoles /\ q.action = Authz!DefaultAction(ctx.role)
      /\ q.mentioned = {} /\ q.service = NotNamed /\ q.resourceTenant = NotNamed
  BY DEF Authz!UserData, Authz!Context, Authz!KnownRoles, Authz!StageQuery
<1> HIDE DEF ctx, q
<1>2. Authz!HasCapability(ctx.role, Authz!RequiredCapability(q.action))
  BY <1>1 DEF Authz!KnownRoles, Authz!DefaultAction, Authz!HasCapability,
     Authz!RequiredCapability, Authz!ActionCapability, Authz!RoleMask
<1>3. ~Authz!CrossesTenants(ctx, q) /\ ~Authz!DetectCrossOrg(ctx.tenant, q.mentioned)
  BY <1>1 DEF Authz!CrossesTenants, Authz!DetectCrossOrg
<1>4. \A i \in DOMAIN Authz!Checks(ctx, q) : Authz!Checks(ctx, q)[i] = Authz!ALLOW
  BY <1>1, <1>2, <1>3 DEF Authz!Checks, Authz!ObjectIf
<1>5. Authz!Evaluate(ctx, q) = Authz!ALLOW
  BY <1>4, EvaluateIsStrictest
<1>6. QED
  BY <1>5 DEF ctx, q

\* What evaluate said is its answer to the arguments.
AuthzInv ==
    /\ verdict = Authz!Evaluate(context, query)
    /\ caller = "stage" => verdict = Authz!ALLOW

LEMMA AlwaysAuthzInv == Authz!Spec => []AuthzInv
<1>1. Authz!Init => AuthzInv
  <2>1. "u-001" \in DOMAIN Authz!UserData
    BY DEF Authz!UserData
  <2>2. QED
    BY <2>1, SeededUsersPass DEF Authz!Init, AuthzInv
<1>2. AuthzInv /\ [Authz!Next]_(Authz!vars) => AuthzInv'
  BY SeededUsersPass DEF AuthzInv, Authz!Next, Authz!CallEvaluate, Authz!RunAuthzStage,
     Authz!Answered, Authz!vars
<1>3. QED
  BY <1>1, <1>2, PTL DEF Authz!Spec

\* The first check of evaluate that objects is one of the strictest, for any
\* context, action, service and organisations: an escalation never hides a
\* refusal that a later check holds.
THEOREM FirstObjectionDecides == Authz!Spec => []FirstObjectionIsStrictest
<1>1. AuthzInv => Authz!FirstObjectionIsStrictest
  BY EvaluateIsStrictest DEF AuthzInv, Authz!FirstObjectionIsStrictest
<1>2. QED
  BY AlwaysAuthzInv, <1>1, PTL DEF FirstObjectionIsStrictest

\* The tables of default actions, capabilities and masks agree: the stage lets
\* every seeded user through, whatever the prompt names and whatever services
\* and organisations there are.
THEOREM SeededUsersPassTheStage == Authz!Spec => []KnownUsersPassTheStage
<1>1. AuthzInv => Authz!KnownUsersPassTheStage
  BY DEF AuthzInv, Authz!KnownUsersPassTheStage
<1>2. QED
  BY AlwaysAuthzInv, <1>1, PTL DEF KnownUsersPassTheStage

-----------------------------------------------------------------------------
(* The audit record.                                                        *)

\* Record, row and line are those of the request, the row only of a valid record.
LineInv ==
    /\ request = None => record = None /\ row = None /\ printed = None
    /\ request # None =>
          /\ record = Lines!FromDecision(request)
          /\ request \in Lines!PipelineRequests \cup Lines!OtherRequests
    /\ row # None => request # None /\ row = Lines!ToRow(record) /\ Lines!IsValid(record)
    /\ printed # None =>
          request \in Lines!PipelineRequests /\ printed = Lines!ConsoleLine(request)

LEMMA AlwaysLineInv == Lines!Spec => []LineInv
<1> USE LinesAssumption
<1>1. Lines!Init => LineInv
  BY DEF Lines!Init, LineInv
<1>2. LineInv /\ [Lines!Next]_(Lines!recordVars) => LineInv'
  <2> SUFFICES ASSUME LineInv, [Lines!Next]_(Lines!recordVars) PROVE LineInv'
    OBVIOUS
  <2>1. CASE Lines!Record
    <3>1. request' \in Lines!PipelineRequests /\ request' # None
      BY <2>1 DEF Lines!Record, Lines!PipelineRequests, Lines!NoneIsNothing
    <3>2. QED
      BY <2>1, <3>1 DEF Lines!Record, LineInv
  <2>2. CASE Lines!RecordOther
    <3>1. request' \in Lines!OtherRequests /\ request' # None
      BY <2>2 DEF Lines!RecordOther, Lines!OtherRequests, Lines!NoneIsNothing
    <3>2. QED
      BY <2>2, <3>1 DEF Lines!RecordOther, LineInv
  <2>3. CASE Lines!Store
    BY <2>3 DEF Lines!Store, LineInv
  <2>4. CASE Lines!Finished \/ UNCHANGED Lines!recordVars
    BY <2>4 DEF Lines!Finished, Lines!recordVars, LineInv
  <2>5. QED
    BY <2>1, <2>2, <2>3, <2>4 DEF Lines!Next
<1>3. QED
  BY <1>1, <1>2, PTL DEF Lines!Spec

\* What the tuple of to_row takes, from_row gives back.
LEMMA RowIsRead ==
    ASSUME NEW r
    PROVE  Lines!FromRow(Lines!ToRow(Lines!FromDecision(r))) = Lines!FromDecision(r)
BY DEF Lines!FromRow, Lines!ToRow, Lines!FromDecision

\* The fields of the record and of the line.
LEMMA RecordFields ==
    ASSUME NEW r
    PROVE  /\ Lines!FromDecision(r).user_id = IF r.ctx = None THEN "unknown" ELSE r.ctx.user_id
           /\ Lines!FromDecision(r).role = IF r.ctx = None THEN "unknown" ELSE r.ctx.role
           /\ Lines!FromDecision(r).service = Lines!ContextService(r.ctx)
           /\ Lines!FromDecision(r).prompt_hash = "digest"
           /\ Lines!FromDecision(r).policy_triggered =
                 Lines!OrEmpty(Lines!ResolvePolicyId(r.catalog, Lines!LoggedRule(r.decision)))
           /\ Lines!FromDecision(r).decision = Lines!DispositionToStr(r.decision.disposition)
           /\ Lines!FromDecision(r).actor_type =
                 IF r.ctx = None THEN "" ELSE Lines!ActorOfRole[r.ctx.role]
           /\ Lines!FromDecision(r).rule_triggered = Lines!LoggedRule(r.decision)
           /\ Lines!FromDecision(r).signals = Lines!SignalLabels(r.decision.signals)
           /\ Lines!FromDecision(r).policy_version =
                 IF r.decision.policy_version = "" THEN DefaultVersion
                                                   ELSE r.decision.policy_version
BY DEF Lines!FromDecision

RuleOf(decision) ==
    IF Lines!DecisiveSignal(decision.signals) = None THEN None
    ELSE Lines!DecisiveSignal(decision.signals).rule_id

LEMMA LineFields ==
    ASSUME NEW r
    PROVE  /\ Lines!ConsoleLine(r).user_id = IF r.ctx = None THEN None ELSE r.ctx.user_id
           /\ Lines!ConsoleLine(r).role = IF r.ctx = None THEN None ELSE r.ctx.role
           /\ Lines!ConsoleLine(r).service =
                 IF r.ctx = None \/ r.ctx.owned_services = <<>> THEN None
                 ELSE r.ctx.owned_services[1]
           /\ Lines!ConsoleLine(r).prompt_hash = "digest"
           /\ Lines!ConsoleLine(r).policy_triggered =
                 Lines!ResolvePolicyId(r.catalog, RuleOf(r.decision))
           /\ Lines!ConsoleLine(r).decision = r.decision.disposition.value
           /\ Lines!ConsoleLine(r).actor_type =
                 IF r.ctx = None THEN "A-01" ELSE Lines!ActorOfRole[r.ctx.role]
           /\ Lines!ConsoleLine(r).rule_triggered = RuleOf(r.decision)
           /\ Lines!ConsoleLine(r).signals = Lines!SignalLabels(r.decision.signals)
           /\ Lines!ConsoleLine(r).policy_version = r.decision.policy_version
BY DEF Lines!ConsoleLine, RuleOf

\* What is read back is the record of the request, as far as there is one.
LEMMA StoredIs ==
    ASSUME LineInv, row # None
    PROVE  /\ Lines!FromRow(row) = Lines!FromDecision(request)
           /\ request \in Lines!PipelineRequests \cup Lines!OtherRequests
           /\ Lines!IsValid(Lines!FromDecision(request))
BY RowIsRead DEF LineInv

\* The names of the decisions that are enums, texts and numbers.
LEMMA NameIsNotMoreLenient ==
    ASSUME NEW disp \in {Lines!Enum(d) : d \in Lines!Dispositions} \cup Lines!OtherDispositions
    PROVE  Lines!Strictness(Lines!DispositionToStr(disp)) >= Lines!Meant(disp)
<1>1. CASE disp \in {Lines!Enum(d) : d \in Lines!Dispositions}
  <2>1. PICK d \in {"ALLOW", "ESCALATE", "STOP"} : disp = [form |-> "enum", value |-> d]
    BY <1>1 DEF Lines!Enum, Lines!Dispositions
  <2>2. Lines!DispositionToStr(disp) = d
    BY <2>1 DEF Lines!DispositionToStr, Lines!CanonicalDecision, Lines!Decisions
  <2>3. QED
    BY <2>1, <2>2 DEF Lines!Strictness, Lines!Meant, Lines!Value
<1>2. CASE disp = [form |-> "none", value |-> None]
  BY <1>2 DEF Lines!DispositionToStr, Lines!Strictness, Lines!Meant
<1>3. CASE disp \in {Lines!Number(halves) : halves \in {0, 2, 3, 4}}
  <2>1. PICK halves \in {0, 2, 3, 4} : disp = [form |-> "number", value |-> halves]
    BY <1>3 DEF Lines!Number
  <2>2. QED
    BY <2>1 DEF Lines!DispositionToStr, Lines!Strictness, Lines!Meant
<1>4. CASE disp \in {Lines!Text(words) : words \in {<<"ALLOW">>, <<"STOP">>, <<"REDACT">>,
                        <<"ESCALATE">>, <<"ALLOWCONSTRAIN">>, <<"BLOCK">>}}
  <2>1. PICK word \in {"ALLOW", "STOP", "REDACT", "ESCALATE", "ALLOWCONSTRAIN", "BLOCK"} :
           disp = [form |-> "text", value |-> <<word>>]
    BY <1>4 DEF Lines!Text
  <2>2. Lines!DispositionToStr(disp) = Lines!CanonicalDecision(<<word>>)
    BY <2>1 DEF Lines!DispositionToStr
  <2>3. Lines!CanonicalDecision(<<word>>)
          = IF word = "ALLOWCONSTRAIN" THEN "ALLOW_CONSTRAIN"
            ELSE IF word \in Lines!Decisions THEN word ELSE "ESCALATE"
    BY DEF Lines!CanonicalDecision
  <2>4. Lines!Meant(disp) = IF word \in Lines!Decisions THEN Lines!Strictness(word)
                            ELSE IF word = "ALLOWCONSTRAIN" THEN 1 ELSE 2
    <3>1. disp.form = "text" /\ Len(disp.value) = 1 /\ disp.value[1] = word
      BY <2>1
    <3>2. CASE word \in Lines!Decisions
      BY <3>1, <3>2 DEF Lines!Meant, Lines!Decisions
    <3>3. CASE word \notin Lines!Decisions
      <4>1. word \in {"ALLOWCONSTRAIN", "BLOCK"}
        BY <3>3 DEF Lines!Decisions
      <4>2. QED
        BY <3>1, <3>3, <4>1 DEF Lines!Meant
    <3>4. QED
      BY <3>2, <3>3
  <2>5. QED
    BY <2>1, <2>2, <2>3, <2>4 DEF Lines!Decisions, Lines!Strictness
<1>5. CASE disp \in {Lines!Text(words) : words \in {<<"ALLOW", "CONSTRAIN">>,
                                                   <<"ALLOW", "CONSTRAINT">>}}
  <2>1. PICK words \in {<<"ALLOW", "CONSTRAIN">>, <<"ALLOW", "CONSTRAINT">>} :
           disp = [form |-> "text", value |-> words]
    BY <1>5 DEF Lines!Text
  <2>2. Lines!DispositionToStr(disp) = "ALLOW_CONSTRAIN"
    BY <2>1 DEF Lines!DispositionToStr, Lines!CanonicalDecision
  <2>3. Lines!Meant(disp) = 1
    BY <2>1 DEF Lines!Meant
  <2>4. QED
    BY <2>2, <2>3 DEF Lines!Strictness
<1>6. QED
  BY <1>1, <1>2, <1>3, <1>4, <1>5 DEF Lines!OtherDispositions

\* In each form that a disposition has in the pipeline, the docstring or the
\* tests (an enum, a text, nothing, a number 0, 1, 1.5 or 2 of the scale), what
\* is read back from the table is a valid record, and never of a decision more
\* lenient than the one taken (_disposition_to_str).
THEOREM NeverMoreLenientHolds == Lines!Spec => []NeverMoreLenient
<1>1. LineInv => Lines!NeverMoreLenient
  <2> SUFFICES ASSUME LineInv, row # None
               PROVE  /\ Lines!IsValid(Lines!FromRow(row))
                      /\ Lines!Strictness(Lines!FromRow(row).decision)
                            >= Lines!Meant(request.decision.disposition)
    BY DEF Lines!NeverMoreLenient
  <2>1. Lines!FromRow(row).decision = Lines!DispositionToStr(request.decision.disposition)
    BY StoredIs, RecordFields
  <2>2. request.decision.disposition
          \in {Lines!Enum(d) : d \in Lines!Dispositions} \cup Lines!OtherDispositions
    BY StoredIs DEF Lines!PipelineRequests, Lines!OtherRequests, Lines!PipelineDecisions,
       Lines!OtherDecisions
  <2>3. QED
    BY <2>1, <2>2, StoredIs, NameIsNotMoreLenient
<1>2. QED
  BY AlwaysLineInv, <1>1, PTL DEF NeverMoreLenient

\* The two sinks tell the same story of a request of the pipeline: decision,
\* rule, policy, signals and digest, and for a known caller all the rest but the
\* version of a decision that the pipeline did not stamp.
THEOREM SinksAgreeHolds == Lines!Spec => []SinksAgree
<1> USE LinesAssumption
<1>1. LineInv => Lines!SinksAgree
  <2> SUFFICES ASSUME LineInv, printed # None, row # None
               PROVE  Lines!SinksAgree
    BY DEF Lines!SinksAgree
  <2> DEFINE stored == Lines!FromRow(row)
             dec == request.decision
             rule == RuleOf(dec)
  <2>1. /\ stored = Lines!FromDecision(request) /\ printed = Lines!ConsoleLine(request)
        /\ request \in Lines!PipelineRequests
    BY StoredIs DEF LineInv
  <2>2. PICK d \in {"ALLOW", "ESCALATE", "STOP"} : dec.disposition = [form |-> "enum", value |-> d]
    BY <2>1 DEF Lines!PipelineRequests, Lines!PipelineDecisions, Lines!Enum, Lines!Dispositions
  <2>3. stored.decision = d /\ printed.decision = d
    <3>1. Lines!DispositionToStr(dec.disposition) = d
      BY <2>2 DEF Lines!DispositionToStr, Lines!CanonicalDecision, Lines!Decisions
    <3>2. Lines!FromDecision(request).decision = Lines!DispositionToStr(dec.disposition)
      BY RecordFields
    <3>3. Lines!ConsoleLine(request).decision = dec.disposition.value
      BY LineFields
    <3>4. QED
      BY <2>1, <2>2, <3>1, <3>2, <3>3
  <2>4. stored.rule_triggered = Lines!OrEmpty(rule) /\ printed.rule_triggered = rule
    <3>1. Lines!LoggedRule(dec) = Lines!OrEmpty(rule)
      BY DEF Lines!LoggedRule, Lines!OrEmpty, RuleOf
    <3>2. QED
      BY <2>1, <3>1, RecordFields, LineFields
  <2>5. stored.policy_triggered = Lines!OrEmpty(printed.policy_triggered)
    <3>1. stored.policy_triggered
             = Lines!OrEmpty(Lines!ResolvePolicyId(request.catalog, Lines!OrEmpty(rule)))
      BY <2>1, <2>4, RecordFields
    <3>2. printed.policy_triggered = Lines!ResolvePolicyId(request.catalog, rule)
      BY <2>1, LineFields
    <3>3. request.catalog \in Catalogs \cup {None}
      BY <2>1 DEF Lines!PipelineRequests
    <3>4. request.catalog # None =>
             None \notin DOMAIN request.catalog /\ "" \notin DOMAIN request.catalog
      BY <3>3 DEF Lines!NoneIsNothing
    <3> HIDE DEF rule
    <3>5. QED
      BY <3>1, <3>2, <3>4 DEF Lines!ResolvePolicyId, Lines!OrEmpty
  <2>6. stored.signals = printed.signals /\ printed.signals \in Seq(Detectors)
    <3>1. /\ stored.signals = Lines!SignalLabels(dec.signals)
          /\ printed.signals = Lines!SignalLabels(dec.signals)
      BY <2>1, RecordFields, LineFields
    <3>2. PICK n \in 0..ManySignals : dec.signals \in [1..n -> Lines!Signals]
      BY <2>1 DEF Lines!PipelineRequests, Lines!PipelineDecisions
    <3>3. Lines!SignalLabels(dec.signals) \in [1..n -> Detectors]
      BY <3>2 DEF Lines!SignalLabels, Lines!Signals
    <3>4. QED
      BY <3>1, <3>2, <3>3, SeqDef
  <2>7. stored.service = Lines!OrEmpty(printed.service)
    <3>1. /\ stored.service = Lines!ContextService(request.ctx)
          /\ printed.service = IF request.ctx = None \/ request.ctx.owned_services = <<>> THEN None
                               ELSE request.ctx.owned_services[1]
      BY <2>1, RecordFields, LineFields
    <3>2. request.ctx = None \/ request.ctx.owned_services
                                   \in {<<>>, <<"kyc-engine", "dvs-service">>}
      BY <2>1 DEF Lines!PipelineRequests, Lines!Contexts
    <3>3. CASE request.ctx = None \/ request.ctx.owned_services = <<>>
      BY <3>1, <3>3 DEF Lines!ContextService, Lines!OrEmpty
    <3>4. CASE ~ (request.ctx = None \/ request.ctx.owned_services = <<>>)
      <4>1. request.ctx.owned_services[1] = "kyc-engine"
        BY <3>2, <3>4
      <4>2. "kyc-engine" # None
        BY DEF Lines!NoneIsNothing
      <4>3. stored.service = "kyc-engine" /\ printed.service = "kyc-engine"
        BY <3>1, <3>4, <4>1 DEF Lines!ContextService
      <4>4. QED
        BY <4>2, <4>3 DEF Lines!OrEmpty
    <3>5. QED
      BY <3>3, <3>4
  <2>8. stored.prompt_hash = "digest" /\ printed.prompt_hash = "digest"
    BY <2>1, RecordFields, LineFields
  <2>9. request.ctx # None => /\ stored.user_id = printed.user_id /\ stored.role = printed.role
                              /\ stored.actor_type = printed.actor_type
    <3>1. request.ctx # None =>
             /\ Lines!FromDecision(request).user_id = request.ctx.user_id
             /\ Lines!FromDecision(request).role = request.ctx.role
             /\ Lines!FromDecision(request).actor_type = Lines!ActorOfRole[request.ctx.role]
      BY RecordFields
    <3>2. request.ctx # None =>
             /\ Lines!ConsoleLine(request).user_id = request.ctx.user_id
             /\ Lines!ConsoleLine(request).role = request.ctx.role
             /\ Lines!ConsoleLine(request).actor_type = Lines!ActorOfRole[request.ctx.role]
      BY LineFields
    <3>3. QED
      BY <2>1, <3>1, <3>2
  <2>10. printed.policy_version \in {"", stored.policy_version}
    BY <2>1, RecordFields, LineFields
  <2> HIDE DEF stored, rule, dec
  <2>11. Lines!OrEmpty(d) = d /\ Lines!OrEmpty("digest") = "digest"
    BY DEF Lines!OrEmpty, Lines!Decisions, Lines!NoneIsNothing
  <2>12. Lines!OrEmpty(printed.signals) = printed.signals
    BY <2>6 DEF Lines!OrEmpty, Lines!NoneIsNothing
  <2>13. /\ stored["prompt_hash"] = Lines!OrEmpty(printed["prompt_hash"])
         /\ stored["decision"] = Lines!OrEmpty(printed["decision"])
         /\ stored["signals"] = Lines!OrEmpty(printed["signals"])
    BY <2>3, <2>6, <2>8, <2>11, <2>12
  <2>14. \A field \in {"prompt_hash", "policy_triggered", "decision", "rule_triggered",
                       "signals", "service"} : stored[field] = Lines!OrEmpty(printed[field])
    BY <2>4, <2>5, <2>7, <2>13
  <2>15. QED
    BY <2>9, <2>10, <2>14 DEF Lines!SinksAgree, stored
<1>2. QED
  BY AlwaysLineInv, <1>1, PTL DEF SinksAgree

-----------------------------------------------------------------------------
(* The scopes of a tenant.                                                 *)

\* The parts of a path.
Names == STRING \cup {Empty}

\* A path has at least one part.
LEMMA PartsType ==
    ASSUME NEW path \in Paths
    PROVE  Trie!Parts(path) \in Seq(Names) \ {<<>>}
<1> DEFINE named == {i \in DOMAIN path : path[i] # Empty}
           first == CHOOSE i \in named : \A j \in named : i <= j
           last == CHOOSE i \in named : \A j \in named : j <= i
<1>1. /\ path \in Seq(Names) /\ DOMAIN path = 1..Len(path) /\ Len(path) \in Nat
      /\ \A i \in 1..Len(path) : path[i] \in Names
  <2>1. path \in Seq(STRING)
    BY PathsAssumption
  <2>2. path \in Seq(Names)
    BY <2>1, SeqMonotonic DEF Names
  <2>3. QED
    BY <2>2, LenProperties, ElementOfSeq
<1>2. CASE named = {}
  <2>1. Trie!Parts(path) = <<Empty>>
    BY <1>2 DEF Trie!Parts
  <2>2. QED
    BY <2>1 DEF Names
<1>3. CASE named # {}
  <2>0. named \subseteq 1..Len(path) /\ named \subseteq Nat
    BY <1>1
  <2> HIDE DEF named
  <2>1. first \in named
    <3>1. \E i \in named : \A j \in named : i <= j
      BY <1>3, <2>0, Minimum
    <3>2. QED
      BY <3>1, Zenon
  <2>2. last \in named /\ \A j \in named : j <= last
    <3>1. \E i \in named : \A j \in named : j <= i
      <4> DEFINE back == {Len(path) - i : i \in named}
      <4>0. \A i \in named : Len(path) - i \in Nat
        BY <1>1, <2>0
      <4>1. back \subseteq Nat /\ back # {}
        BY <4>0, <1>3
      <4>2. PICK x \in back : \A y \in back : x <= y
        BY <4>1, Minimum
      <4>3. PICK i \in named : x = Len(path) - i
        BY <4>2
      <4>4. \A j \in named : Len(path) - j \in back
        OBVIOUS
      <4> HIDE DEF back
      <4>5. ASSUME NEW j \in named PROVE j <= i
        <5>1. Len(path) - i <= Len(path) - j
          BY <4>2, <4>3, <4>4
        <5>2. Len(path) \in Nat /\ i \in Nat /\ j \in Nat
          BY <1>1, <2>0
        <5>3. QED
          BY <5>1, <5>2
      <4>6. QED
        BY <4>5
    <3>2. QED
      BY <3>1, Zenon
  <2>3. first \in 1..Len(path) /\ last \in 1..Len(path) /\ first <= last
    BY <2>0, <2>1, <2>2
  <2> HIDE DEF first, last
  <2>4. SubSeq(path, first, last) \in Seq(Names) /\ Len(SubSeq(path, first, last)) = last - first + 1
    BY <1>1, <2>3, SubSeqProperties
  <2>5. SubSeq(path, first, last) # <<>>
    BY <2>3, <2>4, EmptySeq
  <2>6. Trie!Parts(path) = SubSeq(path, first, last)
    BY <1>3 DEF Trie!Parts, first, last, named
  <2>7. QED
    BY <2>4, <2>5, <2>6
<1>4. QED
  BY <1>2, <1>3

\* The nodes of a path are its prefixes.
LEMMA NodesOfIs ==
    ASSUME NEW parts \in Seq(Names)
    PROVE  /\ <<>> \in Trie!NodesOf(parts) /\ parts \in Trie!NodesOf(parts)
           /\ \A node \in Trie!NodesOf(parts) :
                 /\ node \in Seq(Names)
                 /\ Trie!IsPrefix(node, parts)
                 /\ Trie!NodesOf(node) \subseteq Trie!NodesOf(parts)
<1>1. Len(parts) \in Nat /\ \A i \in 1..Len(parts) : parts[i] \in Names
  BY LenProperties, ElementOfSeq
<1>2. SubSeq(parts, 1, 0) = <<>> /\ SubSeq(parts, 1, Len(parts)) = parts
  BY SubSeqEmpty, SubSeqFull
<1>3. ASSUME NEW i \in 0..Len(parts)
      PROVE  /\ SubSeq(parts, 1, i) \in Seq(Names)
             /\ Len(SubSeq(parts, 1, i)) = i
             /\ \A j \in 0..i : SubSeq(SubSeq(parts, 1, i), 1, j) = SubSeq(parts, 1, j)
  <2>1. SubSeq(parts, 1, i) \in Seq(Names) /\ Len(SubSeq(parts, 1, i)) = i
    BY <1>1, SubSeqProperties
  <2>2. ASSUME NEW j \in 0..i PROVE SubSeq(SubSeq(parts, 1, i), 1, j) = SubSeq(parts, 1, j)
    <3>1. CASE j = 0
      BY <3>1, SubSeqEmpty
    <3>2. CASE j # 0
      <4>1. 1 \in 1..Len(parts) /\ i \in 1..Len(parts) /\ 1 \in 1..(i - 1 + 1) /\ j \in 1..(i - 1 + 1)
        BY <1>1, <3>2
      <4>2. SubSeq(SubSeq(parts, 1, i), 1, j) = SubSeq(parts, 1 + 1 - 1, 1 + j - 1)
        BY <4>1, SubSeqOfSubSeq
      <4>3. QED
        BY <4>2
    <3>3. QED
      BY <3>1, <3>2
  <2>3. QED
    BY <2>1, <2>2
<1>4. <<>> \in Trie!NodesOf(parts) /\ parts \in Trie!NodesOf(parts)
  <2>1. 0 \in 0..Len(parts) /\ Len(parts) \in 0..Len(parts)
    BY <1>1
  <2>2. SubSeq(parts, 1, 0) \in Trie!NodesOf(parts) /\ SubSeq(parts, 1, Len(parts)) \in Trie!NodesOf(parts)
    BY <2>1, Zenon DEF Trie!NodesOf
  <2>3. QED
    BY <1>2, <2>2
<1>5. ASSUME NEW node \in Trie!NodesOf(parts)
      PROVE  /\ node \in Seq(Names)
             /\ Trie!IsPrefix(node, parts)
             /\ Trie!NodesOf(node) \subseteq Trie!NodesOf(parts)
  <2>1. PICK i \in 0..Len(parts) : node = SubSeq(parts, 1, i)
    BY DEF Trie!NodesOf
  <2>2. Len(node) = i /\ node \in Seq(Names) /\ SubSeq(node, 1, i) = node
    BY <1>3, <2>1, SubSeqFull
  <2>3. \A j \in 0..i : SubSeq(node, 1, j) = SubSeq(parts, 1, j)
    BY <1>3, <2>1
  <2>4. Trie!NodesOf(node) \subseteq Trie!NodesOf(parts)
    <3>1. \A j \in 0..i : SubSeq(node, 1, j) \in Trie!NodesOf(parts)
      <4>1. \A j \in 0..i : j \in 0..Len(parts)
        BY <1>1
      <4>2. \A j \in 0..i : SubSeq(parts, 1, j) \in Trie!NodesOf(parts)
        BY <4>1, Zenon DEF Trie!NodesOf
      <4>3. QED
        BY <2>3, <4>2
    <3>2. Trie!NodesOf(node) = {SubSeq(node, 1, j) : j \in 0..i}
      BY <2>2 DEF Trie!NodesOf
    <3>3. QED
      BY <3>1, <3>2
  <2>5. Trie!IsPrefix(node, parts)
    BY <1>1, <2>1, <2>2 DEF Trie!IsPrefix
  <2>6. QED
    BY <2>2, <2>4, <2>5
<1>6. QED
  BY <1>4, <1>5

\* The trie is what its paths make it.
TrieInv ==
    /\ inserted \subseteq Paths
    /\ ends = {Trie!Parts(path) : path \in inserted}
    /\ nodes = {<<>>} \cup UNION {Trie!NodesOf(Trie!Parts(path)) : path \in inserted}

LEMMA AlwaysTrieInv == Trie!Spec => []TrieInv
<1>1. Trie!Init => TrieInv
  BY DEF Trie!Init, TrieInv
<1>2. TrieInv /\ [Trie!Next]_(Trie!vars) => TrieInv'
  <2> SUFFICES ASSUME TrieInv, [Trie!Next]_(Trie!vars) PROVE TrieInv'
    OBVIOUS
  <2>1. ASSUME NEW path \in Paths, Trie!Insert(path) PROVE TrieInv'
    BY <2>1 DEF TrieInv, Trie!Insert
  <2>2. CASE UNCHANGED Trie!vars
    BY <2>2 DEF TrieInv, Trie!vars
  <2>3. QED
    BY <2>1, <2>2 DEF Trie!Next
<1>3. QED
  BY <1>1, <1>2, PTL DEF Trie!Spec

LEMMA TrieTypes == TrieInv => Trie!TypeOK
<1> SUFFICES ASSUME TrieInv PROVE Trie!TypeOK
  OBVIOUS
<1>1. \A path \in inserted : Trie!Parts(path) \in Seq(Names) \ {<<>>}
  BY PartsType DEF TrieInv
<1>2. \A end \in ends : end \in Seq(Names) \ {<<>>} /\ Trie!NodesOf(end) \subseteq nodes
  BY <1>1 DEF TrieInv
<1>3. ends \subseteq nodes \ {<<>>}
  BY <1>2, NodesOfIs
<1>4. ASSUME NEW node \in nodes, node # <<>>
      PROVE  \E end \in ends : node \in Trie!NodesOf(end)
  BY <1>4 DEF TrieInv
<1>5. ASSUME NEW node \in nodes
      PROVE  /\ Trie!NodesOf(node) \subseteq nodes
             /\ node # <<>> => \E end \in ends : Trie!IsPrefix(node, end)
  <2>1. CASE node = <<>>
    <3>1. Trie!NodesOf(<<>>) = {<<>>}
      <4>1. Len(<<>>) = 0 /\ SubSeq(<<>>, 1, 0) = <<>>
        BY SubSeqEmpty
      <4>2. Trie!NodesOf(<<>>) = {SubSeq(<<>>, 1, i) : i \in 0..0}
        BY <4>1 DEF Trie!NodesOf
      <4>3. \A i \in 0..0 : i = 0
        OBVIOUS
      <4>4. \A node_ \in Trie!NodesOf(<<>>) : node_ = <<>>
        BY <4>1, <4>2, <4>3, Zenon
      <4>5. 0 \in 0..0
        OBVIOUS
      <4>6. <<>> \in Trie!NodesOf(<<>>)
        BY <4>1, <4>2, <4>5, Zenon
      <4>7. QED
        BY <4>4, <4>6
    <3>2. QED
      BY <2>1, <3>1 DEF TrieInv
  <2>2. CASE node # <<>>
    <3>1. PICK end \in ends : node \in Trie!NodesOf(end)
      BY <1>4, <2>2
    <3>2. QED
      BY <1>2, <3>1, NodesOfIs
  <2>3. QED
    BY <2>1, <2>2
<1>6. <<>> \in nodes /\ inserted \subseteq Paths
  BY DEF TrieInv
<1>7. \A node \in nodes : Trie!NodesOf(node) \subseteq nodes
  BY <1>5
<1>8. \A node \in nodes \ {<<>>} : \E end \in ends : Trie!IsPrefix(node, end)
  BY <1>5
<1>9. QED
  BY <1>3, <1>6, <1>7, <1>8, Zenon DEF Trie!TypeOK

\* A walk succeeds at a prefix that was inserted, and only there.
LEMMA MatchesAlways == TrieInv => Trie!MatchesPrefixes
<1> SUFFICES ASSUME TrieInv, NEW path \in Paths
             PROVE  Trie!PrefixMatch(path)
                      <=> \E p \in inserted : Trie!IsPrefix(Trie!Parts(p), Trie!Parts(path))
  <2>1. ASSUME TrieInv, \A path \in Paths :
                 Trie!PrefixMatch(path)
                   <=> \E p \in inserted : Trie!IsPrefix(Trie!Parts(p), Trie!Parts(path))
        PROVE  Trie!MatchesPrefixes
    BY <2>1 DEF Trie!MatchesPrefixes
  <2>2. QED
    BY <2>1
<1> DEFINE parts == Trie!Parts(path)
<1>1. parts \in Seq(Names) /\ Len(parts) \in Nat /\ \A i \in 1..Len(parts) : parts[i] \in Names
  BY PartsType, LenProperties, ElementOfSeq
<1>2. \A i \in 0..Len(parts) : SubSeq(parts, 1, i) \in Seq(Names) /\ Len(SubSeq(parts, 1, i)) = i
  BY <1>1, SubSeqProperties
<1>3. \A p \in inserted : /\ Trie!Parts(p) \in Seq(Names)
                          /\ SubSeq(Trie!Parts(p), 1, Len(Trie!Parts(p))) = Trie!Parts(p)
                          /\ Trie!NodesOf(Trie!Parts(p)) \subseteq nodes
                          /\ Len(Trie!Parts(p)) \in Nat
  BY PartsType, SubSeqFull, LenProperties DEF TrieInv
<1>4. Trie!PrefixMatch(path) <=>
         \E i \in 0..Len(parts) : /\ Trie!NodesOf(SubSeq(parts, 1, i)) \subseteq nodes
                                  /\ SubSeq(parts, 1, i) \in ends
  BY DEF Trie!PrefixMatch
<1> HIDE DEF parts
<1>5. ASSUME NEW i \in 0..Len(parts), SubSeq(parts, 1, i) \in ends
      PROVE  \E p \in inserted : Trie!IsPrefix(Trie!Parts(p), parts)
  <2>1. PICK p \in inserted : Trie!Parts(p) = SubSeq(parts, 1, i)
    BY <1>5 DEF TrieInv
  <2>2. Trie!IsPrefix(Trie!Parts(p), parts)
    BY <1>1, <1>2, <1>3, <2>1 DEF Trie!IsPrefix
  <2>3. QED
    BY <2>2
<1>6. ASSUME NEW p \in inserted, Trie!IsPrefix(Trie!Parts(p), parts)
      PROVE  \E i \in 0..Len(parts) : /\ Trie!NodesOf(SubSeq(parts, 1, i)) \subseteq nodes
                                      /\ SubSeq(parts, 1, i) \in ends
  <2>1. SubSeq(parts, 1, Len(Trie!Parts(p))) = Trie!Parts(p) /\ Len(Trie!Parts(p)) \in 0..Len(parts)
    BY <1>1, <1>3, <1>6 DEF Trie!IsPrefix
  <2>2. Trie!Parts(p) \in ends
    BY DEF TrieInv
  <2>3. QED
    BY <1>3, <2>1, <2>2
<1>7. QED
  BY <1>4, <1>5, <1>6 DEF parts

\* Nodes and ends only grow.
LEMMA TrieGrows ==
    ASSUME TrieInv, Trie!Next
    PROVE  nodes \subseteq nodes' /\ ends \subseteq ends'
BY DEF Trie!Next, Trie!Insert

\* An insert takes no grant back, since it takes no node and no end back.
LEMMA GrantsStay ==
    ASSUME TrieInv, Trie!Next, nodes # {<<>>}
    PROVE  Trie!Granted \subseteq Trie!Granted'
<1>1. nodes \subseteq nodes' /\ ends \subseteq ends' /\ nodes' # {<<>>}
  BY TrieGrows DEF TrieInv
<1>2. ASSUME NEW path, Trie!PrefixMatch(path) PROVE Trie!PrefixMatch(path)'
  BY <1>1, <1>2 DEF Trie!PrefixMatch
<1>3. \A tenant, service, owned :
         Trie!Check(tenant, service, owned) => Trie!Check(tenant, service, owned)'
  BY <1>1, <1>2 DEF Trie!Check
<1>4. QED
  BY <1>3 DEF Trie!Granted

\* The trie matches a path exactly when a path that is a prefix of it was
\* inserted, in whatever order, and no insert after the first one takes back
\* what a tenant is granted (insert, prefix_match and check of ScopeTrie).  The
\* first one is left out: with it check() turns from the flat list of services
\* to the trie, and a service that is only on the list is refused.
THEOREM ScopeIsExactAlways == Trie!Spec => ScopeIsExact
<1>1. TrieInv /\ TrieInv' /\ [Trie!Next]_(Trie!vars)
        => [inserted' # inserted =>
              Trie!MatchesPrefixes' /\ (nodes # {<<>>} => Trie!Granted \subseteq Trie!Granted')]_(Trie!vars)
  <2>1. TrieInv' => Trie!MatchesPrefixes'
    BY MatchesAlways, PTL
  <2>2. QED
    BY <2>1, GrantsStay DEF Trie!vars
<1>2. QED
  BY AlwaysTrieInv, <1>1, PTL DEF Trie!Spec, Trie!ScopeIsExact, ScopeIsExact

-----------------------------------------------------------------------------
(* The detectors without state.                                            *)

\* The rules of the intent scanner: stops before escalations.
Order == Patterns!StopRules \o Patterns!EscalateRules

\* The rules of the intent scanner, in their order.
LEMMA OrderIs ==
    /\ DOMAIN Order = 1..6
    /\ \A i \in 1..4 : Order[i].disposition = Patterns!STOP
    /\ \A i \in 5..6 : Order[i].disposition = Patterns!ESCALATE
    /\ \A i \in 1..4 : Order[i].name \in {"R-02", "R-03", "R-04", "R-09"}
    /\ Order[5].name = "R-05" /\ Order[6].name = "R-08"
<1> DEFINE All == {Patterns!CheckSmr, Patterns!CheckBypass, Patterns!CheckAttack,
                   Patterns!CheckManipulation, Patterns!CheckBulk, Patterns!CheckCrossOrg}
<1>1. Patterns!StopRules \in Seq(All) /\ Patterns!EscalateRules \in Seq(All)
  BY DEF Patterns!StopRules, Patterns!EscalateRules
<1>2. Len(Patterns!StopRules) = 4 /\ Len(Patterns!EscalateRules) = 2
  BY DEF Patterns!StopRules, Patterns!EscalateRules
<1> HIDE DEF All
<1>0. /\ Len(Order) = 4 + 2 /\ Order \in Seq(All)
      /\ \A i \in 1..(4 + 2) : Order[i] = IF i <= 4 THEN Patterns!StopRules[i]
                                                   ELSE Patterns!EscalateRules[i - 4]
  <2> DEFINE s == Patterns!StopRules
             t == Patterns!EscalateRules
  <2>1. /\ s \o t \in Seq(All) /\ Len(s \o t) = Len(s) + Len(t)
        /\ \A i \in 1..(Len(s) + Len(t)) : (s \o t)[i] = IF i <= Len(s) THEN s[i] ELSE t[i - Len(s)]
    <3> HIDE DEF s, t
    <3>1. s \in Seq(All) /\ t \in Seq(All)
      BY <1>1 DEF s, t
    <3>2. QED
      BY <3>1, ConcatProperties
  <2>2. QED
    BY <1>2, <2>1, Zenon DEF Order
<1>3. /\ Len(Order) = 6 /\ Order \in Seq(All)
      /\ \A i \in 1..6 : Order[i] = IF i <= 4 THEN Patterns!StopRules[i]
                                               ELSE Patterns!EscalateRules[i - 4]
  BY <1>0
<1>4. DOMAIN Order = 1..6
  BY <1>3, LenProperties
<1>5. /\ Order[1] = Patterns!StopRules[1] /\ Order[2] = Patterns!StopRules[2]
      /\ Order[3] = Patterns!StopRules[3] /\ Order[4] = Patterns!StopRules[4]
      /\ Order[5] = Patterns!EscalateRules[1] /\ Order[6] = Patterns!EscalateRules[2]
  BY <1>3
<1>6. /\ Order[1] = Patterns!CheckSmr /\ Order[2] = Patterns!CheckBypass
      /\ Order[3] = Patterns!CheckAttack /\ Order[4] = Patterns!CheckManipulation
      /\ Order[5] = Patterns!CheckBulk /\ Order[6] = Patterns!CheckCrossOrg
  BY <1>5 DEF Patterns!StopRules, Patterns!EscalateRules
<1>7. \A i \in 1..4 : i = 1 \/ i = 2 \/ i = 3 \/ i = 4
  OBVIOUS
<1>8. \A i \in 5..6 : i = 5 \/ i = 6
  OBVIOUS
<1>9. QED
  BY <1>4, <1>6, <1>7, <1>8 DEF Patterns!CheckSmr, Patterns!CheckBypass, Patterns!CheckAttack,
     Patterns!CheckManipulation, Patterns!CheckBulk, Patterns!CheckCrossOrg, Patterns!Rule

\* Least is what its name says.
LEMMA LeastIs ==
    ASSUME NEW T, T \subseteq Nat, T # {}
    PROVE  Patterns!Least(T) \in T /\ \A j \in T : Patterns!Least(T) <= j
<1>1. \E i \in T : \A j \in T : i <= j
  BY Minimum
<1>2. QED
  BY <1>1, Zenon DEF Patterns!Least

\* The rules that apply to a prompt, by their places in the order.
Applying(words) == {i \in 1..6 : Patterns!Applies(Order[i], words)}

\* The intent scanner cites the first rule that applies.
LEMMA IntentIs ==
    ASSUME NEW words
    PROVE  /\ Applying(words) = {} => Patterns!ScanIntent(words) = Patterns!Nothing
           /\ Applying(words) # {} =>
                \E i \in Applying(words) :
                    /\ \A j \in Applying(words) : i <= j
                    /\ Patterns!ScanIntent(words)
                         = Patterns!Finds(Order[i].name, Order[i].disposition)
<1>1. Applying(words) = {i \in DOMAIN Order : Patterns!Applies(Order[i], words)}
  BY OrderIs DEF Applying
<1>2. Patterns!ScanIntent(words) = Patterns!FirstOf(Order, words)
  BY DEF Patterns!ScanIntent, Order
<1>3. CASE Applying(words) = {}
  BY <1>1, <1>2, <1>3, Zenon DEF Patterns!FirstOf
<1>4. CASE Applying(words) # {}
  <2>1. Applying(words) \subseteq Nat
    BY DEF Applying
  <2> DEFINE i == Patterns!Least(Applying(words))
  <2>2. i \in Applying(words) /\ \A j \in Applying(words) : i <= j
    BY <1>4, <2>1, LeastIs
  <2>3. Patterns!ScanIntent(words) = Patterns!Finds(Order[i].name, Order[i].disposition)
    BY <1>1, <1>2, <1>4, Zenon DEF Patterns!FirstOf
  <2>4. QED
    BY <1>4, <2>2, <2>3
<1>5. QED
  BY <1>3, <1>4

\* Which verdicts there are, and how they compare.
LEMMA VerdictsCompare ==
    ASSUME NEW i \in 1..6
    PROVE  /\ Order[i].disposition \in 0..2
           /\ \A j \in 1..6 : i <= j => Order[i].disposition >= Order[j].disposition
<1>1. \A j \in 1..6 : j \in 1..4 \/ j \in 5..6
  OBVIOUS
<1>2. \A j \in 1..6 : Order[j].disposition = IF j <= 4 THEN 2 ELSE 1
  BY <1>1, OrderIs DEF Patterns!STOP, Patterns!ESCALATE
<1>3. QED
  BY <1>2

\* What the intent scanner may find.
LEMMA IntentTypes ==
    ASSUME NEW words
    PROVE  Patterns!ScanIntent(words) \in
             {Patterns!Nothing, Patterns!Finds("R-05", Patterns!ESCALATE),
              Patterns!Finds("R-08", Patterns!ESCALATE)}
             \cup {Patterns!Finds(rule, Patterns!STOP) : rule \in {"R-02", "R-03", "R-04", "R-09"}}
<1>1. CASE Applying(words) = {}
  BY <1>1, IntentIs
<1>2. CASE Applying(words) # {}
  <2>1. PICK i \in Applying(words) :
           Patterns!ScanIntent(words) = Patterns!Finds(Order[i].name, Order[i].disposition)
    BY <1>2, IntentIs
  <2>2. i \in 1..4 \/ i = 5 \/ i = 6
    BY DEF Applying
  <2>3. CASE i \in 1..4
    <3>1. /\ Order[i].disposition = Patterns!STOP
          /\ Order[i].name \in {"R-02", "R-03", "R-04", "R-09"}
      BY <2>3, OrderIs
    <3>2. QED
      BY <2>1, <3>1, Zenon
  <2>4. CASE i = 5 \/ i = 6
    <3>1. i \in 5..6
      BY <2>4
    <3>2. Order[i].disposition = Patterns!ESCALATE
      BY <3>1, OrderIs
    <3>3. Order[i].name = "R-05" \/ Order[i].name = "R-08"
      BY <2>4, OrderIs
    <3>4. QED
      BY <2>1, <3>2, <3>3, Zenon
  <2>5. QED
    BY <2>2, <2>3, <2>4
<1>3. QED
  BY <1>1, <1>2

-----------------------------------------------------------------------------
\* The first match of a pattern is live.
LEMMA ReportedIs ==
    ASSUME NEW words \in Seq(Fragments), NEW pattern \in Patterns!Structured
    PROVE  Patterns!IsReported(pattern, words) <=>
             /\ pattern = "env" => ~Patterns!IsTemplate(words)
             /\ \E i \in 1..Len(words) :
                   /\ words[i] = Patterns!Live[pattern]
                   /\ \A j \in 1..(i - 1) : words[j] # Patterns!Sample[pattern]
<1> DEFINE found == {i \in DOMAIN words :
                        words[i] \in {Patterns!Live[pattern], Patterns!Sample[pattern]}}
           first == Patterns!Least(found)
<1>1. DOMAIN words = 1..Len(words) /\ Len(words) \in Nat
  BY LenProperties
<1>2. Patterns!Live[pattern] # Patterns!Sample[pattern]
  <2>1. pattern = "uri" \/ pattern = "key" \/ pattern = "env"
    BY DEF Patterns!Structured
  <2>2. /\ Patterns!Live["uri"] = "LIVE_URI" /\ Patterns!Live["key"] = "LIVE_KEY"
        /\ Patterns!Live["env"] = "LIVE_ENV" /\ Patterns!Sample["uri"] = "SAMPLE_URI"
        /\ Patterns!Sample["key"] = "no such fragment" /\ Patterns!Sample["env"] = "SAMPLE_ENV"
    BY DEF Patterns!Live, Patterns!Sample
  <2>3. QED
    BY <2>1, <2>2
<1>3. found # {} => /\ first \in found /\ first \in 1..Len(words)
                    /\ \A j \in found : first <= j
  <2>1. found \subseteq Nat
    BY <1>1
  <2> HIDE DEF first
  <2>2. found # {} => first \in found /\ \A j \in found : first <= j
    <3> HIDE DEF found
    <3>1. QED
      BY <2>1, LeastIs DEF first
  <2>3. QED
    BY <1>1, <2>2
<1> HIDE DEF first
<1>4. ASSUME found # {}, words[first] = Patterns!Live[pattern]
      PROVE  \A j \in 1..(first - 1) : words[j] # Patterns!Sample[pattern]
  <2>1. ASSUME NEW j \in 1..(first - 1), words[j] = Patterns!Sample[pattern] PROVE FALSE
    <3>1. j \in 1..Len(words) /\ ~(first <= j)
      BY <1>1, <1>3, <1>4
    <3>2. j \in found
      BY <1>1, <2>1, <3>1
    <3>3. QED
      BY <1>3, <1>4, <3>1, <3>2
  <2>2. QED
    BY <2>1
<1>5. ASSUME NEW i \in 1..Len(words), words[i] = Patterns!Live[pattern],
             \A j \in 1..(i - 1) : words[j] # Patterns!Sample[pattern]
      PROVE  found # {} /\ words[first] = Patterns!Live[pattern]
  <2>1. i \in found
    BY <1>1, <1>5
  <2>2. first \in 1..Len(words) /\ first <= i
    BY <1>3, <2>1
  <2>3. words[first] = Patterns!Live[pattern] \/ words[first] = Patterns!Sample[pattern]
    BY <1>3, <2>1
  <2>4. first = i \/ first \in 1..(i - 1)
    BY <1>1, <2>2
  <2>5. QED
    BY <1>5, <2>1, <2>3, <2>4
<1>6. Patterns!IsReported(pattern, words) <=>
         found # {} /\ (pattern = "env" => ~Patterns!IsTemplate(words))
         /\ words[first] = Patterns!Live[pattern]
  BY Zenon DEF Patterns!IsReported, first
<1>7. QED
  BY <1>3, <1>4, <1>5, <1>6

-----------------------------------------------------------------------------
\* What the detectors made of the prompt is what Scan says.
PatternInv ==
    /\ text \in Seq(Fragments)
    /\ \E fails \in BOOLEAN : outcome = Patterns!Scan(text, fails)

LEMMA AppendIs ==
    ASSUME NEW S, NEW s \in Seq(S), NEW e \in S
    PROVE  /\ Append(s, e) \in Seq(S) /\ Len(Append(s, e)) = Len(s) + 1
           /\ \A i \in 1..Len(s) : Append(s, e)[i] = s[i]
           /\ Append(s, e)[Len(s) + 1] = e
BY AppendProperties

LEMMA InitPatterns == Patterns!Init => PatternInv
BY Zenon, EmptySeq DEF Patterns!Init, PatternInv

LEMMA NextPatterns == PatternInv /\ [Patterns!Next]_(Patterns!vars) => PatternInv'
<1> SUFFICES ASSUME PatternInv, [Patterns!Next]_(Patterns!vars) PROVE PatternInv'
  OBVIOUS
<1>1. CASE Patterns!ScanLonger
  <2>1. text' \in Seq(Fragments)
    BY <1>1, AppendProperties DEF PatternInv, Patterns!ScanLonger
  <2>2. \E fails \in BOOLEAN : outcome' = Patterns!Scan(text', fails)
    BY <1>1 DEF Patterns!ScanLonger
  <2>3. QED
    BY <2>1, <2>2, Zenon DEF PatternInv, Patterns!Scan
<1>2. CASE UNCHANGED Patterns!vars
  <2>1. text' = text /\ outcome' = outcome
    BY <1>2 DEF Patterns!vars
  <2>2. QED
    BY <2>1, Zenon DEF PatternInv
<1>3. QED
  BY <1>1, <1>2 DEF Patterns!Next, Patterns!Finished

\* What each detector made of the prompt.
LEMMA OutcomeIs ==
    ASSUME PatternInv
    PROVE  /\ outcome["secrets_scanner"] = Patterns!ScanSecrets(text)
           /\ outcome["intent_compliance_scanner"] = Patterns!ScanIntent(text)
           /\ \E fails \in BOOLEAN : outcome["pii_detector"] = Patterns!ScanPii(text, fails)
<1>1. PICK fails \in BOOLEAN : outcome = Patterns!Scan(text, fails)
  BY DEF PatternInv
<1>2. QED
  BY <1>1 DEF Patterns!Scan, Patterns!Names

LEMMA PatternTypes == PatternInv => Patterns!TypeOK
<1> SUFFICES ASSUME PatternInv PROVE Patterns!TypeOK
  OBVIOUS
<1>1. text \in Seq(Fragments)
  BY DEF PatternInv
<1>2. Patterns!ScanSecrets(text) \in {Patterns!Nothing, Patterns!Finds("R-07", Patterns!STOP)}
  BY DEF Patterns!ScanSecrets
<1>3. \A fails \in BOOLEAN :
         Patterns!ScanPii(text, fails)
           \in {Patterns!Nothing, Patterns!Swallows, Patterns!Finds("R-01", Patterns!STOP)}
  BY DEF Patterns!ScanPii
<1>4. QED
  BY <1>1, <1>2, <1>3, OutcomeIs, IntentTypes, Zenon DEF Patterns!TypeOK

\* Both directions of each detector: what it finds is there, and what is there
\* it finds.
LEMMA DetectorsExact == PatternInv => Patterns!DetectorsAreExact
<1> SUFFICES ASSUME PatternInv PROVE Patterns!DetectorsAreExact
  OBVIOUS
<1>1. text \in Seq(Fragments) /\ DOMAIN text = 1..Len(text) /\ Len(text) \in Nat
  BY LenProperties DEF PatternInv
<1>2. Patterns!IntentIsStrictest
  <2>1. \A rule \in Patterns!Applying : \E j \in Applying(text) : Order[j] = rule
    <3>1. \A rule \in Patterns!ToSet(Order) : \E j \in 1..6 : Order[j] = rule
      BY OrderIs DEF Patterns!ToSet
    <3>2. QED
      BY <3>1 DEF Patterns!Applying, Applying, Order
  <2>2. \A j \in Applying(text) : Order[j] \in Patterns!Applying
    <3>1. \A j \in 1..6 : Order[j] \in Patterns!ToSet(Order)
      BY OrderIs DEF Patterns!ToSet
    <3>2. QED
      BY <3>1 DEF Patterns!Applying, Applying, Order
  <2>3. CASE Applying(text) = {}
    <3>1. Patterns!Applying = {}
      BY <2>1, <2>3
    <3>2. QED
      BY <2>3, <3>1, IntentIs, OutcomeIs, Zenon DEF Patterns!IntentIsStrictest
  <2>4. CASE Applying(text) # {}
    <3>1. PICK i \in Applying(text) :
             /\ \A j \in Applying(text) : i <= j
             /\ Patterns!ScanIntent(text)
                  = Patterns!Finds(Order[i].name, Order[i].disposition)
      BY <2>4, IntentIs
    <3>2. /\ Patterns!ScanIntent(text).result = "finds"
          /\ Patterns!ScanIntent(text).disposition = Order[i].disposition
      BY <3>1 DEF Patterns!Finds, Patterns!Outcome
    <3>3. \A j \in Applying(text) : Order[i].disposition >= Order[j].disposition
      BY <3>1, VerdictsCompare DEF Applying
    <3>4. \A rule \in Patterns!Applying : Order[i].disposition >= rule.disposition
      BY <2>1, <3>3
    <3>5. Patterns!Applying # {}
      BY <2>2, <2>4
    <3>6. QED
      BY <3>2, <3>4, <3>5, OutcomeIs DEF Patterns!IntentIsStrictest
  <2>5. QED
    BY <2>3, <2>4
<1>3. Patterns!LiveSecretIsFound
  <2>1. ASSUME NEW i \in 1..Len(text), NEW pattern \in Patterns!Structured,
               text[i] = Patterns!Live[pattern], ~Patterns!BehindASample(i, pattern),
               pattern = "env" => ~Patterns!IsTemplate(text)
        PROVE  outcome["secrets_scanner"].result = "finds"
    <3>1. Patterns!IsReported(pattern, text)
      BY <1>1, <2>1, ReportedIs DEF Patterns!BehindASample
    <3>2. Patterns!ScanSecrets(text) = Patterns!Finds("R-07", Patterns!STOP)
      BY <3>1 DEF Patterns!ScanSecrets, Patterns!FindSecret
    <3>3. QED
      BY <3>2, OutcomeIs DEF Patterns!Finds, Patterns!Outcome
  <2>2. QED
    BY <2>1, Zenon DEF Patterns!LiveSecretIsFound
<1>4. Patterns!SamplesPass
  <2> SUFFICES ASSUME Patterns!ToSet(text) \cap {"KNOWN_BAD", "RANDOM", "LIVE_URI", "LIVE_KEY"} = {},
                      "LIVE_ENV" \in Patterns!ToSet(text) => Patterns!IsTemplate(text)
               PROVE  outcome["secrets_scanner"] = Patterns!Nothing
    BY DEF Patterns!SamplesPass
  <2>1. ASSUME NEW pattern \in Patterns!Structured, Patterns!IsReported(pattern, text) PROVE FALSE
    <3>1. PICK i \in 1..Len(text) : text[i] = Patterns!Live[pattern]
      BY <1>1, <2>1, ReportedIs
    <3>2. Patterns!Live[pattern] \in Patterns!ToSet(text)
      BY <1>1, <3>1 DEF Patterns!ToSet
    <3>3. pattern = "env" => ~Patterns!IsTemplate(text)
      BY <1>1, <2>1, ReportedIs
    <3>4. QED
      BY <3>2, <3>3 DEF Patterns!Structured, Patterns!Live
  <2>2. ~Patterns!FindSecret(text)
    BY <2>1 DEF Patterns!FindSecret
  <2>3. QED
    BY <2>2, OutcomeIs DEF Patterns!ScanSecrets
<1>5. QED
  BY <1>2, <1>3, <1>4 DEF Patterns!DetectorsAreExact

-----------------------------------------------------------------------------
\* One more fragment.
LEMMA MoreText ==
    ASSUME NEW s \in Seq(Fragments), NEW f \in Fragments
    PROVE  Patterns!ToSet(Append(s, f)) = Patterns!ToSet(s) \cup {f}
<1>1. /\ DOMAIN s = 1..Len(s) /\ Len(s) \in Nat
      /\ DOMAIN Append(s, f) = 1..(Len(s) + 1)
      /\ \A i \in 1..Len(s) : Append(s, f)[i] = s[i]
      /\ Append(s, f)[Len(s) + 1] = f
  BY LenProperties, AppendProperties
<1>2. \A x \in Patterns!ToSet(Append(s, f)) : x \in Patterns!ToSet(s) \cup {f}
  BY <1>1 DEF Patterns!ToSet
<1>3. \A x \in Patterns!ToSet(s) \cup {f} : x \in Patterns!ToSet(Append(s, f))
  BY <1>1 DEF Patterns!ToSet
<1>4. QED
  BY <1>2, <1>3

\* A secret is found in a longer prompt as well.
LEMMA SecretsStay ==
    ASSUME NEW s \in Seq(Fragments), NEW f \in Fragments, f # "TEMPLATE",
           Patterns!FindSecret(s)
    PROVE  Patterns!FindSecret(Append(s, f))
<1>1. /\ Len(s) \in Nat /\ Append(s, f) \in Seq(Fragments) /\ Len(Append(s, f)) = Len(s) + 1
      /\ \A i \in 1..Len(s) : Append(s, f)[i] = s[i]
  BY LenProperties, AppendProperties
<1>2. ASSUME NEW pattern \in Patterns!Structured, Patterns!IsReported(pattern, s)
      PROVE  Patterns!IsReported(pattern, Append(s, f))
  <2>1. PICK i \in 1..Len(s) : /\ s[i] = Patterns!Live[pattern]
                               /\ \A j \in 1..(i - 1) : s[j] # Patterns!Sample[pattern]
    BY <1>2, ReportedIs
  <2>2. /\ i \in 1..Len(Append(s, f)) /\ Append(s, f)[i] = Patterns!Live[pattern]
        /\ \A j \in 1..(i - 1) : Append(s, f)[j] # Patterns!Sample[pattern]
    BY <1>1, <2>1
  <2>3. pattern = "env" => ~Patterns!IsTemplate(Append(s, f))
    <3>1. pattern = "env" => ~Patterns!IsTemplate(s)
      BY <1>2, ReportedIs
    <3>2. QED
      BY <3>1, MoreText DEF Patterns!IsTemplate
  <2>4. QED
    BY <1>1, <2>2, <2>3, ReportedIs
<1>3. QED
  BY <1>2, MoreText DEF Patterns!FindSecret

\* The text added to a prompt does not take back an abbreviation at its end.
KeepsSmr(words, f) == words # <<>> /\ Patterns!Last(words) = "SMR" => f # "IS"

\* What the parts of rules match in a prompt, they match in a longer one.
LEMMA MatchesStay ==
    ASSUME NEW s \in Seq(Fragments), NEW f \in Fragments, KeepsSmr(s, f)
    PROVE  Patterns!Matched(s) \subseteq Patterns!Matched(Append(s, f))
<1> DEFINE longer == Append(s, f)
           bare == {i \in DOMAIN s : Patterns!IsBare(s, i)}
           later == {i \in DOMAIN longer : Patterns!IsBare(longer, i)}
<1>1. /\ DOMAIN s = 1..Len(s) /\ Len(s) \in Nat
      /\ DOMAIN longer = 1..(Len(s) + 1) /\ Len(longer) = Len(s) + 1
      /\ \A i \in 1..Len(s) : longer[i] = s[i]
      /\ longer[Len(s) + 1] = f
  BY LenProperties, AppendProperties
<1>2. Patterns!ToSet(longer) = Patterns!ToSet(s) \cup {f}
  BY MoreText
<1>3. ASSUME NEW i \in bare PROVE i \in later
  <2>1. /\ i \in 1..Len(s) /\ s[i] = "SMR" /\ longer[i] = "SMR"
        /\ i < Len(s) => s[i + 1] # "IS"
    BY <1>1 DEF Patterns!IsBare
  <2>2. CASE i < Len(s)
    <3>1. i + 1 \in 1..Len(s)
      BY <1>1, <2>1, <2>2
    <3>2. longer[i + 1] # "IS"
      BY <1>1, <2>1, <2>2, <3>1
    <3>3. QED
      BY <1>1, <2>1, <3>2 DEF Patterns!IsBare
  <2>3. CASE i = Len(s)
    <3>1. s # <<>> /\ Patterns!Last(s) = "SMR"
      BY <1>1, <2>1, <2>3 DEF Patterns!Last
    <3>2. longer[i + 1] # "IS"
      BY <1>1, <2>3, <3>1 DEF KeepsSmr
    <3>3. QED
      BY <1>1, <2>1, <3>2 DEF Patterns!IsBare
  <2>4. QED
    BY <1>1, <2>1, <2>2, <2>3
<1>4. Patterns!Matched(s) = IF bare = {} THEN Patterns!ToSet(s)
                                         ELSE Patterns!ToSet(s) \cup {"SMR_HIT"}
  BY Zenon DEF Patterns!Matched
<1>5. Patterns!Matched(longer) = IF later = {} THEN Patterns!ToSet(longer)
                                               ELSE Patterns!ToSet(longer) \cup {"SMR_HIT"}
  BY Zenon DEF Patterns!Matched
<1>6. QED
  <2> HIDE DEF bare, later, longer
  <2>1. QED
    BY <1>2, <1>3, <1>4, <1>5 DEF longer

\* A rule that applies to a prompt applies to a longer one.
LEMMA RulesStay ==
    ASSUME NEW s \in Seq(Fragments), NEW f \in Fragments \ Patterns!Exemptions, KeepsSmr(s, f)
    PROVE  Applying(s) \subseteq Applying(Append(s, f))
<1>1. ASSUME NEW i \in Applying(s) PROVE i \in Applying(Append(s, f))
  <2>1. i \in 1..6 /\ Patterns!Applies(Order[i], s)
    BY DEF Applying
  <2>2. Order[i] \in Patterns!ToSet(Order)
    BY <2>1, OrderIs DEF Patterns!ToSet
  <2>3. f \notin Order[i].guards
    BY <2>2 DEF Patterns!Exemptions, Order
  <2>4. Patterns!Applies(Order[i], Append(s, f))
    BY <2>1, <2>3, MoreText, MatchesStay DEF Patterns!Applies
  <2>5. QED
    BY <2>1, <2>4 DEF Applying
<1>2. QED
  BY <1>1

\* How strict an outcome is.
LEMMA Lenient ==
    /\ Patterns!Nothing.disposition = 0 /\ Patterns!Swallows.disposition = 0
    /\ \A rule, d : Patterns!Finds(rule, d).disposition = d
BY DEF Patterns!Nothing, Patterns!Swallows, Patterns!Finds, Patterns!Outcome, Patterns!ALLOW

\* The intent scanner is at least as strict with a longer prompt: the rules
\* that apply are more, and the first of them comes no later.
LEMMA IntentStays ==
    ASSUME NEW s \in Seq(Fragments), NEW f \in Fragments \ Patterns!Exemptions, KeepsSmr(s, f)
    PROVE  Patterns!ScanIntent(Append(s, f)).disposition >= Patterns!ScanIntent(s).disposition
<1> DEFINE longer == Append(s, f)
<1>1. Applying(s) \subseteq Applying(longer)
  BY RulesStay
<1> HIDE DEF longer
<1>2. CASE Applying(longer) = {}
  <2>1. Applying(s) = {}
    BY <1>1, <1>2
  <2>2. QED
    BY <1>2, <2>1, IntentIs, Lenient DEF longer
<1>3. CASE Applying(longer) # {}
  <2>1. PICK i \in Applying(longer) :
           /\ \A j \in Applying(longer) : i <= j
           /\ Patterns!ScanIntent(longer) = Patterns!Finds(Order[i].name, Order[i].disposition)
    BY <1>3, IntentIs
  <2>2. i \in 1..6 /\ Patterns!ScanIntent(longer).disposition = Order[i].disposition
    BY <2>1, Lenient DEF Applying
  <2>3. CASE Applying(s) = {}
    <3>1. Patterns!ScanIntent(s).disposition = 0
      BY <2>3, IntentIs, Lenient
    <3>2. QED
      BY <2>2, <3>1, VerdictsCompare DEF longer
  <2>4. CASE Applying(s) # {}
    <3>1. PICK k \in Applying(s) :
             Patterns!ScanIntent(s) = Patterns!Finds(Order[k].name, Order[k].disposition)
      BY <2>4, IntentIs
    <3>2. k \in 1..6 /\ i <= k
      BY <1>1, <2>1 DEF Applying
    <3>3. Patterns!ScanIntent(s).disposition = Order[k].disposition
      BY <3>1, Lenient
    <3>4. QED
      BY <2>2, <3>2, <3>3, VerdictsCompare DEF longer
  <2>5. QED
    BY <2>3, <2>4
<1>4. QED
  BY <1>2, <1>3

\* No detector is more lenient with a longer prompt.
LEMMA LongerStep ==
    ASSUME PatternInv, PatternInv', Patterns!Next, Len(text') > Len(text)
    PROVE  \/ Patterns!Last(text') \in Patterns!Exemptions
           \/ Patterns!ExplainsSmr
           \/ \A name \in Patterns!Names :
                 \/ outcome'[name] = Patterns!Swallows
                 \/ outcome'[name].disposition >= outcome[name].disposition
<1> SUFFICES ASSUME Patterns!Last(text') \notin Patterns!Exemptions, ~Patterns!ExplainsSmr
             PROVE  \A name \in Patterns!Names :
                       \/ outcome'[name] = Patterns!Swallows
                       \/ outcome'[name].disposition >= outcome[name].disposition
  OBVIOUS
<1>1. text \in Seq(Fragments) /\ Len(text) \in Nat
  BY LenProperties DEF PatternInv
<1>2. Patterns!ScanLonger
  BY <1>1 DEF Patterns!Next, Patterns!Finished, Patterns!vars
<1>3. PICK f \in Fragments : text' = Append(text, f)
  BY <1>2 DEF Patterns!ScanLonger
<1>4. f \in Fragments \ Patterns!Exemptions /\ KeepsSmr(text, f)
  <2>1. Patterns!Last(text') = f
    BY <1>1, <1>3, AppendProperties DEF Patterns!Last
  <2>2. QED
    BY <2>1 DEF KeepsSmr, Patterns!ExplainsSmr
<1>5. PICK fails \in BOOLEAN : outcome = Patterns!Scan(text, fails)
  BY DEF PatternInv
<1>6. PICK later \in BOOLEAN : outcome' = Patterns!Scan(Append(text, f), later)
  BY <1>2, <1>3 DEF Patterns!ScanLonger
<1> DEFINE longer == Append(text, f)
<1>7. /\ outcome["secrets_scanner"] = Patterns!ScanSecrets(text)
      /\ outcome["intent_compliance_scanner"] = Patterns!ScanIntent(text)
      /\ outcome["pii_detector"] = Patterns!ScanPii(text, fails)
  BY <1>5 DEF Patterns!Scan, Patterns!Names
<1>8. /\ outcome'["secrets_scanner"] = Patterns!ScanSecrets(longer)
      /\ outcome'["intent_compliance_scanner"] = Patterns!ScanIntent(longer)
      /\ outcome'["pii_detector"] = Patterns!ScanPii(longer, later)
  BY <1>6 DEF Patterns!Scan, Patterns!Names
<1>9. Patterns!ScanSecrets(longer).disposition >= Patterns!ScanSecrets(text).disposition
  <2>1. f # "TEMPLATE"
    <3>1. "TEMPLATE" \in Patterns!Exemptions
      BY DEF Patterns!Exemptions
    <3>2. QED
      BY <1>4, <3>1
  <2>2. Patterns!FindSecret(text) => Patterns!FindSecret(longer)
    BY <1>1, <1>4, <2>1, SecretsStay
  <2>3. QED
    BY <2>2, Lenient DEF Patterns!ScanSecrets, Patterns!STOP
<1>10. Patterns!ScanIntent(longer).disposition >= Patterns!ScanIntent(text).disposition
  BY <1>1, <1>4, IntentStays
<1>11. \/ Patterns!ScanPii(longer, later) = Patterns!Swallows
       \/ Patterns!ScanPii(longer, later).disposition >= Patterns!ScanPii(text, fails).disposition
  <2>1. "PII" \in Patterns!ToSet(text) => "PII" \in Patterns!ToSet(longer)
    BY <1>1, <1>4, MoreText
  <2>2. Patterns!ScanPii(text, fails).disposition \in {0, 2}
    BY Lenient DEF Patterns!ScanPii, Patterns!STOP
  <2>3. CASE "PII" \notin Patterns!ToSet(longer)
    <3>1. /\ Patterns!ScanPii(text, fails).disposition = 0
          /\ Patterns!ScanPii(longer, later).disposition = 0
      BY <2>1, <2>3, Lenient DEF Patterns!ScanPii
    <3>2. QED
      BY <3>1
  <2>4. CASE "PII" \in Patterns!ToSet(longer)
    BY <2>2, <2>4, Lenient DEF Patterns!ScanPii, Patterns!STOP
  <2>5. QED
    BY <2>3, <2>4
<1>12. QED
  BY <1>7, <1>8, <1>9, <1>10, <1>11, Zenon DEF Patterns!Names

\* Every detector reports a prompt exactly when its tables say so, with the
\* strictest rule that applies first, whatever the prompt is made of
\* (scan_secrets, detect_pii and scan_intent).
THEOREM DetectorsAreExactAlways == Patterns!Spec => []DetectorsAreExact
<1>1. QED
  BY InitPatterns, NextPatterns, DetectorsExact, PTL DEF Patterns!Spec, DetectorsAreExact

\* A fragment that is added to a prompt makes no detector more lenient, unless
\* it is one of those that exempt a prompt from a rule, or the "is" right behind
\* an abbreviation that _SMR_HIT matched at the end of the prompt.
THEOREM LongerAlways == Patterns!Spec => LongerIsNoMoreLenient
<1>1. PatternInv /\ PatternInv' /\ [Patterns!Next]_(Patterns!vars)
        => [ Len(text') > Len(text) =>
             \/ Patterns!Last(text') \in Patterns!Exemptions
             \/ Patterns!ExplainsSmr
             \/ \A name \in Patterns!Names :
                   \/ outcome'[name] = Patterns!Swallows
                   \/ outcome'[name].disposition >= outcome[name].disposition ]_(Patterns!vars)
  BY LongerStep
<1>2. QED
  BY InitPatterns, NextPatterns, <1>1, PTL DEF Patterns!Spec, Patterns!LongerIsNoMoreLenient,
     LongerIsNoMoreLenient

\* The state of the trie, of the injection detector and of the detectors
\* without state stays within its types.
THEOREM TypesAlways == Trie!Spec /\ Phrases!Spec /\ Patterns!Spec => []TypeOK
<1>1. TrieInv /\ PhraseInv /\ PhraseBounds /\ PatternInv => TypeOK
  BY TrieTypes, PhraseTypesOK, PatternTypes DEF TypeOK
<1>2. Phrases!Spec => []PhraseInv
  BY InitPhrases, NextPhrases, PTL DEF Phrases!Spec
<1>3. Patterns!Spec => []PatternInv
  BY InitPatterns, NextPatterns, PTL DEF Patterns!Spec
<1>4. QED
  BY AlwaysTrieInv, AlwaysPhraseBounds, <1>1, <1>2, <1>3, PTL

-----------------------------------------------------------------------------
(* The redaction of an answer.                                             *)

\* The matches in a text of n atoms.
Matches(n) == {m \in (1..n) \X (1..n) : m[1] <= m[2]}

\* What findall finds are matches.
LEMMA FindAllType ==
    ASSUME NEW pattern, NEW s, Len(s) \in Nat
    PROVE  Answers!FindAll(pattern, s) \in Seq(Matches(Len(s)))
<1> DEFINE n == Len(s)
           T == Seq(Matches(n))
           Ends(i) == {j \in i..n : Answers!IsMatch(pattern, s, i, j)}
           End(i) == CHOOSE j \in Ends(i) : TRUE
           IsFrom(h) == h = [i \in 1..(n + 1) |->
                               IF i > n THEN <<>>
                               ELSE IF Ends(i) = {} THEN h[i + 1]
                               ELSE <<<<i, End(i)>>>> \o h[End(i) + 1]]
           from == CHOOSE h : IsFrom(h)
           next == [i \in 1..n |-> IF Ends(i) = {} THEN i + 1 ELSE End(i) + 1]
           g == [i \in 1..n |-> [x \in T |-> IF Ends(i) = {} THEN x ELSE <<<<i, End(i)>>>> \o x]]
           b == <<>>
<1>1. Answers!FindAll(pattern, s) = from[1]
  BY DEF Answers!FindAll
<1>2. n \in Nat
  OBVIOUS
<1> HIDE DEF n
<1>3. \A i \in 1..n : Ends(i) # {} => End(i) \in i..n
  OBVIOUS
<1> HIDE DEF Ends, End
<1>4. ASSUME NEW i \in 1..n, Ends(i) # {}, NEW x \in T PROVE <<<<i, End(i)>>>> \o x \in T
  <2>1. <<i, End(i)>> \in Matches(n)
    BY <1>2, <1>3, <1>4 DEF Matches
  <2> DEFINE m == <<i, End(i)>>
  <2> HIDE DEF m
  <2>2. <<m>> \in T
    BY <2>1 DEF m
  <2>3. <<m>> \o x \in T
    BY <2>2, ConcatProperties
  <2>4. QED
    BY <2>3 DEF m
<1>5. \E h : IsFrom(h)
  <2>1. g \in [1..n -> [T -> T]] /\ b \in T
    BY <1>4
  <2>2. Jumps(n, next)
    BY <1>2, <1>3 DEF Jumps
  <2>3. PICK h : Solves(T, b, n, next, g, h)
    <3> HIDE DEF g, next, T, b, IsFrom
    <3>1. QED
      BY <1>2, <2>1, <2>2, JumpsExist
  <2>4. h \in [1..(n + 1) -> T] /\ h[n + 1] = b /\ \A i \in 1..n : h[i] = g[i][h[next[i]]]
    <3> HIDE DEF g, next, T, b, IsFrom
    <3>1. QED
      BY <2>3 DEF Solves
  <2>5. ASSUME NEW i \in 1..n
        PROVE  h[i] = IF Ends(i) = {} THEN h[i + 1] ELSE <<<<i, End(i)>>>> \o h[End(i) + 1]
    <3>1. h[next[i]] \in T
      BY <2>2, <2>4 DEF Jumps
    <3>2. QED
      BY <2>4, <3>1
  <2>6. \A i \in 1..(n + 1) : (i > n /\ i = n + 1) \/ (~(i > n) /\ i \in 1..n)
    BY <1>2
  <2>7. IsFrom(h)
    BY <2>4, <2>5, <2>6
  <2>8. QED
    BY <2>7
<1>6. IsFrom(from)
  <2> HIDE DEF IsFrom
  <2>1. QED
    BY <1>5, Zenon
<1> HIDE DEF from
<1> DEFINE G == {i \in 1..(n + 1) : from[i] \in T}
<1>7. n + 1 \in G
  <2>1. n + 1 \in 1..(n + 1) /\ n + 1 > n
    BY <1>2
  <2>2. from[n + 1] = <<>>
    BY <1>6, <2>1
  <2>3. <<>> \in T
    OBVIOUS
  <2> HIDE DEF T
  <2>4. QED
    BY <2>1, <2>2, <2>3
<1>8. ASSUME NEW i \in 1..n, \A j \in (i + 1)..(n + 1) : j \in G PROVE i \in G
  <2>1. i \in 1..(n + 1) /\ ~(i > n)
    BY <1>2
  <2>2. from[i] = IF Ends(i) = {} THEN from[i + 1] ELSE <<<<i, End(i)>>>> \o from[End(i) + 1]
    BY <1>6, <2>1
  <2>3. CASE Ends(i) = {}
    <3>1. i + 1 \in (i + 1)..(n + 1)
      BY <1>2
    <3>2. from[i + 1] \in T
      BY <1>8, <3>1
    <3>3. QED
      BY <2>1, <2>2, <2>3, <3>2
  <2>4. CASE Ends(i) # {}
    <3>1. End(i) + 1 \in (i + 1)..(n + 1)
      BY <1>2, <1>3, <2>4
    <3>2. from[End(i) + 1] \in T
      BY <1>8, <3>1
    <3>3. QED
      BY <1>4, <2>1, <2>2, <2>4, <3>2
  <2>5. QED
    BY <2>3, <2>4
<1> HIDE DEF G
<1>9. 1 \in G
  <2>1. \A i \in 1..(n + 1) : i \in G
    BY <1>2, <1>7, <1>8, InductionDown
  <2>2. QED
    BY <1>2, <2>1
<1>10. QED
  BY <1>1, <1>9 DEF G, n

\* Atoms, and what stands for those that are gone.
Tokens == Answers!Atoms \cup {Answers!Redacted}
\* The texts that are redacted are not empty.
SpanTexts == Seq(Answers!Atoms) \ {<<>>}

\* One token in front of others.
LEMMA OneToken ==
    ASSUME NEW S, NEW a \in S, NEW x \in Seq(S)
    PROVE  /\ <<a>> \o x \in Seq(S) /\ Len(<<a>> \o x) = 1 + Len(x)
           /\ (<<a>> \o x)[1] = a
           /\ \A i \in 1..Len(x) : (<<a>> \o x)[i + 1] = x[i]
<1> DEFINE u == <<a>>
<1>1. u \in Seq(S) /\ Len(u) = 1 /\ u[1] = a
  OBVIOUS
<1> HIDE DEF u
<1>2. Len(x) \in Nat
  BY LenProperties
<1>3. /\ u \o x \in Seq(S) /\ Len(u \o x) = Len(u) + Len(x)
      /\ \A i \in 1..(Len(u) + Len(x)) : (u \o x)[i] = IF i <= Len(u) THEN u[i] ELSE x[i - Len(u)]
  BY <1>1, ConcatProperties
<1>4. QED
  BY <1>1, <1>2, <1>3 DEF u

\* The recursion of Replace.
Replaces(s, span, h) ==
    /\ h \in [1..(Len(s) + 1) -> Seq(Tokens)]
    /\ h[Len(s) + 1] = <<>>
    /\ \A i \in 1..Len(s) :
          h[i] = IF Answers!IsAt(span, s, i) THEN <<Answers!Redacted>> \o h[i + Len(span)]
                                             ELSE <<s[i]>> \o h[i + 1]

\* A span ends within the text in which it stands.
LEMMA SpanFits ==
    ASSUME NEW s \in Seq(Tokens), NEW span \in SpanTexts, NEW i \in 1..Len(s),
           Answers!IsAt(span, s, i)
    PROVE  Len(span) \in Nat \ {0} /\ i + Len(span) \in (i + 1)..(Len(s) + 1)
<1>1. Len(s) \in Nat /\ Len(span) \in Nat /\ Len(span) # 0
  BY LenProperties, EmptySeq DEF SpanTexts
<1>2. QED
  BY <1>1 DEF Answers!IsAt

\* Replace solves its recursion.
LEMMA ReplaceIs ==
    ASSUME NEW s \in Seq(Tokens), NEW span \in SpanTexts
    PROVE  \E h : Replaces(s, span, h) /\ Answers!Replace(s, span) = h[1]
<1> DEFINE n == Len(s)
           T == Seq(Tokens)
           Here(i) == Answers!IsAt(span, s, i)
           IsFrom(h) == h = [i \in 1..(n + 1) |->
                               IF i > n THEN <<>>
                               ELSE IF Here(i) THEN <<Answers!Redacted>> \o h[i + Len(span)]
                               ELSE <<s[i]>> \o h[i + 1]]
           from == CHOOSE h : IsFrom(h)
           next == [i \in 1..n |-> IF Here(i) THEN i + Len(span) ELSE i + 1]
           g == [i \in 1..n |-> [x \in T |-> IF Here(i) THEN <<Answers!Redacted>> \o x
                                                        ELSE <<s[i]>> \o x]]
           b == <<>>
<1>1. Answers!Replace(s, span) = from[1]
  BY DEF Answers!Replace
<1>2. n \in Nat /\ \A i \in 1..n : s[i] \in Tokens
  BY LenProperties, ElementOfSeq
<1>3. \A i \in 1..n : Here(i) => i + Len(span) \in (i + 1)..(n + 1)
  BY SpanFits
<1> HIDE DEF n, Here
<1>4. \A i \in 1..n, x \in T : <<Answers!Redacted>> \o x \in T /\ <<s[i]>> \o x \in T
  <2>1. \A a \in Tokens, x \in Seq(Tokens) : <<a>> \o x \in Seq(Tokens)
    BY OneToken
  <2>2. Answers!Redacted \in Tokens
    BY Zenon DEF Tokens
  <2>3. QED
    BY <1>2, <2>1, <2>2
<1>5. \E h : IsFrom(h)
  <2>1. g \in [1..n -> [T -> T]] /\ b \in T
    BY <1>4
  <2>2. Jumps(n, next)
    BY <1>2, <1>3 DEF Jumps
  <2>3. PICK h : Solves(T, b, n, next, g, h)
    <3> HIDE DEF g, next, T, b, IsFrom
    <3>1. QED
      BY <1>2, <2>1, <2>2, JumpsExist
  <2>4. h \in [1..(n + 1) -> T] /\ h[n + 1] = b /\ \A i \in 1..n : h[i] = g[i][h[next[i]]]
    <3> HIDE DEF g, next, T, b, IsFrom
    <3>1. QED
      BY <2>3 DEF Solves
  <2>5. ASSUME NEW i \in 1..n
        PROVE  h[i] = IF Here(i) THEN <<Answers!Redacted>> \o h[i + Len(span)]
                                 ELSE <<s[i]>> \o h[i + 1]
    <3>1. h[next[i]] \in T
      BY <2>2, <2>4 DEF Jumps
    <3>2. QED
      BY <2>4, <3>1
  <2>6. \A i \in 1..(n + 1) : (i > n /\ i = n + 1) \/ (~(i > n) /\ i \in 1..n)
    BY <1>2
  <2>7. IsFrom(h)
    BY <2>4, <2>5, <2>6
  <2>8. QED
    BY <2>7
<1>6. IsFrom(from)
  <2> HIDE DEF IsFrom
  <2>1. QED
    BY <1>5, Zenon
<1> HIDE DEF from
<1>7. /\ from[n + 1] = <<>>
      /\ \A i \in 1..n : from[i] = IF Here(i) THEN <<Answers!Redacted>> \o from[i + Len(span)]
                                              ELSE <<s[i]>> \o from[i + 1]
      /\ DOMAIN from = 1..(n + 1) /\ from = [i \in 1..(n + 1) |-> from[i]]
  <2>1. n + 1 \in 1..(n + 1) /\ n + 1 > n /\ \A i \in 1..n : i \in 1..(n + 1) /\ ~(i > n)
    BY <1>2
  <2>2. QED
    BY <1>6, <2>1
<1> HIDE DEF IsFrom
<1> DEFINE G == {i \in 1..(n + 1) : from[i] \in T}
<1>8. n + 1 \in G
  <2>1. n + 1 \in 1..(n + 1)
    BY <1>2
  <2>2. <<>> \in T
    OBVIOUS
  <2> HIDE DEF T
  <2>3. QED
    BY <1>7, <2>1, <2>2
<1>9. ASSUME NEW i \in 1..n, \A j \in (i + 1)..(n + 1) : j \in G PROVE i \in G
  <2>1. i \in 1..(n + 1) /\ i + 1 \in (i + 1)..(n + 1)
    BY <1>2
  <2>2. from[i + 1] \in T /\ (Here(i) => from[i + Len(span)] \in T)
    BY <1>3, <1>9, <2>1
  <2> HIDE DEF T
  <2>3. from[i] \in T
    BY <1>4, <1>7, <2>2
  <2>4. QED
    BY <2>1, <2>3
<1> HIDE DEF G
<1>10. \A i \in 1..(n + 1) : i \in G
  BY <1>2, <1>8, <1>9, InductionDown
<1>11. from \in [1..(n + 1) -> T]
  BY <1>7, <1>10 DEF G
<1>12. Replaces(s, span, from)
  BY <1>7, <1>11 DEF Replaces, n, Here
<1>13. QED
  BY <1>1, <1>12

\* The recursion of Kept.
Keeps(s, positions, h) ==
    /\ h[Len(s) + 1] = <<>>
    /\ \A i \in 1..Len(s) :
          h[i] = IF i \in positions \/ s[i] = Answers!Redacted THEN h[i + 1]
                                                              ELSE <<s[i]>> \o h[i + 1]

\* Kept solves its recursion.
LEMMA KeptIs ==
    ASSUME NEW s \in Seq(Tokens), NEW positions
    PROVE  \E h : Keeps(s, positions, h) /\ Answers!Kept(s, positions) = h[1]
<1> DEFINE n == Len(s)
           T == Seq(Tokens)
           Gone(i) == i \in positions \/ s[i] = Answers!Redacted
           IsFrom(h) == h = [i \in 1..(n + 1) |->
                               IF i > n THEN <<>>
                               ELSE IF Gone(i) THEN h[i + 1]
                               ELSE <<s[i]>> \o h[i + 1]]
           from == CHOOSE h : IsFrom(h)
           next == [i \in 1..n |-> i + 1]
           g == [i \in 1..n |-> [x \in T |-> IF Gone(i) THEN x ELSE <<s[i]>> \o x]]
           b == <<>>
<1>1. Answers!Kept(s, positions) = from[1]
  BY DEF Answers!Kept
<1>2. n \in Nat /\ \A i \in 1..n : s[i] \in Tokens
  BY LenProperties, ElementOfSeq
<1> HIDE DEF n, Gone
<1>3. \A i \in 1..n, x \in T : <<s[i]>> \o x \in T
  <2>1. \A a \in Tokens, x \in Seq(Tokens) : <<a>> \o x \in Seq(Tokens)
    BY OneToken
  <2>2. QED
    BY <1>2, <2>1
<1>4. \E h : IsFrom(h)
  <2>1. g \in [1..n -> [T -> T]] /\ b \in T
    BY <1>3
  <2>2. Jumps(n, next)
    BY <1>2 DEF Jumps
  <2>3. PICK h : Solves(T, b, n, next, g, h)
    <3> HIDE DEF g, next, T, b, IsFrom
    <3>1. QED
      BY <1>2, <2>1, <2>2, JumpsExist
  <2>4. h \in [1..(n + 1) -> T] /\ h[n + 1] = b /\ \A i \in 1..n : h[i] = g[i][h[next[i]]]
    <3> HIDE DEF g, next, T, b, IsFrom
    <3>1. QED
      BY <2>3 DEF Solves
  <2>5. ASSUME NEW i \in 1..n
        PROVE  h[i] = IF Gone(i) THEN h[i + 1] ELSE <<s[i]>> \o h[i + 1]
    <3>1. h[next[i]] \in T
      BY <2>2, <2>4 DEF Jumps
    <3>2. QED
      BY <2>4, <3>1
  <2>6. \A i \in 1..(n + 1) : (i > n /\ i = n + 1) \/ (~(i > n) /\ i \in 1..n)
    BY <1>2
  <2>7. IsFrom(h)
    BY <2>4, <2>5, <2>6
  <2>8. QED
    BY <2>7
<1>5. IsFrom(from)
  <2> HIDE DEF IsFrom
  <2>1. QED
    BY <1>4, Zenon
<1> HIDE DEF from
<1>6. /\ from[n + 1] = <<>>
      /\ \A i \in 1..n : from[i] = IF Gone(i) THEN from[i + 1] ELSE <<s[i]>> \o from[i + 1]
  <2>1. n + 1 \in 1..(n + 1) /\ n + 1 > n /\ \A i \in 1..n : i \in 1..(n + 1) /\ ~(i > n)
    BY <1>2
  <2>2. QED
    BY <1>5, <2>1
<1>7. Keeps(s, positions, from)
  BY <1>6 DEF Keeps, n, Gone
<1>8. QED
  BY <1>1, <1>7

-----------------------------------------------------------------------------
\* w is x from position k on.
Suffix(w, k, x) ==
    /\ k \in 1..(Len(w) + 1)
    /\ Len(x) = Len(w) - k + 1
    /\ \A l \in 1..Len(x) : x[l] = w[k + l - 1]

\* The first token of the rest of a sequence, and the rest after it.
LEMMA SuffixStep ==
    ASSUME NEW w \in Seq(Tokens), NEW k, NEW a \in Tokens, NEW x \in Seq(Tokens),
           Suffix(w, k, <<a>> \o x)
    PROVE  k \in 1..Len(w) /\ w[k] = a /\ Suffix(w, k + 1, x)
<1> DEFINE y == <<a>> \o x
<1>1. Len(w) \in Nat /\ Len(x) \in Nat
  BY LenProperties
<1>2. Len(y) = 1 + Len(x) /\ y[1] = a /\ \A i \in 1..Len(x) : y[i + 1] = x[i]
  BY OneToken
<1>3. k \in 1..(Len(w) + 1) /\ Len(y) = Len(w) - k + 1 /\ \A l \in 1..Len(y) : y[l] = w[k + l - 1]
  BY DEF Suffix
<1> HIDE DEF y
<1>4. k \in 1..Len(w) /\ k + 1 \in 1..(Len(w) + 1) /\ Len(x) = Len(w) - (k + 1) + 1
  BY <1>1, <1>2, <1>3
<1>5. w[k] = a
  <2>1. 1 \in 1..Len(y) /\ k + 1 - 1 = k
    BY <1>1, <1>2, <1>4
  <2>2. QED
    BY <1>2, <1>3, <2>1
<1>6. \A l \in 1..Len(x) : x[l] = w[(k + 1) + l - 1]
  <2>1. ASSUME NEW l \in 1..Len(x) PROVE x[l] = w[(k + 1) + l - 1]
    <3>1. l + 1 \in 1..Len(y) /\ k + (l + 1) - 1 = (k + 1) + l - 1
      BY <1>1, <1>2, <1>4
    <3>2. y[l + 1] = w[k + (l + 1) - 1] /\ y[l + 1] = x[l]
      BY <1>2, <1>3, <3>1
    <3>3. QED
      BY <3>1, <3>2
  <2>2. QED
    BY <2>1
<1>7. QED
  BY <1>4, <1>5, <1>6 DEF Suffix

\* What is replaced differs from every atom.
LEMMA TokensDiffer ==
    Answers!Redacted \notin Answers!Atoms /\ Answers!Redacted \in Tokens /\ Answers!Atoms \subseteq Tokens
BY DEF Answers!Redacted, Answers!Atoms, Tokens

\* Matches that have no position in common.
AreApart(n, O) ==
    /\ O \subseteq Matches(n)
    /\ \A m, o \in O : m = o \/ (m[1]..m[2]) \cap (o[1]..o[2]) = {}

\* c[i] is what is left of s from i on when each match of O is replaced.
Collapses(s, O, c) ==
    /\ c \in [1..(Len(s) + 1) -> Seq(Tokens)]
    /\ c[Len(s) + 1] = <<>>
    /\ \A m \in O : c[m[1]] = <<Answers!Redacted>> \o c[m[2] + 1]
    /\ \A i \in 1..Len(s) : (\A m \in O : m[1] # i) => c[i] = <<s[i]>> \o c[i + 1]

\* The positions of a match.
LEMMA MatchIs ==
    ASSUME NEW n \in Nat, NEW m \in Matches(n)
    PROVE  m[1] \in 1..n /\ m[2] \in 1..n /\ m[1] <= m[2] /\ m = <<m[1], m[2]>>
BY DEF Matches

\* Where a match starts it is the only one.
LEMMA OneStarts ==
    ASSUME NEW n \in Nat, NEW O, AreApart(n, O), NEW m \in O, NEW o \in O, m[1] = o[1]
    PROVE  m = o
<1>1. m \in Matches(n) /\ o \in Matches(n)
  BY DEF AreApart
<1>2. m[1] \in m[1]..m[2] /\ m[1] \in o[1]..o[2]
  BY <1>1, MatchIs
<1>3. QED
  BY <1>2 DEF AreApart

\* Matches that are apart can all be replaced.
LEMMA CollapseExists ==
    ASSUME NEW s \in Seq(Answers!Atoms), NEW O, AreApart(Len(s), O)
    PROVE  \E c : Collapses(s, O, c)
<1> DEFINE n == Len(s)
           T == Seq(Tokens)
           Starts(i) == \E m \in O : m[1] = i
           At(i) == CHOOSE m \in O : m[1] = i
           next == [i \in 1..n |-> IF Starts(i) THEN At(i)[2] + 1 ELSE i + 1]
           g == [i \in 1..n |-> [x \in T |-> IF Starts(i) THEN <<Answers!Redacted>> \o x
                                                          ELSE <<s[i]>> \o x]]
           b == <<>>
<1>1. n \in Nat /\ \A i \in 1..n : s[i] \in Tokens
  <2>1. n \in Nat /\ \A i \in 1..n : s[i] \in Answers!Atoms
    BY LenProperties, ElementOfSeq
  <2>2. QED
    BY <2>1, TokensDiffer
<1>2. AreApart(n, O)
  OBVIOUS
<1> HIDE DEF n
<1>3. \A m \in O : m[1] \in 1..n /\ m[2] \in 1..n /\ m[1] <= m[2]
  BY <1>1, <1>2, MatchIs DEF AreApart
<1>4. \A i : Starts(i) => At(i) \in O /\ At(i)[1] = i
  OBVIOUS
<1>5. \A m \in O : Starts(m[1]) /\ At(m[1]) = m
  BY <1>1, <1>2, <1>4, OneStarts
<1> HIDE DEF Starts, At
<1>6. \A i \in 1..n, x \in T : <<Answers!Redacted>> \o x \in T /\ <<s[i]>> \o x \in T
  <2>1. \A a \in Tokens, x \in Seq(Tokens) : <<a>> \o x \in Seq(Tokens)
    BY OneToken
  <2>2. QED
    BY <1>1, <2>1, TokensDiffer
<1>7. g \in [1..n -> [T -> T]] /\ b \in T
  BY <1>6
<1>8. Jumps(n, next)
  BY <1>1, <1>3, <1>4 DEF Jumps
<1>9. PICK h : Solves(T, b, n, next, g, h)
  <2> HIDE DEF g, next, T, b
  <2>1. QED
    BY <1>1, <1>7, <1>8, JumpsExist
<1>10. h \in [1..(n + 1) -> T] /\ h[n + 1] = b /\ \A i \in 1..n : h[i] = g[i][h[next[i]]]
  <2> HIDE DEF g, next, T, b
  <2>1. QED
    BY <1>9 DEF Solves
<1>11. ASSUME NEW i \in 1..n
       PROVE  h[i] = IF Starts(i) THEN <<Answers!Redacted>> \o h[At(i)[2] + 1]
                                  ELSE <<s[i]>> \o h[i + 1]
  <2>1. h[next[i]] \in T
    BY <1>8, <1>10 DEF Jumps
  <2>2. QED
    BY <1>10, <2>1
<1>12. \A m \in O : h[m[1]] = <<Answers!Redacted>> \o h[m[2] + 1]
  BY <1>3, <1>5, <1>11
<1>13. \A i \in 1..n : (\A m \in O : m[1] # i) => h[i] = <<s[i]>> \o h[i + 1]
  BY <1>4, <1>11
<1>14. QED
  BY <1>10, <1>12, <1>13 DEF Collapses, n

\* Replacing nothing leaves the text.
LEMMA CollapseNothing ==
    ASSUME NEW s \in Seq(Answers!Atoms), NEW c, Collapses(s, {}, c)
    PROVE  c[1] = s
<1> DEFINE n == Len(s)
           G == {i \in 1..(n + 1) : Suffix(s, i, c[i])}
<1>1. n \in Nat /\ s \in Seq(Tokens) /\ \A i \in 1..n : s[i] \in Tokens
  <2>1. s \in Seq(Tokens)
    BY TokensDiffer, SeqMonotonic
  <2>2. QED
    BY <2>1, LenProperties, ElementOfSeq
<1>2. /\ \A i \in 1..(n + 1) : c[i] \in Seq(Tokens)
      /\ c[n + 1] = <<>> /\ \A i \in 1..n : c[i] = <<s[i]>> \o c[i + 1]
  BY DEF Collapses
<1>3. n + 1 \in G
  <2>1. n + 1 \in 1..(n + 1) /\ Len(<<>>) = 0 /\ 0 = n - (n + 1) + 1
    BY <1>1
  <2>2. Suffix(s, n + 1, <<>>)
    BY <2>1 DEF Suffix
  <2>3. QED
    BY <1>2, <2>1, <2>2
<1>4. ASSUME NEW i \in 1..n, \A j \in (i + 1)..(n + 1) : j \in G PROVE i \in G
  <2>1. i + 1 \in (i + 1)..(n + 1) /\ i \in 1..(n + 1) /\ i + 1 \in 1..(n + 1)
    BY <1>1
  <2>2. Suffix(s, i + 1, c[i + 1])
    BY <1>4, <2>1
  <2> DEFINE x == c[i + 1]
             y == <<s[i]>> \o x
  <2>3. x \in Seq(Tokens) /\ Len(x) \in Nat
    BY <1>2, <2>1, LenProperties
  <2>4. Len(y) = 1 + Len(x) /\ y[1] = s[i] /\ \A l \in 1..Len(x) : y[l + 1] = x[l]
    BY <1>1, <2>3, OneToken
  <2>5. Len(x) = n - (i + 1) + 1 /\ \A l \in 1..Len(x) : x[l] = s[(i + 1) + l - 1]
    BY <2>2 DEF Suffix
  <2>6. c[i] = y
    BY <1>2
  <2> HIDE DEF x, y
  <2>7. ASSUME NEW l \in 1..Len(y) PROVE y[l] = s[i + l - 1]
    <3>1. CASE l = 1
      BY <2>4, <3>1
    <3>2. CASE l # 1
      <4>1. l - 1 \in 1..Len(x) /\ (l - 1) + 1 = l /\ (i + 1) + (l - 1) - 1 = i + l - 1
        BY <2>3, <2>4, <3>2
      <4>2. y[(l - 1) + 1] = x[l - 1] /\ x[l - 1] = s[(i + 1) + (l - 1) - 1]
        BY <2>4, <2>5, <4>1
      <4>3. QED
        BY <4>1, <4>2
    <3>3. QED
      BY <3>1, <3>2
  <2>8. Len(y) = n - i + 1
    BY <1>1, <2>4, <2>5
  <2>9. Suffix(s, i, y)
    BY <2>1, <2>7, <2>8 DEF Suffix
  <2>10. QED
    BY <2>1, <2>6, <2>9
<1> HIDE DEF G
<1>5. 1 \in G
  <2>1. \A i \in 1..(n + 1) : i \in G
    BY <1>1, <1>3, <1>4, InductionDown
  <2>2. QED
    BY <1>1, <2>1
<1>6. Suffix(s, 1, c[1]) /\ c[1] \in Seq(Tokens)
  <2>1. 1 \in 1..(n + 1)
    BY <1>1
  <2>2. QED
    BY <1>2, <1>5, <2>1 DEF G
<1>7. Len(c[1]) = n /\ \A l \in 1..n : c[1][l] = s[l]
  BY <1>1, <1>6 DEF Suffix
<1>8. QED
  BY <1>1, <1>6, <1>7, SeqEqual

\* Nothing is replaced on the next M tokens, for what is seen of s, or of w.
Unreplaced(s, O, w, i, k, M) ==
    \A l \in 0..(M - 1) :
        \/ i + l <= Len(s) /\ \A m \in O : m[1] # i + l
        \/ k + l <= Len(w) /\ w[k + l] # Answers!Redacted

\* The matches end within the text.
WithinText(s, O) == \A m \in O : m[2] + 1 \in 1..(Len(s) + 1)

\* The next M tokens of what s has become are those of s.
Unchanged(s, c, w, i, k, M) ==
    /\ i + M <= Len(s) + 1 /\ Suffix(w, k + M, c[i + M])
    /\ \A l \in 0..(M - 1) : w[k + l] = s[i + l]

\* Going along s and what it has become, as long as nothing is replaced.
LEMMA Walk ==
    ASSUME NEW s \in Seq(Answers!Atoms), NEW O, NEW c, Collapses(s, O, c),
           NEW w \in Seq(Tokens), NEW i \in 1..(Len(s) + 1), NEW k, Suffix(w, k, c[i]),
           NEW M \in Nat, Unreplaced(s, O, w, i, k, M), WithinText(s, O)
    PROVE  Unchanged(s, c, w, i, k, M)
<1> DEFINE n == Len(s)
           Along(j) == /\ i + j <= n + 1 /\ Suffix(w, k + j, c[i + j])
                       /\ \A l \in 0..(j - 1) : w[k + l] = s[i + l]
           G == {j \in 0..M : Along(j)}
<1>1. n \in Nat /\ Len(w) \in Nat /\ \A j \in 1..n : s[j] \in Tokens
  <2>1. n \in Nat /\ Len(w) \in Nat /\ \A j \in 1..n : s[j] \in Answers!Atoms
    BY LenProperties, ElementOfSeq
  <2>2. QED
    BY <2>1, TokensDiffer
<1>2. k \in 1..(Len(w) + 1) /\ i \in 1..(n + 1)
  BY DEF Suffix
<1>3. /\ \A j \in 1..(n + 1) : c[j] \in Seq(Tokens)
      /\ c[n + 1] = <<>>
      /\ \A m \in O : c[m[1]] = <<Answers!Redacted>> \o c[m[2] + 1]
      /\ \A j \in 1..n : (\A m \in O : m[1] # j) => c[j] = <<s[j]>> \o c[j + 1]
  BY DEF Collapses
<1>4. \A m \in O : c[m[2] + 1] \in Seq(Tokens)
  BY <1>3 DEF WithinText
<1>5. Along(0)
  <2>1. k + 0 = k /\ i + 0 = i /\ i <= n + 1
    BY <1>1, <1>2
  <2>2. \A l \in 0..(0 - 1) : FALSE
    OBVIOUS
  <2>3. QED
    BY <2>1, <2>2
<1>6. ASSUME NEW j \in 1..M, Along(j - 1) PROVE Along(j)
  <2> DEFINE p == i + (j - 1)
             q == k + (j - 1)
  <2>1. p \in 1..(n + 1) /\ q \in Nat /\ p + 1 = i + j /\ q + 1 = k + j /\ j - 1 \in 0..(M - 1)
    BY <1>1, <1>2, <1>6
  <2>2. Suffix(w, q, c[p])
    BY <1>6
  <2> HIDE DEF p, q
  <2>3. \/ p <= n /\ \A m \in O : m[1] # p
        \/ q <= Len(w) /\ w[q] # Answers!Redacted
    BY <2>1 DEF p, q, Unreplaced
  <2>4. p <= n /\ \A m \in O : m[1] # p
    <3>1. CASE q <= Len(w) /\ w[q] # Answers!Redacted
      <4>1. ASSUME p = n + 1 PROVE FALSE
        <5>1. Len(c[p]) = 0 /\ Len(c[p]) = Len(w) - q + 1
          BY <1>3, <2>2, <4>1 DEF Suffix
        <5>2. QED
          BY <1>1, <2>1, <3>1, <5>1
      <4>2. ASSUME NEW m \in O, m[1] = p PROVE FALSE
        <5>1. Suffix(w, q, <<Answers!Redacted>> \o c[m[2] + 1])
          BY <1>3, <2>2, <4>2
        <5> DEFINE a == Answers!Redacted
                   x == c[m[2] + 1]
        <5>2. a \in Tokens /\ x \in Seq(Tokens)
          BY <1>4, TokensDiffer
        <5> HIDE DEF a, x
        <5>3. Suffix(w, q, <<a>> \o x)
          BY <5>1 DEF a, x
        <5>4. w[q] = a
          BY <5>2, <5>3, SuffixStep
        <5>5. QED
          BY <3>1, <5>4 DEF a
      <4>3. p <= n
        BY <1>1, <2>1, <4>1
      <4>4. QED
        BY <4>2, <4>3
    <3>2. QED
      BY <2>3, <3>1
  <2>5. p \in 1..n
    BY <1>1, <2>1, <2>4
  <2>6. Suffix(w, q, <<s[p]>> \o c[p + 1])
    BY <1>3, <2>2, <2>4, <2>5
  <2>7. w[q] = s[p] /\ Suffix(w, q + 1, c[p + 1])
    <3>1. s[p] \in Tokens /\ c[p + 1] \in Seq(Tokens)
      BY <1>1, <1>3, <2>5
    <3> DEFINE a == s[p]
               x == c[p + 1]
    <3>2. a \in Tokens /\ x \in Seq(Tokens) /\ Suffix(w, q, <<a>> \o x)
      BY <2>6, <3>1
    <3> HIDE DEF a, x
    <3>3. w[q] = a /\ Suffix(w, q + 1, x)
      BY <3>2, SuffixStep
    <3>4. QED
      BY <3>3 DEF a, x
  <2>8. \A l \in 0..(j - 1) : l \in 0..((j - 1) - 1) \/ l = j - 1
    OBVIOUS
  <2>9. \A l \in 0..(j - 1) : w[k + l] = s[i + l]
    BY <1>6, <2>7, <2>8 DEF p, q
  <2>10. i + j <= n + 1 /\ Suffix(w, k + j, c[i + j])
    BY <1>1, <2>1, <2>5, <2>7
  <2>11. QED
    BY <2>9, <2>10
<1>7. 0 \in G /\ \A j \in 1..M : j - 1 \in G => j \in G
  <2>1. 0 \in 0..M /\ \A j \in 1..M : j \in 0..M
    OBVIOUS
  <2> HIDE DEF Along
  <2>2. QED
    BY <1>5, <1>6, <2>1
<1> HIDE DEF G
<1>8. M \in G
  <2>1. \A j \in 0..M : j \in G
    BY <1>7, InductionUpTo
  <2>2. QED
    BY <2>1
<1>9. QED
  BY <1>8 DEF G, Unchanged

\* No match goes on at position i.
Outside(O, i) == \A m \in O : ~(m[1] < i /\ i <= m[2])

\* The position after a match is in no other one.
LEMMA OutsideAfter ==
    ASSUME NEW n \in Nat, NEW O, AreApart(n, O), NEW m \in O
    PROVE  m[2] + 1 \in (m[1] + 1)..(n + 1) /\ Outside(O, m[2] + 1)
<1>1. \A o \in O : o[1] \in 1..n /\ o[2] \in 1..n /\ o[1] <= o[2]
  BY MatchIs DEF AreApart
<1>2. ASSUME NEW o \in O, o[1] < m[2] + 1, m[2] + 1 <= o[2] PROVE FALSE
  <2>1. m[2] \in m[1]..m[2] /\ m[2] \in o[1]..o[2]
    BY <1>1, <1>2
  <2>2. m = o
    BY <2>1 DEF AreApart
  <2>3. QED
    BY <1>1, <1>2, <2>2
<1>3. QED
  BY <1>1, <1>2 DEF Outside

\* The places where a span stands.
Places(s, span) == {m \in Matches(Len(s)) : Answers!TextOf(s, m) = span}

\* Whether a span stands at a position, token by token.
LEMMA StandsAt ==
    ASSUME NEW S, NEW w \in Seq(S), NEW k \in Nat \ {0}, NEW span \in Seq(S), span # <<>>
    PROVE  Answers!IsAt(span, w, k) <=>
              k + Len(span) - 1 <= Len(w) /\ \A l \in 0..(Len(span) - 1) : w[k + l] = span[l + 1]
<1> DEFINE e == k + Len(span) - 1
           t == SubSeq(w, k, e)
<1>1. Len(w) \in Nat /\ Len(span) \in Nat \ {0}
  BY LenProperties, EmptySeq
<1>2. CASE e <= Len(w)
  <2>1. k \in 1..Len(w) /\ e \in k..Len(w) /\ e - k + 1 = Len(span)
    BY <1>1, <1>2
  <2>2. /\ t \in Seq(S) /\ Len(t) = Len(span)
        /\ \A i \in 1..Len(span) : t[i] = w[k + i - 1]
    BY <1>1, <1>2, <2>1, SubSeqProperties
  <2> HIDE DEF t
  <2>3. t = span <=> \A i \in 1..Len(span) : w[k + i - 1] = span[i]
    BY <2>2, SeqEqual
  <2>4. (\A i \in 1..Len(span) : w[k + i - 1] = span[i])
          <=> \A l \in 0..(Len(span) - 1) : w[k + l] = span[l + 1]
    <3>1. \A i \in 1..Len(span) : i - 1 \in 0..(Len(span) - 1) /\ k + (i - 1) = k + i - 1 /\ (i - 1) + 1 = i
      BY <1>1
    <3>2. \A l \in 0..(Len(span) - 1) : l + 1 \in 1..Len(span) /\ k + (l + 1) - 1 = k + l
      BY <1>1
    <3>3. ASSUME \A i \in 1..Len(span) : w[k + i - 1] = span[i], NEW l \in 0..(Len(span) - 1)
          PROVE  w[k + l] = span[l + 1]
      BY <3>2, <3>3
    <3>4. ASSUME \A l \in 0..(Len(span) - 1) : w[k + l] = span[l + 1], NEW i \in 1..Len(span)
          PROVE  w[k + i - 1] = span[i]
      BY <3>1, <3>4
    <3>5. QED
      BY <3>3, <3>4
  <2>5. QED
    BY <1>2, <2>3, <2>4 DEF Answers!IsAt, t
<1>3. CASE ~(e <= Len(w))
  BY <1>3 DEF Answers!IsAt
<1>4. QED
  BY <1>2, <1>3

\* The same for a place in s.
LEMMA PlaceIs ==
    ASSUME NEW s \in Seq(Answers!Atoms), NEW span \in SpanTexts, NEW m
    PROVE  m \in Places(s, span) <=>
              /\ m \in Matches(Len(s)) /\ m[2] = m[1] + Len(span) - 1
              /\ Answers!IsAt(span, s, m[1])
<1>1. Len(s) \in Nat /\ Len(span) \in Nat \ {0}
  BY LenProperties, EmptySeq DEF SpanTexts
<1>2. ASSUME m \in Matches(Len(s)) PROVE Len(SubSeq(s, m[1], m[2])) = m[2] - m[1] + 1
  BY <1>1, <1>2, MatchIs, SubSeqProperties
<1>3. ASSUME m \in Matches(Len(s)), Answers!TextOf(s, m) = span
      PROVE  m[2] = m[1] + Len(span) - 1 /\ Answers!IsAt(span, s, m[1])
  <2>1. m[1] \in 1..Len(s) /\ m[2] \in 1..Len(s) /\ SubSeq(s, m[1], m[2]) = span
    BY <1>1, <1>3, MatchIs DEF Answers!TextOf
  <2>2. m[2] = m[1] + Len(span) - 1
    <3>1. Len(span) = m[2] - m[1] + 1
      BY <1>2, <1>3, <2>1
    <3>2. m[1] \in Int /\ m[2] \in Int
      BY <1>1, <2>1
    <3>3. QED
      BY <1>1, <3>1, <3>2
  <2>3. QED
    BY <2>1, <2>2 DEF Answers!IsAt
<1>4. ASSUME m \in Matches(Len(s)), m[2] = m[1] + Len(span) - 1, Answers!IsAt(span, s, m[1])
      PROVE  Answers!TextOf(s, m) = span
  BY <1>4 DEF Answers!IsAt, Answers!TextOf
<1>5. QED
  BY <1>3, <1>4 DEF Places

\* Replacing a span in what is left of s leaves what is left of s when its
\* places are replaced as well.
LEMMA ReplaceCollapses ==
    ASSUME NEW s \in Seq(Answers!Atoms), NEW span \in SpanTexts, NEW O,
           AreApart(Len(s), O \cup Places(s, span)),
           NEW c, Collapses(s, O, c), NEW d, Collapses(s, O \cup Places(s, span), d)
    PROVE  Answers!Replace(c[1], span) = d[1]
<1> DEFINE n == Len(s)
           P == O \cup Places(s, span)
           w == c[1]
           L == Len(span)
<1>1. /\ n \in Nat /\ L \in Nat \ {0} /\ span \in Seq(Answers!Atoms) /\ span # <<>>
      /\ \A i \in 1..n : s[i] \in Answers!Atoms
      /\ \A l \in 0..(L - 1) : span[l + 1] \in Answers!Atoms
  <2>1. /\ n \in Nat /\ L \in Nat \ {0} /\ span \in Seq(Answers!Atoms) /\ span # <<>>
        /\ \A i \in 1..n : s[i] \in Answers!Atoms
        /\ \A i \in 1..L : span[i] \in Answers!Atoms
    BY LenProperties, ElementOfSeq, EmptySeq DEF SpanTexts
  <2>2. \A l \in 0..(L - 1) : l + 1 \in 1..L
    BY <2>1
  <2>3. QED
    BY <2>1, <2>2
<1>2. /\ \A i \in 1..(n + 1) : c[i] \in Seq(Tokens)
      /\ c[n + 1] = <<>>
      /\ \A m \in O : c[m[1]] = <<Answers!Redacted>> \o c[m[2] + 1]
      /\ \A i \in 1..n : (\A m \in O : m[1] # i) => c[i] = <<s[i]>> \o c[i + 1]
  BY DEF Collapses
<1>3. /\ d[n + 1] = <<>>
      /\ \A m \in P : d[m[1]] = <<Answers!Redacted>> \o d[m[2] + 1]
      /\ \A i \in 1..n : (\A m \in P : m[1] # i) => d[i] = <<s[i]>> \o d[i + 1]
  BY DEF Collapses
<1>4. w \in Seq(Tokens) /\ Len(w) \in Nat
  <2>1. 1 \in 1..(n + 1)
    BY <1>1
  <2>2. QED
    BY <1>2, <2>1, LenProperties
<1>5. AreApart(n, P)
  OBVIOUS
<1>6. \A m \in P : m[1] \in 1..n /\ m[2] \in 1..n /\ m[1] <= m[2]
  BY <1>1, <1>5, MatchIs DEF AreApart
<1>7. PICK R : Replaces(w, span, R) /\ Answers!Replace(w, span) = R[1]
  BY <1>4, ReplaceIs
<1>8. /\ R[Len(w) + 1] = <<>>
      /\ \A k \in 1..Len(w) :
            R[k] = IF Answers!IsAt(span, w, k) THEN <<Answers!Redacted>> \o R[k + L]
                                               ELSE <<w[k]>> \o R[k + 1]
  BY <1>7 DEF Replaces
<1>9. \A k \in 1..Len(w) :
         Answers!IsAt(span, w, k) <=>
            k + L - 1 <= Len(w) /\ \A l \in 0..(L - 1) : w[k + l] = span[l + 1]
  <2>1. span \in Seq(Tokens)
    BY <1>1, TokensDiffer, SeqMonotonic
  <2>2. QED
    BY <1>1, <1>4, <2>1, StandsAt
<1> DEFINE Same(i) == Outside(P, i) => \A k : Suffix(w, k, c[i]) => R[k] = d[i]
           G == {i \in 1..(n + 1) : Same(i)}
<1> HIDE DEF P, w, L, n
<1>10. n + 1 \in G
  <2>1. n + 1 \in 1..(n + 1)
    BY <1>1
  <2>2. ASSUME NEW k, Suffix(w, k, c[n + 1]) PROVE R[k] = d[n + 1]
    <3>1. k = Len(w) + 1
      BY <1>2, <1>4, <2>2 DEF Suffix
    <3>2. QED
      BY <1>3, <1>8, <3>1
  <2>3. QED
    BY <2>1, <2>2
<1>11. ASSUME NEW i \in 1..n, \A j \in (i + 1)..(n + 1) : j \in G,
              Outside(P, i), NEW k, Suffix(w, k, c[i])
       PROVE  R[k] = d[i]
  <2>0. k \in 1..(Len(w) + 1) /\ i \in 1..(n + 1)
    BY <1>1, <1>11 DEF Suffix
  <2>1. ASSUME NEW m \in O, m[1] = i PROVE R[k] = d[i]
    <3>1. m \in P /\ m[2] + 1 \in (i + 1)..(n + 1) /\ m[2] + 1 \in 1..(n + 1) /\ Outside(P, m[2] + 1)
      <4>1. m \in P
        BY DEF P
      <4>2. m[2] + 1 \in (i + 1)..(n + 1) /\ Outside(P, m[2] + 1)
        BY <1>1, <1>5, <2>1, <4>1, OutsideAfter
      <4>3. QED
        BY <1>1, <4>1, <4>2
    <3> DEFINE a == Answers!Redacted
               x == c[m[2] + 1]
    <3>2. a \in Tokens /\ x \in Seq(Tokens) /\ a \notin Answers!Atoms
      BY <1>2, <3>1, TokensDiffer
    <3>3. c[i] = <<a>> \o x
      BY <1>2, <2>1
    <3>4. d[i] = <<a>> \o d[m[2] + 1]
      BY <1>3, <2>1, <3>1
    <3> HIDE DEF a, x
    <3>5. k \in 1..Len(w) /\ w[k] = a /\ Suffix(w, k + 1, x)
      <4>1. Suffix(w, k, <<a>> \o x)
        BY <1>11, <3>3
      <4>2. QED
        BY <1>4, <3>2, <4>1, SuffixStep
    <3>6. ~Answers!IsAt(span, w, k)
      <4>1. 0 \in 0..(L - 1) /\ k + 0 = k
        BY <1>1, <3>5
      <4>2. Answers!IsAt(span, w, k) => w[k] \in Answers!Atoms
        BY <1>1, <1>9, <3>5, <4>1
      <4>3. QED
        BY <3>2, <3>5, <4>2
    <3>7. R[k] = <<a>> \o R[k + 1]
      BY <1>8, <3>5, <3>6
    <3>8. R[k + 1] = d[m[2] + 1]
      BY <1>11, <3>1, <3>5 DEF x
    <3>9. QED
      BY <3>4, <3>7, <3>8
  <2>2. ASSUME NEW m \in Places(s, span), m[1] = i, \A o \in O : o[1] # i PROVE R[k] = d[i]
    <3>1. m \in P /\ m \notin O /\ m[2] + 1 \in (i + 1)..(n + 1) /\ Outside(P, m[2] + 1)
      <4>1. m \in P /\ m \notin O
        BY <2>2 DEF P
      <4>2. QED
        BY <1>1, <1>5, <2>2, <4>1, OutsideAfter
    <3>2. m[2] = i + L - 1 /\ Answers!IsAt(span, s, i) /\ m[2] \in 1..n
      BY <1>6, <2>2, <3>1, PlaceIs DEF L
    <3>3. \A l \in 0..(L - 1) : s[i + l] = span[l + 1]
      BY <1>1, <3>2, StandsAt DEF L
    <3>4. \A l \in 0..(L - 1) : i + l <= n /\ \A o \in O : o[1] # i + l
      <4>1. ASSUME NEW l \in 0..(L - 1), NEW o \in O, o[1] = i + l PROVE FALSE
        <5>1. o \in P /\ o # m
          BY <3>1 DEF P
        <5>2. o[1] \in o[1]..o[2] /\ o[1] \in m[1]..m[2]
          BY <1>1, <1>6, <2>2, <3>2, <4>1, <5>1
        <5>3. QED
          BY <1>5, <3>1, <5>1, <5>2 DEF AreApart
      <4>2. \A l \in 0..(L - 1) : i + l <= n
        BY <1>1, <3>2
      <4>3. QED
        BY <4>1, <4>2
    <3>5. \A o \in O : o[2] + 1 \in 1..(n + 1)
      BY <1>1, <1>6 DEF P
    <3>6. Suffix(w, k + L, c[i + L]) /\ \A l \in 0..(L - 1) : w[k + l] = s[i + l]
      <4>1. /\ i \in 1..(Len(s) + 1) /\ Suffix(w, k, c[i]) /\ L \in Nat
            /\ WithinText(s, O)
        BY <1>1, <1>11, <2>0, <3>5 DEF n, WithinText
      <4>2. Unreplaced(s, O, w, i, k, L)
        BY <3>4 DEF n, Unreplaced
      <4>3. Unchanged(s, c, w, i, k, L)
        BY <1>4, <4>1, <4>2, Walk
      <4>4. QED
        BY <4>3 DEF Unchanged
    <3>7. k + L \in 1..(Len(w) + 1)
      BY <3>6 DEF Suffix
    <3>8. k \in 1..Len(w) /\ Answers!IsAt(span, w, k)
      <4>1. k \in 1..Len(w) /\ k + L - 1 <= Len(w)
        BY <1>1, <1>4, <2>0, <3>7
      <4>2. QED
        BY <1>9, <3>3, <3>6, <4>1
    <3>9. R[k] = <<Answers!Redacted>> \o R[k + L]
      BY <1>8, <3>8
    <3>10. d[i] = <<Answers!Redacted>> \o d[m[2] + 1]
      BY <1>3, <2>2, <3>1
    <3>11. m[2] + 1 = i + L
      BY <1>1, <3>2
    <3>12. R[k + L] = d[m[2] + 1]
      BY <1>11, <3>1, <3>6, <3>11
    <3>13. QED
      BY <3>9, <3>10, <3>12
  <2>3. ASSUME \A m \in P : m[1] # i PROVE R[k] = d[i]
    <3> DEFINE a == s[i]
               x == c[i + 1]
    <3>1. a \in Answers!Atoms /\ a \in Tokens /\ x \in Seq(Tokens) /\ i + 1 \in (i + 1)..(n + 1)
      <4>1. i + 1 \in 1..(n + 1) /\ i + 1 \in (i + 1)..(n + 1)
        BY <1>1
      <4>2. QED
        BY <1>1, <1>2, <4>1, TokensDiffer
    <3>2. c[i] = <<a>> \o x
      BY <1>2, <2>3 DEF P
    <3>3. d[i] = <<a>> \o d[i + 1]
      BY <1>3, <2>3
    <3> HIDE DEF a, x
    <3>4. k \in 1..Len(w) /\ w[k] = a /\ Suffix(w, k + 1, x)
      <4>1. Suffix(w, k, <<a>> \o x)
        BY <1>11, <3>2
      <4>2. QED
        BY <1>4, <3>1, <4>1, SuffixStep
    <3>5. ASSUME Answers!IsAt(span, w, k) PROVE FALSE
      <4>1. k + L - 1 <= Len(w) /\ \A l \in 0..(L - 1) : w[k + l] = span[l + 1]
        BY <1>9, <3>4, <3>5
      <4>2. \A l \in 0..(L - 1) : k + l <= Len(w) /\ w[k + l] # Answers!Redacted
        <5>1. \A l \in 0..(L - 1) : k + l <= Len(w)
          BY <1>1, <1>4, <3>4, <4>1
        <5>2. QED
          BY <1>1, <4>1, <5>1, TokensDiffer
      <4>3. \A o \in O : o[2] + 1 \in 1..(n + 1)
        BY <1>1, <1>6 DEF P
      <4>4. i + L <= n + 1 /\ \A l \in 0..(L - 1) : w[k + l] = s[i + l]
        <5>1. /\ i \in 1..(Len(s) + 1) /\ Suffix(w, k, c[i]) /\ L \in Nat
              /\ WithinText(s, O)
          BY <1>1, <1>11, <2>0, <4>3 DEF n, WithinText
        <5>2. Unreplaced(s, O, w, i, k, L)
          BY <4>2 DEF Unreplaced
        <5>3. i + L <= Len(s) + 1 /\ \A l \in 0..(L - 1) : w[k + l] = s[i + l]
          <6>1. Unchanged(s, c, w, i, k, L)
            BY <1>4, <5>1, <5>2, Walk
          <6>2. QED
            BY <6>1 DEF Unchanged
        <5>4. QED
          BY <5>3 DEF n
      <4> DEFINE m == <<i, i + L - 1>>
      <4>5. m \in Matches(n) /\ m[1] = i /\ m[2] = i + L - 1
        BY <1>1, <4>4 DEF Matches
      <4>6. Answers!IsAt(span, s, i)
        <5>0. n = Len(s)
          BY DEF n
        <5>1. i + L - 1 <= Len(s) /\ \A l \in 0..(L - 1) : s[i + l] = span[l + 1]
          <6>1. i + L - 1 <= n
            BY <1>1, <4>4
          <6>2. \A l \in 0..(L - 1) : s[i + l] = span[l + 1]
            BY <4>1, <4>4
          <6>3. QED
            BY <5>0, <6>1, <6>2
        <5>2. i \in Nat \ {0}
          OBVIOUS
        <5>3. QED
          BY <1>1, <5>1, <5>2, StandsAt DEF L
      <4> HIDE DEF m
      <4>7. m \in Places(s, span)
        BY <4>5, <4>6, PlaceIs DEF n, L
      <4>8. QED
        BY <2>3, <4>5, <4>7 DEF P
    <3>6. R[k] = <<a>> \o R[k + 1]
      BY <1>8, <3>4, <3>5
    <3>7. Outside(P, i + 1)
      <4>1. ASSUME NEW m \in P, m[1] < i + 1, i + 1 <= m[2] PROVE FALSE
        <5>1. m[1] < i /\ i <= m[2]
          BY <1>1, <1>6, <2>3, <4>1
        <5>2. QED
          BY <1>11, <5>1 DEF Outside
      <4>2. QED
        BY <4>1 DEF Outside
    <3>8. R[k + 1] = d[i + 1]
      BY <1>11, <3>1, <3>4, <3>7 DEF x
    <3>9. QED
      BY <3>3, <3>6, <3>8
  <2>4. QED
    BY <2>1, <2>2, <2>3 DEF P
<1>12. ASSUME NEW i \in 1..n, \A j \in (i + 1)..(n + 1) : j \in G PROVE i \in G
  <2>1. i \in 1..(n + 1)
    BY <1>1
  <2>2. Same(i)
    BY <1>11, <1>12
  <2>3. QED
    BY <2>1, <2>2
<1> HIDE DEF G
<1>13. 1 \in G
  <2>1. \A i \in 1..(n + 1) : i \in G
    BY <1>1, <1>10, <1>12, InductionDown
  <2>2. QED
    BY <1>1, <2>1
<1>14. Suffix(w, 1, c[1])
  BY <1>4 DEF Suffix, w
<1>15. Outside(P, 1)
  BY <1>6 DEF Outside
<1>16. R[1] = d[1]
  BY <1>13, <1>14, <1>15 DEF G
<1>17. QED
  BY <1>7, <1>16 DEF w

\* Nothing is kept of positions that are passed over.
LEMMA Skips ==
    ASSUME NEW s, NEW positions, NEW h, Keeps(s, positions, h),
           NEW i \in 1..Len(s), NEW j \in 1..Len(s), i <= j, Len(s) \in Nat,
           i..j \subseteq positions
    PROVE  h[i] = h[j + 1]
<1> DEFINE M == j + 1 - i
           G == {l \in 0..M : h[i] = h[i + l]}
<1>1. M \in Nat /\ i + M = j + 1 /\ i + 0 = i
  OBVIOUS
<1>2. 0 \in G
  BY <1>1
<1>3. ASSUME NEW l \in 1..M, l - 1 \in G PROVE l \in G
  <2> DEFINE p == i + (l - 1)
  <2>1. p \in i..j /\ p \in 1..Len(s) /\ p + 1 = i + l
    OBVIOUS
  <2>2. h[i] = h[p]
    BY <1>3
  <2> HIDE DEF p
  <2>3. h[p] = h[p + 1]
    BY <2>1 DEF Keeps
  <2>4. QED
    BY <2>1, <2>2, <2>3
<1> HIDE DEF G, M
<1>4. M \in G
  <2>1. \A l \in 0..M : l \in G
    BY <1>1, <1>2, <1>3, InductionUpTo
  <2>2. QED
    BY <1>1, <2>1
<1>5. QED
  BY <1>1, <1>4 DEF G

\* Replacing matches leaves of s what they do not cover.
LEMMA KeptCollapses ==
    ASSUME NEW s \in Seq(Answers!Atoms), NEW O, AreApart(Len(s), O),
           NEW c, Collapses(s, O, c)
    PROVE  Answers!Kept(c[1], {}) = Answers!Kept(s, Answers!Covered(O))
<1> DEFINE n == Len(s)
           w == c[1]
           C == Answers!Covered(O)
<1>1. n \in Nat /\ s \in Seq(Tokens) /\ \A i \in 1..n : s[i] \in Answers!Atoms /\ s[i] \in Tokens
  <2>1. n \in Nat /\ \A i \in 1..n : s[i] \in Answers!Atoms
    BY LenProperties, ElementOfSeq
  <2>2. s \in Seq(Tokens)
    BY TokensDiffer, SeqMonotonic
  <2>3. QED
    BY <2>1, <2>2, TokensDiffer
<1>2. /\ \A i \in 1..(n + 1) : c[i] \in Seq(Tokens)
      /\ c[n + 1] = <<>>
      /\ \A m \in O : c[m[1]] = <<Answers!Redacted>> \o c[m[2] + 1]
      /\ \A i \in 1..n : (\A m \in O : m[1] # i) => c[i] = <<s[i]>> \o c[i + 1]
  BY DEF Collapses
<1>3. w \in Seq(Tokens) /\ Len(w) \in Nat
  <2>1. 1 \in 1..(n + 1)
    BY <1>1
  <2>2. QED
    BY <1>2, <2>1, LenProperties
<1>4. AreApart(n, O)
  OBVIOUS
<1>5. \A m \in O : m[1] \in 1..n /\ m[2] \in 1..n /\ m[1] <= m[2]
  BY <1>1, <1>4, MatchIs DEF AreApart
<1>6. PICK K : Keeps(w, {}, K) /\ Answers!Kept(w, {}) = K[1]
  BY <1>3, KeptIs
<1>7. PICK H : Keeps(s, C, H) /\ Answers!Kept(s, C) = H[1]
  BY <1>1, KeptIs
<1>8. /\ K[Len(w) + 1] = <<>>
      /\ \A k \in 1..Len(w) : K[k] = IF w[k] = Answers!Redacted THEN K[k + 1] ELSE <<w[k]>> \o K[k + 1]
  BY <1>6 DEF Keeps
<1>9. H[n + 1] = <<>> /\ \A i \in 1..n : i \notin C => H[i] = <<s[i]>> \o H[i + 1]
  <2>1. \A i \in 1..n : s[i] # Answers!Redacted
    BY <1>1, TokensDiffer
  <2>2. QED
    BY <1>7, <2>1 DEF Keeps
<1>10. ASSUME NEW m \in O PROVE H[m[1]] = H[m[2] + 1]
  <2>1. m[1]..m[2] \subseteq C
    BY DEF Answers!Covered
  <2> DEFINE i == m[1]
             j == m[2]
  <2>2. i \in 1..n /\ j \in 1..n /\ i <= j /\ i..j \subseteq C
    BY <1>5, <2>1
  <2> HIDE DEF i, j, C
  <2>3. H[i] = H[j + 1]
    BY <1>1, <1>7, <2>2, Skips
  <2>4. QED
    BY <2>3 DEF i, j
<1>11. \A i : i \in C <=> \E m \in O : i \in m[1]..m[2]
  BY DEF Answers!Covered
<1> DEFINE Same(i) == Outside(O, i) => \A k : Suffix(w, k, c[i]) => K[k] = H[i]
           G == {i \in 1..(n + 1) : Same(i)}
<1> HIDE DEF w, C, n
<1>12. n + 1 \in G
  <2>1. n + 1 \in 1..(n + 1)
    BY <1>1
  <2>2. ASSUME NEW k, Suffix(w, k, c[n + 1]) PROVE K[k] = H[n + 1]
    <3>1. k = Len(w) + 1
      BY <1>2, <1>3, <2>2 DEF Suffix
    <3>2. QED
      BY <1>8, <1>9, <3>1
  <2>3. QED
    BY <2>1, <2>2
<1>13. ASSUME NEW i \in 1..n, \A j \in (i + 1)..(n + 1) : j \in G,
              Outside(O, i), NEW k, Suffix(w, k, c[i])
       PROVE  K[k] = H[i]
  <2>1. ASSUME NEW m \in O, m[1] = i PROVE K[k] = H[i]
    <3>1. m[2] + 1 \in (i + 1)..(n + 1) /\ m[2] + 1 \in 1..(n + 1) /\ Outside(O, m[2] + 1)
      <4>1. m[2] + 1 \in (i + 1)..(n + 1) /\ Outside(O, m[2] + 1)
        BY <1>1, <1>4, <2>1, OutsideAfter
      <4>2. QED
        BY <1>1, <4>1
    <3> DEFINE a == Answers!Redacted
               x == c[m[2] + 1]
    <3>2. a \in Tokens /\ x \in Seq(Tokens)
      BY <1>2, <3>1, TokensDiffer
    <3>3. c[i] = <<a>> \o x
      BY <1>2, <2>1
    <3> HIDE DEF a, x
    <3>4. k \in 1..Len(w) /\ w[k] = a /\ Suffix(w, k + 1, x)
      <4>1. Suffix(w, k, <<a>> \o x)
        BY <1>13, <3>3
      <4>2. QED
        BY <1>3, <3>2, <4>1, SuffixStep
    <3>5. K[k] = K[k + 1]
      BY <1>8, <3>4 DEF a
    <3>6. K[k + 1] = H[m[2] + 1]
      BY <1>13, <3>1, <3>4 DEF x
    <3>7. QED
      BY <1>10, <2>1, <3>5, <3>6
  <2>2. ASSUME \A m \in O : m[1] # i PROVE K[k] = H[i]
    <3> DEFINE a == s[i]
               x == c[i + 1]
    <3>1. /\ a \in Answers!Atoms /\ a \in Tokens /\ x \in Seq(Tokens)
          /\ i + 1 \in (i + 1)..(n + 1)
      <4>1. i + 1 \in 1..(n + 1) /\ i + 1 \in (i + 1)..(n + 1)
        BY <1>1
      <4>2. QED
        BY <1>1, <1>2, <4>1
    <3>2. c[i] = <<a>> \o x
      BY <1>2, <2>2
    <3>3. i \notin C
      BY <1>5, <1>11, <1>13, <2>2 DEF Outside
    <3>4. H[i] = <<a>> \o H[i + 1]
      BY <1>9, <3>3
    <3> HIDE DEF a, x
    <3>5. k \in 1..Len(w) /\ w[k] = a /\ Suffix(w, k + 1, x)
      <4>1. Suffix(w, k, <<a>> \o x)
        BY <1>13, <3>2
      <4>2. QED
        BY <1>3, <3>1, <4>1, SuffixStep
    <3>6. K[k] = <<a>> \o K[k + 1]
      BY <1>8, <3>1, <3>5, TokensDiffer
    <3>7. Outside(O, i + 1)
      <4>1. ASSUME NEW m \in O, m[1] < i + 1, i + 1 <= m[2] PROVE FALSE
        <5>1. m[1] < i /\ i <= m[2]
          BY <1>1, <1>5, <2>2, <4>1
        <5>2. QED
          BY <1>13, <5>1 DEF Outside
      <4>2. QED
        BY <4>1 DEF Outside
    <3>8. K[k + 1] = H[i + 1]
      BY <1>13, <3>1, <3>5, <3>7 DEF x
    <3>9. QED
      BY <3>4, <3>6, <3>8
  <2>3. QED
    BY <2>1, <2>2
<1>14. ASSUME NEW i \in 1..n, \A j \in (i + 1)..(n + 1) : j \in G PROVE i \in G
  <2>1. i \in 1..(n + 1)
    BY <1>1
  <2>2. Same(i)
    BY <1>13, <1>14
  <2>3. QED
    BY <2>1, <2>2
<1> HIDE DEF G
<1>15. 1 \in G
  <2>1. \A i \in 1..(n + 1) : i \in G
    BY <1>1, <1>12, <1>14, InductionDown
  <2>2. QED
    BY <1>1, <2>1
<1>16. Suffix(w, 1, c[1])
  BY <1>3 DEF Suffix, w
<1>17. Outside(O, 1)
  BY <1>5 DEF Outside
<1>18. K[1] = H[1]
  BY <1>15, <1>16, <1>17 DEF G
<1>19. QED
  BY <1>6, <1>7, <1>18 DEF w, C

\* What Replace returns.
LEMMA ReplaceType ==
    ASSUME NEW s \in Seq(Tokens), NEW span \in SpanTexts
    PROVE  Answers!Replace(s, span) \in Seq(Tokens)
<1>1. PICK h : Replaces(s, span, h) /\ Answers!Replace(s, span) = h[1]
  BY ReplaceIs
<1>2. Len(s) \in Nat
  BY LenProperties
<1>3. 1 \in 1..(Len(s) + 1)
  BY <1>2
<1>4. QED
  BY <1>1, <1>3 DEF Replaces

\* The recursion of Redact.
Redacts(s, spans, h) ==
    /\ h \in [0..Len(spans) -> Seq(Tokens)]
    /\ h[0] = s /\ \A i \in 1..Len(spans) : h[i] = Answers!Replace(h[i - 1], spans[i])

\* Redact solves its recursion.
LEMMA RedactIs ==
    ASSUME NEW s \in Seq(Answers!Atoms), NEW spans \in Seq(SpanTexts)
    PROVE  \E h : Redacts(s, spans, h) /\ Answers!Redact(s, spans) = h[Len(spans)]
<1> DEFINE N == Len(spans)
           T == Seq(Tokens)
           IsAfter(h) == h = [n \in 0..N |->
                                IF n = 0 THEN s ELSE Answers!Replace(h[n - 1], spans[n])]
           after == CHOOSE h : IsAfter(h)
           g == [i \in 1..N |-> [x \in T |-> Answers!Replace(x, spans[i])]]
<1>1. Answers!Redact(s, spans) = after[N]
  BY DEF Answers!Redact
<1>2. N \in Nat /\ s \in T /\ \A i \in 1..N : spans[i] \in SpanTexts
  <2>1. s \in T
    BY TokensDiffer, SeqMonotonic
  <2>2. QED
    BY <2>1, LenProperties, ElementOfSeq
<1> HIDE DEF N
<1>3. \A i \in 1..N, x \in T : Answers!Replace(x, spans[i]) \in T
  BY <1>2, ReplaceType
<1> HIDE DEF T
<1>4. PICK h \in [0..N -> T] : h[0] = s /\ \A i \in 1..N : h[i] = g[i][h[i - 1]]
  <2>1. g \in [1..N -> [T -> T]]
    BY <1>3
  <2> DEFINE b == s
  <2>2. b \in T /\ N \in Nat
    BY <1>2
  <2> HIDE DEF g, b, IsAfter, after
  <2>3. \E h : Recurs(T, b, N, g, h)
    BY <2>1, <2>2, RecursionExists
  <2>4. QED
    BY <2>3 DEF b, Recurs
<1>5. ASSUME NEW i \in 1..N PROVE h[i] = Answers!Replace(h[i - 1], spans[i])
  <2>1. i - 1 \in 0..N
    BY <1>2
  <2>2. h[i - 1] \in T
    BY <2>1
  <2>3. QED
    BY <1>4, <2>2
<1>6. IsAfter(h)
  <2>1. \A i \in 0..N : i = 0 \/ (i # 0 /\ i \in 1..N)
    OBVIOUS
  <2>2. QED
    BY <1>4, <1>5, <2>1
<1>7. IsAfter(after)
  <2> HIDE DEF IsAfter
  <2>1. QED
    BY <1>6, Zenon
<1> HIDE DEF after
<1>8. after[0] = s /\ \A i \in 1..N : after[i] = Answers!Replace(after[i - 1], spans[i])
  <2>1. 0 \in 0..N /\ \A i \in 1..N : i \in 0..N /\ i # 0
    BY <1>2
  <2>2. QED
    BY <1>7, <2>1
<1>9. after = h
  <2> DEFINE G == {i \in 0..N : after[i] = h[i]}
  <2>1. 0 \in G
    BY <1>2, <1>4, <1>8
  <2>2. \A i \in 1..N : i - 1 \in G => i \in G
    <3>1. ASSUME NEW i \in 1..N, i - 1 \in G PROVE i \in G
      BY <1>5, <1>8, <3>1
    <3>2. QED
      BY <3>1
  <2> HIDE DEF G
  <2>3. \A i \in 0..N : i \in G
    BY <1>2, <2>1, <2>2, InductionUpTo
  <2>4. \A i \in 0..N : after[i] = h[i]
    BY <2>3 DEF G
  <2>5. after = [i \in 0..N |-> after[i]] /\ h = [i \in 0..N |-> h[i]]
    BY <1>4, <1>7
  <2>6. QED
    BY <2>4, <2>5
<1>10. Redacts(s, spans, h)
  BY <1>4, <1>5 DEF Redacts, N, T
<1>11. QED
  BY <1>1, <1>9, <1>10 DEF N

\* The places of the first k spans.
PlacesUpTo(s, spans, k) ==
    {m \in Matches(Len(s)) : \E j \in 1..k : Answers!TextOf(s, m) = spans[j]}

\* Replacing span after span replaces all the places where they stand.
LEMMA RedactCollapses ==
    ASSUME NEW s \in Seq(Answers!Atoms), NEW spans \in Seq(SpanTexts),
           AreApart(Len(s), PlacesUpTo(s, spans, Len(spans))),
           NEW d, Collapses(s, PlacesUpTo(s, spans, Len(spans)), d)
    PROVE  Answers!Redact(s, spans) = d[1]
<1> DEFINE N == Len(spans)
           O(k) == PlacesUpTo(s, spans, k)
<1>1. PICK h : Redacts(s, spans, h) /\ Answers!Redact(s, spans) = h[N]
  BY RedactIs
<1> DEFINE G == {k \in 0..N : \A c : Collapses(s, O(k), c) => h[k] = c[1]}
<1>2. N \in Nat /\ \A i \in 1..N : spans[i] \in SpanTexts
  BY LenProperties, ElementOfSeq
<1>3. h[0] = s /\ \A i \in 1..N : h[i] = Answers!Replace(h[i - 1], spans[i])
  BY <1>1 DEF Redacts
<1>4. ASSUME NEW k \in 0..N PROVE AreApart(Len(s), O(k))
  <2>1. O(k) \subseteq O(N)
    BY <1>2 DEF PlacesUpTo
  <2>2. AreApart(Len(s), O(N))
    OBVIOUS
  <2> HIDE DEF O
  <2>3. QED
    BY <2>1, <2>2 DEF AreApart
<1>5. \A c : Collapses(s, O(0), c) => h[0] = c[1]
  <2>1. O(0) = {}
    BY DEF PlacesUpTo
  <2> HIDE DEF O
  <2>2. QED
    BY <1>3, <2>1, CollapseNothing
<1>6. ASSUME NEW k \in 1..N, \A c : Collapses(s, O(k - 1), c) => h[k - 1] = c[1],
             NEW c, Collapses(s, O(k), c)
      PROVE  h[k] = c[1]
  <2>1. O(k) = O(k - 1) \cup Places(s, spans[k])
    <3>1. \A j : j \in 1..k <=> j \in 1..(k - 1) \/ j = k
      OBVIOUS
    <3>2. QED
      BY <3>1 DEF PlacesUpTo, Places
  <2>2. AreApart(Len(s), O(k - 1)) /\ AreApart(Len(s), O(k))
    BY <1>2, <1>4
  <2> HIDE DEF O
  <2>3. PICK b : Collapses(s, O(k - 1), b)
    BY <2>2, CollapseExists
  <2>4. h[k - 1] = b[1]
    BY <1>6, <2>3
  <2>5. Answers!Replace(b[1], spans[k]) = c[1]
    BY <1>2, <1>6, <2>1, <2>2, <2>3, ReplaceCollapses
  <2>6. QED
    BY <1>3, <2>4, <2>5
<1> HIDE DEF O
<1>7. 0 \in G /\ \A k \in 1..N : k - 1 \in G => k \in G
  <2>1. 0 \in 0..N
    BY <1>2
  <2>2. QED
    BY <1>5, <1>6, <2>1
<1> HIDE DEF G
<1>8. N \in G
  <2>1. \A k \in 0..N : k \in G
    BY <1>2, <1>7, InductionUpTo
  <2>2. QED
    BY <1>2, <2>1
<1>9. QED
  BY <1>1, <1>8 DEF G, O

-----------------------------------------------------------------------------
\* The text of a match is not empty.
LEMMA TextType ==
    ASSUME NEW s \in Seq(Answers!Atoms), NEW m \in Matches(Len(s))
    PROVE  Answers!TextOf(s, m) \in SpanTexts
<1>1. Len(s) \in Nat
  BY LenProperties
<1>2. m[1] \in 1..Len(s) /\ m[2] \in 1..Len(s) /\ m[1] <= m[2]
  BY <1>1, MatchIs
<1>3. SubSeq(s, m[1], m[2]) \in Seq(Answers!Atoms) /\ Len(SubSeq(s, m[1], m[2])) = m[2] - m[1] + 1
  BY <1>2, SubSeqProperties
<1>4. Len(SubSeq(s, m[1], m[2])) # 0
  BY <1>1, <1>2, <1>3
<1>5. SubSeq(s, m[1], m[2]) # <<>>
  BY <1>3, <1>4, EmptySeq
<1>6. QED
  BY <1>3, <1>5 DEF SpanTexts, Answers!TextOf

\* The normal form is as long as the text.
LEMMA NormalType ==
    ASSUME NEW s \in Seq(Answers!Atoms)
    PROVE  Answers!Normalize(s) \in Seq(Answers!Atoms) /\ Len(Answers!Normalize(s)) = Len(s)
<1>1. Len(s) \in Nat /\ DOMAIN s = 1..Len(s) /\ \A i \in 1..Len(s) : s[i] \in Answers!Atoms
  BY LenProperties, ElementOfSeq
<1>2. "code" \in Answers!Atoms
  BY DEF Answers!Atoms
<1>3. Answers!Normalize(s) \in [1..Len(s) -> Answers!Atoms]
  BY <1>1, <1>2 DEF Answers!Normalize
<1>4. QED
  BY <1>1, <1>3, FunctionIsSeq

\* What the scanners find are matches.
LEMMA MatchesType ==
    ASSUME NEW s \in Seq(Answers!Atoms)
    PROVE  Answers!Leaks(s) \in Seq(Matches(Len(s))) /\ Answers!Code(s) \in Seq(Matches(Len(s)))
<1> DEFINE M == Matches(Len(s))
           found == Answers!FindAll("code", Answers!Normalize(s))
<1>1. Len(s) \in Nat
  BY LenProperties
<1>2. \A pattern : Answers!FindAll(pattern, s) \in Seq(M)
  BY <1>1, FindAllType
<1>3. found \in Seq(M)
  <2>1. Len(Answers!Normalize(s)) = Len(s)
    BY NormalType
  <2>2. Answers!FindAll("code", Answers!Normalize(s)) \in Seq(Matches(Len(Answers!Normalize(s))))
    BY <1>1, <2>1, FindAllType
  <2>3. QED
    BY <2>1, <2>2
<1>4. Answers!Code(s) = IF found = <<>> THEN <<>> ELSE <<Head(found)>>
  BY DEF Answers!Code
<1> HIDE DEF M, found
<1>5. Answers!Code(s) \in Seq(M)
  <2>1. found # <<>> => Head(found) \in M
    BY <1>3, HeadTailProperties
  <2>2. \A m \in M : <<m>> \in Seq(M)
    OBVIOUS
  <2>3. <<>> \in Seq(M)
    OBVIOUS
  <2>4. QED
    BY <1>4, <2>1, <2>2, <2>3
<1>6. Answers!Leaks(s) \in Seq(M)
  <2>1. \A x, y \in Seq(M) : x \o y \in Seq(M)
    BY ConcatProperties
  <2>2. QED
    BY <1>2, <2>1 DEF Answers!Leaks
<1>7. QED
  BY <1>5, <1>6 DEF M

\* The spans of the findings are texts.
LEMMA SpansType ==
    ASSUME NEW s \in Seq(Answers!Atoms)
    PROVE  Answers!Spans(s) \in Seq(SpanTexts)
<1> DEFINE leaks == Answers!Leaks(s)
           code == Answers!Code(s)
           f == [n \in DOMAIN leaks |-> Answers!TextOf(s, leaks[n])]
           g == [n \in DOMAIN code |-> Answers!TextOf(Answers!Normalize(s), code[n])]
<1>1. Answers!Spans(s) = f \o g
  BY DEF Answers!Spans
<1>2. leaks \in Seq(Matches(Len(s))) /\ code \in Seq(Matches(Len(s)))
  BY MatchesType
<1>3. \A m \in Matches(Len(s)) :
         Answers!TextOf(s, m) \in SpanTexts /\ Answers!TextOf(Answers!Normalize(s), m) \in SpanTexts
  BY NormalType, TextType
<1> HIDE DEF leaks, code
<1>4. /\ Len(leaks) \in Nat /\ DOMAIN leaks = 1..Len(leaks)
      /\ \A i \in 1..Len(leaks) : leaks[i] \in Matches(Len(s))
  BY <1>2, LenProperties, ElementOfSeq
<1>5. /\ Len(code) \in Nat /\ DOMAIN code = 1..Len(code)
      /\ \A i \in 1..Len(code) : code[i] \in Matches(Len(s))
  BY <1>2, LenProperties, ElementOfSeq
<1>6. f \in [1..Len(leaks) -> SpanTexts] /\ g \in [1..Len(code) -> SpanTexts]
  BY <1>3, <1>4, <1>5
<1> HIDE DEF f, g
<1>7. f \in Seq(SpanTexts) /\ g \in Seq(SpanTexts)
  BY <1>4, <1>5, <1>6, FunctionIsSeq
<1>8. f \o g \in Seq(SpanTexts)
  BY <1>7, ConcatProperties
<1>9. QED
  BY <1>1, <1>8

\* What the scan redacts in an answer whose spans are apart.
LEMMA StripsApart ==
    ASSUME NEW s \in Seq(Answers!Atoms), Answers!Apart(s)
    PROVE  Answers!Kept(Answers!Redact(s, Answers!Spans(s)), {})
              = Answers!Kept(s, Answers!Covered(Answers!Occurrences(s)))
<1> DEFINE spans == Answers!Spans(s)
           O == PlacesUpTo(s, spans, Len(spans))
<1>1. spans \in Seq(SpanTexts)
  BY SpansType
<1>2. DOMAIN spans = 1..Len(spans)
  BY <1>1, LenProperties
<1>3. Answers!Occurrences(s) = O
  <2>1. \A x : x \in Answers!ToSet(spans) <=> \E j \in 1..Len(spans) : x = spans[j]
    BY <1>2 DEF Answers!ToSet
  <2>2. QED
    BY <2>1 DEF Answers!Occurrences, PlacesUpTo, Matches
<1>4. AreApart(Len(s), O)
  <2>1. O \subseteq Matches(Len(s))
    BY DEF PlacesUpTo
  <2>2. \A m, o \in Answers!Occurrences(s) : m = o \/ (m[1]..m[2]) \cap (o[1]..o[2]) = {}
    BY DEF Answers!Apart
  <2> HIDE DEF O
  <2>3. QED
    BY <1>3, <2>1, <2>2 DEF AreApart
<1> HIDE DEF spans
<1>5. PICK c : Collapses(s, O, c)
  BY <1>4, CollapseExists
<1>6. Answers!Redact(s, spans) = c[1]
  BY <1>1, <1>4, <1>5, RedactCollapses
<1>7. Answers!Kept(c[1], {}) = Answers!Kept(s, Answers!Covered(O))
  <2> HIDE DEF O
  <2>1. QED
    BY <1>4, <1>5, KeptCollapses
<1>8. QED
  BY <1>3, <1>6, <1>7 DEF spans

\* The answer is atoms, and has been redacted.
AnswerInv ==
    /\ answer \in Seq(Answers!Atoms)
    /\ \/ answer = <<>> /\ cleaned = <<>>
       \/ cleaned = Answers!Redact(answer, Answers!Spans(answer))

LEMMA AlwaysAnswerInv == Answers!Spec => []AnswerInv
<1>1. Answers!Init => AnswerInv
  <2>1. <<>> \in Seq(Answers!Atoms)
    OBVIOUS
  <2>2. QED
    BY <2>1 DEF Answers!Init, AnswerInv
<1>2. AnswerInv /\ [Answers!Next]_Answers!vars => AnswerInv'
  <2> SUFFICES ASSUME AnswerInv, [Answers!Next]_Answers!vars PROVE AnswerInv'
    OBVIOUS
  <2>1. CASE Answers!ScanAndRedact
    <3>1. PICK atom \in Answers!Atoms : answer' = Append(answer, atom)
      BY <2>1 DEF Answers!ScanAndRedact
    <3>2. answer' \in Seq(Answers!Atoms)
      BY <3>1, AppendProperties DEF AnswerInv
    <3>3. cleaned' = Answers!Redact(answer', Answers!Spans(answer'))
      BY <2>1 DEF Answers!ScanAndRedact
    <3>4. QED
      BY <3>2, <3>3 DEF AnswerInv
  <2>2. CASE UNCHANGED Answers!vars
    <3>1. answer' = answer /\ cleaned' = cleaned
      BY <2>2 DEF Answers!vars
    <3>2. QED
      BY <3>1 DEF AnswerInv
  <2>3. QED
    BY <2>1, <2>2 DEF Answers!Next, Answers!Finished
<1>3. QED
  BY <1>1, <1>2, PTL DEF Answers!Spec

\* What is left of an answer is what no flagged text covers, wherever that text
\* stands, as long as no two places of flagged text share a position: the
\* replacements, one span after the other in what the ones before have left,
\* leave nothing of them and take nothing else (scan and redact of
\* output_scanner.py).
THEOREM SpansStrippedAlways == Answers!Spec => []StripsSpansApart
<1>1. AnswerInv => StripsSpansApart
  <2> SUFFICES ASSUME AnswerInv, Answers!Apart(answer)
               PROVE  Answers!Kept(cleaned, {})
                         = Answers!Kept(answer, Answers!Covered(Answers!Occurrences(answer)))
    BY DEF StripsSpansApart, Answers!StripsSpansApart
  <2>1. CASE cleaned = Answers!Redact(answer, Answers!Spans(answer))
    BY <2>1, StripsApart DEF AnswerInv
  <2>2. CASE answer = <<>> /\ cleaned = <<>>
    <3>1. Len(<<>>) = 0 /\ <<>> \in Seq(Tokens)
      OBVIOUS
    <3> DEFINE none == <<>>
    <3>2. none \in Seq(Tokens) /\ Len(none) + 1 = 1
      BY <3>1
    <3> HIDE DEF none
    <3>3. ASSUME NEW positions PROVE Answers!Kept(none, positions) = <<>>
      <4>1. PICK h : Keeps(none, positions, h) /\ Answers!Kept(none, positions) = h[1]
        BY <3>2, KeptIs
      <4>2. QED
        BY <3>2, <4>1 DEF Keeps
    <3>4. answer = none /\ cleaned = none
      BY <2>2 DEF none
    <3>5. QED
      BY <3>3, <3>4
  <2>3. QED
    BY <2>1, <2>2 DEF AnswerInv
<1>2. QED
  BY <1>1, AlwaysAnswerInv, PTL

-----------------------------------------------------------------------------
(* The review queries.                                                     *)

\* The table holds rows.
RowsInv == rows \in Seq(Queries!Rows)

LEMMA AlwaysRows == Queries!Spec => []RowsInv
<1> USE DEF RowsInv
<1>1. Queries!Init => rows \in Seq(Queries!Rows)
  BY DEF Queries!Init
<1>2. RowsInv /\ [Queries!Next]_rows => RowsInv'
  <2> SUFFICES ASSUME rows \in Seq(Queries!Rows), [Queries!Next]_rows PROVE rows' \in Seq(Queries!Rows)
    OBVIOUS
  <2>1. ASSUME NEW entry \in Queries!Rows, Queries!Insert(entry) PROVE rows' \in Seq(Queries!Rows)
    BY <2>1, AppendProperties DEF Queries!Insert
  <2>2. QED
    BY <2>1 DEF Queries!Next, Queries!Finished
<1>3. QED
  BY <1>1, <1>2, PTL DEF Queries!Spec

\* One more seq in front of those that come after it.
LEMMA InFront ==
    ASSUME NEW n \in Nat, NEW k \in 1..n, NEW s \in Seq(1..(k - 1))
    PROVE  /\ <<k>> \o s \in Seq(1..k)
           /\ Queries!Range(<<k>> \o s) = {k} \cup Queries!Range(s)
           /\ (\A i, j \in 1..Len(s) : i < j => s[i] > s[j])
              => \A i, j \in 1..Len(<<k>> \o s) : i < j => (<<k>> \o s)[i] > (<<k>> \o s)[j]
<1> DEFINE t == <<k>> \o s
<1>1. s \in Seq(1..k) /\ <<k>> \in Seq(1..k) /\ Len(<<k>>) = 1 /\ <<k>>[1] = k
  <2>1. 1..(k - 1) \subseteq 1..k
    OBVIOUS
  <2>2. s \in Seq(1..k)
    BY <2>1, SeqMonotonic
  <2>3. QED
    BY <2>2
<1>2. Len(s) \in Nat /\ DOMAIN s = 1..Len(s) /\ \A i \in 1..Len(s) : s[i] \in 1..(k - 1)
  BY LenProperties, ElementOfSeq
<1>3. /\ t \in Seq(1..k) /\ Len(t) = Len(<<k>>) + Len(s)
      /\ \A i \in 1..(Len(<<k>>) + Len(s)) : t[i] = IF i <= Len(<<k>>) THEN <<k>>[i] ELSE s[i - Len(<<k>>)]
  <2> DEFINE u == <<k>>
  <2>1. u \in Seq(1..k)
    BY <1>1
  <2> HIDE DEF u
  <2>2. /\ u \o s \in Seq(1..k) /\ Len(u \o s) = Len(u) + Len(s)
        /\ \A i \in 1..(Len(u) + Len(s)) : (u \o s)[i] = IF i <= Len(u) THEN u[i] ELSE s[i - Len(u)]
    BY <1>1, <2>1, ConcatProperties
  <2>3. QED
    BY <2>2 DEF u
<1> HIDE DEF t
<1>4. /\ Len(t) = 1 + Len(s) /\ t[1] = k /\ \A i \in 2..Len(t) : t[i] = s[i - 1]
      /\ DOMAIN t = 1..Len(t)
  BY <1>1, <1>2, <1>3, LenProperties
<1>5. Queries!Range(t) = {k} \cup Queries!Range(s)
  <2>1. \A x \in Queries!Range(t) : x = k \/ x \in Queries!Range(s)
    <3>1. \A i \in DOMAIN t : i = 1 \/ (i \in 2..Len(t) /\ i - 1 \in DOMAIN s)
      BY <1>2, <1>4
    <3>2. QED
      BY <1>4, <3>1 DEF Queries!Range
  <2>2. k \in Queries!Range(t)
    BY <1>2, <1>4 DEF Queries!Range
  <2>3. \A x \in Queries!Range(s) : x \in Queries!Range(t)
    <3>1. \A i \in DOMAIN s : i + 1 \in DOMAIN t /\ t[i + 1] = s[i]
      BY <1>2, <1>4
    <3>2. QED
      BY <3>1 DEF Queries!Range
  <2>4. QED
    BY <2>1, <2>2, <2>3
<1>6. ASSUME \A i, j \in 1..Len(s) : i < j => s[i] > s[j]
      PROVE  \A i, j \in 1..Len(t) : i < j => t[i] > t[j]
  <2> SUFFICES ASSUME NEW i \in 1..Len(t), NEW j \in 1..Len(t), i < j PROVE t[i] > t[j]
    OBVIOUS
  <2>1. j \in 2..Len(t) /\ j - 1 \in 1..Len(s) /\ t[j] = s[j - 1]
    BY <1>2, <1>4
  <2>2. CASE i = 1
    BY <1>2, <1>4, <2>1, <2>2
  <2>3. CASE i # 1
    <3>1. t[i] = s[i - 1] /\ i - 1 \in 1..Len(s) /\ i - 1 < j - 1
      BY <1>2, <1>4, <2>1, <2>3
    <3>2. QED
      BY <1>6, <2>1, <3>1
  <2>4. QED
    BY <2>2, <2>3
<1>7. QED
  BY <1>3, <1>5, <1>6 DEF t

\* What matches, the latest first.
IsNewest(kind, f, n, s) ==
    /\ s \in Seq(1..n)
    /\ Queries!Range(s) = {i \in 1..n : Queries!Matches(kind, rows[i], f)}
    /\ \A i, j \in 1..Len(s) : i < j => s[i] > s[j]

\* Newest finds what matches, and the latest first.
LEMMA NewestIs ==
    ASSUME rows \in Seq(Queries!Rows), NEW kind, NEW f
    PROVE  IsNewest(kind, f, Len(rows), Queries!Newest(kind, f))
<1> DEFINE n == Len(rows)
           T == Seq(Nat)
           g == [i \in 1..n |-> [s \in T |-> IF Queries!Matches(kind, rows[i], f) THEN <<i>> \o s ELSE s]]
           IsUpTo(h) == h = [i \in 0..n |->
                               IF i = 0 THEN <<>>
                               ELSE IF Queries!Matches(kind, rows[i], f) THEN <<i>> \o h[i - 1]
                               ELSE h[i - 1]]
           upTo == CHOOSE h : IsUpTo(h)
<1>1. n \in Nat
  BY LenProperties
<1>2. Queries!Newest(kind, f) = upTo[n]
  BY DEF Queries!Newest
<1> HIDE DEF n
<1>3. g \in [1..n -> [T -> T]]
  <2>1. ASSUME NEW i \in 1..n, NEW s \in T PROVE <<i>> \o s \in T
    <3>1. <<i>> \in T
      BY <1>1
    <3>2. QED
      BY <3>1, ConcatProperties
  <2>2. QED
    BY <2>1
<1>4. <<>> \in T
  OBVIOUS
<1>5. \E h : IsUpTo(h)
  <2>1. PICK h \in [0..n -> T] : h[0] = <<>> /\ \A i \in 1..n : h[i] = g[i][h[i - 1]]
    <3> DEFINE b == <<>>
    <3>0. b \in T
      BY <1>4
    <3> HIDE DEF g, T, IsUpTo, b
    <3>1. \E h : Recurs(T, b, n, g, h)
      BY <1>1, <1>3, <3>0, RecursionExists
    <3>2. QED
      BY <3>1 DEF b, Recurs
  <2>2. \A i \in 0..n : i = 0 \/ (i \in 1..n /\ i - 1 \in 0..n)
    BY <1>1
  <2>3. ASSUME NEW i \in 1..n
        PROVE  h[i] = IF Queries!Matches(kind, rows[i], f) THEN <<i>> \o h[i - 1] ELSE h[i - 1]
    <3>1. h[i - 1] \in T
      BY <2>1, <2>2
    <3>2. QED
      BY <2>1, <3>1
  <2>4. IsUpTo(h)
    BY <2>1, <2>2, <2>3
  <2>5. QED
    BY <2>4
<1>6. IsUpTo(upTo)
  <2> HIDE DEF IsUpTo
  <2>1. QED
    BY <1>5, Zenon
<1> HIDE DEF upTo
<1>7. upTo[0] = <<>> /\ \A i \in 1..n :
         upTo[i] = IF Queries!Matches(kind, rows[i], f) THEN <<i>> \o upTo[i - 1] ELSE upTo[i - 1]
  <2>1. \A i \in 1..n : i \in 0..n /\ i # 0
    BY <1>1
  <2>2. 0 \in 0..n
    BY <1>1
  <2>3. QED
    BY <1>6, <2>1, <2>2
<1> HIDE DEF IsUpTo
<1> DEFINE G == {k \in 0..n : IsNewest(kind, f, k, upTo[k])}
<1>8. 0 \in G
  <2>1. /\ <<>> \in Seq(1..0) /\ Queries!Range(<<>>) = {} /\ Len(<<>>) = 0
        /\ \A i \in 1..0 : FALSE
    BY DEF Queries!Range
  <2>2. IsNewest(kind, f, 0, <<>>)
    BY <2>1 DEF IsNewest
  <2>3. 0 \in 0..n
    BY <1>1
  <2>4. QED
    BY <1>7, <2>2, <2>3
<1>9. ASSUME NEW k \in 1..n, k - 1 \in G PROVE k \in G
  <2> DEFINE s == upTo[k - 1]
  <2>1. IsNewest(kind, f, k - 1, s)
    BY <1>9
  <2> HIDE DEF s
  <2>2. \A i \in 1..k : i = k \/ i \in 1..(k - 1)
    BY <1>1
  <2>3. 1..(k - 1) \subseteq 1..k
    BY <1>1
  <2>4. CASE Queries!Matches(kind, rows[k], f)
    <3>1. upTo[k] = <<k>> \o s
      BY <1>7, <2>4 DEF s
    <3>2. IsNewest(kind, f, k, <<k>> \o s)
      <4>1. s \in Seq(1..(k - 1))
        BY <2>1 DEF IsNewest
      <4>2. Queries!Range(<<k>> \o s) = {k} \cup Queries!Range(s)
        BY <1>1, <4>1, InFront
      <4>3. {i \in 1..k : Queries!Matches(kind, rows[i], f)}
              = {k} \cup {i \in 1..(k - 1) : Queries!Matches(kind, rows[i], f)}
        BY <2>2, <2>3, <2>4
      <4>4. QED
        BY <1>1, <2>1, <4>1, <4>2, <4>3, InFront DEF IsNewest
    <3>3. k \in 0..n
      BY <1>1
    <3>4. QED
      BY <3>1, <3>2, <3>3
  <2>5. CASE ~Queries!Matches(kind, rows[k], f)
    <3>1. upTo[k] = s
      BY <1>7, <2>5 DEF s
    <3>2. s \in Seq(1..k)
      BY <2>1, <2>3, SeqMonotonic DEF IsNewest
    <3>3. {i \in 1..k : Queries!Matches(kind, rows[i], f)}
            = {i \in 1..(k - 1) : Queries!Matches(kind, rows[i], f)}
      BY <2>2, <2>3, <2>5
    <3>4. IsNewest(kind, f, k, s)
      BY <2>1, <3>2, <3>3 DEF IsNewest
    <3>5. QED
      BY <1>1, <3>1, <3>4
  <2>6. QED
    BY <2>4, <2>5
<1> HIDE DEF G
<1>10. n \in G
  <2>1. \A k \in 0..n : k \in G
    BY <1>1, <1>8, <1>9, InductionUpTo
  <2>2. QED
    BY <1>1, <2>1
<1>11. QED
  BY <1>2, <1>10 DEF G, n

\* A row passes a filter on one column when the column has the value.
LEMMA FiltersAre ==
    ASSUME NEW kind, NEW d \in DecisionValues \cup {"STOP"}, NEW u \in Users,
           NEW since \in Queries!Instants, NEW l, NEW r
    PROVE  /\ Queries!Matches(kind, r, Queries!NoFilter)
           /\ Queries!Matches(kind, r, [Queries!NoFilter EXCEPT !.decision = d]) <=> r.decision = d
           /\ Queries!Matches(kind, r, [Queries!NoFilter EXCEPT !.decision = d, !.limit = l])
                <=> r.decision = d
           /\ Queries!Matches(kind, r, [Queries!NoFilter EXCEPT !.user_id = u]) <=> r.user_id = u
           /\ Queries!Matches(kind, r, [Queries!NoFilter EXCEPT !.decision = d, !.since_ts = since])
                <=> r.decision = d /\ Queries!IsSince(kind, r.ts, since)
<1>1. None # d /\ None # u /\ None # since
  BY QueriesAssumption
<1>2. QED
  BY <1>1 DEF Queries!Matches, Queries!NoFilter

\* The limits of the filters.
LEMMA LimitsAre ==
    ASSUME NEW d, NEW u, NEW since, NEW l
    PROVE  /\ Queries!NoFilter.limit = None
           /\ [Queries!NoFilter EXCEPT !.decision = d].limit = None
           /\ [Queries!NoFilter EXCEPT !.decision = d, !.limit = l].limit = l
           /\ [Queries!NoFilter EXCEPT !.user_id = u].limit = None
           /\ [Queries!NoFilter EXCEPT !.decision = d, !.since_ts = since].limit = None
BY DEF Queries!NoFilter

\* The texts of two instants compare as the instants do.
LEMMA TextsCompare ==
    ASSUME NEW t \in [hour : Int, fraction : Nat], NEW u \in [hour : Int, fraction : Nat]
    PROVE  Queries!TextAtLeast(Queries!Iso(t), Queries!Iso(u)) <=> ~Queries!IsBefore(t, u)
<1> DEFINE Compares(x, y) ==
        x = y \/ \E i \in 1..Len(x) \cap 1..Len(y) :
                    (\A k \in 1..(i - 1) : x[k] = y[k]) /\ x[i] > y[i]
<1>1. ASSUME NEW x \in Seq(Int), NEW y \in Seq(Int)
      PROVE  Queries!TextAtLeast(x, y) <=> Compares(x, y)
  <2>1. /\ DOMAIN x = 1..Len(x) /\ DOMAIN y = 1..Len(y) /\ Len(x) \in Nat /\ Len(y) \in Nat
    BY LenProperties
  <2>2. ASSUME NEW i \in 1..Len(x) \cap 1..Len(y)
        PROVE  SubSeq(x, 1, i - 1) = SubSeq(y, 1, i - 1) <=> \A k \in 1..(i - 1) : x[k] = y[k]
    <3>1. i - 1 \in 0..Len(x) /\ i - 1 \in 0..Len(y)
      BY <2>1
    <3>2. /\ SubSeq(x, 1, i - 1) \in Seq(Int) /\ Len(SubSeq(x, 1, i - 1)) = i - 1
          /\ \A k \in 1..(i - 1) : SubSeq(x, 1, i - 1)[k] = x[k]
          /\ SubSeq(y, 1, i - 1) \in Seq(Int) /\ Len(SubSeq(y, 1, i - 1)) = i - 1
          /\ \A k \in 1..(i - 1) : SubSeq(y, 1, i - 1)[k] = y[k]
      BY <3>1, PrefixIs
    <3> DEFINE a == SubSeq(x, 1, i - 1)
               b == SubSeq(y, 1, i - 1)
    <3>3. (\A k \in 1..(i - 1) : x[k] = y[k]) => a = b
      <4>1. a \in Seq(Int) /\ b \in Seq(Int) /\ Len(a) = Len(b) /\ Len(a) = i - 1
            /\ \A k \in 1..(i - 1) : a[k] = x[k] /\ b[k] = y[k]
        BY <3>2
      <4> HIDE DEF a, b
      <4>2. QED
        BY <4>1, SeqEqual
    <3>4. QED
      BY <3>2, <3>3
  <2>3. QED
    BY <2>1, <2>2 DEF Queries!TextAtLeast
<1> HIDE DEF Compares
<1>2. t.hour \in Int /\ u.hour \in Int /\ t.fraction \in Nat /\ u.fraction \in Nat
  OBVIOUS
<1>3. \A h \in Int, p \in Int, q \in Int, z \in Int :
         /\ <<h, p>> \in Seq(Int) /\ <<h, p, q, z>> \in Seq(Int)
  OBVIOUS
<1>4. Queries!Iso(t) \in Seq(Int) /\ Queries!Iso(u) \in Seq(Int)
  BY <1>2, <1>3 DEF Queries!Iso, Queries!Digit, Queries!Plus, Queries!Point
<1>5. Queries!TextAtLeast(Queries!Iso(t), Queries!Iso(u)) <=> Compares(Queries!Iso(t), Queries!Iso(u))
  BY <1>1, <1>4
<1>6. Compares(Queries!Iso(t), Queries!Iso(u)) <=> ~Queries!IsBefore(t, u)
  <2> USE DEF Queries!Iso, Queries!Digit, Queries!Plus, Queries!Point, Queries!IsBefore, Compares
  <2>1. CASE t.fraction = 0 /\ u.fraction = 0
    BY <1>2, <2>1
  <2>2. CASE t.fraction = 0 /\ u.fraction # 0
    BY <1>2, <2>2
  <2>3. CASE t.fraction # 0 /\ u.fraction = 0
    BY <1>2, <2>3
  <2>4. CASE t.fraction # 0 /\ u.fraction # 0
    <3> DEFINE x == Queries!Iso(t)
               y == Queries!Iso(u)
    <3>1. /\ Len(x) = 4 /\ x[1] = 48 + t.hour /\ x[2] = 46 /\ x[3] = 48 + t.fraction /\ x[4] = 43
          /\ Len(y) = 4 /\ y[1] = 48 + u.hour /\ y[2] = 46 /\ y[3] = 48 + u.fraction /\ y[4] = 43
      BY <2>4
    <3>2. t.hour = u.hour /\ t.fraction = u.fraction => x = y
      BY <2>4
    <3>3. x = y => t.hour = u.hour /\ t.fraction = u.fraction
      BY <1>2, <3>1
    <3> HIDE DEF x, y
    <3>4. Compares(x, y) <=>
             x = y \/ \E i \in 1..4 : (\A k \in 1..(i - 1) : x[k] = y[k]) /\ x[i] > y[i]
      BY <3>1
    <3> HIDE DEF Compares
    <3>5. \A i \in 1..4 : i = 1 \/ i = 2 \/ i = 3 \/ i = 4
      OBVIOUS
    <3>6. ASSUME t.hour > u.hour PROVE Compares(x, y)
      <4>1. 1 \in 1..4 /\ (\A k \in 1..(1 - 1) : x[k] = y[k]) /\ x[1] > y[1]
        BY <1>2, <3>1, <3>6
      <4>2. QED
        BY <3>4, <4>1
    <3>7. ASSUME t.hour = u.hour, t.fraction > u.fraction PROVE Compares(x, y)
      <4>1. 3 \in 1..4 /\ (\A k \in 1..(3 - 1) : x[k] = y[k]) /\ x[3] > y[3]
        <5>1. \A k \in 1..(3 - 1) : k = 1 \/ k = 2
          OBVIOUS
        <5>2. QED
          BY <1>2, <3>1, <3>7, <5>1
      <4>2. QED
        BY <3>4, <4>1
    <3>8. ASSUME NEW i \in 1..4, \A k \in 1..(i - 1) : x[k] = y[k], x[i] > y[i]
          PROVE  t.hour > u.hour \/ (t.hour = u.hour /\ t.fraction > u.fraction)
      <4>1. i = 1 \/ i = 3
        BY <3>1, <3>5, <3>8
      <4>2. i = 3 => x[1] = y[1]
        BY <3>8
      <4>3. QED
        BY <1>2, <3>1, <3>8, <4>1, <4>2
    <3>9. QED
      BY <1>2, <3>2, <3>3, <3>4, <3>6, <3>7, <3>8 DEF x, y
  <2>5. QED
    BY <2>1, <2>2, <2>3, <2>4
<1>7. QED
  BY <1>5, <1>6

\* Either backend compares times as instants.
LEMMA SinceIs ==
    ASSUME NEW kind \in Queries!Kinds, NEW t \in Queries!Instants, NEW u \in Queries!Instants
    PROVE  Queries!IsSince(kind, t, u) <=> ~Queries!IsBefore(t, u)
<1>1. t \in [hour : Int, fraction : Nat] /\ u \in [hour : Int, fraction : Nat]
  <2>1. 0..LastHour \subseteq Int /\ Fractions \subseteq Nat
    BY QueriesAssumption
  <2>2. QED
    BY <2>1 DEF Queries!Instants
<1>2. QED
  BY <1>1, TextsCompare DEF Queries!IsSince, Queries!Kinds

\* The stops of the last hour are those, neither more nor less.
LEMMA LastHourExact == rows \in Seq(Queries!Rows) => Queries!LastHourIsExact
<1> SUFFICES ASSUME rows \in Seq(Queries!Rows), NEW kind \in Queries!Kinds,
                    NEW now \in Queries!Instants, now.hour >= 1
             PROVE  LET found == Queries!StopsLastHour(kind, now)
                    IN  /\ Queries!Range(found) =
                             {i \in DOMAIN rows : /\ rows[i].decision = "STOP"
                                                  /\ ~Queries!IsBefore(rows[i].ts, Queries!HoursAgo(now, 1))}
                        /\ \A i, j \in DOMAIN found : i < j => found[i] > found[j]
  BY DEF Queries!LastHourIsExact
<1> DEFINE since == Queries!HoursAgo(now, 1)
           f == [Queries!NoFilter EXCEPT !.decision = "STOP", !.since_ts = since]
           found == Queries!StopsLastHour(kind, now)
<1>1. since \in Queries!Instants
  BY QueriesAssumption DEF Queries!HoursAgo, Queries!Instants
<1>2. DOMAIN rows = 1..Len(rows) /\ \A i \in 1..Len(rows) : rows[i] \in Queries!Rows
  BY LenProperties, ElementOfSeq
<1> HIDE DEF since
<1>3. found = Queries!Newest(kind, f)
  BY LimitsAre DEF Queries!StopsLastHour, Queries!Fetch, since
<1>4. \A r \in Queries!Rows : Queries!Matches(kind, r, f)
                              <=> r.decision = "STOP" /\ ~Queries!IsBefore(r.ts, since)
  <2> SUFFICES ASSUME NEW r \in Queries!Rows
               PROVE  Queries!Matches(kind, r, f)
                        <=> r.decision = "STOP" /\ ~Queries!IsBefore(r.ts, since)
    OBVIOUS
  <2>1. None # "STOP" /\ None # since
    BY <1>1, QueriesAssumption
  <2>2. Queries!Matches(kind, r, f) <=> r.decision = "STOP" /\ Queries!IsSince(kind, r.ts, since)
    BY <2>1 DEF Queries!Matches, Queries!NoFilter
  <2>3. r.ts \in Queries!Instants
    BY DEF Queries!Rows
  <2>4. QED
    BY <1>1, <2>2, <2>3, SinceIs
<1> HIDE DEF f, found
<1>5. IsNewest(kind, f, Len(rows), found)
  BY <1>3, NewestIs
<1>6. found \in Seq(1..Len(rows)) /\ DOMAIN found = 1..Len(found)
  BY <1>5, LenProperties DEF IsNewest
<1>7. Queries!Range(found) =
         {i \in DOMAIN rows : rows[i].decision = "STOP" /\ ~Queries!IsBefore(rows[i].ts, since)}
  BY <1>2, <1>4, <1>5 DEF IsNewest
<1>8. QED
  BY <1>5, <1>6, <1>7 DEF IsNewest, since, found

\* As many rows as numbers of them, which differ.
LEMMA LengthIs ==
    ASSUME NEW n \in Nat, NEW s \in Seq(1..n), \A i, j \in 1..Len(s) : i < j => s[i] > s[j]
    PROVE  /\ DOMAIN s = 1..Len(s) /\ Len(s) \in Nat /\ \A i \in 1..Len(s) : s[i] \in 1..n
           /\ IsInjective(s)
           /\ IsFiniteSet(Queries!Range(s)) /\ Cardinality(Queries!Range(s)) = Len(s)
<1>1. DOMAIN s = 1..Len(s) /\ Len(s) \in Nat /\ \A i \in 1..Len(s) : s[i] \in 1..n
  BY LenProperties, ElementOfSeq
<1>2. IsInjective(s)
  <2> SUFFICES ASSUME NEW i \in 1..Len(s), NEW j \in 1..Len(s), s[i] = s[j] PROVE i = j
    BY <1>1 DEF IsInjective
  <2>1. ~(i < j) /\ ~(j < i)
    BY <1>1
  <2>2. QED
    BY <2>1
<1>3. Queries!Range(s) = Range(s)
  BY DEF Queries!Range, Range
<1>4. QED
  BY <1>1, <1>2, <1>3, SizeOfRange

\* The summary counts for each decision the rows that its list has.
LEMMA CountsAre ==
    ASSUME rows \in Seq(Queries!Rows), NEW kind \in Queries!Kinds, NEW d \in DecisionValues
    PROVE  LET counts == Queries!DecisionCounts(kind)
           IN  Len(Queries!ByDecision(kind, d)) = IF d \in DOMAIN counts THEN counts[d] ELSE 0
<1> DEFINE n == Len(rows)
           f == [Queries!NoFilter EXCEPT !.decision = d]
           all == Queries!Fetch(kind, Queries!NoFilter)
           listed == Queries!ByDecision(kind, d)
           I == {i \in DOMAIN all : rows[all[i]].decision = d}
           R == {k \in 1..n : rows[k].decision = d}
<1>1. n \in Nat
  BY LenProperties
<1>2. all = Queries!Newest(kind, Queries!NoFilter) /\ listed = Queries!Newest(kind, f)
  BY LimitsAre DEF Queries!ByDecision, Queries!Fetch
<1>3. \A r : Queries!Matches(kind, r, Queries!NoFilter) /\ (Queries!Matches(kind, r, f) <=> r.decision = d)
  BY QueriesAssumption DEF Queries!Matches, Queries!NoFilter
<1> HIDE DEF all, listed, f
<1>4. IsNewest(kind, Queries!NoFilter, n, all) /\ IsNewest(kind, f, n, listed)
  BY <1>2, NewestIs
<1> HIDE DEF n
<1>5. /\ all \in Seq(1..n) /\ Queries!Range(all) = 1..n
      /\ \A i, j \in 1..Len(all) : i < j => all[i] > all[j]
  BY <1>3, <1>4 DEF IsNewest
<1>6. /\ listed \in Seq(1..n) /\ Queries!Range(listed) = R
      /\ \A i, j \in 1..Len(listed) : i < j => listed[i] > listed[j]
  BY <1>3, <1>4 DEF IsNewest
<1>7. /\ DOMAIN all = 1..Len(all) /\ Len(all) \in Nat /\ \A i \in 1..Len(all) : all[i] \in 1..n
      /\ IsInjective(all)
  BY <1>1, <1>5, LengthIs
<1>8. Len(listed) = Cardinality(R) /\ DOMAIN listed = 1..Len(listed) /\ Len(listed) \in Nat
  BY <1>1, <1>6, LengthIs
<1>9. IsFiniteSet(I) /\ Cardinality(I) = Cardinality(R)
  <2>1. IsFiniteSet(1..Len(all)) /\ I \subseteq 1..Len(all)
    BY <1>7, FS_Interval
  <2>2. IsFiniteSet(I)
    BY <2>1, FS_Subset
  <2> DEFINE b == [i \in I |-> all[i]]
  <2>3. b \in [I -> R] /\ DOMAIN b = I
    BY <1>7
  <2>4. \A i, j \in I : b[i] = b[j] => i = j
    BY <1>7 DEF IsInjective
  <2>5. \A k \in R : \E i \in I : b[i] = k
    <3>1. \A k \in R : \E i \in DOMAIN all : all[i] = k
      BY <1>5 DEF Queries!Range
    <3>2. QED
      BY <3>1
  <2> HIDE DEF b, I, R
  <2>6. b \in Bijection(I, R)
    BY <2>3, <2>4, <2>5 DEF Bijection, Injection, Surjection, IsInjective
  <2>7. ExistsBijection(I, R)
    BY <2>6 DEF ExistsBijection
  <2>8. QED
    BY <2>2, <2>7, FS_Bijection
<1> DEFINE counts == Queries!DecisionCounts(kind)
<1>10. /\ DOMAIN counts = {rows[all[i]].decision : i \in DOMAIN all}
       /\ d \in DOMAIN counts => counts[d] = Queries!Cardinality(I)
  BY DEF Queries!DecisionCounts, all
<1>11. Queries!Cardinality(I) = Cardinality(I)
  BY Zenon DEF Queries!Cardinality, Cardinality
<1> HIDE DEF counts
<1>12. CASE d \in DOMAIN counts
  BY <1>8, <1>9, <1>10, <1>11, <1>12 DEF listed, counts
<1>13. CASE d \notin DOMAIN counts
  <2>1. R = {}
    <3>1. \A k \in R : \E i \in DOMAIN all : all[i] = k
      BY <1>5 DEF Queries!Range
    <3>2. QED
      BY <1>10, <1>13, <3>1
  <2>2. Len(listed) = 0
    <3>0. Len(listed) # 0 => 1 \in DOMAIN listed
      <4>1. DOMAIN listed = 1..Len(listed) /\ Len(listed) \in Nat
        BY <1>8
      <4>2. QED
        BY <4>1
    <3>1. Len(listed) # 0 => listed[1] \in Queries!Range(listed)
      BY <3>0, Zenon DEF Queries!Range
    <3>2. QED
      BY <1>6, <2>1, <3>1
  <2>3. QED
    BY <1>13, <2>2 DEF listed, counts
<1>14. QED
  BY <1>12, <1>13 DEF counts

\* The lists of the users make up the table.
LEMMA UsersCover ==
    ASSUME rows \in Seq(Queries!Rows), NEW kind \in Queries!Kinds
    PROVE  UNION {Queries!Range(Queries!ForUser(kind, u)) : u \in Users} = DOMAIN rows
<1>1. DOMAIN rows = 1..Len(rows) /\ \A i \in 1..Len(rows) : rows[i].user_id \in Users
  <2>1. \A r \in Queries!Rows : r.user_id \in Users
    BY DEF Queries!Rows
  <2>2. QED
    BY <2>1, LenProperties, ElementOfSeq
<1>2. ASSUME NEW u \in Users
      PROVE  Queries!Range(Queries!ForUser(kind, u)) = {i \in 1..Len(rows) : rows[i].user_id = u}
  <2> DEFINE f == [Queries!NoFilter EXCEPT !.user_id = u]
  <2>1. Queries!ForUser(kind, u) = Queries!Newest(kind, f)
    BY LimitsAre DEF Queries!ForUser, Queries!Fetch
  <2>2. \A r : Queries!Matches(kind, r, f) <=> r.user_id = u
    BY QueriesAssumption DEF Queries!Matches, Queries!NoFilter
  <2> HIDE DEF f
  <2>3. IsNewest(kind, f, Len(rows), Queries!Newest(kind, f))
    BY NewestIs
  <2>4. QED
    BY <2>1, <2>2, <2>3 DEF IsNewest
<1>3. QED
  BY <1>1, <1>2

\* A list of one row is the latest of them.
LEMMA LimitIs ==
    ASSUME rows \in Seq(Queries!Rows), NEW kind \in Queries!Kinds, NEW d \in DecisionValues,
           NEW i \in Queries!Range(Queries!ByDecision(kind, d))
    PROVE  i \in Queries!Range(Queries!Fetch(kind, [Queries!NoFilter EXCEPT !.decision = d, !.limit = 1]))
             <=> \A j \in Queries!Range(Queries!ByDecision(kind, d)) : j <= i
<1> DEFINE n == Len(rows)
           f == [Queries!NoFilter EXCEPT !.decision = d]
           one == [Queries!NoFilter EXCEPT !.decision = d, !.limit = 1]
           s == Queries!Newest(kind, one)
           R == {k \in 1..n : rows[k].decision = d}
<1>1. n \in Nat
  BY LenProperties
<1>2. \A r : /\ Queries!Matches(kind, r, f) <=> r.decision = d
             /\ Queries!Matches(kind, r, one) <=> r.decision = d
  BY QueriesAssumption DEF Queries!Matches, Queries!NoFilter
<1>3. /\ Queries!ByDecision(kind, d) = Queries!Newest(kind, f)
      /\ Queries!Fetch(kind, one) = SubSeq(s, 1, 1)
  <2>1. one.limit = 1 /\ f.limit = None /\ None # 1
    BY LimitsAre, QueriesAssumption
  <2>2. QED
    BY <2>1, Zenon DEF Queries!ByDecision, Queries!Fetch
<1> HIDE DEF s, f, one
<1>4. IsNewest(kind, f, n, Queries!Newest(kind, f)) /\ IsNewest(kind, one, n, s)
  BY NewestIs DEF s
<1> HIDE DEF n
<1>5. Queries!Range(Queries!ByDecision(kind, d)) = R /\ Queries!Range(s) = R
  BY <1>2, <1>3, <1>4 DEF IsNewest
<1>6. s \in Seq(1..n) /\ \A k, j \in 1..Len(s) : k < j => s[k] > s[j]
  BY <1>4 DEF IsNewest
<1>7. DOMAIN s = 1..Len(s) /\ Len(s) \in Nat /\ \A k \in 1..Len(s) : s[k] \in 1..n
  BY <1>1, <1>6, LengthIs
<1>8. PICK k \in 1..Len(s) : s[k] = i
  BY <1>5, <1>7 DEF Queries!Range
<1>9. 1 \in 1..Len(s) /\ \A j \in R : j <= s[1]
  <2>1. 1 \in 1..Len(s)
    BY <1>7, <1>8
  <2>2. \A m \in 1..Len(s) : s[m] <= s[1]
    <3>1. \A m \in 1..Len(s) : m = 1 \/ 1 < m
      OBVIOUS
    <3>2. QED
      BY <1>6, <1>7, <2>1, <3>1
  <2>3. \A j \in R : \E m \in 1..Len(s) : s[m] = j
    BY <1>5, <1>7 DEF Queries!Range
  <2>4. QED
    BY <2>1, <2>2, <2>3
<1>10. s[1] \in R /\ i \in R
  BY <1>5, <1>7, <1>9 DEF Queries!Range
<1>11. Queries!Range(SubSeq(s, 1, 1)) = {s[1]}
  <2> DEFINE t == SubSeq(s, 1, 1)
  <2>1. 1 \in 0..Len(s)
    BY <1>7, <1>9
  <2>2. t \in Seq(1..n) /\ Len(t) = 1 /\ \A m \in 1..1 : t[m] = s[m]
    <3>1. \A k_ \in 0..Len(s) :
             /\ SubSeq(s, 1, k_) \in Seq(1..n) /\ Len(SubSeq(s, 1, k_)) = k_
             /\ \A m \in 1..k_ : SubSeq(s, 1, k_)[m] = s[m]
      BY <1>6, PrefixIs
    <3>2. QED
      BY <2>1, <3>1
  <2> HIDE DEF t
  <2>3. DOMAIN t = 1..1 /\ t[1] = s[1]
    BY <2>2, LenProperties
  <2>4. \A x \in Queries!Range(t) : x = s[1]
    BY <2>2, <2>3 DEF Queries!Range
  <2>5. s[1] \in Queries!Range(t)
    BY <2>3 DEF Queries!Range
  <2>6. QED
    BY <2>4, <2>5 DEF t
<1>12. i = s[1] <=> \A j \in R : j <= i
  BY <1>1, <1>9, <1>10
<1>13. QED
  BY <1>3, <1>5, <1>11, <1>12 DEF one

LEMMA QueriesExact == RowsInv => Queries!QueriesAreExact
<1> USE DEF RowsInv
<1> SUFFICES ASSUME rows \in Seq(Queries!Rows) PROVE Queries!ReportsAgree
  BY LastHourExact DEF Queries!QueriesAreExact
<1>1. QED
  BY CountsAre, UsersCover, LimitIs, Zenon DEF Queries!ReportsAgree

\* The queries of the auditors return exactly the rows that they should, the
\* newest first, from either backend, whatever the table holds (queries.py
\* and fetch of backends.py).
THEOREM QueriesAlwaysExact == Queries!Spec => []QueriesAreExact
<1>1. RowsInv => QueriesAreExact
  BY QueriesExact DEF QueriesAreExact
<1>2. QED
  BY AlwaysRows, <1>1, PTL
===============================================================================
