------------------------------- MODULE PiiScan -------------------------------
(***************************************************************************)
(* The two passes of the PII detector (app/pdp/detectors/pii.py), stage 6  *)
(* of the pipeline, on the threads of the server's pool.  The second pass  *)
(* is to raise the confidence of what the first one found; its engine is   *)
(* loaded on first use into the global _analyzer, without a lock.  scan()  *)
(* swallows whatever it raises.                                            *)
(***************************************************************************)
EXTENDS Integers

CONSTANTS
    Threads,     \* threads that run the detector
    MaxScans     \* bound: calls of scan()

VARIABLES
    installed,   \* presidio_analyzer can be imported
    analyzer,    \* _analyzer: "None", "unavailable" or "engine"
    pc,          \* where each thread is
    matches,     \* the prompt of the thread matches a format of the first pass
    result,      \* what scan() returned: "signal" or "none"
    raised,      \* history: threads whose engine raised in this scan
    scans

vars == <<installed, analyzer, pc, matches, result, raised, scans>>

Init ==
    /\ installed \in BOOLEAN
    /\ analyzer = "None"
    /\ pc = [t \in Threads |-> "idle"]
    /\ matches = [t \in Threads |-> FALSE]
    /\ result = [t \in Threads |-> "none"]
    /\ raised = {} /\ scans = 0

Resting == {"idle", "returned"}     \* the thread is not in scan()

Goto(t, label) == pc' = [pc EXCEPT ![t] = label]
Return(t, signal) == result' = [result EXCEPT ![t] = signal] /\ Goto(t, "returned")

\* The first pass: without a match nothing is loaded.
FirstPass(t) ==
    /\ pc[t] \in Resting
    /\ scans < MaxScans
    /\ scans' = scans + 1
    /\ raised' = raised \ {t}
    /\ \E found \in BOOLEAN :
          /\ matches' = [matches EXCEPT ![t] = found]
          /\ IF found THEN Goto(t, "get") /\ UNCHANGED result ELSE Return(t, "none")
    /\ UNCHANGED <<installed, analyzer>>

GetAnalyzer(t) ==
    /\ pc[t] = "get"
    /\ Goto(t, IF analyzer = "None" THEN "load" ELSE "confirm")
    /\ UNCHANGED <<installed, analyzer, matches, result, raised, scans>>

\* Faulty variant of ImportFails: the global stays as it was.
ImportFailsUnnoted(t) ==
    /\ pc[t] = "load"
    /\ ~installed
    /\ Goto(t, "confirm")
    /\ UNCHANGED <<installed, analyzer, matches, result, raised, scans>>

ImportFails(t) ==
    /\ pc[t] = "load"
    /\ ~installed
    /\ analyzer' = "unavailable"
    /\ Goto(t, "confirm")
    /\ UNCHANGED <<installed, matches, result, raised, scans>>

LoadEngine(t) ==
    /\ pc[t] = "load"
    /\ installed
    /\ analyzer' = "engine"
    /\ Goto(t, "confirm")
    /\ UNCHANGED <<installed, matches, result, raised, scans>>

\* The engine fails to load, for the lack of its model for instance, or to
\* analyze the prompt.  Only an ImportError is caught before scan() does.
EngineRaises(t) ==
    /\ \/ pc[t] = "load" /\ installed
       \/ pc[t] = "confirm" /\ analyzer = "engine"
    /\ raised' = raised \cup {t}
    /\ Return(t, "none")
    /\ UNCHANGED <<installed, analyzer, matches, scans>>

\* Whatever score comes back, the signal stops the prompt.  None, which
\* _get_analyzer would return if nobody had set the global, has no analyze().
Confirm(t) ==
    /\ pc[t] = "confirm"
    /\ Return(t, IF analyzer = "None" THEN "none" ELSE "signal")
    /\ UNCHANGED <<installed, analyzer, matches, raised, scans>>

\* All scans have been made.
Finished ==
    /\ scans = MaxScans
    /\ \A t \in Threads : pc[t] \in Resting
    /\ UNCHANGED vars

Scan(t) ==
    FirstPass(t) \/ GetAnalyzer(t) \/ ImportFails(t) \/ LoadEngine(t) \/ EngineRaises(t) \/ Confirm(t)

Next == (\E t \in Threads : Scan(t)) \/ Finished

Spec == Init /\ [][Next]_vars

-----------------------------------------------------------------------------
(* Properties                                                               *)

\* A prompt that the first pass matches is stopped, whether or not the engine
\* is installed and whichever threads are loading it; the one thing that can
\* lose it is an engine that is there and raises.
LostOnlyIfTheEngineRaises ==
    \A t \in Threads :
        pc[t] = "returned" =>
            /\ result[t] = "signal" <=> (matches[t] /\ t \notin raised)
            /\ ~installed => t \notin raised

\* Claim of the comment in _detect, that the second pass boosts confidence if
\* it is available: it never takes a finding away.
SecondPassOnlyBoosts ==
    \A t \in Threads : (pc[t] = "returned" /\ matches[t]) => result[t] = "signal"
=============================================================================
