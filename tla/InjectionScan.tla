---------------------------- MODULE InjectionScan ----------------------------
(***************************************************************************)
(* The injection detector (app/pdp/detectors/injection.py), stage 5 of the *)
(* pipeline, on the threads of the server's pool.  The automaton is built  *)
(* on first use into two globals, one after the other, without a lock:     *)
(* _automaton is the Aho-Corasick automaton if the library is installed,   *)
(* and the list of phrases if not; _use_aho says which.                    *)
(*                                                                         *)
(* A prompt is what its passes see: whether the normalized text holds a    *)
(* phrase, and the same for each of its decoded Base64 blocks.             *)
(***************************************************************************)
EXTENDS Integers, Sequences

CONSTANTS
    Threads,      \* threads that run the detector
    Prompts,      \* records [text, blocks]
    MaxScans      \* bound: calls of scan()

VARIABLES
    library,    \* ahocorasick can be imported
    automaton,  \* _automaton: "none", "aho" or "list"
    useAho,     \* _use_aho
    pc,         \* where each thread is
    prompt,     \* the prompt of the thread
    part,       \* 0 for the text, n for the n-th decoded block
    result,     \* what scan() returned: "signal" or "none"
    scans,
    exposed     \* history: the scan of the thread began before _use_aho was
                \* what it is going to be, and has not set it itself

globals == <<automaton, useAho>>
locals == <<prompt, part, result, exposed>>
vars == <<library, globals, pc, locals, scans>>

Init ==
    /\ library \in BOOLEAN
    /\ automaton = "none" /\ useAho = TRUE
    /\ pc = [t \in Threads |-> "idle"]
    /\ prompt \in [Threads -> {CHOOSE p \in Prompts : TRUE}]
    /\ part = [t \in Threads |-> 0]
    /\ result = [t \in Threads |-> "none"]
    /\ scans = 0
    /\ exposed = [t \in Threads |-> FALSE]

Resting == {"idle", "returned"}     \* the thread is not in scan()

Goto(t, label) == pc' = [pc EXCEPT ![t] = label]
Return(t, signal) == result' = [result EXCEPT ![t] = signal] /\ Goto(t, "returned")

\* The part that the thread is looking at holds a phrase.
Holds(t) == IF part[t] = 0 THEN prompt[t].text ELSE prompt[t].blocks[part[t]]

Begin(t) ==
    /\ pc[t] \in Resting
    /\ scans < MaxScans
    /\ scans' = scans + 1
    /\ \E p \in Prompts : prompt' = [prompt EXCEPT ![t] = p]
    /\ part' = [part EXCEPT ![t] = 0]
    /\ result' = [result EXCEPT ![t] = "none"]
    /\ exposed' = [exposed EXCEPT ![t] = useAho # library]
    /\ Goto(t, "search")
    /\ UNCHANGED <<library, globals>>

-----------------------------------------------------------------------------
(* _search_phrases and _build_automaton.                                    *)

SearchPhrases(t) ==
    /\ pc[t] = "search"
    /\ Goto(t, IF automaton = "none" THEN "build" ELSE "choose")
    /\ UNCHANGED <<library, globals, locals, scans>>

\* The first of the two assignments.
SetAutomaton(t) ==
    /\ pc[t] = "build"
    /\ automaton' = IF library THEN "aho" ELSE "list"
    /\ Goto(t, "flag")
    /\ UNCHANGED <<library, useAho, locals, scans>>

\* Faulty variant of SetFlag: the flag is not declared global.
SetFlagLocally(t) ==
    /\ pc[t] = "flag"
    /\ exposed' = [exposed EXCEPT ![t] = FALSE]
    /\ Goto(t, "choose")
    /\ UNCHANGED <<library, globals, prompt, part, result, scans>>

SetFlag(t) ==
    /\ pc[t] = "flag"
    /\ useAho' = library
    /\ exposed' = [exposed EXCEPT ![t] = FALSE]
    /\ Goto(t, "choose")
    /\ UNCHANGED <<library, automaton, prompt, part, result, scans>>

\* iter() of a list raises AttributeError: scan() returns None.
Choose(t) ==
    /\ pc[t] = "choose"
    /\ IF useAho /\ automaton = "list"
         THEN Return(t, "none")
         ELSE Goto(t, "match") /\ UNCHANGED result
    /\ UNCHANGED <<library, globals, prompt, part, exposed, scans>>

-----------------------------------------------------------------------------
(* _detect: the text, then block after block until one matches.             *)

Match(t) ==
    /\ pc[t] = "match"
    /\ \/ /\ Holds(t)
          /\ Return(t, "signal")
          /\ UNCHANGED part
       \/ /\ ~Holds(t)
          /\ part[t] < Len(prompt[t].blocks)
          /\ part' = [part EXCEPT ![t] = @ + 1]
          /\ Goto(t, "search")
          /\ UNCHANGED result
       \/ /\ ~Holds(t)
          /\ part[t] = Len(prompt[t].blocks)
          /\ Return(t, "none")
          /\ UNCHANGED part
    /\ UNCHANGED <<library, globals, prompt, exposed, scans>>

-----------------------------------------------------------------------------
\* All scans have been made.
Finished ==
    /\ scans = MaxScans
    /\ \A t \in Threads : pc[t] \in Resting
    /\ UNCHANGED vars

Scan(t) ==
    Begin(t) \/ SearchPhrases(t) \/ SetAutomaton(t) \/ SetFlag(t) \/ Choose(t) \/ Match(t)

Next == (\E t \in Threads : Scan(t)) \/ Finished

Spec == Init /\ [][Next]_vars

-----------------------------------------------------------------------------
(* Properties                                                               *)

\* The type invariant.
TypeOK ==
    /\ library \in BOOLEAN /\ useAho \in BOOLEAN
    /\ automaton \in {"none", "aho", "list"}
    /\ pc \in [Threads -> {"idle", "returned", "search", "build", "flag", "choose", "match"}]
    /\ prompt \in [Threads -> Prompts]
    /\ part \in [Threads -> Nat]
    /\ \A t \in Threads : part[t] <= Len(prompt[t].blocks)
    /\ result \in [Threads -> {"none", "signal"}]
    /\ scans \in 0..MaxScans
    /\ exposed \in [Threads -> BOOLEAN]

HasPhrase(p) == p.text \/ \E i \in 1..Len(p.blocks) : p.blocks[i]

\* The detector flags nothing but phrases, and loses one only to the first
\* build: without the library, in a scan that began before another thread had
\* set _use_aho.  A scan that builds the automaton itself, one that begins when
\* the first build is over, and every scan where the library is installed finds
\* the phrase, although any number of threads may build again and again.
LostOnlyInTheFirstBuild ==
    \A t \in Threads :
        pc[t] = "returned" =>
            /\ result[t] = "signal" => HasPhrase(prompt[t])
            /\ HasPhrase(prompt[t]) => result[t] = "signal" \/ (~library /\ exposed[t])

\* Claim of the docstring of _build_automaton, that the detector falls back to
\* the list if the library is missing: a scan that returns has found a phrase
\* exactly when the text or one of the decoded blocks holds one, on whatever
\* thread, and while whichever other thread builds the automaton.
FindsThePhrases ==
    \A t \in Threads :
        pc[t] = "returned" => (result[t] = "signal" <=> HasPhrase(prompt[t]))
=============================================================================
