------------------------------ MODULE OutputScan -----------------------------
(***************************************************************************)
(* The scan of an answer and its redaction: the scanners O1 to O3 and      *)
(* redact() of app/pdp/output_scanner.py.  Which rule a finding cites and  *)
(* what the verdict does to a request is in Verdicts and RequestPath; here *)
(* it matters where in the answer the spans of the findings are.           *)
(*                                                                         *)
(* An answer is a sequence of atoms, written without anything in between:  *)
(* "passport" and "aws" are words (N1234567, an AKIA key), "env" is an     *)
(* assignment up to its sign (API_KEY=), "rest" is other text without      *)
(* blanks (/x/), "code" is text that O3 blocks as its pattern spells it    *)
(* (<script>), "CODE" is the same in another form (<SCRIPT>), and "gap" is *)
(* blank.                                                                  *)
(***************************************************************************)
EXTENDS Integers, SequencesExt

CONSTANT MaxAtoms    \* bound: the length of an answer

Atoms == {"passport", "aws", "env", "rest", "code", "CODE", "gap"}
Redacted == "[REDACTED]"

EndWithWord == {"passport", "aws"}            \* no \b before a word that follows
StartWithWord == {"passport", "aws", "env"}   \* no \b after a word that precedes

VARIABLES
    answer,     \* the answer of the assistant
    cleaned     \* what redact() makes of it

vars == <<answer, cleaned>>

-----------------------------------------------------------------------------
(* The patterns.  A match is a pair <<first, last>> of positions.           *)

\* The normal form that O3 and O4 look at.
Normalize(s) == [i \in DOMAIN s |-> IF s[i] = "CODE" THEN "code" ELSE s[i]]

StartsWord(s, i) == i = 1 \/ s[i - 1] \notin EndWithWord
EndsWord(s, i) == i = Len(s) \/ s[i + 1] \notin StartWithWord
Blank(s, i, j) == \A k \in i..j : s[k] = "gap"
NoBlank(s, i, j) == \A k \in i..j : s[k] # "gap"

\* The match of an assignment goes over blanks, then to the next blank.
IsMatch(pattern, s, i, j) ==
    /\ s[i] = pattern
    /\ CASE pattern \in {"passport", "aws"} -> i = j /\ StartsWord(s, i) /\ EndsWord(s, i)
         [] pattern = "env" ->
                /\ StartsWord(s, i)
                /\ \E k \in (i + 1)..j : Blank(s, i + 1, k - 1) /\ NoBlank(s, k, j)
                /\ j = Len(s) \/ s[j + 1] = "gap"
         [] pattern = "code" -> i = j

\* findall: the matches from left to right, none of which overlap.
FindAll(pattern, s) ==
    LET from[i \in 1..(Len(s) + 1)] ==
          LET ends == {j \in i..Len(s) : IsMatch(pattern, s, i, j)}
          IN  IF i > Len(s) THEN <<>>
              ELSE IF ends = {} THEN from[i + 1]
              ELSE LET j == CHOOSE j \in ends : TRUE IN <<<<i, j>>>> \o from[j + 1]
    IN  from[1]

\* What O2 finds, all of it in the raw text, in the order of the tables.
Leaks(s) == FindAll("passport", s) \o FindAll("aws", s) \o FindAll("env", s)

\* What O3 finds: the first match in the normal form.
Code(s) ==
    LET found == FindAll("code", Normalize(s))
    IN  IF found = <<>> THEN <<>> ELSE <<Head(found)>>

TextOf(s, match) == SubSeq(s, match[1], match[2])

\* The spans of the findings: texts, without their positions.
Spans(s) ==
    LET leaks == Leaks(s)
        code == Code(s)
    IN  [n \in DOMAIN leaks |-> TextOf(s, leaks[n])]
        \o [n \in DOMAIN code |-> TextOf(Normalize(s), code[n])]

-----------------------------------------------------------------------------
(* redact                                                                   *)

IsAt(span, s, i) ==
    i + Len(span) - 1 <= Len(s) /\ SubSeq(s, i, i + Len(span) - 1) = span

\* Faulty variant of Replace: the first occurrence only.
ReplaceFirst(s, span) ==
    LET found == {i \in DOMAIN s : IsAt(span, s, i)}
        i == CHOOSE i \in found : \A j \in found : i <= j
    IN  IF found = {} THEN s
        ELSE SubSeq(s, 1, i - 1) \o <<Redacted>> \o SubSeq(s, i + Len(span), Len(s))

\* str.replace: every occurrence, from left to right.
Replace(s, span) ==
    LET from[i \in 1..(Len(s) + 1)] ==
          IF i > Len(s) THEN <<>>
          ELSE IF IsAt(span, s, i) THEN <<Redacted>> \o from[i + Len(span)]
          ELSE <<s[i]>> \o from[i + 1]
    IN  from[1]

\* Span after span, each in what the ones before it have left.
Redact(s, spans) ==
    LET after[n \in 0..Len(spans)] ==
          IF n = 0 THEN s ELSE Replace(after[n - 1], spans[n])
    IN  after[Len(spans)]

Init == answer = <<>> /\ cleaned = <<>>

\* scan() and redact() of an answer, which is the last one and one atom more.
ScanAndRedact ==
    /\ Len(answer) < MaxAtoms
    /\ \E atom \in Atoms : answer' = Append(answer, atom)
    /\ cleaned' = Redact(answer', Spans(answer'))

\* The longest answers have been scanned.
Finished == Len(answer) = MaxAtoms /\ UNCHANGED vars

Next == ScanAndRedact \/ Finished

Spec == Init /\ [][Next]_vars

-----------------------------------------------------------------------------
(* Properties                                                               *)

Flagged(s) == ToSet(Leaks(s) \o Code(s))
Covered(matches) == UNION {match[1]..match[2] : match \in matches}

\* The positions at which the text of a flagged span stands, flagged or not.
Occurrences(s) ==
    LET spans == ToSet(Spans(s))
    IN  {m \in (1..Len(s)) \X (1..Len(s)) : m[1] <= m[2] /\ TextOf(s, m) \in spans}

\* No span shares a position with another one, and each is in normal form.
Apart(s) ==
    LET occurrences == Occurrences(s)
    IN  /\ Flagged(s) \subseteq occurrences
        /\ \A m, o \in occurrences : m = o \/ (m[1]..m[2]) \cap (o[1]..o[2]) = {}

\* What is left of s apart from some positions, and from what was replaced.
Kept(s, positions) ==
    LET from[i \in 1..(Len(s) + 1)] ==
          IF i > Len(s) THEN <<>>
          ELSE IF i \in positions \/ s[i] = Redacted THEN from[i + 1]
          ELSE <<s[i]>> \o from[i + 1]
    IN  from[1]

\* Replacing text after text strips what the scan flagged, every time that it
\* stands in the answer, and nothing else, as long as the spans are apart: one
\* replacement does not get in the way of the next, although spans carry no
\* positions and what is replaced changes under them.
StripsSpansApart ==
    Apart(answer) =>
        Kept(cleaned, {}) = Kept(answer, Covered(Occurrences(answer)))

\* Claim of the docstring of redact: every flagged span is stripped.  Not an
\* atom of a span stays.
StripsEverySpan ==
    Len(Kept(cleaned, {})) <= Len(Kept(answer, Covered(Flagged(answer))))
=============================================================================
