------------------------------ MODULE AuditTrail -----------------------------
(***************************************************************************)
(* What the audit path promises of the trail it keeps, whatever fails.     *)
(* Records are accepted one after the other.  The trail only grows; it     *)
(* holds accepted records, none of them twice, in the order in which they  *)
(* were accepted.  It may have gaps: a record that was passed over is lost *)
(* for good, since nothing is ever inserted before an existing row.        *)
(***************************************************************************)
EXTENDS Integers, Sequences, SequencesExt

CONSTANT Records

VARIABLES accepted, trail

vars == <<accepted, trail>>

Init == accepted = <<>> /\ trail = <<>>

Accept(r) ==
    /\ r \notin Range(accepted)
    /\ accepted' = Append(accepted, r)
    /\ UNCHANGED trail

\* a was accepted before b.  No record is accepted twice, so none is before
\* itself.
Earlier(a, b) ==
    \E i, j \in 1..Len(accepted) : i < j /\ accepted[i] = a /\ accepted[j] = b

InOrder(s) ==
    /\ Range(s) \subseteq Range(accepted)
    /\ \A i, j \in 1..Len(s) : i < j => Earlier(s[i], s[j])

Persist ==
    /\ IsStrictPrefix(trail, trail')
    /\ InOrder(trail')
    /\ UNCHANGED accepted

Next == (\E r \in Records : Accept(r)) \/ Persist

Spec == Init /\ [][Next]_vars
=============================================================================
