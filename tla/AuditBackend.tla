----------------------------- MODULE AuditBackend ----------------------------
(***************************************************************************)
(* What a storage backend promises its logger: AuditBackend of             *)
(* app/audit/backends.py, whose write_many either returns or raises.       *)
(*                                                                         *)
(* A write that returns commits its rows.  Rows of a write that raised may *)
(* be carried: they are committed with the next write that returns, before *)
(* its rows, or are lost.  They never get into the table by themselves,    *)
(* the table only grows, and no row is in it twice.                        *)
(***************************************************************************)
EXTENDS Sequences, SequencesExt

VARIABLES
    table,     \* committed rows, in seq order
    carried    \* rows of writes that raised, not lost yet

vars == <<table, carried>>

Init == table = <<>> /\ carried = <<>>

WriteReturns ==
    /\ IsStrictPrefix(table \o carried, table')
    /\ carried' = <<>>

WriteRaises ==
    /\ IsStrictPrefix(carried, carried')
    /\ UNCHANGED table

\* A rollback, close(), or the end of the process.
Lose ==
    /\ carried' = <<>>
    /\ UNCHANGED table

Next ==
    /\ WriteReturns \/ WriteRaises \/ Lose
    /\ IsInjective(table' \o carried')

Spec == Init /\ [][Next]_vars
=============================================================================
