---------------------------- MODULE MCAuditLogger ----------------------------
(***************************************************************************)
(* TLC instances of AuditLogger.                                           *)
(***************************************************************************)
EXTENDS AuditLogger, TLC

\* Requests are alike.
Symmetry == Permutations(Requests)
=============================================================================
