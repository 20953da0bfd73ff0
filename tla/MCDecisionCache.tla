--------------------------- MODULE MCDecisionCache ---------------------------
(* TLC instances of DecisionCache. *)
EXTENDS DecisionCache, TLC

Symmetry == Permutations(Threads)
=============================================================================
