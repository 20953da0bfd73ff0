---------------------------- MODULE MCPolicyReload ----------------------------
(* TLC instances of PolicyReload. *)
EXTENDS PolicyReload, TLC
=============================================================================
