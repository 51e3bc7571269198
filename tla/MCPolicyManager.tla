--------------------------- MODULE MCPolicyManager ---------------------------
(* Small instances of PolicyManager for TLC.                               *)
EXTENDS PolicyManager, TLC

CONSTANTS k1, k2
=============================================================================
