--------------------------- MODULE MCBridgeCalls ---------------------------
(* Symmetry for model checking BridgeCalls.                                *)
EXTENDS BridgeCalls, TLC

Symmetric == Permutations(Keys) \cup Permutations(Callers)
                \cup Permutations(Requests) \cup Permutations(Runs)
=============================================================================
