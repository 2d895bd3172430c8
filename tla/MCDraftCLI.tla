----------------------------- MODULE MCDraftCLI -----------------------------
(* Two operators at one draft, with the processes of DraftDispatch.         *)
EXTENDS DraftCLI, TLC

Symmetry == Permutations(Operators) \cup Permutations(Patchers) \cup Permutations(Mids)
=============================================================================
