--------------------------- MODULE MCTokenStore ---------------------------
(* Symmetry for model checking TokenStore.                                *)
EXTENDS TokenStore, TLC

Symmetric ==
    Permutations(Actors) \cup Permutations(Tokens) \cup Permutations(Tools)
        \cup Permutations(Callers)
=============================================================================
