------------------------------ MODULE MCEmail ------------------------------
(* One mailbox with three messages and room for each way they can refer to  *)
(* each other, one call that sends, two worker threads.                     *)
EXTENDS Email

Symmetry == Permutations(Mids) \cup Permutations(Recipients) \cup Permutations(Workers)
=============================================================================
