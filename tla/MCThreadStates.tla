--------------------------- MODULE MCThreadStates ---------------------------
(* Model-checking instance of ThreadStates.                                *)
EXTENDS ThreadStates, TLC

Symmetry == Permutations(Requests)
=============================================================================
