----------------------------- MODULE MCHashMap -------------------------------
(* TLC instance of HashMap.                                                *)
EXTENDS HashMap, TLC

Symmetry == Permutations(Workers)
=============================================================================
