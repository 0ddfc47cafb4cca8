------------------------- MODULE MCGradingWorkspace --------------------------
(* TLC instances of GradingWorkspace.                                      *)
EXTENDS GradingWorkspace, TLC

Symmetry == Permutations(Workers) \cup Permutations(Items)
=============================================================================
