--------------------------- MODULE MCMemoryBudget ---------------------------
(* Instances of MemoryBudget for TLC.                                      *)
EXTENDS MemoryBudget, TLC

JobSymmetry == Permutations(Jobs)
=============================================================================
