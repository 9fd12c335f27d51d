----------------------------- MODULE MCStorage ------------------------------
(* Both tiers and their end on small instances.                            *)
EXTENDS Storage, TLC

CONSTANTS l1, l2

StopperSymmetry == Permutations(Stoppers)
=============================================================================
