------------------------------ MODULE MCRollout ------------------------------
(* Rollout.tla for TLC: percentages of two buckets, administrators by name.   *)
EXTENDS Rollout, TLC
CONSTANTS a1, a2, a3
Symmetry == Permutations(Admins)
=============================================================================
