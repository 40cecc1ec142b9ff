----------------------------- MODULE MCEventLog -----------------------------
(* EventLog.tla for TLC: three overlapping requests, which may be renamed. *)
EXTENDS EventLog, TLC
CONSTANTS r1, r2, r3
MCWriters == {r1, r2, r3}
Symmetry == Permutations(MCWriters)
=============================================================================
