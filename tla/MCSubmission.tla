---------------------------- MODULE MCSubmission ----------------------------
(* Submission.tla for TLC: requests of one session, which may be renamed when  *)
(* no liveness property is checked.                                            *)
EXTENDS Submission, TLC
CONSTANTS r1, r2, r3
Symmetry == Permutations(Requests)

\* Requests that overlap and ones sent in turn are explored to different depths.
MCScreens == [turn \in BOOLEAN |-> IF turn THEN {"grade", "flag"} ELSE {"grade"}]
MCMaxFailures == [turn \in BOOLEAN |-> IF turn THEN 2 ELSE 0]
MCNoFlag == [turn \in BOOLEAN |-> {"grade"}]
MCOneFailure == [turn \in BOOLEAN |-> 1]
=============================================================================
