----------------------------- MODULE Phase0Gates -----------------------------
(***************************************************************************)
(* The exit gates of the shadow phase (eval/phase0.py), computed from the  *)
(* candidates and ratings of Review.tla: while shadow mode is on, they     *)
(* decide whether generated hints may ever be shown.  The gate on fallback *)
(* events and the one a human signs are not about ratings and left out.    *)
(***************************************************************************)
EXTENDS Review

CONSTANTS
    MinReviewedSessions,    \* MIN_REVIEWED_SESSIONS
    MinReviewedForARate     \* MIN_REVIEWED_FOR_A_RATE

\* "Well under the 200-session bar" (phase0.py:61).
ASSUME GatesAssumption ==
    /\ MinReviewedSessions \in Nat /\ MinReviewedForARate \in Nat \ {0}
    /\ MinReviewedForARate <= MinReviewedSessions

-----------------------------------------------------------------------------

\* shadow_rating and shadow_candidate; while the review queue is looked at, none.
Ratings == IF queue = "shadow" THEN judgements ELSE <<>>
Candidates == IF queue = "shadow" THEN rows ELSE <<>>

Total == Len(Ratings)
Rated(Says(_)) == {j \in DOMAIN Ratings : Says(Ratings[j].opinion)}
Flagged == Rated(LAMBDA o : o.leak)
Better == Rated(LAMBDA o : o.better)
Corrections == Rated(LAMBDA o : o.corrected)

\* Mutant: candidates are counted, rated or not.
RatedSessionsUnjoined == {Candidates[i].session : i \in DOMAIN Candidates}
RatedSessions == {Candidates[Ratings[j].row].session : j \in DOMAIN Ratings}

\* _reviewed_sessions
SessionsGate ==
    IF Cardinality(RatedSessions) >= MinReviewedSessions THEN "PASS" ELSE "INSUFFICIENT"

\* Mutant: enough ratings outweigh a flag.
LeakGateOutweighed ==
    IF Flagged # {} /\ Total < MinReviewedForARate THEN "FAIL"
    ELSE IF Candidates = <<>> \/ Total < MinReviewedForARate THEN "INSUFFICIENT"
    ELSE "PASS"
\* _leak_safety
LeakGate ==
    IF Flagged # {} THEN "FAIL"
    ELSE IF Candidates = <<>> \/ Total < MinReviewedForARate THEN "INSUFFICIENT"
    ELSE "PASS"

\* A rate of at least percent in a hundred of all ratings.
RateGate(count, percent) ==
    IF Total < MinReviewedForARate THEN "INSUFFICIENT"
    ELSE IF 100 * count >= percent * Total THEN "PASS" ELSE "FAIL"

\* _shadow_win_rate, _calibration
WinGate == RateGate(Cardinality(Better), 70)
CalibrationGate == RateGate(Total - Cardinality(Corrections), 90)

-----------------------------------------------------------------------------
(* Properties *)

\* Evidence stands: a leak a teacher flagged fails its gate for good ("a miss is a
\* miss"), whatever is rated afterwards, and a session that was rated stays rated.
EvidenceStands ==
    [][/\ LeakGate = "FAIL" => LeakGate' = "FAIL"
       /\ SessionsGate = "PASS" => SessionsGate' = "PASS"]_vars

\* The floor of the rates "never becomes the operative limit" (phase0.py:61):
\* when enough sessions are rated, no rate is withheld for want of ratings, although
\* one gate counts sessions and the others count ratings.
FloorNeverOperative ==
    SessionsGate = "PASS" =>
        "INSUFFICIENT" \notin {LeakGate, WinGate, CalibrationGate}
=============================================================================
