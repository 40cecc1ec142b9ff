------------------------------- MODULE MCReview -------------------------------
(* Review.tla and Phase0Gates.tla for TLC: two classrooms and a child in both. *)
EXTENDS Phase0Gates, TLC
CONSTANTS t1, t2, s1, s2, s3
MCScope == t1 :> {s1, s2} @@ t2 :> {s2, s3}
MCOpinions ==
    {[better |-> TRUE, leak |-> FALSE, corrected |-> FALSE],
     [better |-> FALSE, leak |-> TRUE, corrected |-> TRUE]}
\* Swapping the two classrooms, with their teachers, changes nothing.
Symmetry == {t1 :> t2 @@ t2 :> t1 @@ s1 :> s3 @@ s3 :> s1}
=============================================================================
