------------------------------ MODULE MCLesson ------------------------------
(* Lesson on seeded problems and on others the code is meant for. *)
EXTENDS Lesson

\* 8 + 3 is seeded; the answer of 9 - 8 is a number that templates spell out.
MCProblems == Sum({<<8, 3>>}) \cup Difference({<<9, 8>>})
MCOffsets == {0}
MCMessages == {<<>>, <<"hopelessness", "self_harm">>}

\* A model says "eleven", the answer of 8 + 3 and of no other.
MCDrafts == {[digits |-> {}, words |-> {11}]}

ASSUME SeedIsLikeThat ==
    Sum({<<8, 3>>}) \subseteq SeedProblems

\* The pictures of all seeded problems, and of one past the ten-frame from
\* tests/test_student_api.py.
ASSUME SeedsAreDrawn == \A p \in SeedProblems \cup Sum({<<12, 6>>}) : PictureShows(p)

\* A number line labels every fifth tick, and 13 - 8 is 5: "the finish is not" marked
\* (student_page.py:137) is not so for every seeded problem.
ASSUME FinishMayBeLabelled ==
    \E p \in SeedProblems : ~FitsATenFrame(p) /\ p.answer \in Labels(p) \ {p.a, p.b}
=============================================================================
