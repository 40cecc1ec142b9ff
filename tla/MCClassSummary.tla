--------------------------- MODULE MCClassSummary ---------------------------
EXTENDS ClassSummary, TLC

CONSTANTS s1, s2, ann, cyd, teacher, newcomer, child, admin, nobody

MCStudentOf == s1 :> ann @@ s2 :> cyd
MCMaxAttempts == s1 :> 2 @@ s2 :> 1
MCRole == teacher :> "teacher" @@ newcomer :> "teacher" @@ child :> "student" @@ admin :> "admin"
MCEnrollments == {<<teacher, ann>>}
MCChild == child :> cyd
=============================================================================
