---------------------------- MODULE ClassSummary ----------------------------
(***************************************************************************)
(* The overview of a class (services/api/teacher_dashboard.py): whom it    *)
(* is for (packages/auth/), the queries it is read with, one after the     *)
(* other, while children answer and teachers resolve, and the numbers it   *)
(* makes of them.  Each query sees what is committed when it runs.         *)
(***************************************************************************)
EXTENDS Naturals, FiniteSetsExt

CONSTANTS
    Students,
    Sessions,
    StudentOf,              \* whose each session is
    Callers,                \* principals, and ids that are nobody's
    Role,                   \* the role of those that are somebody's
    Child,                  \* per student caller, the student they are
    Enrollments,            \* pairs of a teacher, by their classroom, and a student
    Labels,                 \* misconceptions a diagnosis names
    MinForARate,
    RecurrenceThreshold,
    MaxAttempts             \* bound: attempts, per session

ASSUME SummaryAssumption ==
    /\ StudentOf \in [Sessions -> Students]
    /\ DOMAIN Role \subseteq Callers
    /\ {Role[c] : c \in DOMAIN Role} \subseteq {"student", "teacher", "admin"}
    /\ Child \in [{c \in DOMAIN Role : Role[c] = "student"} -> Students]
    /\ Enrollments \subseteq Callers \X Students
    /\ Labels \cap {"none", "ungraded", "right", "wrong", "unknown"} = {}
    /\ IsFiniteSet(Students)
    /\ MinForARate \in Nat \ {0} /\ RecurrenceThreshold \in Nat \ {0}
    /\ MaxAttempts \in [Sessions -> Nat]

VARIABLES
    opened,     \* session rows
    attempt,    \* per session and number, how far an attempt is in the record
    items,      \* sessions with an open review item
    caller,     \* who loads the page
    page,       \* what its queries have read
    began       \* the attempts that were in the record when it was loaded

record == <<opened, attempt, items>>
reading == <<caller, page, began>>
overview == <<record, reading>>

Attempts == UNION {{s} \X (1..MaxAttempts[s]) : s \in Sessions}
Diagnosed == {"unknown"} \cup Labels
Graded == {"right", "wrong"} \cup Diagnosed
Owner(a) == StudentOf[a[1]]

-----------------------------------------------------------------------------
(* The record grows: commits of submit_answer, as overlapping submissions and ones *)
(* that fail on the way interleave and leave them (Submission.tla)                *)

OpenSession(s) ==
    /\ s \notin opened
    /\ opened' = opened \cup {s}
    /\ UNCHANGED <<attempt, items, reading>>

Answer(a) ==
    /\ a[1] \in opened /\ attempt[a] = "none"
    /\ a[2] > 1 => attempt[a[1], a[2] - 1] # "none"
    /\ attempt' = [attempt EXCEPT ![a] = "ungraded"]
    /\ UNCHANGED <<opened, items, reading>>

Grade(a) ==
    /\ attempt[a] = "ungraded"
    /\ \E verdict \in {"right", "wrong"} : attempt' = [attempt EXCEPT ![a] = verdict]
    /\ UNCHANGED <<opened, items, reading>>

\* Only a wrong answer is diagnosed; an abstention is a diagnosis too.
Diagnose(a) ==
    /\ attempt[a] = "wrong"
    /\ \E label \in Diagnosed : attempt' = [attempt EXCEPT ![a] = label]
    /\ UNCHANGED <<opened, items, reading>>

\* A session is routed by an attempt, graded or (a welfare signal, an answer that
\* cannot be judged) not; it is routed again once its item is resolved.
Route(s) ==
    /\ s \notin items /\ \E a \in Attempts : a[1] = s /\ attempt[a] # "none"
    /\ items' = items \cup {s}
    /\ UNCHANGED <<opened, attempt, reading>>

Resolve(s) ==
    /\ s \in items
    /\ items' = items \ {s}
    /\ UNCHANGED <<opened, attempt, reading>>

-----------------------------------------------------------------------------
(* Whom it is for *)

\* current_scope: an id that is nobody's is turned away.
Known == caller \in DOMAIN Role
\* can_read_review_queue.
CanReadReviewQueue == Known /\ Role[caller] \in {"teacher", "admin"}

\* resolve_scope: nothing is looked up for an administrator.
Scope ==
    CASE Role[caller] = "admin" -> {}
      [] Role[caller] = "student" -> {Child[caller]}
      [] Role[caller] = "teacher" -> {e[2] : e \in {x \in Enrollments : x[1] = caller}}

\* can_read_student: administrators are not scoped.
CanReadStudent(student) == Role[caller] = "admin" \/ student \in Scope

-----------------------------------------------------------------------------
(* The queries *)

Nothing == [at |-> "idle", visible |-> {}, sessions |-> {}, attempts |-> {},
            right |-> {}, wrong |-> {}, diagnoses |-> {}, open |-> {}]

\* The next query reads what, and the one after it comes next.
Query(at, read, next) ==
    /\ page.at = at
    /\ page' = [read EXCEPT !.at = next]
    /\ UNCHANGED <<record, caller, began>>

Refuse == ~CanReadReviewQueue /\ Query("idle", page, "refused")

\* _visible_students; a class without children is summed up without a query.
ReadStudents ==
    /\ CanReadReviewQueue /\ page.at = "idle"
    /\ LET visible == {student \in Students : CanReadStudent(student)}
       IN  page' = [page EXCEPT !.visible = visible,
                                !.at = IF visible = {} THEN "done" ELSE "sessions"]
    /\ began' = {a \in Attempts : attempt[a] # "none"}
    /\ UNCHANGED <<record, caller>>

ReadSessions ==
    Query("sessions",
          [page EXCEPT !.sessions = {s \in opened : StudentOf[s] \in page.visible}],
          "attempts")

ReadAttempts ==
    Query("attempts",
          [page EXCEPT !.attempts =
              {a \in Attempts : a[1] \in page.sessions /\ attempt[a] # "none"}],
          "scores")

ReadScores ==
    Query("scores",
          [page EXCEPT !.right = {a \in page.attempts : attempt[a] = "right"},
                       !.wrong = {a \in page.attempts : attempt[a] \in Graded \ {"right"}}],
          "diagnoses")

ReadDiagnoses ==
    Query("diagnoses",
          [page EXCEPT !.diagnoses =
              {<<a, attempt[a]>> : a \in {x \in page.attempts : attempt[x] \in Diagnosed}}],
          "items")

\* Mutant: whatever is open.
OpenOfAll == items
OpenItems == items \cap page.sessions

ReadItems == Query("items", [page EXCEPT !.open = OpenItems], "done")

-----------------------------------------------------------------------------
(* The numbers *)

Of(student, attempts) == {a \in attempts : Owner(a) = student}
Answered == {a[1] : a \in page.attempts}
Abandoned == page.sessions \ Answered
SessionsOf(student) == {s \in page.sessions : StudentOf[s] = student}

\* A rate is withheld below the floor.
Measure(count, of) == [count |-> count, of |-> of, rated |-> of >= MinForARate]

\* Mutant: whatever was not marked right counts as wrong.
JudgedOfAll(student) == Of(student, page.attempts)
\* Attempts without a grade are left out.
Judged(student) == Of(student, page.right \cup page.wrong)

Correct(student) ==
    Measure(Cardinality(Of(student, page.right)), Cardinality(Judged(student)))

TagCount(student, label) ==
    Cardinality({d \in page.diagnoses : Owner(d[1]) = student /\ d[2] = label})
Recurring(student) ==
    {label \in Labels : TagCount(student, label) >= RecurrenceThreshold}

\* StudentSummary
Row(student) ==
    [answered |-> Cardinality(SessionsOf(student) \cap Answered),
     abandoned |-> Cardinality(SessionsOf(student) \ Answered),
     attempts |-> Cardinality(Of(student, page.attempts)),
     awaiting |-> Cardinality({s \in page.open : StudentOf[s] = student}),
     correct |-> Correct(student),
     recurring |-> Recurring(student)]

ClassCount(label) == Cardinality({d \in page.diagnoses : d[2] = label})
Affected(label) == {student \in page.visible : TagCount(student, label) > 0}
Abstained ==
    Measure(Cardinality({d \in page.diagnoses : d[2] = "unknown"}),
            Cardinality(page.diagnoses))

\* ClassSummary
Summary ==
    [answered |-> Cardinality(Answered),
     abandoned |-> Cardinality(page.sessions) - Cardinality(Answered),
     attempts |-> Cardinality(page.attempts),
     awaiting |-> Cardinality(page.open)]

-----------------------------------------------------------------------------
(* Specification *)

ClassInit ==
    /\ opened = {} /\ items = {}
    /\ attempt = [a \in Attempts |-> "none"]
    /\ caller \in Callers /\ page = Nothing /\ began = {}

Commit ==
    \/ \E s \in Sessions : OpenSession(s) \/ Route(s) \/ Resolve(s)
    \/ \E a \in Attempts : Answer(a) \/ Grade(a) \/ Diagnose(a)

Read ==
    \/ Refuse \/ ReadStudents \/ ReadSessions \/ ReadAttempts \/ ReadScores
    \/ ReadDiagnoses \/ ReadItems

\* Nothing that is committed afterwards is in the page.
ClassNext == page.at \notin {"done", "refused"} /\ (Commit \/ Read)

ClassSpec == ClassInit /\ [][ClassNext]_overview

-----------------------------------------------------------------------------
(* Properties *)

Shown == page.at = "done"
Total(field) == MapThenSumSet(LAMBDA student : Row(student)[field], page.visible)
TagTotal(label) == MapThenSumSet(LAMBDA student : TagCount(student, label), page.visible)

\* "A class average can never be contaminated by a child in another class"
\* (teacher_dashboard.py:32-33), nor by what is committed between two queries: each
\* total is the sum of the rows the page shows under it, the rows are of all the
\* children the caller may see and of nobody else's, and a count of judged or of
\* diagnosed attempts is never larger than the count of attempts beside it.
TotalsOfTheClass ==
    Shown =>
        /\ \A field \in {"answered", "abandoned", "attempts", "awaiting"} :
            Summary[field] = Total(field)
        /\ page.visible = {x \in Students : Role[caller] = "admin" \/ <<caller, x>> \in Enrollments}
        /\ \A student \in page.visible : Row(student).correct.of <= Row(student).attempts
        /\ Abstained.of <= Summary.attempts
        /\ \A label \in Labels :
            /\ ClassCount(label) = TagTotal(label)
            /\ Cardinality(Affected(label)) <= ClassCount(label)

\* What the page says of a child is not worse than the record, although the record
\* was being written while it was read (teacher_dashboard.py:23-26, 133-136): a
\* child none of whose answers was judged wrong is not rated below all right, a
\* session that was answered before the page was loaded does not count as one the
\* child walked away from, and a misconception that recurs was diagnosed for that
\* child that often.
FairToChildren ==
    Shown =>
        \A student \in page.visible :
            /\ (\A a \in Of(student, Attempts) : attempt[a] \notin Graded \ {"right"}) =>
                Row(student).correct.count = Row(student).correct.of
            /\ \A a \in Of(student, began) : a[1] \notin Abandoned
            /\ \A label \in Row(student).recurring :
                Cardinality({a \in Of(student, Attempts) : attempt[a] = label})
                    >= RecurrenceThreshold
=============================================================================
