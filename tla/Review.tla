-------------------------------- MODULE Review --------------------------------
(***************************************************************************)
(* The two queues a teacher works through (services/api/teacher.py and the *)
(* pages of services/api/app.py and review_page.py): open review items,    *)
(* and shadow candidates without a rating.  Both list the oldest open rows *)
(* of the whole system, up to a limit, and then drop those of other        *)
(* teachers' students; both take a judgement of any row that is shown,     *)
(* judged meanwhile or not, and append it.                                 *)
(***************************************************************************)
EXTENDS Naturals, Sequences, FiniteSets

CONSTANTS
    Teachers,       \* principals with the teacher role
    Sessions,       \* sessions of children
    Scope,          \* the sessions of each teacher's students (resolve_scope)
    Limit,          \* rows one page asks for; at most MAX_PAGE
    Opinions,       \* what a teacher may say of a row
    MaxRows,        \* bound: rows queued
    MaxJudgements   \* bound: judgements given

Opinion == [better : BOOLEAN,       \* better_than_shown
            leak : BOOLEAN,         \* would_leak
            corrected : BOOLEAN]    \* a corrected_tag that differs from the tag

ASSUME ReviewAssumption ==
    /\ Scope \in [Teachers -> SUBSET Sessions]
    /\ Limit \in Nat \ {0} /\ MaxRows \in Nat /\ MaxJudgements \in Nat
    /\ Opinions \subseteq Opinion

VARIABLES
    queue,          \* the queue looked at; they do not touch each other
    rows,           \* review_item or shadow_candidate rows, oldest first
    resolved,       \* review items whose resolved_at is set
    judgements,     \* review_verdict or shadow_rating rows, oldest first
    page,           \* the rows each teacher's page shows
    nothing         \* whether it says that nothing is waiting

vars == <<queue, rows, resolved, judgements, page, nothing>>

Row == [session : Sessions, passed : BOOLEAN]   \* passed: leak_check_passed
Judgement == [row : Nat \ {0}, teacher : Teachers, opinion : Opinions]

-----------------------------------------------------------------------------

Judged(i) == \E j \in DOMAIN judgements : judgements[j].row = i

\* The rows a query finds, before its limit.
Open == {i \in DOMAIN rows : IF queue = "shadow" THEN ~Judged(i) ELSE i \notin resolved}

\* Mutant: the limit is applied before judged rows are left out.
OldestOfAll == {i \in Open : i <= Limit}
\* ORDER BY created_at LIMIT, over every session in the system.
Oldest == {i \in Open : Cardinality({k \in Open : k < i}) < Limit}

InScope(t, i) == rows[i].session \in Scope[t]

\* Mutant: they are not dropped.
ListedUnscoped(t) == Oldest
\* shadow_queue, review_queue: only then the rows of others are dropped.
Listed(t) == {i \in Oldest : InScope(t, i)}

-----------------------------------------------------------------------------

\* A session is routed for review, or an attempt in shadow mode records what the
\* model said; only a shadow candidate may have failed its leak check.
NewRow ==
    /\ Len(rows) < MaxRows
    /\ \E s \in Sessions, passed \in BOOLEAN :
        /\ queue = "review" => passed
        /\ rows' = Append(rows, [session |-> s, passed |-> passed])
    /\ UNCHANGED <<queue, resolved, judgements, page, nothing>>

\* load() in the page.
LoadPage(t) ==
    /\ page' = [page EXCEPT ![t] = Listed(t)]
    /\ nothing' = [nothing EXCEPT ![t] = Listed(t) = {}]
    /\ UNCHANGED <<queue, rows, resolved, judgements>>

\* rate_shadow_candidate, resolve_review_item: whether the row is still open is not
\* looked at.  The card stays on the page until the reply arrives.
Judge(t) ==
    /\ Len(judgements) < MaxJudgements
    /\ \E i \in page[t], opinion \in Opinions :
        /\ InScope(t, i)
        /\ judgements' = Append(judgements,
                                [row |-> i, teacher |-> t, opinion |-> opinion])
        /\ resolved' = IF queue = "review" THEN resolved \cup {i} ELSE resolved
    /\ UNCHANGED <<queue, rows, page, nothing>>

\* The reply to a judgement removes the card.
RemoveCard(t) ==
    /\ \E i \in page[t] :
        /\ \E j \in DOMAIN judgements :
            judgements[j].row = i /\ judgements[j].teacher = t
        /\ page' = [page EXCEPT ![t] = @ \ {i}]
    /\ UNCHANGED <<queue, rows, resolved, judgements, nothing>>

Init ==
    /\ queue \in {"review", "shadow"}
    /\ rows = <<>> /\ resolved = {} /\ judgements = <<>>
    /\ page = [t \in Teachers |-> {}]
    /\ nothing = [t \in Teachers |-> FALSE]

Next == NewRow \/ \E t \in Teachers : LoadPage(t) \/ Judge(t) \/ RemoveCard(t)

Spec == Init /\ [][Next]_vars

-----------------------------------------------------------------------------
(* Properties *)

\* Every variable holds a value of its kind; what pages show and judgements name
\* are rows, of the teacher's own students.
TypeOK ==
    /\ queue \in {"review", "shadow"}
    /\ rows \in Seq(Row)
    /\ resolved \subseteq DOMAIN rows
    /\ judgements \in Seq(Judgement)
    /\ \A j \in DOMAIN judgements :
        judgements[j].row \in DOMAIN rows /\ InScope(judgements[j].teacher, judgements[j].row)
    /\ page \in [Teachers -> SUBSET DOMAIN rows]
    /\ nothing \in [Teachers -> BOOLEAN]
    /\ \A t \in Teachers : \A i \in page[t] : InScope(t, i) /\ ~nothing[t]

\* Every child is in somebody's class (an administrator sees all of them).
Covered == \A s \in Sessions : \E t \in Teachers : s \in Scope[t]

\* Somebody always gets on: while any row is open, a teacher who loads the page is
\* shown one, although the rows of other classrooms count against the limit.  So
\* the queue cannot be stuck behind rows that nobody is shown.
SomebodySees == Covered /\ Open # {} => \E t \in Teachers : Listed(t) # {}

\* A row leaves the queue with its first judgement and never comes back, and there
\* is no other way out of the queue.
LeavesWithJudgement == \A i \in DOMAIN rows : i \in Open <=> ~Judged(i)

=============================================================================
