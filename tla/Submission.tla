----------------------------- MODULE Submission -----------------------------
(***************************************************************************)
(* The life of one tutoring session: the answers submitted to it, each     *)
(* handled by submit_answer (services/api/student.py) over the functions   *)
(* of services/orchestrator/graph.py, in a database session of its own.    *)
(* A step runs up to the next thing another request can see: loading the   *)
(* session row, reading a sequence number, committing.  A commit takes     *)
(* along every row flushed so far (writing in EventLog.tla); requests may  *)
(* overlap, fail or be cut off anywhere, and a teacher may resolve a       *)
(* review item at any time.                                                *)
(***************************************************************************)
EXTENDS Naturals, FiniteSets

CONSTANTS
    Requests,       \* submissions to this session
    MaxHintLevel,   \* MAX_HINT_LEVEL
    Starts,         \* attempts the session may already have behind it
    Verdicts,       \* what the checker may find: "right" or "wrong"
    \* Bounds, for requests that overlap (FALSE) and that are sent in turn (TRUE):
    Screens,        \* what the welfare screen may find: "grade" (go on) or "flag"
    MaxFailures     \* requests that fail on their own

ASSUME SubmissionAssumption ==
    /\ IsFiniteSet(Requests)
    /\ MaxHintLevel \in Nat \ {0} /\ Starts \subseteq 0..(MaxHintLevel - 1)
    /\ Verdicts \subseteq {"right", "wrong"}
    /\ Screens \in [BOOLEAN -> SUBSET {"grade", "flag"}] /\ MaxFailures \in [BOOLEAN -> Nat]

VARIABLES
    shadow,         \* shadow_mode of the deployment
    inTurn,         \* whether the client waits for each reply before it submits again
    session,        \* the committed session row: state and attempt_count
    durable,        \* committed rows and events, as <<request, what>>
    resolved,       \* requests whose review item a teacher has resolved
    pc,             \* where a request stands; at an event it is the event's name
    seen,           \* the session row as the request loaded it, never refreshed
    pending,        \* rows a request has flushed and not committed
    counted,        \* attempt_count: not set, set, committed
    outcome,        \* how the attempt went
    reading,        \* requests between reading a sequence number and using it
    stale,          \* those of them whose number another request has taken
    notified,       \* requests whose alert was handed to the responder
    reply,          \* what the child was told
    failures        \* failures so far (bounds them)

setting == <<shadow, inTurn>>
flight == <<seen, pending, counted, outcome>>
emission == <<reading, stale>>
store == <<session, durable>>
vars == <<setting, store, resolved, pc, flight, emission, notified, reply, failures>>

Terminal == {"complete", "escalated"}
Sessions == [state : {"awaiting_answer", "awaiting_student_retry"} \cup Terminal,
             count : Nat]

-----------------------------------------------------------------------------
(* The path of a request *)

\* The events of a submission, in the order of the code; stage events that
\* commit nothing else are left to Swarm.tla.
AfterEvent ==
    [answer |-> "screen", flag |-> "alert", undelivered |-> "grade",
     grade |-> "judge", right |-> "finish", wrong |-> "diagnose",
     finish |-> "completed", diagnose |-> "generate", generate |-> "draft",
     shown |-> "hinted", hinted |-> "count", giveup |-> "count",
     exhausted |-> "completed", completed |-> "route", routed |-> "save"]
Emitting == DOMAIN AfterEvent

\* Mutant: the verdict is not made durable on the way to a right answer.
FlushedAfterNoGrade(event) ==
    IF event = "wrong" THEN {"grade row"}
    ELSE IF event = "diagnose" THEN {"diagnosis row"}
    ELSE IF event = "shown" THEN {"hint row"} ELSE {}
\* What a request flushes right after an event, for a later commit to take.
FlushedAfter(event) ==
    IF event \in {"right", "wrong"} THEN {"grade row"}
    ELSE IF event = "diagnose" THEN {"diagnosis row"}
    ELSE IF event = "shown" THEN {"hint row"} ELSE {}

Has(r, what) == <<r, what>> \in durable
InFlight == {r \in Requests : pc[r] \notin {"idle", "over"}}
AttemptNumber(r) == seen[r].count + 1

Exhausted(r) == AttemptNumber(r) >= MaxHintLevel

Goto(r, where) == pc' = [pc EXCEPT ![r] = where]

\* Mutant: a request that fails keeps its sequence number.
AbortKeepsNumber(r, told) ==
    /\ Goto(r, "over")
    /\ reply' = [reply EXCEPT ![r] = told]
    /\ pending' = [pending EXCEPT ![r] = {}]
    /\ UNCHANGED <<seen, counted, outcome, reading, stale>>
\* The request is over without a commit: what it had flushed is rolled back.
Abort(r, told) ==
    /\ Goto(r, "over")
    /\ reply' = [reply EXCEPT ![r] = told]
    /\ pending' = [pending EXCEPT ![r] = {}]
    /\ reading' = reading \ {r} /\ stale' = stale \ {r}
    /\ UNCHANGED <<seen, counted, outcome>>

-----------------------------------------------------------------------------
(* submit_answer, up to the welfare screen *)

MaySubmit(r) == pc[r] = "idle" /\ (inTurn => InFlight = {})

\* Mutant: the state of the session is not looked at.
SubmitAnyState(r) ==
    /\ MaySubmit(r)
    /\ session.count <= MaxHintLevel
    /\ seen' = [seen EXCEPT ![r] = session]
    /\ pending' = [pending EXCEPT ![r] = {"attempt row"}]
    /\ Goto(r, "answer")
    /\ UNCHANGED <<setting, store, resolved, counted, outcome, emission, notified,
                   reply, failures>>
\* The handler loads the row, finds the session open, and flushes the attempt.
Submit(r) ==
    /\ MaySubmit(r)
    /\ session.state \notin Terminal /\ session.count <= MaxHintLevel
    /\ seen' = [seen EXCEPT ![r] = session]
    /\ pending' = [pending EXCEPT ![r] = {"attempt row"}]
    /\ Goto(r, "answer")
    /\ UNCHANGED <<setting, store, resolved, counted, outcome, emission, notified,
                   reply, failures>>

\* 409: this session is finished.
SubmitFinished(r) ==
    /\ MaySubmit(r) /\ session.state \in Terminal
    /\ Abort(r, "conflict")
    /\ UNCHANGED <<setting, store, resolved, notified, failures>>

\* Attempt refuses a hint_level_shown above MAX_HINT_LEVEL, and nothing catches it.
SubmitPastLevels(r) ==
    /\ MaySubmit(r)
    /\ session.state \notin Terminal /\ session.count > MaxHintLevel
    /\ Abort(r, "error")
    /\ UNCHANGED <<setting, store, resolved, notified, failures>>

\* screen_submission: nothing is flagged, or a flag is recorded first.
Screen(r) ==
    /\ pc[r] = "screen"
    /\ \E next \in Screens[inTurn] : Goto(r, next)
    /\ UNCHANGED <<setting, store, resolved, flight, emission, notified, reply,
                   failures>>

\* raise_alert: the row is flushed, then the responder is notified; a delivery
\* that fails is recorded as an event of its own.
RaiseAlert(r) ==
    /\ pc[r] = "alert"
    /\ pending' = [pending EXCEPT ![r] = @ \cup {"alert row"}]
    /\ \/ Goto(r, "grade") /\ notified' = notified \cup {r}
       \/ Goto(r, "undelivered") /\ UNCHANGED notified
    /\ UNCHANGED <<setting, store, resolved, seen, counted, outcome, emission, reply,
                   failures>>

\* check_answer: the symbolic checker decides.
CheckAnswer(r) ==
    /\ pc[r] = "judge"
    /\ \E verdict \in Verdicts :
        /\ Goto(r, verdict)
        /\ outcome' = [outcome EXCEPT ![r] = verdict]
    /\ UNCHANGED <<setting, store, resolved, seen, pending, counted, emission,
                   notified, reply, failures>>

\* run_attempt: a hint is cleared, or none is (Swarm.tla says when).
Draft(r) ==
    /\ pc[r] = "draft"
    /\ \/ Goto(r, "shown") /\ outcome' = [outcome EXCEPT ![r] = "hint"]
       \/ Goto(r, "giveup") /\ outcome' = [outcome EXCEPT ![r] = "no hint"]
    /\ UNCHANGED <<setting, store, resolved, seen, pending, counted, emission,
                   notified, reply, failures>>

\* session_row.attempt_count is set, and end_session_for_review entered when no
\* hint was shown or no level is left.
CountAttempt(r) ==
    /\ pc[r] = "count"
    /\ counted' = [counted EXCEPT ![r] = "set"]
    /\ Goto(r, IF outcome[r] = "no hint" THEN "completed"
               ELSE IF Exhausted(r) THEN "exhausted" ELSE "save")
    /\ UNCHANGED <<setting, store, resolved, seen, pending, outcome, emission,
                   notified, reply, failures>>

-----------------------------------------------------------------------------
(* Events: read the sequence number, then commit *)

\* A count that is set goes out with the next query and locks the session row
\* until the commit.
HoldsRow(r) == r \in reading /\ counted[r] = "set"
RowFree(r) == \A q \in Requests \ {r} : ~HoldsRow(q)

ReadSequence(r) ==
    /\ pc[r] \in Emitting /\ r \notin reading
    /\ counted[r] = "set" => RowFree(r)
    /\ reading' = reading \cup {r}
    /\ UNCHANGED <<setting, store, resolved, pc, flight, stale, notified, reply,
                   failures>>

\* Mutant: the event is committed on a connection of its own.
CommittedEventOnly(r) == durable \cup {<<r, pc[r]>>}
Committed(r) == durable \cup {<<r, pc[r]>>} \cup {<<r, row>> : row \in pending[r]}

Record(r) ==
    /\ r \in reading /\ r \notin stale
    /\ durable' = Committed(r)
    /\ session' = IF counted[r] = "set"
                  THEN [session EXCEPT !.count = AttemptNumber(r)] ELSE session
    /\ counted' = [counted EXCEPT ![r] = IF @ = "set" THEN "committed" ELSE @]
    /\ pending' = [pending EXCEPT ![r] = FlushedAfter(pc[r])]
    /\ Goto(r, AfterEvent[pc[r]])
    /\ reading' = reading \ {r}
    /\ stale' = (stale \cup reading) \ {r}
    /\ UNCHANGED <<setting, resolved, seen, outcome, notified, reply, failures>>

\* Mutant: the event is tried again with the number it has.
RefusedRetries(r) == r \in stale /\ UNCHANGED vars
\* uq_event_sequence refuses the event, and nothing catches the error.
Refused(r) ==
    /\ r \in stale
    /\ Abort(r, "error")
    /\ UNCHANGED <<setting, store, resolved, notified, failures>>

-----------------------------------------------------------------------------
(* _route_for_review, and the last commit *)

OpenItems == {q \in Requests : Has(q, "review row") /\ q \notin resolved}

\* Mutant: only an escalation is routed, shadow mode or not.
ReasonsEscalationOnly(r) == outcome[r] # "right"
\* reasons_for_review is non-empty: any escalation, and in shadow mode everything.
Reasons(r) == outcome[r] # "right" \/ shadow

\* Mutant: an open item is not looked for.
RowToInsertAlways == {"review row"}
\* DatabaseReviewSink.route inserts unless an item is open.
RowToInsert == IF OpenItems = {} THEN {"review row"} ELSE {}

Route(r) ==
    /\ pc[r] = "route" /\ (Reasons(r) => Cardinality(OpenItems) <= 1)
    /\ IF Reasons(r)
       THEN pending' = [pending EXCEPT ![r] = @ \cup RowToInsert] /\ Goto(r, "routed")
       ELSE UNCHANGED pending /\ Goto(r, "save")
    /\ UNCHANGED <<setting, store, resolved, seen, counted, outcome, emission,
                   notified, reply, failures>>

\* scalar_one_or_none finds two open items and raises.
RouteAmbiguous(r) ==
    /\ pc[r] = "route" /\ Reasons(r) /\ Cardinality(OpenItems) > 1
    /\ Abort(r, "error")
    /\ UNCHANGED <<setting, store, resolved, notified, failures>>

\* The state the handler assigns and the words it answers with.
TargetState(r) ==
    IF outcome[r] = "right" THEN "complete"
    ELSE IF outcome[r] = "no hint" \/ Exhausted(r) THEN "escalated"
    ELSE "awaiting_student_retry"
Answer(r) ==
    IF outcome[r] = "right" THEN "correct"
    ELSE IF TargetState(r) # "escalated" THEN "hint"
    ELSE IF Reasons(r) THEN "teacher" ELSE "later"

\* The commit of the handler writes what differs from what it loaded or wrote
\* before, over whatever the row holds by now.
Save(r) ==
    /\ pc[r] = "save" /\ RowFree(r)
    /\ session' = [state |-> IF TargetState(r) = seen[r].state
                             THEN session.state ELSE TargetState(r),
                   count |-> IF counted[r] = "committed"
                             THEN session.count ELSE AttemptNumber(r)]
    /\ counted' = [counted EXCEPT ![r] = "committed"]
    /\ durable' = durable \cup {<<r, row>> : row \in pending[r]}
    /\ pending' = [pending EXCEPT ![r] = {}]
    /\ reply' = [reply EXCEPT ![r] = Answer(r)]
    /\ Goto(r, "over")
    /\ UNCHANGED <<setting, resolved, seen, outcome, emission, notified, failures>>

-----------------------------------------------------------------------------
(* The environment *)

\* The process dies, the database or the checker fails: a 500 or no answer.
Fail(r) ==
    /\ r \in InFlight /\ failures < MaxFailures[inTurn]
    /\ failures' = failures + 1
    /\ Abort(r, "error")
    /\ UNCHANGED <<setting, store, resolved, notified>>

\* A teacher resolves an item (services/api/teacher.py).
Resolve(q) ==
    /\ q \in OpenItems
    /\ resolved' = resolved \cup {q}
    /\ UNCHANGED <<setting, store, pc, flight, emission, notified, reply, failures>>

-----------------------------------------------------------------------------
(* Specification *)

Init ==
    /\ shadow \in BOOLEAN /\ inTurn \in BOOLEAN
    /\ \E n \in Starts :
        session = [state |-> IF n = 0 THEN "awaiting_answer"
                             ELSE "awaiting_student_retry",
                   count |-> n]
    /\ durable = {} /\ resolved = {} /\ notified = {}
    /\ pc = [r \in Requests |-> "idle"]
    /\ seen = [r \in Requests |-> session]
    /\ pending = [r \in Requests |-> {}]
    /\ counted = [r \in Requests |-> "unset"]
    /\ outcome = [r \in Requests |-> "none"]
    /\ reading = {} /\ stale = {}
    /\ reply = [r \in Requests |-> "none"]
    /\ failures = 0

Arrive(r) == Submit(r) \/ SubmitFinished(r) \/ SubmitPastLevels(r)

Handle(r) ==
    \/ Screen(r) \/ RaiseAlert(r) \/ CheckAnswer(r) \/ Draft(r) \/ CountAttempt(r)
    \/ ReadSequence(r) \/ Record(r) \/ Refused(r)
    \/ Route(r) \/ RouteAmbiguous(r) \/ Save(r)

Next == \E r \in Requests : Arrive(r) \/ Handle(r) \/ Fail(r) \/ Resolve(r)

Spec == Init /\ [][Next]_vars

\* A request that can go on is run: the handler is ordinary sequential code.
FairSpec == Spec /\ \A r \in Requests : WF_vars(Handle(r))

-----------------------------------------------------------------------------
(* Type invariant *)

Rows == {"attempt row", "alert row", "grade row", "diagnosis row", "hint row",
         "review row"}
Places == Emitting \cup {"idle", "screen", "alert", "judge", "draft", "count",
                         "route", "save", "over"}

\* Every variable holds a value of its kind; only a request that is about to
\* write an event holds a sequence number, and only such a number goes stale.
TypeOK ==
    /\ shadow \in BOOLEAN /\ inTurn \in BOOLEAN
    /\ session \in Sessions
    /\ durable \subseteq Requests \X (Rows \cup Emitting)
    /\ resolved \subseteq Requests /\ notified \subseteq Requests
    /\ pc \in [Requests -> Places]
    /\ seen \in [Requests -> Sessions]
    /\ pending \in [Requests -> SUBSET Rows]
    /\ counted \in [Requests -> {"unset", "set", "committed"}]
    /\ outcome \in [Requests -> {"none", "right", "wrong", "hint", "no hint"}]
    /\ reading \subseteq {r \in Requests : pc[r] \in Emitting}
    /\ stale \subseteq reading
    /\ reply \in [Requests -> {"none", "conflict", "error", "correct", "hint", "teacher",
                            "later"}]
    /\ failures \in 0..MaxFailures[inTurn]

-----------------------------------------------------------------------------
(* What holds however requests overlap and fail *)

\* A child who is told that a teacher will look at the work is told so only when
\* a review item was stored (student.py:328-332), by this request or by another
\* that this one found open; the timeline says it was routed.
PromiseKept ==
    \A r \in Requests :
        reply[r] = "teacher" =>
            Has(r, "routed") /\ \E q \in Requests : Has(q, "review row")

\* An answer the child got is backed by the whole record of the attempt, although
\* its rows are committed one by one by the events that follow them.
ReplyBacked ==
    \A r \in Requests :
        /\ reply[r] \in {"correct", "hint", "teacher"} =>
            Has(r, "answer") /\ Has(r, "attempt row") /\ Has(r, "grade row")
        /\ reply[r] = "hint" \/ (reply[r] = "teacher" /\ outcome[r] = "hint") =>
            Has(r, "diagnosis row") /\ Has(r, "hint row") /\ Has(r, "shown")

\* Whatever a child is told is so in the record, be it about their answer or about
\* who will look at it.
ReplyTrue == PromiseKept /\ ReplyBacked

\* Whatever is cut off, what is stored of a request can be explained from what is
\* stored: what a row or event builds on was committed with it or before.
Grounds ==
    {<<"answer", "attempt row">>, <<"alert row", "flag">>, <<"grade", "answer">>,
     <<"undelivered", "alert row">>, <<"grade row", "grade">>,
     <<"finish", "grade row">>, <<"diagnose", "grade row">>,
     <<"generate", "diagnosis row">>, <<"hint row", "shown">>,
     <<"shown", "diagnosis row">>, <<"hinted", "hint row">>,
     <<"giveup", "diagnosis row">>, <<"exhausted", "hint row">>,
     <<"completed", "grade row">>, <<"review row", "completed">>}
Explained ==
    \A r \in Requests : \A g \in Grounds : Has(r, g[1]) => Has(r, g[2])

\* A session that stands as going to a teacher, and in shadow mode every finished
\* one (P0.8: 100% review), has an item in the queue or had one resolved.
FinishedReachesTeacher ==
    session.state = "escalated" \/ (session.state = "complete" /\ shadow) =>
        \E r \in Requests : Has(r, "review row")

\* Every submission is answered, with an error at worst: requests that wait for
\* the session row wait for one that goes on.
Answered == \A r \in Requests : (pc[r] # "idle") ~> (reply[r] # "none")

-----------------------------------------------------------------------------
(* What holds when the client waits for each reply *)

\* "At most one open per session" (review.py:126), although sessions are routed
\* again after a failure and items are resolved at any time.  Overlapping requests
\* break it: each looks before the other has committed.
OneOpenItem == Cardinality(OpenItems) <= 1

\* Unless a request failed, the timeline of a session has one terminal event and
\* not in the middle of a live session (graph.py:131-134): between two requests
\* the session is finished exactly if it is there.  A session that used up its
\* levels is finished (models.py:34-35), and no submission ends in an error.
FinishesOnce ==
    failures = 0 =>
        /\ Cardinality({r \in Requests : Has(r, "completed")}) <= 1
        /\ InFlight = {} =>
            /\ session.state \in Terminal <=> \E r \in Requests : Has(r, "completed")
            /\ session.count >= MaxHintLevel => session.state \in Terminal
        /\ \A r \in Requests : reply[r] # "error"

\* A child's words reached a responder only for a flag in the timeline; a stored
\* alert was delivered or is on record as undelivered; and unless the request was
\* cut off, words that reached a responder are stored ("Persisting first means a
\* delivery failure leaves durable evidence", alerts.py:83-85).
AlertsKept ==
    \A r \in Requests :
        /\ r \in notified => Has(r, "flag")
        /\ Has(r, "alert row") => r \in notified \/ Has(r, "undelivered")
        /\ r \in notified /\ reply[r] \notin {"none", "error"} => Has(r, "alert row")

\* One submission after the other, a session has one queue item at a time, one end,
\* and its alerts on record.
InTurnSettled == inTurn => OneOpenItem /\ FinishesOnce /\ AlertsKept

\* A finished session stays as it is ("this session is finished", student.py:229),
\* and the number of attempts never goes back nor skips one, failures included.
SessionMovesOn ==
    [][inTurn =>
        /\ session.state \in Terminal => session' = session
        /\ session'.count \in {session.count, session.count + 1}]_session

=============================================================================
