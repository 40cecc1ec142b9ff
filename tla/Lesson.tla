------------------------------- MODULE Lesson -------------------------------
(***************************************************************************)
(* A child at the student page: a client (the React app in clients/student *)
(* or the page of services/api/student_page.py), the endpoints of          *)
(* services/api/student.py, the network between them, and the hints that   *)
(* Fallbacks.tla chooses.  Both clients send one request at a time.        *)
(* Submission.tla has the commits of a handler, Swarm.tla its agents; here *)
(* a handler is one step, and what the model in it does is a choice.       *)
(***************************************************************************)
EXTENDS Fallbacks, FiniteSets

CONSTANTS
    Clients,        \* "app" or "page"
    Problems,       \* the problem rows
    Offsets,        \* how far a number that is typed may be off, as a set
    Messages,       \* the welfare signals a text may hold, in their order in it
    Drafts,         \* the texts a model may write for a hint
    MaxLessons,     \* bound: sessions that are started
    MaxFailures     \* bound: requests that get no answer or an error

\* The numbers a text states.
Texts == [digits : SUBSET Int, words : SUBSET Int]

ASSUME LessonAssumption ==
    /\ Clients \subseteq {"app", "page"} /\ Offsets \subseteq Int
    /\ Problems # {} /\ Problems \subseteq [op : {"+", "-"}, a : Int, b : Int, answer : Int]
    /\ Messages \subseteq Seq(DOMAIN Urgency) /\ Drafts \subseteq Texts
    /\ MaxLessons \in Nat \ {0} /\ MaxFailures \in Nat

VARIABLES
    client,         \* the client the child uses
    identity,       \* whom its principal id stands for
    screen,         \* what the child sees
    net,            \* the one request or reply on its way
    lesson,         \* the child's latest session row, with its hint log
    written,        \* the signals in the text of the latest attempt row
    alert,          \* the safety alert of that attempt
    failures        \* requests that failed

vars == <<client, identity, screen, net, lesson, written, alert, failures>>
child == <<client, identity>>

Quiet == [kind |-> "none"]
NoLesson == [no |-> 0]
Terminal == {"complete", "escalated"}

\* What is typed: a number near one of those that mean something, or no number.
Typed(p) ==
    [form : {"integer", "spelled", "expression"},
     value : {n + d : n \in {p.answer} \cup {Signature(tag, p) : tag \in RuleTags},
                      d \in Offsets}]
    \cup {[form |-> "words"]}

Going(kind, body) == [kind |-> kind, body |-> body]
Showing(phase) == [screen EXCEPT !.phase = phase]

-----------------------------------------------------------------------------
(* The child acts *)

\* Phases from which a button starts the next session.
Leaving == {"celebration", "teacher", "error"}

\* Mutant: the hints of the last session stay on the vines.
BeginKeepingHints(s) == [s EXCEPT !.phase = "loading"]
\* begin: the app forgets the hints; the page draws over everything.
Begin(s) == [s EXCEPT !.phase = "loading", !.hints = <<>>]

Start ==
    /\ net = Quiet /\ screen.phase \in Leaving /\ identity # "none"
    /\ lesson.no < MaxLessons
    /\ screen' = Begin(screen)
    /\ net' = Going("start", <<>>)
    /\ UNCHANGED <<child, lesson, written, alert, failures>>

\* handleSubmit, checkAnswer: not while a reply is awaited.
Send ==
    /\ net = Quiet /\ screen.phase \in {"question", "retry"}
    /\ \E answer \in Typed(screen.problem), signals \in Messages :
        net' = Going("answer", [no |-> screen.no, answer |-> answer, signals |-> signals])
    /\ screen' = Showing("busy")
    /\ UNCHANGED <<child, lesson, written, alert, failures>>

-----------------------------------------------------------------------------
(* The server answers *)

\* start_session: a problem at random.
StartSession ==
    /\ net.kind = "start" /\ identity = "student"
    /\ \E p \in Problems :
        /\ lesson' = [no |-> lesson.no + 1, problem |-> p, state |-> "open",
                      count |-> 0, given |-> <<>>]
        /\ net' = Going("started", [no |-> lesson.no + 1, problem |-> p])
    /\ UNCHANGED <<child, screen, written, alert, failures>>

\* 403: this surface is for students.
NotForYou ==
    /\ net.kind \in {"start", "answer"} /\ identity # "student"
    /\ net' = Going("refused", <<>>)
    /\ UNCHANGED <<child, screen, lesson, written, alert, failures>>

Alert(category) == [category |-> category, urgent |-> category \in Urgent]

\* The categories one of which is raised: the patterns' if any match, else what a
\* classifier makes of the text.
Heard(signals, model) ==
    IF signals # <<>> THEN Screen(signals)
    ELSE IF model THEN DOMAIN Urgency \cup {"clear"} ELSE {"clear"}

\* Mutant: only what is wrong is screened, as a screen in the swarm would.
ScreenedIfWrong(request, model) ==
    \E heard \in Heard(request.signals, model) :
        alert' = IF heard = "clear" \/ Equivalent(lesson.problem, request.answer)
                 THEN {} ELSE {Alert(heard)}
\* screen_submission, for every answer, before it is judged.
Screened(request, model) ==
    \E heard \in Heard(request.signals, model) :
        alert' = IF heard = "clear" THEN {} ELSE {Alert(heard)}

\* How a request is composed: without a model; with one whose hints are withheld,
\* by shadow mode or the rollout; with one whose hints are served.
Serving == {"no model", "withheld", "served"}
HasModel(serving) == serving # "no model"

\* The session exists and is this child's.
Received ==
    /\ net.kind = "answer" /\ identity = "student"
    /\ lesson # NoLesson /\ net.body.no = lesson.no

AnswerRight ==
    /\ Received /\ lesson.state \notin Terminal
    /\ Equivalent(lesson.problem, net.body.answer)
    /\ written' = net.body.signals
    /\ \E serving \in Serving : Screened(net.body, HasModel(serving))
    /\ lesson' = [lesson EXCEPT !.state = "complete", !.count = @ + 1]
    /\ net' = Going("answered", [correct |-> TRUE, done |-> TRUE, hints |-> {}])
    /\ UNCHANGED <<child, screen, failures>>

\* Mutant: running out of levels is all that ends a session.
IsOverAtLastLevel(attempt, hints) == attempt >= MaxHintLevel
\* Mutant: a level more than there are.
IsOverOneLater(attempt, hints) == hints = {} \/ attempt > MaxHintLevel
\* A session ends without a hint, or with the last.
IsOver(attempt, hints) == hints = {} \/ attempt >= MaxHintLevel

\* The level follows the attempts, up to the last.
Level(attempt) == IF attempt < MaxHintLevel THEN attempt ELSE MaxHintLevel

\* generate: the template of the level, and a model's words where they are served.
Candidates(serving, tag, attempt, p) ==
    Rendered(tag, Level(attempt), attempt, p) \cup
        {[source |-> "generated", tag |-> tag, level |-> Level(attempt), text |-> text] :
            text \in {draft \in Drafts : serving = "served"}}

\* What comes out of generate and leakcheck: a candidate that states no answer, or
\* none if there is none, or if the classifier rejects them all.
Offered(serving, tag, attempt, p) ==
    LET safe == {hint \in Candidates(serving, tag, attempt, p) : ~Leaks(hint.text, p)}
    IN {{hint} : hint \in safe} \cup {none \in {{}} : safe = {} \/ HasModel(serving)}

\* Screened, diagnosed, answered with a hint if one is cleared, and counted.
AnswerWrong ==
    /\ Received /\ lesson.state \notin Terminal
    /\ ~Equivalent(lesson.problem, net.body.answer)
    /\ written' = net.body.signals
    /\ \E serving \in Serving :
        /\ Screened(net.body, HasModel(serving))
        /\ \E tag \in Diagnoses(lesson.problem, net.body.answer, HasModel(serving)) :
           \E hints \in Offered(serving, tag, lesson.count + 1, lesson.problem) :
            LET attempt == lesson.count + 1
                over == IsOver(attempt, hints)
            IN /\ lesson' = [lesson EXCEPT
                    !.state = IF over THEN "escalated" ELSE "open", !.count = attempt,
                    !.given = IF hints = {} THEN @ ELSE Append(@, CHOOSE h \in hints : TRUE)]
               /\ net' = Going("answered", [correct |-> FALSE, done |-> over, hints |-> hints])
    /\ UNCHANGED <<child, screen, failures>>

\* 409: this session is finished.
AnswerFinished ==
    /\ Received /\ lesson.state \in Terminal
    /\ net' = Going("refused", <<>>)
    /\ UNCHANGED <<child, screen, lesson, written, alert, failures>>

Serve == StartSession \/ NotForYou \/ AnswerRight \/ AnswerWrong \/ AnswerFinished

\* A request is lost, the handler fails and rolls back, or the reply is lost.
Fail ==
    /\ net.kind \in {"start", "answer", "started", "answered"} /\ failures < MaxFailures
    /\ failures' = failures + 1
    /\ \E how \in {"refused", "cut off"} : net' = Going(how, <<>>)
    /\ UNCHANGED <<child, screen, lesson, written, alert>>

-----------------------------------------------------------------------------
(* The client hears of it *)

Started ==
    /\ net.kind = "started"
    /\ screen' = [screen EXCEPT !.phase = "question", !.no = net.body.no,
                                !.problem = net.body.problem]
    /\ net' = Quiet
    /\ UNCHANGED <<child, lesson, written, alert, failures>>

\* The app hangs a hint next to those before it, the page puts it in their place.
WithHints(hints) ==
    LET shown == IF client = "app" THEN screen.hints ELSE <<>>
    IN IF hints = {} THEN shown ELSE Append(shown, CHOOSE h \in hints : TRUE)

\* send, and render of the page.  A reply the app has no branch for leaves it as
\* it was.
Answered ==
    /\ net.kind = "answered"
    /\ screen' =
        [screen EXCEPT
            !.phase = IF net.body.correct THEN "celebration"
                      ELSE IF net.body.done THEN "teacher"
                      ELSE "question",
            !.hints = WithHints(net.body.hints)]
    /\ net' = Quiet
    /\ UNCHANGED <<child, lesson, written, alert, failures>>

\* Mutant: an error of the fetch is not caught.
AppFailedUncaught ==
    /\ client = "app" /\ net.kind \in {"refused", "cut off"}
    /\ net' = Quiet
    /\ UNCHANGED <<child, screen, lesson, written, alert, failures>>
\* The app catches every error and offers a new session.
AppFailed ==
    /\ client = "app" /\ net.kind \in {"refused", "cut off"}
    /\ screen' = Showing("error")
    /\ net' = Quiet
    /\ UNCHANGED <<child, lesson, written, alert, failures>>

\* The page lets an answer be sent again when the server refuses it; a fetch that
\* rejects is caught by nobody, and a session that cannot start is left at that.
PageFailed ==
    /\ client = "page" /\ net.kind \in {"refused", "cut off"}
    /\ screen' = Showing(IF net.kind = "refused" /\ screen.phase = "busy"
                         THEN "retry" ELSE "dead")
    /\ net' = Quiet
    /\ UNCHANGED <<child, lesson, written, alert, failures>>

Hear == Started \/ Answered \/ AppFailed \/ PageFailed

-----------------------------------------------------------------------------
(* Specification *)

\* Opening the page starts a session; the app asks for a principal first.
Init ==
    /\ client \in Clients /\ identity \in {"student", "other", "none"}
    /\ screen = [phase |-> IF client = "app" /\ identity = "none"
                           THEN "error" ELSE "loading",
                 no |-> 0, problem |-> CHOOSE p \in Problems : TRUE, hints |-> <<>>]
    /\ net = IF screen.phase = "error" THEN Quiet ELSE Going("start", <<>>)
    /\ lesson = NoLesson /\ written = <<>> /\ alert = {} /\ failures = 0

Next == Start \/ Send \/ Serve \/ Fail \/ Hear

Spec == Init /\ [][Next]_vars

\* A request is answered, and a client handles what it hears.
FairSpec == Spec /\ WF_vars(Serve) /\ WF_vars(Hear)

-----------------------------------------------------------------------------
(* Type invariant *)

Hints == [source : {"template", "generated"}, tag : Tags, level : 1..MaxHintLevel,
          text : Texts]
Phases == Leaving \cup {"loading", "question", "busy", "retry", "dead"}
Lessons == {NoLesson} \cup
    [no : 1..MaxLessons, problem : Problems, state : {"open"} \cup Terminal,
     count : 0..MaxHintLevel, given : Seq(Hints)]

\* Every variable holds a value of its kind: a session has at most as many
\* attempts as there are hint levels, whatever is sent again.
TypeOK ==
    /\ client \in Clients /\ identity \in {"student", "other", "none"}
    /\ screen \in [phase : Phases, no : 0..MaxLessons, problem : Problems,
                   hints : Seq(Hints)]
    /\ net.kind \in {"none", "start", "answer", "started", "answered", "refused",
                     "cut off"}
    /\ lesson \in Lessons
    /\ written \in {<<>>} \cup Messages
    /\ alert \subseteq [category : DOMAIN Urgency, urgent : BOOLEAN]
    /\ Cardinality(alert) <= 1
    /\ failures \in 0..MaxFailures

-----------------------------------------------------------------------------
(* What a child is given *)

Given == IF lesson.no = 0 THEN <<>> ELSE lesson.given

\* No hint states the answer, in digits or in words, whoever wrote it, on any problem
\* (answer_leak.py:120-121); and no template is about a mistake in an operation the
\* problem does not ask for, nor was a model asked for a hint on such a diagnosis
\* (diagnose.py:139-147).  Of a model's words only the numbers are known to be safe.
HintsAreSafe ==
    \A i \in DOMAIN Given :
        LET hint == Given[i]
        IN /\ lesson.problem.answer \notin hint.text.digits \cup hint.text.words
           /\ hint.tag \in RuleTags => Operation[hint.tag] = lesson.problem.op

\* Hints climb the levels one by one: a session goes on only if each wrong answer
\* was met by the next level, and is otherwise over.
HintsClimb ==
    /\ \A i \in DOMAIN Given : Given[i].level = i
    /\ lesson.no > 0 /\ lesson.state = "open" =>
        Len(lesson.given) = lesson.count /\ lesson.count < MaxHintLevel

\* Whatever a child wrote in an answer that was judged, right or wrong
\* (student.py:262-270), has raised an alert if it holds a signal, which calls an adult
\* at once exactly if one of the signals does, in whatever order they were written
\* (distress.py:144-148).
MostUrgentHeard ==
    written # <<>> =>
        \E a \in alert : a.urgent <=> \E i \in DOMAIN written : written[i] \in Urgent

-----------------------------------------------------------------------------
(* What a child sees *)

IsPrefixOf(s, t) == Len(s) <= Len(t) /\ s = SubSeq(t, 1, Len(s))

\* A picture that contradicts the question is worse than no picture
\* (student.py:136-141): a ten-frame holds the first number and, with what its words
\* say does not fit, the second; a number line marks the start and has room for the
\* answer.
PictureShows(p) ==
    IF FitsATenFrame(p)
    THEN /\ Cardinality(FilledSquares(p)) = p.a
         /\ Cardinality(AddingSquares(p)) + Spill(p) = p.b
    ELSE p.a \in Labels(p) /\ p.answer \in 0..Span(p)

\* What is on the screen is what the record says of that very session, whatever
\* was lost and sent again: the app shows its hints in order, the page one of
\* them; nobody is congratulated or sent to a teacher by a session that was not,
\* and the picture beside the problem is one of that problem.
ScreenFollowsRecord ==
    screen.no > 0 /\ screen.no = lesson.no =>
        /\ screen.problem = lesson.problem /\ PictureShows(screen.problem)
        /\ client = "app" => IsPrefixOf(screen.hints, Given)
        /\ \A i \in DOMAIN screen.hints : \E j \in DOMAIN Given : screen.hints[i] = Given[j]
        /\ screen.phase = "celebration" => lesson.state = "complete"
        /\ screen.phase = "teacher" => lesson.state = "escalated"
        /\ screen.phase = "question" => lesson.state = "open"

\* The app never leaves a child waiting: whatever is sent, lost or refused, a
\* button that works comes back.
AppComesBack ==
    client = "app" /\ screen.phase \in {"loading", "busy"}
        ~> screen.phase \in Leaving \cup {"question"}
=============================================================================
