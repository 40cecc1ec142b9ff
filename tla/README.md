# NerdyK5Math in TLA+

NerdyK5Math tutors children of grades K-5 in arithmetic. A child submits an
answer; a symbolic checker judges it; a wrong answer goes through a pipeline of
stages (welfare screen, diagnosis, curriculum lookup, hint generation, leak
check) that ends with a hint the child may see or with a teacher being asked to
look. Everything that happens is written to an append-only timeline. Generated
hints are rolled out in stages and can be switched off.

This directory holds TLA+ models of the parts of that system where order,
overlap and failure matter, TLC configurations that check them on small
instances, and proofs for TLAPS. Paths below are relative to `src/`.

## 1. Inventory

| Component | State | Operations | What makes it correct |
|---|---|---|---|
| Hint swarm (`services/orchestrator/swarm.py`) | `SwarmState`: generation, candidate, leak check, rejections, degraded stages, shadow outcome, rollout decision | eight agents that hand control over | nothing uncleared is shown; model text only with both gates open; bounded regeneration; a record that tells what happened |
| Stages (`services/orchestrator/stages/`) | none | `run` of each, with a fallback for each failure | a failing stage degrades and says so |
| Event log (`packages/telemetry/events.py`, `replay.py`) | `pipeline_event` rows of a session | `_emit` = read highest number, commit the next | unique, gap-free, append-only |
| Submission and session life (`services/api/student.py`, `services/orchestrator/graph.py`, `services/api/db.py`) | session row (state, attempt count), rows of each attempt | `start_session`, `submit_answer` | what the child is told is recorded; a finished session stays finished and reaches a teacher |
| Review routing (`services/orchestrator/review.py`) | `review_item` rows | `route`, `reasons_for_review` | one open item per session, in shadow mode every session |
| Safety alerts (`services/safety/alerts.py`) | `safety_alert` rows | `raise_alert` | stored whatever becomes of the submission; one per disclosure |
| Rollout and kill switch (`services/orchestrator/rollout.py`, `services/api/admin.py`) | `rollout_change` rows | `record_change`, `kill_generation`, `current`, `decide` | the kill switch wins; cohorts are stable |
| Teacher queues (`services/api/teacher.py`, `review_page.py`) | verdict and rating rows, `resolved_at` | list, rate, resolve | open work is shown to somebody who may judge it, and leaves the queue only judged |
| Model client and ledger (`packages/llm/`) | `llm_call` rows | `complete` | one row per ended call, priced by the model that served; the sums of `packages/telemetry/economics.py` are the bill |
| Prompt registry (`packages/prompts/`) | prompt files, lock file | edit, `publish`, `verify`, `render`; a release is what CI let through | the version recorded names the text that was sent, in every release |
| Deterministic fallbacks (`packages/fallbacks/`) | none | rules, `applies_to`, templates, answer leak, welfare signals, lookup | no hint states the answer; the most urgent signal decides |
| Symbolic checker (`services/symbolic/`) | none | `check` | equivalence, by sympy |
| Student clients (`clients/student/src/App.tsx`, `services/api/student_page.py`) | the screen: phase, session, hints; one request on its way | begin, send, and every reply, refusal and lost fetch | the screen says what the record says; the child is not left waiting |
| Class overview (`services/api/teacher_dashboard.py`, `dashboard_page.py`) | none, six queries | load the overview | totals of the caller's students and nobody else's, fair to a child who is at work meanwhile |
| Runs page (`services/api/runs_page.py`) | the browser's: highlighted run, detail, tour, timer | click, reply, timer | one pending hold; no label that lies |
| Authorization (`packages/auth/`) | none | the caller, the scope, predicates over roles | nobody reads of a child that is not theirs |
| Domain and tables (`packages/domain/`) | all rows | append-only guard, validators | evidence is never rewritten |
| Replay and trace (`packages/telemetry/`) | none, computed from the record | `replay`, `trace_from` | each call attributed to the run that made it; a degraded run not read as a healthy one |
| Phase-0 exit gates (`eval/phase0.py`) | none, computed from ratings | the gates | no gate passes on too little evidence |
| Composition (`services/api/pipeline.py`) | none | `build_deps` | |
| Evaluation corpora, curriculum seed, scripts, migrations | files | | |

How they interact: `submit_answer` opens one database session per request and
hands it to every sink and to the event recorder. An event commits, and with it
every row flushed so far, by whichever sink; so the event log is also what makes
a submission durable, piece by piece. The ledger and the shadow sink commit as
well, but each of their rows follows an event directly (a stage's start, a state
change), so nothing else is waiting then. Two requests on one session share only the
database. The swarm reads the rollout once per attempt. A teacher resolves items
that requests route; the overview reads what has been committed by then, one query
after the other. A stage asks the registry of its own process for a prompt, and
the model client writes the version and the cost of the call. A client learns of
all this only by the replies that reach it.

What is hard: requests on one session overlap (double clicks, two tabs, a retry
after a timeout), and nothing in the server keeps them apart except the unique
constraint on event numbers and PostgreSQL's row locks; each of the dozen or
more commits of a submission can be the last; a row is loaded early and written
late; stages fail one by one; the rollout is changed while attempts run;
processes of several releases serve at once, with libraries of their own, and
write to one ledger; a reply is lost after its request took effect; an overview is
read while it is outdated; browser timers and replies come in any order.
`PROJECT.json` lists these hazards with their lines and the properties aimed
at each.

## 2. Modules

| Module | Models | Proofs |
|---|---|---|
| `HintGuard` | abstract: what the pipeline promises a child | |
| `Swarm` | one attempt through the eight agents, implements `HintGuard` | `SwarmProofs` |
| `Trace` | what is read back from an attempt: stage runs, their calls, the counts of a replay | `SwarmProofs` |
| `EventLog` | the timeline of a session with several writers | `EventLogProofs` |
| `Submission` | submissions to one session, their commits, failures, overlaps, and review items | `SubmissionProofs` |
| `Rollout` | rollout rows, the kill switch, and what sessions are served | `RolloutProofs` |
| `Review` | the two queues teachers work through, and their pages | `ReviewProofs` |
| `Phase0Gates` | the exit gates of the shadow phase over the ratings of `Review` | `ReviewProofs` |
| `PromptRegistry` | the prompt files, their lock, `verify` and releases | `ModelCallsProofs` |
| `ModelCalls` | `complete()` and the ledger, on top of `PromptRegistry` | `ModelCallsProofs` |
| `Fallbacks` | pure: judging an answer, rules, templates and their leak check, welfare signals, the picture | `LessonProofs` |
| `Lesson` | a child at a client, the network, and the endpoints, with the hints of `Fallbacks` | `LessonProofs` |
| `ClassSummary` | the overview of a class, query by query, while lessons go on | `PagesProofs` |
| `RunsPage` | the admin's page of runs: replies, timers, the tour | `PagesProofs` |

`MC*` modules extend them for TLC (model values, symmetry, the constants of a run).

**Swarm.** `node` is the agent the LangGraph router runs next; each agent is one
action or, where its stage can end in different ways, a few. Nothing else writes
the swarm's state while an agent runs, so an agent is a single step; the
administrator's `ChangeRollout` may come between any two. A model call is
`Ledger`: the id of a call is its place in `calls`. Text is abstracted to who
wrote it: the call's id, or 0 for the template, which is the same text each time.
What a stage computes from text (a tag, a verdict) is a choice among the outcomes
its code has (`DiagnoseOutcomes`, `LeakOutcomes`, `ScreenOutcomes`). The request's
composition (`Deps`) is a choice in `Init`: model or no model, shadow mode,
rollout, whether a template exists that does not give the answer away, and
whether the caller has screened the submission already, with which outcome.
Events keep type, stage, the model call they name and what the properties read
(transition, reason).

**Trace.** Functions of `events` and `calls`, in every state of `Swarm`. A run is
kept as its stage and the positions of its events, `Step` is the body of
`trace_from`'s loop, folded over the timeline. Ordinals, times and details are
left out.

**EventLog.** `ReadNext` is the `SELECT max(sequence)`, `Record` the commit:
separate steps, because the transaction isolation (read committed) and the code
have no lock between them. A taken number raises `IntegrityError` (`Refused`) and
the request is over. `Crash` is the process dying or the handler raising
elsewhere.

**Submission.** `pc` is a place in `submit_answer`; at an event it is the event's
name and `AfterEvent` is the order of the code. `ReadSequence`/`Record`/`Refused`
are EventLog's steps with the numbers abstracted to who holds one (`reading`) and
whether it has been used by another (`stale`), which is all that decides a
refusal. `seen` is the ORM's copy of the session row, loaded once (SQLAlchemy's
`expire_on_commit` is off for these sessions). `counted` follows `attempt_count`:
assigned, it goes out with the next autoflush and locks the row (`HoldsRow`) until
committed. `Save` writes what differs from the loaded copy. Stage events that
commit nothing besides themselves are left out; between two kept events nothing
another request can see changes. `inTurn`, chosen in `Init`, is whether the client
waits for an answer before it sends the next.

**Rollout.** A percentage is a number of buckets; a session is its bucket.
`Build` stamps the row, `Commit` makes it visible. `Currents` is the set of
settings the query may return, since rows of equal timestamps come in any order.
`inTurn` chooses in `Init` whether administrators overlap.

**Review.** One module for both queues, which are alike in code: `queue` says
which. `Oldest` is the query with its limit, `Listed` the loop after it that drops
what is out of scope. `page` is what a browser still shows, so that a row can be
judged after somebody else judged it. `Phase0Gates` extends it with the queries of
`eval/phase0.py`; percentages are compared by cross-multiplication.

**PromptRegistry.** `files` and `lock` are the working tree, which authors edit in
any way; a text is its own content hash. `Publish` is the script that locks a name,
`Problems` is what `verify()` reports. `Release` assumes that what serves has passed
`verify()` in CI; nothing in `render.yaml` enforces that, and somebody who undoes a
line of the lock by hand is outside the model.

**ModelCalls.** `image` is the library a process was deployed with, so processes of
different releases overlap. `Send` to `Return` are the places of `complete()`: the
request, what comes back (an answer, a refusal, an outage the code maps to a
`TransportError`, anything else), the `finally` that writes the row and may itself
fail (`Unpriced`, `Uncommitted`), and the return, which costs an answer once more.
`Midnight` is the change of the price table's date. The provider's bill and its
SDK's retries are outside the code; a prompt that does not render raises before
there is a call.

**Fallbacks.** A problem is an operation and two numbers, an answer is its form
(which of the two parsers reads it) and value. `Library` lists, per tag and level,
the slots of each phrasing and the numbers its own words state. A text is what
`numbers_in` looks for in it: the numbers in digits and those that are written out.
`Rendered` is the rotation with its refusals. The picture is what both clients draw:
the squares of a ten-frame, the ticks of a number line that carry a label.

**Lesson.** The client is a screen and one request or reply on its way (`net`), as
both clients keep the button disabled meanwhile. Here a handler is one step
(`Serve`); its commits are `Submission`'s subject and its agents `Swarm`'s. A request
is composed in one of three ways (`Serving`): without a model; with a model whose hints
are withheld, by shadow mode or the rollout; with one whose hints are served. What
comes of the generate and leak-check agents is `Offered`: the template of the level,
or with hints served a text the model wrote (any of `Drafts`), if the deterministic
layer passes it; and with a model possibly nothing, because the classifier may reject
whatever it is shown, templates included. `written` is the text of the latest attempt
row, as the signals in it, and `alert` what screening it came to. `Fail`
loses a request, or a reply after the request has taken effect, or is an error of
the handler that rolled back.

**ClassSummary.** The record grows by single commits (`OpenSession` to `Resolve`), the
page by single queries (`ReadStudents` to `ReadItems`): each sees what is committed
when it runs, PostgreSQL's default. `Summary`, `Row` and the counts are the loop
that follows. Whether a session has an open item stands for its items.

**RunsPage.** The page's script: `fetches` are the requests of `showRun`, `timers` the
timeouts of the tour that will fire and `handle` the variable meant to hold
the one. `button` is the label as last drawn.

## 3. Runs

| Run | Instance | Shows |
|---|---|---|
| `swarm` | `MAX_GENERATION_ATTEMPTS` = 2 as in the code, 1 rollout change, every composition of a request | the safety of one attempt, that it ends, that it implements `HintGuard`, what is stored of it and what a trace of it says |
| `eventlog` | 3 requests, 3 events each | numbering under overlap, refusal and crashes |
| `submission` | 3 requests, at attempt 1 or 3 of 3; overlapping without failures, or in turn with up to 2 failures and welfare flags | what is stored can be explained and a finished session has its item; in turn, one open item, one end, the alert on record, and a session row that only moves on |
| `submission_answered` | 2 requests, overlapping or in turn, 1 failure, fair handlers | every submission is answered, and the answer is backed by the record |
| `rollout` | 2 administrators, overlapping or in turn, 3 changes, 2 per timestamp, 2 buckets | ties, justified flips; in turn, the kill switch is immediate and keeps the cohort |
| `review` | 2 teachers with a child in common, 3 rows, pages of 2, 3 judgements | nobody is stuck behind rows of others, gates never forget a flag |
| `modelcalls` | 2 prompt names, 3 texts, 2 releases, 2 processes, 2 calls, 3 models of which one has no price, 2 days | a version names one text, in the ledger and in every process; the ledger is the bill |
| `lesson` | both clients, 2 problems, 2 texts of a child and 1 of a model, 3 compositions, 2 sessions, 2 failures | hints of both sources are safe and climb, no text is passed over and alarms are as urgent as its worst signal, the screen follows the record, the app comes back |
| `runs_page` | 2 runs, up to 3 stages, 3 fetches on their way | one pending hold, a cursor within the tour, an honest highlight and button |
| `class_summary` | 2 children with sessions of 2 and 1 attempts, 5 kinds of caller | totals of the caller's children, and rows that are fair to each |

The bounds suffice for the cases at stake. Three events per writer let a refusal
follow a commit. Two overlapping requests give every lost update and double
insert, and a third is needed for two items to be found open; the overlapping half
of that run leaves out the welfare flag and spontaneous failures (a refused number
is a failure too), which the other half and `submission_answered` have between them.
Starting from attempt 3 of 3 as well as 1 reaches the last hint level. Two changes
in one tick (`MaxPerTick`) give a tie; three in one tick are the case LIMIT 2 cannot
see, described below. Pages of two rows and three rows put one row beyond the
limit. `SomebodySees` assumes `Covered`: each child is in a teacher's class, or an
administrator looks.

In `modelcalls` three texts are two for one name and one that asks for a slot the
stage does not supply; two releases and two processes let a call be answered by an
older library than the one that is current, and two days and a model with a
promotional price let a call be priced on the day after it was sent. In `lesson` one
problem is seeded, a sum whose ten-frame spills over and whose answer (11) is the number
the model writes out; the other is a difference whose answer (1) is a number that
templates state themselves, so that some are passed over and one level has none left.
Each answer is right, shows one of the misconceptions, or neither, in each form; two
sessions are needed for the state of one to show in the next, and two failures for a
resend to fail again. The pictures of all seeded problems are evaluated by an `ASSUME`.
In `runs_page` three stages give a tour with a middle; three fetches let the last
reply belong to neither the first nor the last click. In `class_summary`
`RECURRENCE_THRESHOLD` and the floor for a rate are 2, not the code's numbers, so that
two attempts reach them; one child has what makes a row, the other what must not
get into it.

**Expected violations.** Two runs each check a claim that a comment or docstring of
the repository makes and the code does not keep; `PROJECT.json` "findings" quotes
them.

 - `swarm_timeout_fails_closed`: a leak check that times out lets the generated
   hint through.
 - `swarm_calls_counted_once`: in shadow mode the swarm records a second event for
   the same generation, so a replay counts and costs that call twice.

**Other places where code and comments part.** These were met while modelling and
shape the conditions of the properties above, without a run of their own.

On submissions and sessions:

 - The handler writes the session's state over whatever another request has
   committed since it loaded the row (`student.py:347`): a finished session can be
   reopened by an overlapping request. `SessionMovesOn` is therefore stated for
   requests in turn.
 - A failure between the commit of the count and that of the state leaves a
   session that used up its levels open; the next submission builds an `Attempt`
   with a hint level that `models.py` refuses and ends in a 500. A failure after
   `session_completed` leaves the terminal event in the middle of a live session.
   `FinishesOnce` is therefore conditional on `failures = 0`.
 - A responder is notified of an alert that is flushed and not committed
   (`alerts.py:83-85`, `113`); an overlapping request whose event number is refused
   then loses the row. `AlertsKept` is stated for requests in turn.
 - `STATE_CHANGED` events do not always start where the one before them ended: a
   submission is graded from `AWAITING_STUDENT_RETRY` and the swarm then starts
   from `AWAITING_ANSWER`; giving up before a draft exists leaves from
   `LEAK_CHECKING`.
 - Two overlapping requests each find no open review item and both insert one,
   although `review.py:126` says "at most one open per session"; `OneOpenItem` is
   stated for requests in turn, and the overlapping half of `submission` shows that
   nothing else it checks suffers from two items.
 - The check against a previous diagnosis in `grade.py`, which `student.py:287-288`
   speaks of, is never reached in the served path: only `scripts/run_session.py:207`
   supplies one.

On hints and clients:

 - A picture may show the answer. "Neither one draws the total" (`Visual.tsx:9`,
   `student_page.py:106`), and of a number line "the start is marked; the finish is
   not" (`student_page.py:137`); but the line labels every multiple of 5
   (`Visual.tsx:77-90`, `student_page.py:142-145`), which on the seeded 13 - 8 is the
   answer (`FinishMayBeLabelled` in `MCLesson`); a line for a sum past ten ends at the
   total (`Visual.tsx:66`); a ten-frame of a sum up to ten draws as many squares as
   the answer; and for 7 + 3 the word "ten-frame" has it, which the leak check would
   refuse in a hint. So nothing is claimed of what a picture hides:
   `ScreenFollowsRecord` says that it is a picture of the problem (`PictureShows`).
 - Of a hint a model wrote only the numbers are known: `HintsAreSafe` says that none is
   the answer, spelled out or not. That it does not tell it in another way ("one less
   than fourteen") rests on the classifier, which a timeout passes over
   (`TimeoutFailsClosed`). `applies_to` confines the diagnosis a model is asked with, and
   nothing confines the operation its text is about.
 - The classifier reads templates as well, and a template it rejects ends the session
   (`swarm.py:500-511`): with a model wired a child may be sent to a teacher on the
   first wrong answer with a safe template at hand.
 - An answer that arrives when the session is over is refused (`student.py:228-229`)
   before it is stored or screened: what a child writes in it nobody hears of.
   `MostUrgentHeard` is about answers that are judged.
 - The answer of 16 - 8 is one of its numbers, so that every template that fills in
   that number is refused; a level with no other leads to a teacher.
 - Since a session's attempt number and its hint level rise together, level 1 always
   gives the first phrasing: the variety that `templates.py:13-15` describes does not
   come about between sessions.
 - `lookup.py` finds the curriculum node by the problem, whatever the tag.
 - `student_page.py` catches no rejected fetch: its button stays disabled. An answer
   that is sent again after a lost reply counts twice, or is refused for good when
   the session is over. `AppComesBack` is stated for the app.

On the record and the pages:

 - A welfare flag whose alert is delivered records no event that ends the stage, and
   the trace then calls the run unterminated, which `trace.py:63-66` says "means the
   process died mid-run". `CutOffOrAlerted` excepts it. A rejection by the leak
   check, and a call that got no answer, are not named by any event, so the trace
   shows those runs without their model call: `PayloadsBelong` says only that a
   call shown belongs to its run.
 - `client.py:5` says "No call escapes the ledger". A model that has no price raises
   out of the `finally`, before the row, and so does a commit that fails.
   `SpendAccounted` is about the calls that came back.
 - `current()` reads two rows, so of three changes with one timestamp the kill
   may be the one it does not see. A change is stamped when it is built: one that
   commits later with an earlier stamp has no effect, and overlapping kills and
   changes can carry a percentage that is out of date. `KillTakesEffect` is
   therefore stated for administrators in turn.
 - A teacher whose rows are all beyond the limit is told that nothing is waiting
   (`teacher.py:294`, `review_page.py:120-121`), as the scope is applied after the
   limit. `SomebodySees` promises that somebody's page has a row, not everybody's.
 - The leak gate fails on any rating that calls a hint leaky, also where the checker
   had stopped that hint, and reports it as one "that the checker passed"
   (`phase0.py:190`, `207`); the test named for that case,
   `tests/test_phase0.py:201`, leaves such a hint unflagged.
 - "Every attempt is diagnosed, so this stays empty only until a child answers"
   (`dashboard_page.py:170-171`): right answers are not diagnosed and abstentions
   are not listed. The overview counts a session that has just been opened as one
   that was left, and items, not sessions, as awaiting review.
 - On the runs page, replies out of order leave another run highlighted than shown; a
   Play clicked while a run is on its way carries over to it; until then the old
   tour's bar says Pause and its click starts playback; a rejected fetch leaves it
   so. `PageTruthful` has these as conditions.

**Fairness.** `Swarm!FairSpec` has weak fairness of the agents together:
`SWARM.invoke` runs the graph to the end. `Submission!FairSpec` has weak fairness
of each request's handler: it is sequential code in a server thread; that a
handler waits for a row lock is in the guards, so the property shows that the
lock's holder always goes on. `Lesson!FairSpec` has weak fairness of `Serve` and of
`Hear`: a request that arrives is answered and a browser runs the handler of what
it hears; a request or reply that is lost is heard of as a failed fetch. None gives
fairness to failures, teachers, administrators, children or commits of other
requests. The other modules promise safety only.

**Deadlock** is not checked: attempts and lessons end, requests and calls are
finite, a page is complete at some time, and bounds stop the environment.

## 4. Proofs

TLC checks the instances of section 3, the theorems hold for every value of the
constants. Each invariant was checked by TLC on the instance of its run before it
was proved. Of what the passing runs check, all is proved but what the end of this
section lists.

`SwarmProofs` proves for every `MaxGenerationAttempts` and `MaxRolloutChanges` in
Nat that `TypeOK`, `TwoGates` and the refinement `ImplementsGuard` hold. The
invariant `IInv` adds to the types what ties the parts together:

 - which agents can hold control together with a candidate, a check or a result;
 - `generation = rejections + 1` while drafting, from which the bound on
   generations follows although the loop only tests `generation`;
 - a generated candidate exists only when neither shadow nor rollout forced the
   template.

`TwoGates` alone is not inductive: a hint is recorded from `candidate`, whose
origin is decided two agents earlier. Each group of agents has a lemma; the
refinement maps each action to a step of `HintGuard` or to a stutter.

The same module proves what is said of whole timelines: `ChecksInPlace`,
`StoredTrue` and `HonestRecord`. They compare the state an agent hands over with
events that several agents wrote, so `RecordInv` says agent by agent what the
timeline holds when that agent has control: the screening behind it, the passed check
in front of a hint (`Clearance`), as many rejected checks as rejections counted
(`RejectionsTallied`), a fallback for each degraded stage (`Degradations`), a call
for each generation (`Billing`), the call that wrote the words in hand
(`Attribution`). An agent appends up to a handful of events at once; what such a batch
adds to a count or to what a timeline has is proved once (`TallyOfConcat`, `Adds`),
and each agent then has one lemma.

`TraceFaithful`, about what `Trace` reads back from that timeline, is proved on top.
`Runs` folds `Step` over the events, and a fold is chosen by an equation over all sets
of positions. On initial segments that equation has a solution (`Readable`) and one
only, both by a least counterexample, so that one event more is one `Step` more
(`GroupedAppend`). The rest is about what an agent appends. `Sound` says of a timeline
and a ledger that a run names no call or one of its own stage, that calls follow the runs,
and that nothing is open between two agents but a screen which raised an alert. A stage
that starts and ends (`PairSound`), one that only ends (`LoneSound`), an event without a
stage (`UnstagedSound`) and a longer ledger (`LedgerSound`) keep it. The order of the
calls holds because a run names, if any, the call that is the latest of its stage when
the run is recorded (`Latest`). `TraceInv` adds to `Sound` that each stage listed as degraded has a run that
fell back, which also covers a screen the caller ran before the swarm.

`EventLogProofs` proves `TypeOK`, `Unique`, `GapFree` and `AppendOnly` for any set
of writers and any bound. The inductive part is that the committed numbers are an
initial segment 0..n and that a number read is at most n+1: a number read earlier
either is still next or is taken, so the unique constraint alone keeps the
timeline gap-free. `RefusedByAnother`, which says that a refused request lost its
number to another, is inductive on top of that; it is proved and has no run.

`SubmissionProofs` proves all the safety of `Submission`, for any set of requests and
any number of hint levels. The first invariant says of a request, by the place it has
reached, how its attempt went, what is flushed and what it has committed
(`Outcome`, `Flushed`, `Behind`, `RoutedToItem`, `AlertOf`). It mentions another
request only where an item may be another's, and that is stable since items are not
taken away; so it survives any overlap and any failure, and gives `Explained`,
`ReplyTrue` and `FinishedReachesTeacher`. The second is about requests in turn: the
row is as the request in flight loaded it and counted it (`Loaded`), and as long as
nothing failed a session that goes on is below its last level and has no end in its
timeline (`Unended`). It gives `InTurnSettled` and the action property
`SessionMovesOn`; only what `FinishesOnce` guards with `failures = 0` rests on `Unended`.

`ReviewProofs` proves `TypeOK`, `LeavesWithJudgement` (a row leaves the queue only
with a judgement; no run checks it) and `SomebodySees` for any teachers, classrooms
and page size, and `FloorNeverOperative` and `EvidenceStands` for any floors in the
order of the code's. Added to the types is that the resolved items are the judged
ones. `SomebodySees` takes the least open row, before which nothing counts against a
limit; `FloorNeverOperative` maps the ratings onto the sessions they reach;
`EvidenceStands` follows from ratings and rows being only added, so that both sets
the gates count grow.

`RolloutProofs` proves `TypeOK` and, while at most two changes share a timestamp,
`KillWinsTies` and `ChangesMeanWhatTheySay`, for any administrators, percentages and
number of changes. The first invariant counts, per timestamp, the rows that are
committed or built and waiting, since that is what the bound on ties restricts. From
it follows what a reader gets whichever two rows the query returns: the strictest of
the newest rows (`CurrentIsStrictest`), so that all readers agree. The second,
`ReadInv`, keeps for each session that it was given what all the newest rows its
attempt could read say, from which a flip must come from a row committed since; and
for administrators in turn that a kill under way still knows the percentage in force.
The bound of two is a hypothesis of both theorems; what happens without it is said
above.

`ModelCallsProofs` proves `TypeOK`, `VersionNamesText` and `SpendAccounted` for any
names, texts, processes, prices and calls. That the ledger gives one text per version
is not inductive: the row is written from a call that was sent from a library that was
deployed from a release that passed `verify()` long before. The invariant goes back
along that chain: each released library agrees with the lock as it is now, since a
locked name keeps its text; each process has a released library or none; each call
under way, and each row, has a text of the lock under its version. For the spending,
`SpendInv` adds that every call recorded or ended has a row and every row says what
the reply its call still holds makes due. The sum per version is a fold over a set:
the proof never computes it, it shows that the two folds of `SpendAccounted` are
chosen by the same equation (`SumOfDues`).

`LessonProofs` proves all the safety of `Lesson`. `HintsAreSafe` and `HintsClimb` hold
for any problems and answers, any texts a model writes, losses and resends. The first
rests on `OfferedIsSafe`, that whatever is cleared has passed the deterministic layer
and is about the diagnosis or what stands in for it, and on `DiagnosesApply`, that only
tags that apply to the problem are diagnosed. The second needs that a session which is
open has one hint for each count, which `IsOver` alone keeps. `MostUrgentHeard` is
proved for any text and any order of its signals (`ScreenIsMostUrgent`); that screening
always comes to something is `ScreenHearsAny`. `ScreenFollowsRecord` needs `ScreenInv`,
which follows the request and the reply on their way: what a reply that has not been
heard says is true of the session it is about (`ANewLesson`, `AVerdict`), and the app
shows every hint given unless the reply with it is on its way or was lost (`Following`).
Its theorem has a hypothesis, `Problems \subseteq ArithmeticProblems`: sums, and
differences not below zero, of natural numbers. The curriculum's problems are of that
kind (`SeedsAreArithmetic`), and of any such problem the picture is right
(`ArithmeticIsDrawn`).

`PagesProofs` is about the two pages that do more than show a reply. Of `RunsPage` it
proves `TypeOK`, `OneHold` and `PageTruthful` for any runs, stages and fetches.
`LatestIsLast` says where among the replies on their way that of the last click can be;
without it the label cannot be related to the click. Of `ClassSummary`
it proves `FairToChildren` and `TotalsOfTheClass` for any finite class, any caller and
commits between the queries. For the first, the page holds what was so when each query ran, which is related to the record
as it is only because the record moves one way (`Onwards`): an attempt stays, what was
judged wrong stays wrong, a diagnosis is not taken back. Then each diagnosis the page
counts is an attempt of that child's (`CountedDiagnosed`, an injection). For the second,
`TotalsInv` says of what the queries have read so far that each list holds the rows of
the class once and nobody else's, so that counting them all is adding up the counts per
child (`TotalOfParts`). The page counts in lists and the property adds over sets; that
a sum over a set takes up one child at a time (`SizesOf`, `SumOfSizes`) is proved by a
least counterexample among the subsets of the class, a fold being chosen by the
equation it satisfies.

**Assumptions** are the modules' `ASSUME`s: naturals as bounds, at least one lesson,
scopes that are sets of sessions, a finite set of students, a floor for rates below the floor for sessions,
problems of integers and drafts that state integers,
prices for the models that are asked for, labels that are no other mark an attempt can
have; and the two hypotheses named above.

**Only model-checked** is liveness (`Finishes`, `Answered`, `AppComesBack`): the prover
has no rule for fairness and ENABLED.

The library's induction rules take an operator as a parameter, which the installed
provers cannot instantiate. Where a proof needs induction (sums over a class, a fold over
a timeline) it takes the least counterexample instead.

## 5. Not modelled

Text as such: regular expressions, wording, substitution of slots, parsing and
algebra (sympy's). `Fallbacks` has which numbers and signals a text holds, and
starts from there. What a model answers is a choice; of a hint it writes, the numbers in it. HTML and layout of the pages;
the inspector and history pages of `admin.py` and the other breakdowns of
`economics.py`, which read and change nothing; acknowledging an alert, an update of
a separate table; predicates of endpoints that are not modelled; settings. The
evaluation harness measures corpora offline and keeps no state; scripts, migrations
and deployment run by hand while the system is down. `PROJECT.json` "components" says
for each part what is left out of it. In `Submission` the symbolic service's failure
is `Fail`.

## 6. Plan

Modelled first was what a child sees and what is kept of it (`HintGuard`, `Swarm`,
`EventLog`, `Submission`), then the switch that governs it (`Rollout`) and the
people behind it (`Review`, `Phase0Gates`), then what the pipeline is made from
(`PromptRegistry`, `ModelCalls`, `Fallbacks`) and the ends it is used from (`Lesson`,
`ClassSummary`, `RunsPage`). Next:

 1. `Submission`: an abstract specification of a session (submitted, answered,
    finished, handed to a teacher) that `Submission` in turn implements; what it has to
    say is now spread over `SessionMovesOn` and `InTurnSettled`.
 2. Acknowledging of alerts, and the reason a session is routed for.
