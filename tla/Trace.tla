-------------------------------- MODULE Trace --------------------------------
(***************************************************************************)
(* What is read back from the timeline of an attempt (Swarm.tla): the      *)
(* replay a teacher is shown with its model calls and their cost           *)
(* (packages/telemetry/replay.py), and the runs of stages with what went   *)
(* in and came out (packages/telemetry/trace.py).  Both are functions of   *)
(* the stored events and ledger rows alone, at any moment.                 *)
(***************************************************************************)
EXTENDS Swarm, SequencesExt

\* Events with a stage of their own; the others are session-level context.
Staged(e) == e.type \in {"stage_started", "stage_completed", "stage_failed",
                         "fallback_used", "safety_flag"}
TerminalEvents == {"stage_completed", "stage_failed", "fallback_used"}

\* A run is its stage and the positions of its events, oldest first.
Run(stage, steps) == [stage |-> stage, steps |-> steps]

\* The body of trace_from's loop: a start closes what is open and opens a run; any
\* other event joins the open run of its stage, and closes it if it is terminal or
\* if no run was open.
Step(acc, e, i) ==
    LET before == acc.open[e.stage]
        collected == Append(before, i)
    IN  IF ~Staged(e) THEN acc
        ELSE IF e.type = "stage_started"
        THEN [open |-> [acc.open EXCEPT ![e.stage] = <<i>>],
              closed |-> IF before = <<>> THEN acc.closed
                         ELSE Append(acc.closed, Run(e.stage, before))]
        ELSE IF before # <<>> /\ e.type \notin TerminalEvents
        THEN [acc EXCEPT !.open[e.stage] = collected]
        ELSE [open |-> [acc.open EXCEPT ![e.stage] = <<>>],
              closed |-> Append(acc.closed, Run(e.stage, collected))]

NothingRead == [open |-> [s \in Stages |-> <<>>], closed |-> <<>>]
Grouped(timeline) ==
    FoldLeftDomain(LAMBDA acc, i : Step(acc, timeline[i], i), NothingRead, timeline)

\* trace_from, as a set: runs are told apart by the events they hold.
RunsIn(acc) ==
    ToSet(acc.closed) \cup {Run(s, acc.open[s]) : s \in {t \in Stages : acc.open[t] # <<>>}}
Runs == RunsIn(Grouped(events))

LastEvent(run) == events[Last(run.steps)]
Unterminated(run) == LastEvent(run).type \notin TerminalEvents
DegradedStages == {run.stage : run \in {q \in Runs : LastEvent(q).type = "fallback_used"}}

\* _llm_call_of: the first call an event of the run names, or 0.
Naming(steps) == {k \in DOMAIN steps : events[steps[k]].call # 0}
LLMCallOf(run) ==
    IF Naming(run.steps) = {} THEN 0 ELSE events[run.steps[Min(Naming(run.steps))]].call

\* SessionReplay.model_calls; total_cost_usd adds up the same steps.
ModelCalls == Cardinality({i \in DOMAIN events : events[i].call # 0})

-----------------------------------------------------------------------------
(* Properties *)

\* The input and output shown for a run are those of a call its own stage made
\* (trace.py:15-16), and never of one that a later run made: calls follow the order
\* of the runs, although shadow drafts, their checks and the template that is
\* served are all recorded under the same two stages.
PayloadsBelong ==
    LET Asking == {run \in Runs : LLMCallOf(run) # 0}
    IN  /\ \A run \in Asking :
            LLMCallOf(run) \in DOMAIN calls /\ calls[LLMCallOf(run)] = run.stage
        /\ \A a, b \in Asking :
            a.stage = b.stage /\ Head(a.steps) < Head(b.steps) =>
                LLMCallOf(a) <= LLMCallOf(b)

\* A degraded attempt is not read as a healthy one (trace.py:12-24): each stage the
\* result reports as degraded is degraded in the trace as well, also when the
\* template that should have replaced the model was refused first.
DegradationTraced == result # None => result.degraded \subseteq DegradedStages

\* A run that looks cut off belongs to a stage that did not end (trace.py:60-66):
\* the one exception is a welfare screen that raised an alert and got it delivered,
\* which records no ending.
CutOffOrAlerted ==
    \A run \in Runs :
        Unterminated(run) => run.stage = "safety_screen" /\ alerts = 1

\* A trace shows each stage with its own inputs, its own degradation and its own
\* ending, however often stages ran and whatever they fell back to.
TraceFaithful == PayloadsBelong /\ DegradationTraced /\ CutOffOrAlerted

-----------------------------------------------------------------------------
(* A claim of the repository that the code does not keep *)

\* replay.py:28-29: a step is "one event, with the model call it caused attached",
\* and model_calls counts the steps that have one (tests/test_telemetry.py:148).  So
\* no more calls are shown than were made.
CallsCountedOnce == ModelCalls <= Len(calls)
=============================================================================
