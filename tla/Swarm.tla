-------------------------------- MODULE Swarm --------------------------------
(***************************************************************************)
(* One attempt through the hint pipeline: the agents of                    *)
(* services/orchestrator/swarm.py with the stages they call.  Each agent   *)
(* that holds control takes one step, in which it calls its stage, writes  *)
(* its events, and hands over; the outcome of a model call, of the         *)
(* curriculum lookup and of the leak check is any the stage can return.    *)
(* An administrator may move the rollout between any two steps.            *)
(***************************************************************************)
EXTENDS Integers, Sequences, FiniteSets

CONSTANTS
    MaxGenerationAttempts,   \* MAX_GENERATION_ATTEMPTS
    MaxRolloutChanges        \* bound: rollout changes during one attempt

ASSUME SwarmAssumption ==
    MaxGenerationAttempts \in Nat /\ MaxRolloutChanges \in Nat

VARIABLES
    deps,           \* how this request was composed; never changes
    inCohort,       \* what the live rollout would answer for this session
    rolloutChanges, \* changes made so far (bounds the administrator)
    node,           \* the agent holding control, or "end"
    withheld,       \* withheld_by_rollout, as read by the retrieve agent
    shadowRan,      \* shadow_ran
    shadowOutcome,  \* shadow_outcome, held until the shown hint is known
    generation,     \* generation number; 0 until the shadow agent sets it
    diagnosis,      \* Diagnosis, with the call that produced it (0: a rule)
    candidate,      \* candidate waiting for the leak check
    llmCall,        \* llm_call_id carried with the candidate
    check,          \* last LeakCheck
    rejections,     \* leak_rejections
    degraded,       \* degraded stages
    calls,          \* the ledger: stage of each model call; its id is its index
    events,         \* the session timeline
    alerts,         \* safety alerts raised for this submission
    hintRows,       \* HintLog rows
    shadowRows,     \* ShadowCandidate rows
    result          \* AttemptResult

routing == <<withheld, shadowRan, shadowOutcome, generation>>
drafting == <<diagnosis, candidate, llmCall, check, rejections>>
records == <<alerts, hintRows, shadowRows, result>>
rollout == <<inCohort, rolloutChanges>>
vars == <<deps, rollout, node, routing, drafting, degraded, calls, events,
          records>>

-----------------------------------------------------------------------------
(* Values *)

Agents == {"safety_agent", "diagnose_agent", "retrieve_agent", "shadow_agent",
           "generate_agent", "leakcheck_agent", "record_hint_agent",
           "escalate_agent"}
Stages == {"safety_screen", "diagnose", "rerank", "generate_hint", "leak_check"}

\* The words of a hint: the model call that wrote them, or 0 for the template,
\* which is the same text every time for one tag, level and attempt.
TemplateText == 0
None == [none |-> TRUE]
Candidates == [source : {"generated", "template"}, text : Nat]
Template == [source |-> "template", text |-> TemplateText]

Deps == [shadow : BOOLEAN,      \* shadow_mode
         llm : BOOLEAN,         \* a model is wired
         rollout : BOOLEAN,     \* a RolloutSource is wired
         template : BOOLEAN,    \* render() finds a phrasing that does not leak
         screened : {"none", "clear", "missing", "flagged", "undelivered"}]

-----------------------------------------------------------------------------
(* Events *)

Event(type, stage, note, call) ==
    [type |-> type, stage |-> stage, note |-> note, call |-> call]
Ev(type, stage, note) == Event(type, stage, note, 0)
Changed(frm, to) == Ev("state_changed", frm, to)
Started(stage) == Ev("stage_started", stage, "")
Completed(stage, call) == Event("stage_completed", stage, "", call)
Failed(stage, note) == Ev("stage_failed", stage, note)
Fallback(stage, reason) == Ev("fallback_used", stage, reason)

Emit(batch) == events' = events \o batch

-----------------------------------------------------------------------------
(* safety_agent: carry the screen the caller ran, or screen here *)

ScreenOutcomes ==
    [flagged : {TRUE}, fallback : BOOLEAN, asked : {FALSE}] \cup
    IF deps.llm THEN [flagged : BOOLEAN, fallback : BOOLEAN, asked : {TRUE}]
                ELSE [flagged : {FALSE}, fallback : {TRUE}, asked : {FALSE}]

\* call: the classifier's, when its reply is what decides; else 0.
ScreenEvents(o, call) ==
    <<Started("safety_screen")>>
    \o (IF o.flagged THEN <<Event("safety_flag", "safety_screen", "", call)>> ELSE <<>>)
    \o (IF o.fallback THEN <<Fallback("safety_screen", "")>> ELSE <<>>)
    \o (IF o.flagged \/ o.fallback THEN <<>>
        ELSE <<Completed("safety_screen", call)>>)

\* What the timeline already holds when the caller screened the submission.
CarriedEvents(screened) ==
    IF screened = "none" THEN <<>>
    ELSE ScreenEvents([flagged |-> screened \in {"flagged", "undelivered"},
                       fallback |-> screened \in {"missing", "undelivered"}], 0)

NextCall == Len(calls) + 1
IdIf(asked) == IF asked THEN NextCall ELSE 0
Ledger(stage, asked) == calls' = IF asked THEN Append(calls, stage) ELSE calls

\* degraded_stages as a set of stages; the code appends "retrieve", "generate" and
\* "leakcheck" for the stages rerank, generate_hint and leak_check.
Degrade(stage, when) == degraded' = IF when THEN degraded \cup {stage} ELSE degraded

CarriesScreen == deps.screened # "none"

CarryScreen ==
    /\ node = "safety_agent" /\ CarriesScreen
    /\ Degrade("safety_screen", deps.screened \in {"missing", "undelivered"})
    /\ Emit(<<Changed("awaiting_answer", "diagnosing")>>)
    /\ node' = "diagnose_agent"
    /\ UNCHANGED <<deps, rollout, routing, drafting, calls, records>>

Screen ==
    /\ node = "safety_agent" /\ ~CarriesScreen
    /\ \E o \in ScreenOutcomes :
        /\ Degrade("safety_screen", o.fallback)
        /\ Ledger("safety_screen", o.asked)
        /\ alerts' = IF o.flagged THEN alerts + 1 ELSE alerts
        /\ Emit(ScreenEvents(o, IdIf(o.asked)) \o <<Changed("awaiting_answer", "diagnosing")>>)
    /\ node' = "diagnose_agent"
    /\ UNCHANGED <<deps, rollout, routing, drafting, hintRows, shadowRows, result>>

-----------------------------------------------------------------------------
(* diagnose_agent and retrieve_agent *)

\* A rule fires; or no rule does and there is no model, the model cannot be
\* reached, its tag is rejected (below threshold, or impossible on this
\* problem), or its tag stands.
DiagnoseOutcomes ==
    {[known |-> TRUE, source |-> "rule", fallback |-> FALSE, asked |-> FALSE]} \cup
    IF deps.llm
    THEN [known : BOOLEAN, source : {"llm"}, fallback : {FALSE}, asked : {TRUE}] \cup
         {[known |-> FALSE, source |-> "rule", fallback |-> TRUE, asked |-> TRUE]}
    ELSE {[known |-> FALSE, source |-> "rule", fallback |-> TRUE, asked |-> FALSE]}

DiagnoseAgent ==
    /\ node = "diagnose_agent"
    /\ \E o \in DiagnoseOutcomes :
        /\ Degrade("diagnose", o.fallback)
        /\ Ledger("diagnose", o.asked)
        /\ diagnosis' = [known |-> o.known, source |-> o.source,
                         call |-> IdIf(o.source = "llm")]
        /\ Emit(<<Started("diagnose"),
                  IF o.fallback THEN Fallback("diagnose", "")
                  ELSE Completed("diagnose", IdIf(o.asked)),
                  Changed("diagnosing", "retrieving_curriculum")>>)
    /\ node' = "retrieve_agent"
    /\ UNCHANGED <<deps, rollout, routing, candidate, llmCall, check, rejections,
                   records>>

\* The table has strategies for the tag, or only the generic ones.
RetrieveEvents(unmapped) ==
    <<Started("rerank"),
      IF unmapped THEN Fallback("rerank", "") ELSE Completed("rerank", 0)>>

\* The live rollout is read here, once, for every generation below.
RetrieveAgent ==
    /\ node = "retrieve_agent"
    /\ \E unmapped \in BOOLEAN :
        /\ Degrade("rerank", unmapped)
        /\ Emit(RetrieveEvents(unmapped)
                \o <<Changed("retrieving_curriculum", "generating_hint")>>)
    /\ withheld' = (deps.rollout /\ ~inCohort)
    /\ node' = "shadow_agent"
    /\ UNCHANGED <<deps, rollout, shadowRan, shadowOutcome, generation, drafting,
                   calls, records>>

-----------------------------------------------------------------------------
(* The leak check (stages/leakcheck.py) *)

\* Layer 1 finds the answer; or layer 2 has no model, cannot be reached, says
\* SAFE, or says anything else.
LeakOutcomes ==
    {[passed |-> FALSE, ran |-> FALSE, fallback |-> FALSE, asked |-> FALSE]} \cup
    IF deps.llm
    THEN [passed : BOOLEAN, ran : {TRUE}, fallback : {FALSE}, asked : {TRUE}] \cup
         {[passed |-> TRUE, ran |-> FALSE, fallback |-> TRUE, asked |-> TRUE]}
    ELSE {[passed |-> TRUE, ran |-> FALSE, fallback |-> TRUE, asked |-> FALSE]}

\* A rejection does not name the call behind it.
LeakEvents(o, call) ==
    <<Started("leak_check"),
      IF o.fallback THEN Fallback("leak_check", "")
      ELSE IF o.passed THEN Completed("leak_check", call) ELSE Failed("leak_check", "")>>

-----------------------------------------------------------------------------
(* shadow_agent: run the model without showing what it says *)

StartGenerating ==
    /\ generation' = 1
    /\ rejections' = 0
    /\ node' = "generate_agent"

\* render() either gives the template's text or refuses; the timeline gets the
\* refusal before the fallback.
TemplateEvents(reason) ==
    <<Started("generate_hint")>>
    \o (IF deps.template THEN <<>> ELSE <<Failed("generate_hint", "")>>)
    \o <<Fallback("generate_hint", reason)>>

SkipShadow ==
    /\ node = "shadow_agent" /\ ~(deps.shadow /\ deps.llm)
    /\ StartGenerating
    /\ UNCHANGED <<deps, rollout, withheld, shadowRan, shadowOutcome, diagnosis,
                   candidate, llmCall, check, degraded, calls, events, records>>

\* The provider is out: what comes back is a template, and is thrown away.
ShadowOutage ==
    /\ node = "shadow_agent" /\ deps.shadow /\ deps.llm
    /\ StartGenerating
    /\ shadowRan' = TRUE
    /\ Ledger("generate_hint", TRUE)
    /\ Emit(TemplateEvents("outage"))
    /\ UNCHANGED <<deps, rollout, withheld, shadowOutcome, diagnosis, candidate,
                   llmCall, check, degraded, records>>

\* Mutant: the event that sums up a shadow run names the leak check's call.
ShadowSummaryChecked == Completed("generate_hint", NextCall + 1)
ShadowSummary == Completed("generate_hint", NextCall)

ShadowReply ==
    /\ node = "shadow_agent" /\ deps.shadow /\ deps.llm
    /\ StartGenerating
    /\ shadowRan' = TRUE
    /\ \E o \in LeakOutcomes :
        /\ shadowOutcome' = [text |-> NextCall, passed |-> o.passed]
        /\ calls' = calls \o <<"generate_hint">>
                          \o (IF o.asked THEN <<"leak_check">> ELSE <<>>)
        /\ Emit(<<Started("generate_hint"), Completed("generate_hint", NextCall)>>
                \o LeakEvents(o, NextCall + 1) \o <<ShadowSummary>>)
    /\ UNCHANGED <<deps, rollout, withheld, diagnosis, candidate, llmCall, check,
                   degraded, records>>

-----------------------------------------------------------------------------
(* generate_agent *)

\* Mutant: shadow mode no longer forces the template.
ByDesignRolloutOnly == withheld
ByDesign == shadowRan \/ withheld

\* Mutant: no bound on regenerating.
ForceTemplateUnbounded == ByDesign
ForceTemplate == ByDesign \/ generation > MaxGenerationAttempts

TemplateReason == IF shadowRan THEN "shadow mode"
                  ELSE IF withheld THEN "rollout" ELSE "leak failures"

\* Mutant: the call id of an earlier, rejected candidate stays in place.
OfferTemplateStaleCall(reason) ==
    /\ Degrade("generate_hint", ~ByDesign)
    /\ UNCHANGED llmCall
    /\ candidate' = IF deps.template THEN Template ELSE None
    /\ node' = IF deps.template THEN "leakcheck_agent" ELSE "escalate_agent"
    /\ Emit(TemplateEvents(reason))

\* Hand a template to the leak check, or escalate when there is none.
OfferTemplate(reason) ==
    /\ Degrade("generate_hint", ~ByDesign)
    /\ IF deps.template
       THEN /\ candidate' = Template /\ llmCall' = 0
            /\ node' = "leakcheck_agent"
            /\ Emit(TemplateEvents(reason)
                    \o <<Changed("generating_hint", "leak_checking")>>)
       ELSE /\ candidate' = None /\ UNCHANGED llmCall
            /\ node' = "escalate_agent"
            /\ Emit(TemplateEvents(reason))

\* Mutant: a request with no model wired is not served a template.
GenerateTemplateForcedOnly ==
    /\ node = "generate_agent" /\ ForceTemplate
    /\ OfferTemplate(TemplateReason)
    /\ UNCHANGED <<deps, rollout, routing, diagnosis, check, rejections, calls,
                   records>>
GenerateTemplate ==
    /\ node = "generate_agent" /\ (ForceTemplate \/ ~deps.llm)
    /\ OfferTemplate(IF ForceTemplate THEN TemplateReason ELSE "no model")
    /\ UNCHANGED <<deps, rollout, routing, diagnosis, check, rejections, calls,
                   records>>

GenerateOutage ==
    /\ node = "generate_agent" /\ ~ForceTemplate /\ deps.llm
    /\ Ledger("generate_hint", TRUE)
    /\ OfferTemplate("outage")
    /\ UNCHANGED <<deps, rollout, routing, diagnosis, check, rejections, records>>

GenerateReply ==
    /\ node = "generate_agent" /\ ~ForceTemplate /\ deps.llm
    /\ Ledger("generate_hint", TRUE)
    /\ candidate' = [source |-> "generated", text |-> NextCall]
    /\ llmCall' = NextCall
    /\ Emit(<<Started("generate_hint"), Completed("generate_hint", NextCall),
              Changed("generating_hint", "leak_checking")>>)
    /\ node' = "leakcheck_agent"
    /\ UNCHANGED <<deps, rollout, routing, diagnosis, check, rejections, degraded,
                   records>>

-----------------------------------------------------------------------------
(* leakcheck_agent *)

\* The verdict decides who gets control: a cleared candidate is shown, a
\* rejected generated one is regenerated, a rejected template is the end.
\* Mutants: a template is shown whatever the verdict; a template is retried.
AfterCheckTrustsTemplates(passed) ==
    IF passed \/ candidate.source = "template" THEN "record_hint_agent"
    ELSE "generate_agent"
AfterCheckRetriesTemplates(passed) ==
    IF passed THEN "record_hint_agent" ELSE "generate_agent"
AfterCheck(passed) ==
    IF passed THEN "record_hint_agent"
    ELSE IF candidate.source = "template" THEN "escalate_agent"
    ELSE "generate_agent"

\* Mutant: only a rejected generated candidate is counted.
CountRejectionGenerated(passed) ==
    IF passed \/ candidate.source = "template" THEN rejections ELSE rejections + 1
CountRejection(passed) == IF passed THEN rejections ELSE rejections + 1

LeakcheckAgent ==
    /\ node = "leakcheck_agent"
    /\ \E o \in LeakOutcomes :
        /\ check' = [passed |-> o.passed, ran |-> o.ran]
        /\ Degrade("leak_check", o.fallback)
        /\ Ledger("leak_check", o.asked)
        /\ Emit(LeakEvents(o, NextCall))
        /\ rejections' = CountRejection(o.passed)
        /\ node' = AfterCheck(o.passed)
        /\ candidate' = IF node' = "record_hint_agent" THEN candidate ELSE None
        /\ generation' = IF node' = "generate_agent" THEN generation + 1
                         ELSE generation
    /\ UNCHANGED <<deps, rollout, withheld, shadowRan, shadowOutcome, diagnosis,
                   llmCall, records>>

-----------------------------------------------------------------------------
(* record_hint_agent and escalate_agent *)

\* The shadow candidate is written once both hints are known.
RecordShadow(shown) ==
    shadowRows' = IF shadowOutcome = None THEN shadowRows
                  ELSE Append(shadowRows, [generated |-> shadowOutcome.text,
                                           passed |-> shadowOutcome.passed,
                                           shown |-> shown])

Finish(hint) == result' = [hint |-> hint, rejections |-> rejections,
                           degraded |-> degraded, shadowRan |-> shadowRan]

RecordHintAgent ==
    /\ node = "record_hint_agent"
    /\ hintRows' = Append(hintRows, [source |-> candidate.source,
                                     text |-> candidate.text,
                                     classified |-> check.ran,
                                     call |-> llmCall])
    /\ Emit(<<Ev("hint_shown", candidate.source, ""),
              Changed("leak_checking", "awaiting_student_retry")>>)
    /\ RecordShadow(candidate)
    /\ Finish(candidate)
    /\ node' = "end"
    /\ UNCHANGED <<deps, rollout, routing, drafting, degraded, calls, alerts>>

EscalateAgent ==
    /\ node = "escalate_agent"
    /\ Emit(<<Ev("escalated", "", ""), Changed("leak_checking", "escalated")>>)
    /\ RecordShadow(None)
    /\ Finish(None)
    /\ node' = "end"
    /\ UNCHANGED <<deps, rollout, routing, drafting, degraded, calls, alerts,
                   hintRows>>

-----------------------------------------------------------------------------
(* The administrator, while the attempt runs (admin.set_rollout) *)

ChangeRollout ==
    /\ rolloutChanges < MaxRolloutChanges /\ node # "end"
    /\ inCohort' = ~inCohort
    /\ rolloutChanges' = rolloutChanges + 1
    /\ UNCHANGED <<deps, node, routing, drafting, degraded, calls, events, records>>

-----------------------------------------------------------------------------
(* Specification *)

Init ==
    /\ deps \in Deps
    /\ inCohort \in BOOLEAN /\ rolloutChanges = 0
    /\ node = "safety_agent"
    /\ withheld = FALSE /\ shadowRan = FALSE /\ shadowOutcome = None
    /\ generation = 0 /\ rejections = 0
    /\ diagnosis = None /\ candidate = None /\ llmCall = 0 /\ check = None
    /\ degraded = {} /\ calls = <<>>
    /\ events = CarriedEvents(deps.screened)
    /\ alerts = IF deps.screened \in {"flagged", "undelivered"} THEN 1 ELSE 0
    /\ hintRows = <<>> /\ shadowRows = <<>> /\ result = None

Agent ==
    \/ CarryScreen \/ Screen
    \/ DiagnoseAgent
    \/ RetrieveAgent
    \/ SkipShadow \/ ShadowOutage \/ ShadowReply
    \/ GenerateTemplate \/ GenerateOutage \/ GenerateReply
    \/ LeakcheckAgent
    \/ RecordHintAgent \/ EscalateAgent

Next == Agent \/ ChangeRollout

Spec == Init /\ [][Next]_vars

\* SWARM.invoke runs the graph to the end: a node that holds control is run.
FairSpec == Spec /\ WF_vars(Agent)

-----------------------------------------------------------------------------
(* Type invariant *)

\* Every variable holds a value of its kind, and no attempt asks generate_agent
\* for more than MAX_GENERATION_ATTEMPTS + 1 candidates (swarm.py:38-39).
TypeOK ==
    /\ deps \in Deps
    /\ inCohort \in BOOLEAN /\ rolloutChanges \in 0..MaxRolloutChanges
    /\ node \in Agents \cup {"end"}
    /\ withheld \in BOOLEAN /\ shadowRan \in BOOLEAN
    /\ shadowOutcome \in [text : Nat, passed : BOOLEAN] \cup {None}
    /\ generation \in 0..(MaxGenerationAttempts + 1)
    /\ diagnosis \in [known : BOOLEAN, source : {"rule", "llm"}, call : Nat] \cup {None}
    /\ candidate \in Candidates \cup {None}
    /\ llmCall \in Nat
    /\ check \in [passed : BOOLEAN, ran : BOOLEAN] \cup {None}
    /\ rejections \in 0..(MaxGenerationAttempts + 1)
    /\ degraded \subseteq Stages
    /\ calls \in Seq(Stages)
    /\ alerts \in Nat

-----------------------------------------------------------------------------
(* Safety properties *)

EventIndices(P(_)) == {i \in DOMAIN events : P(events[i])}
IsHintShown(e) == e.type = "hint_shown"
IsCleared(e) == e.stage = "leak_check" /\ e.type \in {"stage_completed", "fallback_used"}
IsRejection(e) == e.stage = "leak_check" /\ e.type = "stage_failed"
IsFallback(e, stage) == e.stage = stage /\ e.type = "fallback_used"

\* One submission is screened once and raises at most one alert, whether the
\* caller screened it or the swarm does.
OneScreenPerSubmission ==
    /\ alerts <= 1
    /\ Cardinality(EventIndices(LAMBDA e : e = Started("safety_screen"))) <= 1

\* In the record itself, a leak check that passed stands between the last words
\* generated or rendered and the hint shown, so what was cleared is what the
\* child read; a check of the shadow candidate does not count for the template.
ShownAfterClearance ==
    \A i \in EventIndices(IsHintShown) :
        \E j \in EventIndices(IsCleared) :
            j < i /\ \A k \in j..i : events[k].stage # "generate_hint"

\* A submission meets every safety check in its place, whoever runs it: the welfare
\* screen once, and the leak check between the last words and the hint.
ChecksInPlace == OneScreenPerSubmission /\ ShownAfterClearance

\* A stored hint names the model call that wrote those very words (none for a
\* template), although the call id travels apart from the candidate, through
\* regenerations; a diagnosis from the model names a diagnose call.
Attributable ==
    /\ \A i \in DOMAIN hintRows :
        /\ hintRows[i].call = hintRows[i].text
        /\ hintRows[i].source = "generated" => calls[hintRows[i].call] = "generate_hint"
    /\ diagnosis # None /\ diagnosis.source = "llm" => calls[diagnosis.call] = "diagnose"

\* Generated words reach the child only when both gates are open: the deployment
\* is not in shadow mode, and the rollout, where there is one, admitted the
\* session when this attempt read it, whatever it says by now.
TwoGates ==
    \A i \in DOMAIN hintRows :
        hintRows[i].source = "generated" => ~deps.shadow /\ ~withheld

\* Hint generations billed to one attempt: the shadow one only, none when the
\* rollout withholds, and never a third free one.
BilledGenerations ==
    Cardinality({i \in DOMAIN calls : calls[i] = "generate_hint"})
        <= IF shadowRan THEN 1 ELSE IF withheld THEN 0 ELSE MaxGenerationAttempts

\* As many rejections as the timeline shows of candidates meant for the child, not
\* counting the shadow one's.
RejectionsCounted ==
    Cardinality(EventIndices(IsRejection))
        = rejections + (IF shadowOutcome # None /\ ~shadowOutcome.passed THEN 1 ELSE 0)

\* The stages reported degraded are those whose fallback the timeline shows, save a
\* template that is served by design (shadow mode, rollout).
DegradedHonest ==
    result # None =>
        /\ \A s \in Stages \ {"generate_hint", "leak_check"} :
            s \in result.degraded <=> \E i \in DOMAIN events : IsFallback(events[i], s)
        /\ "leak_check" \in result.degraded =>
            \E i \in DOMAIN events : IsFallback(events[i], "leak_check")
        /\ "generate_hint" \in result.degraded <=>
            /\ ~shadowRan /\ ~withheld
            /\ \E i \in DOMAIN events : IsFallback(events[i], "generate_hint")

\* Leak failures exactly when the guardrail turned down every generation allowed,
\* the rollout or shadow mode only when they forced the template.
TemplateReasonTrue ==
    \A i \in DOMAIN events :
        IsFallback(events[i], "generate_hint") =>
            /\ events[i].note = "leak failures" =>
                Cardinality({j \in 1..i : IsRejection(events[j])}) = MaxGenerationAttempts
            /\ events[i].note = "rollout" => withheld /\ ~shadowRan
            /\ events[i].note = "shadow mode" => deps.shadow
            /\ events[i].note = "no model" => ~deps.llm

\* What review routing, the phase gates and an operator are told of an attempt (its
\* leak rejections, its degraded stages, the cause of its template) is what its
\* timeline shows, whichever stages fell back and whichever words were turned down;
\* and the ledger bills it no more generations than it was allowed.
HonestRecord ==
    RejectionsCounted /\ DegradedHonest /\ TemplateReasonTrue /\ BilledGenerations

\* When the attempt is over, the candidate produced in shadow is stored once,
\* beside the hint the child got or the absence of one, for a teacher to rate.
ShadowPaired ==
    result # None =>
        shadowRows = IF shadowOutcome = None THEN <<>>
                     ELSE <<[generated |-> shadowOutcome.text,
                             passed |-> shadowOutcome.passed,
                             shown |-> result.hint]>>

\* What is stored of the words an attempt produced, shown or not, says who wrote
\* them and what they stood beside.
StoredTrue == Attributable /\ ShadowPaired

-----------------------------------------------------------------------------
(* Liveness and refinement *)

\* Every attempt comes to an end: the child gets a hint or goes to a teacher.
Finishes == <>(node = "end" /\ result # None)

\* The state of the guardrail each agent stands for.
Phase == IF node = "leakcheck_agent" THEN "draft"
         ELSE IF node = "record_hint_agent" THEN "cleared"
         ELSE IF node = "escalate_agent" THEN "withdrawn"
         ELSE IF node = "end" THEN IF hintRows = <<>> THEN "withdrawn" ELSE "shown"
         ELSE "drafting"
Kind == IF candidate = None THEN "none"
        ELSE IF candidate.source = "generated" THEN "free" ELSE "template"
Spent == IF generation = 0 THEN 0
         ELSE IF candidate # None /\ candidate.source = "generated"
         THEN generation ELSE generation - 1

Guard == INSTANCE HintGuard WITH
    MaxFree <- MaxGenerationAttempts, phase <- Phase, kind <- Kind, spent <- Spent

\* The swarm implements the guardrail: words are shown only from a cleared
\* draft, and at most MAX_GENERATION_ATTEMPTS free drafts are spent.
ImplementsGuard == Guard!GuardSpec

-----------------------------------------------------------------------------
(* A claim of the repository that the code does not keep *)

\* packages/llm/config.py:38-39: a leak check that times out "fails closed to a
\* template".  So model-written words shown to a child were judged by the
\* classifier whenever there is a model.
TimeoutFailsClosed ==
    \A i \in DOMAIN hintRows :
        hintRows[i].source = "generated" => hintRows[i].classified
=============================================================================
