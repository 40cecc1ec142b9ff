----------------------------- MODULE SwarmProofs -----------------------------
(***************************************************************************)
(* Proofs about Swarm.tla for every MAX_GENERATION_ATTEMPTS and any number *)
(* of rollout changes: the type invariant, the two gates on generated      *)
(* text, that the swarm implements the guardrail of HintGuard.tla, that    *)
(* the record an attempt leaves (its timeline, its ledger and the rows it  *)
(* stores) says what happened, and that what Trace.tla reads back from     *)
(* that record gives every stage its own calls and its own ending.         *)
(***************************************************************************)
EXTENDS Trace, SequenceTheorems, FunctionTheorems, FiniteSetTheorems,
        WellFoundedInduction, NaturalsInduction, TLAPS

Early == {"safety_agent", "diagnose_agent", "retrieve_agent", "shadow_agent"}
Holding == {"leakcheck_agent", "record_hint_agent"}

\* A candidate exists while it is checked or shown, and only then; a hint row is
\* written at the end, from that candidate.
CandidateInHand ==
    /\ node \in Holding => candidate \in Candidates
    /\ node \in Agents \ Holding => candidate = None
    /\ node # "end" => hintRows = <<>>
    /\ node = "end" =>
        \/ candidate = None /\ hintRows = <<>>
        \/ /\ candidate \in Candidates /\ hintRows # <<>>
           /\ \A i \in DOMAIN hintRows : hintRows[i].source = candidate.source

\* The generation number runs one ahead of the rejections until the last check.
Counting ==
    /\ node \in Early => generation = 0 /\ rejections = 0
    /\ node \notin Early => generation >= 1
    /\ node \in {"generate_agent", "leakcheck_agent"} => rejections = generation - 1

\* A generated candidate comes only from a request that neither gate held back,
\* within the allowed generations; shadow mode has run by then if it is to run.
Admitted ==
    /\ candidate \in Candidates /\ candidate.source = "generated" =>
        ~shadowRan /\ ~withheld /\ ~deps.shadow /\ generation <= MaxGenerationAttempts
    /\ node \notin Early /\ deps.shadow /\ deps.llm => shadowRan

IInv == TypeOK /\ CandidateInHand /\ Counting /\ Admitted

-----------------------------------------------------------------------------

LEMMA NoneIsNoCandidate == None \notin Candidates
  BY DEF None, Candidates

LEMMA InitIInv == Init => IInv
<1> SUFFICES ASSUME Init PROVE IInv
  OBVIOUS
<1>1. TypeOK
  <2>1. alerts \in Nat
    BY DEF Init
  <2>2. calls \in Seq(Stages)
    BY DEF Init
  <2>3. generation \in 0..(MaxGenerationAttempts + 1) /\ rejections \in 0..(MaxGenerationAttempts + 1)
    BY SwarmAssumption DEF Init
  <2>4. rolloutChanges \in 0..MaxRolloutChanges /\ llmCall \in Nat
    BY SwarmAssumption DEF Init
  <2>5. node \in Agents /\ degraded \subseteq Stages
    BY DEF Init, Agents
  <2> QED
    BY <2>1, <2>2, <2>3, <2>4, <2>5 DEF Init, TypeOK
<1>2. CandidateInHand /\ Counting /\ Admitted
  BY NoneIsNoCandidate DEF Init, CandidateInHand, Counting, Admitted, Early, Holding, Agents
<1> QED
  BY <1>1, <1>2 DEF IInv

\* What the helpers every agent uses do to the types.
LEMMA DegradeTyped ==
    ASSUME degraded \subseteq Stages, NEW stage \in Stages, NEW when,
           Degrade(stage, when)
    PROVE  degraded' \subseteq Stages
  BY DEF Degrade

LEMMA LedgerTyped ==
    ASSUME calls \in Seq(Stages), NEW stage \in Stages, NEW asked,
           Ledger(stage, asked)
    PROVE  calls' \in Seq(Stages)
<1>1. CASE asked
  BY <1>1, AppendProperties DEF Ledger
<1>2. CASE ~asked
  BY <1>2 DEF Ledger
<1> QED
  BY <1>1, <1>2

\* What the stages return.
LEMMA DiagnoseOutcomesTyped ==
    \A o \in DiagnoseOutcomes : o.known \in BOOLEAN /\ o.source \in {"rule", "llm"}
<1> DEFINE Judged == [known : BOOLEAN, source : {"llm"}, fallback : {FALSE},
                      asked : {TRUE}]
<1>1. ASSUME NEW o \in Judged
      PROVE  o.known \in BOOLEAN /\ o.source \in {"rule", "llm"}
  OBVIOUS
<1>2. ASSUME NEW o \in DiagnoseOutcomes, o \notin Judged
      PROVE  o.known \in BOOLEAN /\ o.source \in {"rule", "llm"}
  <2>1. PICK k \in BOOLEAN, f \in BOOLEAN, a \in BOOLEAN :
          o = [known |-> k, source |-> "rule", fallback |-> f, asked |-> a]
    BY <1>2, Zenon DEF DiagnoseOutcomes
  <2>2. o \in [known : BOOLEAN, source : {"rule"}, fallback : BOOLEAN, asked : BOOLEAN]
    BY <2>1
  <2> QED
    BY <2>2
<1> QED
  BY <1>1, <1>2

LEMMA LeakOutcomesTyped ==
    \A o \in LeakOutcomes : o.passed \in BOOLEAN /\ o.ran \in BOOLEAN
<1> DEFINE Judged == [passed : BOOLEAN, ran : {TRUE}, fallback : {FALSE},
                      asked : {TRUE}]
<1>1. ASSUME NEW o \in Judged PROVE o.passed \in BOOLEAN /\ o.ran \in BOOLEAN
  OBVIOUS
<1>2. ASSUME NEW o \in LeakOutcomes, o \notin Judged
      PROVE  o.passed \in BOOLEAN /\ o.ran \in BOOLEAN
  <2>1. PICK p \in BOOLEAN, f \in BOOLEAN, a \in BOOLEAN :
          o = [passed |-> p, ran |-> FALSE, fallback |-> f, asked |-> a]
    BY <1>2, Zenon DEF LeakOutcomes
  <2>2. o \in [passed : BOOLEAN, ran : BOOLEAN, fallback : BOOLEAN, asked : BOOLEAN]
    BY <2>1
  <2> QED
    BY <2>2
<1> QED
  BY <1>1, <1>2

-----------------------------------------------------------------------------
(* The agents before a candidate exists *)

LEMMA EarlyAgents ==
    ASSUME IInv, CarryScreen \/ Screen \/ DiagnoseAgent \/ RetrieveAgent
    PROVE  IInv'
<1>1. ASSUME CarryScreen PROVE IInv'
  <2>1. TypeOK'
    <3>1. degraded' \subseteq Stages
      BY <1>1, DegradeTyped DEF CarryScreen, IInv, TypeOK, Stages
    <3>2. calls' \in Seq(Stages)
      BY <1>1, LedgerTyped DEF CarryScreen, IInv, TypeOK, Stages
    <3> QED
      BY <1>1, <3>1, <3>2 DEF CarryScreen, rollout, routing, drafting, records, IInv, TypeOK, Agents
  <2>2. CandidateInHand' /\ Counting' /\ Admitted'
    BY <1>1, NoneIsNoCandidate DEF CarryScreen, routing, drafting, records, IInv, CandidateInHand, Counting,
       Admitted, Early, Holding, Agents
  <2> QED
    BY <2>1, <2>2 DEF IInv
<1>2. ASSUME Screen PROVE IInv'
  <2>1. TypeOK'
    <3>1. degraded' \subseteq Stages
      BY <1>2, DegradeTyped DEF Screen, IInv, TypeOK, Stages
    <3>2. calls' \in Seq(Stages)
      BY <1>2, LedgerTyped DEF Screen, IInv, TypeOK, Stages
    <3> QED
      BY <1>2, <3>1, <3>2 DEF Screen, rollout, routing, drafting, records, IInv, TypeOK, Agents, Stages
  <2>2. CandidateInHand' /\ Counting' /\ Admitted'
    BY <1>2, NoneIsNoCandidate DEF Screen, routing, drafting, records, IInv, CandidateInHand, Counting,
       Admitted, Early, Holding, Agents
  <2> QED
    BY <2>1, <2>2 DEF IInv
<1>3. ASSUME DiagnoseAgent PROVE IInv'
  <2>1. TypeOK'
    <3>1. degraded' \subseteq Stages
      BY <1>3, DegradeTyped DEF DiagnoseAgent, IInv, TypeOK, Stages
    <3>2. calls' \in Seq(Stages)
      BY <1>3, LedgerTyped DEF DiagnoseAgent, IInv, TypeOK, Stages
    <3>3. diagnosis' \in [known : BOOLEAN, source : {"rule", "llm"}, call : Nat]
      <4>1. PICK o \in DiagnoseOutcomes :
              diagnosis' = [known |-> o.known, source |-> o.source,
                            call |-> IF o.source = "llm" THEN Len(calls) + 1 ELSE 0]
        BY <1>3 DEF DiagnoseAgent, IdIf, NextCall
      <4>2. o.known \in BOOLEAN /\ o.source \in {"rule", "llm"}
        BY <4>1, DiagnoseOutcomesTyped
      <4>3. Len(calls) \in Nat
        BY LenProperties DEF IInv, TypeOK
      <4> QED
        BY <4>1, <4>2, <4>3
    <3> QED
      BY <1>3, <3>1, <3>2, <3>3 DEF DiagnoseAgent, rollout, routing, records, IInv, TypeOK,
         Agents
  <2>2. CandidateInHand' /\ Counting' /\ Admitted'
    BY <1>3, NoneIsNoCandidate DEF DiagnoseAgent, routing, drafting, records, IInv, CandidateInHand, Counting,
       Admitted, Early, Holding, Agents
  <2> QED
    BY <2>1, <2>2 DEF IInv
<1>4. ASSUME RetrieveAgent PROVE IInv'
  <2>1. TypeOK'
    <3>1. degraded' \subseteq Stages
      BY <1>4, DegradeTyped DEF RetrieveAgent, IInv, TypeOK, Stages
    <3>2. calls' \in Seq(Stages)
      BY <1>4, LedgerTyped DEF RetrieveAgent, IInv, TypeOK, Stages
    <3> QED
      BY <1>4, <3>1, <3>2 DEF RetrieveAgent, rollout, routing, drafting, records, IInv, TypeOK, Agents
  <2>2. CandidateInHand' /\ Counting' /\ Admitted'
    BY <1>4, NoneIsNoCandidate DEF RetrieveAgent, routing, drafting, records, IInv, CandidateInHand, Counting,
       Admitted, Early, Holding, Agents
  <2> QED
    BY <2>1, <2>2 DEF IInv
<1> QED
  BY <1>1, <1>2, <1>3, <1>4

LEMMA ShadowAgents ==
    ASSUME IInv, SkipShadow \/ ShadowOutage \/ ShadowReply
    PROVE  IInv'
<1>1. /\ node = "shadow_agent" /\ node' = "generate_agent"
      /\ generation' = 1 /\ rejections' = 0
      /\ candidate' = candidate /\ hintRows' = hintRows
      /\ shadowRan' \in BOOLEAN /\ withheld' = withheld /\ deps' = deps
      /\ deps.shadow /\ deps.llm => shadowRan'
  BY DEF SkipShadow, ShadowOutage, ShadowReply, StartGenerating, records, IInv, TypeOK
<1>2. CandidateInHand' /\ Counting' /\ Admitted'
  BY <1>1, NoneIsNoCandidate
  DEF IInv, CandidateInHand, Counting, Admitted, Early, Holding, Agents
<1>3. calls' \in Seq(Stages)
  <2>1. CASE SkipShadow
    BY <2>1 DEF SkipShadow, IInv, TypeOK
  <2>2. CASE ShadowOutage
    BY <2>2, LedgerTyped DEF ShadowOutage, IInv, TypeOK, Stages
  <2>3. CASE ShadowReply
    <3>1. PICK o \in LeakOutcomes :
            calls' = calls \o <<"generate_hint">>
                           \o (IF o.asked THEN <<"leak_check">> ELSE <<>>)
      BY <2>3 DEF ShadowReply
    <3> DEFINE asked == IF o.asked THEN <<"leak_check">> ELSE <<>>
    <3>2. asked \in Seq(Stages)
      BY DEF Stages
    <3>3. calls \o <<"generate_hint">> \in Seq(Stages)
      BY ConcatProperties DEF IInv, TypeOK, Stages
    <3> QED
      BY <3>1, <3>2, <3>3, ConcatProperties
  <2> QED
    BY <2>1, <2>2, <2>3
<1>4. shadowOutcome' \in [text : Nat, passed : BOOLEAN] \cup {None}
  <2>1. CASE SkipShadow \/ ShadowOutage
    BY <2>1 DEF SkipShadow, ShadowOutage, IInv, TypeOK
  <2>2. CASE ShadowReply
    <3>1. PICK o \in LeakOutcomes :
            shadowOutcome' = [text |-> Len(calls) + 1, passed |-> o.passed]
      BY <2>2 DEF ShadowReply, NextCall
    <3>2. Len(calls) \in Nat /\ o.passed \in BOOLEAN
      BY LenProperties, LeakOutcomesTyped DEF IInv, TypeOK
    <3> QED
      BY <3>1, <3>2
  <2> QED
    BY <2>1, <2>2
<1>5. UNCHANGED <<deps, inCohort, rolloutChanges, withheld, diagnosis, llmCall, check,
                  degraded, alerts>>
  BY DEF SkipShadow, ShadowOutage, ShadowReply, records, rollout
<1>6. 1 \in 0..(MaxGenerationAttempts + 1) /\ 0 \in 0..(MaxGenerationAttempts + 1)
  BY SwarmAssumption
<1>7. TypeOK'
  BY <1>1, <1>3, <1>4, <1>5, <1>6 DEF IInv, TypeOK, Agents
<1> QED
  BY <1>2, <1>7 DEF IInv

-----------------------------------------------------------------------------
(* The generate agent *)

\* A template takes nothing but the candidate and its call id.
LEMMA TemplateOffered ==
    ASSUME IInv, node = "generate_agent", NEW reason, OfferTemplate(reason),
           calls' \in Seq(Stages),
           UNCHANGED <<deps, rollout, routing, diagnosis, check, rejections, records>>
    PROVE  IInv'
<1>1. degraded' \subseteq Stages
  BY DegradeTyped DEF OfferTemplate, IInv, TypeOK, Stages
<1>2. Template \in Candidates /\ Template.source # "generated"
  BY DEF Template, Candidates, TemplateText
<1>3. \/ node' = "leakcheck_agent" /\ candidate' = Template /\ llmCall' = 0
      \/ node' = "escalate_agent" /\ candidate' = None /\ llmCall' = llmCall
  BY DEF OfferTemplate
<1>4. TypeOK'
  BY <1>1, <1>2, <1>3 DEF IInv, TypeOK, rollout, routing, records, Agents
<1>5. CandidateInHand' /\ Counting' /\ Admitted'
  BY <1>2, <1>3, NoneIsNoCandidate DEF routing, records, IInv, TypeOK, CandidateInHand,
     Counting, Admitted, Early, Holding, Agents
<1> QED
  BY <1>4, <1>5 DEF IInv

LEMMA GenerateAgents ==
    ASSUME IInv, GenerateTemplate \/ GenerateOutage \/ GenerateReply
    PROVE  IInv'
<1>1. CASE GenerateTemplate
  <2>1. PICK reason : OfferTemplate(reason)
    BY <1>1 DEF GenerateTemplate
  <2> QED
    BY <1>1, <2>1, TemplateOffered DEF GenerateTemplate, IInv, TypeOK
<1>2. CASE GenerateOutage
  <2>1. calls' \in Seq(Stages)
    BY <1>2, LedgerTyped DEF GenerateOutage, IInv, TypeOK, Stages
  <2> QED
    BY <1>2, <2>1, TemplateOffered DEF GenerateOutage
<1>3. CASE GenerateReply
  <2>1. calls' \in Seq(Stages)
    BY <1>3, LedgerTyped DEF GenerateReply, IInv, TypeOK, Stages
  <2>2. /\ node = "generate_agent" /\ node' = "leakcheck_agent"
        /\ candidate' \in Candidates /\ llmCall' \in Nat
        /\ UNCHANGED <<deps, rollout, routing, diagnosis, check, rejections, degraded,
                       records>>
    BY <1>3, LenProperties DEF GenerateReply, NextCall, Candidates, IInv, TypeOK
  <2>3. TypeOK'
    BY <2>1, <2>2 DEF rollout, routing, records, IInv, TypeOK, Agents
  <2>4. ~shadowRan /\ ~withheld /\ ~deps.shadow /\ generation <= MaxGenerationAttempts
    BY <1>3, SwarmAssumption
    DEF GenerateReply, ForceTemplate, ByDesign, IInv, TypeOK, Admitted, Early
  <2>5. CandidateInHand' /\ Counting' /\ Admitted'
    BY <2>2, <2>4 DEF routing, records, IInv, TypeOK, CandidateInHand, Counting, Admitted,
       Early, Holding, Agents
  <2> QED
    BY <2>3, <2>5 DEF IInv
<1> QED
  BY <1>1, <1>2, <1>3

-----------------------------------------------------------------------------
(* The leak check and the end of the attempt *)

LEMMA LeakcheckStep ==
    ASSUME IInv, LeakcheckAgent
    PROVE  IInv'
<1>1. PICK o \in LeakOutcomes :
        /\ check' = [passed |-> o.passed, ran |-> o.ran]
        /\ Degrade("leak_check", o.fallback)
        /\ Ledger("leak_check", o.asked)
        /\ rejections' = CountRejection(o.passed)
        /\ node' = AfterCheck(o.passed)
        /\ candidate' = IF node' = "record_hint_agent" THEN candidate ELSE None
        /\ generation' = IF node' = "generate_agent" THEN generation + 1
                         ELSE generation
  BY DEF LeakcheckAgent
<1>2. /\ node = "leakcheck_agent" /\ candidate \in Candidates
      /\ generation >= 1 /\ rejections = generation - 1
      /\ UNCHANGED <<deps, inCohort, rolloutChanges, withheld, shadowRan, shadowOutcome,
                     diagnosis, llmCall, alerts, hintRows>>
  BY DEF LeakcheckAgent, rollout, records, IInv, CandidateInHand, Counting, Early, Holding
<1>3. candidate.source \in {"generated", "template"}
  BY <1>2 DEF Candidates
<1>4. degraded' \subseteq Stages /\ calls' \in Seq(Stages)
  BY <1>1, DegradeTyped, LedgerTyped DEF IInv, TypeOK, Stages
<1>5. check' \in [passed : BOOLEAN, ran : BOOLEAN]
  BY <1>1, LeakOutcomesTyped
<1>6. CASE o.passed
  <2>1. /\ node' = "record_hint_agent" /\ candidate' = candidate
        /\ generation' = generation /\ rejections' = rejections
    BY <1>1, <1>6 DEF AfterCheck, CountRejection
  <2>2. TypeOK'
    BY <1>2, <1>4, <1>5, <2>1 DEF IInv, TypeOK, Agents
  <2>3. CandidateInHand' /\ Counting' /\ Admitted'
    BY <1>2, <2>1 DEF IInv, CandidateInHand, Counting, Admitted, Early, Holding, Agents
  <2> QED
    BY <2>2, <2>3 DEF IInv
<1>7. CASE ~o.passed /\ candidate.source = "generated"
  <2>1. /\ node' = "generate_agent" /\ candidate' = None
        /\ generation' = generation + 1 /\ rejections' = rejections + 1
    BY <1>1, <1>7 DEF AfterCheck, CountRejection
  <2>2. generation <= MaxGenerationAttempts
    BY <1>2, <1>7 DEF IInv, Admitted
  <2>3. /\ generation' \in 0..(MaxGenerationAttempts + 1)
        /\ rejections' \in 0..(MaxGenerationAttempts + 1)
    BY <1>2, <2>1, <2>2, SwarmAssumption DEF IInv, TypeOK
  <2>4. TypeOK'
    BY <1>2, <1>4, <1>5, <2>1, <2>3 DEF IInv, TypeOK, Agents
  <2>5. CandidateInHand' /\ Counting' /\ Admitted'
    BY <1>2, <2>1, NoneIsNoCandidate DEF IInv, TypeOK, CandidateInHand, Counting, Admitted,
       Early, Holding, Agents
  <2> QED
    BY <2>4, <2>5 DEF IInv
<1>8. CASE ~o.passed /\ candidate.source = "template"
  <2>1. /\ node' = "escalate_agent" /\ candidate' = None
        /\ generation' = generation /\ rejections' = rejections + 1
    BY <1>1, <1>8 DEF AfterCheck, CountRejection
  <2>2. rejections' \in 0..(MaxGenerationAttempts + 1)
    BY <1>2, <2>1, SwarmAssumption DEF IInv, TypeOK
  <2>3. TypeOK'
    BY <1>2, <1>4, <1>5, <2>1, <2>2 DEF IInv, TypeOK, Agents
  <2>4. CandidateInHand' /\ Counting' /\ Admitted'
    BY <1>2, <2>1, NoneIsNoCandidate DEF IInv, CandidateInHand, Counting, Admitted,
       Early, Holding, Agents
  <2> QED
    BY <2>3, <2>4 DEF IInv
<1> QED
  BY <1>3, <1>6, <1>7, <1>8

LEMMA EndAgents ==
    ASSUME IInv, RecordHintAgent \/ EscalateAgent
    PROVE  IInv'
<1>1. CASE RecordHintAgent
  <2>1. /\ node = "record_hint_agent" /\ node' = "end"
        /\ candidate \in Candidates /\ hintRows = <<>>
        /\ \E text, classified, call :
              hintRows' = Append(<<>>, [source |-> candidate.source, text |-> text,
                                        classified |-> classified, call |-> call])
    BY <1>1 DEF RecordHintAgent, IInv, CandidateInHand, Holding
  <2>2. /\ hintRows' # <<>>
        /\ \A i \in DOMAIN hintRows' : hintRows'[i].source = candidate.source
    BY <2>1
  <2>3. TypeOK'
    BY <1>1 DEF RecordHintAgent, rollout, routing, drafting, IInv, TypeOK
  <2>4. CandidateInHand' /\ Counting' /\ Admitted'
    BY <1>1, <2>1, <2>2 DEF RecordHintAgent, routing, drafting, IInv, CandidateInHand,
       Counting, Admitted, Early, Holding, Agents
  <2> QED
    BY <2>3, <2>4 DEF IInv
<1>2. CASE EscalateAgent
  <2>1. TypeOK'
    BY <1>2 DEF EscalateAgent, rollout, routing, drafting, IInv, TypeOK
  <2>2. CandidateInHand' /\ Counting' /\ Admitted'
    BY <1>2, NoneIsNoCandidate DEF EscalateAgent, routing, drafting, IInv, CandidateInHand,
       Counting, Admitted, Early, Holding, Agents
  <2> QED
    BY <2>1, <2>2 DEF IInv
<1> QED
  BY <1>1, <1>2

-----------------------------------------------------------------------------

LEMMA StepIInv == IInv /\ [Next]_vars => IInv'
<1> SUFFICES ASSUME IInv, [Next]_vars PROVE IInv'
  OBVIOUS
<1>1. CASE ChangeRollout
  <2>1. rolloutChanges' \in 0..MaxRolloutChanges
    BY <1>1, SwarmAssumption DEF ChangeRollout, IInv, TypeOK
  <2> QED
    BY <1>1, <2>1 DEF ChangeRollout, routing, drafting, records, IInv, TypeOK,
       CandidateInHand, Counting, Admitted
<1>2. CASE UNCHANGED vars
  BY <1>2 DEF vars, rollout, routing, drafting, records, IInv, TypeOK, CandidateInHand,
     Counting, Admitted
<1> QED
  BY <1>1, <1>2, EarlyAgents, ShadowAgents, GenerateAgents, LeakcheckStep, EndAgents
  DEF Next, Agent

THEOREM Inductive == Spec => []IInv
  BY InitIInv, StepIInv, PTL DEF Spec

\* Every variable keeps its type: no attempt reaches a generation beyond
\* MAX_GENERATION_ATTEMPTS + 1, whatever the models answer.
THEOREM TypeCorrect == Spec => []TypeOK
<1>1. IInv => TypeOK
  BY DEF IInv
<1> QED
  BY <1>1, Inductive, PTL

\* Generated words are shown only outside shadow mode and inside the rollout, for
\* every bound on generations and however the rollout moves meanwhile.
THEOREM BothGatesHold == Spec => []TwoGates
<1>1. IInv => TwoGates
  <2> SUFFICES ASSUME IInv, NEW i \in DOMAIN hintRows, hintRows[i].source = "generated"
               PROVE  ~deps.shadow /\ ~withheld
    BY DEF TwoGates
  <2>1. hintRows # <<>>
    OBVIOUS
  <2>2. node = "end"
    BY <2>1 DEF IInv, TypeOK, CandidateInHand
  <2>3. candidate \in Candidates /\ candidate.source = "generated"
    BY <2>1, <2>2 DEF IInv, CandidateInHand
  <2> QED
    BY <2>3 DEF IInv, Admitted
<1> QED
  BY <1>1, Inductive, PTL

-----------------------------------------------------------------------------
(* The swarm implements the guardrail *)

\* A step that keeps phase, candidate and drafts spent is a stutter of HintGuard.
LEMMA Stutters ==
    ASSUME Phase' = Phase, Kind' = Kind, Spent' = Spent
    PROVE  UNCHANGED Guard!guardVars
  BY DEF Guard!guardVars

LEMMA GuardInitHolds == Init => Guard!GuardInit
  BY DEF Init, Guard!GuardInit, Phase, Kind, Spent

LEMMA GuardStep == IInv /\ [Next]_vars => [Guard!GuardNext]_Guard!guardVars
<1> SUFFICES ASSUME IInv, [Next]_vars PROVE [Guard!GuardNext]_Guard!guardVars
  OBVIOUS
<1>1. CASE CarryScreen \/ Screen \/ DiagnoseAgent \/ RetrieveAgent
  <2>1. /\ node \in Early /\ node' \in Early
        /\ UNCHANGED <<candidate, generation>>
    BY <1>1 DEF CarryScreen, Screen, DiagnoseAgent, RetrieveAgent, Early, routing, drafting
  <2> QED
    BY <2>1, Stutters DEF Phase, Kind, Spent, Early
<1>2. CASE SkipShadow \/ ShadowOutage \/ ShadowReply
  <2>1. /\ node = "shadow_agent" /\ node' = "generate_agent"
        /\ candidate = None /\ candidate' = None
        /\ generation = 0 /\ generation' = 1
    BY <1>2 DEF SkipShadow, ShadowOutage, ShadowReply, StartGenerating, IInv,
       CandidateInHand, Counting, Early, Holding, Agents
  <2> QED
    BY <2>1, Stutters DEF Phase, Kind, Spent
<1>3. CASE GenerateTemplate \/ GenerateOutage
  <2>1. /\ node = "generate_agent" /\ candidate = None
        /\ generation \in Nat \ {0} /\ generation' = generation
        /\ \/ node' = "leakcheck_agent" /\ candidate' = Template
           \/ node' = "escalate_agent" /\ candidate' = None
    <3>1. PICK reason : OfferTemplate(reason)
      BY <1>3 DEF GenerateTemplate, GenerateOutage
    <3>2. node = "generate_agent" /\ generation' = generation
      BY <1>3 DEF GenerateTemplate, GenerateOutage, routing
    <3>3. candidate = None /\ generation \in Nat \ {0}
      BY <3>2, SwarmAssumption DEF IInv, TypeOK, CandidateInHand, Counting, Early, Holding,
         Agents
    <3> QED
      BY <3>1, <3>2, <3>3 DEF OfferTemplate
  <2>2. Template # None /\ Template.source = "template"
    BY NoneIsNoCandidate DEF Template, Candidates, TemplateText
  <2>3. CASE node' = "leakcheck_agent"
    BY <2>1, <2>2, <2>3 DEF Guard!GuardNext, Guard!DraftTemplate, Phase, Kind, Spent
  <2>4. CASE node' = "escalate_agent"
    BY <2>1, <2>4 DEF Guard!GuardNext, Guard!GiveUp, Phase, Kind, Spent
  <2> QED
    BY <2>1, <2>3, <2>4
<1>4. CASE GenerateReply
  <2>1. /\ node = "generate_agent" /\ node' = "leakcheck_agent"
        /\ candidate = None /\ candidate'.source = "generated" /\ candidate' # None
        /\ generation \in Nat \ {0} /\ generation' = generation
        /\ generation <= MaxGenerationAttempts
    <3>1. candidate' \in Candidates
      BY <1>4, LenProperties DEF GenerateReply, NextCall, Candidates, IInv, TypeOK
    <3> QED
      BY <1>4, <3>1, NoneIsNoCandidate, SwarmAssumption DEF GenerateReply, ForceTemplate,
         routing, IInv, TypeOK, CandidateInHand, Counting, Early, Holding, Agents
  <2> QED
    BY <2>1, SwarmAssumption DEF Guard!GuardNext, Guard!DraftFree, Phase, Kind, Spent
<1>5. CASE LeakcheckAgent
  <2>1. /\ node = "leakcheck_agent" /\ candidate \in Candidates /\ candidate # None
        /\ generation \in Nat \ {0}
    BY <1>5, NoneIsNoCandidate, SwarmAssumption DEF LeakcheckAgent, IInv, TypeOK,
       CandidateInHand, Counting, Early, Holding
  <2>2. \/ /\ node' = "record_hint_agent"
           /\ candidate' = candidate /\ generation' = generation
        \/ /\ node' = "generate_agent" /\ candidate.source = "generated"
           /\ candidate' = None /\ generation' = generation + 1
        \/ /\ node' = "escalate_agent" /\ candidate.source = "template"
           /\ candidate' = None /\ generation' = generation
    BY <1>5, <2>1 DEF LeakcheckAgent, AfterCheck, Candidates
  <2>3. CASE node' = "record_hint_agent"
    BY <2>1, <2>2, <2>3 DEF Guard!GuardNext, Guard!Clear, Phase, Kind, Spent
  <2>4. CASE node' = "generate_agent"
    BY <2>1, <2>2, <2>4 DEF Guard!GuardNext, Guard!Reject, Phase, Kind, Spent
  <2>5. CASE node' = "escalate_agent"
    BY <2>1, <2>2, <2>5 DEF Guard!GuardNext, Guard!Reject, Phase, Kind, Spent
  <2> QED
    BY <2>2, <2>3, <2>4, <2>5
<1>6. CASE RecordHintAgent
  <2>1. /\ node = "record_hint_agent" /\ node' = "end"
        /\ UNCHANGED <<candidate, generation>>
    BY <1>6 DEF RecordHintAgent, routing, drafting
  <2>2. hintRows' # <<>>
    <3>1. hintRows = <<>> /\ \E row : hintRows' = Append(hintRows, row)
      BY <1>6 DEF RecordHintAgent, IInv, CandidateInHand
    <3> QED
      BY <3>1
  <2> QED
    BY <2>1, <2>2 DEF Guard!GuardNext, Guard!Show, Phase, Kind, Spent
<1>7. CASE EscalateAgent
  <2>1. /\ node = "escalate_agent" /\ node' = "end" /\ hintRows' = <<>>
        /\ UNCHANGED <<candidate, generation>>
    BY <1>7 DEF EscalateAgent, routing, drafting, IInv, CandidateInHand
  <2> QED
    BY <2>1, Stutters DEF Phase, Kind, Spent
<1>8. CASE ChangeRollout \/ UNCHANGED vars
  <2>1. UNCHANGED <<node, candidate, generation, hintRows>>
    BY <1>8 DEF ChangeRollout, vars, routing, drafting, records
  <2> QED
    BY <2>1, Stutters DEF Phase, Kind, Spent
<1> QED
  BY <1>1, <1>2, <1>3, <1>4, <1>5, <1>6, <1>7, <1>8 DEF Next, Agent

\* Every behaviour of the swarm is one the guardrail allows: words are shown only
\* from a cleared draft, at most MAX_GENERATION_ATTEMPTS free drafts are spent, and
\* a rejected template is not tried again.
THEOREM Implements == Spec => ImplementsGuard
  BY GuardInitHolds, GuardStep, Inductive, PTL DEF Spec, ImplementsGuard, Guard!GuardSpec
-----------------------------------------------------------------------------
(* What a timeline holds: the events of each kind, and how many *)

States == {"awaiting_answer", "diagnosing", "retrieving_curriculum", "generating_hint",
           "leak_checking", "awaiting_student_retry", "escalated"}
Reasons == {"outage", "shadow mode", "rollout", "leak failures", "no model"}
EventTypes == {"state_changed", "stage_started", "stage_completed", "stage_failed",
               "fallback_used", "safety_flag", "hint_shown", "escalated"}
AnyEvent == [type : EventTypes,
             stage : Stages \cup States \cup {"generated", "template", ""},
             note : States \cup Reasons \cup {""},
             call : Nat]

Tally(s, K) == Cardinality({i \in DOMAIN s : s[i] \in K})
Screens == {Started("safety_screen")}
Rejections == {e \in AnyEvent : IsRejection(e)}

\* What a batch of events adds to the timeline: the screens it starts, the
\* rejections and the fallbacks it reports.  Only the last batch shows a hint.
Adds(batch, screens, rejected, fallbacks) ==
    /\ batch \in Seq(AnyEvent)
    /\ Tally(batch, Screens) = screens
    /\ Tally(batch, Rejections) = rejected
    /\ {e \in Range(batch) : e.type = "fallback_used"} = fallbacks
Says(batch, screens, rejected, fallbacks) ==
    /\ Adds(batch, screens, rejected, fallbacks)
    /\ \A e \in Range(batch) : ~IsHintShown(e)

LEMMA TallyOfConcat ==
    ASSUME NEW S, NEW s \in Seq(S), NEW t \in Seq(S), NEW K
    PROVE  /\ Tally(s \o t, K) = Tally(s, K) + Tally(t, K)
           /\ Tally(s, K) \in Nat
<1> DEFINE A == {i \in DOMAIN s : s[i] \in K}
           B == {i \in DOMAIN t : t[i] \in K}
           C == {i \in DOMAIN (s \o t) : (s \o t)[i] \in K}
           D == {i + Len(s) : i \in B}
<1>1. /\ Len(s) \in Nat /\ DOMAIN s = 1..Len(s)
      /\ Len(t) \in Nat /\ DOMAIN t = 1..Len(t)
    BY LenProperties
<1>2. /\ DOMAIN (s \o t) = 1..(Len(s) + Len(t))
      /\ \A i \in 1..Len(s) : (s \o t)[i] = s[i]
      /\ \A i \in 1..Len(t) : (s \o t)[i + Len(s)] = t[i]
    <2>1. s \o t \in Seq(S) /\ Len(s \o t) = Len(s) + Len(t)
        BY ConcatProperties
    <2>2. \A i \in 1 .. Len(s) + Len(t) :
            (s \o t)[i] = IF i <= Len(s) THEN s[i] ELSE t[i - Len(s)]
        BY ConcatProperties
    <2> QED
        BY <1>1, <2>1, <2>2, LenProperties
<1>3. IsFiniteSet(A) /\ IsFiniteSet(B)
    <2>1. IsFiniteSet(1..Len(s)) /\ IsFiniteSet(1..Len(t))
        BY <1>1, FS_Interval
    <2>2. A \in SUBSET (1..Len(s)) /\ B \in SUBSET (1..Len(t))
        BY <1>1
    <2> QED
        BY <2>1, <2>2, FS_Subset
<1>4. C = A \cup D
    <2>1. ASSUME NEW i \in C, i \notin A PROVE i \in D
        <3>1. i - Len(s) \in 1..Len(t) /\ (i - Len(s)) + Len(s) = i
            BY <1>1, <1>2, <2>1
        <3> QED
            BY <1>1, <1>2, <2>1, <3>1
    <2>2. A \subseteq C /\ D \subseteq C
        BY <1>1, <1>2
    <2> QED
        BY <2>1, <2>2
<1>5. A \cap D = {}
    BY <1>1
<1>6. IsFiniteSet(D) /\ Cardinality(D) = Cardinality(B)
    <2> DEFINE f == [i \in B |-> i + Len(s)]
    <2>1. f \in Bijection(B, D)
        <3>1. f \in Surjection(B, D)
            BY Fun_IsSurj
        <3>2. \A i, j \in B : f[i] = f[j] => i = j
            BY <1>1
        <3> QED
            BY <3>1, <3>2, Fun_IsBij
    <2> QED
        BY <1>3, <2>1, FS_Bijection DEF ExistsBijection
<1> QED
    <2>1. Cardinality(A \cap D) = 0
        BY <1>5, FS_EmptySet
    <2>2. Cardinality(A \cup D) = Cardinality(A) + Cardinality(D) - Cardinality(A \cap D)
        BY <1>3, <1>6, FS_Union
    <2>3. Cardinality(A) \in Nat /\ Cardinality(B) \in Nat
        BY <1>3, FS_CardinalityType
    <2>4. Tally(s, K) = Cardinality(A) /\ Tally(t, K) = Cardinality(B)
          /\ Tally(s \o t, K) = Cardinality(C)
        BY DEF Tally
    <2> HIDE DEF A, B, C, D
    <2> QED
        BY <1>4, <1>6, <2>1, <2>2, <2>3, <2>4

LEMMA TallyOfOne ==
    ASSUME NEW e, NEW K
    PROVE  Tally(<<e>>, K) = IF e \in K THEN 1 ELSE 0
<1>1. CASE e \in K
    <2>1. {i \in DOMAIN <<e>> : <<e>>[i] \in K} = {1}
        BY <1>1
    <2>2. Cardinality({1}) = 1
        BY FS_Singleton
    <2> QED
        BY <1>1, <2>1, <2>2 DEF Tally
<1>2. CASE e \notin K
    <2>1. {i \in DOMAIN <<e>> : <<e>>[i] \in K} = {}
        BY <1>2
    <2> QED
        BY <1>2, <2>1, FS_EmptySet DEF Tally
<1> QED
    BY <1>1, <1>2

LEMMA TallyOfNone ==
    ASSUME NEW K
    PROVE  Tally(<<>>, K) = 0
<1>1. {i \in DOMAIN <<>> : <<>>[i] \in K} = {}
    OBVIOUS
<1> QED
    BY <1>1, FS_EmptySet DEF Tally

LEMMA PairIs ==
    ASSUME NEW S, NEW a \in S, NEW b \in S
    PROVE  <<a, b>> = <<a>> \o <<b>>
<1> DEFINE s == <<a>>
           t == <<b>>
           p == <<a, b>>
<1>1. /\ s \in Seq(S) /\ t \in Seq(S) /\ Len(s) = 1 /\ Len(t) = 1
      /\ s[1] = a /\ t[1] = b
      /\ p \in Seq(S) /\ Len(p) = 2 /\ p[1] = a /\ p[2] = b
    OBVIOUS
<1> HIDE DEF s, t, p
<1>2. s \o t \in Seq(S) /\ Len(s \o t) = 2 /\ (s \o t)[1] = a /\ (s \o t)[2] = b
    BY <1>1, ConcatProperties
<1>3. p = s \o t
    BY <1>1, <1>2, SeqEqual
<1> QED
    BY <1>3 DEF s, t, p

LEMMA TripleIs ==
    ASSUME NEW S, NEW a \in S, NEW b \in S, NEW c \in S
    PROVE  <<a, b, c>> = <<a, b>> \o <<c>>
<1> DEFINE s == <<a, b>>
           t == <<c>>
           p == <<a, b, c>>
<1>1. /\ s \in Seq(S) /\ t \in Seq(S) /\ Len(s) = 2 /\ Len(t) = 1
      /\ s[1] = a /\ s[2] = b /\ t[1] = c
      /\ p \in Seq(S) /\ Len(p) = 3 /\ p[1] = a /\ p[2] = b /\ p[3] = c
    OBVIOUS
<1> HIDE DEF s, t, p
<1>2. /\ s \o t \in Seq(S) /\ Len(s \o t) = 3
      /\ (s \o t)[1] = a /\ (s \o t)[2] = b /\ (s \o t)[3] = c
    <2>1. /\ s \o t \in Seq(S) /\ Len(s \o t) = Len(s) + Len(t)
          /\ \A i \in 1..Len(s) + Len(t) :
                (s \o t)[i] = IF i <= Len(s) THEN s[i] ELSE t[i - Len(s)]
        BY <1>1, ConcatProperties
    <2>2. Len(s) + Len(t) = 3 /\ 3 - Len(s) = 1
        BY <1>1
    <2> QED
        BY <1>1, <2>1, <2>2
<1>3. p = s \o t
    BY <1>1, <1>2, SeqEqual
<1> QED
    BY <1>3 DEF s, t, p

LEMMA SaysConcat ==
    ASSUME NEW b1, NEW n1, NEW m1, NEW F1, Says(b1, n1, m1, F1),
           NEW b2, NEW n2, NEW m2, NEW F2, Says(b2, n2, m2, F2)
    PROVE  Says(b1 \o b2, n1 + n2, m1 + m2, F1 \cup F2)
<1>1. b1 \in Seq(AnyEvent) /\ b2 \in Seq(AnyEvent)
    BY DEF Says, Adds
<1>2. b1 \o b2 \in Seq(AnyEvent)
    BY <1>1, ConcatProperties
<1>3. Tally(b1 \o b2, Screens) = n1 + n2 /\ Tally(b1 \o b2, Rejections) = m1 + m2
    BY <1>1, TallyOfConcat DEF Says, Adds
<1>4. Range(b1 \o b2) = Range(b1) \cup Range(b2)
    BY <1>1, RangeConcatenation
<1> QED
    BY <1>2, <1>3, <1>4 DEF Says, Adds

LEMMA SaysOne ==
    ASSUME NEW e \in AnyEvent, e.type # "hint_shown"
    PROVE  Says(<<e>>, IF e = Started("safety_screen") THEN 1 ELSE 0,
                IF e.stage = "leak_check" /\ e.type = "stage_failed" THEN 1 ELSE 0,
                IF e.type = "fallback_used" THEN {e} ELSE {})
<1>1. Range(<<e>>) = {e}
    BY DEF Range
<1>2. <<e>> \in Seq(AnyEvent)
    OBVIOUS
<1> QED
    BY <1>1, <1>2, TallyOfOne DEF Says, Adds, Screens, Rejections, IsRejection, IsHintShown

LEMMA SaysNothing == Says(<<>>, 0, 0, {})
<1>1. Range(<<>>) = {} /\ <<>> \in Seq(AnyEvent)
    BY DEF Range
<1> QED
    BY <1>1, TallyOfNone DEF Says, Adds

\* The events of the swarm, one at a time.
LEMMA SaysStarted ==
    ASSUME NEW stage \in Stages
    PROVE  /\ Started(stage) \in AnyEvent
           /\ Says(<<Started(stage)>>, IF stage = "safety_screen" THEN 1 ELSE 0, 0, {})
<1>1. Started(stage) \in AnyEvent
    BY DEF Started, Ev, Event, AnyEvent, EventTypes, Stages, States, Reasons
<1>2. /\ Started(stage).type = "stage_started" /\ Started(stage).stage = stage
      /\ Started("safety_screen").stage = "safety_screen"
    BY DEF Started, Ev, Event
<1> QED
    BY <1>1, <1>2, SaysOne

LEMMA SaysChanged ==
    ASSUME NEW frm \in States, NEW to \in States
    PROVE  /\ Changed(frm, to) \in AnyEvent
           /\ Says(<<Changed(frm, to)>>, 0, 0, {})
<1>1. Changed(frm, to) \in AnyEvent
    BY DEF Changed, Ev, Event, AnyEvent, EventTypes, Stages, States, Reasons
<1>2. Changed(frm, to).type = "state_changed" /\ Started("safety_screen").type = "stage_started"
    BY DEF Changed, Started, Ev, Event
<1> QED
    BY <1>1, <1>2, SaysOne

LEMMA SaysCompleted ==
    ASSUME NEW stage \in Stages, NEW call \in Nat
    PROVE  /\ Completed(stage, call) \in AnyEvent
           /\ Says(<<Completed(stage, call)>>, 0, 0, {})
<1>1. Completed(stage, call) \in AnyEvent
    BY DEF Completed, Event, AnyEvent, EventTypes, Stages, States, Reasons
<1>2. /\ Completed(stage, call).type = "stage_completed"
      /\ Started("safety_screen").type = "stage_started"
    BY DEF Completed, Started, Ev, Event
<1> QED
    BY <1>1, <1>2, SaysOne

LEMMA SaysFailed ==
    ASSUME NEW stage \in Stages
    PROVE  /\ Failed(stage, "") \in AnyEvent
           /\ Says(<<Failed(stage, "")>>, 0, IF stage = "leak_check" THEN 1 ELSE 0, {})
<1>1. Failed(stage, "") \in AnyEvent
    BY DEF Failed, Ev, Event, AnyEvent, EventTypes, Stages, States, Reasons
<1>2. /\ Failed(stage, "").type = "stage_failed" /\ Failed(stage, "").stage = stage
      /\ Started("safety_screen").type = "stage_started"
    BY DEF Failed, Started, Ev, Event
<1> QED
    BY <1>1, <1>2, SaysOne

LEMMA SaysFallback ==
    ASSUME NEW stage \in Stages, NEW reason \in Reasons \cup {""}
    PROVE  /\ Fallback(stage, reason) \in AnyEvent
           /\ Says(<<Fallback(stage, reason)>>, 0, 0, {Fallback(stage, reason)})
<1>1. Fallback(stage, reason) \in AnyEvent
    BY DEF Fallback, Ev, Event, AnyEvent, EventTypes, Stages, States, Reasons
<1>2. /\ Fallback(stage, reason).type = "fallback_used"
      /\ Started("safety_screen").type = "stage_started"
    BY DEF Fallback, Started, Ev, Event
<1> QED
    BY <1>1, <1>2, SaysOne

LEMMA SaysFlag ==
    ASSUME NEW call \in Nat
    PROVE  Says(<<Event("safety_flag", "safety_screen", "", call)>>, 0, 0, {})
<1> DEFINE e == Event("safety_flag", "safety_screen", "", call)
<1>1. e \in AnyEvent
    BY DEF Event, AnyEvent, EventTypes, Stages, States, Reasons
<1>2. e.type = "safety_flag" /\ Started("safety_screen").type = "stage_started"
    BY DEF Started, Ev, Event
<1> QED
    BY <1>1, <1>2, SaysOne

\* The batches the agents emit.
LEMMA ScreenEventsSay ==
    ASSUME NEW o, NEW call \in Nat
    PROVE  Says(ScreenEvents(o, call), 1, 0,
                IF o.fallback THEN {Fallback("safety_screen", "")} ELSE {})
<1> DEFINE A == <<Started("safety_screen")>>
           B == IF o.flagged THEN <<Event("safety_flag", "safety_screen", "", call)>>
                ELSE <<>>
           C == IF o.fallback THEN <<Fallback("safety_screen", "")>> ELSE <<>>
           D == IF o.flagged \/ o.fallback THEN <<>>
                ELSE <<Completed("safety_screen", call)>>
           F == IF o.fallback THEN {Fallback("safety_screen", "")} ELSE {}
<1>1. Says(A, 1, 0, {})
    BY SaysStarted DEF Stages
<1>2. Says(B, 0, 0, {})
    BY SaysFlag, SaysNothing
<1>3. Says(C, 0, 0, F)
    BY SaysFallback, SaysNothing DEF Stages
<1>4. Says(D, 0, 0, {})
    BY SaysCompleted, SaysNothing DEF Stages
<1>5. ScreenEvents(o, call) = A \o B \o C \o D
    BY DEF ScreenEvents
<1> HIDE DEF A, B, C, D, F
<1>6. Says(A \o B, 1 + 0, 0 + 0, {} \cup {})
    BY <1>1, <1>2, SaysConcat
<1>7. Says(A \o B \o C, 1 + 0 + 0, 0 + 0 + 0, {} \cup {} \cup F)
    BY <1>3, <1>6, SaysConcat
<1>8. Says(A \o B \o C \o D, 1 + 0 + 0 + 0, 0 + 0 + 0 + 0, {} \cup {} \cup F \cup {})
    BY <1>4, <1>7, SaysConcat
<1>9. 1 + 0 + 0 + 0 = 1 /\ 0 + 0 + 0 + 0 = 0 /\ {} \cup {} \cup F \cup {} = F
    OBVIOUS
<1>10. Says(A \o B \o C \o D, 1, 0, F)
    BY <1>8, <1>9
<1> QED
    BY <1>5, <1>10 DEF F

LEMMA LeakOutcomesFallBackOpen == \A o \in LeakOutcomes : o.fallback => o.passed
<1> DEFINE Judged == [passed : BOOLEAN, ran : {TRUE}, fallback : {FALSE}, asked : {TRUE}]
<1>1. ASSUME NEW o \in Judged PROVE ~o.fallback
    OBVIOUS
<1>2. ASSUME NEW o \in LeakOutcomes, o \notin Judged PROVE o.fallback => o.passed
    <2>1. PICK p \in BOOLEAN, f \in BOOLEAN, a \in BOOLEAN :
            /\ o = [passed |-> p, ran |-> FALSE, fallback |-> f, asked |-> a]
            /\ f => p
        BY <1>2, Zenon DEF LeakOutcomes
    <2> QED
        BY <2>1
<1> QED
    BY <1>1, <1>2

LEMMA LeakEventsSay ==
    ASSUME NEW o \in LeakOutcomes, NEW call \in Nat
    PROVE  Says(LeakEvents(o, call), 0, IF o.passed THEN 0 ELSE 1,
                IF o.fallback THEN {Fallback("leak_check", "")} ELSE {})
<1> DEFINE e == IF o.fallback THEN Fallback("leak_check", "")
                ELSE IF o.passed THEN Completed("leak_check", call)
                ELSE Failed("leak_check", "")
           a == Started("leak_check")
           m == IF o.passed THEN 0 ELSE 1
           F == IF o.fallback THEN {Fallback("leak_check", "")} ELSE {}
<1>1. a \in AnyEvent /\ Says(<<a>>, 0, 0, {})
    BY SaysStarted DEF Stages
<1>2. e \in AnyEvent /\ Says(<<e>>, 0, m, F)
    <2>1. CASE o.fallback
        BY <2>1, SaysFallback, LeakOutcomesFallBackOpen DEF Stages
    <2>2. CASE ~o.fallback /\ o.passed
        BY <2>2, SaysCompleted DEF Stages
    <2>3. CASE ~o.fallback /\ ~o.passed
        BY <2>3, SaysFailed DEF Stages
    <2> QED
        BY <2>1, <2>2, <2>3
<1>3. LeakEvents(o, call) = <<a, e>>
    BY DEF LeakEvents
<1>4. m \in {0, 1}
    OBVIOUS
<1> HIDE DEF a, e, m, F
<1>5. <<a, e>> = <<a>> \o <<e>>
    BY <1>1, <1>2, PairIs
<1>6. Says(<<a>> \o <<e>>, 0 + 0, 0 + m, {} \cup F)
    BY <1>1, <1>2, SaysConcat
<1>7. 0 + 0 = 0 /\ 0 + m = m /\ {} \cup F = F
    BY <1>4
<1>8. Says(<<a, e>>, 0, m, F)
    BY <1>5, <1>6, <1>7
<1> QED
    BY <1>3, <1>8 DEF m, F

LEMMA TemplateEventsSay ==
    ASSUME NEW reason \in Reasons
    PROVE  Says(TemplateEvents(reason), 0, 0, {Fallback("generate_hint", reason)})
<1> DEFINE A == <<Started("generate_hint")>>
           B == IF deps.template THEN <<>> ELSE <<Failed("generate_hint", "")>>
           C == <<Fallback("generate_hint", reason)>>
           F == {Fallback("generate_hint", reason)}
<1>1. Says(A, 0, 0, {})
    BY SaysStarted DEF Stages
<1>2. Says(B, 0, 0, {})
    BY SaysFailed, SaysNothing DEF Stages
<1>3. Says(C, 0, 0, F)
    BY SaysFallback DEF Stages
<1>4. TemplateEvents(reason) = A \o B \o C
    BY DEF TemplateEvents
<1> HIDE DEF A, B, C, F
<1>5. Says(A \o B, 0 + 0, 0 + 0, {} \cup {})
    BY <1>1, <1>2, SaysConcat
<1>6. Says(A \o B \o C, 0 + 0 + 0, 0 + 0 + 0, {} \cup {} \cup F)
    BY <1>3, <1>5, SaysConcat
<1>7. 0 + 0 + 0 = 0 /\ {} \cup {} \cup F = F
    OBVIOUS
<1>8. Says(A \o B \o C, 0, 0, F)
    BY <1>6, <1>7
<1> QED
    BY <1>4, <1>8 DEF F

\* A batch followed by the state change that hands control over says the same.
LEMMA SaysThenChanged ==
    ASSUME NEW batch, NEW n \in Nat, NEW m \in Nat, NEW F, Says(batch, n, m, F),
           NEW frm \in States, NEW to \in States
    PROVE  Says(batch \o <<Changed(frm, to)>>, n, m, F)
<1>1. Says(batch \o <<Changed(frm, to)>>, n + 0, m + 0, F \cup {})
    BY SaysChanged, SaysConcat
<1>2. n + 0 = n /\ m + 0 = m /\ F \cup {} = F
    OBVIOUS
<1> QED
    BY <1>1, <1>2

\* Two or three events in a row that report no screen and no rejection.
LEMMA SaysPair ==
    ASSUME NEW a \in AnyEvent, NEW b \in AnyEvent, NEW F, NEW G,
           Says(<<a>>, 0, 0, F), Says(<<b>>, 0, 0, G)
    PROVE  Says(<<a, b>>, 0, 0, F \cup G)
<1>1. Says(<<a>> \o <<b>>, 0 + 0, 0 + 0, F \cup G)
    BY SaysConcat
<1>2. <<a, b>> = <<a>> \o <<b>> /\ 0 + 0 = 0
    BY PairIs
<1> QED
    BY <1>1, <1>2

LEMMA SaysTriple ==
    ASSUME NEW a \in AnyEvent, NEW b \in AnyEvent, NEW c \in AnyEvent,
           NEW F, NEW G, NEW H,
           Says(<<a>>, 0, 0, F), Says(<<b>>, 0, 0, G), Says(<<c>>, 0, 0, H)
    PROVE  Says(<<a, b, c>>, 0, 0, F \cup G \cup H)
<1>1. Says(<<a, b>> \o <<c>>, 0 + 0, 0 + 0, (F \cup G) \cup H)
    BY SaysPair, SaysConcat
<1>2. <<a, b, c>> = <<a, b>> \o <<c>> /\ 0 + 0 = 0
    BY TripleIs
<1> QED
    BY <1>1, <1>2

\* What emitting a batch does to the timeline.
LEMMA Emitted ==
    ASSUME events \in Seq(AnyEvent), NEW batch, Emit(batch),
           NEW n, NEW m, NEW F, Adds(batch, n, m, F)
    PROVE  /\ events' \in Seq(AnyEvent)
           /\ Tally(events', Screens) = Tally(events, Screens) + n
           /\ Tally(events', Rejections) = Tally(events, Rejections) + m
           /\ Range(events') = Range(events) \cup Range(batch)
           /\ Len(events') >= Len(events)
           /\ \A i \in DOMAIN events : events'[i] = events[i]
           /\ \A i \in DOMAIN events' \ DOMAIN events : events'[i] \in Range(batch)
<1>1. batch \in Seq(AnyEvent) /\ events' = events \o batch
    BY DEF Emit, Adds
<1>2. /\ events' \in Seq(AnyEvent) /\ Len(events') = Len(events) + Len(batch)
      /\ \A i \in 1..Len(events) + Len(batch) :
            events'[i] = IF i <= Len(events) THEN events[i] ELSE batch[i - Len(events)]
    BY <1>1, ConcatProperties
<1>3. /\ Len(events) \in Nat /\ Len(batch) \in Nat
      /\ DOMAIN events = 1..Len(events) /\ DOMAIN batch = 1..Len(batch)
      /\ DOMAIN events' = 1..Len(events')
    BY <1>1, <1>2, LenProperties
<1>4. Range(events') = Range(events) \cup Range(batch)
    BY <1>1, RangeConcatenation
<1>5. /\ Tally(events', Screens) = Tally(events, Screens) + n
      /\ Tally(events', Rejections) = Tally(events, Rejections) + m
    BY <1>1, TallyOfConcat DEF Adds
<1>6. ASSUME NEW i \in DOMAIN events' \ DOMAIN events PROVE events'[i] \in Range(batch)
    <2>1. i - Len(events) \in DOMAIN batch /\ events'[i] = batch[i - Len(events)]
        BY <1>2, <1>3
    <2> QED
        BY <2>1 DEF Range
<1> QED
    BY <1>2, <1>3, <1>4, <1>5, <1>6

LEMMA Extends ==
    ASSUME NEW S, NEW s \in Seq(S), NEW t \in Seq(S)
    PROVE  \A i \in DOMAIN s : i \in DOMAIN (s \o t) /\ (s \o t)[i] = s[i]
<1>1. /\ s \o t \in Seq(S) /\ Len(s \o t) = Len(s) + Len(t)
      /\ \A i \in 1..Len(s) + Len(t) :
            (s \o t)[i] = IF i <= Len(s) THEN s[i] ELSE t[i - Len(s)]
    BY ConcatProperties
<1>2. /\ Len(s) \in Nat /\ DOMAIN s = 1..Len(s) /\ Len(t) \in Nat
      /\ DOMAIN (s \o t) = 1..Len(s \o t)
    BY <1>1, LenProperties
<1> QED
    BY <1>1, <1>2

LEMMA LastOfPair ==
    ASSUME NEW S, NEW s \in Seq(S), NEW a \in S, NEW b \in S
    PROVE  /\ Len(s \o <<a, b>>) = Len(s) + 2
           /\ (s \o <<a, b>>)[Len(s) + 1] = a
           /\ (s \o <<a, b>>)[Len(s) + 2] = b
<1> DEFINE t == <<a, b>>
<1>1. t \in Seq(S) /\ Len(t) = 2 /\ t[1] = a /\ t[2] = b
    OBVIOUS
<1> HIDE DEF t
<1>2. /\ Len(s \o t) = Len(s) + Len(t)
      /\ \A i \in 1..Len(s) + Len(t) :
            (s \o t)[i] = IF i <= Len(s) THEN s[i] ELSE t[i - Len(s)]
    BY <1>1, ConcatProperties
<1>3. Len(s) \in Nat
    BY LenProperties
<1>4. Len(s) + 1 - Len(s) = 1 /\ Len(s) + 2 - Len(s) = 2
    BY <1>3
<1>5. /\ Len(s \o t) = Len(s) + 2 /\ (s \o t)[Len(s) + 1] = a /\ (s \o t)[Len(s) + 2] = b
    BY <1>1, <1>2, <1>3, <1>4
<1> QED
    BY <1>5 DEF t

\* What the ledger takes: one call of the stage, if it was asked.
LEMMA Billed ==
    ASSUME calls \in Seq(Stages), NEW stage \in Stages, NEW asked, Ledger(stage, asked)
    PROVE  /\ Tally(calls', {"generate_hint"})
                = Tally(calls, {"generate_hint"})
                  + (IF asked /\ stage = "generate_hint" THEN 1 ELSE 0)
           /\ Tally(calls, {"generate_hint"}) \in Nat
           /\ \A i \in DOMAIN calls : i \in DOMAIN calls' /\ calls'[i] = calls[i]
           /\ asked => NextCall \in DOMAIN calls' /\ calls'[NextCall] = stage
<1>1. <<stage>> \in Seq(Stages) /\ Len(calls) \in Nat /\ DOMAIN calls = 1..Len(calls)
    BY LenProperties
<1>2. Tally(calls, {"generate_hint"}) \in Nat
    BY <1>1, TallyOfConcat
<1>3. CASE asked
    <2>1. calls' = calls \o <<stage>>
        BY <1>3, AppendIsConcat DEF Ledger
    <2>2. Tally(calls \o <<stage>>, {"generate_hint"})
            = Tally(calls, {"generate_hint"}) + Tally(<<stage>>, {"generate_hint"})
        <3> DEFINE s == <<stage>>
                   K == {"generate_hint"}
        <3>1. s \in Seq(Stages)
            BY <1>1
        <3> HIDE DEF s, K
        <3>2. Tally(calls \o s, K) = Tally(calls, K) + Tally(s, K)
            BY <3>1, TallyOfConcat
        <3> QED
            BY <3>2 DEF s, K
    <2>3. Tally(<<stage>>, {"generate_hint"}) = IF stage = "generate_hint" THEN 1 ELSE 0
        BY TallyOfOne
    <2>4. /\ calls' \in Seq(Stages) /\ Len(calls') = Len(calls) + 1
          /\ \A i \in 1..Len(calls) : calls'[i] = calls[i]
          /\ calls'[Len(calls) + 1] = stage
        BY <1>3, AppendProperties DEF Ledger
    <2>5. DOMAIN calls' = 1..Len(calls')
        BY <2>4, LenProperties
    <2> QED
        BY <1>1, <1>2, <1>3, <2>1, <2>2, <2>3, <2>4, <2>5 DEF NextCall
<1>4. CASE ~asked
    BY <1>2, <1>4 DEF Ledger
<1> QED
    BY <1>3, <1>4

-----------------------------------------------------------------------------
(* The record of an attempt: what holds of it at every step *)

Has(stage) == \E e \in Range(events) : IsFallback(e, stage)
Bill == Tally(calls, {"generate_hint"})
Turned == IF shadowOutcome # None /\ ~shadowOutcome.passed THEN 1 ELSE 0

\* One screen in the timeline from the moment there is one, and one alert at most.
ScreenedOnce ==
    /\ alerts <= 1
    /\ node = "safety_agent" /\ ~CarriesScreen => alerts = 0
    /\ Tally(events, Screens) = IF node = "safety_agent" /\ ~CarriesScreen THEN 0 ELSE 1

\* The candidate about to be shown has been cleared since the last words.
Clearance ==
    /\ node # "end" => \A e \in Range(events) : ~IsHintShown(e)
    /\ node = "record_hint_agent" =>
        \E j \in DOMAIN events :
            /\ IsCleared(events[j])
            /\ \A k \in j..Len(events) : events[k].stage # "generate_hint"
    /\ ShownAfterClearance

\* The shadow candidate is there only if the shadow run was, before generation 1.
ShadowBefore ==
    /\ node \in Early => ~shadowRan /\ ~Has("generate_hint")
    /\ ~shadowRan => shadowOutcome = None
    /\ shadowRan => deps.shadow

RejectionsTallied == Tally(events, Rejections) = rejections + Turned

\* A stage is listed as degraded once the timeline shows its fallback.
Degradations ==
    /\ node = "safety_agent" =>
        /\ degraded = {}
        /\ Has("safety_screen") <=> deps.screened \in {"missing", "undelivered"}
    /\ node # "safety_agent" => ("safety_screen" \in degraded <=> Has("safety_screen"))
    /\ "diagnose" \in degraded <=> Has("diagnose")
    /\ "rerank" \in degraded <=> Has("rerank")
    /\ "leak_check" \in degraded => Has("leak_check")
    /\ "generate_hint" \in degraded <=> ~shadowRan /\ ~withheld /\ Has("generate_hint")

\* The generations billed so far, by the place the attempt has reached.
Billing ==
    /\ node \in Early => Bill = 0
    /\ node \notin Early /\ shadowRan => Bill = 1
    /\ node \notin Early /\ ~shadowRan =>
        /\ Bill <= MaxGenerationAttempts
        /\ withheld => Bill = 0
        /\ node = "generate_agent" => Bill = generation - 1
        /\ node = "leakcheck_agent" /\ candidate.source = "generated" => Bill = generation

\* The call id carried apart from the candidate is that of its words.
Attribution ==
    /\ candidate # None =>
        /\ candidate.text = llmCall
        /\ candidate.source = "generated" =>
            llmCall \in DOMAIN calls /\ calls[llmCall] = "generate_hint"
    /\ diagnosis # None /\ diagnosis.source = "llm" =>
        diagnosis.call \in DOMAIN calls /\ calls[diagnosis.call] = "diagnose"
    /\ \A i \in DOMAIN hintRows :
        /\ hintRows[i].call = hintRows[i].text
        /\ hintRows[i].source = "generated" => calls[hintRows[i].call] = "generate_hint"

\* What is stored is written in the last step, from what the attempt held then.
Storing ==
    /\ node # "end" => shadowRows = <<>> /\ result = None
    /\ node = "end" => result.degraded = degraded
    /\ ShadowPaired

RecordInv ==
    /\ events \in Seq(AnyEvent)
    /\ ScreenedOnce /\ Clearance /\ ShadowBefore /\ RejectionsTallied /\ Degradations
    /\ Billing /\ Attribution /\ Storing /\ TemplateReasonTrue

-----------------------------------------------------------------------------

LEMMA TallyZero ==
    ASSUME NEW S, NEW s \in Seq(S), NEW K, Tally(s, K) = 0
    PROVE  \A e \in Range(s) : e \notin K
<1> DEFINE A == {i \in DOMAIN s : s[i] \in K}
<1>1. IsFiniteSet(A)
    <2>1. DOMAIN s = 1..Len(s) /\ Len(s) \in Nat
        BY LenProperties
    <2>2. IsFiniteSet(1..Len(s)) /\ A \in SUBSET (1..Len(s))
        BY <2>1, FS_Interval
    <2> QED
        BY <2>2, FS_Subset
<1>2. A = {}
    BY <1>1, FS_EmptySet DEF Tally
<1> QED
    BY <1>2 DEF Range

\* The fallbacks the timeline shows after a batch: those before and those in it.
LEMMA HasGrows ==
    ASSUME events \in Seq(AnyEvent), NEW batch, Emit(batch),
           NEW n, NEW m, NEW F, Adds(batch, n, m, F), NEW stage
    PROVE  Has(stage)' <=> Has(stage) \/ \E e \in F : e.stage = stage
<1>1. Range(events') = Range(events) \cup Range(batch)
    BY Emitted
<1> QED
    BY <1>1 DEF Has, IsFallback, Adds

LEMMA QuietClearance ==
    ASSUME events \in Seq(AnyEvent), Clearance, node # "end", node' # "record_hint_agent",
           NEW batch, Emit(batch), NEW n, NEW m, NEW F, Says(batch, n, m, F)
    PROVE  Clearance'
<1>1. Range(events') = Range(events) \cup Range(batch)
    BY Emitted DEF Says
<1>2. \A e \in Range(events') : ~IsHintShown(e)
    BY <1>1 DEF Clearance, Says
<1>3. ShownAfterClearance'
    BY <1>2 DEF ShownAfterClearance, EventIndices, Range
<1> QED
    BY <1>2, <1>3 DEF Clearance

\* Rejections counted up to an event: a batch does not touch those before it, and one
\* without rejections leaves as many as the timeline held.
LEMMA EarlierRejections ==
    ASSUME events \in Seq(AnyEvent), NEW batch, Emit(batch),
           NEW n, NEW m, NEW F, Adds(batch, n, m, F), NEW i \in DOMAIN events'
    PROVE  /\ i \in DOMAIN events =>
                {j \in 1..i : IsRejection(events'[j])} = {j \in 1..i : IsRejection(events[j])}
           /\ i \notin DOMAIN events /\ m = 0 =>
                Cardinality({j \in 1..i : IsRejection(events'[j])})
                    = Tally(events, Rejections)
<1>1. /\ events' \in Seq(AnyEvent)
      /\ \A k \in DOMAIN events : events'[k] = events[k]
      /\ \A k \in DOMAIN events' \ DOMAIN events : events'[k] \in Range(batch)
      /\ Len(events') >= Len(events)
    BY Emitted
<1>2. /\ Len(events) \in Nat /\ DOMAIN events = 1..Len(events)
      /\ Len(events') \in Nat /\ DOMAIN events' = 1..Len(events')
    BY <1>1, LenProperties
<1>3. ASSUME i \in DOMAIN events
      PROVE  {j \in 1..i : IsRejection(events'[j])} = {j \in 1..i : IsRejection(events[j])}
    <2>1. 1..i \subseteq DOMAIN events
        BY <1>2, <1>3
    <2>2. \A j \in 1..i : events'[j] = events[j]
        BY <1>1, <2>1
    <2> QED
        BY <2>2 DEF IsRejection
<1>4. ASSUME i \notin DOMAIN events, m = 0
      PROVE  Cardinality({j \in 1..i : IsRejection(events'[j])}) = Tally(events, Rejections)
    <2>1. \A e \in Range(batch) : e \notin Rejections
        BY <1>4, TallyZero DEF Adds
    <2>2. \A j \in DOMAIN events' : events'[j] \in AnyEvent
        BY <1>1, <1>2, ElementOfSeq
    <2>3. \A j \in DOMAIN events' : IsRejection(events'[j]) <=> events'[j] \in Rejections
        BY <2>2 DEF Rejections
    <2>4. DOMAIN events \subseteq 1..i /\ 1..i \subseteq DOMAIN events'
        BY <1>2, <1>4
    <2>5. \A j \in 1..i : j \notin DOMAIN events => events'[j] \notin Rejections
        BY <1>1, <2>1, <2>4
    <2>6. {j \in 1..i : IsRejection(events'[j])} = {j \in DOMAIN events : events[j] \in Rejections}
        BY <1>1, <2>3, <2>4, <2>5
    <2> QED
        BY <2>6 DEF Tally
<1> QED
    BY <1>3, <1>4

\* Reasons given before stay true, if the new ones are and what they speak of holds still.
LEMMA ReasonsKept ==
    ASSUME events \in Seq(AnyEvent), TemplateReasonTrue,
           NEW batch, Emit(batch), NEW n, NEW m, NEW F, Adds(batch, n, m, F),
           deps' = deps,
           ~Has("generate_hint") \/ (withheld' = withheld /\ shadowRan' = shadowRan),
           \A e \in F : e.stage = "generate_hint" =>
                /\ e.note = "leak failures" =>
                    m = 0 /\ Tally(events, Rejections) = MaxGenerationAttempts
                /\ e.note = "rollout" => withheld' /\ ~shadowRan'
                /\ e.note = "shadow mode" => deps.shadow
                /\ e.note = "no model" => ~deps.llm
    PROVE  TemplateReasonTrue'
<1> SUFFICES ASSUME NEW i \in DOMAIN events', IsFallback(events'[i], "generate_hint")
             PROVE  /\ events'[i].note = "leak failures" =>
                        Cardinality({j \in 1..i : IsRejection(events'[j])})
                            = MaxGenerationAttempts
                    /\ events'[i].note = "rollout" => withheld' /\ ~shadowRan'
                    /\ events'[i].note = "shadow mode" => deps'.shadow
                    /\ events'[i].note = "no model" => ~deps'.llm
    BY DEF TemplateReasonTrue
<1> DEFINE before == {j \in 1..i : IsRejection(events[j])}
           after == {j \in 1..i : IsRejection(events'[j])}
<1>1. /\ i \in DOMAIN events => after = before
      /\ i \notin DOMAIN events /\ m = 0 => Cardinality(after) = Tally(events, Rejections)
    BY EarlierRejections
<1>2. i \in DOMAIN events => events'[i] = events[i]
    BY Emitted
<1>3. i \notin DOMAIN events => events'[i] \in Range(batch)
    BY Emitted
<1>4. CASE i \in DOMAIN events
    <2>1. events'[i] = events[i] /\ IsFallback(events[i], "generate_hint")
        BY <1>2, <1>4
    <2>2. Has("generate_hint")
        BY <1>4, <2>1 DEF Has, Range
    <2>3. /\ events[i].note = "leak failures" => Cardinality(before) = MaxGenerationAttempts
          /\ events[i].note = "rollout" => withheld /\ ~shadowRan
          /\ events[i].note = "shadow mode" => deps.shadow
          /\ events[i].note = "no model" => ~deps.llm
        BY <1>4, <2>1 DEF TemplateReasonTrue
    <2> HIDE DEF before, after
    <2>4. /\ events'[i].note = "leak failures" => Cardinality(after) = MaxGenerationAttempts
          /\ events'[i].note = "rollout" => withheld' /\ ~shadowRan'
          /\ events'[i].note = "shadow mode" => deps'.shadow
          /\ events'[i].note = "no model" => ~deps'.llm
        <3>1. after = before /\ events'[i].note = events[i].note
            BY <1>1, <1>4, <2>1
        <3>2. withheld' = withheld /\ shadowRan' = shadowRan
            BY <2>2
        <3>3. events'[i].note = "leak failures" => Cardinality(after) = MaxGenerationAttempts
            BY <2>3, <3>1
        <3>4. /\ events'[i].note = "rollout" => withheld' /\ ~shadowRan'
              /\ events'[i].note = "shadow mode" => deps'.shadow
              /\ events'[i].note = "no model" => ~deps'.llm
            BY <2>3, <3>1, <3>2, Zenon
        <3> QED
            BY <3>3, <3>4
    <2> QED
        BY <2>4 DEF after
<1>5. CASE i \notin DOMAIN events
    <2>1. events'[i] \in F /\ events'[i].stage = "generate_hint"
        BY <1>3, <1>5 DEF Adds, IsFallback
    <2> QED
        BY <1>1, <1>5, <2>1
<1> QED
    BY <1>4, <1>5

\* Before the generate agent there is no template to give a reason for.
LEMMA ReasonsStay ==
    ASSUME events \in Seq(AnyEvent), TemplateReasonTrue, ShadowBefore, deps' = deps,
           \/ node \in Early
           \/ withheld' = withheld /\ shadowRan' = shadowRan,
           NEW batch, Emit(batch), NEW n, NEW m, NEW F, Adds(batch, n, m, F),
           \A e \in F : e.stage # "generate_hint"
    PROVE  TemplateReasonTrue'
<1>1. ~Has("generate_hint") \/ (withheld' = withheld /\ shadowRan' = shadowRan)
    BY DEF ShadowBefore
<1>2. \A e \in F : e.stage = "generate_hint" =>
            /\ e.note = "leak failures" =>
                m = 0 /\ Tally(events, Rejections) = MaxGenerationAttempts
            /\ e.note = "rollout" => withheld' /\ ~shadowRan'
            /\ e.note = "shadow mode" => deps.shadow
            /\ e.note = "no model" => ~deps.llm
    OBVIOUS
<1> QED
    BY <1>1, <1>2, ReasonsKept

\* A step that hands on what was written and stored so far.
LEMMA StillAttributed ==
    ASSUME Attribution, node # "end", IInv,
           UNCHANGED <<hintRows, llmCall, diagnosis>>, candidate' \in {candidate, None},
           \A i \in DOMAIN calls : i \in DOMAIN calls' /\ calls'[i] = calls[i]
    PROVE  Attribution'
<1>1. hintRows' = <<>>
    BY DEF IInv, CandidateInHand
<1> QED
    BY <1>1 DEF Attribution

LEMMA StillStored ==
    ASSUME Storing, node # "end", node' # "end", UNCHANGED <<shadowRows, result>>
    PROVE  Storing'
  BY DEF Storing, ShadowPaired

-----------------------------------------------------------------------------
(* The record, step by step: the agents before a candidate exists *)

LEMMA IdTyped ==
    ASSUME IInv
    PROVE  NextCall \in Nat /\ \A asked : IdIf(asked) \in Nat
<1>1. Len(calls) \in Nat
    BY LenProperties DEF IInv, TypeOK
<1> QED
    BY <1>1 DEF NextCall, IdIf

LEMMA InitRecord == Init => RecordInv
<1> SUFFICES ASSUME Init PROVE RecordInv
    OBVIOUS
<1> DEFINE o == [flagged |-> deps.screened \in {"flagged", "undelivered"},
                 fallback |-> deps.screened \in {"missing", "undelivered"}]
           F == IF o.fallback THEN {Fallback("safety_screen", "")} ELSE {}
           n == IF CarriesScreen THEN 1 ELSE 0
<1>1. o.fallback <=> deps.screened \in {"missing", "undelivered"}
    <2>1. (deps.screened \in {"missing", "undelivered"}) \in BOOLEAN
        OBVIOUS
    <2> QED
        BY <2>1
<1>2. Says(events, n, 0, F)
    <2>1. CASE CarriesScreen
        <3>1. events = ScreenEvents(o, 0)
            BY <2>1 DEF Init, CarriedEvents, CarriesScreen
        <3> HIDE DEF o
        <3> QED
            BY <2>1, <3>1, ScreenEventsSay
    <2>2. CASE ~CarriesScreen
        <3>1. events = <<>> /\ ~o.fallback
            BY <1>1, <2>2 DEF Init, CarriedEvents, CarriesScreen
        <3> QED
            BY <2>2, <3>1, SaysNothing
    <2> QED
        BY <2>1, <2>2
<1> HIDE DEF o
<1>3. \A stage : Has(stage) <=> o.fallback /\ stage = "safety_screen"
    <2>1. Fallback("safety_screen", "").stage = "safety_screen"
        BY DEF Fallback, Ev, Event
    <2>2. \A stage : Has(stage) <=> \E e \in F : e.stage = stage
        BY <1>2 DEF Has, IsFallback, Says, Adds
    <2> QED
        BY <2>1, <2>2
<1>4. /\ node = "safety_agent" /\ shadowOutcome = None /\ rejections = 0
      /\ withheld = FALSE /\ shadowRan = FALSE /\ degraded = {} /\ calls = <<>>
      /\ candidate = None /\ diagnosis = None /\ hintRows = <<>> /\ shadowRows = <<>>
      /\ result = None
    BY DEF Init
<1>5. ScreenedOnce
    <2>1. Tally(events, Screens) = n
        BY <1>2 DEF Says, Adds
    <2>2. alerts <= 1 /\ (~CarriesScreen => alerts = 0)
        BY DEF Init, CarriesScreen
    <2> QED
        BY <1>4, <2>1, <2>2 DEF ScreenedOnce
<1>6. Clearance
    BY <1>2, <1>4 DEF Clearance, Says, Adds, ShownAfterClearance, EventIndices, Range
<1>7. ShadowBefore
    BY <1>3, <1>4 DEF ShadowBefore
<1>8. RejectionsTallied
    <2>1. Tally(events, Rejections) = 0 /\ Turned = 0
        BY <1>2, <1>4 DEF Says, Adds, Turned
    <2> QED
        BY <1>4, <2>1 DEF RejectionsTallied
<1>9. Degradations
    BY <1>1, <1>3, <1>4 DEF Degradations
<1>10. Billing
    BY <1>4, TallyOfNone DEF Billing, Bill, Early
<1>11. Attribution
    BY <1>4 DEF Attribution
<1>12. Storing
    BY <1>4 DEF Storing, ShadowPaired
<1>13. TemplateReasonTrue
    <2>1. \A i \in DOMAIN events : ~IsFallback(events[i], "generate_hint")
        BY <1>3 DEF Has, Range
    <2> QED
        BY <2>1 DEF TemplateReasonTrue
<1> QED
    BY <1>2, <1>5, <1>6, <1>7, <1>8, <1>9, <1>10, <1>11, <1>12, <1>13 DEF RecordInv, Says, Adds

\* What the record keeps through any step that is not the last, ends no leak check
\* in favour of a candidate, and hands on what was written and billed.
LEMMA QuietStep ==
    ASSUME IInv, RecordInv, node # "end", node' \notin {"end", "record_hint_agent"},
           UNCHANGED <<deps, hintRows, shadowRows, result>>,
           NEW batch, Emit(batch), NEW n, NEW m, NEW F, Says(batch, n, m, F)
    PROVE  /\ events' \in Seq(AnyEvent) /\ Clearance' /\ Storing'
           /\ Tally(events', Screens) = Tally(events, Screens) + n
           /\ Tally(events', Rejections) = Tally(events, Rejections) + m
           /\ \A stage : Has(stage)' <=> Has(stage) \/ \E e \in F : e.stage = stage
<1>1. events \in Seq(AnyEvent) /\ Clearance /\ Storing
    BY DEF RecordInv
<1>2. \A stage : Has(stage)' <=> Has(stage) \/ \E e \in F : e.stage = stage
    BY <1>1, HasGrows DEF Says
<1>3. /\ events' \in Seq(AnyEvent)
      /\ Tally(events', Screens) = Tally(events, Screens) + n
      /\ Tally(events', Rejections) = Tally(events, Rejections) + m
    BY <1>1, Emitted DEF Says
<1>4. Clearance'
    BY <1>1, QuietClearance
<1>5. Storing'
    BY <1>1, StillStored
<1> QED
    BY <1>2, <1>3, <1>4, <1>5

LEMMA CarryRecord ==
    ASSUME IInv, RecordInv, CarryScreen
    PROVE  RecordInv'
<1> DEFINE batch == <<Changed("awaiting_answer", "diagnosing")>>
<1>1. /\ node = "safety_agent" /\ CarriesScreen /\ node' = "diagnose_agent" /\ Emit(batch)
      /\ UNCHANGED <<deps, rollout, routing, drafting, calls, records>>
      /\ Degrade("safety_screen", deps.screened \in {"missing", "undelivered"})
    BY DEF CarryScreen
<1>2. Says(batch, 0, 0, {})
    BY SaysChanged DEF States
<1> HIDE DEF batch
<1>3. /\ events' \in Seq(AnyEvent) /\ Clearance' /\ Storing'
      /\ Tally(events', Screens) = Tally(events, Screens) + 0
      /\ Tally(events', Rejections) = Tally(events, Rejections) + 0
      /\ \A stage : Has(stage)' <=> Has(stage)
    BY <1>1, <1>2, QuietStep DEF records
<1>4. ScreenedOnce'
    BY <1>1, <1>3 DEF RecordInv, ScreenedOnce, CarriesScreen, records
<1>5. ShadowBefore'
    BY <1>1, <1>3 DEF RecordInv, ShadowBefore, Early, routing
<1>6. RejectionsTallied'
    BY <1>1, <1>3 DEF RecordInv, RejectionsTallied, Turned, routing, drafting, IInv, TypeOK
<1>7. Degradations'
    BY <1>1, <1>3 DEF RecordInv, Degradations, Degrade, routing
<1>8. Billing'
    BY <1>1 DEF RecordInv, Billing, Bill, Early
<1>9. Attribution'
    BY <1>1, StillAttributed DEF RecordInv, drafting, records
<1>10. TemplateReasonTrue'
    BY <1>1, <1>2, ReasonsStay DEF RecordInv, Says, routing
<1> QED
    BY <1>3, <1>4, <1>5, <1>6, <1>7, <1>8, <1>9, <1>10 DEF RecordInv

LEMMA ScreenRecord ==
    ASSUME IInv, RecordInv, Screen
    PROVE  RecordInv'
<1>1. PICK o \in ScreenOutcomes :
        /\ Degrade("safety_screen", o.fallback)
        /\ Ledger("safety_screen", o.asked)
        /\ alerts' = IF o.flagged THEN alerts + 1 ELSE alerts
        /\ Emit(ScreenEvents(o, IdIf(o.asked)) \o <<Changed("awaiting_answer", "diagnosing")>>)
    BY DEF Screen
<1> DEFINE batch == ScreenEvents(o, IdIf(o.asked)) \o <<Changed("awaiting_answer", "diagnosing")>>
           F == IF o.fallback THEN {Fallback("safety_screen", "")} ELSE {}
<1>2. /\ node = "safety_agent" /\ ~CarriesScreen /\ node' = "diagnose_agent" /\ Emit(batch)
      /\ UNCHANGED <<deps, rollout, routing, drafting, hintRows, shadowRows, result>>
    BY <1>1 DEF Screen
<1>3. Says(batch, 1, 0, F)
    <2>1. Says(ScreenEvents(o, IdIf(o.asked)), 1, 0, F)
        BY ScreenEventsSay, IdTyped
    <2> HIDE DEF F
    <2> QED
        BY <2>1, SaysThenChanged DEF States
<1>4. Fallback("safety_screen", "").stage = "safety_screen"
    BY DEF Fallback, Ev, Event
<1> HIDE DEF batch
<1>5. /\ events' \in Seq(AnyEvent) /\ Clearance' /\ Storing'
      /\ Tally(events', Screens) = Tally(events, Screens) + 1
      /\ Tally(events', Rejections) = Tally(events, Rejections) + 0
      /\ \A stage : Has(stage)' <=> Has(stage) \/ (o.fallback /\ stage = "safety_screen")
    <2> HIDE DEF F
    <2>1. /\ events' \in Seq(AnyEvent) /\ Clearance' /\ Storing'
          /\ Tally(events', Screens) = Tally(events, Screens) + 1
          /\ Tally(events', Rejections) = Tally(events, Rejections) + 0
          /\ \A stage : Has(stage)' <=> Has(stage) \/ \E e \in F : e.stage = stage
        BY <1>2, <1>3, QuietStep
    <2> QED
        BY <1>4, <2>1 DEF F
<1>6. ScreenedOnce'
    BY <1>1, <1>2, <1>5 DEF RecordInv, ScreenedOnce, CarriesScreen
<1>7. ShadowBefore'
    BY <1>2, <1>5 DEF RecordInv, ShadowBefore, Early, routing
<1>8. RejectionsTallied'
    BY <1>2, <1>5 DEF RecordInv, RejectionsTallied, Turned, routing, drafting, IInv, TypeOK
<1>9. Degradations'
    <2>1. ~Has("safety_screen")
        BY <1>2 DEF RecordInv, Degradations, CarriesScreen
    <2> QED
        BY <1>1, <1>2, <1>5, <2>1 DEF RecordInv, Degradations, Degrade, routing
<1>10. /\ Bill' = Bill
       /\ \A i \in DOMAIN calls : i \in DOMAIN calls' /\ calls'[i] = calls[i]
    BY <1>1, Billed DEF IInv, TypeOK, Stages, Bill
<1>11. Billing'
    BY <1>2, <1>10 DEF RecordInv, Billing, Early
<1>12. Attribution'
    BY <1>2, <1>10, StillAttributed DEF RecordInv, drafting
<1>13. TemplateReasonTrue'
    <2>1. \A e \in F : e.stage # "generate_hint"
        BY <1>4
    <2>2. node \in Early /\ deps' = deps
        BY <1>2 DEF Early
    <2> HIDE DEF F
    <2> QED
        BY <1>2, <1>3, <2>1, <2>2, ReasonsStay DEF RecordInv, Says
<1> QED
    BY <1>5, <1>6, <1>7, <1>8, <1>9, <1>11, <1>12, <1>13 DEF RecordInv

LEMMA DiagnoseOutcomesAsked ==
    \A o \in DiagnoseOutcomes : o.source = "llm" => o.asked = TRUE
<1> DEFINE Judged == [known : BOOLEAN, source : {"llm"}, fallback : {FALSE},
                      asked : {TRUE}]
<1>1. ASSUME NEW o \in Judged PROVE o.asked = TRUE
    OBVIOUS
<1>2. ASSUME NEW o \in DiagnoseOutcomes, o \notin Judged PROVE o.source # "llm"
    <2>1. PICK k \in BOOLEAN, f \in BOOLEAN, a \in BOOLEAN :
            o = [known |-> k, source |-> "rule", fallback |-> f, asked |-> a]
        BY <1>2, Zenon DEF DiagnoseOutcomes
    <2> QED
        BY <2>1
<1> QED
    BY <1>1, <1>2

LEMMA DiagnoseRecord ==
    ASSUME IInv, RecordInv, DiagnoseAgent
    PROVE  RecordInv'
<1> DEFINE a == Started("diagnose")
           c == Changed("diagnosing", "retrieving_curriculum")
<1>1. PICK o \in DiagnoseOutcomes :
        /\ Degrade("diagnose", o.fallback)
        /\ Ledger("diagnose", o.asked)
        /\ diagnosis' = [known |-> o.known, source |-> o.source,
                         call |-> IdIf(o.source = "llm")]
        /\ Emit(<<a, IF o.fallback THEN Fallback("diagnose", "")
                     ELSE Completed("diagnose", IdIf(o.asked)), c>>)
    BY DEF DiagnoseAgent
<1> DEFINE b == IF o.fallback THEN Fallback("diagnose", "")
                ELSE Completed("diagnose", IdIf(o.asked))
           batch == <<a, b, c>>
           F == IF o.fallback THEN {Fallback("diagnose", "")} ELSE {}
<1>2. /\ node = "diagnose_agent" /\ node' = "retrieve_agent" /\ Emit(batch)
      /\ UNCHANGED <<deps, rollout, routing, candidate, llmCall, check, rejections, records>>
    BY <1>1 DEF DiagnoseAgent
<1>3. Says(batch, 0, 0, F)
    <2>1. a \in AnyEvent /\ Says(<<a>>, 0, 0, {})
        BY SaysStarted DEF Stages
    <2>2. b \in AnyEvent /\ Says(<<b>>, 0, 0, F)
        BY SaysFallback, SaysCompleted, IdTyped DEF Stages
    <2>3. c \in AnyEvent /\ Says(<<c>>, 0, 0, {})
        BY SaysChanged DEF States
    <2> HIDE DEF a, b, c, F
    <2>4. Says(<<a, b, c>>, 0, 0, {} \cup F \cup {})
        BY <2>1, <2>2, <2>3, SaysTriple
    <2>5. {} \cup F \cup {} = F
        OBVIOUS
    <2> QED
        BY <2>4, <2>5
<1>4. Fallback("diagnose", "").stage = "diagnose"
    BY DEF Fallback, Ev, Event
<1> HIDE DEF batch
<1>5. /\ events' \in Seq(AnyEvent) /\ Clearance' /\ Storing'
      /\ Tally(events', Screens) = Tally(events, Screens) + 0
      /\ Tally(events', Rejections) = Tally(events, Rejections) + 0
      /\ \A stage : Has(stage)' <=> Has(stage) \/ (o.fallback /\ stage = "diagnose")
    <2> HIDE DEF F
    <2>1. /\ events' \in Seq(AnyEvent) /\ Clearance' /\ Storing'
          /\ Tally(events', Screens) = Tally(events, Screens) + 0
          /\ Tally(events', Rejections) = Tally(events, Rejections) + 0
          /\ \A stage : Has(stage)' <=> Has(stage) \/ \E e \in F : e.stage = stage
        BY <1>2, <1>3, QuietStep DEF records
    <2> QED
        BY <1>4, <2>1 DEF F
<1>6. ScreenedOnce'
    BY <1>2, <1>5 DEF RecordInv, ScreenedOnce, CarriesScreen, records
<1>7. ShadowBefore'
    BY <1>2, <1>5 DEF RecordInv, ShadowBefore, Early, routing
<1>8. RejectionsTallied'
    BY <1>2, <1>5 DEF RecordInv, RejectionsTallied, Turned, routing, IInv, TypeOK
<1>9. Degradations'
    BY <1>1, <1>2, <1>5 DEF RecordInv, Degradations, Degrade, routing
<1>10. /\ Bill' = Bill
       /\ \A i \in DOMAIN calls : i \in DOMAIN calls' /\ calls'[i] = calls[i]
       /\ o.asked => NextCall \in DOMAIN calls' /\ calls'[NextCall] = "diagnose"
    <2>1. calls \in Seq(Stages) /\ "diagnose" \in Stages
        BY DEF IInv, TypeOK, Stages
    <2>2. /\ Bill' = Bill + 0 /\ Bill \in Nat
          /\ \A i \in DOMAIN calls : i \in DOMAIN calls' /\ calls'[i] = calls[i]
          /\ o.asked => NextCall \in DOMAIN calls' /\ calls'[NextCall] = "diagnose"
        BY <1>1, <2>1, Billed DEF Bill
    <2> QED
        BY <2>2
<1>11. Billing'
    BY <1>2, <1>10 DEF RecordInv, Billing, Early
<1>12. Attribution'
    <2>1. candidate' = None /\ hintRows' = <<>>
        BY <1>2 DEF IInv, CandidateInHand, Holding, Agents, records
    <2>2. diagnosis'.source = "llm" =>
            diagnosis'.call \in DOMAIN calls' /\ calls'[diagnosis'.call] = "diagnose"
        BY <1>1, <1>10, DiagnoseOutcomesAsked DEF IdIf
    <2> QED
        BY <2>1, <2>2 DEF Attribution
<1>13. TemplateReasonTrue'
    <2>1. \A e \in F : e.stage # "generate_hint"
        BY <1>4
    <2>2. node \in Early /\ deps' = deps
        BY <1>2 DEF Early
    <2> HIDE DEF F
    <2> QED
        BY <1>2, <1>3, <2>1, <2>2, ReasonsStay DEF RecordInv, Says
<1> QED
    BY <1>5, <1>6, <1>7, <1>8, <1>9, <1>11, <1>12, <1>13 DEF RecordInv

LEMMA RetrieveRecord ==
    ASSUME IInv, RecordInv, RetrieveAgent
    PROVE  RecordInv'
<1> DEFINE a == Started("rerank")
<1>1. PICK unmapped \in BOOLEAN :
        /\ Degrade("rerank", unmapped)
        /\ Emit(RetrieveEvents(unmapped)
                \o <<Changed("retrieving_curriculum", "generating_hint")>>)
    BY DEF RetrieveAgent
<1> DEFINE b == IF unmapped THEN Fallback("rerank", "") ELSE Completed("rerank", 0)
           batch == RetrieveEvents(unmapped)
                    \o <<Changed("retrieving_curriculum", "generating_hint")>>
           F == IF unmapped THEN {Fallback("rerank", "")} ELSE {}
<1>2. /\ node = "retrieve_agent" /\ node' = "shadow_agent" /\ Emit(batch)
      /\ UNCHANGED <<deps, rollout, shadowRan, shadowOutcome, generation, drafting, calls,
                     records>>
    BY <1>1 DEF RetrieveAgent
<1>3. Says(batch, 0, 0, F)
    <2>1. a \in AnyEvent /\ Says(<<a>>, 0, 0, {})
        BY SaysStarted DEF Stages
    <2>2. b \in AnyEvent /\ Says(<<b>>, 0, 0, F)
        BY SaysFallback, SaysCompleted DEF Stages
    <2>3. RetrieveEvents(unmapped) = <<a, b>>
        BY DEF RetrieveEvents
    <2> HIDE DEF a, b, F
    <2>4. Says(<<a, b>>, 0, 0, {} \cup F)
        BY <2>1, <2>2, SaysPair
    <2>5. {} \cup F = F
        OBVIOUS
    <2>6. Says(RetrieveEvents(unmapped), 0, 0, F)
        BY <2>3, <2>4, <2>5
    <2> QED
        BY <2>6, SaysThenChanged DEF States
<1>4. Fallback("rerank", "").stage = "rerank"
    BY DEF Fallback, Ev, Event
<1> HIDE DEF batch
<1>5. /\ events' \in Seq(AnyEvent) /\ Clearance' /\ Storing'
      /\ Tally(events', Screens) = Tally(events, Screens) + 0
      /\ Tally(events', Rejections) = Tally(events, Rejections) + 0
      /\ \A stage : Has(stage)' <=> Has(stage) \/ (unmapped /\ stage = "rerank")
    <2> HIDE DEF F
    <2>1. /\ events' \in Seq(AnyEvent) /\ Clearance' /\ Storing'
          /\ Tally(events', Screens) = Tally(events, Screens) + 0
          /\ Tally(events', Rejections) = Tally(events, Rejections) + 0
          /\ \A stage : Has(stage)' <=> Has(stage) \/ \E e \in F : e.stage = stage
        BY <1>2, <1>3, QuietStep DEF records
    <2> QED
        BY <1>4, <2>1 DEF F
<1>6. ScreenedOnce'
    BY <1>2, <1>5 DEF RecordInv, ScreenedOnce, CarriesScreen, records
<1>7. ShadowBefore'
    BY <1>2, <1>5 DEF RecordInv, ShadowBefore, Early
<1>8. RejectionsTallied'
    BY <1>2, <1>5 DEF RecordInv, RejectionsTallied, Turned, drafting, IInv, TypeOK
<1>9. Degradations'
    <2>1. ~Has("generate_hint")
        BY <1>2 DEF RecordInv, ShadowBefore, Early
    <2> QED
        BY <1>1, <1>2, <1>5, <2>1 DEF RecordInv, Degradations, Degrade
<1>10. Billing'
    BY <1>2 DEF RecordInv, Billing, Bill, Early
<1>11. Attribution'
    BY <1>2, StillAttributed DEF RecordInv, drafting, records
<1>12. TemplateReasonTrue'
    <2>1. \A e \in F : e.stage # "generate_hint"
        BY <1>4
    <2>2. node \in Early /\ deps' = deps
        BY <1>2 DEF Early
    <2> HIDE DEF F
    <2> QED
        BY <1>2, <1>3, <2>1, <2>2, ReasonsStay DEF RecordInv, Says
<1> QED
    BY <1>5, <1>6, <1>7, <1>8, <1>9, <1>10, <1>11, <1>12 DEF RecordInv

-----------------------------------------------------------------------------
(* The record through the shadow run *)

LEMMA SkipRecord ==
    ASSUME IInv, RecordInv, SkipShadow
    PROVE  RecordInv'
<1>1. /\ node = "shadow_agent" /\ node' = "generate_agent"
      /\ generation' = 1 /\ rejections' = 0
      /\ UNCHANGED <<deps, rollout, withheld, shadowRan, shadowOutcome, diagnosis, candidate,
                     llmCall, check, degraded, calls, events, records>>
    BY DEF SkipShadow, StartGenerating
<1>2. rejections = 0 /\ candidate = None /\ hintRows = <<>>
    BY <1>1 DEF IInv, Counting, CandidateInHand, Early, Holding, Agents
<1>3. events' \in Seq(AnyEvent) /\ ScreenedOnce'
    BY <1>1 DEF RecordInv, ScreenedOnce, records
<1>4. Clearance'
    BY <1>1 DEF RecordInv, Clearance, ShownAfterClearance, EventIndices
<1>5. ShadowBefore'
    BY <1>1 DEF RecordInv, ShadowBefore, Early
<1>6. RejectionsTallied'
    BY <1>1, <1>2 DEF RecordInv, RejectionsTallied, Turned
<1>7. Degradations'
    BY <1>1 DEF RecordInv, Degradations, Has
<1>8. Billing'
    BY <1>1, <1>2, SwarmAssumption DEF RecordInv, Billing, Bill, ShadowBefore, Early
<1>9. Attribution'
    BY <1>1, <1>2 DEF RecordInv, Attribution, records
<1>10. Storing'
    BY <1>1, StillStored DEF RecordInv, records
<1>11. TemplateReasonTrue'
    BY <1>1 DEF RecordInv, TemplateReasonTrue
<1> QED
    BY <1>3, <1>4, <1>5, <1>6, <1>7, <1>8, <1>9, <1>10, <1>11 DEF RecordInv

LEMMA ShadowOutageRecord ==
    ASSUME IInv, RecordInv, ShadowOutage
    PROVE  RecordInv'
<1> DEFINE batch == TemplateEvents("outage")
           F == {Fallback("generate_hint", "outage")}
<1>1. /\ node = "shadow_agent" /\ deps.shadow /\ node' = "generate_agent"
      /\ generation' = 1 /\ rejections' = 0 /\ shadowRan' = TRUE
      /\ Ledger("generate_hint", TRUE) /\ Emit(batch)
      /\ UNCHANGED <<deps, rollout, withheld, shadowOutcome, diagnosis, candidate, llmCall,
                     check, degraded, records>>
    BY DEF ShadowOutage, StartGenerating
<1>2. rejections = 0 /\ candidate = None /\ ~shadowRan /\ ~Has("generate_hint")
    BY <1>1 DEF IInv, Counting, CandidateInHand, Early, Holding, Agents, RecordInv, ShadowBefore
<1>3. Says(batch, 0, 0, F)
    BY TemplateEventsSay DEF Reasons
<1>4. /\ Fallback("generate_hint", "outage").stage = "generate_hint"
      /\ Fallback("generate_hint", "outage").note = "outage"
    BY DEF Fallback, Ev, Event
<1> HIDE DEF batch
<1>5. /\ events' \in Seq(AnyEvent) /\ Clearance' /\ Storing'
      /\ Tally(events', Screens) = Tally(events, Screens) + 0
      /\ Tally(events', Rejections) = Tally(events, Rejections) + 0
      /\ \A stage : Has(stage)' <=> Has(stage) \/ stage = "generate_hint"
    <2> HIDE DEF F
    <2>1. /\ events' \in Seq(AnyEvent) /\ Clearance' /\ Storing'
          /\ Tally(events', Screens) = Tally(events, Screens) + 0
          /\ Tally(events', Rejections) = Tally(events, Rejections) + 0
          /\ \A stage : Has(stage)' <=> Has(stage) \/ \E e \in F : e.stage = stage
        BY <1>1, <1>3, QuietStep DEF records
    <2> QED
        BY <1>4, <2>1 DEF F
<1>6. ScreenedOnce'
    BY <1>1, <1>5 DEF RecordInv, ScreenedOnce, CarriesScreen, records
<1>7. ShadowBefore'
    BY <1>1, <1>2 DEF RecordInv, ShadowBefore, Early
<1>8. RejectionsTallied'
    BY <1>1, <1>2, <1>5 DEF RecordInv, RejectionsTallied, Turned
<1>9. Degradations'
    BY <1>1, <1>2, <1>5 DEF RecordInv, Degradations
<1>10. /\ Bill' = Bill + 1
       /\ \A i \in DOMAIN calls : i \in DOMAIN calls' /\ calls'[i] = calls[i]
    <2>1. calls \in Seq(Stages) /\ "generate_hint" \in Stages
        BY DEF IInv, TypeOK, Stages
    <2> QED
        BY <1>1, <2>1, Billed DEF Bill
<1>11. Billing'
    BY <1>1, <1>10 DEF RecordInv, Billing, Early
<1>12. Attribution'
    BY <1>1, <1>10, StillAttributed DEF RecordInv, records
<1>13. TemplateReasonTrue'
    <2>1. \A e \in F : e.stage = "generate_hint" /\ e.note = "outage"
        BY <1>4
    <2> HIDE DEF F
    <2> QED
        BY <1>1, <1>2, <1>3, <2>1, ReasonsKept DEF RecordInv, Says
<1> QED
    BY <1>5, <1>6, <1>7, <1>8, <1>9, <1>11, <1>12, <1>13 DEF RecordInv

LEMMA ShadowReplyRecord ==
    ASSUME IInv, RecordInv, ShadowReply
    PROVE  RecordInv'
<1> DEFINE a == Started("generate_hint")
           b == Completed("generate_hint", NextCall)
<1>1. PICK o \in LeakOutcomes :
        /\ shadowOutcome' = [text |-> NextCall, passed |-> o.passed]
        /\ calls' = calls \o <<"generate_hint">>
                          \o (IF o.asked THEN <<"leak_check">> ELSE <<>>)
        /\ Emit(<<a, b>> \o LeakEvents(o, NextCall + 1) \o <<b>>)
    BY DEF ShadowReply, ShadowSummary
<1> DEFINE batch == <<a, b>> \o LeakEvents(o, NextCall + 1) \o <<b>>
           m == IF o.passed THEN 0 ELSE 1
           F == IF o.fallback THEN {Fallback("leak_check", "")} ELSE {}
<1>2. /\ node = "shadow_agent" /\ deps.shadow /\ node' = "generate_agent"
      /\ generation' = 1 /\ rejections' = 0 /\ shadowRan' = TRUE /\ Emit(batch)
      /\ UNCHANGED <<deps, rollout, withheld, diagnosis, candidate, llmCall, check, degraded,
                     records>>
    BY <1>1 DEF ShadowReply, StartGenerating
<1>3. rejections = 0 /\ candidate = None /\ ~shadowRan /\ ~Has("generate_hint") /\ shadowOutcome = None
    BY <1>2 DEF IInv, Counting, CandidateInHand, Early, Holding, Agents, RecordInv, ShadowBefore
<1>4. Says(batch, 0, m, F)
    <2>1. a \in AnyEvent /\ Says(<<a>>, 0, 0, {})
        BY SaysStarted DEF Stages
    <2>2. b \in AnyEvent /\ Says(<<b>>, 0, 0, {})
        BY SaysCompleted, IdTyped DEF Stages
    <2>3. Says(LeakEvents(o, NextCall + 1), 0, m, F)
        <3>1. NextCall + 1 \in Nat
            BY IdTyped
        <3> QED
            BY <3>1, LeakEventsSay
    <2>4. m \in {0, 1}
        OBVIOUS
    <2> HIDE DEF a, b, m, F
    <2>5. Says(<<a, b>>, 0, 0, {} \cup {})
        BY <2>1, <2>2, SaysPair
    <2>6. Says(<<a, b>> \o LeakEvents(o, NextCall + 1), 0 + 0, 0 + m, {} \cup {} \cup F)
        BY <2>3, <2>5, SaysConcat
    <2>7. Says(batch, 0 + 0 + 0, 0 + m + 0, {} \cup {} \cup F \cup {})
        BY <2>2, <2>6, SaysConcat
    <2>8. 0 + 0 + 0 = 0 /\ 0 + m + 0 = m /\ {} \cup {} \cup F \cup {} = F
        BY <2>4
    <2> QED
        BY <2>7, <2>8
<1>5. Fallback("leak_check", "").stage = "leak_check"
    BY DEF Fallback, Ev, Event
<1> HIDE DEF batch
<1>6. /\ events' \in Seq(AnyEvent) /\ Clearance' /\ Storing'
      /\ Tally(events', Screens) = Tally(events, Screens) + 0
      /\ Tally(events', Rejections) = Tally(events, Rejections) + m
      /\ \A stage : Has(stage)' <=> Has(stage) \/ (o.fallback /\ stage = "leak_check")
    <2> HIDE DEF F, m
    <2>1. /\ events' \in Seq(AnyEvent) /\ Clearance' /\ Storing'
          /\ Tally(events', Screens) = Tally(events, Screens) + 0
          /\ Tally(events', Rejections) = Tally(events, Rejections) + m
          /\ \A stage : Has(stage)' <=> Has(stage) \/ \E e \in F : e.stage = stage
        BY <1>2, <1>4, QuietStep DEF records
    <2> QED
        BY <1>5, <2>1 DEF F
<1>7. ScreenedOnce'
    BY <1>2, <1>6 DEF RecordInv, ScreenedOnce, CarriesScreen, records
<1>8. ShadowBefore'
    BY <1>2, <1>3 DEF RecordInv, ShadowBefore, Early
<1>9. RejectionsTallied'
    <2>1. Turned' = m /\ Turned = 0
        <3>1. o.passed \in BOOLEAN
            BY LeakOutcomesTyped
        <3>2. [text |-> NextCall, passed |-> o.passed] # None
            BY DEF None
        <3> QED
            BY <1>1, <1>3, <3>1, <3>2 DEF Turned
    <2> QED
        BY <1>2, <1>3, <1>6, <2>1 DEF RecordInv, RejectionsTallied
<1>10. Degradations'
    BY <1>2, <1>3, <1>6 DEF RecordInv, Degradations
<1>11. /\ Bill' = Bill + 1
       /\ \A i \in DOMAIN calls : i \in DOMAIN calls' /\ calls'[i] = calls[i]
    <2> DEFINE s == <<"generate_hint">>
               t == IF o.asked THEN <<"leak_check">> ELSE <<>>
    <2>1. calls \in Seq(Stages) /\ s \in Seq(Stages) /\ t \in Seq(Stages) /\ calls' = calls \o s \o t
        <3>1. s \in Seq(Stages) /\ t \in Seq(Stages)
            <4>1. "generate_hint" \in Stages /\ "leak_check" \in Stages
                BY DEF Stages
            <4>2. s \in Seq(Stages)
                BY <4>1
            <4>3. t \in Seq(Stages)
                BY <4>1
            <4> QED
                BY <4>2, <4>3
        <3>2. calls \in Seq(Stages)
            BY DEF IInv, TypeOK
        <3> QED
            BY <1>1, <3>1, <3>2
    <2>2. Tally(s, {"generate_hint"}) = 1 /\ Tally(t, {"generate_hint"}) = 0
        BY TallyOfOne, TallyOfNone
    <2> HIDE DEF s, t
    <2>3. calls \o s \in Seq(Stages)
        BY <2>1, ConcatProperties
    <2>4. Tally(calls \o s, {"generate_hint"}) = Bill + 1 /\ Bill \in Nat
        BY <2>1, <2>2, TallyOfConcat DEF Bill
    <2>5. Tally(calls \o s \o t, {"generate_hint"})
            = Tally(calls \o s, {"generate_hint"}) + Tally(t, {"generate_hint"})
        <3> DEFINE K == {"generate_hint"}
                   cs == calls \o s
        <3> HIDE DEF K, cs
        <3>1. cs \in Seq(Stages)
            BY <2>3 DEF cs
        <3>2. Tally(cs \o t, K) = Tally(cs, K) + Tally(t, K)
            BY <2>1, <3>1, TallyOfConcat
        <3> QED
            BY <3>2 DEF cs, K
    <2>6. \A i \in DOMAIN calls : i \in DOMAIN (calls \o s) /\ (calls \o s)[i] = calls[i]
        BY <2>1, Extends
    <2>7. \A i \in DOMAIN (calls \o s) : i \in DOMAIN calls' /\ calls'[i] = (calls \o s)[i]
        BY <2>1, <2>3, Extends
    <2> QED
        BY <2>1, <2>2, <2>4, <2>5, <2>6, <2>7 DEF Bill
<1>12. Billing'
    BY <1>2, <1>11 DEF RecordInv, Billing, Early
<1>13. Attribution'
    BY <1>2, <1>11, StillAttributed DEF RecordInv, records
<1>14. TemplateReasonTrue'
    <2>1. \A e \in F : e.stage # "generate_hint"
        BY <1>5
    <2>2. node \in Early /\ deps' = deps
        BY <1>2 DEF Early
    <2> HIDE DEF F, m
    <2> QED
        BY <1>2, <1>4, <2>1, <2>2, ReasonsStay DEF RecordInv, Says
<1> QED
    BY <1>6, <1>7, <1>8, <1>9, <1>10, <1>12, <1>13, <1>14 DEF RecordInv

-----------------------------------------------------------------------------
(* The record while words are generated and checked *)

\* The reason a template gives is true, and the generations billed by then are
\* within what the attempt was allowed.
Justified(reason) ==
    /\ shadowRan => Bill' = 1
    /\ ~shadowRan => Bill' <= MaxGenerationAttempts /\ (withheld => Bill' = 0)
    /\ reason = "leak failures" => Tally(events, Rejections) = MaxGenerationAttempts
    /\ reason = "rollout" => withheld /\ ~shadowRan
    /\ reason = "shadow mode" => deps.shadow
    /\ reason = "no model" => ~deps.llm

LEMMA TemplateRecord ==
    ASSUME IInv, RecordInv, node = "generate_agent",
           NEW reason \in Reasons, OfferTemplate(reason),
           UNCHANGED <<deps, rollout, routing, diagnosis, check, rejections, records>>,
           \A i \in DOMAIN calls : i \in DOMAIN calls' /\ calls'[i] = calls[i],
           Justified(reason)
    PROVE  RecordInv'
<1> DEFINE batch == IF deps.template
                    THEN TemplateEvents(reason)
                         \o <<Changed("generating_hint", "leak_checking")>>
                    ELSE TemplateEvents(reason)
           F == {Fallback("generate_hint", reason)}
<1>1. /\ Emit(batch) /\ Degrade("generate_hint", ~ByDesign)
      /\ \/ node' = "leakcheck_agent" /\ candidate' = Template /\ llmCall' = 0
         \/ node' = "escalate_agent" /\ candidate' = None /\ llmCall' = llmCall
    BY DEF OfferTemplate
<1>2. Says(batch, 0, 0, F)
    <2>1. Says(TemplateEvents(reason), 0, 0, F)
        BY TemplateEventsSay
    <2> HIDE DEF F
    <2>2. Says(TemplateEvents(reason) \o <<Changed("generating_hint", "leak_checking")>>, 0, 0, F)
        BY <2>1, SaysThenChanged DEF States
    <2> QED
        BY <2>1, <2>2
<1>3. /\ Fallback("generate_hint", reason).stage = "generate_hint"
      /\ Fallback("generate_hint", reason).note = reason
    BY DEF Fallback, Ev, Event
<1>4. Template.source = "template" /\ Template.text = 0 /\ hintRows = <<>>
    BY DEF Template, TemplateText, IInv, CandidateInHand
<1> HIDE DEF batch
<1>5. /\ events' \in Seq(AnyEvent) /\ Clearance' /\ Storing'
      /\ Tally(events', Screens) = Tally(events, Screens) + 0
      /\ Tally(events', Rejections) = Tally(events, Rejections) + 0
      /\ \A stage : Has(stage)' <=> Has(stage) \/ stage = "generate_hint"
    <2> HIDE DEF F
    <2>1. /\ events' \in Seq(AnyEvent) /\ Clearance' /\ Storing'
          /\ Tally(events', Screens) = Tally(events, Screens) + 0
          /\ Tally(events', Rejections) = Tally(events, Rejections) + 0
          /\ \A stage : Has(stage)' <=> Has(stage) \/ \E e \in F : e.stage = stage
        BY <1>1, <1>2, QuietStep DEF records
    <2> QED
        BY <1>3, <2>1 DEF F
<1>6. ScreenedOnce'
    <2>1. alerts <= 1 /\ Tally(events, Screens) = 1
        BY DEF RecordInv, ScreenedOnce
    <2>2. alerts' <= 1 /\ Tally(events', Screens) = 1
        BY <1>5, <2>1 DEF records
    <2> QED
        BY <1>1, <2>2, Zenon DEF ScreenedOnce
<1>7. ShadowBefore'
    BY <1>1 DEF RecordInv, ShadowBefore, Early, routing
<1>8. RejectionsTallied'
    <2>1. Tally(events, Rejections) = rejections + Turned
        BY DEF RecordInv, RejectionsTallied
    <2>2. Turned' = Turned /\ Turned \in {0, 1}
        BY DEF routing, Turned
    <2>3. rejections \in Nat /\ rejections' = rejections
        BY SwarmAssumption DEF IInv, TypeOK
    <2>4. Tally(events', Rejections) = rejections' + Turned
        BY <1>5, <2>1, <2>2, <2>3
    <2> QED
        BY <2>2, <2>4 DEF RejectionsTallied
<1>9. Degradations'
    BY <1>1, <1>5 DEF RecordInv, Degradations, Degrade, ByDesign, routing
<1>10. Billing'
    BY <1>1, <1>4 DEF Justified, RecordInv, Billing, Early, routing
<1>11. Attribution'
    <2>1. hintRows' = <<>> /\ diagnosis' = diagnosis
        BY <1>4 DEF records
    <2>2. candidate' # None => candidate'.text = llmCall' /\ candidate'.source = "template"
        BY <1>1, <1>4
    <2>3. diagnosis' # None /\ diagnosis'.source = "llm" =>
            diagnosis'.call \in DOMAIN calls' /\ calls'[diagnosis'.call] = "diagnose"
        BY <2>1 DEF RecordInv, Attribution
    <2> QED
        BY <2>1, <2>2, <2>3 DEF Attribution
<1>12. TemplateReasonTrue'
    <2>1. \A e \in F : e.note = reason
        BY <1>3
    <2>2. withheld' = withheld /\ shadowRan' = shadowRan
        BY DEF routing
    <2> HIDE DEF F
    <2> QED
        <3>1. \A e \in F : e.stage = "generate_hint" =>
                /\ e.note = "leak failures" =>
                    0 = 0 /\ Tally(events, Rejections) = MaxGenerationAttempts
                /\ e.note = "rollout" => withheld' /\ ~shadowRan'
                /\ e.note = "shadow mode" => deps.shadow
                /\ e.note = "no model" => ~deps.llm
            BY <2>1, <2>2 DEF Justified
        <3>2. events \in Seq(AnyEvent) /\ TemplateReasonTrue /\ Adds(batch, 0, 0, F)
            BY <1>2 DEF RecordInv, Says
        <3> QED
            BY <1>1, <2>2, <3>1, <3>2, ReasonsKept
<1> QED
    BY <1>5, <1>6, <1>7, <1>8, <1>9, <1>10, <1>11, <1>12 DEF RecordInv

LEMMA GenerateTemplateRecord ==
    ASSUME IInv, RecordInv, GenerateTemplate
    PROVE  RecordInv'
<1> DEFINE reason == IF ForceTemplate THEN TemplateReason ELSE "no model"
<1>1. /\ node = "generate_agent" /\ (ForceTemplate \/ ~deps.llm) /\ OfferTemplate(reason)
      /\ UNCHANGED <<deps, rollout, routing, diagnosis, check, rejections, calls, records>>
    BY DEF GenerateTemplate
<1>2. reason \in Reasons
    BY DEF TemplateReason, Reasons
<1>3. /\ reason = "rollout" => withheld /\ ~shadowRan
      /\ reason = "shadow mode" => deps.shadow
      /\ reason = "no model" => ~deps.llm
    BY <1>1 DEF TemplateReason, RecordInv, ShadowBefore
<1>4. ASSUME reason = "leak failures"
      PROVE  Tally(events, Rejections) = MaxGenerationAttempts
    <2>1. ForceTemplate /\ ~shadowRan /\ ~withheld
        BY <1>4 DEF TemplateReason
    <2>2. generation > MaxGenerationAttempts
        BY <2>1 DEF ForceTemplate, ByDesign
    <2>3. rejections = MaxGenerationAttempts
        <3>1. generation \in 0..(MaxGenerationAttempts + 1) /\ rejections = generation - 1
            BY <1>1 DEF IInv, TypeOK, Counting
        <3> QED
            BY <2>2, <3>1, SwarmAssumption
    <2>4. Turned = 0
        BY <2>1 DEF RecordInv, ShadowBefore, Turned
    <2> QED
        BY <2>3, <2>4, SwarmAssumption DEF RecordInv, RejectionsTallied
<1>5. /\ shadowRan => Bill' = 1
      /\ ~shadowRan => Bill' <= MaxGenerationAttempts /\ (withheld => Bill' = 0)
    BY <1>1 DEF RecordInv, Billing, Bill, Early
<1> HIDE DEF reason
<1> QED
    BY <1>1, <1>2, <1>3, <1>4, <1>5, TemplateRecord DEF Justified

LEMMA GenerateOutageRecord ==
    ASSUME IInv, RecordInv, GenerateOutage
    PROVE  RecordInv'
<1>1. /\ node = "generate_agent" /\ ~ForceTemplate /\ OfferTemplate("outage")
      /\ Ledger("generate_hint", TRUE)
      /\ UNCHANGED <<deps, rollout, routing, diagnosis, check, rejections, records>>
    BY DEF GenerateOutage
<1>2. ~shadowRan /\ ~withheld /\ generation <= MaxGenerationAttempts
    BY <1>1, SwarmAssumption DEF ForceTemplate, ByDesign, IInv, TypeOK
<1>3. /\ Bill' = Bill + 1
      /\ \A i \in DOMAIN calls : i \in DOMAIN calls' /\ calls'[i] = calls[i]
    <2>1. calls \in Seq(Stages) /\ "generate_hint" \in Stages
        BY DEF IInv, TypeOK, Stages
    <2> QED
        BY <1>1, <2>1, Billed DEF Bill
<1>4. Bill' <= MaxGenerationAttempts
    <2>1. Bill = generation - 1
        BY <1>1, <1>2 DEF RecordInv, Billing, Early
    <2>2. generation \in Nat
        BY SwarmAssumption DEF IInv, TypeOK
    <2> QED
        BY <1>2, <1>3, <2>1, <2>2, SwarmAssumption
<1>5. "outage" \in Reasons
    BY DEF Reasons
<1>6. Justified("outage")
    BY <1>2, <1>4 DEF Justified
<1> QED
    BY <1>1, <1>3, <1>5, <1>6, TemplateRecord

LEMMA GenerateReplyRecord ==
    ASSUME IInv, RecordInv, GenerateReply
    PROVE  RecordInv'
<1> DEFINE a == Started("generate_hint")
           b == Completed("generate_hint", NextCall)
           c == Changed("generating_hint", "leak_checking")
           batch == <<a, b, c>>
<1>1. /\ node = "generate_agent" /\ ~ForceTemplate /\ node' = "leakcheck_agent"
      /\ Ledger("generate_hint", TRUE) /\ Emit(batch)
      /\ candidate' = [source |-> "generated", text |-> NextCall] /\ llmCall' = NextCall
      /\ UNCHANGED <<deps, rollout, routing, diagnosis, check, rejections, degraded, records>>
    BY DEF GenerateReply
<1>2. ~shadowRan /\ ~withheld /\ generation <= MaxGenerationAttempts
    BY <1>1, SwarmAssumption DEF ForceTemplate, ByDesign, IInv, TypeOK
<1>3. Says(batch, 0, 0, {})
    <2>1. a \in AnyEvent /\ Says(<<a>>, 0, 0, {})
        BY SaysStarted DEF Stages
    <2>2. b \in AnyEvent /\ Says(<<b>>, 0, 0, {})
        BY SaysCompleted, IdTyped DEF Stages
    <2>3. c \in AnyEvent /\ Says(<<c>>, 0, 0, {})
        BY SaysChanged DEF States
    <2> HIDE DEF a, b, c
    <2>4. Says(<<a, b, c>>, 0, 0, {} \cup {} \cup {})
        BY <2>1, <2>2, <2>3, SaysTriple
    <2>5. {} \cup {} \cup {} = {}
        OBVIOUS
    <2> QED
        BY <2>4, <2>5
<1> HIDE DEF batch
<1>4. /\ events' \in Seq(AnyEvent) /\ Clearance' /\ Storing'
      /\ Tally(events', Screens) = Tally(events, Screens) + 0
      /\ Tally(events', Rejections) = Tally(events, Rejections) + 0
      /\ \A stage : Has(stage)' <=> Has(stage)
    BY <1>1, <1>3, QuietStep DEF records
<1>5. ScreenedOnce'
    BY <1>1, <1>4 DEF RecordInv, ScreenedOnce, CarriesScreen, records
<1>6. ShadowBefore'
    BY <1>1 DEF RecordInv, ShadowBefore, Early, routing
<1>7. RejectionsTallied'
    BY <1>1, <1>4 DEF RecordInv, RejectionsTallied, Turned, routing, IInv, TypeOK
<1>8. Degradations'
    BY <1>1, <1>4 DEF RecordInv, Degradations, routing
<1>9. /\ Bill' = Bill + 1
      /\ \A i \in DOMAIN calls : i \in DOMAIN calls' /\ calls'[i] = calls[i]
      /\ NextCall \in DOMAIN calls' /\ calls'[NextCall] = "generate_hint"
    <2>1. calls \in Seq(Stages) /\ "generate_hint" \in Stages
        BY DEF IInv, TypeOK, Stages
    <2> QED
        BY <1>1, <2>1, Billed DEF Bill
<1>10. Billing'
    <2>1. Bill = generation - 1
        BY <1>1, <1>2 DEF RecordInv, Billing, Early
    <2>2. generation \in Nat
        BY SwarmAssumption DEF IInv, TypeOK
    <2>3. Bill' = generation /\ generation' = generation /\ ~shadowRan' /\ ~withheld'
        BY <1>1, <1>2, <1>9, <2>1, <2>2 DEF routing
    <2> QED
        BY <1>1, <1>2, <2>3 DEF Billing, Early
<1>11. Attribution'
    <2>1. hintRows' = <<>>
        BY <1>1 DEF IInv, CandidateInHand, records
    <2>2. candidate'.text = llmCall' /\ diagnosis' = diagnosis
        BY <1>1
    <2> QED
        BY <1>1, <1>9, <2>1, <2>2 DEF RecordInv, Attribution
<1>12. TemplateReasonTrue'
    BY <1>1, <1>3, ReasonsStay DEF RecordInv, Says, routing
<1> QED
    BY <1>4, <1>5, <1>6, <1>7, <1>8, <1>10, <1>11, <1>12 DEF RecordInv

LEMMA LeakcheckRecord ==
    ASSUME IInv, RecordInv, LeakcheckAgent
    PROVE  RecordInv'
<1>1. PICK o \in LeakOutcomes :
        /\ Degrade("leak_check", o.fallback)
        /\ Ledger("leak_check", o.asked)
        /\ Emit(LeakEvents(o, NextCall))
        /\ rejections' = CountRejection(o.passed)
        /\ node' = AfterCheck(o.passed)
        /\ candidate' = IF node' = "record_hint_agent" THEN candidate ELSE None
        /\ generation' = IF node' = "generate_agent" THEN generation + 1 ELSE generation
    BY DEF LeakcheckAgent
<1> DEFINE batch == LeakEvents(o, NextCall)
           m == IF o.passed THEN 0 ELSE 1
           F == IF o.fallback THEN {Fallback("leak_check", "")} ELSE {}
<1>2. /\ node = "leakcheck_agent" /\ candidate \in Candidates /\ Emit(batch)
      /\ UNCHANGED <<deps, rollout, withheld, shadowRan, shadowOutcome, diagnosis, llmCall,
                     records>>
    BY <1>1 DEF LeakcheckAgent, IInv, CandidateInHand, Holding
<1>3. \/ o.passed /\ node' = "record_hint_agent"
      \/ ~o.passed /\ node' = "escalate_agent"
      \/ /\ ~o.passed /\ node' = "generate_agent" /\ candidate.source = "generated"
         /\ generation' = generation + 1
    BY <1>1, <1>2 DEF AfterCheck, Candidates
<1>4. Says(batch, 0, m, F)
    BY LeakEventsSay, IdTyped
<1>5. Fallback("leak_check", "").stage = "leak_check"
    BY DEF Fallback, Ev, Event
<1>6. ASSUME o.passed
      PROVE  \E e \in AnyEvent : batch = <<Started("leak_check"), e>> /\ IsCleared(e)
    <2> DEFINE e == IF o.fallback THEN Fallback("leak_check", "")
                    ELSE Completed("leak_check", NextCall)
    <2>1. batch = <<Started("leak_check"), e>>
        BY <1>6 DEF LeakEvents
    <2>2. IsCleared(e)
        BY DEF IsCleared, Fallback, Completed, Ev, Event
    <2>3. e \in AnyEvent
        BY SaysFallback, SaysCompleted, IdTyped DEF Stages
    <2> QED
        BY <2>1, <2>2, <2>3
<1> HIDE DEF batch
<1>7. events \in Seq(AnyEvent) /\ Clearance
    BY DEF RecordInv
<1>8. /\ events' \in Seq(AnyEvent)
      /\ Tally(events', Screens) = Tally(events, Screens) + 0
      /\ Tally(events', Rejections) = Tally(events, Rejections) + m
      /\ Range(events') = Range(events) \cup Range(batch)
    <2> HIDE DEF F, m
    <2> QED
        BY <1>2, <1>4, <1>7, Emitted DEF Says
<1>9. \A stage : Has(stage)' <=> Has(stage) \/ (o.fallback /\ stage = "leak_check")
    <2> HIDE DEF F, m
    <2>1. \A stage : Has(stage)' <=> Has(stage) \/ \E e \in F : e.stage = stage
        BY <1>2, <1>4, <1>7, HasGrows DEF Says
    <2> QED
        BY <1>5, <2>1 DEF F
<1>10. Clearance'
    <2>1. \A e \in Range(events') : ~IsHintShown(e)
        BY <1>2, <1>4, <1>7, <1>8 DEF Clearance, Says
    <2>2. ShownAfterClearance'
        BY <2>1 DEF ShownAfterClearance, EventIndices, Range
    <2>3. ASSUME node' = "record_hint_agent"
          PROVE  \E j \in DOMAIN events' :
                    /\ IsCleared(events'[j])
                    /\ \A k \in j..Len(events') : events'[k].stage # "generate_hint"
        <3>1. PICK e \in AnyEvent : batch = <<Started("leak_check"), e>> /\ IsCleared(e)
            BY <1>3, <1>6, <2>3
        <3>2. events' = events \o <<Started("leak_check"), e>>
            BY <1>2, <3>1 DEF Emit
        <3>3. Len(events') = Len(events) + 2 /\ events'[Len(events) + 2] = e
            BY <1>7, <3>2, SaysStarted, LastOfPair DEF Stages
        <3>4. Len(events) \in Nat /\ DOMAIN events' = 1..Len(events')
            BY <1>7, <1>8, LenProperties
        <3>5. e.stage # "generate_hint"
            BY <3>1 DEF IsCleared
        <3>6. Len(events) + 2 \in DOMAIN events'
            BY <3>3, <3>4
        <3>7. \A k \in (Len(events) + 2)..Len(events') : k = Len(events) + 2
            BY <3>3, <3>4
        <3> QED
            BY <3>1, <3>3, <3>5, <3>6, <3>7
    <2> QED
        BY <2>1, <2>2, <2>3 DEF Clearance
<1>11. Storing'
    BY <1>2, <1>3, StillStored DEF RecordInv, records
<1>12. ScreenedOnce'
    BY <1>2, <1>3, <1>8 DEF RecordInv, ScreenedOnce, CarriesScreen, records
<1>13. ShadowBefore'
    BY <1>2, <1>3 DEF RecordInv, ShadowBefore, Early
<1>14. RejectionsTallied'
    <2>1. rejections' = rejections + m /\ rejections \in Nat
        BY <1>1, SwarmAssumption DEF CountRejection, IInv, TypeOK
    <2>2. Turned' = Turned /\ Turned \in {0, 1} /\ m \in {0, 1}
        BY <1>2 DEF Turned
    <2>3. Tally(events, Rejections) = rejections + Turned
        BY DEF RecordInv, RejectionsTallied
    <2> HIDE DEF m
    <2>4. Tally(events', Rejections) = rejections' + Turned
        BY <1>8, <2>1, <2>2, <2>3
    <2> QED
        BY <2>2, <2>4 DEF RejectionsTallied
<1>15. Degradations'
    BY <1>1, <1>2, <1>3, <1>9 DEF RecordInv, Degradations, Degrade
<1>16. /\ Bill' = Bill
       /\ \A i \in DOMAIN calls : i \in DOMAIN calls' /\ calls'[i] = calls[i]
    <2>1. calls \in Seq(Stages) /\ "leak_check" \in Stages
        BY DEF IInv, TypeOK, Stages
    <2>2. /\ Bill' = Bill + 0 /\ Bill \in Nat
          /\ \A i \in DOMAIN calls : i \in DOMAIN calls' /\ calls'[i] = calls[i]
        BY <1>1, <2>1, Billed DEF Bill
    <2> QED
        BY <2>2
<1>17. Billing'
    <2>1. generation \in Nat
        BY SwarmAssumption DEF IInv, TypeOK
    <2> QED
        BY <1>2, <1>3, <1>16, <2>1 DEF RecordInv, Billing, Early
<1>18. Attribution'
    BY <1>1, <1>2, <1>16, StillAttributed DEF RecordInv, records
<1>19. TemplateReasonTrue'
    <2>1. \A e \in F : e.stage # "generate_hint"
        BY <1>5
    <2>2. withheld' = withheld /\ shadowRan' = shadowRan /\ deps' = deps
        BY <1>2
    <2> HIDE DEF F, m
    <2> QED
        BY <1>2, <1>4, <2>1, <2>2, ReasonsStay DEF RecordInv, Says
<1> QED
    BY <1>8, <1>10, <1>11, <1>12, <1>13, <1>14, <1>15, <1>17, <1>18, <1>19 DEF RecordInv

-----------------------------------------------------------------------------
(* The record at the end of the attempt *)

\* The last batch adds nothing to what is counted.
LEMMA LastBatch ==
    ASSUME RecordInv, NEW a \in AnyEvent, NEW b \in AnyEvent, Emit(<<a, b>>),
           a.type \in {"hint_shown", "escalated"}, b.type = "state_changed"
    PROVE  /\ Adds(<<a, b>>, 0, 0, {})
           /\ events' \in Seq(AnyEvent)
           /\ Tally(events', Screens) = Tally(events, Screens) + 0
           /\ Tally(events', Rejections) = Tally(events, Rejections) + 0
           /\ \A stage : Has(stage)' <=> Has(stage)
<1>1. a \notin Screens /\ b \notin Screens /\ a \notin Rejections /\ b \notin Rejections
    <2>1. Started("safety_screen").type = "stage_started"
        BY DEF Started, Ev, Event
    <2>2. a \notin Screens /\ b \notin Screens
        BY <2>1 DEF Screens
    <2> QED
        BY <2>2 DEF Rejections, IsRejection
<1>2. <<a>> \in Seq(AnyEvent) /\ <<b>> \in Seq(AnyEvent) /\ <<a, b>> = <<a>> \o <<b>>
    BY PairIs
<1>3. <<a, b>> \in Seq(AnyEvent)
    OBVIOUS
<1>4. Tally(<<a, b>>, Screens) = 0 /\ Tally(<<a, b>>, Rejections) = 0
    <2>1. /\ Tally(<<a>>, Screens) = 0 /\ Tally(<<b>>, Screens) = 0
          /\ Tally(<<a>>, Rejections) = 0 /\ Tally(<<b>>, Rejections) = 0
        BY <1>1, TallyOfOne
    <2> QED
        BY <1>2, <2>1, TallyOfConcat
<1>5. {e \in Range(<<a, b>>) : e.type = "fallback_used"} = {}
    BY DEF Range
<1>6. Adds(<<a, b>>, 0, 0, {})
    BY <1>3, <1>4, <1>5 DEF Adds
<1>7. events \in Seq(AnyEvent)
    BY DEF RecordInv
<1>8. /\ events' \in Seq(AnyEvent)
      /\ Tally(events', Screens) = Tally(events, Screens) + 0
      /\ Tally(events', Rejections) = Tally(events, Rejections) + 0
    BY <1>6, <1>7, Emitted
<1>9. \A stage : Has(stage)' <=> Has(stage)
    BY <1>6, <1>7, HasGrows
<1> QED
    BY <1>6, <1>8, <1>9

\* What the end leaves as it was.
LEMMA EndKeeps ==
    ASSUME IInv, RecordInv, node # "end", node' = "end", node \notin Early,
           UNCHANGED <<deps, routing, drafting, degraded, calls, alerts>>,
           events' \in Seq(AnyEvent),
           Tally(events', Screens) = Tally(events, Screens) + 0,
           Tally(events', Rejections) = Tally(events, Rejections) + 0,
           \A stage : Has(stage)' <=> Has(stage)
    PROVE  /\ ScreenedOnce' /\ ShadowBefore' /\ RejectionsTallied' /\ Degradations'
           /\ Billing'
<1>1. ScreenedOnce'
    BY DEF RecordInv, ScreenedOnce, Early
<1>2. ShadowBefore'
    BY DEF RecordInv, ShadowBefore, Early, routing
<1>3. RejectionsTallied'
    BY DEF RecordInv, RejectionsTallied, Turned, routing, drafting, IInv, TypeOK
<1>4. Degradations'
    BY DEF RecordInv, Degradations, routing, Early
<1>5. Billing'
    BY DEF RecordInv, Billing, Bill, Early, routing
<1> QED
    BY <1>1, <1>2, <1>3, <1>4, <1>5

LEMMA StoredAtEnd ==
    ASSUME Storing, node # "end", NEW hint, RecordShadow(hint), Finish(hint),
           node' = "end", UNCHANGED <<degraded, shadowOutcome>>
    PROVE  Storing'
<1>1. shadowRows = <<>> /\ result' = [hint |-> hint, rejections |-> rejections,
                                      degraded |-> degraded, shadowRan |-> shadowRan]
    BY DEF Storing, Finish
<1>2. result'.degraded = degraded' /\ result'.hint = hint
    BY <1>1
<1>3. shadowRows' = IF shadowOutcome = None THEN <<>>
                    ELSE <<[generated |-> shadowOutcome.text,
                            passed |-> shadowOutcome.passed, shown |-> hint]>>
    <2>1. \A row : Append(<<>>, row) = <<row>>
        OBVIOUS
    <2> QED
        BY <1>1, <2>1 DEF RecordShadow
<1> QED
    BY <1>2, <1>3 DEF Storing, ShadowPaired

LEMMA RecordHintRecord ==
    ASSUME IInv, RecordInv, RecordHintAgent
    PROVE  RecordInv'
<1> DEFINE a == Ev("hint_shown", candidate.source, "")
           b == Changed("leak_checking", "awaiting_student_retry")
           row == [source |-> candidate.source, text |-> candidate.text,
                   classified |-> check.ran, call |-> llmCall]
<1>1. /\ node = "record_hint_agent" /\ node' = "end" /\ Emit(<<a, b>>)
      /\ hintRows' = Append(hintRows, row)
      /\ RecordShadow(candidate) /\ Finish(candidate)
      /\ UNCHANGED <<deps, rollout, routing, drafting, degraded, calls, alerts>>
    BY DEF RecordHintAgent
<1>2. candidate \in Candidates /\ candidate # None /\ hintRows = <<>>
    BY <1>1, NoneIsNoCandidate DEF IInv, CandidateInHand, Holding
<1>3. candidate.source \in {"generated", "template"}
    BY <1>2 DEF Candidates
<1>4. /\ a \in AnyEvent /\ a.type = "hint_shown" /\ a.stage = candidate.source
      /\ b \in AnyEvent /\ b.type = "state_changed"
    <2>1. a \in AnyEvent
        BY <1>3 DEF Ev, Event, AnyEvent, EventTypes, Stages, States, Reasons
    <2>2. b \in AnyEvent
        BY SaysChanged DEF States
    <2>3. a.type = "hint_shown" /\ a.stage = candidate.source /\ b.type = "state_changed"
        BY DEF Ev, Event, Changed
    <2> QED
        BY <2>1, <2>2, <2>3
<1> HIDE DEF a, b
<1>5. /\ Adds(<<a, b>>, 0, 0, {})
      /\ events' \in Seq(AnyEvent)
      /\ Tally(events', Screens) = Tally(events, Screens) + 0
      /\ Tally(events', Rejections) = Tally(events, Rejections) + 0
      /\ \A stage : Has(stage)' <=> Has(stage)
    BY <1>1, <1>4, LastBatch
<1>6. ScreenedOnce' /\ ShadowBefore' /\ RejectionsTallied' /\ Degradations' /\ Billing'
    BY <1>1, <1>5, EndKeeps DEF Early
<1>7. Clearance'
    <2>1. events \in Seq(AnyEvent) /\ events' = events \o <<a, b>>
        BY <1>1 DEF RecordInv, Emit
    <2>2. /\ Len(events') = Len(events) + 2
          /\ events'[Len(events) + 1] = a /\ events'[Len(events) + 2] = b
        BY <1>4, <2>1, LastOfPair
    <2>3. \A i \in DOMAIN events : events'[i] = events[i]
        BY <1>5, <2>1, <1>1, Emitted
    <2>4. /\ Len(events) \in Nat /\ DOMAIN events = 1..Len(events)
          /\ DOMAIN events' = 1..Len(events')
        BY <1>5, <2>1, LenProperties
    <2>5. PICK j \in DOMAIN events :
            /\ IsCleared(events[j])
            /\ \A k \in j..Len(events) : events[k].stage # "generate_hint"
        BY <1>1 DEF RecordInv, Clearance
    <2>6. ASSUME NEW i \in DOMAIN events', IsHintShown(events'[i])
          PROVE  i = Len(events) + 1
        <3>1. CASE i \in DOMAIN events
            <4>1. events'[i] = events[i] /\ ~IsHintShown(events[i])
                BY <1>1, <2>3, <3>1 DEF RecordInv, Clearance, Range
            <4> QED
                BY <2>6, <4>1
        <3>2. CASE i = Len(events) + 2
            BY <1>4, <2>2, <2>6, <3>2 DEF IsHintShown
        <3> QED
            BY <2>2, <2>4, <3>1, <3>2
    <2>7. \A k \in j..(Len(events) + 1) : events'[k].stage # "generate_hint"
        <3> SUFFICES ASSUME NEW k \in j..(Len(events) + 1)
                     PROVE  events'[k].stage # "generate_hint"
            OBVIOUS
        <3>1. CASE k = Len(events) + 1
            BY <1>3, <1>4, <2>2, <3>1
        <3>2. CASE k # Len(events) + 1
            <4>1. k \in j..Len(events) /\ k \in DOMAIN events
                BY <2>4, <2>5, <3>2
            <4> QED
                BY <2>3, <2>5, <4>1
        <3> QED
            BY <3>1, <3>2
    <2>8. j < Len(events) + 1 /\ j \in DOMAIN events' /\ IsCleared(events'[j])
        BY <2>2, <2>3, <2>4, <2>5
    <2>9. ShownAfterClearance'
        BY <2>6, <2>7, <2>8 DEF ShownAfterClearance, EventIndices
    <2> QED
        BY <1>1, <2>9 DEF Clearance
<1>8. Attribution'
    <2>1. hintRows' = <<row>>
        BY <1>1, <1>2
    <2>2. \A i \in DOMAIN hintRows' : hintRows'[i] = row
        BY <2>1
    <2>3. /\ candidate.text = llmCall
          /\ candidate.source = "generated" =>
                llmCall \in DOMAIN calls /\ calls[llmCall] = "generate_hint"
        BY <1>2 DEF RecordInv, Attribution
    <2>4. row.call = llmCall /\ row.text = candidate.text /\ row.source = candidate.source
        OBVIOUS
    <2> HIDE DEF row
    <2>5. \A i \in DOMAIN hintRows' :
            /\ hintRows'[i].call = hintRows'[i].text
            /\ hintRows'[i].source = "generated" =>
                calls[hintRows'[i].call] = "generate_hint"
        BY <2>2, <2>3, <2>4
    <2> QED
        BY <1>1, <2>5 DEF RecordInv, Attribution, drafting
<1>9. Storing'
    BY <1>1, StoredAtEnd DEF RecordInv, routing
<1>10. TemplateReasonTrue'
    BY <1>1, <1>5, ReasonsStay DEF RecordInv, routing
<1> QED
    BY <1>5, <1>6, <1>7, <1>8, <1>9, <1>10 DEF RecordInv

LEMMA EscalateRecord ==
    ASSUME IInv, RecordInv, EscalateAgent
    PROVE  RecordInv'
<1> DEFINE a == Ev("escalated", "", "")
           b == Changed("leak_checking", "escalated")
<1>1. /\ node = "escalate_agent" /\ node' = "end" /\ Emit(<<a, b>>)
      /\ RecordShadow(None) /\ Finish(None)
      /\ UNCHANGED <<deps, rollout, routing, drafting, degraded, calls, alerts, hintRows>>
    BY DEF EscalateAgent
<1>2. /\ a \in AnyEvent /\ a.type = "escalated"
      /\ b \in AnyEvent /\ b.type = "state_changed"
    <2>1. a \in AnyEvent
        BY DEF Ev, Event, AnyEvent, EventTypes, Stages, States, Reasons
    <2>2. b \in AnyEvent
        BY SaysChanged DEF States
    <2>3. a.type = "escalated" /\ b.type = "state_changed"
        BY DEF Ev, Event, Changed
    <2> QED
        BY <2>1, <2>2, <2>3
<1> HIDE DEF a, b
<1>3. /\ Adds(<<a, b>>, 0, 0, {})
      /\ events' \in Seq(AnyEvent)
      /\ Tally(events', Screens) = Tally(events, Screens) + 0
      /\ Tally(events', Rejections) = Tally(events, Rejections) + 0
      /\ \A stage : Has(stage)' <=> Has(stage)
    BY <1>1, <1>2, LastBatch
<1>4. ScreenedOnce' /\ ShadowBefore' /\ RejectionsTallied' /\ Degradations' /\ Billing'
    BY <1>1, <1>3, EndKeeps DEF Early
<1>5. Clearance'
    <2>1. \A e \in Range(<<a, b>>) : ~IsHintShown(e)
        BY <1>2 DEF Range, IsHintShown
    <2>2. Says(<<a, b>>, 0, 0, {})
        BY <1>3, <2>1 DEF Says
    <2> QED
        BY <1>1, <2>2, QuietClearance DEF RecordInv
<1>6. Attribution'
    <2>1. candidate' \in {candidate, None}
        BY <1>1 DEF drafting
    <2> QED
        BY <1>1, <2>1, StillAttributed DEF RecordInv, drafting
<1>7. Storing'
    BY <1>1, StoredAtEnd DEF RecordInv, routing
<1>8. TemplateReasonTrue'
    BY <1>1, <1>3, ReasonsStay DEF RecordInv, routing
<1> QED
    BY <1>3, <1>4, <1>5, <1>6, <1>7, <1>8 DEF RecordInv

LEMMA RolloutRecord ==
    ASSUME RecordInv, ChangeRollout \/ UNCHANGED vars
    PROVE  RecordInv'
<1>1. UNCHANGED <<deps, node, withheld, shadowRan, shadowOutcome, generation, diagnosis,
                  candidate, llmCall, rejections, degraded, calls, events, alerts, hintRows,
                  shadowRows, result>>
    BY DEF ChangeRollout, vars, routing, drafting, records
<1>2. events' \in Seq(AnyEvent) /\ ScreenedOnce' /\ RejectionsTallied'
    BY <1>1 DEF RecordInv, ScreenedOnce, CarriesScreen, RejectionsTallied, Turned
<1>3. Clearance'
    BY <1>1 DEF RecordInv, Clearance, ShownAfterClearance, EventIndices
<1>4. ShadowBefore' /\ Degradations'
    BY <1>1 DEF RecordInv, ShadowBefore, Degradations, Has
<1>5. Billing'
    BY <1>1 DEF RecordInv, Billing, Bill
<1>6. Attribution'
    BY <1>1 DEF RecordInv, Attribution
<1>7. Storing'
    BY <1>1 DEF RecordInv, Storing, ShadowPaired
<1>8. TemplateReasonTrue'
    BY <1>1 DEF RecordInv, TemplateReasonTrue
<1> QED
    BY <1>2, <1>3, <1>4, <1>5, <1>6, <1>7, <1>8 DEF RecordInv

LEMMA StepRecord == IInv /\ RecordInv /\ [Next]_vars => RecordInv'
  BY CarryRecord, ScreenRecord, DiagnoseRecord, RetrieveRecord, SkipRecord,
     ShadowOutageRecord, ShadowReplyRecord, GenerateTemplateRecord, GenerateOutageRecord,
     GenerateReplyRecord, LeakcheckRecord, RecordHintRecord, EscalateRecord, RolloutRecord
  DEF Next, Agent

THEOREM RecordInductive == Spec => [](IInv /\ RecordInv)
<1>1. Init => IInv /\ RecordInv
    BY InitIInv, InitRecord
<1>2. (IInv /\ RecordInv) /\ [Next]_vars => (IInv /\ RecordInv)'
    BY StepIInv, StepRecord
<1> QED
    BY <1>1, <1>2, PTL DEF Spec

\* A submission is screened once and alerts at most once, and a leak check that passed
\* stands between the last words generated or rendered and the hint in every timeline.
THEOREM ChecksAreInPlace == Spec => []ChecksInPlace
<1>1. RecordInv => ChecksInPlace
    <2> SUFFICES ASSUME RecordInv PROVE ChecksInPlace
        OBVIOUS
    <2>1. EventIndices(LAMBDA e : e = Started("safety_screen"))
            = {i \in DOMAIN events : events[i] \in Screens}
        BY DEF EventIndices, Screens
    <2>2. Tally(events, Screens) <= 1
        BY DEF RecordInv, ScreenedOnce
    <2>3. OneScreenPerSubmission
        BY <2>1, <2>2 DEF OneScreenPerSubmission, Tally, RecordInv, ScreenedOnce
    <2> QED
        BY <2>3 DEF ChecksInPlace, RecordInv, Clearance
<1> QED
    BY <1>1, RecordInductive, PTL

\* A stored hint names the call that wrote those very words, and the shadow candidate is
\* stored once, beside what the child got.
THEOREM WhatIsStoredIsTrue == Spec => []StoredTrue
<1>1. RecordInv => StoredTrue
    BY DEF RecordInv, Attribution, Storing, StoredTrue, Attributable
<1> QED
    BY <1>1, RecordInductive, PTL

\* The rejections, the degraded stages and the cause of a template that an attempt
\* reports are those its timeline shows, and it bills no more generations than allowed.
THEOREM RecordIsHonest == Spec => []HonestRecord
<1>1. IInv /\ RecordInv => HonestRecord
    <2> SUFFICES ASSUME IInv, RecordInv PROVE HonestRecord
        OBVIOUS
    <2>1. RejectionsCounted
        <3>1. \A i \in DOMAIN events : events[i] \in AnyEvent
            BY DEF RecordInv
        <3>2. EventIndices(IsRejection) = {i \in DOMAIN events : events[i] \in Rejections}
            BY <3>1 DEF EventIndices, Rejections
        <3> QED
            BY <3>2 DEF RejectionsCounted, RecordInv, RejectionsTallied, Turned, Tally
    <2>2. DegradedHonest
        <3> SUFFICES ASSUME result # None PROVE DegradedHonest
            BY DEF DegradedHonest
        <3>1. node = "end" /\ result.degraded = degraded
            BY DEF RecordInv, Storing
        <3>2. \A stage : Has(stage) <=> \E i \in DOMAIN events : IsFallback(events[i], stage)
            BY DEF Has, Range
        <3>3. \A stage \in {"safety_screen", "diagnose", "rerank"} :
                stage \in degraded <=> Has(stage)
            BY <3>1 DEF RecordInv, Degradations
        <3>4. Stages \ {"generate_hint", "leak_check"} = {"safety_screen", "diagnose", "rerank"}
            BY DEF Stages
        <3>5. /\ "leak_check" \in degraded => Has("leak_check")
              /\ "generate_hint" \in degraded <=> ~shadowRan /\ ~withheld /\ Has("generate_hint")
            BY DEF RecordInv, Degradations
        <3> QED
            BY <3>1, <3>2, <3>3, <3>4, <3>5 DEF DegradedHonest
    <2>3. BilledGenerations
        <3>1. Bill <= IF shadowRan THEN 1 ELSE IF withheld THEN 0 ELSE MaxGenerationAttempts
            BY SwarmAssumption DEF RecordInv, Billing, ShadowBefore
        <3>2. {i \in DOMAIN calls : calls[i] \in {"generate_hint"}}
                = {i \in DOMAIN calls : calls[i] = "generate_hint"}
            OBVIOUS
        <3> QED
            BY <3>1, <3>2 DEF BilledGenerations, Bill, Tally
    <2> QED
        BY <2>1, <2>2, <2>3 DEF HonestRecord, RecordInv
<1> QED
    BY <1>1, RecordInductive, PTL
-----------------------------------------------------------------------------
(* Grouping the events of a timeline, one more at a time *)

\* The fold that groups a timeline is chosen by an equation between sets of indices,
\* of which only the initial segments matter.
Index(tl) == [i \in DOMAIN tl |-> i]
Reading(tl, n, h) == [s \in SUBSET (1..n) |->
    IF s = {} THEN NothingRead
    ELSE Step(h[s \ {Max(s)}], tl[Index(tl)[Max(s)]], Index(tl)[Max(s)])]
Reads(tl) == CHOOSE h : h = Reading(tl, Len(tl), h)

LEMMA GroupedIs ==
    ASSUME NEW S, NEW tl \in Seq(S)
    PROVE  Grouped(tl) = Reads(tl)[1..Len(tl)]
<1>1. Grouped(tl) = (CHOOSE h : h = [s \in SUBSET (DOMAIN Index(tl)) |->
               IF s = {} THEN NothingRead
               ELSE Step(h[s \ {Max(s)}], tl[Index(tl)[Max(s)]], Index(tl)[Max(s)])])
                    [DOMAIN Index(tl)]
  BY Zenon DEF Grouped, FoldLeftDomain, FoldLeft, MapThenFoldSet, Index
<1>2. DOMAIN Index(tl) = 1..Len(tl)
  BY LenProperties DEF Index
<1> QED
  BY <1>1, <1>2, Zenon DEF Reads, Reading

LEMMA MaxOfSegment ==
    ASSUME NEW n \in Nat, NEW s \in SUBSET (1..n), n \in s
    PROVE  Max(s) = n
<1>1. \A y \in s : n >= y
  OBVIOUS
<1>2. \E x \in s : \A y \in s : x >= y
  BY <1>1
<1>3. Max(s) \in s /\ \A y \in s : Max(s) >= y
  BY <1>2, Zenon DEF Max
<1>4. ASSUME NEW m \in s, \A y \in s : m >= y
      PROVE  m = n
  <2>1. m \in Nat /\ m <= n /\ m >= n
    BY <1>4
  <2> QED
    BY <2>1
<1> QED
  BY <1>3, <1>4

LEMMA LeastNumber ==
    ASSUME NEW S, S \subseteq Nat, S # {}
    PROVE  \E m \in S : \A k \in S : ~(k < m)
<1> DEFINE less == OpToRel(<, Nat)
<1>1. \E m \in S : \A k \in S : <<k, m>> \notin less
  BY NatLessThanWellFounded, WFMin
<1>2. \A k, m \in S : k < m => <<k, m>> \in less
  BY DEF OpToRel
<1> QED
  BY <1>1, <1>2

\* The equation has a solution: the least length without one would have the solution
\* for the length before it, with one step more.
LEMMA Readable ==
    ASSUME NEW tl, NEW n \in Nat
    PROVE  \E h : h = Reading(tl, n, h)
<1> DEFINE bad == {k \in Nat : ~\E h : h = Reading(tl, k, h)}
<1> SUFFICES ASSUME bad # {} PROVE FALSE
  OBVIOUS
<1>1. PICK m \in bad : \A k \in bad : ~(k < m)
  BY LeastNumber
<1>2. m # 0
  <2> DEFINE h == [s \in SUBSET (1..0) |-> NothingRead]
  <2>1. h = Reading(tl, 0, h)
    BY DEF Reading
  <2> HIDE DEF h
  <2> QED
    BY <1>1, <2>1
<1>3. m - 1 \in Nat /\ m - 1 < m
  BY <1>1, <1>2
<1>4. PICK h : h = Reading(tl, m - 1, h)
  BY <1>1, <1>3
<1> DEFINE g == [s \in SUBSET (1..m) |->
                IF m \in s THEN Step(h[s \ {m}], tl[Index(tl)[m]], Index(tl)[m]) ELSE h[s]]
<1>5. ASSUME NEW s \in SUBSET (1..m)
      PROVE  g[s] = IF s = {} THEN NothingRead
                    ELSE Step(g[s \ {Max(s)}], tl[Index(tl)[Max(s)]], Index(tl)[Max(s)])
  <2>1. CASE m \in s
    <3>1. Max(s) = m /\ s # {} /\ s \ {m} \in SUBSET (1..m) /\ m \notin s \ {m}
      BY <1>1, <2>1, MaxOfSegment
    <3>2. g[s] = Step(h[s \ {m}], tl[Index(tl)[m]], Index(tl)[m]) /\ g[s \ {m}] = h[s \ {m}]
      BY <2>1, <3>1
    <3> HIDE DEF g
    <3> QED
      BY <3>1, <3>2
  <2>2. CASE m \notin s
    <3>1. s \in SUBSET (1..(m - 1))
      BY <1>1, <2>2
    <3>2. h[s] = IF s = {} THEN NothingRead
                 ELSE Step(h[s \ {Max(s)}], tl[Index(tl)[Max(s)]], Index(tl)[Max(s)])
      BY <1>4, <3>1, Zenon DEF Reading
    <3>3. s \ {Max(s)} \in SUBSET (1..m) /\ m \notin s \ {Max(s)}
      BY <2>2
    <3>4. g[s] = h[s] /\ g[s \ {Max(s)}] = h[s \ {Max(s)}]
      BY <2>2, <3>3
    <3> HIDE DEF g
    <3> QED
      BY <3>2, <3>4
  <2> QED
    BY <2>1, <2>2
<1>6. g = Reading(tl, m, g)
  <2>1. g = [s \in SUBSET (1..m) |-> g[s]]
    OBVIOUS
  <2> HIDE DEF g
  <2> QED
    BY <1>5, <2>1, Zenon DEF Reading
<1> HIDE DEF g
<1> QED
  BY <1>1, <1>6

\* One event of a solution, at an initial segment.
LEMMA ReadsNext ==
    ASSUME NEW S, NEW tl \in Seq(S), NEW h, h = Reading(tl, Len(tl), h),
           NEW k \in 1..Len(tl)
    PROVE  h[1..k] = Step(h[1..(k - 1)], tl[k], k)
<1>1. k \in Nat /\ 1..k \in SUBSET (1..k) /\ k \in 1..k /\ 1..k \in SUBSET (1..Len(tl))
      /\ (1..k) \ {k} = 1..(k - 1) /\ k \in DOMAIN tl
  BY LenProperties
<1>2. Max(1..k) = k
  BY <1>1, MaxOfSegment
<1>3. h[1..k] = IF 1..k = {} THEN NothingRead
                ELSE Step(h[(1..k) \ {Max(1..k)}], tl[Index(tl)[Max(1..k)]], Index(tl)[Max(1..k)])
  BY <1>1, Zenon DEF Reading
<1>4. Index(tl)[k] = k
  BY <1>1 DEF Index
<1> QED
  BY <1>1, <1>2, <1>3, <1>4

LEMMA ReadsFirst ==
    ASSUME NEW S, NEW tl \in Seq(S), NEW h, h = Reading(tl, Len(tl), h)
    PROVE  h[1..0] = NothingRead
<1>1. 1..0 \in SUBSET (1..Len(tl)) /\ 1..0 = {}
  BY LenProperties
<1> QED
  BY <1>1 DEF Reading

LEMMA ReadsSolve ==
    ASSUME NEW S, NEW tl \in Seq(S)
    PROVE  Reads(tl) = Reading(tl, Len(tl), Reads(tl))
<1>1. Len(tl) \in Nat
  BY LenProperties
<1>2. \E h : h = Reading(tl, Len(tl), h)
  BY <1>1, Readable
<1> QED
  BY <1>2, Zenon DEF Reads

LEMMA GroupedNothing == Grouped(<<>>) = NothingRead
<1>1. <<>> \in Seq(AnyEvent) /\ Len(<<>>) = 0
  OBVIOUS
<1> QED
  BY <1>1, GroupedIs, ReadsFirst, ReadsSolve

\* Reading a timeline that is one event longer takes one step more.
LEMMA GroupedAppend ==
    ASSUME NEW S, NEW tl \in Seq(S), NEW e \in S
    PROVE  Grouped(Append(tl, e)) = Step(Grouped(tl), e, Len(tl) + 1)
<1> DEFINE longer == Append(tl, e)
           n == Len(tl)
           h == Reads(tl)
           g == Reads(longer)
<1>1. /\ longer \in Seq(S) /\ Len(longer) = n + 1 /\ longer[n + 1] = e /\ n \in Nat
      /\ \A i \in 1..n : longer[i] = tl[i]
  BY AppendProperties, LenProperties
<1> HIDE DEF longer, n
<1>2. h = Reading(tl, Len(tl), h) /\ g = Reading(longer, Len(longer), g)
  BY <1>1, ReadsSolve
<1> HIDE DEF h, g
<1> DEFINE apart == {k \in 0..n : h[1..k] # g[1..k]}
<1>3. apart = {}
  <2> SUFFICES ASSUME apart # {} PROVE FALSE
    OBVIOUS
  <2>1. PICK k \in apart : \A j \in apart : ~(j < k)
    <3>1. apart \subseteq Nat
      BY <1>1
    <3> HIDE DEF apart
    <3> QED
      BY <3>1, LeastNumber
  <2>2. k \in 0..n /\ h[1..k] # g[1..k]
    BY <2>1
  <2>3. k # 0
    <3>1. h[1..0] = g[1..0]
      BY <1>1, <1>2, ReadsFirst
    <3> QED
      BY <2>2, <3>1
  <2>4. k - 1 \in 0..n /\ k - 1 < k /\ k \in 1..Len(tl) /\ k \in 1..Len(longer)
    BY <1>1, <2>2, <2>3 DEF n
  <2>5. h[1..(k - 1)] = g[1..(k - 1)]
    BY <2>1, <2>4
  <2> HIDE DEF apart
  <2>6. h[1..k] = Step(h[1..(k - 1)], tl[k], k) /\ g[1..k] = Step(g[1..(k - 1)], longer[k], k)
    BY <1>1, <1>2, <2>4, ReadsNext
  <2> QED
    BY <1>1, <2>2, <2>4, <2>5, <2>6 DEF n
<1>4. h[1..n] = g[1..n]
  BY <1>1, <1>3
<1>5. n + 1 \in 1..Len(longer) /\ (n + 1) - 1 = n
  BY <1>1
<1>6. g[1..(n + 1)] = Step(g[1..((n + 1) - 1)], longer[n + 1], n + 1)
  BY <1>1, <1>2, <1>5, ReadsNext
<1>7. Grouped(tl) = h[1..n] /\ Grouped(longer) = g[1..(n + 1)]
  BY <1>1, GroupedIs DEF h, g, n
<1> QED
  BY <1>1, <1>4, <1>5, <1>6, <1>7 DEF longer, n

-----------------------------------------------------------------------------
(* The runs of a timeline, for any timeline *)

AnyRun == [stage : Stages, steps : Seq(Nat)]

\* Between two batches no stage is open but the screen, which may have stayed so.
Tidy(acc) ==
    /\ acc = [open |-> acc.open, closed |-> acc.closed]
    /\ acc.open \in [Stages -> Seq(Nat)] /\ acc.closed \in Seq(AnyRun)
    /\ \A s \in Stages \ {"safety_screen"} : acc.open[s] = <<>>

LEMMA PairGrouped ==
    ASSUME NEW acc, Tidy(acc), NEW s \in Stages, acc.open[s] = <<>>,
           NEW e, e.stage = s, e.type \in TerminalEvents, NEW i \in Nat, NEW j \in Nat
    PROVE  Step(Step(acc, Started(s), i), e, j)
             = [open |-> acc.open, closed |-> Append(acc.closed, Run(s, <<i, j>>))]
<1>1. Started(s).type = "stage_started" /\ Started(s).stage = s
  BY DEF Started, Ev, Event
<1>2. Step(acc, Started(s), i) = [open |-> [acc.open EXCEPT ![s] = <<i>>], closed |-> acc.closed]
  BY <1>1 DEF Step, Staged
<1> DEFINE mid == [open |-> [acc.open EXCEPT ![s] = <<i>>], closed |-> acc.closed]
<1>3. mid.open[s] = <<i>> /\ mid.closed = acc.closed /\ [mid.open EXCEPT ![s] = <<>>] = acc.open
  BY DEF Tidy
<1> HIDE DEF mid
<1>4. Append(<<i>>, j) = <<i, j>>
  <2>1. Append(<<i>>, j) = <<i>> \o <<j>>
    BY <<i>> \in Seq(Nat), AppendIsConcat
  <2> QED
    BY <2>1, PairIs
<1>5. Staged(e) /\ e.type # "stage_started"
  BY DEF Staged, TerminalEvents
<1>6. Step(mid, e, j) = [open |-> [mid.open EXCEPT ![s] = <<>>],
                         closed |-> Append(mid.closed, Run(s, Append(mid.open[s], j)))]
  BY <1>5, Zenon DEF Step
<1> QED
  BY <1>2, <1>3, <1>4, <1>6 DEF mid

LEMMA LoneGrouped ==
    ASSUME NEW acc, Tidy(acc), NEW s \in Stages, acc.open[s] = <<>>,
           NEW e, e.stage = s, e.type \in TerminalEvents, NEW i \in Nat
    PROVE  Step(acc, e, i) = [open |-> acc.open, closed |-> Append(acc.closed, Run(s, <<i>>))]
<1>1. Staged(e) /\ e.type # "stage_started" /\ Append(<<>>, i) = <<i>>
  BY DEF Staged, TerminalEvents
<1>2. [acc.open EXCEPT ![s] = <<>>] = acc.open
  BY DEF Tidy
<1> QED
  BY <1>1, <1>2 DEF Step

\* One run more.
LEMMA RunsWith ==
    ASSUME NEW acc, Tidy(acc), NEW run \in AnyRun
    PROVE  LET more == [open |-> acc.open, closed |-> Append(acc.closed, run)]
           IN  Tidy(more) /\ RunsIn(more) = RunsIn(acc) \cup {run}
<1> DEFINE more == [open |-> acc.open, closed |-> Append(acc.closed, run)]
<1>1. more.open = acc.open /\ more.closed = Append(acc.closed, run)
  OBVIOUS
<1>2. /\ more.closed \in Seq(AnyRun)
      /\ ToSet(more.closed) = ToSet(acc.closed) \cup {run}
  <2>1. /\ Append(acc.closed, run) \in Seq(AnyRun)
        /\ Len(Append(acc.closed, run)) = Len(acc.closed) + 1
        /\ \A i \in 1..Len(acc.closed) : Append(acc.closed, run)[i] = acc.closed[i]
        /\ Append(acc.closed, run)[Len(acc.closed) + 1] = run
    BY AppendProperties DEF Tidy
  <2>2. /\ Len(acc.closed) \in Nat /\ DOMAIN acc.closed = 1..Len(acc.closed)
        /\ DOMAIN Append(acc.closed, run) = 1..(Len(acc.closed) + 1)
    BY <2>1, LenProperties DEF Tidy
  <2>3. ToSet(Append(acc.closed, run)) = ToSet(acc.closed) \cup {run}
    BY <2>1, <2>2 DEF ToSet
  <2> QED
    BY <1>1, <2>1, <2>3
<1>3. Tidy(more)
  BY <1>1, <1>2 DEF Tidy
<1>4. RunsIn(more) = RunsIn(acc) \cup {run}
  <2> HIDE DEF more
  <2> QED
    BY <1>1, <1>2 DEF RunsIn
<1> QED
  BY <1>3, <1>4
-----------------------------------------------------------------------------
(* What is right about the runs of a timeline, given the ledger *)

LastIn(tl, run) == tl[Last(run.steps)]
NamingIn(tl, steps) == {k \in DOMAIN steps : tl[steps[k]].call # 0}
CallIn(tl, run) ==
    IF NamingIn(tl, run.steps) = {} THEN 0
    ELSE tl[run.steps[Min(NamingIn(tl, run.steps))]].call
Fell(tl) ==
    {run.stage : run \in {q \in RunsIn(Grouped(tl)) : LastIn(tl, q).type = "fallback_used"}}

\* A run has its own calls, and an ending unless a raised alert was the ending.
RunSound(run, tl, ledger, alerted) ==
    /\ run \in AnyRun /\ run.steps # <<>> /\ \A k \in DOMAIN run.steps : run.steps[k] \in DOMAIN tl
    /\ CallIn(tl, run) # 0 =>
        CallIn(tl, run) \in DOMAIN ledger /\ ledger[CallIn(tl, run)] = run.stage
    /\ LastIn(tl, run).type \in TerminalEvents \/ (run.stage = "safety_screen" /\ alerted)

InTurn(a, b, tl) ==
    CallIn(tl, a) # 0 /\ CallIn(tl, b) # 0 /\ a.stage = b.stage /\ Head(a.steps) < Head(b.steps)
        => CallIn(tl, a) <= CallIn(tl, b)

Sound(tl, ledger, alerted) ==
    /\ tl \in Seq(AnyEvent) /\ ledger \in Seq(Stages) /\ Tidy(Grouped(tl))
    /\ \A run \in RunsIn(Grouped(tl)) : RunSound(run, tl, ledger, alerted)
    /\ \A a, b \in RunsIn(Grouped(tl)) : InTurn(a, b, tl)

\* The latest call of a stage.
Latest(ledger, stage, call) ==
    /\ call \in DOMAIN ledger /\ ledger[call] = stage
    /\ \A k \in DOMAIN ledger : k > call => ledger[k] # stage

LEMMA RunsReadAlike ==
    ASSUME NEW tl, NEW longer, \A i \in DOMAIN tl : longer[i] = tl[i],
           NEW run \in AnyRun, run.steps # <<>>, \A k \in DOMAIN run.steps : run.steps[k] \in DOMAIN tl
    PROVE  CallIn(longer, run) = CallIn(tl, run) /\ LastIn(longer, run) = LastIn(tl, run)
<1>1. run.steps \in Seq(Nat) /\ Len(run.steps) \in Nat /\ DOMAIN run.steps = 1..Len(run.steps)
  BY LenProperties DEF AnyRun
<1>2. Len(run.steps) \in DOMAIN run.steps
  BY <1>1, EmptySeq
<1>3. LastIn(longer, run) = LastIn(tl, run)
  BY <1>2 DEF LastIn, Last
<1>4. NamingIn(longer, run.steps) = NamingIn(tl, run.steps)
  BY DEF NamingIn
<1>5. CASE NamingIn(tl, run.steps) = {}
  BY <1>3, <1>4, <1>5, Zenon DEF CallIn
<1>6. CASE NamingIn(tl, run.steps) # {}
  <2> DEFINE N == NamingIn(tl, run.steps)
  <2>1. N \subseteq DOMAIN run.steps /\ N \subseteq Nat /\ N # {}
    BY <1>1, <1>6 DEF NamingIn
  <2>2. PICK m \in N : \A k \in N : ~(k < m)
    <3> HIDE DEF N
    <3> QED
      BY <2>1, LeastNumber
  <2>3. \A k \in N : m <= k
    BY <2>1, <2>2
  <2>4. Min(N) \in N
    BY <2>3, Zenon DEF Min
  <2>5. /\ CallIn(tl, run) = tl[run.steps[Min(N)]].call
        /\ CallIn(longer, run) = longer[run.steps[Min(N)]].call
    BY <1>4, <1>6, Zenon DEF CallIn
  <2> HIDE DEF N
  <2>6. longer[run.steps[Min(N)]] = tl[run.steps[Min(N)]]
    BY <2>1, <2>4
  <2> QED
    BY <1>3, <2>5, <2>6
<1> QED
  BY <1>5, <1>6

LEMMA CallOfPair ==
    ASSUME NEW tl, NEW stage, NEW i \in Nat, NEW j \in Nat, tl[i].call = 0
    PROVE  CallIn(tl, Run(stage, <<i, j>>)) = tl[j].call
           /\ LastIn(tl, Run(stage, <<i, j>>)) = tl[j]
<1> DEFINE steps == <<i, j>>
<1>1. DOMAIN steps = {1, 2} /\ steps[1] = i /\ steps[2] = j /\ Len(steps) = 2
  OBVIOUS
<1>2. Run(stage, <<i, j>>).steps = steps
  BY DEF Run
<1> HIDE DEF steps
<1>3. LastIn(tl, Run(stage, <<i, j>>)) = tl[j]
  BY <1>1, <1>2 DEF LastIn, Last
<1>4. NamingIn(tl, steps) = IF tl[j].call = 0 THEN {} ELSE {2}
  BY <1>1 DEF NamingIn
<1>5. Min({2}) = 2
  <2>1. \E x \in {2} : \A y \in {2} : x <= y
    OBVIOUS
  <2> QED
    BY <2>1, Zenon DEF Min
<1>6. CallIn(tl, Run(stage, <<i, j>>)) = tl[j].call
  BY <1>1, <1>2, <1>4, <1>5 DEF CallIn
<1> QED
  BY <1>3, <1>6

LEMMA CallOfLone ==
    ASSUME NEW tl, NEW stage, NEW i \in Nat
    PROVE  CallIn(tl, Run(stage, <<i>>)) = tl[i].call
           /\ LastIn(tl, Run(stage, <<i>>)) = tl[i]
<1> DEFINE steps == <<i>>
<1>1. DOMAIN steps = {1} /\ steps[1] = i /\ Len(steps) = 1
  OBVIOUS
<1>2. Run(stage, <<i>>).steps = steps
  BY DEF Run
<1> HIDE DEF steps
<1>3. LastIn(tl, Run(stage, <<i>>)) = tl[i]
  BY <1>1, <1>2 DEF LastIn, Last
<1>4. NamingIn(tl, steps) = IF tl[i].call = 0 THEN {} ELSE {1}
  BY <1>1 DEF NamingIn
<1>5. Min({1}) = 1
  <2>1. \E x \in {1} : \A y \in {1} : x <= y
    OBVIOUS
  <2> QED
    BY <2>1, Zenon DEF Min
<1>6. CallIn(tl, Run(stage, <<i>>)) = tl[i].call
  BY <1>1, <1>2, <1>4, <1>5 DEF CallIn
<1> QED
  BY <1>3, <1>6
\* A timeline that is longer by one finished run.
RunMore(tl, longer, run) ==
    Grouped(longer) = [open |-> Grouped(tl).open, closed |-> Append(Grouped(tl).closed, run)]
FellMore(tl, longer, stage, e) ==
    Fell(longer) = Fell(tl) \cup (IF e.type = "fallback_used" THEN {stage} ELSE {})

LEMMA OneMoreRun ==
    ASSUME NEW tl, NEW longer, NEW ledger, NEW alerted, Sound(tl, ledger, alerted),
           longer \in Seq(AnyEvent), Len(longer) >= Len(tl),
           \A i \in DOMAIN tl : longer[i] = tl[i],
           NEW run \in AnyRun, RunSound(run, longer, ledger, alerted),
           Head(run.steps) > Len(tl),
           CallIn(longer, run) # 0 => Latest(ledger, run.stage, CallIn(longer, run)),
           RunMore(tl, longer, run)
    PROVE  /\ Sound(longer, ledger, alerted)
           /\ FellMore(tl, longer, run.stage, LastIn(longer, run))
<1> DEFINE R == RunsIn(Grouped(tl))
<1>1. Tidy(Grouped(longer)) /\ RunsIn(Grouped(longer)) = R \cup {run}
  BY RunsWith DEF Sound, RunMore
<1>2. \A q \in R : RunSound(q, tl, ledger, alerted)
  BY DEF Sound
<1>3. /\ Len(tl) \in Nat /\ DOMAIN tl = 1..Len(tl)
      /\ Len(longer) \in Nat /\ DOMAIN longer = 1..Len(longer)
  BY LenProperties DEF Sound
<1>4. \A q \in R : CallIn(longer, q) = CallIn(tl, q) /\ LastIn(longer, q) = LastIn(tl, q)
  <2> TAKE q \in R
  <2>1. RunSound(q, tl, ledger, alerted)
    BY <1>2
  <2> QED
    BY <2>1, RunsReadAlike DEF RunSound
<1> HIDE DEF R
<1>5. \A q \in R : RunSound(q, longer, ledger, alerted)
  <2> TAKE q \in R
  <2>1. RunSound(q, tl, ledger, alerted) /\ CallIn(longer, q) = CallIn(tl, q)
        /\ LastIn(longer, q) = LastIn(tl, q)
    BY <1>2, <1>4
  <2>2. \A k \in DOMAIN q.steps : q.steps[k] \in DOMAIN longer
    BY <1>3, <2>1 DEF RunSound
  <2> QED
    BY <2>1, <2>2 DEF RunSound
<1>6. \A q \in R : Head(q.steps) \in 1..Len(tl)
  <2> TAKE q \in R
  <2>1. RunSound(q, tl, ledger, alerted)
    BY <1>2
  <2>2. 1 \in DOMAIN q.steps /\ Head(q.steps) = q.steps[1]
    <3>1. q.steps \in Seq(Nat) /\ q.steps # <<>>
      BY <2>1 DEF RunSound, AnyRun
    <3> QED
      BY <3>1, LenProperties, EmptySeq, HeadTailProperties
  <2>3. q.steps[1] \in 1..Len(tl)
    BY <1>3, <2>1, <2>2 DEF RunSound
  <2> QED
    BY <2>2, <2>3
<1>7. Head(run.steps) \in Nat
  <2>1. run.steps \in Seq(Nat) /\ run.steps # <<>>
    BY DEF RunSound, AnyRun
  <2> QED
    BY <2>1, HeadTailProperties
<1>8. ASSUME NEW a \in R \cup {run}, NEW b \in R \cup {run} PROVE InTurn(a, b, longer)
  <2>1. CASE a \in R /\ b \in R
    <3>1. InTurn(a, b, tl)
      BY <2>1 DEF Sound, R
    <3> QED
      BY <1>4, <2>1, <3>1 DEF InTurn
  <2>2. CASE a \in R /\ b = run
    <3>1. RunSound(a, longer, ledger, alerted)
      BY <1>5, <2>2
    <3>2. /\ DOMAIN ledger \subseteq Nat
      BY LenProperties DEF Sound
    <3>3. SUFFICES ASSUME CallIn(longer, a) # 0, CallIn(longer, run) # 0, a.stage = run.stage
                   PROVE  CallIn(longer, a) <= CallIn(longer, run)
      BY <2>2 DEF InTurn
    <3>4. /\ CallIn(longer, a) \in DOMAIN ledger /\ ledger[CallIn(longer, a)] = run.stage
          /\ CallIn(longer, run) \in DOMAIN ledger
          /\ \A k \in DOMAIN ledger : k > CallIn(longer, run) => ledger[k] # run.stage
      BY <3>1, <3>3 DEF RunSound, Latest
    <3> QED
      BY <3>2, <3>4
  <2>3. CASE a = run
    <3>1. ~(Head(a.steps) < Head(b.steps))
      BY <1>3, <1>6, <1>7, <2>3
    <3> QED
      BY <3>1 DEF InTurn
  <2> QED
    BY <2>1, <2>2, <2>3
<1>9. Sound(longer, ledger, alerted)
  BY <1>1, <1>5, <1>8 DEF Sound
<1>10. FellMore(tl, longer, run.stage, LastIn(longer, run))
  BY <1>1, <1>4 DEF Fell, FellMore, R
<1> QED
  BY <1>9, <1>10

\* More calls in the ledger.
LEMMA LedgerSound ==
    ASSUME NEW tl, NEW ledger, NEW more \in Seq(Stages), NEW alerted, Sound(tl, ledger, alerted)
    PROVE  Sound(tl, ledger \o more, alerted)
<1>1. ledger \o more \in Seq(Stages)
      /\ \A c \in DOMAIN ledger : c \in DOMAIN (ledger \o more) /\ (ledger \o more)[c] = ledger[c]
  BY Extends, ConcatProperties DEF Sound
<1> QED
  BY <1>1 DEF Sound, RunSound

\* An event without a stage of its own.
LEMMA UnstagedSound ==
    ASSUME NEW tl, NEW ledger, NEW alerted, Sound(tl, ledger, alerted),
           NEW e \in AnyEvent, ~Staged(e)
    PROVE  Sound(tl \o <<e>>, ledger, alerted) /\ Fell(tl \o <<e>>) = Fell(tl)
<1> DEFINE longer == tl \o <<e>>
<1>1. tl \in Seq(AnyEvent)
  BY DEF Sound
<1>2. /\ longer = Append(tl, e) /\ longer \in Seq(AnyEvent)
      /\ \A i \in DOMAIN tl : i \in DOMAIN longer /\ longer[i] = tl[i]
  BY <1>1, AppendIsConcat, AppendProperties, LenProperties
<1> HIDE DEF longer
<1>3. Grouped(longer) = Grouped(tl)
  <2>1. Grouped(longer) = Step(Grouped(tl), e, Len(tl) + 1)
    BY <1>1, <1>2, GroupedAppend
  <2> QED
    BY <2>1 DEF Step
<1> DEFINE R == RunsIn(Grouped(tl))
<1>4. \A q \in R : /\ RunSound(q, longer, ledger, alerted)
                   /\ CallIn(longer, q) = CallIn(tl, q) /\ LastIn(longer, q) = LastIn(tl, q)
  <2> TAKE q \in R
  <2>1. RunSound(q, tl, ledger, alerted)
    BY DEF Sound
  <2>2. CallIn(longer, q) = CallIn(tl, q) /\ LastIn(longer, q) = LastIn(tl, q)
    BY <1>2, <2>1, RunsReadAlike DEF RunSound
  <2> QED
    BY <1>2, <2>1, <2>2 DEF RunSound
<1>5. \A a, b \in R : InTurn(a, b, longer)
  BY <1>4 DEF Sound, InTurn
<1>6. Sound(longer, ledger, alerted)
  BY <1>2, <1>3, <1>4, <1>5 DEF Sound
<1>7. Fell(longer) = Fell(tl)
  BY <1>3, <1>4 DEF Fell
<1> QED
  BY <1>6, <1>7 DEF longer
\* Two events: a stage that is not open starts and ends.
LEMMA PairSound ==
    ASSUME NEW tl, NEW ledger, NEW alerted, Sound(tl, ledger, alerted),
           NEW s \in Stages, Grouped(tl).open[s] = <<>>,
           NEW e \in AnyEvent, e.stage = s, e.type \in TerminalEvents,
           e.call # 0 => Latest(ledger, s, e.call)
    PROVE  LET longer == tl \o <<Started(s), e>>
           IN  /\ Sound(longer, ledger, alerted)
               /\ FellMore(tl, longer, s, e)
               /\ Grouped(longer).open = Grouped(tl).open
<1> DEFINE n == Len(tl)
           begun == Append(tl, Started(s))
           longer == Append(begun, e)
           run == Run(s, <<n + 1, n + 2>>)
<1>1. tl \in Seq(AnyEvent) /\ Started(s) \in AnyEvent /\ Started(s).call = 0 /\ n \in Nat
  BY SaysStarted, LenProperties DEF Sound, Started, Ev, Event
<1>2. /\ begun \in Seq(AnyEvent) /\ Len(begun) = n + 1 /\ begun[n + 1] = Started(s)
      /\ \A i \in 1..n : begun[i] = tl[i]
  BY <1>1, AppendProperties
<1>3. tl \o <<Started(s), e>> = longer
  <2>1. begun = tl \o <<Started(s)>> /\ longer = begun \o <<e>>
    BY <1>1, <1>2, AppendIsConcat
  <2>2. <<Started(s), e>> = <<Started(s)>> \o <<e>>
    BY <1>1, PairIs
  <2>3. tl \o (<<Started(s)>> \o <<e>>) = (tl \o <<Started(s)>>) \o <<e>>
    BY <1>1, ConcatAssociative, <<Started(s)>> \in Seq(AnyEvent), <<e>> \in Seq(AnyEvent)
  <2> QED
    BY <2>1, <2>2, <2>3
<1> HIDE DEF begun
<1>4. /\ longer \in Seq(AnyEvent) /\ Len(longer) = n + 2 /\ longer[n + 2] = e
      /\ longer[n + 1] = Started(s) /\ \A i \in 1..n : longer[i] = tl[i]
  <2>1. /\ longer \in Seq(AnyEvent) /\ Len(longer) = (n + 1) + 1 /\ longer[(n + 1) + 1] = e
        /\ \A i \in 1..(n + 1) : longer[i] = begun[i]
    BY <1>2, AppendProperties
  <2>2. (n + 1) + 1 = n + 2 /\ n + 1 \in 1..(n + 1) /\ 1..n \subseteq 1..(n + 1)
    BY <1>1
  <2> QED
    BY <1>2, <2>1, <2>2
<1>5. Grouped(longer) = [open |-> Grouped(tl).open, closed |-> Append(Grouped(tl).closed, run)]
  <2>1. Grouped(begun) = Step(Grouped(tl), Started(s), n + 1)
    BY <1>1, GroupedAppend DEF begun
  <2>2. Grouped(longer) = Step(Grouped(begun), e, (n + 1) + 1)
    BY <1>2, GroupedAppend
  <2>3. (n + 1) + 1 = n + 2 /\ n + 1 \in Nat /\ n + 2 \in Nat
    BY <1>1
  <2>4. Tidy(Grouped(tl))
    BY DEF Sound
  <2>5. Step(Step(Grouped(tl), Started(s), n + 1), e, n + 2)
          = [open |-> Grouped(tl).open,
             closed |-> Append(Grouped(tl).closed, Run(s, <<n + 1, n + 2>>))]
    <3> HIDE DEF n
    <3>1. ASSUME NEW i \in Nat, NEW j \in Nat
          PROVE  Step(Step(Grouped(tl), Started(s), i), e, j)
                   = [open |-> Grouped(tl).open,
                      closed |-> Append(Grouped(tl).closed, Run(s, <<i, j>>))]
      BY <2>4, PairGrouped
    <3> QED
      BY <2>3, <3>1, Zenon
  <2> HIDE DEF n, longer
  <2> QED
    BY <2>1, <2>2, <2>3, <2>5
<1> HIDE DEF longer
<1>6. /\ run \in AnyRun /\ run.steps = <<n + 1, n + 2>> /\ run.stage = s
      /\ run.steps # <<>> /\ DOMAIN run.steps = {1, 2} /\ Head(run.steps) = n + 1
      /\ run.steps[1] = n + 1 /\ run.steps[2] = n + 2
  BY <1>1 DEF Run, AnyRun
<1>7. CallIn(longer, run) = e.call /\ LastIn(longer, run) = e
  BY <1>1, <1>4, CallOfPair
<1> HIDE DEF run
<1>8. RunSound(run, longer, ledger, alerted)
  <2>1. \A k \in DOMAIN run.steps : run.steps[k] \in DOMAIN longer
    <3>1. DOMAIN longer = 1..(n + 2) /\ n + 1 \in 1..(n + 2) /\ n + 2 \in 1..(n + 2)
      BY <1>1, <1>4, LenProperties
    <3> QED
      BY <1>6, <3>1
  <2> QED
    BY <1>6, <1>7, <2>1 DEF RunSound, Latest
<1>9. Len(longer) >= Len(tl) /\ Head(run.steps) > Len(tl) /\ DOMAIN tl = 1..n
  BY <1>1, <1>4, <1>6, LenProperties
<1>10. Sound(longer, ledger, alerted) /\ FellMore(tl, longer, run.stage, LastIn(longer, run))
  <2>1. CallIn(longer, run) # 0 => Latest(ledger, run.stage, CallIn(longer, run))
    BY <1>6, <1>7
  <2>2. \A i \in DOMAIN tl : longer[i] = tl[i]
    BY <1>4, <1>9
  <2>3. run \in AnyRun /\ Sound(tl, ledger, alerted)
    BY <1>6
  <2>4. /\ longer \in Seq(AnyEvent) /\ Len(longer) >= Len(tl) /\ Head(run.steps) > Len(tl)
        /\ RunSound(run, longer, ledger, alerted)
    BY <1>4, <1>8, <1>9
  <2>5. RunMore(tl, longer, run)
    BY <1>5, Zenon DEF RunMore
  <2> HIDE DEF n
  <2> QED
    BY <2>1, <2>2, <2>3, <2>4, <2>5, OneMoreRun, Zenon
<1>11. FellMore(tl, longer, s, e)
  BY <1>6, <1>7, <1>10
<1>12. Grouped(longer).open = Grouped(tl).open
  BY <1>5
<1> QED
  BY <1>3, <1>10, <1>11, <1>12

\* One event: a stage that is not open ends, without a start.
LEMMA LoneSound ==
    ASSUME NEW tl, NEW ledger, NEW alerted, Sound(tl, ledger, alerted),
           NEW s \in Stages, Grouped(tl).open[s] = <<>>,
           NEW e \in AnyEvent, e.stage = s, e.type \in TerminalEvents,
           e.call # 0 => Latest(ledger, s, e.call)
    PROVE  LET longer == tl \o <<e>>
           IN  /\ Sound(longer, ledger, alerted)
               /\ FellMore(tl, longer, s, e)
               /\ Grouped(longer).open = Grouped(tl).open
<1> DEFINE n == Len(tl)
           longer == Append(tl, e)
           run == Run(s, <<n + 1>>)
<1>1. tl \in Seq(AnyEvent) /\ n \in Nat
  BY LenProperties DEF Sound
<1>2. /\ longer \in Seq(AnyEvent) /\ Len(longer) = n + 1 /\ longer[n + 1] = e
      /\ \A i \in 1..n : longer[i] = tl[i]
  BY <1>1, AppendProperties
<1>3. tl \o <<e>> = longer
  BY <1>1, AppendIsConcat
<1>4. Grouped(longer) = [open |-> Grouped(tl).open, closed |-> Append(Grouped(tl).closed, run)]
  <2>1. Grouped(longer) = Step(Grouped(tl), e, n + 1)
    BY <1>1, GroupedAppend
  <2>2. n + 1 \in Nat
    BY <1>1
  <2>3. Tidy(Grouped(tl))
    BY DEF Sound
  <2>4. Step(Grouped(tl), e, n + 1)
          = [open |-> Grouped(tl).open,
             closed |-> Append(Grouped(tl).closed, Run(s, <<n + 1>>))]
    <3> HIDE DEF n
    <3> QED
      BY <2>2, <2>3, LoneGrouped
  <2> HIDE DEF n, longer
  <2> QED
    BY <2>1, <2>4
<1> HIDE DEF longer
<1>5. /\ run \in AnyRun /\ run.steps = <<n + 1>> /\ run.stage = s
      /\ run.steps # <<>> /\ DOMAIN run.steps = {1} /\ Head(run.steps) = n + 1
      /\ run.steps[1] = n + 1
  BY <1>1 DEF Run, AnyRun
<1>6. CallIn(longer, run) = e.call /\ LastIn(longer, run) = e
  BY <1>1, <1>2, CallOfLone
<1> HIDE DEF run
<1>7. RunSound(run, longer, ledger, alerted)
  <2>1. \A k \in DOMAIN run.steps : run.steps[k] \in DOMAIN longer
    <3>1. DOMAIN longer = 1..(n + 1) /\ n + 1 \in 1..(n + 1)
      BY <1>1, <1>2, LenProperties
    <3> QED
      BY <1>5, <3>1
  <2> QED
    BY <1>5, <1>6, <2>1 DEF RunSound, Latest
<1>8. Len(longer) >= Len(tl) /\ Head(run.steps) > Len(tl) /\ DOMAIN tl = 1..n
  BY <1>1, <1>2, <1>5, LenProperties
<1>9. Sound(longer, ledger, alerted) /\ FellMore(tl, longer, run.stage, LastIn(longer, run))
  <2>1. CallIn(longer, run) # 0 => Latest(ledger, run.stage, CallIn(longer, run))
    BY <1>5, <1>6
  <2>2. \A i \in DOMAIN tl : longer[i] = tl[i]
    BY <1>2, <1>8
  <2>3. run \in AnyRun /\ Sound(tl, ledger, alerted)
    BY <1>5
  <2>4. /\ longer \in Seq(AnyEvent) /\ Len(longer) >= Len(tl) /\ Head(run.steps) > Len(tl)
        /\ RunSound(run, longer, ledger, alerted)
    BY <1>2, <1>7, <1>8
  <2>5. RunMore(tl, longer, run)
    BY <1>4, Zenon DEF RunMore
  <2> HIDE DEF n
  <2> QED
    BY <2>1, <2>2, <2>3, <2>4, <2>5, OneMoreRun, Zenon
<1>10. FellMore(tl, longer, s, e)
  BY <1>5, <1>6, <1>9
<1>11. Grouped(longer).open = Grouped(tl).open
  BY <1>4
<1> QED
  BY <1>3, <1>9, <1>10, <1>11
-----------------------------------------------------------------------------
(* The batches of events the agents emit *)

LEMMA StageFree ==
    ASSUME NEW tl, NEW ledger, NEW alerted, Sound(tl, ledger, alerted),
           NEW s \in Stages \ {"safety_screen"}
    PROVE  Grouped(tl).open[s] = <<>>
  BY DEF Sound, Tidy

\* The terminal events of a stage, and the events that have none.
LEMMA Terminals ==
    ASSUME NEW s \in Stages
    PROVE  /\ \A call \in Nat :
                /\ Completed(s, call) \in AnyEvent /\ Completed(s, call).stage = s
                /\ Completed(s, call).type \in TerminalEvents /\ Completed(s, call).call = call
                /\ Completed(s, call).type # "fallback_used"
           /\ Failed(s, "") \in AnyEvent /\ Failed(s, "").stage = s
           /\ Failed(s, "").type \in TerminalEvents /\ Failed(s, "").call = 0
           /\ Failed(s, "").type # "fallback_used"
           /\ \A reason \in Reasons \cup {""} :
                /\ Fallback(s, reason) \in AnyEvent /\ Fallback(s, reason).stage = s
                /\ Fallback(s, reason).type \in TerminalEvents /\ Fallback(s, reason).call = 0
                /\ Fallback(s, reason).type = "fallback_used"
<1>1. \A call \in Nat : Completed(s, call) \in AnyEvent
  BY SaysCompleted
<1>2. Failed(s, "") \in AnyEvent
  BY SaysFailed
<1>3. \A reason \in Reasons \cup {""} : Fallback(s, reason) \in AnyEvent
  BY SaysFallback
<1>4. \A call : /\ Completed(s, call).stage = s /\ Completed(s, call).type = "stage_completed"
                /\ Completed(s, call).call = call
  BY DEF Completed, Event
<1>5. Failed(s, "").stage = s /\ Failed(s, "").type = "stage_failed" /\ Failed(s, "").call = 0
  BY DEF Failed, Ev, Event
<1>6. \A reason : /\ Fallback(s, reason).stage = s /\ Fallback(s, reason).type = "fallback_used"
                  /\ Fallback(s, reason).call = 0
  BY DEF Fallback, Ev, Event
<1> QED
  BY <1>1, <1>2, <1>3, <1>4, <1>5, <1>6 DEF TerminalEvents

LEMMA ChangedSound ==
    ASSUME NEW tl, NEW ledger, NEW alerted, Sound(tl, ledger, alerted),
           NEW frm \in States, NEW to \in States
    PROVE  LET longer == tl \o <<Changed(frm, to)>>
           IN  Sound(longer, ledger, alerted) /\ Fell(longer) = Fell(tl)
<1>1. Changed(frm, to) \in AnyEvent /\ ~Staged(Changed(frm, to))
  BY SaysChanged DEF Changed, Ev, Event, Staged
<1> HIDE DEF Changed
<1> QED
  BY <1>1, UnstagedSound

\* A template, with or without a refusal before it.
LEMMA TemplateSound ==
    ASSUME NEW tl, NEW ledger, NEW alerted, Sound(tl, ledger, alerted), NEW reason \in Reasons
    PROVE  LET longer == tl \o TemplateEvents(reason)
           IN  /\ Sound(longer, ledger, alerted)
               /\ Fell(longer) = Fell(tl) \cup {"generate_hint"}
<1> DEFINE s == "generate_hint"
           a == Started(s)
           b == Failed(s, "")
           c == Fallback(s, reason)
<1>1. s \in Stages /\ s \in Stages \ {"safety_screen"}
  BY DEF Stages
<1> HIDE DEF s
<1>2. /\ b \in AnyEvent /\ b.stage = s /\ b.type \in TerminalEvents /\ b.call = 0
      /\ b.type # "fallback_used"
      /\ c \in AnyEvent /\ c.stage = s /\ c.type \in TerminalEvents /\ c.call = 0
      /\ c.type = "fallback_used" /\ a \in AnyEvent /\ tl \in Seq(AnyEvent)
  <2>1. reason \in Reasons \cup {""}
    OBVIOUS
  <2>2. a \in AnyEvent /\ tl \in Seq(AnyEvent)
    BY <1>1, SaysStarted DEF Sound
  <2> QED
    BY <1>1, <2>1, <2>2, Terminals, Zenon
<1>3. Grouped(tl).open[s] = <<>>
  BY <1>1, StageFree
<1>4. TemplateEvents(reason) = <<a>> \o (IF deps.template THEN <<>> ELSE <<b>>) \o <<c>>
  BY DEF TemplateEvents, s
<1> HIDE DEF b, c
<1>5. CASE deps.template
  <2>1. TemplateEvents(reason) = <<a, c>>
    <3> HIDE DEF a
    <3>1. <<a>> \o <<>> = <<a>>
      OBVIOUS
    <3> QED
      BY <1>2, <1>4, <1>5, <3>1, PairIs
  <2>2. Sound(tl \o <<a, c>>, ledger, alerted) /\ FellMore(tl, tl \o <<a, c>>, s, c)
    BY <1>1, <1>2, <1>3, PairSound
  <2> QED
    BY <1>2, <2>1, <2>2 DEF FellMore, s
<1>6. CASE ~deps.template
  <2>1. tl \o TemplateEvents(reason) = (tl \o <<a, b>>) \o <<c>>
    <3> HIDE DEF a
    <3>1. <<a>> \o <<b>> = <<a, b>>
      BY <1>2, PairIs
    <3>2. <<a, b>> \in Seq(AnyEvent) /\ <<c>> \in Seq(AnyEvent)
      BY <1>2
    <3>3. TemplateEvents(reason) = <<a, b>> \o <<c>>
      BY <1>4, <1>6, <3>1
    <3> QED
      BY <1>2, <3>2, <3>3, ConcatAssociative
  <2> DEFINE mid == tl \o <<a, b>>
  <2>2. /\ Sound(mid, ledger, alerted) /\ FellMore(tl, mid, s, b)
        /\ Grouped(mid).open = Grouped(tl).open
    BY <1>1, <1>2, <1>3, PairSound
  <2> HIDE DEF mid
  <2>3. Sound(mid \o <<c>>, ledger, alerted) /\ FellMore(mid, mid \o <<c>>, s, c)
    BY <1>1, <1>2, <1>3, <2>2, LoneSound
  <2> QED
    BY <1>2, <2>1, <2>2, <2>3 DEF FellMore, mid, s
<1> QED
  BY <1>5, <1>6

LEMMA LeakOutcomesAsked ==
    \A o \in LeakOutcomes : o.passed /\ ~o.fallback => o.asked
<1> DEFINE Judged == [passed : BOOLEAN, ran : {TRUE}, fallback : {FALSE}, asked : {TRUE}]
<1>1. ASSUME NEW o \in Judged PROVE o.asked
  OBVIOUS
<1>2. ASSUME NEW o \in LeakOutcomes, o \notin Judged
      PROVE  o.passed /\ ~o.fallback => o.asked
  <2>1. PICK p \in BOOLEAN, f \in BOOLEAN, a \in BOOLEAN :
          /\ o = [passed |-> p, ran |-> FALSE, fallback |-> f, asked |-> a]
          /\ p => f
    BY <1>2, Zenon DEF LeakOutcomes
  <2> QED
    BY <2>1
<1> QED
  BY <1>1, <1>2

LEMMA LeakSound ==
    ASSUME NEW tl, NEW ledger, NEW alerted, Sound(tl, ledger, alerted),
           NEW o \in LeakOutcomes, NEW call \in Nat, o.asked => Latest(ledger, "leak_check", call)
    PROVE  LET longer == tl \o LeakEvents(o, call)
           IN  /\ Sound(longer, ledger, alerted)
               /\ Fell(longer) = Fell(tl) \cup (IF o.fallback THEN {"leak_check"} ELSE {})
<1> DEFINE s == "leak_check"
           e == IF o.fallback THEN Fallback(s, "")
                ELSE IF o.passed THEN Completed(s, call) ELSE Failed(s, "")
<1>1. s \in Stages /\ s \in Stages \ {"safety_screen"}
  BY DEF Stages
<1>2. LeakEvents(o, call) = <<Started(s), e>>
  BY DEF LeakEvents
<1>3. e.call # 0 => Latest(ledger, s, e.call)
  BY <1>1, Terminals, LeakOutcomesAsked
<1> HIDE DEF s
<1>4. /\ e \in AnyEvent /\ e.stage = s /\ e.type \in TerminalEvents
      /\ e.type = "fallback_used" <=> o.fallback
  BY <1>1, Terminals
<1> HIDE DEF e
<1>5. /\ Sound(tl \o <<Started(s), e>>, ledger, alerted)
      /\ FellMore(tl, tl \o <<Started(s), e>>, s, e)
  BY <1>1, <1>3, <1>4, StageFree, PairSound
<1> QED
  BY <1>2, <1>4, <1>5 DEF FellMore, s
-----------------------------------------------------------------------------
(* The screen, the first stage of a timeline *)

LEMMA NothingSound ==
    ASSUME NEW ledger \in Seq(Stages), NEW alerted
    PROVE  /\ Sound(<<>>, ledger, alerted) /\ Fell(<<>>) = {}
           /\ \A s \in Stages : Grouped(<<>>).open[s] = <<>>
<1>1. Grouped(<<>>) = NothingRead
  BY GroupedNothing
<1>2. RunsIn(NothingRead) = {} /\ Tidy(NothingRead)
      /\ \A s \in Stages : NothingRead.open[s] = <<>>
  <2>1. /\ NothingRead.open = [s \in Stages |-> <<>>] /\ NothingRead.closed = <<>>
        /\ NothingRead = [open |-> NothingRead.open, closed |-> NothingRead.closed]
    BY DEF NothingRead
  <2>2. ToSet(<<>>) = {} /\ <<>> \in Seq(AnyRun) /\ <<>> \in Seq(Nat)
    BY DEF ToSet
  <2>3. Tidy(NothingRead)
    BY <2>1, <2>2 DEF Tidy
  <2>4. RunsIn(NothingRead) = {}
    BY <2>1, <2>2 DEF RunsIn
  <2> QED
    BY <2>1, <2>3, <2>4
<1> QED
  BY <1>1, <1>2 DEF Sound, Fell

\* The call a run is shown with is named by one of its events.
LEMMA CallAmong ==
    ASSUME NEW tl, NEW run, CallIn(tl, run) # 0, DOMAIN run.steps \subseteq Nat
    PROVE  \E k \in DOMAIN run.steps : CallIn(tl, run) = tl[run.steps[k]].call
<1> DEFINE N == NamingIn(tl, run.steps)
<1>1. N # {}
  BY Zenon DEF CallIn
<1>2. N \subseteq DOMAIN run.steps
  BY DEF NamingIn
<1>3. CallIn(tl, run) = tl[run.steps[Min(N)]].call
  BY <1>1, Zenon DEF CallIn
<1> HIDE DEF N
<1>4. PICK m \in N : \A k \in N : ~(k < m)
  BY <1>1, <1>2, LeastNumber
<1>5. \A k \in N : m <= k
  BY <1>2, <1>4
<1>6. Min(N) \in N
  BY <1>5, Zenon DEF Min
<1> QED
  BY <1>2, <1>3, <1>6

\* A timeline that holds one run, of the screen.
LEMMA OnlyScreen ==
    ASSUME NEW tl \in Seq(AnyEvent), NEW ledger \in Seq(Stages), NEW alerted,
           NEW run \in AnyRun, run.stage = "safety_screen", run.steps # <<>>,
           Tidy(Grouped(tl)), RunsIn(Grouped(tl)) = {run},
           \A k \in DOMAIN run.steps :
              /\ run.steps[k] \in DOMAIN tl
              /\ tl[run.steps[k]].call # 0 => Latest(ledger, "safety_screen", tl[run.steps[k]].call),
           LastIn(tl, run).type \in TerminalEvents \/ alerted
    PROVE  Sound(tl, ledger, alerted)
<1>1. DOMAIN run.steps \subseteq Nat /\ Head(run.steps) \in Nat
  BY LenProperties, HeadTailProperties DEF AnyRun
<1>2. CallIn(tl, run) # 0 =>
        CallIn(tl, run) \in DOMAIN ledger /\ ledger[CallIn(tl, run)] = run.stage
  BY <1>1, CallAmong DEF Latest
<1>3. RunSound(run, tl, ledger, alerted)
  BY <1>2 DEF RunSound
<1>4. InTurn(run, run, tl)
  BY <1>1 DEF InTurn
<1> QED
  BY <1>3, <1>4 DEF Sound
\* Short sequences, one element at a time.
LEMMA PairAppends ==
    ASSUME NEW S, NEW a \in S, NEW b \in S
    PROVE  <<a, b>> = Append(<<a>>, b)
<1>1. <<a, b>> = <<a>> \o <<b>> /\ <<a>> \in Seq(S)
  BY PairIs
<1> QED
  BY <1>1, AppendIsConcat

LEMMA TripleAppends ==
    ASSUME NEW S, NEW a \in S, NEW b \in S, NEW c \in S
    PROVE  <<a, b, c>> = Append(<<a, b>>, c)
<1>1. <<a, b, c>> = <<a, b>> \o <<c>> /\ <<a, b>> \in Seq(S)
  BY TripleIs
<1> QED
  BY <1>1, AppendIsConcat

\* A screen that is flagged stays open until its fallback.
ScreenOpen(tl) ==
    Grouped(tl) = [open |-> [NothingRead.open EXCEPT !["safety_screen"] = <<1, 2>>], closed |-> <<>>]
ScreenEnded(tl) ==
    Grouped(tl) = [open |-> NothingRead.open, closed |-> <<Run("safety_screen", <<1, 2, 3>>)>>]

LEMMA FlagGrouped ==
    ASSUME NEW a, a = Started("safety_screen"),
           NEW f, f.stage = "safety_screen", f.type = "safety_flag",
           NEW c, c.stage = "safety_screen", c.type = "fallback_used",
           a \in AnyEvent, f \in AnyEvent, c \in AnyEvent
    PROVE  ScreenOpen(<<a, f>>) /\ ScreenEnded(<<a, f, c>>)
<1> DEFINE s == "safety_screen"
           one == [open |-> [NothingRead.open EXCEPT ![s] = <<1>>], closed |-> <<>>]
           two == [open |-> [NothingRead.open EXCEPT ![s] = <<1, 2>>], closed |-> <<>>]
<1>1. s \in Stages /\ NothingRead.open = [x \in Stages |-> <<>>] /\ NothingRead.closed = <<>>
  BY DEF Stages, NothingRead
<1>2. a.type = "stage_started" /\ a.stage = s
  BY DEF Started, Ev, Event
<1> HIDE DEF s
<1>3. Grouped(<<a>>) = one
  <2>1. <<a>> = Append(<<>>, a) /\ <<>> \in Seq(AnyEvent) /\ Len(<<>>) + 1 = 1
    OBVIOUS
  <2>2. Grouped(<<a>>) = Step(NothingRead, a, 1)
    BY <2>1, GroupedAppend, GroupedNothing
  <2>3. NothingRead.open[s] = <<>>
    BY <1>1
  <2> QED
    BY <1>1, <1>2, <2>2, <2>3 DEF Step, Staged
<1>4. one.open[s] = <<1>> /\ one.closed = <<>> /\ [one.open EXCEPT ![s] = <<1, 2>>] = two.open
      /\ one = [open |-> one.open, closed |-> one.closed]
  BY <1>1
<1>5. two.open[s] = <<1, 2>> /\ two.closed = <<>> /\ [two.open EXCEPT ![s] = <<>>] = NothingRead.open
  BY <1>1
<1>6. <<a, f>> = Append(<<a>>, f) /\ <<a>> \in Seq(AnyEvent) /\ Len(<<a>>) + 1 = 2
      /\ Append(<<1>>, 2) = <<1, 2>>
  <2>1. <<a, f>> = Append(<<a>>, f)
    BY PairAppends
  <2>2. Append(<<1>>, 2) = <<1, 2>>
    BY PairAppends, 1 \in Nat, 2 \in Nat
  <2> QED
    BY <2>1, <2>2
<1>7. Grouped(<<a, f>>) = two
  <2>1. Grouped(<<a, f>>) = Step(one, f, 2)
    <3> HIDE DEF one
    <3> QED
      BY <1>3, <1>6, GroupedAppend
  <2>2. Staged(f) /\ f.type # "stage_started" /\ f.type \notin TerminalEvents /\ f.stage = s
    BY DEF Staged, TerminalEvents, s
  <2>3. Step(one, f, 2) = [one EXCEPT !.open[s] = Append(one.open[s], 2)]
    <3> HIDE DEF one
    <3>1. one.open[s] # <<>>
      BY <1>4
    <3> QED
      BY <2>2, <3>1, Zenon DEF Step
  <2>4. [one EXCEPT !.open[s] = <<1, 2>>] = [open |-> [one.open EXCEPT ![s] = <<1, 2>>], closed |-> one.closed]
    OBVIOUS
  <2> QED
    BY <1>4, <1>6, <2>1, <2>3, <2>4
<1>8. <<a, f, c>> = Append(<<a, f>>, c) /\ <<a, f>> \in Seq(AnyEvent) /\ Len(<<a, f>>) + 1 = 3
      /\ Append(<<1, 2>>, 3) = <<1, 2, 3>>
  <2>1. <<a, f, c>> = Append(<<a, f>>, c)
    BY TripleAppends
  <2>2. Append(<<1, 2>>, 3) = <<1, 2, 3>>
    <3>1. \A i, j, k \in Nat : Append(<<i, j>>, k) = <<i, j, k>>
      BY TripleAppends, Zenon
    <3>2. 1 \in Nat /\ 2 \in Nat /\ 3 \in Nat
      OBVIOUS
    <3> QED
      BY <3>1, <3>2
  <2> QED
    BY <2>1, <2>2
<1>9. Grouped(<<a, f, c>>) = [open |-> NothingRead.open, closed |-> <<Run(s, <<1, 2, 3>>)>>]
  <2>1. Grouped(<<a, f, c>>) = Step(two, c, 3)
    <3> HIDE DEF two
    <3> QED
      BY <1>7, <1>8, GroupedAppend
  <2>2. Staged(c) /\ c.type # "stage_started" /\ c.type \in TerminalEvents /\ c.stage = s
    BY DEF Staged, TerminalEvents, s
  <2>3. Step(two, c, 3) = [open |-> [two.open EXCEPT ![s] = <<>>],
                           closed |-> Append(two.closed, Run(s, Append(two.open[s], 3)))]
    <3> HIDE DEF two
    <3> QED
      BY <2>2, Zenon DEF Step
  <2>4. Append(<<>>, Run(s, <<1, 2, 3>>)) = <<Run(s, <<1, 2, 3>>)>>
    OBVIOUS
  <2> HIDE DEF two
  <2> QED
    BY <1>5, <1>8, <2>1, <2>3, <2>4
<1> QED
  BY <1>7, <1>9, Zenon DEF s, ScreenOpen, ScreenEnded

LEMMA ScreenSound ==
    ASSUME NEW ledger \in Seq(Stages), NEW alerted, NEW o, NEW call \in Nat,
           o.flagged => alerted, call # 0 => Latest(ledger, "safety_screen", call)
    PROVE  LET tl == ScreenEvents(o, call)
           IN  Sound(tl, ledger, alerted) /\ (o.fallback => "safety_screen" \in Fell(tl))
<1> DEFINE s == "safety_screen"
           a == Started(s)
           f == Event("safety_flag", s, "", call)
           c == Fallback(s, "")
           d == Completed(s, call)
<1>1. s \in Stages /\ a \in AnyEvent
  BY SaysStarted DEF Stages
<1>2. /\ c \in AnyEvent /\ c.stage = s /\ c.type \in TerminalEvents /\ c.call = 0
      /\ c.type = "fallback_used"
  <2>1. "" \in Reasons \cup {""}
    OBVIOUS
  <2> QED
    BY <1>1, <2>1, Terminals, Zenon
<1>3. /\ d \in AnyEvent /\ d.stage = s /\ d.type \in TerminalEvents /\ d.call = call
      /\ d.type # "fallback_used"
  BY <1>1, Terminals, Zenon
<1>4. f \in AnyEvent /\ f.stage = s /\ f.type = "safety_flag" /\ f.call = call
  BY DEF Event, AnyEvent, EventTypes, Stages, States, Reasons
<1>5. ScreenEvents(o, call)
        = <<a>> \o (IF o.flagged THEN <<f>> ELSE <<>>) \o (IF o.fallback THEN <<c>> ELSE <<>>)
                \o (IF o.flagged \/ o.fallback THEN <<>> ELSE <<d>>)
  BY DEF ScreenEvents
<1>6. a.call = 0
  BY DEF Started, Ev, Event
<1>7. a = Started("safety_screen") /\ s = "safety_screen"
  OBVIOUS
<1> HIDE DEF a, f, c, d
<1>8. CASE ~o.flagged
  <2> DEFINE e == IF o.fallback THEN c ELSE d
  <2>1. /\ e \in AnyEvent /\ e.stage = s /\ e.type \in TerminalEvents
        /\ e.call # 0 => Latest(ledger, s, e.call)
        /\ o.fallback => e.type = "fallback_used"
    BY <1>2, <1>3
  <2>2. ScreenEvents(o, call) = <<>> \o <<a, e>>
    <3>1. ScreenEvents(o, call) = <<a>> \o <<e>>
      <4>1. <<a>> \o <<>> = <<a>>
        OBVIOUS
      <4>2. CASE o.fallback
        <5>1. (<<a>> \o <<c>>) \o <<>> = <<a>> \o <<c>>
          <6>1. <<a>> \o <<c>> \in Seq(AnyEvent)
            BY <1>1, <1>2, ConcatProperties
          <6> QED
            BY <6>1, ConcatEmptySeq
        <5> QED
          BY <1>5, <1>8, <4>1, <4>2, <5>1
      <4>3. CASE ~o.fallback
        BY <1>5, <1>8, <4>1, <4>3
      <4> QED
        BY <4>2, <4>3
    <3> HIDE DEF e
    <3>2. <<a>> \o <<e>> = <<a, e>>
      BY <1>1, <2>1, PairIs
    <3>3. <<>> \o <<a, e>> = <<a, e>>
      BY <1>1, <2>1, ConcatEmptySeq, <<a, e>> \in Seq(AnyEvent)
    <3> QED
      BY <3>1, <3>2, <3>3
  <2> HIDE DEF e
  <2>3. /\ Sound(<<>>, ledger, alerted) /\ Grouped(<<>>).open[s] = <<>>
    BY <1>1, NothingSound
  <2> HIDE DEF s
  <2>4. Sound(<<>> \o <<Started(s), e>>, ledger, alerted) /\ FellMore(<<>>, <<>> \o <<Started(s), e>>, s, e)
    BY <1>1, <2>1, <2>3, PairSound
  <2> QED
    BY <1>7, <2>1, <2>2, <2>4 DEF FellMore
<1>9. CASE o.flagged /\ ~o.fallback
  <2> DEFINE run == Run(s, <<1, 2>>)
             tl == <<a, f>>
  <2>1. ScreenEvents(o, call) = tl
    <3>1. ScreenEvents(o, call) = <<a>> \o <<f>>
      BY <1>1, <1>4, <1>5, <1>9
    <3> QED
      BY <1>1, <1>4, <3>1, PairIs
  <2>2. ScreenOpen(tl)
    BY <1>1, <1>2, <1>4, <1>7, FlagGrouped, Zenon
  <2>3. /\ tl \in Seq(AnyEvent) /\ DOMAIN tl = {1, 2} /\ tl[1] = a /\ tl[2] = f
    BY <1>1, <1>4
  <2>4. /\ run \in AnyRun /\ run.stage = s /\ run.steps = <<1, 2>> /\ run.steps # <<>>
        /\ DOMAIN run.steps = {1, 2} /\ run.steps[1] = 1 /\ run.steps[2] = 2
    BY <1>1 DEF Run, AnyRun
  <2> HIDE DEF tl
  <2>5. Tidy(Grouped(tl)) /\ RunsIn(Grouped(tl)) = {run}
    <3>1. /\ Grouped(tl).open = [NothingRead.open EXCEPT ![s] = <<1, 2>>]
          /\ Grouped(tl).closed = <<>>
          /\ Grouped(tl) = [open |-> Grouped(tl).open, closed |-> Grouped(tl).closed]
      BY <2>2 DEF ScreenOpen
    <3>2. NothingRead.open = [x \in Stages |-> <<>>]
      BY DEF NothingRead
    <3>3. /\ Grouped(tl).open = [x \in Stages |-> IF x = s THEN <<1, 2>> ELSE <<>>]
      BY <3>1, <3>2
    <3>4. ToSet(<<>>) = {} /\ <<>> \in Seq(AnyRun) /\ <<>> \in Seq(Nat) /\ <<1, 2>> \in Seq(Nat)
          /\ <<1, 2>> # <<>>
      BY DEF ToSet
    <3>5. Tidy(Grouped(tl))
      BY <3>1, <3>3, <3>4 DEF Tidy
    <3>6. {x \in Stages : Grouped(tl).open[x] # <<>>} = {s} /\ Grouped(tl).open[s] = <<1, 2>>
      BY <1>1, <3>3, <3>4
    <3>7. RunsIn(Grouped(tl)) = {run}
      BY <3>1, <3>4, <3>6 DEF RunsIn
    <3> QED
      BY <3>5, <3>7
  <2> HIDE DEF run
  <2>6. Sound(tl, ledger, alerted)
    BY <1>4, <1>6, <1>9, <2>3, <2>4, <2>5, OnlyScreen
  <2> QED
    BY <1>9, <2>1, <2>6
<1>10. CASE o.flagged /\ o.fallback
  <2> DEFINE run == Run(s, <<1, 2, 3>>)
             tl == <<a, f, c>>
  <2>1. ScreenEvents(o, call) = tl
    <3>1. ScreenEvents(o, call) = <<a>> \o <<f>> \o <<c>>
      BY <1>1, <1>2, <1>4, <1>5, <1>10
    <3>2. <<a>> \o <<f>> = <<a, f>>
      BY <1>1, <1>4, PairIs
    <3>3. <<a, f>> \o <<c>> = <<a, f, c>>
      BY <1>1, <1>2, <1>4, TripleIs
    <3> QED
      BY <3>1, <3>2, <3>3
  <2>2. ScreenEnded(tl)
    BY <1>1, <1>2, <1>4, <1>7, FlagGrouped, Zenon
  <2>3. /\ tl \in Seq(AnyEvent) /\ DOMAIN tl = {1, 2, 3} /\ tl[1] = a /\ tl[2] = f /\ tl[3] = c
    BY <1>1, <1>2, <1>4
  <2>4. /\ run \in AnyRun /\ run.stage = s /\ run.steps = <<1, 2, 3>> /\ run.steps # <<>>
        /\ DOMAIN run.steps = {1, 2, 3} /\ Last(run.steps) = 3
        /\ run.steps[1] = 1 /\ run.steps[2] = 2 /\ run.steps[3] = 3
    BY <1>1 DEF Run, AnyRun, Last
  <2> HIDE DEF tl
  <2>5. Tidy(Grouped(tl)) /\ RunsIn(Grouped(tl)) = {run}
    <3>1. /\ Grouped(tl).open = NothingRead.open /\ Grouped(tl).closed = <<run>>
          /\ Grouped(tl) = [open |-> Grouped(tl).open, closed |-> Grouped(tl).closed]
      BY <2>2 DEF ScreenEnded
    <3> HIDE DEF run
    <3>2. NothingRead.open = [x \in Stages |-> <<>>]
      BY DEF NothingRead
    <3>3. ToSet(<<run>>) = {run} /\ <<run>> \in Seq(AnyRun) /\ <<>> \in Seq(Nat)
      BY <2>4 DEF ToSet
    <3>4. Tidy(Grouped(tl))
      BY <3>1, <3>2, <3>3 DEF Tidy
    <3>5. {x \in Stages : Grouped(tl).open[x] # <<>>} = {}
      BY <3>1, <3>2
    <3>6. RunsIn(Grouped(tl)) = {run}
      BY <3>1, <3>3, <3>5 DEF RunsIn
    <3> QED
      BY <3>4, <3>6
  <2> HIDE DEF run
  <2>6. LastIn(tl, run) = c
    BY <2>3, <2>4 DEF LastIn
  <2>7. Sound(tl, ledger, alerted)
    BY <1>2, <1>4, <1>6, <1>10, <2>3, <2>4, <2>5, <2>6, OnlyScreen
  <2>8. s \in Fell(tl)
    BY <1>2, <2>4, <2>5, <2>6 DEF Fell
  <2> QED
    BY <2>1, <2>7, <2>8
<1> QED
  BY <1>8, <1>9, <1>10
-----------------------------------------------------------------------------
(* The trace of an attempt, step by step *)

Alerted == alerts = 1

\* The runs are right about the ledger, and every stage listed as degraded is seen to
\* have fallen back; a screen the caller ran is in the timeline before it is listed.
TraceInv ==
    /\ Sound(events, calls, Alerted)
    /\ degraded \subseteq Fell(events)
    /\ node = "safety_agent" =>
        IF CarriesScreen
        THEN deps.screened \in {"missing", "undelivered"} => "safety_screen" \in Fell(events)
        ELSE events = <<>> /\ calls = <<>>

\* A step that tells of every stage it adds to the degraded ones.
LEMMA StillTraced ==
    ASSUME TraceInv, node' # "safety_agent", UNCHANGED alerts,
           Sound(events', calls', Alerted), NEW X, degraded' \subseteq degraded \cup X,
           Fell(events) \subseteq Fell(events'), X \subseteq Fell(events')
    PROVE  TraceInv'
  BY DEF TraceInv, Alerted

LEMMA Degraded ==
    ASSUME NEW stage, NEW when, Degrade(stage, when)
    PROVE  degraded' \subseteq degraded \cup (IF when THEN {stage} ELSE {})
  BY DEF Degrade

\* The ledger after a call, and what its new id stands for.
LEMMA LedgerTraced ==
    ASSUME TraceInv, NEW stage \in Stages, NEW asked, Ledger(stage, asked)
    PROVE  /\ Sound(events, calls', Alerted)
           /\ asked => Latest(calls', stage, NextCall)
<1>1. Sound(events, calls, Alerted) /\ calls \in Seq(Stages)
  BY DEF TraceInv, Sound
<1>2. CASE asked
  <2>1. calls' = calls \o <<stage>> /\ calls' = Append(calls, stage)
    BY <1>1, <1>2, AppendIsConcat DEF Ledger
  <2>2. Sound(events, calls', Alerted)
    BY <1>1, <2>1, <<stage>> \in Seq(Stages), LedgerSound
  <2>3. /\ calls' \in Seq(Stages) /\ Len(calls') = NextCall /\ calls'[NextCall] = stage
        /\ NextCall \in Nat /\ NextCall >= 1
    BY <1>1, <2>1, AppendProperties, LenProperties DEF NextCall
  <2>4. DOMAIN calls' = 1..NextCall
    BY <2>3, LenProperties
  <2> QED
    BY <2>2, <2>3, <2>4 DEF Latest
<1>3. CASE ~asked
  BY <1>1, <1>3 DEF Ledger
<1> QED
  BY <1>2, <1>3

LEMMA CarryTrace ==
    ASSUME TraceInv, CarryScreen
    PROVE  TraceInv'
<1> DEFINE X == IF deps.screened \in {"missing", "undelivered"} THEN {"safety_screen"} ELSE {}
<1>1. /\ node = "safety_agent" /\ CarriesScreen /\ node' # "safety_agent"
      /\ Degrade("safety_screen", deps.screened \in {"missing", "undelivered"})
      /\ events' = events \o <<Changed("awaiting_answer", "diagnosing")>>
      /\ calls' = calls /\ alerts' = alerts
  BY DEF CarryScreen, Emit, records
<1>2. Sound(events', calls', Alerted) /\ Fell(events') = Fell(events)
  BY <1>1, ChangedSound DEF TraceInv, States
<1>3. degraded' \subseteq degraded \cup X
  BY <1>1 DEF Degrade
<1>4. X \subseteq Fell(events')
  BY <1>1, <1>2 DEF TraceInv
<1> HIDE DEF X
<1> QED
  BY <1>1, <1>2, <1>3, <1>4, StillTraced

LEMMA ScreenTrace ==
    ASSUME RecordInv, TraceInv, Screen
    PROVE  TraceInv'
<1>1. PICK o \in ScreenOutcomes :
        /\ Degrade("safety_screen", o.fallback)
        /\ Ledger("safety_screen", o.asked)
        /\ alerts' = IF o.flagged THEN alerts + 1 ELSE alerts
        /\ Emit(ScreenEvents(o, IdIf(o.asked)) \o <<Changed("awaiting_answer", "diagnosing")>>)
  BY DEF Screen
<1> DEFINE call == IdIf(o.asked)
           screen == ScreenEvents(o, call)
           changed == Changed("awaiting_answer", "diagnosing")
           X == IF o.fallback THEN {"safety_screen"} ELSE {}
<1>2. /\ node' # "safety_agent" /\ events = <<>> /\ calls = <<>> /\ alerts = 0 /\ degraded = {}
  BY <1>1 DEF Screen, TraceInv, RecordInv, ScreenedOnce, Degradations
<1>3. /\ calls' \in Seq(Stages) /\ call \in Nat
      /\ call # 0 => Latest(calls', "safety_screen", call)
  <2>1. /\ Sound(events, calls', Alerted) /\ Len(calls) = 0
        /\ o.asked => Latest(calls', "safety_screen", NextCall)
    BY <1>1, <1>2, LedgerTraced DEF Stages
  <2> QED
    BY <2>1 DEF Sound, IdIf, NextCall
<1>4. o.flagged => Alerted'
  BY <1>1, <1>2 DEF Alerted
<1> HIDE DEF call
<1>5. Sound(screen, calls', Alerted') /\ X \subseteq Fell(screen)
  BY <1>3, <1>4, ScreenSound
<1>6. events' = screen \o <<changed>>
  <2>1. screen \o <<changed>> \in Seq(AnyEvent)
    <3>1. screen \in Seq(AnyEvent) /\ <<changed>> \in Seq(AnyEvent)
      BY <1>5, SaysChanged DEF Sound, States
    <3> HIDE DEF screen, changed
    <3> QED
      BY <3>1, ConcatProperties
  <2>2. events' = events \o (screen \o <<changed>>)
    BY <1>1 DEF Emit, call
  <2> HIDE DEF screen, changed
  <2> QED
    BY <1>2, <2>1, <2>2, ConcatEmptySeq
<1> HIDE DEF screen
<1>7. Sound(events', calls', Alerted') /\ Fell(events') = Fell(screen)
  BY <1>5, <1>6, ChangedSound DEF States
<1>8. degraded' \subseteq X
  BY <1>1, <1>2, Degraded
<1> QED
  BY <1>2, <1>5, <1>7, <1>8 DEF TraceInv
\* A stage that runs once, and the state change that follows.
LEMMA StageTraced ==
    ASSUME NEW ledger, NEW alerted, Sound(events, ledger, alerted),
           NEW s \in Stages \ {"safety_screen"}, NEW e \in AnyEvent, e.stage = s,
           e.type \in TerminalEvents, e.call # 0 => Latest(ledger, s, e.call),
           NEW frm \in States, NEW to \in States,
           events' = events \o <<Started(s), e, Changed(frm, to)>>
    PROVE  /\ Sound(events', ledger, alerted)
           /\ FellMore(events, events', s, e)
<1> DEFINE c == Changed(frm, to)
           pair == <<Started(s), e>>
           mid == events \o pair
<1>1. /\ events \in Seq(AnyEvent) /\ Started(s) \in AnyEvent /\ c \in AnyEvent
  BY SaysStarted, SaysChanged DEF Sound
<1>2. /\ Sound(mid, ledger, alerted) /\ FellMore(events, mid, s, e)
  BY StageFree, PairSound
<1>3. events' = mid \o <<c>>
  <2>0. events' = events \o <<Started(s), e, c>>
    OBVIOUS
  <2> HIDE DEF c, pair
  <2>1. <<Started(s), e, c>> = pair \o <<c>>
    BY <1>1, TripleIs DEF pair
  <2>2. pair \in Seq(AnyEvent) /\ <<c>> \in Seq(AnyEvent)
    BY <1>1 DEF pair
  <2> QED
    BY <1>1, <2>0, <2>1, <2>2, ConcatAssociative
<1> HIDE DEF mid
<1>4. Sound(mid \o <<c>>, ledger, alerted) /\ Fell(mid \o <<c>>) = Fell(mid)
  BY <1>2, ChangedSound
<1> HIDE DEF c
<1> QED
  BY <1>2, <1>3, <1>4 DEF FellMore

LEMMA DiagnoseTrace ==
    ASSUME IInv, TraceInv, DiagnoseAgent
    PROVE  TraceInv'
<1> DEFINE s == "diagnose"
<1>1. PICK o \in DiagnoseOutcomes :
        /\ Degrade(s, o.fallback) /\ Ledger(s, o.asked)
        /\ Emit(<<Started(s),
                  IF o.fallback THEN Fallback(s, "") ELSE Completed(s, IdIf(o.asked)),
                  Changed("diagnosing", "retrieving_curriculum")>>)
  BY DEF DiagnoseAgent
<1> DEFINE e == IF o.fallback THEN Fallback(s, "") ELSE Completed(s, IdIf(o.asked))
           X == IF o.fallback THEN {s} ELSE {}
<1>2. /\ node' # "safety_agent" /\ alerts' = alerts
      /\ events' = events \o <<Started(s), e, Changed("diagnosing", "retrieving_curriculum")>>
  BY <1>1 DEF DiagnoseAgent, records, Emit
<1>3. s \in Stages /\ s \in Stages \ {"safety_screen"}
      /\ "diagnosing" \in States /\ "retrieving_curriculum" \in States
  BY DEF Stages, States
<1> HIDE DEF s
<1>4. Sound(events, calls', Alerted) /\ (o.asked => Latest(calls', s, NextCall))
  BY <1>1, <1>3, LedgerTraced
<1>5. /\ e \in AnyEvent /\ e.stage = s /\ e.type \in TerminalEvents
      /\ e.call # 0 => Latest(calls', s, e.call)
      /\ e.type = "fallback_used" <=> o.fallback
  <2>1. CASE o.fallback
    BY <1>3, <2>1, Terminals
  <2>2. CASE ~o.fallback
    <3>1. IdIf(o.asked) \in Nat /\ (IdIf(o.asked) # 0 => Latest(calls', s, IdIf(o.asked)))
      <4>1. CASE o.asked
        BY <1>4, <4>1, IdTyped DEF IdIf
      <4>2. CASE ~o.asked
        BY <4>2 DEF IdIf
      <4> QED
        BY <4>1, <4>2
    <3> QED
      BY <1>3, <2>2, <3>1, Terminals
  <2> QED
    BY <2>1, <2>2
<1> HIDE DEF e
<1>6. /\ Sound(events', calls', Alerted)
      /\ FellMore(events, events', s, e)
  BY <1>2, <1>3, <1>4, <1>5, StageTraced
<1>7. degraded' \subseteq degraded \cup X
  BY <1>1 DEF Degrade
<1>8. Fell(events) \subseteq Fell(events') /\ X \subseteq Fell(events')
  BY <1>5, <1>6 DEF FellMore
<1> HIDE DEF X
<1> QED
  BY <1>2, <1>6, <1>7, <1>8, StillTraced

LEMMA RetrieveTrace ==
    ASSUME TraceInv, RetrieveAgent
    PROVE  TraceInv'
<1> DEFINE s == "rerank"
           c == Changed("retrieving_curriculum", "generating_hint")
<1>1. PICK unmapped \in BOOLEAN :
        Degrade(s, unmapped) /\ Emit(RetrieveEvents(unmapped) \o <<c>>)
  BY DEF RetrieveAgent
<1> DEFINE e == IF unmapped THEN Fallback(s, "") ELSE Completed(s, 0)
           X == IF unmapped THEN {s} ELSE {}
<1>2. s \in Stages /\ s \in Stages \ {"safety_screen"}
      /\ "retrieving_curriculum" \in States /\ "generating_hint" \in States
  BY DEF Stages, States
<1>3. /\ node' # "safety_agent" /\ alerts' = alerts /\ calls' = calls
      /\ events' = events \o (<<Started(s), e>> \o <<c>>)
  BY <1>1 DEF RetrieveAgent, RetrieveEvents, records, Emit
<1> HIDE DEF s
<1>4. /\ e \in AnyEvent /\ e.stage = s /\ e.type \in TerminalEvents /\ e.call = 0
      /\ e.type = "fallback_used" <=> unmapped
  <2>1. CASE unmapped
    <3>1. e = Fallback(s, "") /\ "" \in Reasons \cup {""}
      BY <2>1
    <3> QED
      BY <1>2, <2>1, <3>1, Terminals, Zenon
  <2>2. CASE ~unmapped
    <3>1. e = Completed(s, 0) /\ 0 \in Nat
      BY <2>2
    <3> QED
      BY <1>2, <2>2, <3>1, Terminals, Zenon
  <2> QED
    BY <2>1, <2>2
<1> HIDE DEF e
<1>5. <<Started(s), e, c>> = <<Started(s), e>> \o <<c>>
  BY <1>2, <1>4, SaysStarted, SaysChanged, TripleIs
<1>6. Sound(events, calls', Alerted)
  BY <1>3 DEF TraceInv
<1>7. /\ Sound(events', calls', Alerted)
      /\ FellMore(events, events', s, e)
  BY <1>2, <1>3, <1>4, <1>5, <1>6, StageTraced
<1>8. degraded' \subseteq degraded \cup X
  BY <1>1, Degraded
<1>9. Fell(events) \subseteq Fell(events') /\ X \subseteq Fell(events')
  BY <1>4, <1>7 DEF FellMore
<1> HIDE DEF X
<1> QED
  BY <1>3, <1>7, <1>8, <1>9, StillTraced

LEMMA SkipTrace ==
    ASSUME TraceInv, SkipShadow
    PROVE  TraceInv'
<1>1. /\ node' # "safety_agent" /\ alerts' = alerts /\ calls' = calls
      /\ events' = events /\ degraded' = degraded
  BY DEF SkipShadow, StartGenerating, records
<1> QED
  BY <1>1 DEF TraceInv, Alerted

LEMMA ShadowOutageTrace ==
    ASSUME TraceInv, ShadowOutage
    PROVE  TraceInv'
<1>1. /\ node' # "safety_agent" /\ alerts' = alerts /\ degraded' = degraded
      /\ events' = events \o TemplateEvents("outage") /\ Ledger("generate_hint", TRUE)
  BY DEF ShadowOutage, StartGenerating, records, Emit
<1>2. Sound(events, calls', Alerted)
  BY <1>1, LedgerTraced DEF Stages
<1>3. Sound(events', calls', Alerted) /\ Fell(events) \subseteq Fell(events')
  BY <1>1, <1>2, TemplateSound DEF Reasons
<1>4. degraded' \subseteq degraded \cup {} /\ {} \subseteq Fell(events')
  BY <1>1
<1> QED
  BY <1>1, <1>3, <1>4, StillTraced
LEMMA ShadowReplyTrace ==
    ASSUME IInv, TraceInv, ShadowReply
    PROVE  TraceInv'
<1> DEFINE g == "generate_hint"
           l == "leak_check"
           b == Completed(g, NextCall)
<1>1. PICK o \in LeakOutcomes :
        /\ calls' = calls \o <<g>> \o (IF o.asked THEN <<l>> ELSE <<>>)
        /\ Emit(<<Started(g), b>> \o LeakEvents(o, NextCall + 1) \o <<b>>)
  BY DEF ShadowReply, ShadowSummary
<1> DEFINE n == NextCall
           pair == <<Started(g), b>>
           leak == LeakEvents(o, n + 1)
           more == IF o.asked THEN <<l>> ELSE <<>>
           first == events \o pair
           second == first \o leak
<1>2. /\ node' # "safety_agent" /\ alerts' = alerts /\ degraded' = degraded
      /\ events' = events \o (pair \o leak \o <<b>>)
      /\ calls' = (calls \o <<g>>) \o more
  BY <1>1 DEF ShadowReply, StartGenerating, records, Emit
<1>3. g \in Stages \ {"safety_screen"} /\ g \in Stages /\ l \in Stages /\ g # l
  BY DEF Stages
<1> HIDE DEF g, l
<1>4. n \in Nat /\ n + 1 \in Nat /\ n = Len(calls) + 1 /\ n >= 1 /\ calls \in Seq(Stages)
  BY LenProperties DEF IInv, TypeOK, NextCall
<1> HIDE DEF n
<1>5. more \in Seq(Stages) /\ calls \o <<g>> \in Seq(Stages)
  BY <1>3, <1>4, ConcatProperties
<1>6. /\ calls' \in Seq(Stages) /\ Sound(events, calls', Alerted)
      /\ Latest(calls', g, n) /\ (o.asked => Latest(calls', l, n + 1))
  <2>1. /\ calls \o <<g>> \in Seq(Stages) /\ Len(calls \o <<g>>) = n /\ (calls \o <<g>>)[n] = g
    <3>1. calls \o <<g>> = Append(calls, g)
      BY <1>3, <1>4, AppendIsConcat
    <3> QED
      BY <1>3, <1>4, <3>1, AppendProperties
  <2>2. Sound(events, calls \o <<g>>, Alerted)
    BY <1>3, <1>4, <<g>> \in Seq(Stages), LedgerSound DEF TraceInv
  <2>3. Sound(events, calls', Alerted)
    BY <1>2, <1>5, <2>2, LedgerSound
  <2>4. CASE ~o.asked
    <3>1. calls' = calls \o <<g>>
      BY <1>2, <2>1, <2>4, ConcatEmptySeq
    <3>2. DOMAIN calls' = 1..n
      BY <2>1, <3>1, LenProperties
    <3> QED
      BY <1>4, <2>1, <2>3, <2>4, <3>1, <3>2 DEF Latest
  <2>5. CASE o.asked
    <3> DEFINE one == calls \o <<g>>
    <3> HIDE DEF one
    <3>1. calls' = Append(one, l)
      <4>1. one \in Seq(Stages) /\ calls' = one \o <<l>>
        BY <1>2, <2>1, <2>5 DEF one
      <4> QED
        BY <1>3, <4>1, AppendIsConcat
    <3>2. /\ calls' \in Seq(Stages) /\ Len(calls') = n + 1 /\ calls'[n + 1] = l
          /\ \A i \in 1..n : calls'[i] = one[i]
      BY <1>3, <2>1, <3>1, AppendProperties DEF one
    <3>3. calls'[n] = g /\ DOMAIN calls' = 1..(n + 1)
      BY <1>4, <2>1, <3>2, LenProperties DEF one
    <3> QED
      BY <1>3, <1>4, <2>3, <3>2, <3>3 DEF Latest
  <2> QED
    BY <2>4, <2>5
<1>7. /\ b \in AnyEvent /\ b.stage = g /\ b.type \in TerminalEvents /\ b.call = n
  BY <1>3, <1>4, Terminals, Zenon DEF n
<1> HIDE DEF b, more
<1>8. /\ Sound(first, calls', Alerted) /\ FellMore(events, first, g, b)
  BY <1>3, <1>6, <1>7, StageFree, PairSound
<1> HIDE DEF first
<1>9. /\ Sound(second, calls', Alerted)
      /\ Fell(second) = Fell(first) \cup (IF o.fallback THEN {"leak_check"} ELSE {})
  BY <1>4, <1>6, <1>8, LeakSound DEF l
<1>10. events' = second \o <<b>>
  <2>1. /\ events \in Seq(AnyEvent) /\ pair \in Seq(AnyEvent) /\ <<b>> \in Seq(AnyEvent)
    <3>1. Started(g) \in AnyEvent
      BY <1>3, SaysStarted
    <3> HIDE DEF Started
    <3> QED
      BY <1>7, <3>1 DEF TraceInv, Sound
  <2>2. leak \in Seq(AnyEvent)
    BY <1>4, LeakEventsSay DEF Says, Adds
  <2> HIDE DEF pair, leak
  <2>3. pair \o leak \in Seq(AnyEvent)
    BY <2>1, <2>2, ConcatProperties
  <2>4. events \o ((pair \o leak) \o <<b>>) = (events \o (pair \o leak)) \o <<b>>
    BY <2>1, <2>3, ConcatAssociative
  <2>5. events \o (pair \o leak) = (events \o pair) \o leak
    BY <2>1, <2>2, ConcatAssociative
  <2> QED
    BY <1>2, <2>4, <2>5 DEF first
<1> HIDE DEF second
<1>11. Sound(events', calls', Alerted) /\ FellMore(second, events', g, b)
  BY <1>3, <1>6, <1>7, <1>9, <1>10, StageFree, LoneSound
<1>12. Fell(events) \subseteq Fell(events')
  BY <1>8, <1>9, <1>11 DEF FellMore
<1>13. degraded' \subseteq degraded \cup {} /\ {} \subseteq Fell(events')
  BY <1>2
<1> QED
  BY <1>2, <1>11, <1>12, <1>13, StillTraced
\* A template is offered: what it adds to the degraded stages fell back.
LEMMA OfferTrace ==
    ASSUME TraceInv, UNCHANGED alerts, NEW reason \in Reasons, OfferTemplate(reason),
           Sound(events, calls', Alerted)
    PROVE  TraceInv'
<1> DEFINE c == Changed("generating_hint", "leak_checking")
           offer == events \o TemplateEvents(reason)
           X == {"generate_hint"}
<1>1. /\ node' # "safety_agent" /\ Degrade("generate_hint", ~ByDesign)
      /\ events' = IF deps.template THEN events \o (TemplateEvents(reason) \o <<c>>) ELSE offer
  BY DEF OfferTemplate, Emit
<1>2. Sound(offer, calls', Alerted) /\ Fell(offer) = Fell(events) \cup X
  BY TemplateSound
<1>3. Sound(offer \o <<c>>, calls', Alerted) /\ Fell(offer \o <<c>>) = Fell(offer)
  BY <1>2, ChangedSound DEF States
<1>4. events \o (TemplateEvents(reason) \o <<c>>) = offer \o <<c>>
  <2>1. /\ events \in Seq(AnyEvent) /\ TemplateEvents(reason) \in Seq(AnyEvent)
        /\ c \in AnyEvent
    BY TemplateEventsSay, SaysChanged DEF TraceInv, Sound, Says, Adds, States
  <2> HIDE DEF c
  <2> QED
    BY <2>1, <<c>> \in Seq(AnyEvent), ConcatAssociative
<1> HIDE DEF offer
<1>5. Sound(events', calls', Alerted) /\ Fell(events') = Fell(events) \cup X
  BY <1>1, <1>2, <1>3, <1>4
<1>6. degraded' \subseteq degraded \cup X
  BY <1>1 DEF Degrade
<1>7. Fell(events) \subseteq Fell(events') /\ X \subseteq Fell(events')
  BY <1>5
<1> HIDE DEF X
<1> QED
  BY <1>1, <1>5, <1>6, <1>7, StillTraced

LEMMA GenerateTrace ==
    ASSUME IInv, TraceInv, GenerateTemplate \/ GenerateOutage \/ GenerateReply
    PROVE  TraceInv'
<1>1. CASE GenerateTemplate
  <2>1. PICK reason \in Reasons : OfferTemplate(reason)
    BY <1>1 DEF GenerateTemplate, TemplateReason, Reasons
  <2>2. Sound(events, calls', Alerted) /\ alerts' = alerts
    BY <1>1 DEF GenerateTemplate, TraceInv, records
  <2> QED
    BY <2>1, <2>2, OfferTrace
<1>2. CASE GenerateOutage
  <2>1. OfferTemplate("outage") /\ Ledger("generate_hint", TRUE) /\ alerts' = alerts
    BY <1>2 DEF GenerateOutage, records
  <2>2. Sound(events, calls', Alerted)
    BY <2>1, LedgerTraced DEF Stages
  <2> QED
    BY <2>1, <2>2, OfferTrace DEF Reasons
<1>3. CASE GenerateReply
  <2> DEFINE s == "generate_hint"
             e == Completed(s, NextCall)
  <2>1. /\ node' # "safety_agent" /\ alerts' = alerts /\ degraded' = degraded
        /\ events' = events \o <<Started(s), e, Changed("generating_hint", "leak_checking")>>
        /\ Ledger(s, TRUE)
    BY <1>3 DEF GenerateReply, Emit, records
  <2>2. s \in Stages /\ s \in Stages \ {"safety_screen"}
        /\ "generating_hint" \in States /\ "leak_checking" \in States
    BY DEF Stages, States
  <2> HIDE DEF s
  <2>3. Sound(events, calls', Alerted) /\ Latest(calls', s, NextCall)
    BY <2>1, <2>2, LedgerTraced
  <2>4. /\ e \in AnyEvent /\ e.stage = s /\ e.type \in TerminalEvents
        /\ e.call # 0 => Latest(calls', s, e.call)
    BY <2>2, <2>3, IdTyped, Terminals
  <2> HIDE DEF e
  <2>5. Sound(events', calls', Alerted) /\ FellMore(events, events', s, e)
    BY <2>1, <2>2, <2>3, <2>4, StageTraced
  <2>6. Fell(events) \subseteq Fell(events') /\ degraded' \subseteq degraded \cup {}
        /\ {} \subseteq Fell(events')
    BY <2>1, <2>5 DEF FellMore
  <2> QED
    BY <2>1, <2>5, <2>6, StillTraced
<1> QED
  BY <1>1, <1>2, <1>3

LEMMA LeakcheckTrace ==
    ASSUME IInv, TraceInv, LeakcheckAgent
    PROVE  TraceInv'
<1>1. PICK o \in LeakOutcomes :
        /\ Degrade("leak_check", o.fallback) /\ Ledger("leak_check", o.asked)
        /\ Emit(LeakEvents(o, NextCall)) /\ node' = AfterCheck(o.passed)
  BY DEF LeakcheckAgent
<1> DEFINE X == IF o.fallback THEN {"leak_check"} ELSE {}
<1>2. /\ node' # "safety_agent" /\ alerts' = alerts
      /\ events' = events \o LeakEvents(o, NextCall)
  BY <1>1 DEF LeakcheckAgent, AfterCheck, Emit, records
<1>3. Sound(events, calls', Alerted) /\ (o.asked => Latest(calls', "leak_check", NextCall))
  BY <1>1, LedgerTraced DEF Stages
<1>4. Sound(events', calls', Alerted) /\ Fell(events') = Fell(events) \cup X
  BY <1>2, <1>3, IdTyped, LeakSound
<1>5. degraded' \subseteq degraded \cup X
  BY <1>1 DEF Degrade
<1>6. Fell(events) \subseteq Fell(events') /\ X \subseteq Fell(events')
  BY <1>4
<1> HIDE DEF X
<1> QED
  BY <1>2, <1>4, <1>5, <1>6, StillTraced

LEMMA EndTrace ==
    ASSUME IInv, TraceInv, RecordHintAgent \/ EscalateAgent
    PROVE  TraceInv'
<1>1. PICK a \in AnyEvent, to \in States :
        /\ ~Staged(a) /\ events' = events \o <<a, Changed("leak_checking", to)>>
        /\ node' # "safety_agent" /\ alerts' = alerts /\ degraded' = degraded /\ calls' = calls
  <2>1. CASE RecordHintAgent
    <3> DEFINE a == Ev("hint_shown", candidate.source, "")
    <3>1. candidate \in Candidates
      BY <2>1 DEF RecordHintAgent, IInv, CandidateInHand, Holding
    <3>2. candidate.source \in {"generated", "template"}
      BY <3>1 DEF Candidates
    <3>3. a \in AnyEvent
      BY <3>2 DEF Ev, Event, AnyEvent, EventTypes, Stages, States, Reasons
    <3>4. ~Staged(a)
      BY DEF Ev, Event, Staged
    <3>5. /\ events' = events \o <<a, Changed("leak_checking", "awaiting_student_retry")>>
          /\ node' # "safety_agent" /\ alerts' = alerts /\ degraded' = degraded /\ calls' = calls
      BY <2>1 DEF RecordHintAgent, Emit
    <3> HIDE DEF a
    <3> QED
      BY <3>3, <3>4, <3>5 DEF States
  <2>2. CASE EscalateAgent
    <3> DEFINE a == Ev("escalated", "", "")
    <3>1. a \in AnyEvent
      BY DEF Ev, Event, AnyEvent, EventTypes, Stages, States, Reasons
    <3>2. ~Staged(a)
      BY DEF Ev, Event, Staged
    <3>3. /\ events' = events \o <<a, Changed("leak_checking", "escalated")>>
          /\ node' # "safety_agent" /\ alerts' = alerts /\ degraded' = degraded /\ calls' = calls
      BY <2>2 DEF EscalateAgent, Emit
    <3> HIDE DEF a
    <3> QED
      BY <3>1, <3>2, <3>3 DEF States
  <2> QED
    BY <2>1, <2>2
<1> DEFINE c == Changed("leak_checking", to)
           mid == events \o <<a>>
<1>2. Sound(events, calls', Alerted) /\ events \in Seq(AnyEvent)
  BY <1>1 DEF TraceInv, Sound
<1>3. c \in AnyEvent
  BY SaysChanged DEF States
<1>4. events' = mid \o <<c>>
  <2>1. events' = events \o <<a, c>>
    BY <1>1
  <2> HIDE DEF c
  <2>2. <<a, c>> = <<a>> \o <<c>>
    BY <1>3, PairIs
  <2> QED
    BY <1>2, <1>3, <2>1, <2>2, <<a>> \in Seq(AnyEvent), <<c>> \in Seq(AnyEvent), ConcatAssociative
<1>5. Sound(mid, calls', Alerted) /\ Fell(mid) = Fell(events)
  BY <1>1, <1>2, UnstagedSound
<1> HIDE DEF mid
<1>6. Sound(mid \o <<c>>, calls', Alerted) /\ Fell(mid \o <<c>>) = Fell(mid)
  BY <1>5, ChangedSound DEF States
<1> HIDE DEF c
<1>7. Sound(events', calls', Alerted) /\ Fell(events) \subseteq Fell(events')
      /\ degraded' \subseteq degraded \cup {} /\ {} \subseteq Fell(events')
  BY <1>1, <1>4, <1>5, <1>6
<1> QED
  BY <1>1, <1>7, StillTraced

LEMMA RolloutTrace ==
    ASSUME TraceInv, ChangeRollout \/ UNCHANGED vars
    PROVE  TraceInv'
<1>1. UNCHANGED <<deps, node, degraded, calls, events, alerts>>
  BY DEF ChangeRollout, vars, records
<1> QED
  BY <1>1 DEF TraceInv, Alerted, CarriesScreen

LEMMA InitTrace == Init => TraceInv
<1> SUFFICES ASSUME Init PROVE TraceInv
  OBVIOUS
<1>1. /\ events = CarriedEvents(deps.screened) /\ calls = <<>> /\ degraded = {}
      /\ alerts = IF deps.screened \in {"flagged", "undelivered"} THEN 1 ELSE 0
  BY DEF Init
<1>2. calls \in Seq(Stages)
  BY <1>1
<1>3. CASE ~CarriesScreen
  <2>1. events = <<>>
    BY <1>1, <1>3 DEF CarriedEvents, CarriesScreen
  <2>2. Sound(events, calls, Alerted)
    BY <1>2, <2>1, NothingSound
  <2> QED
    BY <1>1, <1>3, <2>1, <2>2 DEF TraceInv
<1>4. CASE CarriesScreen
  <2> DEFINE o == [flagged |-> deps.screened \in {"flagged", "undelivered"},
                   fallback |-> deps.screened \in {"missing", "undelivered"}]
  <2>1. events = ScreenEvents(o, 0)
    BY <1>1, <1>4 DEF CarriedEvents, CarriesScreen
  <2>2. (o.flagged => Alerted) /\ (deps.screened \in {"missing", "undelivered"} => o.fallback)
    BY <1>1 DEF Alerted
  <2> HIDE DEF o
  <2>3. Sound(events, calls, Alerted) /\ (o.fallback => "safety_screen" \in Fell(events))
    BY <1>2, <2>1, <2>2, ScreenSound
  <2> QED
    BY <1>1, <1>4, <2>2, <2>3 DEF TraceInv
<1> QED
  BY <1>3, <1>4

LEMMA StepTrace == IInv /\ RecordInv /\ TraceInv /\ [Next]_vars => TraceInv'
  BY CarryTrace, ScreenTrace, DiagnoseTrace, RetrieveTrace, SkipTrace, ShadowOutageTrace,
     ShadowReplyTrace, GenerateTrace, LeakcheckTrace, EndTrace, RolloutTrace
  DEF Next, Agent

\* The input and output shown for a run are those of a call its own stage made, in the
\* order of the runs; a stage reported degraded is degraded in the trace; and only a
\* screen that raised an alert looks cut off.
THEOREM TraceIsFaithful == Spec => []TraceFaithful
<1>1. Init => IInv /\ RecordInv /\ TraceInv
  BY InitIInv, InitRecord, InitTrace
<1>2. (IInv /\ RecordInv /\ TraceInv) /\ [Next]_vars => (IInv /\ RecordInv /\ TraceInv)'
  BY StepIInv, StepRecord, StepTrace
<1>3. RecordInv /\ TraceInv => TraceFaithful
  <2> SUFFICES ASSUME RecordInv, TraceInv PROVE TraceFaithful
    OBVIOUS
  <2>1. Runs = RunsIn(Grouped(events)) /\ DegradedStages = Fell(events)
        /\ \A run : LLMCallOf(run) = CallIn(events, run) /\ LastEvent(run) = LastIn(events, run)
    BY Zenon DEF Runs, DegradedStages, Fell, LLMCallOf, CallIn, Naming, NamingIn, LastEvent, LastIn
  <2>2. \A run \in Runs : RunSound(run, events, calls, Alerted)
    BY <2>1 DEF TraceInv, Sound
  <2>3. \A a, b \in Runs : InTurn(a, b, events)
    BY <2>1 DEF TraceInv, Sound
  <2>4. PayloadsBelong
    BY <2>1, <2>2, <2>3 DEF PayloadsBelong, RunSound, InTurn
  <2>5. DegradationTraced
    BY <2>1 DEF DegradationTraced, TraceInv, RecordInv, Storing
  <2>6. CutOffOrAlerted
    BY <2>1, <2>2 DEF CutOffOrAlerted, Unterminated, RunSound, Alerted
  <2> QED
    BY <2>4, <2>5, <2>6 DEF TraceFaithful
<1> QED
  BY <1>1, <1>2, <1>3, PTL DEF Spec
=============================================================================
