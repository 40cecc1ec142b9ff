---------------------------- MODULE LessonProofs ----------------------------
(***************************************************************************)
(* What a child is given and what the screen shows, proved for every set   *)
(* of problems, of answers and of messages, and any number of lessons and  *)
(* failures.                                                               *)
(***************************************************************************)
EXTENDS Lesson, FiniteSetTheorems, SequenceTheorems, TLAPS

\* A session row, whatever the number of lessons.
SessionRows == [no : Nat \ {0}, problem : Problems, state : {"open"} \cup Terminal,
                count : 0..MaxHintLevel, given : Seq(Hints)]

IInv ==
    /\ lesson \in {NoLesson} \cup SessionRows
    /\ HintsAreSafe
    /\ HintsClimb

-----------------------------------------------------------------------------
(* The library and render *)

\* Every tag of the library has, at each level, one or two phrasings.
LEMMA LibraryIsComplete ==
    ASSUME NEW tag \in DOMAIN Library, NEW level \in 1..MaxHintLevel
    PROVE  Len(Library[tag][level]) \in {1, 2}
<1>1. level = 1 \/ level = 2 \/ level = 3
    BY SMT DEF MaxHintLevel
<1>2. tag \in {"subtracted_instead_of_added", "added_instead_of_subtracted",
               "counted_on_from_wrong_start", "unknown"}
    BY DEF Library
<1>3. CASE tag = "subtracted_instead_of_added"
    BY <1>1, <1>3 DEF Library
<1>4. CASE tag = "added_instead_of_subtracted"
    BY <1>1, <1>4 DEF Library
<1>5. CASE tag = "counted_on_from_wrong_start"
    BY <1>1, <1>5 DEF Library
<1>6. CASE tag = "unknown"
    BY <1>1, <1>6 DEF Library
<1> QED
    BY <1>2, <1>3, <1>4, <1>5, <1>6

\* A phrasing fills slots of the problem and spells out integers.
LEMMA LibraryIsTyped ==
    ASSUME NEW tag \in DOMAIN Library, NEW level \in 1..MaxHintLevel,
           NEW variant \in 1..Len(Library[tag][level])
    PROVE  /\ Library[tag][level][variant].slots \subseteq {"a", "b"}
           /\ Library[tag][level][variant].literal \subseteq Int
<1>1. level = 1 \/ level = 2 \/ level = 3
    BY SMT DEF MaxHintLevel
<1>2. variant = 1 \/ (variant = 2 /\ Len(Library[tag][level]) = 2)
    <2> DEFINE n == Len(Library[tag][level])
    <2>1. n \in {1, 2} /\ variant \in 1..n
        BY LibraryIsComplete
    <2> HIDE DEF n
    <2>2. variant = 1 \/ (variant = 2 /\ n = 2)
        BY <2>1
    <2> QED
        BY <2>2 DEF n
<1>3. tag \in {"subtracted_instead_of_added", "added_instead_of_subtracted",
               "counted_on_from_wrong_start", "unknown"}
    BY DEF Library
<1>4. CASE tag = "subtracted_instead_of_added"
    BY <1>1, <1>2, <1>4 DEF Library, Filling
<1>5. CASE tag = "added_instead_of_subtracted"
    BY <1>1, <1>2, <1>5 DEF Library, Filling
<1>6. CASE tag = "counted_on_from_wrong_start"
    BY <1>1, <1>2, <1>6 DEF Library, Filling
<1>7. CASE tag = "unknown"
    BY <1>1, <1>2, <1>7 DEF Library, Filling
<1> QED
    BY <1>3, <1>4, <1>5, <1>6, <1>7

\* What stands in for a tag is in the library, and about no other operation.
LEMMA TemplateTagFits ==
    ASSUME NEW tag
    PROVE  /\ TemplateTag(tag) \in DOMAIN Library
           /\ TemplateTag(tag) \in RuleTags => TemplateTag(tag) = tag
<1>1. "unknown" \in DOMAIN Library /\ "unknown" \notin RuleTags
    BY DEF Library, RuleTags, Operation
<1> QED
    BY <1>1 DEF TemplateTag

\* A template that render returns is one of the level asked for.
LEMMA RenderedIsTyped ==
    ASSUME NEW tag, NEW level \in 1..MaxHintLevel, NEW attempt \in Nat \ {0},
           NEW p \in Problems, NEW hint \in Rendered(tag, level, attempt, p)
    PROVE  /\ hint \in Hints
           /\ hint.level = level
           /\ hint.tag = TemplateTag(tag)
<1> DEFINE n == Len(Variants(tag, level))
           filling(offset) == Variants(tag, level)[Rotated(tag, level, attempt, offset)]
<1>1. n \in {1, 2}
    BY TemplateTagFits, LibraryIsComplete DEF Variants
<1>2. PICK offset \in 0..(n - 1) :
        hint = [source |-> "template", tag |-> TemplateTag(tag), level |-> level,
                text |-> Filled(filling(offset), p)]
    BY DEF Rendered
<1>3. Rotated(tag, level, attempt, offset) \in 1..n
    <2>1. attempt - 1 + offset \in Nat
        BY <1>1, <1>2
    <2>2. CASE n = 1
        BY <2>1, <2>2 DEF Rotated
    <2>3. CASE n = 2
        BY <2>1, <2>3 DEF Rotated
    <2> QED
        BY <1>1, <2>2, <2>3
<1>4. filling(offset).slots \subseteq {"a", "b"} /\ filling(offset).literal \subseteq Int
    BY <1>3, TemplateTagFits, LibraryIsTyped DEF Variants
<1>5. p.a \in Int /\ p.b \in Int
    BY LessonAssumption
<1>6. Filled(filling(offset), p) \in Texts
    <2>1. {p[slot] : slot \in filling(offset).slots} \subseteq Int
        BY <1>4, <1>5
    <2> HIDE DEF filling
    <2> QED
        BY <1>4, <2>1 DEF Filled, Texts
<1>7. TemplateTag(tag) \in Tags
    BY TemplateTagFits DEF Tags, RuleTags, Operation, Library
<1> HIDE DEF filling, n
<1> QED
    BY <1>2, <1>6, <1>7 DEF Hints

\* What the child is offered is of the level, states no answer, and is about the tag or,
\* for a template, about what stands in for it.
LEMMA OfferedIsSafe ==
    ASSUME NEW serving, NEW tag \in Tags, NEW attempt \in 1..MaxHintLevel,
           NEW p \in Problems, NEW hints \in Offered(serving, tag, attempt, p),
           NEW hint \in hints
    PROVE  /\ hint \in Hints
           /\ hint.level = attempt
           /\ hint.tag \in {tag, TemplateTag(tag)}
           /\ p.answer \notin hint.text.digits \cup hint.text.words
<1>1. Level(attempt) = attempt /\ attempt \in Nat \ {0}
    BY DEF Level, MaxHintLevel
<1>2. hint \in Candidates(serving, tag, attempt, p) /\ ~Leaks(hint.text, p)
    BY DEF Offered
<1>3. CASE hint \in Rendered(tag, Level(attempt), attempt, p)
    BY <1>1, <1>2, <1>3, RenderedIsTyped DEF Leaks, NumbersIn
<1>4. CASE hint \notin Rendered(tag, Level(attempt), attempt, p)
    <2>1. PICK text \in Drafts :
            hint = [source |-> "generated", tag |-> tag, level |-> attempt, text |-> text]
        BY <1>1, <1>2, <1>4 DEF Candidates
    <2>2. text \in Texts
        BY LessonAssumption
    <2>3. hint \in Hints
        BY <2>1, <2>2 DEF Hints
    <2> QED
        BY <1>2, <2>1, <2>3 DEF Leaks, NumbersIn
<1> QED
    BY <1>3, <1>4

\* A diagnosis that names the operation names the one of the problem.
LEMMA DiagnosesApply ==
    ASSUME NEW p, NEW answer, NEW model, NEW tag \in Diagnoses(p, answer, model)
    PROVE  tag \in Tags /\ (tag \in RuleTags => Operation[tag] = p.op)
BY DEF Diagnoses, RuleTagged, AppliesTo, Tags

-----------------------------------------------------------------------------
(* The inductive invariant *)

LEMMA InitIInv == Init => IInv
BY DEF Init, IInv, NoLesson, HintsAreSafe, HintsClimb, Given

\* Whatever leaves the session row alone keeps the invariant.
LEMMA SameLesson ==
    ASSUME IInv, lesson' = lesson
    PROVE  IInv'
BY DEF IInv, HintsAreSafe, HintsClimb, Given

LEMMA StartSessionKeeps ==
    ASSUME IInv, StartSession
    PROVE  IInv'
<1>1. PICK p \in Problems :
        lesson' = [no |-> lesson.no + 1, problem |-> p, state |-> "open",
                   count |-> 0, given |-> <<>>]
    BY DEF StartSession
<1>2. lesson.no \in Nat
    BY DEF IInv, NoLesson, SessionRows
<1>3. lesson' \in SessionRows
    <2>1. 0 \in 0..MaxHintLevel /\ lesson.no + 1 \in Nat \ {0} /\ <<>> \in Seq(Hints)
        BY <1>2 DEF MaxHintLevel
    <2> QED
        BY <1>1, <2>1 DEF SessionRows
<1>4. lesson'.given = <<>> /\ lesson'.count = 0 /\ Given' = <<>>
    BY <1>1 DEF Given
<1>5. HintsAreSafe' /\ HintsClimb'
    BY <1>4 DEF HintsAreSafe, HintsClimb, MaxHintLevel
<1> QED
    BY <1>3, <1>5 DEF IInv

LEMMA AnswerRightKeeps ==
    ASSUME IInv, AnswerRight
    PROVE  IInv'
<1>1. lesson' = [lesson EXCEPT !.state = "complete", !.count = @ + 1]
    BY DEF AnswerRight
<1>2. lesson \in SessionRows
    BY DEF AnswerRight, Received, IInv, NoLesson, SessionRows
<1>3. lesson' \in SessionRows /\ lesson'.state = "complete"
    <2>1. lesson.count + 1 \in 0..MaxHintLevel
        <3>1. lesson.state = "open"
            BY <1>2 DEF AnswerRight, SessionRows
        <3>2. lesson.count < MaxHintLevel
            BY <1>2, <3>1 DEF IInv, HintsClimb, SessionRows
        <3> QED
            BY <1>2, <3>2 DEF SessionRows, MaxHintLevel
    <2>2. "complete" \in {"open"} \cup Terminal
        BY DEF Terminal
    <2> HIDE DEF Terminal
    <2> QED
        BY <1>1, <1>2, <2>1, <2>2 DEF SessionRows
<1>4. Given' = Given /\ lesson'.problem = lesson.problem
    BY <1>1, <1>2 DEF Given, SessionRows
<1> QED
    BY <1>3, <1>4 DEF IInv, HintsAreSafe, HintsClimb

LEMMA AnswerWrongKeeps ==
    ASSUME IInv, AnswerWrong
    PROVE  IInv'
<1> DEFINE attempt == lesson.count + 1
           IsGiven(hints) ==
              lesson' = [lesson EXCEPT
                !.state = IF IsOver(attempt, hints) THEN "escalated" ELSE "open",
                !.count = attempt,
                !.given = IF hints = {} THEN @ ELSE Append(@, CHOOSE h \in hints : TRUE)]
<1>1. lesson \in SessionRows
    BY DEF AnswerWrong, Received, IInv
<1>2. lesson.state = "open" /\ attempt \in Nat \ {0}
    BY <1>1 DEF AnswerWrong, SessionRows
<1>3. Len(lesson.given) = lesson.count /\ lesson.count < MaxHintLevel
    BY <1>1, <1>2 DEF IInv, HintsClimb, SessionRows
<1>4. attempt \in 1..MaxHintLevel /\ attempt \in 0..MaxHintLevel
    BY <1>1, <1>2, <1>3 DEF MaxHintLevel
<1>5. PICK serving \in Serving :
        \E tag \in Diagnoses(lesson.problem, net.body.answer, HasModel(serving)) :
        \E hints \in Offered(serving, tag, attempt, lesson.problem) :
            IsGiven(hints)
    BY DEF AnswerWrong
<1>6. PICK tag \in Diagnoses(lesson.problem, net.body.answer, HasModel(serving)) :
        \E hints \in Offered(serving, tag, attempt, lesson.problem) : IsGiven(hints)
    BY <1>5
<1>7. PICK hints \in Offered(serving, tag, attempt, lesson.problem) : IsGiven(hints)
    BY <1>6
<1> DEFINE state == IF IsOver(attempt, hints) THEN "escalated" ELSE "open"
<1>8. state \in {"open"} \cup Terminal
    BY DEF Terminal
<1>9. CASE hints = {}
    <2>1. lesson' = [lesson EXCEPT !.state = "escalated", !.count = attempt,
                                   !.given = lesson.given]
        BY <1>7, <1>9 DEF IsOver
    <2>2. lesson' \in SessionRows /\ lesson'.state = "escalated"
        BY <1>1, <1>4, <1>8, <2>1 DEF SessionRows, Terminal
    <2>3. Given' = Given /\ lesson'.problem = lesson.problem
        BY <1>1, <2>1 DEF Given, SessionRows
    <2> QED
        BY <2>2, <2>3 DEF IInv, HintsAreSafe, HintsClimb
<1>10. CASE hints # {}
    <2> DEFINE hint == CHOOSE h \in hints : TRUE
    <2>1. hint \in hints
        BY <1>10
    <2>2. /\ hint \in Hints /\ hint.level = attempt /\ hint.tag \in {tag, TemplateTag(tag)}
          /\ lesson.problem.answer \notin hint.text.digits \cup hint.text.words
        BY <1>1, <1>4, <2>1, DiagnosesApply, OfferedIsSafe DEF SessionRows
    <2>3. lesson' = [lesson EXCEPT !.state = state, !.count = attempt,
                                   !.given = Append(lesson.given, hint)]
        BY <1>7, <1>10
    <2> HIDE DEF hint
    <2>4. Append(lesson.given, hint) \in Seq(Hints)
        BY <1>1, <2>2 DEF SessionRows
    <2>5. lesson' \in SessionRows
        BY <1>1, <1>4, <1>8, <2>3, <2>4 DEF SessionRows
    <2>6. /\ lesson'.problem = lesson.problem /\ lesson'.count = attempt
          /\ lesson'.state = state /\ lesson'.no = lesson.no
          /\ Given = lesson.given /\ Given' = Append(lesson.given, hint)
        BY <1>1, <2>3 DEF Given, SessionRows
    <2>7. hint.tag \in RuleTags => Operation[hint.tag] = lesson.problem.op
        BY <2>2, TemplateTagFits, DiagnosesApply
    <2>8. ASSUME NEW i \in DOMAIN Given'
          PROVE  \/ i \in DOMAIN Given /\ Given'[i] = Given[i]
                 \/ i = attempt /\ Given'[i] = hint
        BY <1>1, <1>3, <2>2, <2>6 DEF SessionRows
    <2>9. HintsAreSafe'
        BY <2>2, <2>6, <2>7, <2>8 DEF IInv, HintsAreSafe
    <2>10. HintsClimb'
        <3>1. \A i \in DOMAIN Given' : Given'[i].level = i
            BY <2>2, <2>8 DEF IInv, HintsClimb
        <3>2. Len(lesson'.given) = lesson'.count
            BY <1>1, <1>3, <2>2, <2>3, <2>6 DEF SessionRows
        <3>3. lesson'.state = "open" => lesson'.count < MaxHintLevel
            BY <1>2, <2>6 DEF IsOver, MaxHintLevel
        <3> QED
            BY <3>1, <3>2, <3>3 DEF HintsClimb
    <2> QED
        BY <2>5, <2>9, <2>10 DEF IInv
<1> QED
    BY <1>9, <1>10

LEMMA NextIInv == IInv /\ [Next]_vars => IInv'
<1> SUFFICES ASSUME IInv, [Next]_vars
             PROVE  IInv'
    OBVIOUS
<1>1. CASE StartSession
    BY <1>1, StartSessionKeeps
<1>2. CASE AnswerRight
    BY <1>2, AnswerRightKeeps
<1>3. CASE AnswerWrong
    BY <1>3, AnswerWrongKeeps
<1>4. CASE NotForYou \/ AnswerFinished
    BY <1>4, SameLesson DEF NotForYou, AnswerFinished
<1>5. CASE Start \/ Send \/ Fail
    BY <1>5, SameLesson DEF Start, Send, Fail
<1>6. CASE Hear
    BY <1>6, SameLesson DEF Hear, Started, Answered, AppFailed, PageFailed
<1>7. CASE UNCHANGED vars
    BY <1>7, SameLesson DEF vars
<1> QED
    BY <1>1, <1>2, <1>3, <1>4, <1>5, <1>6, <1>7 DEF Next, Serve

-----------------------------------------------------------------------------
(* What is proved *)

\* No hint states the answer in digits or words, a model's as little as a template, and
\* none is given for a mistake in another operation, on any problems, for any texts a
\* model writes and any verdict of the classifier: what is filled or written is checked,
\* and tags are confined.
THEOREM NoHintTells == Spec => []HintsAreSafe
<1>1. IInv => HintsAreSafe
    BY DEF IInv
<1> QED
    BY InitIInv, NextIInv, <1>1, PTL DEF Spec

\* Hints climb one level per wrong answer, or the session is over.
THEOREM HintsGoUp == Spec => []HintsClimb
<1>1. IInv => HintsClimb
    BY DEF IInv
<1> QED
    BY InitIInv, NextIInv, <1>1, PTL DEF Spec

-----------------------------------------------------------------------------
(* Welfare signals *)

LEMMA AtMostOne ==
    ASSUME NEW S, \A p, q \in S : p = q
    PROVE  Cardinality(S) <= 1
<1>1. CASE S = {}
    BY <1>1, FS_EmptySet
<1>2. CASE S # {}
    <2>1. PICK p \in S : TRUE
        BY <1>2
    <2>2. S = {p}
        BY <2>1
    <2>3. Cardinality({p}) = 1
        BY FS_Singleton
    <2> QED
        BY <2>2, <2>3
<1> QED
    BY <1>1, <1>2

\* screen comes to one category, and to an urgent one if any of the signals is.
LEMMA ScreenIsMostUrgent ==
    ASSUME NEW signals \in Seq(DOMAIN Urgency)
    PROVE  /\ Screen(signals) \subseteq DOMAIN Urgency
           /\ \A c, d \in Screen(signals) : c = d
           /\ \A c \in Screen(signals) :
                c \in Urgent <=> \E i \in DOMAIN signals : signals[i] \in Urgent
<1>1. DOMAIN Urgency = {"self_harm", "harm_from_others", "hopelessness"}
      /\ Urgency["self_harm"] = 0 /\ Urgency["harm_from_others"] = 1
      /\ Urgency["hopelessness"] = 2
    BY DEF Urgency
<1> HIDE DEF Urgency
<1>2. \A i \in DOMAIN signals : signals[i] \in DOMAIN Urgency
    OBVIOUS
<1>3. ASSUME NEW c \in Screen(signals)
      PROVE  /\ \E i \in DOMAIN signals : c = signals[i]
             /\ \A j \in DOMAIN signals : Urgency[c] <= Urgency[signals[j]]
    BY DEF Screen
<1>4. ASSUME NEW c \in DOMAIN Urgency, NEW d \in DOMAIN Urgency,
             Urgency[c] <= Urgency[d], Urgency[d] <= Urgency[c]
      PROVE  c = d
    BY <1>1, <1>4
<1>5. ASSUME NEW c \in Screen(signals), NEW d \in Screen(signals)
      PROVE  c = d
    <2>1. Urgency[c] <= Urgency[d] /\ Urgency[d] <= Urgency[c]
        BY <1>3
    <2>2. c \in DOMAIN Urgency /\ d \in DOMAIN Urgency
        BY <1>2, <1>3
    <2> QED
        BY <1>4, <2>1, <2>2
<1>6. ASSUME NEW c \in DOMAIN Urgency, NEW d \in Urgent, Urgency[c] <= Urgency[d]
      PROVE  c \in Urgent
    BY <1>1, <1>6 DEF Urgent
<1>7. ASSUME NEW c \in Screen(signals)
      PROVE  /\ c \in DOMAIN Urgency
             /\ c \in Urgent <=> \E i \in DOMAIN signals : signals[i] \in Urgent
    BY <1>2, <1>3, <1>6
<1> QED
    BY <1>5, <1>7

\* A text with any signal in it comes to a category: screening never holds an answer up.
LEMMA ScreenHearsAny ==
    ASSUME NEW signals \in Seq(DOMAIN Urgency), signals # <<>>
    PROVE  Screen(signals) # {}
<1>1. DOMAIN Urgency = {"self_harm", "harm_from_others", "hopelessness"}
      /\ Urgency["self_harm"] = 0 /\ Urgency["harm_from_others"] = 1
      /\ Urgency["hopelessness"] = 2
    BY DEF Urgency
<1> HIDE DEF Urgency
<1>2. \A i \in DOMAIN signals : signals[i] \in DOMAIN Urgency
    OBVIOUS
<1>3. ASSUME NEW i \in DOMAIN signals,
             \A j \in DOMAIN signals : Urgency[signals[i]] <= Urgency[signals[j]]
      PROVE  Screen(signals) # {}
    BY <1>3 DEF Screen
<1>4. CASE \E i \in DOMAIN signals : signals[i] = "self_harm"
    <2>1. PICK i \in DOMAIN signals : signals[i] = "self_harm"
        BY <1>4
    <2>2. \A j \in DOMAIN signals : Urgency[signals[j]] \in 0..2
        BY <1>1, <1>2
    <2>3. Urgency[signals[i]] = 0
        BY <1>1, <2>1
    <2>4. \A j \in DOMAIN signals : Urgency[signals[i]] <= Urgency[signals[j]]
        BY <2>2, <2>3
    <2> QED
        BY <1>3, <2>4
<1>5. CASE /\ \A i \in DOMAIN signals : signals[i] # "self_harm"
           /\ \E i \in DOMAIN signals : signals[i] = "harm_from_others"
    BY <1>1, <1>2, <1>3, <1>5
<1>6. CASE \A i \in DOMAIN signals : signals[i] = "hopelessness"
    <2>1. 1 \in DOMAIN signals
        OBVIOUS
    <2> QED
        BY <1>1, <1>3, <1>6, <2>1
<1> QED
    BY <1>1, <1>2, <1>4, <1>5, <1>6

AlertOK ==
    /\ written \in {<<>>} \cup Messages
    /\ alert \subseteq [category : DOMAIN Urgency, urgent : BOOLEAN]
    /\ Cardinality(alert) <= 1
    /\ MostUrgentHeard

LEMMA ScreenedOK ==
    ASSUME NEW request, NEW model, request.signals \in Messages,
           written' = request.signals, Screened(request, model)
    PROVE  AlertOK'
<1>1. PICK heard \in Heard(request.signals, model) :
        alert' = IF heard = "clear" THEN {} ELSE {Alert(heard)}
    BY DEF Screened
<1>2. request.signals \in Seq(DOMAIN Urgency)
    BY LessonAssumption
<1>3. heard \in DOMAIN Urgency \/ heard = "clear"
    BY <1>2, ScreenIsMostUrgent DEF Heard
<1>4. alert' \subseteq [category : DOMAIN Urgency, urgent : BOOLEAN]
    <2>1. (heard \in Urgent) \in BOOLEAN
        OBVIOUS
    <2>2. CASE heard = "clear"
        BY <1>1, <2>2
    <2>3. CASE heard # "clear"
        <3>1. heard \in DOMAIN Urgency
            BY <1>3, <2>3
        <3>2. Alert(heard) \in [category : DOMAIN Urgency, urgent : BOOLEAN]
            BY <2>1, <3>1 DEF Alert
        <3> QED
            BY <1>1, <2>3, <3>2
    <2> QED
        BY <2>2, <2>3
<1>5. \A a, b \in alert' : a = b
    BY <1>1
<1>6. MostUrgentHeard'
    <2> SUFFICES ASSUME request.signals # <<>>
                 PROVE  \E a \in alert' : a.urgent <=>
                            \E i \in DOMAIN request.signals : request.signals[i] \in Urgent
        BY DEF MostUrgentHeard
    <2>1. heard \in Screen(request.signals)
        BY DEF Heard
    <2>2. heard # "clear"
        BY <1>2, <2>1, ScreenIsMostUrgent DEF Urgency
    <2>3. heard \in Urgent <=>
            \E i \in DOMAIN request.signals : request.signals[i] \in Urgent
        BY <1>2, <2>1, ScreenIsMostUrgent
    <2>4. Alert(heard) \in alert' /\ Alert(heard).urgent = (heard \in Urgent)
        BY <1>1, <2>2 DEF Alert
    <2> QED
        BY <2>3, <2>4
<1> QED
    BY <1>4, <1>5, <1>6, AtMostOne DEF AlertOK

LEMMA SameAlert ==
    ASSUME AlertOK, alert' = alert, written' = written
    PROVE  AlertOK'
BY DEF AlertOK, MostUrgentHeard

-----------------------------------------------------------------------------
(* The screen, the network and the record *)

ScreenRows == [phase : Phases, no : 0..MaxLessons, problem : Problems, hints : Seq(Hints)]

\* A request or reply is on its way exactly while the child waits for one.
Talking ==
    /\ net.kind \in {"none", "start", "answer", "started", "answered", "refused", "cut off"}
    /\ net.kind = "none" <=> screen.phase \notin {"loading", "busy"}
    /\ net.kind \in {"start", "started"} => screen.phase = "loading"
    /\ net.kind \in {"answer", "answered"} => screen.phase = "busy"
    /\ screen.phase = "loading" => screen.hints = <<>>
    /\ client = "app" => screen.phase # "retry"
    /\ screen.no <= lesson.no /\ lesson.no <= MaxLessons

\* What is on its way is so in the record.
ANewLesson ==
    /\ lesson # NoLesson /\ net.body.no = lesson.no /\ net.body.problem = lesson.problem
    /\ lesson.state = "open" /\ lesson.given = <<>>
NewHint == CHOOSE h \in net.body.hints : TRUE
AVerdict ==
    /\ lesson # NoLesson /\ screen.no = lesson.no
    /\ lesson.state = IF net.body.correct THEN "complete"
                      ELSE IF net.body.done THEN "escalated" ELSE "open"
    /\ client = "app" => lesson.given = IF net.body.hints = {} THEN screen.hints
                                        ELSE Append(screen.hints, NewHint)
    /\ net.body.hints # {} => \E j \in DOMAIN lesson.given : NewHint = lesson.given[j]
Carried ==
    /\ net.kind = "start" => lesson.no < MaxLessons
    /\ net.kind = "answer" => net.body.no = screen.no /\ net.body.signals \in Messages
    /\ net.kind = "started" => ANewLesson
    /\ net.kind = "answered" => AVerdict

\* ScreenFollowsRecord without the picture; the app has every hint given unless the
\* reply that brings it is on its way or was lost.
Following ==
    screen.no > 0 /\ screen.no = lesson.no =>
        /\ screen.problem = lesson.problem
        /\ client = "app" => IsPrefixOf(screen.hints, Given)
        /\ client = "app" /\ (screen.phase = "question" \/ net.kind = "answer") =>
            screen.hints = Given
        /\ \A i \in DOMAIN screen.hints : \E j \in DOMAIN Given : screen.hints[i] = Given[j]
        /\ screen.phase = "celebration" => lesson.state = "complete"
        /\ screen.phase = "teacher" => lesson.state = "escalated"
        /\ screen.phase = "question" => lesson.state = "open"

ScreenInv ==
    /\ client \in Clients /\ identity \in {"student", "other", "none"}
    /\ screen \in ScreenRows /\ failures \in 0..MaxFailures
    /\ AlertOK /\ Talking /\ Carried /\ Following

LEMMA Prefixes ==
    ASSUME NEW S, NEW s \in Seq(S)
    PROVE  IsPrefixOf(<<>>, s) /\ IsPrefixOf(s, s)
BY SubSeqEmpty, SubSeqFull DEF IsPrefixOf

LEMMA PrefixOfLonger ==
    ASSUME NEW S, NEW s \in Seq(S), NEW e \in S
    PROVE  IsPrefixOf(s, Append(s, e))
<1>1. Append(s, e) \in Seq(S) /\ Len(Append(s, e)) = Len(s) + 1 /\ Len(s) \in Nat
      /\ \A i \in 1..Len(s) : Append(s, e)[i] = s[i]
    OBVIOUS
<1> DEFINE t == SubSeq(Append(s, e), 1, Len(s))
<1>2. t \in Seq(S) /\ Len(t) = Len(s) /\ \A i \in 1..Len(s) : t[i] = s[i]
    BY <1>1
<1> HIDE DEF t
<1>3. t = s
    BY <1>1, <1>2, SeqEqual
<1> QED
    BY <1>1, <1>3 DEF IsPrefixOf, t

LEMMA InitScreen == Init => ScreenInv
<1> SUFFICES ASSUME Init PROVE ScreenInv
    OBVIOUS
<1>1. screen \in ScreenRows /\ screen.no = 0 /\ screen.hints = <<>>
      /\ screen.phase \in {"error", "loading"}
    <2>1. (CHOOSE p \in Problems : TRUE) \in Problems /\ 0 \in 0..MaxLessons
        BY LessonAssumption
    <2> QED
        BY <2>1 DEF Init, ScreenRows, Phases, Leaving
<1>2. net.kind = (IF screen.phase = "error" THEN "none" ELSE "start")
    BY DEF Init, Quiet, Going
<1>3. lesson.no = 0 /\ 0 < MaxLessons /\ 0 <= MaxLessons
    BY LessonAssumption DEF Init, NoLesson
<1>4. AlertOK
    BY FS_EmptySet DEF Init, AlertOK, MostUrgentHeard
<1>5. Talking /\ Carried /\ Following
    BY <1>1, <1>2, <1>3 DEF Talking, Carried, Following
<1> QED
    BY <1>1, <1>4, <1>5, LessonAssumption DEF Init, ScreenInv

-----------------------------------------------------------------------------
(* The server answers, or does not *)

LEMMA GivenIs ==
    ASSUME IInv, lesson # NoLesson
    PROVE  lesson \in SessionRows /\ Given = lesson.given /\ lesson.given \in Seq(Hints)
           /\ lesson.no > 0
BY DEF IInv, Given, SessionRows

\* A request that is refused or lost leaves the screen as it is for now.
LEMMA UnansweredKeeps ==
    ASSUME ScreenInv, NotForYou \/ AnswerFinished \/ Fail
    PROVE  ScreenInv'
<1>1. UNCHANGED <<client, identity, screen, lesson, written, alert>>
    BY DEF NotForYou, AnswerFinished, Fail, child
<1>2. net.kind \in {"start", "answer", "started", "answered"}
      /\ net'.kind \in {"refused", "cut off"}
    <2>1. PICK how \in {"refused", "cut off"} : net' = Going(how, <<>>)
        BY DEF NotForYou, AnswerFinished, Fail
    <2>2. net'.kind = how
        BY <2>1 DEF Going
    <2> QED
        BY <2>2 DEF NotForYou, AnswerFinished, Received, Fail
<1>3. failures' \in 0..MaxFailures
    <2>1. failures \in 0..MaxFailures /\ MaxFailures \in Nat
        BY LessonAssumption DEF ScreenInv
    <2>2. failures' = failures \/ (failures' = failures + 1 /\ failures < MaxFailures)
        BY DEF NotForYou, AnswerFinished, Fail
    <2> QED
        BY <2>1, <2>2
<1>4. Given' = Given
    BY <1>1 DEF Given
<1>5. Talking' /\ Carried' /\ Following'
    BY <1>1, <1>2, <1>4 DEF ScreenInv, Talking, Carried, Following
<1>6. AlertOK'
    BY <1>1, SameAlert DEF ScreenInv
<1> QED
    BY <1>1, <1>3, <1>5, <1>6 DEF ScreenInv

LEMMA StartSessionFollowed ==
    ASSUME IInv, ScreenInv, StartSession
    PROVE  ScreenInv'
<1>1. PICK p \in Problems :
        /\ lesson' = [no |-> lesson.no + 1, problem |-> p, state |-> "open",
                      count |-> 0, given |-> <<>>]
        /\ net' = Going("started", [no |-> lesson.no + 1, problem |-> p])
    BY DEF StartSession
<1>2. UNCHANGED <<client, identity, screen, written, alert, failures>> /\ net.kind = "start"
    BY DEF StartSession, child
<1>3. net'.kind = "started" /\ net'.body = [no |-> lesson.no + 1, problem |-> p]
    BY <1>1 DEF Going
<1>4. lesson.no \in Nat /\ screen.no \in Nat /\ MaxLessons \in Nat
    BY LessonAssumption DEF IInv, NoLesson, SessionRows, ScreenInv, ScreenRows
<1>5. lesson' # NoLesson
    <2>1. lesson'.no = lesson.no + 1 /\ NoLesson.no = 0
        BY <1>1 DEF NoLesson
    <2> QED
        BY <1>4, <2>1
<1>6. ANewLesson'
    BY <1>1, <1>3, <1>5 DEF ANewLesson
<1>7. lesson'.no = lesson.no + 1 /\ screen.no < lesson'.no /\ lesson'.no <= MaxLessons
    BY <1>1, <1>2, <1>4 DEF ScreenInv, Talking, Carried
<1>8. Talking' /\ Carried' /\ Following'
    <2>1. Talking'
        BY <1>2, <1>3, <1>4, <1>7 DEF ScreenInv, Talking
    <2>2. Carried'
        BY <1>3, <1>6 DEF Carried
    <2>3. Following'
        BY <1>2, <1>4, <1>7 DEF Following
    <2> QED
        BY <2>1, <2>2, <2>3
<1>9. AlertOK'
    BY <1>2, SameAlert DEF ScreenInv
<1> QED
    BY <1>2, <1>8, <1>9 DEF ScreenInv

\* The session that a received answer is for is the one on the screen.
LEMMA ReceivedIs ==
    ASSUME IInv, ScreenInv, Received, lesson.state \notin Terminal,
           written' = net.body.signals, NEW model, Screened(net.body, model)
    PROVE  /\ lesson \in SessionRows /\ lesson.given \in Seq(Hints) /\ Given = lesson.given
           /\ screen.no = lesson.no /\ screen.phase = "busy" /\ lesson.no > 0
           /\ client = "app" => screen.hints = lesson.given
           /\ lesson.state = "open" /\ AlertOK'
<1>1. net.kind = "answer" /\ lesson # NoLesson /\ net.body.no = lesson.no
    BY DEF Received
<1>2. lesson \in SessionRows /\ Given = lesson.given /\ lesson.given \in Seq(Hints)
      /\ lesson.no > 0
    BY <1>1, GivenIs
<1>3. screen.no = lesson.no /\ net.body.signals \in Messages /\ screen.phase = "busy"
    BY <1>1 DEF ScreenInv, Carried, Talking
<1>4. lesson.state = "open"
    BY <1>2 DEF SessionRows
<1>5. AlertOK'
    BY <1>3, ScreenedOK
<1> QED
    BY <1>1, <1>2, <1>3, <1>4, <1>5 DEF ScreenInv, Following

LEMMA AnswerRightFollowed ==
    ASSUME IInv, ScreenInv, AnswerRight
    PROVE  ScreenInv'
<1>1. /\ lesson \in SessionRows /\ lesson.given \in Seq(Hints) /\ Given = lesson.given
      /\ screen.no = lesson.no /\ screen.phase = "busy" /\ lesson.no > 0
      /\ client = "app" => screen.hints = lesson.given
      /\ AlertOK'
    BY ReceivedIs DEF AnswerRight
<1>2. UNCHANGED <<client, identity, screen, failures>>
    BY DEF AnswerRight, child
<1>3. /\ lesson'.no = lesson.no /\ lesson'.problem = lesson.problem
      /\ lesson'.state = "complete" /\ lesson'.given = lesson.given
      /\ net'.kind = "answered"
      /\ net'.body = [correct |-> TRUE, done |-> TRUE, hints |-> {}]
    BY <1>1 DEF AnswerRight, SessionRows, Going
<1>4. lesson' # NoLesson /\ Given' = Given
    BY <1>1, <1>3 DEF NoLesson, Given
<1>5. Carried'
    BY <1>1, <1>2, <1>3, <1>4 DEF Carried, AVerdict
<1>6. Talking'
    BY <1>1, <1>2, <1>3 DEF ScreenInv, Talking
<1>7. Following'
    BY <1>1, <1>2, <1>3, <1>4 DEF ScreenInv, Following
<1> QED
    BY <1>1, <1>2, <1>5, <1>6, <1>7 DEF ScreenInv

LEMMA AnswerWrongFollowed ==
    ASSUME IInv, IInv', ScreenInv, AnswerWrong
    PROVE  ScreenInv'
<1>1. /\ lesson \in SessionRows /\ lesson.given \in Seq(Hints) /\ Given = lesson.given
      /\ screen.no = lesson.no /\ screen.phase = "busy" /\ lesson.no > 0
      /\ client = "app" => screen.hints = lesson.given
      /\ AlertOK'
    BY ReceivedIs DEF AnswerWrong
<1>2. UNCHANGED <<client, identity, screen, failures>>
    BY DEF AnswerWrong, child
<1> DEFINE attempt == lesson.count + 1
           IsGiven(hints) ==
             /\ lesson' = [lesson EXCEPT
                !.state = IF IsOver(attempt, hints) THEN "escalated" ELSE "open",
                !.count = attempt,
                !.given = IF hints = {} THEN @ ELSE Append(@, CHOOSE h \in hints : TRUE)]
             /\ net' = Going("answered", [correct |-> FALSE, done |-> IsOver(attempt, hints),
                                          hints |-> hints])
<1>3. PICK serving \in Serving :
        \E tag \in Diagnoses(lesson.problem, net.body.answer, HasModel(serving)) :
        \E hints \in Offered(serving, tag, attempt, lesson.problem) : IsGiven(hints)
    BY DEF AnswerWrong
<1>4. PICK hints : IsGiven(hints)
    BY <1>3
<1> DEFINE over == IsOver(attempt, hints)
           hint == CHOOSE h \in hints : TRUE
<1>5. /\ lesson'.no = lesson.no /\ lesson'.problem = lesson.problem
      /\ lesson'.state = (IF over THEN "escalated" ELSE "open")
      /\ lesson'.given = IF hints = {} THEN lesson.given ELSE Append(lesson.given, hint)
      /\ net'.kind = "answered"
      /\ net'.body = [correct |-> FALSE, done |-> over, hints |-> hints]
    BY <1>1, <1>4 DEF SessionRows, Going
<1>6. lesson' # NoLesson /\ lesson'.no > 0 /\ lesson'.given \in Seq(Hints)
      /\ Given' = lesson'.given
    <2>1. lesson' # NoLesson
        BY <1>1, <1>5 DEF NoLesson
    <2> QED
        BY <1>1, <1>5, <2>1 DEF IInv, SessionRows, Given
<1>7. NewHint' = hint
    BY <1>5 DEF NewHint
<1> HIDE DEF hint, over, attempt
<1>8. \A i \in DOMAIN lesson.given :
        i \in DOMAIN lesson'.given /\ lesson'.given[i] = lesson.given[i]
    BY <1>1, <1>5
<1>9. hints # {} => \E j \in DOMAIN lesson'.given : hint = lesson'.given[j]
    <2> SUFFICES ASSUME hints # {}
                 PROVE  \E j \in DOMAIN lesson'.given : hint = lesson'.given[j]
        OBVIOUS
    <2>1. lesson'.given = Append(lesson.given, hint)
        BY <1>5
    <2>2. Len(lesson.given) + 1 \in DOMAIN lesson'.given
          /\ lesson'.given[Len(lesson.given) + 1] = hint
        BY <1>1, <2>1
    <2> QED
        BY <2>2
<1>10. Carried'
    BY <1>1, <1>2, <1>5, <1>6, <1>7, <1>9 DEF Carried, AVerdict
<1>11. Talking'
    BY <1>1, <1>2, <1>5 DEF ScreenInv, Talking
<1>12. Following'
    <2>1. client = "app" => IsPrefixOf(screen.hints, lesson'.given)
        <3> SUFFICES ASSUME client = "app" PROVE IsPrefixOf(lesson.given, lesson'.given)
            BY <1>1
        <3>1. CASE hints = {}
            <4>1. lesson'.given = lesson.given
                BY <1>5, <3>1
            <4> QED
                BY <1>1, <4>1, Prefixes
        <3>2. CASE hints # {}
            <4>1. lesson'.given = Append(lesson.given, hint)
                BY <1>5, <3>2
            <4>2. hint \in Hints
                BY <1>6, <1>9, <3>2
            <4> QED
                BY <1>1, <4>1, <4>2, PrefixOfLonger
        <3> QED
            BY <3>1, <3>2
    <2>2. \A i \in DOMAIN screen.hints : \E j \in DOMAIN lesson'.given :
            screen.hints[i] = lesson'.given[j]
        BY <1>1, <1>8 DEF ScreenInv, Following
    <2>3. screen.problem = lesson'.problem
        BY <1>1, <1>5 DEF ScreenInv, Following
    <2> QED
        BY <1>1, <1>2, <1>5, <1>6, <2>1, <2>2, <2>3 DEF Following
<1> QED
    BY <1>1, <1>2, <1>10, <1>11, <1>12 DEF ScreenInv

-----------------------------------------------------------------------------
(* The client *)

LEMMA StartFollowed ==
    ASSUME IInv, ScreenInv, Start
    PROVE  ScreenInv'
<1>1. UNCHANGED <<client, identity, lesson, written, alert, failures>> /\ net.kind = "none"
      /\ lesson.no < MaxLessons /\ net'.kind = "start"
    BY DEF Start, child, Going, Quiet
<1>2. screen \in ScreenRows
    BY DEF ScreenInv
<1>3. screen' \in ScreenRows /\ screen'.phase = "loading" /\ screen'.hints = <<>>
      /\ screen'.no = screen.no /\ screen'.problem = screen.problem
    <2>1. screen' = [screen EXCEPT !.phase = "loading", !.hints = <<>>]
        BY DEF Start, Begin
    <2>2. "loading" \in Phases /\ <<>> \in Seq(Hints)
        BY DEF Phases
    <2> QED
        BY <1>2, <2>1, <2>2 DEF ScreenRows
<1>4. Given' = Given /\ Given \in Seq(Hints)
    BY <1>1 DEF Given, IInv, NoLesson, SessionRows
<1>5. Talking' /\ Carried'
    BY <1>1, <1>3 DEF ScreenInv, Talking, Carried
<1>6. Following'
    <2>1. IsPrefixOf(<<>>, Given) /\ DOMAIN screen'.hints = {}
        BY <1>3, <1>4, Prefixes
    <2> QED
        BY <1>1, <1>3, <1>4, <2>1 DEF ScreenInv, Following
<1>7. AlertOK'
    BY <1>1, SameAlert DEF ScreenInv
<1> QED
    BY <1>1, <1>3, <1>5, <1>6, <1>7 DEF ScreenInv

LEMMA SendFollowed ==
    ASSUME IInv, ScreenInv, Send
    PROVE  ScreenInv'
<1>1. UNCHANGED <<client, identity, lesson, written, alert, failures>> /\ net.kind = "none"
      /\ screen.phase \in {"question", "retry"}
    BY DEF Send, child, Quiet
<1>2. PICK answer \in Typed(screen.problem), signals \in Messages :
        net' = Going("answer", [no |-> screen.no, answer |-> answer, signals |-> signals])
    BY DEF Send
<1>3. net'.kind = "answer" /\ net'.body.no = screen.no /\ net'.body.signals \in Messages
    BY <1>2 DEF Going
<1>4. screen \in ScreenRows
    BY DEF ScreenInv
<1>5. screen' \in ScreenRows /\ screen'.phase = "busy" /\ screen'.hints = screen.hints
      /\ screen'.no = screen.no /\ screen'.problem = screen.problem
    BY <1>4 DEF Send, Showing, ScreenRows, Phases
<1>6. Given' = Given
    BY <1>1 DEF Given
<1>7. Talking' /\ Carried'
    BY <1>1, <1>3, <1>5 DEF ScreenInv, Talking, Carried
<1>8. Following'
    BY <1>1, <1>5, <1>6 DEF ScreenInv, Following, Talking
<1>9. AlertOK'
    BY <1>1, SameAlert DEF ScreenInv
<1> QED
    BY <1>1, <1>5, <1>7, <1>8, <1>9 DEF ScreenInv

LEMMA StartedFollowed ==
    ASSUME IInv, ScreenInv, Started
    PROVE  ScreenInv'
<1>1. UNCHANGED <<client, identity, lesson, written, alert, failures>> /\ net.kind = "started"
      /\ net'.kind = "none"
    BY DEF Started, child, Quiet
<1>2. ANewLesson /\ screen.hints = <<>> /\ screen.phase = "loading" /\ lesson.no <= MaxLessons
    BY <1>1 DEF ScreenInv, Carried, Talking
<1>3. lesson \in SessionRows /\ Given = <<>> /\ lesson.no \in 0..MaxLessons
    BY <1>2, GivenIs, LessonAssumption DEF ANewLesson, SessionRows
<1>4. screen \in ScreenRows
    BY DEF ScreenInv
<1>5. screen' \in ScreenRows /\ screen'.phase = "question" /\ screen'.hints = <<>>
      /\ screen'.no = lesson.no /\ screen'.problem = lesson.problem
    BY <1>2, <1>3, <1>4 DEF Started, ScreenRows, Phases, ANewLesson, SessionRows
<1>6. Given' = <<>>
    BY <1>1, <1>3 DEF Given
<1>7. Talking' /\ Carried'
    BY <1>1, <1>2, <1>3, <1>5 DEF ScreenInv, Talking, Carried
<1>8. Following'
    <2>1. IsPrefixOf(<<>>, <<>>)
        <3>1. <<>> \in Seq(Hints)
            OBVIOUS
        <3> QED
            BY <3>1 DEF IsPrefixOf
    <2> QED
        BY <1>1, <1>2, <1>5, <1>6, <2>1 DEF Following, ANewLesson
<1>9. AlertOK'
    BY <1>1, SameAlert DEF ScreenInv
<1> QED
    BY <1>1, <1>5, <1>7, <1>8, <1>9 DEF ScreenInv

LEMMA AnsweredFollowed ==
    ASSUME IInv, ScreenInv, Answered
    PROVE  ScreenInv'
<1>1. UNCHANGED <<client, identity, lesson, written, alert, failures>> /\ net.kind = "answered"
      /\ net'.kind = "none"
    BY DEF Answered, child, Quiet
<1>2. AVerdict /\ screen.phase = "busy" /\ screen \in ScreenRows /\ Following
    BY <1>1 DEF ScreenInv, Carried, Talking
<1>3. lesson \in SessionRows /\ Given = lesson.given /\ lesson.given \in Seq(Hints)
      /\ lesson.no > 0 /\ screen.no = lesson.no
    BY <1>2, GivenIs DEF AVerdict
<1> DEFINE phase == IF net.body.correct THEN "celebration"
                    ELSE IF net.body.done THEN "teacher" ELSE "question"
           hints == WithHints(net.body.hints)
<1>4. phase \in Phases /\ phase \in {"celebration", "teacher", "question"}
      /\ (phase = "celebration" => lesson.state = "complete")
      /\ (phase = "teacher" => lesson.state = "escalated")
      /\ (phase = "question" => lesson.state = "open")
    BY <1>2 DEF Phases, Leaving, AVerdict
<1>5. hints \in Seq(Hints) /\ (client = "app" => hints = lesson.given)
      /\ \A i \in DOMAIN hints : \E j \in DOMAIN lesson.given : hints[i] = lesson.given[j]
    <2>1. CASE client = "app"
        <3>1. hints = lesson.given
            BY <1>2, <2>1 DEF WithHints, AVerdict, NewHint
        <3> QED
            BY <1>3, <3>1
    <2>2. CASE client # "app" /\ net.body.hints = {}
        <3>1. hints = <<>>
            BY <2>2 DEF WithHints
        <3>2. hints \in Seq(Hints) /\ DOMAIN hints = {}
            BY <3>1
        <3> QED
            BY <2>2, <3>2
    <2>3. CASE client # "app" /\ net.body.hints # {}
        <3>1. hints = Append(<<>>, NewHint)
            BY <2>3 DEF WithHints, NewHint
        <3>2. PICK j \in DOMAIN lesson.given : NewHint = lesson.given[j]
            BY <1>2, <2>3 DEF AVerdict
        <3>3. NewHint \in Hints
            BY <1>3, <3>2
        <3>4. hints \in Seq(Hints) /\ DOMAIN hints = {1} /\ hints[1] = NewHint
            BY <3>1, <3>3
        <3> HIDE DEF hints
        <3> QED
            BY <2>3, <3>2, <3>4
    <2> QED
        BY <2>1, <2>2, <2>3
<1>6. screen' = [screen EXCEPT !.phase = phase, !.hints = hints]
    BY DEF Answered
<1> HIDE DEF phase, hints
<1>7. screen' \in ScreenRows /\ screen'.phase = phase /\ screen'.hints = hints
      /\ screen'.no = screen.no /\ screen'.problem = screen.problem
    BY <1>2, <1>4, <1>5, <1>6 DEF ScreenRows
<1>8. Given' = Given
    BY <1>1 DEF Given
<1>9. Talking' /\ Carried'
    BY <1>1, <1>2, <1>3, <1>4, <1>7 DEF ScreenInv, Talking, Carried
<1>10. Following'
    <2>1. client = "app" => IsPrefixOf(hints, lesson.given)
        BY <1>3, <1>5, Prefixes
    <2> QED
        BY <1>1, <1>2, <1>3, <1>4, <1>5, <1>7, <1>8, <2>1 DEF Following
<1>11. AlertOK'
    BY <1>1, SameAlert DEF ScreenInv
<1> QED
    BY <1>1, <1>7, <1>9, <1>10, <1>11 DEF ScreenInv

LEMMA FailedFollowed ==
    ASSUME IInv, ScreenInv, AppFailed \/ PageFailed
    PROVE  ScreenInv'
<1>1. UNCHANGED <<client, identity, lesson, written, alert, failures>>
      /\ net.kind \in {"refused", "cut off"} /\ net'.kind = "none"
    <2>1. net' = Quiet
        BY DEF AppFailed, PageFailed
    <2>2. net'.kind = "none"
        BY <2>1 DEF Quiet
    <2> QED
        BY <2>2 DEF AppFailed, PageFailed, child
<1>2. PICK phase \in {"error", "retry", "dead"} :
        screen' = Showing(phase) /\ (client = "app" => phase = "error")
    BY DEF AppFailed, PageFailed
<1>3. screen \in ScreenRows
    BY DEF ScreenInv
<1>4. screen' \in ScreenRows /\ screen'.phase = phase /\ screen'.hints = screen.hints
      /\ screen'.no = screen.no /\ screen'.problem = screen.problem
    BY <1>2, <1>3 DEF Showing, ScreenRows, Phases, Leaving
<1>5. Given' = Given
    BY <1>1 DEF Given
<1>6. Talking' /\ Carried'
    BY <1>1, <1>2, <1>4 DEF ScreenInv, Talking, Carried
<1>7. Following'
    <2> SUFFICES ASSUME screen.no > 0, screen.no = lesson.no
                 PROVE  Following'
        BY <1>1, <1>4 DEF Following
    <2>1. /\ screen.problem = lesson.problem
          /\ client = "app" => IsPrefixOf(screen.hints, Given)
          /\ \A i \in DOMAIN screen.hints : \E j \in DOMAIN Given : screen.hints[i] = Given[j]
        BY DEF ScreenInv, Following
    <2>2. screen'.phase \notin {"celebration", "teacher", "question"}
        BY <1>4
    <2> QED
        BY <1>1, <1>4, <1>5, <2>1, <2>2 DEF Following
<1>8. AlertOK'
    BY <1>1, SameAlert DEF ScreenInv
<1> QED
    BY <1>1, <1>4, <1>6, <1>7, <1>8 DEF ScreenInv

-----------------------------------------------------------------------------
(* The specification keeps the invariants *)

LEMMA NextScreen == IInv /\ IInv' /\ ScreenInv /\ [Next]_vars => ScreenInv'
<1> SUFFICES ASSUME IInv, IInv', ScreenInv, [Next]_vars
             PROVE  ScreenInv'
    OBVIOUS
<1>1. CASE UNCHANGED vars
    <2>1. UNCHANGED <<client, identity, screen, net, lesson, written, alert, failures>>
        BY <1>1 DEF vars, child
    <2>2. Given' = Given /\ (ANewLesson' <=> ANewLesson) /\ (AVerdict' <=> AVerdict)
        BY <2>1 DEF Given, ANewLesson, AVerdict, NewHint
    <2>3. Talking' /\ Carried' /\ Following'
        BY <2>1, <2>2 DEF ScreenInv, Talking, Carried, Following
    <2>4. AlertOK'
        BY <2>1, SameAlert DEF ScreenInv
    <2> QED
        BY <2>1, <2>3, <2>4 DEF ScreenInv
<1>2. CASE Next
    BY <1>2, UnansweredKeeps, StartSessionFollowed, AnswerRightFollowed, AnswerWrongFollowed,
       StartFollowed, SendFollowed, StartedFollowed, AnsweredFollowed, FailedFollowed
       DEF Next, Serve, Hear
<1> QED
    BY <1>1, <1>2

LEMMA BothInvariants == Spec => [](IInv /\ ScreenInv)
<1>1. Init => IInv /\ ScreenInv
    BY InitIInv, InitScreen
<1>2. IInv /\ ScreenInv /\ [Next]_vars => (IInv /\ ScreenInv)'
    BY NextIInv, NextScreen
<1> QED
    BY <1>1, <1>2, PTL DEF Spec

\* Problems of the kind the curriculum is of (seed.py:109-117): sums, and differences
\* that are not below zero.
ArithmeticProblems ==
    Sum(Nat \X Nat) \cup Difference({x \in Nat \X Nat : x[1] >= x[2]})

LEMMA SeedsAreArithmetic == SeedProblems \subseteq ArithmeticProblems
<1> DEFINE sums == {<<7, 5>>, <<8, 6>>, <<9, 4>>, <<6, 7>>, <<5, 9>>, <<8, 3>>}
           differences == {<<13, 8>>, <<15, 7>>, <<12, 9>>, <<16, 8>>, <<14, 6>>, <<11, 4>>}
<1>1. sums \subseteq Nat \X Nat
    OBVIOUS
<1>2. \A x \in differences : x \in Nat \X Nat /\ x[1] >= x[2]
    OBVIOUS
<1> HIDE DEF sums, differences
<1>3. Sum(sums) \subseteq Sum(Nat \X Nat)
    BY <1>1 DEF Sum
<1>4. Difference(differences) \subseteq Difference({x \in Nat \X Nat : x[1] >= x[2]})
    BY <1>2 DEF Difference
<1> QED
    BY <1>3, <1>4 DEF SeedProblems, ArithmeticProblems, sums, differences

LEMMA SumIsDrawn ==
    ASSUME NEW a \in Nat, NEW b \in Nat,
           NEW p, p = [op |-> "+", a |-> a, b |-> b, answer |-> a + b]
    PROVE  PictureShows(p)
<1>1. CASE FitsATenFrame(p)
    <2> DEFINE reach == IF a + b <= TenFrameCapacity THEN a + b ELSE TenFrameCapacity
    <2>1. a \in 0..10 /\ b \in 0..10 /\ p.a = a /\ p.b = b
        BY <1>1 DEF FitsATenFrame, TenFrameCapacity
    <2>2. FilledSquares(p) = 0..(a - 1)
        BY <2>1 DEF FilledSquares, TenFrameCapacity
    <2>3. AddingSquares(p) = a..(reach - 1)
        BY <2>1, <2>2 DEF AddingSquares, TenFrameCapacity
    <2>4. Cardinality(0..(a - 1)) = a
        BY <2>1, FS_Interval
    <2>5. Cardinality(a..(reach - 1)) = reach - a
        <3>1. reach \in Int /\ reach >= a
            BY <2>1 DEF TenFrameCapacity
        <3> HIDE DEF reach
        <3>2. a > reach - 1 <=> reach = a
            BY <3>1
        <3>3. Cardinality(a..(reach - 1)) =
                IF a > reach - 1 THEN 0 ELSE (reach - 1) - a + 1
            BY <3>1, FS_Interval
        <3> QED
            BY <3>1, <3>2, <3>3
    <2>6. reach - a + Spill(p) = b
        BY <2>1 DEF Spill, Larger, TenFrameCapacity
    <2> HIDE DEF reach
    <2> QED
        BY <1>1, <2>1, <2>2, <2>3, <2>4, <2>5, <2>6 DEF PictureShows
<1>2. CASE ~FitsATenFrame(p)
    <2>1. Span(p) \in Nat /\ a + b <= Span(p)
        BY DEF Span, Larger, TenFrameCapacity
    <2>2. a \in 0..Span(p) /\ a + b \in 0..Span(p)
        BY <2>1
    <2> QED
        BY <1>2, <2>2 DEF PictureShows, Labels
<1> QED
    BY <1>1, <1>2

LEMMA DifferenceIsDrawn ==
    ASSUME NEW a \in Nat, NEW b \in Nat, a >= b,
           NEW p, p = [op |-> "-", a |-> a, b |-> b, answer |-> a - b]
    PROVE  PictureShows(p)
<1>1. ~FitsATenFrame(p)
    BY DEF FitsATenFrame
<1>2. Span(p) \in Nat /\ a <= Span(p)
    BY DEF Span, Larger, TenFrameCapacity
<1>3. a \in 0..Span(p) /\ a - b \in 0..Span(p)
    BY <1>2
<1> QED
    BY <1>1, <1>3 DEF PictureShows, Labels

LEMMA ArithmeticIsDrawn ==
    ASSUME NEW p \in ArithmeticProblems
    PROVE  PictureShows(p)
<1>1. CASE p \in Sum(Nat \X Nat)
    <2>1. PICK a \in Nat, b \in Nat : p = [op |-> "+", a |-> a, b |-> b, answer |-> a + b]
        BY <1>1 DEF Sum
    <2> QED
        BY <2>1, SumIsDrawn
<1>2. CASE p \in Difference({x \in Nat \X Nat : x[1] >= x[2]})
    <2>1. PICK a \in Nat, b \in Nat :
            a >= b /\ p = [op |-> "-", a |-> a, b |-> b, answer |-> a - b]
        BY <1>2 DEF Difference
    <2> QED
        BY <2>1, DifferenceIsDrawn
<1> QED
    BY <1>1, <1>2 DEF ArithmeticProblems

\* Every variable keeps to its kind: a session has at most as many attempts as there are
\* hint levels and a submission raises one alert at most, whatever is lost and sent again.
THEOREM TypeCorrect == Spec => []TypeOK
<1>1. IInv /\ ScreenInv => TypeOK
    <2> SUFFICES ASSUME IInv, ScreenInv PROVE TypeOK
        OBVIOUS
    <2>1. lesson \in Lessons
        <3>1. CASE lesson = NoLesson
            BY <3>1 DEF Lessons
        <3>2. CASE lesson \in SessionRows
            <4>1. lesson.no \in 1..MaxLessons
                <5>1. lesson.no \in Nat \ {0}
                    BY <3>2 DEF SessionRows
                <5>2. lesson.no <= MaxLessons /\ MaxLessons \in Nat
                    BY LessonAssumption DEF ScreenInv, Talking
                <5> QED
                    BY <5>1, <5>2
            <4> QED
                BY <3>2, <4>1 DEF Lessons, SessionRows
        <3> QED
            BY <3>1, <3>2 DEF IInv
    <2> QED
        BY <2>1 DEF ScreenInv, ScreenRows, AlertOK, Talking, TypeOK
<1> QED
    BY <1>1, BothInvariants, PTL

\* A text that was judged, right or wrong (student.py:262-270), and holds a signal has
\* raised an alert, which calls an adult at once exactly if one of its signals does, for
\* any text, in whatever order its signals come (distress.py:144-148).
THEOREM UrgentIsHeard == Spec => []MostUrgentHeard
<1>1. ScreenInv => MostUrgentHeard
    BY DEF ScreenInv, AlertOK
<1> QED
    BY <1>1, BothInvariants, PTL

\* On problems of the curriculum's kind, what a child sees is what the record says of that
\* session, whatever was lost and sent again, and the picture is one of the problem: the
\* squares count both its numbers, the line marks the start and reaches the answer.
THEOREM ScreenIsTrue ==
    ASSUME Problems \subseteq ArithmeticProblems
    PROVE  Spec => []ScreenFollowsRecord
<1>1. ScreenInv => ScreenFollowsRecord
    <2> SUFFICES ASSUME ScreenInv, screen.no > 0 /\ screen.no = lesson.no
                 PROVE  PictureShows(screen.problem)
        BY DEF ScreenInv, Following, ScreenFollowsRecord
    <2>1. screen.problem \in Problems
        BY DEF ScreenInv, ScreenRows
    <2> QED
        BY <2>1, ArithmeticIsDrawn
<1> QED
    BY <1>1, BothInvariants, PTL
=============================================================================
