------------------------------ MODULE Fallbacks ------------------------------
(***************************************************************************)
(* What is decided without a model: how an answer is judged                *)
(* (services/symbolic/), which misconception a wrong one shows, which      *)
(* template answers it and whether that would give the answer away, what a *)
(* welfare signal in it means (packages/fallbacks/), and what is drawn     *)
(* beside the problem (services/api/student.py).                           *)
(***************************************************************************)
EXTENDS Integers, Sequences

-----------------------------------------------------------------------------
(* Problems and answers *)

Sum(pairs) == {[op |-> "+", a |-> x[1], b |-> x[2], answer |-> x[1] + x[2]] : x \in pairs}
Difference(pairs) ==
    {[op |-> "-", a |-> x[1], b |-> x[2], answer |-> x[1] - x[2]] : x \in pairs}

\* The problems a database is seeded with.
SeedProblems ==
    Sum({<<7, 5>>, <<8, 6>>, <<9, 4>>, <<6, 7>>, <<5, 9>>, <<8, 3>>})
    \cup Difference({<<13, 8>>, <<15, 7>>, <<12, 9>>, <<16, 8>>, <<14, 6>>, <<11, 4>>})

\* What a child may type, by who can read it.  "1_2" is an integer to int() and
\* refused by the checker's allowlist; "6 + 6" is no integer and is evaluated.
Forms == [integer |-> {"rules", "checker"}, spelled |-> {"rules"},
          expression |-> {"checker"}, words |-> {}]
Reads(reader, answer) == reader \in Forms[answer.form]

\* check: what cannot be parsed is not equivalent to anything.
Equivalent(p, answer) == Reads("checker", answer) /\ answer.value = p.answer

-----------------------------------------------------------------------------
(* Misconceptions *)

Distance(m, n) == IF m >= n THEN m - n ELSE n - m

\* RULES: on which operation, and which answer gives the misconception away.
Operation == [subtracted_instead_of_added |-> "+", added_instead_of_subtracted |-> "-",
              counted_on_from_wrong_start |-> "+"]
Signature(tag, p) ==
    CASE tag = "subtracted_instead_of_added" -> Distance(p.a, p.b)
      [] tag = "added_instead_of_subtracted" -> p.a + p.b
      [] tag = "counted_on_from_wrong_start" -> p.a + p.b + 1

RuleTags == DOMAIN Operation
Tags == RuleTags \cup {"unlisted", "unknown"}

\* applies_to: a tag without a rule is unconstrained.
AppliesTo(tag, p) == tag \in RuleTags => Operation[tag] = p.op

RuleTagged(p, answer) ==
    {tag \in RuleTags : /\ Reads("rules", answer) /\ answer.value # p.answer
                        /\ AppliesTo(tag, p) /\ answer.value = Signature(tag, p)}

\* The tags the diagnose stage may come to: a rule's, else unknown, else, with a
\* model, whatever it names that applies_to lets through.
Diagnoses(p, answer, model) ==
    IF RuleTagged(p, answer) # {} THEN RuleTagged(p, answer)
    ELSE {tag \in Tags : AppliesTo(tag, p) /\ (model \/ tag = "unknown")}

-----------------------------------------------------------------------------
(* Templates and the leak check *)

MaxHintLevel == 3

Filling(slots, literal) == [slots |-> slots, literal |-> literal]

\* LIBRARY, per tag and level: the slots a phrasing fills, and the numbers that
\* it spells out itself ("one at a time", "a ten-frame").
Library ==
    [subtracted_instead_of_added |->
        << <<Filling({"a", "b"}, {}), Filling({"a", "b"}, {})>>,
           <<Filling({"a", "b"}, {}), Filling({"a", "b"}, {10})>>,
           <<Filling({"a", "b"}, {1})>> >>,
     added_instead_of_subtracted |->
        << <<Filling({"a", "b"}, {}), Filling({"a", "b"}, {})>>,
           <<Filling({"a", "b"}, {}), Filling({"a", "b"}, {})>>,
           <<Filling({"a", "b"}, {1})>> >>,
     counted_on_from_wrong_start |->
        << <<Filling({"a"}, {}), Filling({"a"}, {1})>>,
           <<Filling({"a", "b"}, {})>>,
           <<Filling({"a", "b"}, {1})>> >>,
     unknown |->
        << <<Filling({}, {1}), Filling({}, {})>>,
           <<Filling({"a", "b"}, {})>>,
           <<Filling({"a"}, {1})>> >>]

\* find, and the template that stands in for a tag without one.
TemplateTag(tag) == IF tag \in DOMAIN Library THEN tag ELSE "unknown"
Variants(tag, level) == Library[TemplateTag(tag)][level]

\* fill: the text of a hint is the numbers it states, in digits and in words.
Filled(filling, p) ==
    [digits |-> {p[slot] : slot \in filling.slots}, words |-> filling.literal]

\* Mutant: numbers that are written out are not read.
NumbersInDigits(text) == text.digits
\* numbers_in: every number a text states.
NumbersIn(text) == text.digits \cup text.words

\* check_hint: the deterministic layer, for a template and for a model's words.
Leaks(text, p) == p.answer \in NumbersIn(text)

Rotated(tag, level, attempt, offset) ==
    1 + ((attempt - 1 + offset) % Len(Variants(tag, level)))

\* render: the first phrasing, in rotation from the attempt's, that is safe.
Rendered(tag, level, attempt, p) ==
    LET Text(offset) ==
            Filled(Variants(tag, level)[Rotated(tag, level, attempt, offset)], p)
        safe == {offset \in 0..(Len(Variants(tag, level)) - 1) : ~Leaks(Text(offset), p)}
    IN {[source |-> "template", tag |-> TemplateTag(tag), level |-> level,
         text |-> Text(offset)] :
            offset \in {o \in safe : \A other \in safe : o <= other}}

-----------------------------------------------------------------------------
(* Welfare signals *)

Urgency == [self_harm |-> 0, harm_from_others |-> 1, hopelessness |-> 2]
Urgent == {"self_harm", "harm_from_others"}

\* Mutant: the signal that comes first in the text.
ScreenFirst(signals) == {signals[i] : i \in {i \in DOMAIN signals : i = 1}}
\* screen: the most urgent category of the signals in a text, if any.
Screen(signals) ==
    {signals[i] : i \in {i \in DOMAIN signals :
        \A j \in DOMAIN signals : Urgency[signals[i]] <= Urgency[signals[j]]}}

-----------------------------------------------------------------------------
(* The picture *)

TenFrameCapacity == 10
Larger(m, n) == IF m >= n THEN m ELSE n

FitsATenFrame(p) == p.op = "+" /\ p.a <= TenFrameCapacity /\ p.b <= TenFrameCapacity

\* The squares of a ten-frame that are filled and that are to be, and how many more
\* its words say do not fit.
FilledSquares(p) == {i \in 0..(TenFrameCapacity - 1) : i < p.a}
AddingSquares(p) == {i \in 0..(TenFrameCapacity - 1) : i < p.a + p.b} \ FilledSquares(p)
Spill(p) == Larger(p.a + p.b - TenFrameCapacity, 0)

\* A number line ends at its span and is labelled at the start and at every fifth tick.
Span(p) == Larger(IF p.op = "+" THEN p.a + p.b ELSE p.a, TenFrameCapacity)
Labels(p) == {n \in 0..Span(p) : n % 5 = 0 \/ n = p.a}
==============================================================================
