---------------------------- MODULE ReviewProofs ----------------------------
(***************************************************************************)
(* Proofs about the queues of Review.tla and the gates of Phase0Gates.tla, *)
(* for any teachers, classrooms, page sizes, opinions and floors.          *)
(***************************************************************************)
EXTENDS Phase0Gates, SequenceTheorems, FiniteSetTheorems, WellFoundedInduction, TLAPS

\* Resolved review items are the judged ones.  LeavesWithJudgement follows, and is
\* not inductive without TypeOK: a new row must not be one that a judgement names.
ResolvedIsJudged ==
    queue = "review" => \A i \in DOMAIN rows : i \in resolved <=> Judged(i)

IInv == TypeOK /\ ResolvedIsJudged

-----------------------------------------------------------------------------

LEMMA InitIInv == Init => IInv
<1> SUFFICES ASSUME Init PROVE IInv
  OBVIOUS
<1>1. rows \in Seq(Row) /\ judgements \in Seq(Judgement)
  BY EmptySeq DEF Init
<1> QED
  BY <1>1 DEF Init, IInv, TypeOK, ResolvedIsJudged

\* A row is added at the end: what was there keeps its place.
LEMMA NewRowIInv ==
    ASSUME IInv, NewRow
    PROVE  IInv'
<1>1. PICK s \in Sessions, passed \in BOOLEAN :
        rows' = Append(rows, [session |-> s, passed |-> passed])
  BY DEF NewRow
<1>2. [session |-> s, passed |-> passed] \in Row
  BY DEF Row
<1>3. /\ rows' \in Seq(Row) /\ Len(rows') = Len(rows) + 1
      /\ DOMAIN rows' = 1..(Len(rows) + 1) /\ DOMAIN rows = 1..Len(rows)
      /\ Len(rows) \in Nat
      /\ \A i \in DOMAIN rows : rows'[i] = rows[i]
  BY <1>1, <1>2, AppendProperties, LenProperties DEF IInv, TypeOK
<1>4. \A t \in Teachers, i \in DOMAIN rows : InScope(t, i) => InScope(t, i)'
  BY <1>3 DEF InScope
<1>5. TypeOK'
  <2>1. \A j \in DOMAIN judgements :
          judgements[j].row \in DOMAIN rows /\ judgements[j].teacher \in Teachers
    <3>1. \A j \in DOMAIN judgements : judgements[j] \in Judgement
      BY LenProperties DEF IInv, TypeOK
    <3> QED
      BY <3>1 DEF IInv, TypeOK, Judgement
  <2>2. \A j \in DOMAIN judgements :
          judgements[j].row \in DOMAIN rows'
            /\ InScope(judgements[j].teacher, judgements[j].row)'
    BY <1>3, <1>4, <2>1 DEF IInv, TypeOK, NewRow
  <2>3. page' \in [Teachers -> SUBSET DOMAIN rows']
    BY <1>3 DEF IInv, TypeOK, NewRow
  <2>4. \A t \in Teachers : \A i \in page[t] : InScope(t, i)' /\ ~nothing[t]
    BY <1>4 DEF IInv, TypeOK
  <2> QED
    BY <1>3, <2>2, <2>3, <2>4 DEF IInv, TypeOK, NewRow
<1>6. ResolvedIsJudged'
  <2>1. Len(rows) + 1 \notin resolved /\ ~Judged(Len(rows) + 1)
    BY <1>3 DEF Judged, IInv, TypeOK
  <2> QED
    BY <1>3, <2>1 DEF ResolvedIsJudged, Judged, IInv, NewRow
<1> QED
  BY <1>5, <1>6 DEF IInv

\* A judgement is added at the end, of a row the teacher's page shows.
LEMMA JudgeAppends ==
    ASSUME IInv, NEW t \in Teachers, Judge(t)
    PROVE  \E i \in page[t], opinion \in Opinions :
            /\ i \in DOMAIN rows /\ InScope(t, i)
            /\ resolved' = IF queue = "review" THEN resolved \cup {i} ELSE resolved
            /\ judgements' \in Seq(Judgement)
            /\ DOMAIN judgements' = 1..(Len(judgements) + 1)
            /\ DOMAIN judgements = 1..Len(judgements) /\ Len(judgements) \in Nat
            /\ \A j \in DOMAIN judgements : judgements'[j] = judgements[j]
            /\ judgements'[Len(judgements) + 1]
                = [row |-> i, teacher |-> t, opinion |-> opinion]
<1>1. PICK i \in page[t], opinion \in Opinions :
        /\ InScope(t, i)
        /\ judgements' = Append(judgements, [row |-> i, teacher |-> t, opinion |-> opinion])
        /\ resolved' = IF queue = "review" THEN resolved \cup {i} ELSE resolved
  BY DEF Judge
<1>2. i \in DOMAIN rows /\ i \in Nat \ {0}
  BY LenProperties DEF IInv, TypeOK
<1>3. [row |-> i, teacher |-> t, opinion |-> opinion] \in Judgement
  BY <1>2 DEF Judgement
<1>4. judgements \in Seq(Judgement)
  BY DEF IInv, TypeOK
<1>5. /\ judgements' \in Seq(Judgement)
      /\ Len(judgements) \in Nat /\ Len(judgements') = Len(judgements) + 1
      /\ \A j \in 1..Len(judgements) : judgements'[j] = judgements[j]
      /\ judgements'[Len(judgements) + 1]
          = [row |-> i, teacher |-> t, opinion |-> opinion]
  BY <1>1, <1>3, <1>4, AppendProperties, LenProperties
<1>6. /\ DOMAIN judgements = 1..Len(judgements)
      /\ DOMAIN judgements' = 1..(Len(judgements) + 1)
  BY <1>4, <1>5, LenProperties
<1> QED
  BY <1>1, <1>2, <1>5, <1>6

LEMMA JudgeIInv ==
    ASSUME IInv, NEW t \in Teachers, Judge(t)
    PROVE  IInv'
<1>1. PICK i \in page[t], opinion \in Opinions :
        /\ i \in DOMAIN rows /\ InScope(t, i)
        /\ resolved' = IF queue = "review" THEN resolved \cup {i} ELSE resolved
        /\ judgements' \in Seq(Judgement)
        /\ DOMAIN judgements' = 1..(Len(judgements) + 1)
        /\ DOMAIN judgements = 1..Len(judgements) /\ Len(judgements) \in Nat
        /\ \A j \in DOMAIN judgements : judgements'[j] = judgements[j]
        /\ judgements'[Len(judgements) + 1]
            = [row |-> i, teacher |-> t, opinion |-> opinion]
  BY JudgeAppends
<1>2. UNCHANGED <<queue, rows, page, nothing>>
  BY DEF Judge
<1>3. TypeOK'
  <2>1. \A j \in DOMAIN judgements' :
          judgements'[j].row \in DOMAIN rows
            /\ InScope(judgements'[j].teacher, judgements'[j].row)
    BY <1>1 DEF IInv, TypeOK
  <2> QED
    BY <1>1, <1>2, <2>1 DEF IInv, TypeOK, InScope
<1>4. ResolvedIsJudged'
  <2>1. \A k : Judged(k)' <=> Judged(k) \/ k = i
    BY <1>1 DEF Judged
  <2> QED
    BY <1>1, <1>2, <2>1 DEF ResolvedIsJudged, IInv
<1> QED
  BY <1>3, <1>4 DEF IInv

LEMMA StepIInv == IInv /\ [Next]_vars => IInv'
<1> SUFFICES ASSUME IInv, [Next]_vars PROVE IInv'
  OBVIOUS
<1>1. CASE NewRow
  BY <1>1, NewRowIInv
<1>2. ASSUME NEW t \in Teachers, LoadPage(t) PROVE IInv'
  <2>1. Listed(t) \subseteq DOMAIN rows /\ \A i \in Listed(t) : InScope(t, i)
    BY DEF Listed, Oldest, Open
  <2> QED
    BY <1>2, <2>1 DEF LoadPage, IInv, TypeOK, ResolvedIsJudged, Judged, InScope
<1>3. ASSUME NEW t \in Teachers, Judge(t) PROVE IInv'
  BY <1>3, JudgeIInv
<1>4. ASSUME NEW t \in Teachers, RemoveCard(t) PROVE IInv'
  BY <1>4 DEF RemoveCard, IInv, TypeOK, ResolvedIsJudged, Judged, InScope
<1>5. CASE UNCHANGED vars
  BY <1>5 DEF vars, IInv, TypeOK, ResolvedIsJudged, Judged, InScope
<1> QED
  BY <1>1, <1>2, <1>3, <1>4, <1>5 DEF Next

THEOREM Inductive == Spec => []IInv
  BY InitIInv, StepIInv, PTL DEF Spec

-----------------------------------------------------------------------------
(* The queues *)

\* Pages show, and judgements name, rows of the teacher's own students only.
THEOREM TypeCorrect == Spec => []TypeOK
<1>1. IInv => TypeOK
  BY DEF IInv
<1> QED
  BY <1>1, Inductive, PTL

\* The first judgement of a row, and nothing else, takes it out of its queue.
THEOREM RowsLeaveJudged == Spec => []LeavesWithJudgement
<1>1. IInv => LeavesWithJudgement
  BY DEF IInv, TypeOK, ResolvedIsJudged, LeavesWithJudgement, Open
<1> QED
  BY <1>1, Inductive, PTL

\* A set of naturals that has an element has a least one.
LEMMA LeastElement ==
    ASSUME NEW S, S \subseteq Nat, S # {}
    PROVE  \E m \in S : \A k \in S : ~(k < m)
<1> DEFINE less == OpToRel(<, Nat)
<1>1. \E m \in S : \A k \in S : <<k, m>> \notin less
  BY NatLessThanWellFounded, WFMin
<1>2. \A k, m \in S : k < m => <<k, m>> \in less
  BY DEF OpToRel
<1> QED
  BY <1>1, <1>2

\* The oldest open row of all is within every limit, and somebody is responsible
\* for its session: that teacher's page is not empty.
THEOREM NotStuck == Spec => []SomebodySees
<1>1. IInv => SomebodySees
  <2> SUFFICES ASSUME IInv, Covered, Open # {}
               PROVE  \E t \in Teachers : Listed(t) # {}
    BY DEF SomebodySees
  <2>1. Open \subseteq DOMAIN rows /\ DOMAIN rows \subseteq Nat
    BY LenProperties DEF Open, IInv, TypeOK
  <2>2. PICK m \in Open : \A k \in Open : ~(k < m)
    BY <2>1, LeastElement
  <2>3. {k \in Open : k < m} = {}
    BY <2>2
  <2>4. Cardinality({k \in Open : k < m}) < Limit
    BY <2>3, FS_EmptySet, ReviewAssumption
  <2>5. rows[m].session \in Sessions
    <3>1. rows[m] \in Row
      BY <2>1, LenProperties DEF IInv, TypeOK
    <3> QED
      BY <3>1 DEF Row
  <2>6. PICK t \in Teachers : rows[m].session \in Scope[t]
    BY <2>5 DEF Covered
  <2> QED
    BY <2>2, <2>4, <2>6 DEF Listed, Oldest, InScope
<1> QED
  BY <1>1, Inductive, PTL

-----------------------------------------------------------------------------
(* The gates *)

\* A queue's ratings are finitely many, and so are the sessions they reach: at most
\* one for each rating.
LEMMA SessionsBounded ==
    ASSUME IInv
    PROVE  /\ Total \in Nat /\ DOMAIN Ratings = 1..Total
           /\ IsFiniteSet(RatedSessions)
           /\ Cardinality(RatedSessions) \in Nat
           /\ Cardinality(RatedSessions) <= Total
<1> DEFINE reach == [j \in 1..Total |-> Candidates[Ratings[j].row].session]
<1>1. Ratings \in Seq(Judgement)
  BY EmptySeq DEF Ratings, IInv, TypeOK
<1>2. Total \in Nat /\ DOMAIN Ratings = 1..Total
  BY <1>1, LenProperties DEF Total
<1>3. reach \in Surjection(1..Total, RatedSessions)
  BY <1>2 DEF RatedSessions, Surjection
<1>4. IsFiniteSet(1..Total) /\ Cardinality(1..Total) = Total
  BY <1>2, FS_Interval
<1>5. IsFiniteSet(RatedSessions) /\ Cardinality(RatedSessions) <= Total
  BY <1>3, <1>4, FS_Surjection
<1> QED
  BY <1>2, <1>5, FS_CardinalityType

SessionsFinite == IsFiniteSet(RatedSessions) /\ Cardinality(RatedSessions) \in Nat

LEMMA FewSessions == IInv => SessionsFinite
BY SessionsBounded DEF SessionsFinite

\* Enough sessions rated means enough ratings for every rate.
THEOREM FloorStaysBelow == Spec => []FloorNeverOperative
<1>1. IInv => FloorNeverOperative
  <2> SUFFICES ASSUME IInv, SessionsGate = "PASS"
               PROVE  "INSUFFICIENT" \notin {LeakGate, WinGate, CalibrationGate}
    BY DEF FloorNeverOperative
  <2>1. Cardinality(RatedSessions) >= MinReviewedSessions
    BY DEF SessionsGate
  <2>2. Total \in Nat /\ Total >= MinReviewedForARate /\ Total > 0
    BY <2>1, SessionsBounded, GatesAssumption
  <2>3. Candidates # <<>>
    <3>1. queue = "shadow" /\ 1 \in DOMAIN judgements
      BY <2>2, SessionsBounded, EmptySeq DEF Total, Ratings
    <3>2. judgements[1].row \in DOMAIN rows
      BY <3>1 DEF IInv, TypeOK
    <3> QED
      BY <3>1, <3>2 DEF Candidates
  <2> QED
    BY <2>2, <2>3, GatesAssumption DEF LeakGate, WinGate, CalibrationGate, RateGate
<1> QED
  BY <1>1, Inductive, PTL

\* Ratings are only added, and the candidates they name keep their session.
LEMMA RatingsGrow ==
    ASSUME IInv, [Next]_vars
    PROVE  /\ Flagged \subseteq Flagged'
           /\ RatedSessions \subseteq RatedSessions'
<1>1. queue' = queue
  BY DEF Next, NewRow, LoadPage, Judge, RemoveCard, vars
<1>2. /\ DOMAIN judgements \subseteq DOMAIN judgements'
      /\ \A j \in DOMAIN judgements : judgements'[j] = judgements[j]
  <2>1. ASSUME NEW t \in Teachers, Judge(t)
        PROVE  /\ DOMAIN judgements \subseteq DOMAIN judgements'
               /\ \A j \in DOMAIN judgements : judgements'[j] = judgements[j]
    <3>1. PICK i \in page[t], opinion \in Opinions :
            /\ DOMAIN judgements' = 1..(Len(judgements) + 1)
            /\ DOMAIN judgements = 1..Len(judgements) /\ Len(judgements) \in Nat
            /\ \A j \in DOMAIN judgements : judgements'[j] = judgements[j]
      BY <2>1, JudgeAppends
    <3> QED
      BY <3>1
  <2> QED
    BY <2>1 DEF Next, NewRow, LoadPage, RemoveCard, vars
<1>3. \A i \in DOMAIN rows : rows'[i] = rows[i]
  <2>1. CASE NewRow
    <3>1. PICK s \in Sessions, passed \in BOOLEAN :
            rows' = Append(rows, [session |-> s, passed |-> passed])
      BY <2>1 DEF NewRow
    <3>2. [session |-> s, passed |-> passed] \in Row
      BY DEF Row
    <3> QED
      BY <3>1, <3>2, AppendProperties, LenProperties DEF IInv, TypeOK
  <2> QED
    BY <2>1 DEF Next, LoadPage, Judge, RemoveCard, vars
<1>4. \A j \in DOMAIN judgements : judgements[j].row \in DOMAIN rows
  BY DEF IInv, TypeOK
<1>5. Flagged \subseteq Flagged'
  BY <1>1, <1>2 DEF Flagged, Rated, Ratings
<1>6. RatedSessions \subseteq RatedSessions'
  BY <1>1, <1>2, <1>3, <1>4 DEF RatedSessions, Ratings, Candidates
<1> QED
  BY <1>5, <1>6

\* No later rating takes back a flagged leak or a reviewed session.
THEOREM EvidenceIsKept == Spec => EvidenceStands
<1>1. IInv' => SessionsFinite'
  BY FewSessions, PTL
<1>2. IInv /\ IInv' /\ [Next]_vars =>
        [/\ LeakGate = "FAIL" => LeakGate' = "FAIL"
         /\ SessionsGate = "PASS" => SessionsGate' = "PASS"]_vars
  <2> SUFFICES ASSUME IInv, IInv', [Next]_vars
               PROVE  /\ LeakGate = "FAIL" => LeakGate' = "FAIL"
                      /\ SessionsGate = "PASS" => SessionsGate' = "PASS"
    OBVIOUS
  <2>1. LeakGate = "FAIL" => LeakGate' = "FAIL"
    BY RatingsGrow DEF LeakGate
  <2>2. IsFiniteSet(RatedSessions') /\ Cardinality(RatedSessions') \in Nat
    BY <1>1 DEF SessionsFinite
  <2>3. Cardinality(RatedSessions) <= Cardinality(RatedSessions')
    BY <2>2, RatingsGrow, FS_Subset
  <2>4. SessionsGate = "PASS" => SessionsGate' = "PASS"
    BY <2>2, <2>3, SessionsBounded, GatesAssumption DEF SessionsGate
  <2> QED
    BY <2>1, <2>4
<1> QED
  BY <1>2, Inductive, PTL DEF Spec, EvidenceStands
=============================================================================
