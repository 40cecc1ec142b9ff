--------------------------- MODULE EventLogProofs ---------------------------
(***************************************************************************)
(* Proofs that the timeline of EventLog.tla is numbered 0, 1, 2, ... with  *)
(* neither a repeat nor a hole, for any number of requests.                *)
(***************************************************************************)
EXTENDS EventLog, TLAPS

\* The committed numbers are an initial segment, and no request is about to use
\* a number beyond its end.  GapFree alone is not inductive: without the second
\* part a request could commit a number it read past the end.
Segment(n) ==
    /\ Present = 0..(n - 1)
    /\ \A w \in Writers : read[w] <= n
Contiguous == \E n \in Nat : Segment(n)

IInv == TypeOK /\ Unique /\ Contiguous

-----------------------------------------------------------------------------

\* Reading the maximum of an initial segment gives the first free number.
LEMMA NextOfSegment ==
    ASSUME rows \subseteq Row, NEW n \in Nat, Present = 0..(n - 1)
    PROVE  NextSequence = n
<1>1. CASE rows = {}
  <2>1. Present = {}
    BY <1>1 DEF Present
  <2>2. n = 0
    BY <2>1
  <2> QED
    BY <1>1, <2>2 DEF NextSequence
<1>2. CASE rows # {}
  <2>1. n > 0
    BY <1>2 DEF Present
  <2>2. \A m \in Present : m <= n - 1
    OBVIOUS
  <2>3. n - 1 \in Present
    BY <2>1
  <2>4. \A h \in Present : (\A m \in Present : m <= h) => h = n - 1
    BY <2>2, <2>3
  <2>5. Highest = n - 1
    BY <2>2, <2>3, <2>4 DEF Highest
  <2> QED
    BY <1>2, <2>5 DEF NextSequence
<1> QED
  BY <1>1, <1>2

\* A segment has no gap, as SessionReplay.gaps counts them.
LEMMA SegmentHasNoGap ==
    ASSUME rows \subseteq Row, NEW n \in Nat, Present = 0..(n - 1)
    PROVE  GapFree
<1>1. CASE rows = {}
  BY <1>1 DEF GapFree, Gaps
<1>2. CASE rows # {}
  <2>1. NextSequence = n
    BY NextOfSegment
  <2>2. Present # {}
    BY <1>2 DEF Present
  <2>3. n > 0
    BY <2>2
  <2>4. \E h \in Present : \A m \in Present : m <= h
    <3>1. n - 1 \in Present /\ \A m \in Present : m <= n - 1
      BY <2>3
    <3> QED
      BY <3>1
  <2>5. Highest \in Present
    BY <2>4 DEF Highest
  <2>6. Highest = n - 1
    BY <1>2, <2>1, <2>5 DEF NextSequence
  <2> QED
    BY <1>2, <2>6 DEF GapFree, Gaps
<1> QED
  BY <1>1, <1>2

-----------------------------------------------------------------------------

LEMMA InitIInv == Init => IInv
<1> SUFFICES ASSUME Init PROVE IInv
  OBVIOUS
<1>1. TypeOK /\ Unique
  BY DEF Init, TypeOK, Unique, Row, NoRead
<1>2. Segment(0)
  BY DEF Init, Segment, Present, NoRead
<1> QED
  BY <1>1, <1>2 DEF IInv, Contiguous

\* A new row with the first free number extends the segment by one, and every
\* other request's number stays within it.
LEMMA RecordExtends ==
    ASSUME IInv, NEW w \in Writers, Record(w)
    PROVE  /\ Unique' /\ Contiguous'
           /\ \A r \in rows, s \in rows' \ rows : r.seq < s.seq
<1> DEFINE new == [seq |-> read[w], writer |-> w, nth |-> written[w] + 1]
<1>1. PICK n \in Nat : Segment(n)
  BY DEF IInv, Contiguous
<1>2. /\ read[w] \in Nat /\ read[w] \notin Present
      /\ rows' = rows \cup {new}
      /\ read' = [read EXCEPT ![w] = NoRead]
  BY DEF Record, Taken, Present, IInv, TypeOK
<1>3. read[w] = n
  BY <1>1, <1>2 DEF Segment
<1>4. Present' = Present \cup {n}
  <2>1. new.seq = n /\ rows' = rows \cup {new}
    BY <1>2, <1>3
  <2>2. Present' = {r.seq : r \in rows \cup {new}}
    BY <2>1 DEF Present
  <2> HIDE DEF new
  <2> QED
    BY <2>1, <2>2 DEF Present
<1>5. Segment(n + 1)'
  <2>1. Present' = 0..n
    BY <1>1, <1>4 DEF Segment
  <2>2. \A v \in Writers : read'[v] <= n + 1
    BY <1>1, <1>2 DEF Segment, IInv, TypeOK, NoRead
  <2> QED
    BY <2>1, <2>2 DEF Segment
<1>6. Unique'
  BY <1>2 DEF Unique, Present, IInv
<1>7. \A r \in rows, s \in rows' \ rows : r.seq < s.seq
  <2> SUFFICES ASSUME NEW r \in rows, NEW s \in rows' \ rows PROVE r.seq < s.seq
    OBVIOUS
  <2>1. s.seq = n
    BY <1>2, <1>3
  <2>2. r.seq \in 0..(n - 1)
    BY <1>1 DEF Segment, Present
  <2> QED
    BY <2>1, <2>2
<1> QED
  BY <1>5, <1>6, <1>7 DEF Contiguous

\* A step that commits no event and gives no request a number keeps the segment.
LEMMA QuietStep ==
    ASSUME IInv, NEW w \in Writers, rows' = rows,
           read' = read \/ read' = [read EXCEPT ![w] = NoRead]
    PROVE  Unique' /\ Contiguous'
<1>1. PICK n \in Nat : Segment(n)
  BY DEF IInv, Contiguous
<1>2. Segment(n)'
  BY <1>1 DEF Segment, Present, IInv, TypeOK, NoRead
<1> QED
  BY <1>2 DEF Contiguous, Unique, IInv

LEMMA StepIInv == IInv /\ [Next]_vars => IInv'
<1> SUFFICES ASSUME IInv, [Next]_vars PROVE IInv'
  OBVIOUS
<1>1. CASE UNCHANGED vars
  BY <1>1 DEF vars, IInv, TypeOK, Unique, Contiguous, Segment, Present
<1>2. ASSUME NEW w \in Writers, ReadNext(w) PROVE IInv'
  <2>1. PICK n \in Nat : Segment(n)
    BY DEF IInv, Contiguous
  <2>2. NextSequence = n
    BY <2>1, NextOfSegment DEF Segment, IInv, TypeOK
  <2>3. TypeOK'
    BY <1>2, <2>2 DEF ReadNext, IInv, TypeOK
  <2>4. Segment(n)'
    BY <1>2, <2>1, <2>2 DEF ReadNext, Segment, Present, IInv, TypeOK
  <2>5. Unique'
    BY <1>2 DEF ReadNext, Unique, IInv
  <2> QED
    BY <2>3, <2>4, <2>5 DEF IInv, Contiguous
<1>3. ASSUME NEW w \in Writers, Record(w) PROVE IInv'
  <2>1. TypeOK'
    BY <1>3 DEF Record, Row, IInv, TypeOK, NoRead
  <2> QED
    BY <1>3, <2>1, RecordExtends DEF IInv
<1>4. ASSUME NEW w \in Writers, NEW how \in {"refused", "crashed", "returned"},
             Stop(w, how)
      PROVE  IInv'
  <2>1. TypeOK'
    BY <1>4 DEF Stop, IInv, TypeOK
  <2> QED
    BY <1>4, <2>1, QuietStep DEF Stop, IInv
<1> QED
  BY <1>1, <1>2, <1>3, <1>4 DEF Next, Refused, Crash, Return

THEOREM Inductive == Spec => []IInv
  BY InitIInv, StepIInv, PTL DEF Spec

-----------------------------------------------------------------------------

\* Every variable keeps its type, and a request that is over holds no number.
THEOREM TypeCorrect == Spec => []TypeOK
<1>1. IInv => TypeOK
  BY DEF IInv
<1> QED
  BY <1>1, Inductive, PTL

\* Sequence numbers never repeat, whatever requests write at once.
THEOREM NumbersUnique == Spec => []Unique
<1>1. IInv => Unique
  BY DEF IInv
<1> QED
  BY <1>1, Inductive, PTL

\* A replay of a session never misses a number.
THEOREM NumbersWithoutGap == Spec => []GapFree
<1>1. IInv => GapFree
  BY SegmentHasNoGap DEF IInv, Contiguous, Segment, TypeOK
<1> QED
  BY <1>1, Inductive, PTL

\* Nobody is refused for a number of its own: one it read was free then, and by the
\* time it has recorded it, it is about to use no number any more.
LEMMA StepRefusedByAnother ==
    ASSUME IInv, RefusedByAnother, [Next]_vars
    PROVE  RefusedByAnother'
<1>1. CASE UNCHANGED vars
  BY <1>1 DEF vars, RefusedByAnother
<1>2. ASSUME NEW w \in Writers, ReadNext(w) PROVE RefusedByAnother'
  <2>1. PICK n \in Nat : Segment(n)
    BY DEF IInv, Contiguous
  <2>2. read' = [read EXCEPT ![w] = n] /\ rows' = rows
    BY <1>2, <2>1, NextOfSegment DEF ReadNext, Segment, IInv, TypeOK
  <2>3. \A r \in rows : r.seq # n
    BY <2>1 DEF Segment, Present
  <2> QED
    BY <2>2, <2>3 DEF RefusedByAnother, IInv, TypeOK
<1>3. ASSUME NEW w \in Writers, Record(w) PROVE RefusedByAnother'
  <2> SUFFICES ASSUME NEW v \in Writers, NEW r \in rows', r.seq = read'[v]
               PROVE  r.writer # v
    BY DEF RefusedByAnother
  <2>1. r.seq # NoRead
    BY <1>3 DEF Record, IInv, TypeOK, Row, NoRead
  <2>2. v # w /\ read'[v] = read[v]
    BY <1>3, <2>1 DEF Record, IInv, TypeOK
  <2>3. CASE r \in rows
    BY <2>2, <2>3 DEF RefusedByAnother
  <2>4. CASE r \notin rows
    BY <1>3, <2>2, <2>4 DEF Record
  <2> QED
    BY <2>3, <2>4
<1>4. ASSUME NEW w \in Writers, NEW how \in {"refused", "crashed", "returned"},
             Stop(w, how)
      PROVE  RefusedByAnother'
  BY <1>4 DEF Stop, RefusedByAnother, IInv, TypeOK, Row, NoRead
<1> QED
  BY <1>1, <1>2, <1>3, <1>4 DEF Next, Refused, Crash, Return

\* A request is refused only because another one committed in between.
THEOREM RefusedOnlyByAnother == Spec => []RefusedByAnother
<1>1. Init => RefusedByAnother
  BY DEF Init, RefusedByAnother
<1> QED
  BY <1>1, StepRefusedByAnother, Inductive, PTL DEF Spec

\* Events are added at the end and never changed.
THEOREM OnlyAppended == Spec => AppendOnly
<1>1. IInv /\ [Next]_vars =>
        [/\ rows \subseteq rows'
         /\ \A r \in rows, s \in rows' \ rows : r.seq < s.seq]_vars
  <2> SUFFICES ASSUME IInv, Next
               PROVE  /\ rows \subseteq rows'
                      /\ \A r \in rows, s \in rows' \ rows : r.seq < s.seq
    BY DEF vars
  <2>1. PICK w \in Writers : \/ ReadNext(w) \/ Record(w)
                             \/ Refused(w) \/ Crash(w) \/ Return(w)
    BY DEF Next
  <2>2. CASE Record(w)
    <3>1. rows \subseteq rows'
      BY <2>2 DEF Record
    <3> QED
      BY <2>2, <3>1, RecordExtends
  <2>3. CASE ~Record(w)
    BY <2>1, <2>3 DEF ReadNext, Refused, Crash, Return, Stop
  <2> QED
    BY <2>2, <2>3
<1> QED
  BY <1>1, Inductive, PTL DEF Spec, AppendOnly
=============================================================================
