------------------------------ MODULE EventLog ------------------------------
(***************************************************************************)
(* The timeline of one session (packages/telemetry/events.py) as the       *)
(* requests working on that session write it.  An event takes two          *)
(* database steps, reading the highest sequence number and committing a    *)
(* row with the next one.  A unique constraint refuses a sequence number   *)
(* that is taken, and the request then fails.  Nothing in the code keeps   *)
(* two requests apart.  What else a commit takes along is in               *)
(* Submission.tla.                                                         *)
(***************************************************************************)
EXTENDS Integers

CONSTANTS
    Writers,        \* requests on this session
    MaxEvents       \* bound: events one request writes

ASSUME EventLogAssumption == MaxEvents \in Nat

VARIABLES
    rows,           \* committed events: sequence number, writer, its how-manieth
    read,           \* sequence number a writer is about to use, or NoRead
    written,        \* events a writer has committed
    status          \* what became of a writer

vars == <<rows, read, written, status>>

NoRead == -1
Row == [seq : Nat, writer : Writers, nth : Nat]

Present == {r.seq : r \in rows}
Highest == CHOOSE n \in Present : \A m \in Present : m <= n

\* Mutant: numbering starts at one.
NextSequenceFromOne == IF rows = {} THEN 1 ELSE Highest + 1
\* next_sequence
NextSequence == IF rows = {} THEN 0 ELSE Highest + 1

\* SessionReplay.gaps
Gaps == IF rows = {} THEN {} ELSE {n \in 0..Highest : n \notin Present}

-----------------------------------------------------------------------------

\* _emit reads the maximum, outside of any lock.
ReadNext(w) ==
    /\ status[w] = "running" /\ read[w] = NoRead /\ written[w] < MaxEvents
    /\ read' = [read EXCEPT ![w] = NextSequence]
    /\ UNCHANGED <<rows, written, status>>

\* Mutant: nothing refuses a sequence number that is taken.
TakenUnchecked(n) == FALSE
\* uq_event_sequence
Taken(n) == \E r \in rows : r.seq = n

\* DatabaseEventSink.record
Record(w) ==
    /\ read[w] # NoRead /\ ~Taken(read[w])
    /\ rows' = rows \cup {[seq |-> read[w], writer |-> w, nth |-> written[w] + 1]}
    /\ written' = [written EXCEPT ![w] = @ + 1]
    /\ read' = [read EXCEPT ![w] = NoRead]
    /\ UNCHANGED status

\* Mutant: a request that is over goes on to use its number.
StopKeepsNumber(w, how) ==
    /\ status' = [status EXCEPT ![w] = how]
    /\ UNCHANGED <<rows, read, written>>
\* The request is over without another event.
Stop(w, how) ==
    /\ status' = [status EXCEPT ![w] = how]
    /\ read' = [read EXCEPT ![w] = NoRead]
    /\ UNCHANGED <<rows, written>>

\* IntegrityError out of the commit.
Refused(w) == read[w] # NoRead /\ Taken(read[w]) /\ Stop(w, "refused")

\* The process dies, or the handler raises elsewhere.
Crash(w) == status[w] = "running" /\ Stop(w, "crashed")

Return(w) == status[w] = "running" /\ read[w] = NoRead /\ Stop(w, "returned")

-----------------------------------------------------------------------------

Init ==
    /\ rows = {}
    /\ read = [w \in Writers |-> NoRead]
    /\ written = [w \in Writers |-> 0]
    /\ status = [w \in Writers |-> "running"]

Next ==
    \E w \in Writers :
        ReadNext(w) \/ Record(w) \/ Refused(w) \/ Crash(w) \/ Return(w)

Spec == Init /\ [][Next]_vars

-----------------------------------------------------------------------------
(* Properties *)

\* Every variable holds a value of its kind; a request that is over holds no
\* sequence number.
TypeOK ==
    /\ rows \subseteq Row
    /\ read \in [Writers -> Nat \cup {NoRead}]
    /\ written \in [Writers -> Nat]
    /\ status \in [Writers -> {"running", "refused", "crashed", "returned"}]
    /\ \A w \in Writers : status[w] # "running" => read[w] = NoRead

\* No two events share a sequence number, however requests overlap: a replay
\* can be ordered (events.py:67-69).
Unique == \A r1, r2 \in rows : r1.seq = r2.seq => r1 = r2

\* The committed numbers run from 0 without a hole whatever is refused or
\* crashes half-way, so gaps() never reports a record as incomplete.
GapFree == Gaps = {}

\* A request is refused only because another one got in between its read and
\* its commit: with a single writer every event is recorded (events.py:65-67).
RefusedByAnother ==
    \A w \in Writers : \A r \in rows : r.seq = read[w] => r.writer # w

\* Committed events are never changed or withdrawn, and a new one comes after all.
AppendOnly ==
    [][/\ rows \subseteq rows'
       /\ \A r \in rows, s \in rows' \ rows : r.seq < s.seq]_vars
=============================================================================
