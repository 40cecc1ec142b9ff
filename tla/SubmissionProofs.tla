--------------------------- MODULE SubmissionProofs ---------------------------
(***************************************************************************)
(* Proofs about the submissions of Submission.tla, for any set of requests *)
(* that overlap and fail anywhere, or are sent in turn, and any number of  *)
(* hint levels.                                                            *)
(***************************************************************************)
EXTENDS Submission, FiniteSetTheorems, TLAPS

-----------------------------------------------------------------------------
(* The invariant: what is known of a request by the place it has reached *)

Closing == {"completed", "route", "routed", "save"}
Hinting == {"draft", "shown", "hinted", "giveup", "count", "exhausted"}

\* How the attempt went so far.
Outcome(r) ==
    /\ pc[r] \in {"right", "finish"} => outcome[r] = "right"
    /\ pc[r] \in {"shown", "hinted", "exhausted"} => outcome[r] = "hint"
    /\ pc[r] = "giveup" => outcome[r] = "no hint"
    /\ pc[r] = "count" => outcome[r] \in {"hint", "no hint"}
    /\ pc[r] = "exhausted" => Exhausted(r)
    /\ pc[r] \in Closing => outcome[r] \in {"right", "hint", "no hint"}
    /\ pc[r] \in Closing \ {"save"} /\ outcome[r] = "hint" => Exhausted(r)

\* What is flushed and waits for the next commit.
Flushed(r) ==
    /\ pc[r] = "answer" => pending[r] = {"attempt row"}
    /\ pc[r] = "undelivered" => pending[r] = {"alert row"}
    /\ pc[r] = "grade" => pending[r] \subseteq {"alert row"}
    /\ pc[r] \in {"finish", "diagnose"} => pending[r] = {"grade row"}
    /\ pc[r] = "generate" => pending[r] = {"diagnosis row"}
    /\ pc[r] = "hinted" => pending[r] = {"hint row"}
    /\ pc[r] = "routed" => pending[r] \subseteq {"review row"}
    /\ pc[r] \notin {"answer", "undelivered", "grade", "finish", "diagnose", "generate",
                     "hinted", "routed"} => pending[r] = {}

\* What has been committed.
Behind(r) ==
    /\ pc[r] \notin {"idle", "answer", "over"} => Has(r, "answer") /\ Has(r, "attempt row")
    /\ pc[r] \in {"alert", "undelivered"} \/ "alert row" \in pending[r] => Has(r, "flag")
    /\ pc[r] \in {"judge", "right", "wrong", "finish", "diagnose"} => Has(r, "grade")
    /\ pc[r] \in Closing \cup Hinting \cup {"generate"} => Has(r, "grade row")
    /\ pc[r] \in Hinting => Has(r, "diagnosis row")
    /\ pc[r] = "hinted" => Has(r, "shown")
    /\ pc[r] \in Closing \cup {"count", "exhausted"} /\ outcome[r] = "hint" =>
        Has(r, "diagnosis row") /\ Has(r, "hint row") /\ Has(r, "shown")
    /\ pc[r] \in {"route", "routed"} => Has(r, "completed")

\* An item is there, or about to be committed, where the code goes by one.
ItemStored == \E q \in Requests : Has(q, "review row")
RoutedToItem(r) ==
    /\ pc[r] = "routed" => "review row" \in pending[r] \/ ItemStored
    /\ Has(r, "routed") => ItemStored
    /\ pc[r] = "save" /\ Reasons(r) /\ TargetState(r) \in Terminal => Has(r, "routed")

\* Words that reached the responder.
AlertOf(r) ==
    /\ r \in notified => Has(r, "flag")
    /\ Has(r, "alert row") => r \in notified \/ Has(r, "undelivered")
    /\ pc[r] = "grade" /\ "alert row" \in pending[r] => r \in notified
    /\ r \in notified =>
        \/ Has(r, "alert row")
        \/ pc[r] = "over" /\ reply[r] = "error"
        \/ pc[r] = "grade" /\ "alert row" \in pending[r]
    /\ pc[r] # "over" => reply[r] = "none"

Request(r) == Outcome(r) /\ Flushed(r) /\ Behind(r) /\ RoutedToItem(r) /\ AlertOf(r)

IInv ==
    /\ TypeOK
    /\ \A r \in Requests : Request(r)
    /\ Explained /\ ReplyTrue /\ FinishedReachesTeacher

-----------------------------------------------------------------------------
(* The invariant: one request after the other *)

\* The row is as the request in flight left it.
Loaded(r) ==
    /\ session.state = seen[r].state /\ session.state \notin Terminal
    /\ session.count = IF counted[r] = "committed" THEN seen[r].count + 1
                                                   ELSE seen[r].count
    /\ pc[r] \notin Closing \cup {"exhausted"} => counted[r] = "unset"

\* A session goes on below its last level and has no end in its timeline; one that
\* is over has one.
Unended(r) ==
    /\ seen[r].count < MaxHintLevel
    /\ \A q \in Requests : Has(q, "completed") =>
        q = r /\ pc[r] \in {"route", "routed", "save"}
    /\ pc[r] = "save" => (Has(r, "completed") <=> TargetState(r) \in Terminal)

Orderly ==
    /\ \A p, q \in InFlight : p = q
    /\ stale = {}
    /\ \A q \in Requests : pc[q] = "idle" => counted[q] = "unset"
    /\ \A p, q \in OpenItems : p = q
    /\ \A r \in InFlight :
        /\ Loaded(r)
        /\ "review row" \in pending[r] => OpenItems = {}

Unfailed ==
    /\ \A r \in Requests : reply[r] # "error"
    /\ \A p, q \in Requests : Has(p, "completed") /\ Has(q, "completed") => p = q
    /\ \A r \in InFlight : Unended(r)
    /\ InFlight = {} =>
        /\ session.state \in Terminal <=> \E r \in Requests : Has(r, "completed")
        /\ session.count >= MaxHintLevel => session.state \in Terminal

InTurnInv == inTurn => Orderly /\ (failures = 0 => Unfailed)

-----------------------------------------------------------------------------
(* Steps that commit nothing *)

\* A request that is left alone, while others may commit.
LEMMA LeftAlone ==
    ASSUME NEW q \in Requests, Request(q),
           pc'[q] = pc[q], outcome'[q] = outcome[q], seen'[q] = seen[q],
           pending'[q] = pending[q], reply'[q] = reply[q],
           q \in notified' <=> q \in notified, shadow' = shadow,
           \A x : Has(q, x)' <=> Has(q, x),
           ItemStored => ItemStored'
    PROVE  Request(q)'
<1> USE DEF Request
<1>1. Outcome(q)' /\ Flushed(q)'
  BY DEF Outcome, Flushed, Exhausted, AttemptNumber
<1>2. Behind(q)'
  BY DEF Behind
<1>3. RoutedToItem(q)'
  BY DEF RoutedToItem, Reasons, TargetState, Exhausted, AttemptNumber
<1>4. AlertOf(q)'
  BY DEF AlertOf
<1> QED
  BY <1>1, <1>2, <1>3, <1>4

LEMMA SameRecord ==
    ASSUME durable' = durable
    PROVE  /\ \A q, x : Has(q, x)' <=> Has(q, x)
           /\ ItemStored' <=> ItemStored
BY DEF Has, ItemStored

\* What the record promises stays true while nothing is added to it and nobody is
\* told anything but an error.
LEMMA NothingCommitted ==
    ASSUME IInv, UNCHANGED store, shadow' = shadow,
           \A q \in Requests :
                \/ reply'[q] \in {"none", "conflict", "error"}
                \/ reply'[q] = reply[q] /\ outcome'[q] = outcome[q]
    PROVE  (Explained /\ ReplyTrue /\ FinishedReachesTeacher)'
<1>1. durable' = durable /\ session' = session
  BY DEF store
<1>2. \A q, x : Has(q, x)' <=> Has(q, x)
  BY <1>1, SameRecord
<1>3. Explained' /\ FinishedReachesTeacher'
  BY <1>1, <1>2 DEF IInv, Explained, FinishedReachesTeacher, Grounds
<1>4. ReplyTrue'
  BY <1>2 DEF IInv, ReplyTrue, PromiseKept, ReplyBacked
<1> QED
  BY <1>3, <1>4

LEMMA EmittingIs ==
    Emitting = {"answer", "flag", "undelivered", "grade", "right", "wrong", "finish",
                "diagnose", "generate", "shown", "hinted", "giveup", "exhausted",
                "completed", "routed"}
BY DEF Emitting, AfterEvent

LEMMA TypedPlaces ==
    ASSUME NEW e \in Emitting
    PROVE  AfterEvent[e] \in Places /\ FlushedAfter(e) \subseteq Rows
<1>1. FlushedAfter(e) \subseteq Rows
  BY DEF FlushedAfter, Rows
<1>2. AfterEvent[e] \in Places
  BY EmittingIs DEF AfterEvent, Places
<1> QED
  BY <1>1, <1>2

-----------------------------------------------------------------------------
(* Each action keeps the invariant *)

\* A step of one request that commits nothing keeps the invariant if it types and
\* leaves that request as its new place demands.
LEMMA QuietStep ==
    ASSUME IInv, NEW r \in Requests, TypeOK', Request(r)',
           UNCHANGED <<setting, store>>,
           \A q \in Requests \ {r} :
                /\ pc'[q] = pc[q] /\ outcome'[q] = outcome[q] /\ seen'[q] = seen[q]
                /\ pending'[q] = pending[q] /\ reply'[q] = reply[q]
                /\ q \in notified' <=> q \in notified,
           reply'[r] \in {"none", "conflict", "error"}
    PROVE  IInv'
<1>1. shadow' = shadow /\ durable' = durable /\ UNCHANGED store
  BY DEF setting, store
<1>2. \A q \in Requests : Request(q)'
  BY <1>1, LeftAlone, SameRecord DEF IInv
<1>3. (Explained /\ ReplyTrue /\ FinishedReachesTeacher)'
  <2>1. \A q \in Requests :
                \/ reply'[q] \in {"none", "conflict", "error"}
                \/ reply'[q] = reply[q] /\ outcome'[q] = outcome[q]
    OBVIOUS
  <2> QED
    BY <1>1, <2>1, NothingCommitted
<1> QED
  BY <1>2, <1>3 DEF IInv

\* The request is over and its rows are rolled back.
LEMMA AbortKeeps ==
    ASSUME IInv, NEW r \in Requests, NEW told \in {"conflict", "error"}, Abort(r, told),
           UNCHANGED <<setting, store, notified, resolved>>,
           failures' \in 0..MaxFailures[inTurn],
           told = "conflict" => pc[r] = "idle"
    PROVE  IInv'
<1>1. TypeOK'
  BY DEF IInv, TypeOK, Abort, Goto, setting, store, Places, Emitting
<1>2. Request(r)'
  <2>1. pc'[r] = "over" /\ pending'[r] = {} /\ outcome'[r] = outcome[r]
        /\ reply'[r] = told
    BY DEF IInv, TypeOK, Abort, Goto
  <2>2. Request(r)
    BY DEF IInv
  <2>3. (Outcome(r) /\ Flushed(r) /\ Behind(r))'
    BY <2>1 DEF Outcome, Flushed, Behind, Closing, Hinting
  <2>4. (RoutedToItem(r) /\ AlertOf(r))'
    BY <2>1, <2>2, SameRecord DEF Request, RoutedToItem, AlertOf, store, Flushed
  <2> QED
    BY <2>3, <2>4 DEF Request
<1>3. \A q \in Requests \ {r} :
        /\ pc'[q] = pc[q] /\ outcome'[q] = outcome[q] /\ seen'[q] = seen[q]
        /\ pending'[q] = pending[q] /\ reply'[q] = reply[q]
        /\ q \in notified' <=> q \in notified
  BY DEF IInv, TypeOK, Abort, Goto
<1>4. reply'[r] \in {"none", "conflict", "error"}
  BY DEF IInv, TypeOK, Abort
<1> QED
  BY <1>1, <1>2, <1>3, <1>4, QuietStep

LEMMA SubmitKeeps ==
    ASSUME IInv, NEW r \in Requests, Submit(r)
    PROVE  IInv'
<1> USE DEF Submit, MaySubmit, Goto
<1>1. TypeOK'
  BY DEF IInv, TypeOK, setting, store, emission, Places, Emitting, AfterEvent, Rows
<1>2. Request(r)'
  <2>1. pc'[r] = "answer" /\ pending'[r] = {"attempt row"} /\ outcome'[r] = outcome[r]
    BY DEF IInv, TypeOK
  <2>2. Request(r) /\ pc[r] = "idle"
    BY DEF IInv
  <2>3. (Outcome(r) /\ Flushed(r) /\ Behind(r))'
    BY <2>1 DEF Outcome, Flushed, Behind, Closing, Hinting
  <2>4. (RoutedToItem(r) /\ AlertOf(r))'
    BY <2>1, <2>2, SameRecord DEF Request, RoutedToItem, AlertOf, store
  <2> QED
    BY <2>3, <2>4 DEF Request
<1>3. \A q \in Requests \ {r} :
        /\ pc'[q] = pc[q] /\ outcome'[q] = outcome[q] /\ seen'[q] = seen[q]
        /\ pending'[q] = pending[q] /\ reply'[q] = reply[q]
        /\ q \in notified' <=> q \in notified
  BY DEF IInv, TypeOK
<1>4. reply'[r] = "none"
  BY DEF IInv, Request, AlertOf
<1> QED
  BY <1>1, <1>2, <1>3, <1>4, QuietStep

LEMMA ScreenKeeps ==
    ASSUME IInv, NEW r \in Requests, Screen(r)
    PROVE  IInv'
<1>a. PICK next \in {"grade", "flag"} : Goto(r, next)
  <2>1. Screens[inTurn] \subseteq {"grade", "flag"}
    BY SubmissionAssumption DEF IInv, TypeOK
  <2> QED
    BY <2>1 DEF Screen
<1>1. /\ pc[r] = "screen" /\ pc'[r] \in {"grade", "flag"} /\ pending'[r] = pending[r]
      /\ notified' = notified
      /\ outcome'[r] = outcome[r] /\ (Exhausted(r)' <=> Exhausted(r))
      /\ reply'[r] = reply[r] /\ UNCHANGED <<store, shadow>>
  BY <1>a DEF IInv, TypeOK, flight, emission, setting, store, Exhausted, AttemptNumber,
     Goto, Screen
<1>2. TypeOK'
  BY <1>a, <1>1, EmittingIs DEF IInv, TypeOK, setting, store, flight, emission, Places, Rows,
     Goto, Screen
<1>3. Request(r)'
  <2>1. Request(r)
    BY DEF IInv
  <2>2. (Outcome(r) /\ Flushed(r) /\ Behind(r))'
    BY <1>1, <2>1, SameRecord DEF Request, Outcome, Flushed, Behind, Closing, Hinting,
       store
  <2>3. (RoutedToItem(r) /\ AlertOf(r))'
    BY <1>1, <2>1, SameRecord DEF Request, RoutedToItem, AlertOf, store, Flushed
  <2> QED
    BY <2>2, <2>3 DEF Request
<1>4. \A q \in Requests \ {r} :
        /\ pc'[q] = pc[q] /\ outcome'[q] = outcome[q] /\ seen'[q] = seen[q]
        /\ pending'[q] = pending[q] /\ reply'[q] = reply[q]
        /\ q \in notified' <=> q \in notified
  BY <1>a DEF IInv, TypeOK, flight, emission, Goto, Screen
<1>5. reply'[r] = "none"
  BY <1>1, EmittingIs DEF IInv, Request, AlertOf
<1>6. UNCHANGED <<setting, store>>
  BY DEF Screen, setting, store
<1> QED
  BY <1>2, <1>3, <1>4, <1>5, <1>6, QuietStep

LEMMA RaiseAlertKeeps ==
    ASSUME IInv, NEW r \in Requests, RaiseAlert(r)
    PROVE  IInv'
<1>1. /\ pc[r] = "alert"
      /\ \/ pc'[r] = "grade" /\ r \in notified'
         \/ pc'[r] = "undelivered" /\ notified' = notified
      /\ pending'[r] = pending[r] \cup {"alert row"}
      /\ outcome'[r] = outcome[r] /\ (Exhausted(r)' <=> Exhausted(r))
      /\ reply'[r] = reply[r] /\ UNCHANGED <<store, shadow>>
  BY DEF IInv, TypeOK, flight, emission, setting, store, Exhausted, AttemptNumber,
     Goto, RaiseAlert
<1>2. TypeOK'
  BY <1>1, EmittingIs DEF IInv, TypeOK, setting, store, flight, emission, Places, Rows,
     Goto, RaiseAlert
<1>3. Request(r)'
  <2>1. Request(r)
    BY DEF IInv
  <2>2. (Outcome(r) /\ Flushed(r) /\ Behind(r))'
    BY <1>1, <2>1, SameRecord DEF Request, Outcome, Flushed, Behind, Closing, Hinting,
       store
  <2>3. (RoutedToItem(r) /\ AlertOf(r))'
    BY <1>1, <2>1, SameRecord DEF Request, RoutedToItem, AlertOf, store, Behind, Flushed
  <2> QED
    BY <2>2, <2>3 DEF Request
<1>4. \A q \in Requests \ {r} :
        /\ pc'[q] = pc[q] /\ outcome'[q] = outcome[q] /\ seen'[q] = seen[q]
        /\ pending'[q] = pending[q] /\ reply'[q] = reply[q]
        /\ q \in notified' <=> q \in notified
  BY DEF IInv, TypeOK, flight, emission, Goto, RaiseAlert
<1>5. reply'[r] = "none"
  BY <1>1, EmittingIs DEF IInv, Request, AlertOf
<1>6. UNCHANGED <<setting, store>>
  BY DEF RaiseAlert, setting, store
<1> QED
  BY <1>2, <1>3, <1>4, <1>5, <1>6, QuietStep

LEMMA CheckAnswerKeeps ==
    ASSUME IInv, NEW r \in Requests, CheckAnswer(r)
    PROVE  IInv'
<1>a. PICK verdict \in {"right", "wrong"} :
        Goto(r, verdict) /\ outcome' = [outcome EXCEPT ![r] = verdict]
  BY SubmissionAssumption DEF CheckAnswer
<1>1. /\ pc[r] = "judge"
      /\ pc'[r] \in {"right", "wrong"} /\ outcome'[r] = pc'[r]
      /\ pending'[r] = pending[r] /\ notified' = notified
      /\ (Exhausted(r)' <=> Exhausted(r))
      /\ reply'[r] = reply[r] /\ UNCHANGED <<store, shadow>>
  BY <1>a DEF IInv, TypeOK, flight, emission, setting, store, Exhausted, AttemptNumber,
     Goto, CheckAnswer
<1>2. TypeOK'
  BY <1>a, <1>1, EmittingIs DEF IInv, TypeOK, setting, store, flight, emission, Places, Rows,
     Goto, CheckAnswer
<1>3. Request(r)'
  <2>1. Request(r)
    BY DEF IInv
  <2>2. (Outcome(r) /\ Flushed(r) /\ Behind(r))'
    BY <1>1, <2>1, SameRecord DEF Request, Outcome, Flushed, Behind, Closing, Hinting,
       store
  <2>3. (RoutedToItem(r) /\ AlertOf(r))'
    BY <1>1, <2>1, SameRecord DEF Request, RoutedToItem, AlertOf, store
  <2> QED
    BY <2>2, <2>3 DEF Request
<1>4. \A q \in Requests \ {r} :
        /\ pc'[q] = pc[q] /\ outcome'[q] = outcome[q] /\ seen'[q] = seen[q]
        /\ pending'[q] = pending[q] /\ reply'[q] = reply[q]
        /\ q \in notified' <=> q \in notified
  BY <1>a DEF IInv, TypeOK, flight, emission, Goto, CheckAnswer
<1>5. reply'[r] = "none"
  BY <1>1, EmittingIs DEF IInv, Request, AlertOf
<1>6. UNCHANGED <<setting, store>>
  BY DEF CheckAnswer, setting, store
<1> QED
  BY <1>2, <1>3, <1>4, <1>5, <1>6, QuietStep

LEMMA DraftKeeps ==
    ASSUME IInv, NEW r \in Requests, Draft(r)
    PROVE  IInv'
<1>a. PICK next \in {"shown", "giveup"}, how \in {"hint", "no hint"} :
        Goto(r, next) /\ outcome' = [outcome EXCEPT ![r] = how]
  BY DEF Draft
<1>1. /\ pc[r] = "draft"
      /\ \/ pc'[r] = "shown" /\ outcome'[r] = "hint"
         \/ pc'[r] = "giveup" /\ outcome'[r] = "no hint"
      /\ pending'[r] = pending[r] /\ notified' = notified
      /\ (Exhausted(r)' <=> Exhausted(r))
      /\ reply'[r] = reply[r] /\ UNCHANGED <<store, shadow>>
  BY <1>a DEF IInv, TypeOK, flight, emission, setting, store, Exhausted, AttemptNumber,
     Goto, Draft
<1>2. TypeOK'
  BY <1>a, <1>1, EmittingIs DEF IInv, TypeOK, setting, store, flight, emission, Places, Rows,
     Goto, Draft
<1>3. Request(r)'
  <2>1. Request(r)
    BY DEF IInv
  <2>2. (Outcome(r) /\ Flushed(r) /\ Behind(r))'
    BY <1>1, <2>1, SameRecord DEF Request, Outcome, Flushed, Behind, Closing, Hinting,
       store
  <2>3. (RoutedToItem(r) /\ AlertOf(r))'
    BY <1>1, <2>1, SameRecord DEF Request, RoutedToItem, AlertOf, store
  <2> QED
    BY <2>2, <2>3 DEF Request
<1>4. \A q \in Requests \ {r} :
        /\ pc'[q] = pc[q] /\ outcome'[q] = outcome[q] /\ seen'[q] = seen[q]
        /\ pending'[q] = pending[q] /\ reply'[q] = reply[q]
        /\ q \in notified' <=> q \in notified
  BY <1>a DEF IInv, TypeOK, flight, emission, Goto, Draft
<1>5. reply'[r] = "none"
  BY <1>1, EmittingIs DEF IInv, Request, AlertOf
<1>6. UNCHANGED <<setting, store>>
  BY DEF Draft, setting, store
<1> QED
  BY <1>2, <1>3, <1>4, <1>5, <1>6, QuietStep

LEMMA CountAttemptKeeps ==
    ASSUME IInv, NEW r \in Requests, CountAttempt(r)
    PROVE  IInv'
<1>1. /\ pc[r] = "count"
      /\ pc'[r] = IF outcome[r] = "no hint" THEN "completed"
                  ELSE IF Exhausted(r) THEN "exhausted" ELSE "save"
      /\ pending'[r] = pending[r] /\ notified' = notified
      /\ outcome'[r] = outcome[r] /\ (Exhausted(r)' <=> Exhausted(r))
      /\ reply'[r] = reply[r] /\ UNCHANGED <<store, shadow>>
  BY DEF IInv, TypeOK, flight, emission, setting, store, Exhausted, AttemptNumber,
     Goto, CountAttempt
<1>2. TypeOK'
  BY <1>1, EmittingIs DEF IInv, TypeOK, setting, store, flight, emission, Places, Rows,
     Goto, CountAttempt
<1>3. Request(r)'
  <2>1. Request(r)
    BY DEF IInv
  <2>2. (Outcome(r) /\ Flushed(r) /\ Behind(r))'
    BY <1>1, <2>1, SameRecord DEF Request, Outcome, Flushed, Behind, Closing, Hinting,
       store
  <2>3. (RoutedToItem(r) /\ AlertOf(r))'
    BY <1>1, <2>1, SameRecord DEF Request, RoutedToItem, AlertOf, store, Outcome, TargetState, Terminal
  <2> QED
    BY <2>2, <2>3 DEF Request
<1>4. \A q \in Requests \ {r} :
        /\ pc'[q] = pc[q] /\ outcome'[q] = outcome[q] /\ seen'[q] = seen[q]
        /\ pending'[q] = pending[q] /\ reply'[q] = reply[q]
        /\ q \in notified' <=> q \in notified
  BY DEF IInv, TypeOK, flight, emission, Goto, CountAttempt
<1>5. reply'[r] = "none"
  BY <1>1, EmittingIs DEF IInv, Request, AlertOf
<1>6. UNCHANGED <<setting, store>>
  BY DEF CountAttempt, setting, store
<1> QED
  BY <1>2, <1>3, <1>4, <1>5, <1>6, QuietStep

LEMMA ReadSequenceKeeps ==
    ASSUME IInv, NEW r \in Requests, ReadSequence(r)
    PROVE  IInv'
<1>1. /\ pc[r] \in Emitting
      /\ pc'[r] = pc[r] /\ pending'[r] = pending[r] /\ notified' = notified
      /\ seen'[r] = seen[r] /\ outcome'[r] = outcome[r]
      /\ reply'[r] = reply[r] /\ UNCHANGED <<store, shadow>>
  BY DEF IInv, TypeOK, flight, emission, setting, store, Exhausted, AttemptNumber,
     Goto, ReadSequence
<1>2. TypeOK'
  BY <1>1, EmittingIs DEF IInv, TypeOK, setting, store, flight, emission, Places, Rows,
     Goto, ReadSequence
<1>3. Request(r)'
  BY <1>1, SameRecord, LeftAlone DEF IInv, store
<1>4. \A q \in Requests \ {r} :
        /\ pc'[q] = pc[q] /\ outcome'[q] = outcome[q] /\ seen'[q] = seen[q]
        /\ pending'[q] = pending[q] /\ reply'[q] = reply[q]
        /\ q \in notified' <=> q \in notified
  BY DEF IInv, TypeOK, flight, emission, Goto, ReadSequence
<1>5. reply'[r] = "none"
  BY <1>1, EmittingIs DEF IInv, Request, AlertOf
<1>6. UNCHANGED <<setting, store>>
  BY DEF ReadSequence, setting, store
<1> QED
  BY <1>2, <1>3, <1>4, <1>5, <1>6, QuietStep

LEMMA RouteKeeps ==
    ASSUME IInv, NEW r \in Requests, Route(r)
    PROVE  IInv'
<1>a. PICK next \in {"routed", "save"}, rows \in SUBSET Rows :
        Goto(r, next) /\ pending' = [pending EXCEPT ![r] = rows]
  <2>1. pending \in [Requests -> SUBSET Rows] /\ RowToInsert \subseteq Rows
    BY DEF IInv, TypeOK, RowToInsert, Rows
  <2>2. pending = [pending EXCEPT ![r] = pending[r]]
    BY <2>1
  <2> QED
    BY <2>1, <2>2 DEF Route
<1>1. /\ pc[r] = "route"
      /\ \/ Reasons(r) /\ pc'[r] = "routed"
            /\ pending'[r] = pending[r] \cup RowToInsert
         \/ ~Reasons(r) /\ pc'[r] = "save" /\ pending'[r] = pending[r]
      /\ notified' = notified
      /\ outcome'[r] = outcome[r] /\ (Exhausted(r)' <=> Exhausted(r))
      /\ reply'[r] = reply[r] /\ UNCHANGED <<store, shadow>>
  BY <1>a DEF IInv, TypeOK, flight, emission, setting, store, Exhausted, AttemptNumber,
     Goto, Route
<1>2. TypeOK'
  BY <1>a, <1>1, EmittingIs DEF IInv, TypeOK, setting, store, flight, emission, Places, Rows,
     Goto, Route
<1>3. Request(r)'
  <2>1. Request(r)
    BY DEF IInv
  <2>2. (Outcome(r) /\ Flushed(r) /\ Behind(r))'
    BY <1>1, <2>1, SameRecord DEF Request, Outcome, Flushed, Behind, Closing, Hinting,
       store, RowToInsert
  <2>3. (RoutedToItem(r) /\ AlertOf(r))'
    BY <1>1, <2>1, SameRecord DEF Request, RoutedToItem, AlertOf, store, ItemStored, OpenItems,
       Reasons, TargetState, Flushed, RowToInsert
  <2> QED
    BY <2>2, <2>3 DEF Request
<1>4. \A q \in Requests \ {r} :
        /\ pc'[q] = pc[q] /\ outcome'[q] = outcome[q] /\ seen'[q] = seen[q]
        /\ pending'[q] = pending[q] /\ reply'[q] = reply[q]
        /\ q \in notified' <=> q \in notified
  BY <1>a DEF IInv, TypeOK, flight, emission, Goto, Route
<1>5. reply'[r] = "none"
  BY <1>1, EmittingIs DEF IInv, Request, AlertOf
<1>6. UNCHANGED <<setting, store>>
  BY DEF Route, setting, store
<1> QED
  BY <1>2, <1>3, <1>4, <1>5, <1>6, QuietStep

-----------------------------------------------------------------------------
(* The two commits *)

\* Promises and grounds outlast a commit of r, if what it adds has its own.
LEMMA RouteOf ==
    ASSUME NEW e \in Emitting
    PROVE  /\ e = "answer" => AfterEvent[e] = "screen"
           /\ e = "flag" => AfterEvent[e] = "alert"
           /\ e = "undelivered" => AfterEvent[e] = "grade"
           /\ e = "grade" => AfterEvent[e] = "judge"
           /\ e = "right" => AfterEvent[e] = "finish"
           /\ e = "wrong" => AfterEvent[e] = "diagnose"
           /\ e \in {"finish", "exhausted"} => AfterEvent[e] = "completed"
           /\ e = "diagnose" => AfterEvent[e] = "generate"
           /\ e = "generate" => AfterEvent[e] = "draft"
           /\ e = "shown" => AfterEvent[e] = "hinted"
           /\ e \in {"hinted", "giveup"} => AfterEvent[e] = "count"
           /\ e = "completed" => AfterEvent[e] = "route"
           /\ e = "routed" => AfterEvent[e] = "save"
BY EmittingIs DEF AfterEvent

LEMMA CommitKeepsPromises ==
    ASSUME IInv, NEW r \in Requests, shadow' = shadow,
           \A q, x : Has(q, x) => Has(q, x)',
           \A q \in Requests \ {r} : \A x : Has(q, x)' => Has(q, x),
           \A q \in Requests \ {r} : reply'[q] = reply[q],
           outcome' = outcome,
           \A g \in Grounds : Has(r, g[1])' => Has(r, g[2])',
           reply'[r] = "teacher" => Has(r, "routed")' /\ ItemStored',
           reply'[r] \in {"correct", "hint", "teacher"} =>
                Has(r, "answer")' /\ Has(r, "attempt row")' /\ Has(r, "grade row")',
           reply'[r] = "hint" \/ (reply'[r] = "teacher" /\ outcome[r] = "hint") =>
                Has(r, "diagnosis row")' /\ Has(r, "hint row")' /\ Has(r, "shown")',
           \/ session'.state = session.state
           \/ session'.state = "escalated" \/ (session'.state = "complete" /\ shadow) =>
                ItemStored'
    PROVE  (Explained /\ ReplyTrue /\ FinishedReachesTeacher)'
<1>1. Explained'
  BY Zenon DEF IInv, Explained
<1>2. PromiseKept'
  BY DEF IInv, ReplyTrue, PromiseKept, ItemStored
<1>3. ReplyBacked'
  BY DEF IInv, ReplyTrue, ReplyBacked
<1>4. FinishedReachesTeacher'
  <2>1. ItemStored => ItemStored'
    BY DEF ItemStored
  <2>2. FinishedReachesTeacher
    BY DEF IInv
  <2> QED
    BY <2>1, <2>2 DEF FinishedReachesTeacher, ItemStored
<1> QED
  BY <1>1, <1>2, <1>3, <1>4 DEF ReplyTrue

\* What r has on record once its event is committed.
LEMMA RecordAdds ==
    ASSUME NEW r \in Requests, Record(r)
    PROVE  \A q, x : Has(q, x)' <=> Has(q, x) \/ (q = r /\ (x = pc[r] \/ x \in pending[r]))
<1>1. durable' = durable \cup {<<r, pc[r]>>} \cup {<<r, row>> : row \in pending[r]}
  BY DEF Record, Committed
<1> QED
  BY <1>1 DEF Has

LEMMA RecordMoves ==
    ASSUME IInv, NEW r \in Requests, Record(r)
    PROVE  /\ pc[r] \in Emitting
           /\ pc'[r] = AfterEvent[pc[r]] /\ pending'[r] = FlushedAfter(pc[r])
           /\ \A q \in Requests \ {r} : pc'[q] = pc[q] /\ pending'[q] = pending[q]
           /\ UNCHANGED <<shadow, inTurn, resolved, seen, outcome, notified, reply, failures>>
           /\ session' \in Sessions /\ session'.state = session.state
           /\ reply[r] = "none"
<1>1. pc[r] \in Emitting
  BY DEF IInv, TypeOK, Record
<1>2. session' \in Sessions /\ session'.state = session.state
  <2>1. AttemptNumber(r) \in Nat
    <3>1. seen[r] \in Sessions
      BY DEF IInv, TypeOK
    <3> QED
      BY <3>1 DEF AttemptNumber, Sessions
  <2> QED
    BY <2>1 DEF IInv, TypeOK, Record, Sessions
<1>3. reply[r] = "none"
  BY <1>1, EmittingIs DEF IInv, Request, AlertOf
<1> QED
  BY <1>1, <1>2, <1>3 DEF IInv, TypeOK, Record, Goto, setting

LEMMA RecordTyped ==
    ASSUME IInv, NEW r \in Requests, Record(r)
    PROVE  TypeOK'
<1>1. pc[r] \in Emitting /\ session' \in Sessions
  BY RecordMoves
<1>2. AfterEvent[pc[r]] \in Places /\ FlushedAfter(pc[r]) \in SUBSET Rows
  BY <1>1, TypedPlaces
<1>3. pc' \in [Requests -> Places] /\ pending' \in [Requests -> SUBSET Rows]
  BY <1>2 DEF IInv, TypeOK, Record, Goto
<1>4. durable' \subseteq Requests \X (Rows \cup Emitting)
  <2>1. pending[r] \subseteq Rows
    BY DEF IInv, TypeOK
  <2>2. durable' = durable \cup {<<r, pc[r]>>} \cup {<<r, row>> : row \in pending[r]}
    BY DEF Record, Committed
  <2>3. durable \subseteq Requests \X (Rows \cup Emitting)
    BY DEF IInv, TypeOK
  <2> QED
    BY <1>1, <2>1, <2>2, <2>3
<1>5. reading' \subseteq {q \in Requests : pc'[q] \in Emitting} /\ stale' \subseteq reading'
  BY DEF IInv, TypeOK, Record, Goto
<1>6. counted' \in [Requests -> {"unset", "set", "committed"}]
  BY DEF IInv, TypeOK, Record
<1>7. UNCHANGED <<shadow, inTurn, resolved, seen, outcome, notified, reply, failures>>
  BY RecordMoves
<1> QED
  BY <1>1, <1>3, <1>4, <1>5, <1>6, <1>7 DEF IInv, TypeOK

LEMMA GroundsArePairs ==
    ASSUME NEW g \in Grounds
    PROVE  g = <<g[1], g[2]>>
<1>1. \E what, on : g = <<what, on>>
  BY DEF Grounds
<1> QED
  BY <1>1

LEMMA GroundsAre ==
    ASSUME NEW what, NEW on, <<what, on>> \in Grounds
    PROVE  /\ what = "answer" => on = "attempt row"
           /\ what = "alert row" => on = "flag"
           /\ what = "grade" => on = "answer"
           /\ what = "undelivered" => on = "alert row"
           /\ what = "grade row" => on = "grade"
           /\ what \in {"finish", "diagnose", "completed"} => on = "grade row"
           /\ what \in {"generate", "shown", "giveup"} => on = "diagnosis row"
           /\ what = "hint row" => on = "shown"
           /\ what \in {"hinted", "exhausted"} => on = "hint row"
           /\ what = "review row" => on = "completed"
           /\ what \notin {"attempt row", "diagnosis row", "flag", "right", "wrong",
                            "routed"}
BY DEF Grounds

LEMMA RecordGrounds ==
    ASSUME IInv, NEW r \in Requests, Record(r), NEW g \in Grounds, Has(r, g[1])'
    PROVE  Has(r, g[2])'
<1>a. \A x : Has(r, x)' <=> Has(r, x) \/ x = pc[r] \/ x \in pending[r]
  BY RecordAdds
<1>1. Outcome(r) /\ Flushed(r) /\ Behind(r) /\ pc[r] \in Emitting
  BY RecordMoves DEF IInv, Request
<1> DEFINE what == g[1]
           on == g[2]
<1>g. <<what, on>> \in Grounds /\ Has(r, what)'
  BY GroundsArePairs
<1>2. CASE Has(r, what)
  BY <1>2, <1>a DEF IInv, Explained
<1> HIDE DEF what, on
<1>h. /\ what = "answer" => on = "attempt row"
      /\ what = "alert row" => on = "flag"
      /\ what = "grade" => on = "answer"
      /\ what = "undelivered" => on = "alert row"
      /\ what = "grade row" => on = "grade"
      /\ what \in {"finish", "diagnose", "completed"} => on = "grade row"
      /\ what \in {"generate", "shown", "giveup"} => on = "diagnosis row"
      /\ what = "hint row" => on = "shown"
      /\ what \in {"hinted", "exhausted"} => on = "hint row"
      /\ what = "review row" => on = "completed"
      /\ what \notin {"attempt row", "diagnosis row", "flag", "right", "wrong", "routed"}
  BY <1>g, GroundsAre
<1>3. CASE what = pc[r]
  <2>1. on \in pending[r] \/ Has(r, on)
    <3>1. CASE what \in {"answer", "undelivered", "finish", "diagnose", "generate", "hinted"}
      BY <1>1, <1>3, <1>h, <3>1 DEF Flushed
    <3>2. CASE what \in {"grade", "shown", "giveup"}
      BY <1>1, <1>3, <1>h, <3>2 DEF Behind, Hinting
    <3>3. CASE what \in {"exhausted", "completed"}
      BY <1>1, <1>3, <1>h, <3>3 DEF Behind, Outcome, Closing, Hinting
    <3> QED
      BY <1>1, <1>3, <1>h, <3>1, <3>2, <3>3, EmittingIs
  <2> QED
    BY <2>1, <1>a DEF on
<1>4. CASE what \in pending[r]
  <2>1. on = pc[r] \/ on \in pending[r] \/ Has(r, on)
    <3>1. \/ what = "attempt row" /\ pc[r] = "answer"
          \/ what = "alert row" /\ pc[r] \in {"undelivered", "grade"}
          \/ what = "grade row" /\ pc[r] \in {"finish", "diagnose"}
          \/ what = "diagnosis row" /\ pc[r] = "generate"
          \/ what = "hint row" /\ pc[r] = "hinted"
          \/ what = "review row" /\ pc[r] = "routed"
      BY <1>1, <1>4 DEF Flushed
    <3>2. CASE what = "alert row"
      BY <1>1, <1>4, <1>h, <3>2 DEF Behind
    <3>3. CASE what \in {"grade row", "hint row", "review row"}
      BY <1>1, <1>h, <3>1, <3>3 DEF Behind
    <3> QED
      BY <1>h, <3>1, <3>2, <3>3
  <2> QED
    BY <2>1, <1>a DEF on
<1> QED
  BY <1>2, <1>3, <1>4, <1>a, <1>g

LEMMA RecordKeeps ==
    ASSUME IInv, NEW r \in Requests, Record(r)
    PROVE  IInv'
<1>a. \A q, x : Has(q, x)' <=> Has(q, x) \/ (q = r /\ (x = pc[r] \/ x \in pending[r]))
  BY RecordAdds
<1>b. /\ pc[r] \in Emitting
      /\ pc'[r] = AfterEvent[pc[r]] /\ pending'[r] = FlushedAfter(pc[r])
      /\ \A q \in Requests \ {r} : pc'[q] = pc[q] /\ pending'[q] = pending[q]
      /\ UNCHANGED <<shadow, inTurn, resolved, seen, outcome, notified, reply, failures>>
      /\ session'.state = session.state /\ reply[r] = "none"
  BY RecordMoves
<1>c. /\ pc[r] = "answer" => pc'[r] = "screen"
      /\ pc[r] = "flag" => pc'[r] = "alert"
      /\ pc[r] = "undelivered" => pc'[r] = "grade"
      /\ pc[r] = "grade" => pc'[r] = "judge"
      /\ pc[r] = "right" => pc'[r] = "finish"
      /\ pc[r] = "wrong" => pc'[r] = "diagnose"
      /\ pc[r] \in {"finish", "exhausted"} => pc'[r] = "completed"
      /\ pc[r] = "diagnose" => pc'[r] = "generate"
      /\ pc[r] = "generate" => pc'[r] = "draft"
      /\ pc[r] = "shown" => pc'[r] = "hinted"
      /\ pc[r] \in {"hinted", "giveup"} => pc'[r] = "count"
      /\ pc[r] = "completed" => pc'[r] = "route"
      /\ pc[r] = "routed" => pc'[r] = "save"
  BY <1>b, RouteOf
<1>1. ItemStored => ItemStored'
  BY <1>a DEF ItemStored
<1>2. Request(r)'
  <2>1. Request(r) /\ pc[r] \in Emitting
    BY <1>b DEF IInv
  <2>2. Exhausted(r)' <=> Exhausted(r)
    BY <1>b DEF Exhausted, AttemptNumber
  <2>3. Outcome(r)'
    BY <2>1, <2>2, <1>b, EmittingIs, <1>c DEF Request, Outcome, Closing
  <2>4. Flushed(r)'
    BY <2>1, <1>b, EmittingIs, <1>c DEF Flushed, FlushedAfter
  <2>5. Behind(r)'
    <3>0. "alert row" \notin pending'[r]
      <4>1. pending'[r] = FlushedAfter(pc[r])
        BY <1>b
      <4>2. "alert row" \notin FlushedAfter(pc[r])
        BY DEF FlushedAfter
      <4> QED
        BY <4>1, <4>2
    <3>1. pc'[r] \in {"screen", "judge", "finish", "diagnose", "generate", "draft", "hinted",
                       "count", "completed", "route", "save", "alert", "grade"}
      BY <1>b, <1>c, EmittingIs
    <3>2. Has(r, "answer")' /\ Has(r, "attempt row")'
      BY <2>1, <1>a, <1>b, EmittingIs DEF Request, Flushed, Behind
    <3>3. pc'[r] = "alert" => Has(r, "flag")'
      BY <2>1, <1>a, <1>b, <1>c, EmittingIs
    <3>4. pc'[r] \in {"judge", "finish", "diagnose"} => Has(r, "grade")'
      BY <2>1, <1>a, <1>b, <1>c, EmittingIs DEF Request, Behind
    <3>5. pc'[r] \in Closing \cup Hinting \cup {"generate"} => Has(r, "grade row")'
      BY <2>1, <1>a, <1>b, <1>c, EmittingIs DEF Request, Behind, Flushed, Closing, Hinting
    <3>6. pc'[r] \in Hinting => Has(r, "diagnosis row")'
      BY <2>1, <1>a, <1>b, <1>c, EmittingIs DEF Request, Behind, Flushed, Hinting
    <3>7. pc'[r] \in Closing \cup {"count", "exhausted"} /\ outcome[r] = "hint" =>
            Has(r, "diagnosis row")' /\ Has(r, "hint row")' /\ Has(r, "shown")'
      BY <2>1, <1>a, <1>b, <1>c, EmittingIs DEF Request, Behind, Flushed, Outcome, Closing,
         Hinting
    <3>8. /\ pc'[r] = "hinted" => Has(r, "shown")'
          /\ pc'[r] \in {"route", "routed"} => Has(r, "completed")'
      BY <1>a, <1>b, <1>c, EmittingIs
    <3> QED
      BY <1>b, <3>0, <3>1, <3>2, <3>3, <3>4, <3>5, <3>6, <3>7, <3>8 DEF Behind
  <2>6. RoutedToItem(r)'
    BY <1>1, <2>1, <2>2, <1>a, <1>b, EmittingIs, <1>c DEF Request, Flushed,
       RoutedToItem, Reasons, TargetState, ItemStored
  <2>7. AlertOf(r)'
    BY <2>1, <1>a, <1>b, EmittingIs, <1>c DEF Request, Flushed, Behind, AlertOf, FlushedAfter
  <2> QED
    BY <2>3, <2>4, <2>5, <2>6, <2>7 DEF Request
<1>3. \A q \in Requests \ {r} : Request(q)'
  BY <1>1, LeftAlone, <1>a, <1>b DEF IInv
<1>4. (Explained /\ ReplyTrue /\ FinishedReachesTeacher)'
  BY CommitKeepsPromises, <1>a, <1>b, RecordGrounds
<1> QED
  BY <1>2, <1>3, <1>4, RecordTyped DEF IInv

LEMMA SaveKeeps ==
    ASSUME IInv, NEW r \in Requests, Save(r)
    PROVE  IInv'
<1>a. pc[r] = "save" /\ Outcome(r) /\ Behind(r) /\ RoutedToItem(r) /\ AlertOf(r)
      /\ pending[r] = {}
  BY DEF Save, IInv, Request, Flushed
<1>b. /\ durable' = durable /\ pc'[r] = "over" /\ pending'[r] = {}
      /\ reply'[r] = Answer(r)
      /\ \A q \in Requests \ {r} :
            pc'[q] = pc[q] /\ pending'[q] = pending[q] /\ reply'[q] = reply[q]
      /\ UNCHANGED <<shadow, inTurn, resolved, seen, outcome, notified, failures>>
  BY <1>a DEF Save, IInv, TypeOK, Goto, setting
<1>c. outcome[r] \in {"right", "hint", "no hint"}
  BY <1>a DEF Outcome, Closing
<1>d. ItemStored' <=> ItemStored
  BY <1>b, SameRecord
<1>e. \A q, x : Has(q, x)' <=> Has(q, x)
  BY <1>b, SameRecord
<1>1. TypeOK'
  <2>1. session' \in Sessions
    <3>1. session \in Sessions /\ AttemptNumber(r) \in Nat
      <4>1. session \in Sessions /\ seen[r] \in Sessions
        BY DEF IInv, TypeOK
      <4>2. seen[r].count \in Nat
        BY <4>1 DEF Sessions
      <4> QED
        BY <4>1, <4>2 DEF AttemptNumber
    <3>2. TargetState(r) \in {"awaiting_student_retry", "complete", "escalated"}
      BY DEF TargetState
    <3> QED
      BY <3>1, <3>2 DEF Sessions, Save, Terminal
  <2>2. reply' \in [Requests -> {"none", "conflict", "error", "correct", "hint", "teacher",
                                 "later"}]
    <3>1. Answer(r) \in {"correct", "hint", "teacher", "later"}
      BY DEF Answer
    <3> QED
      BY <3>1 DEF Save, IInv, TypeOK
  <2>3. pc' \in [Requests -> Places] /\ pending' \in [Requests -> SUBSET Rows]
        /\ counted' \in [Requests -> {"unset", "set", "committed"}]
    BY DEF Save, Goto, IInv, TypeOK, Places
  <2>4. reading' \subseteq {q \in Requests : pc'[q] \in Emitting} /\ stale' \subseteq reading'
    BY <1>a, <1>b, EmittingIs DEF IInv, TypeOK, Save, emission
  <2> QED
    BY <2>1, <2>2, <2>3, <2>4, <1>b DEF IInv, TypeOK
<1>2. Request(r)'
  <2>1. (Outcome(r) /\ Flushed(r) /\ Behind(r))'
    BY <1>b DEF Outcome, Flushed, Behind, Closing, Hinting
  <2>2. RoutedToItem(r)'
    BY <1>a, <1>b, <1>d, <1>e DEF RoutedToItem
  <2>3. AlertOf(r)'
    BY <1>a, <1>b, <1>e DEF AlertOf
  <2> QED
    BY <2>1, <2>2, <2>3 DEF Request
<1>3. \A q \in Requests \ {r} : Request(q)'
  BY <1>b, <1>d, <1>e, LeftAlone DEF IInv
<1>4. Has(r, "answer") /\ Has(r, "attempt row") /\ Has(r, "grade row")
  BY <1>a DEF Behind, Closing
<1>5. outcome[r] = "hint" => Has(r, "diagnosis row") /\ Has(r, "hint row") /\ Has(r, "shown")
  BY <1>a DEF Behind, Closing
<1>6. Answer(r) = "hint" => outcome[r] = "hint"
  BY <1>c DEF Answer, TargetState
<1>7. Answer(r) = "teacher" => Has(r, "routed") /\ ItemStored
  BY <1>a DEF Answer, RoutedToItem, Terminal
<1>8. \/ session'.state = session.state
      \/ session'.state = "escalated" \/ (session'.state = "complete" /\ shadow) => ItemStored
  <2>1. session'.state = session.state \/ session'.state = TargetState(r)
    BY DEF Save
  <2>2. TargetState(r) = "escalated" \/ (TargetState(r) = "complete" /\ shadow) => Reasons(r)
    BY DEF TargetState, Reasons
  <2>3. TargetState(r) \in Terminal /\ Reasons(r) => ItemStored
    BY <1>a DEF RoutedToItem
  <2> QED
    BY <2>1, <2>2, <2>3 DEF Terminal
<1>9. \A g \in Grounds : Has(r, g[1])' => Has(r, g[2])'
  BY <1>e DEF IInv, Explained
<1>10. (Explained /\ ReplyTrue /\ FinishedReachesTeacher)'
  BY <1>b, <1>d, <1>e, <1>4, <1>5, <1>6, <1>7, <1>8, <1>9, CommitKeepsPromises
<1> QED
  BY <1>1, <1>2, <1>3, <1>10 DEF IInv

-----------------------------------------------------------------------------
(* The specification keeps the invariant *)

LEMMA ResolveKeeps ==
    ASSUME IInv, NEW q \in Requests, Resolve(q)
    PROVE  IInv'
<1>1. /\ UNCHANGED <<shadow, inTurn, session, durable, pc, seen, pending, counted, outcome,
                     reading, stale, notified, reply, failures>>
      /\ resolved' \subseteq Requests
  BY DEF Resolve, setting, store, flight, emission, IInv, TypeOK
<1>2. \A r \in Requests : Request(r)'
  BY <1>1, LeftAlone, SameRecord DEF IInv
<1>3. (Explained /\ ReplyTrue /\ FinishedReachesTeacher)'
  BY <1>1, NothingCommitted DEF store
<1>4. TypeOK'
  BY <1>1 DEF IInv, TypeOK
<1> QED
  BY <1>2, <1>3, <1>4 DEF IInv

LEMMA RefusalsKeep ==
    ASSUME IInv, NEW r \in Requests,
           SubmitFinished(r) \/ SubmitPastLevels(r) \/ Refused(r) \/ RouteAmbiguous(r) \/ Fail(r)
    PROVE  IInv'
<1>1. failures' \in 0..MaxFailures[inTurn]
  <2>1. MaxFailures[inTurn] \in Nat /\ failures \in 0..MaxFailures[inTurn]
    BY SubmissionAssumption DEF IInv, TypeOK
  <2> QED
    BY <2>1 DEF SubmitFinished, SubmitPastLevels, Refused, RouteAmbiguous, Fail
<1>2. UNCHANGED <<setting, store, notified, resolved>>
  BY DEF SubmitFinished, SubmitPastLevels, Refused, RouteAmbiguous, Fail
<1>3. PICK told \in {"conflict", "error"} : Abort(r, told) /\ (told = "conflict" => pc[r] = "idle")
  BY DEF SubmitFinished, SubmitPastLevels, Refused, RouteAmbiguous, Fail, MaySubmit
<1> QED
  BY <1>1, <1>2, <1>3, AbortKeeps

LEMMA InitIInv == Init => IInv
<1> SUFFICES ASSUME Init PROVE IInv
  OBVIOUS
<1>1. session \in Sessions /\ session.state \notin Terminal
  BY SubmissionAssumption DEF Init, Sessions, Terminal
<1>2. TypeOK
  <2>1. MaxFailures[inTurn] \in Nat
    BY SubmissionAssumption DEF Init
  <2> QED
    BY <1>1, <2>1 DEF Init, TypeOK, Places
<1>3. \A q, x : ~Has(q, x)
  BY DEF Init, Has
<1>4. \A r \in Requests : pc[r] = "idle" /\ pending[r] = {} /\ reply[r] = "none"
                          /\ r \notin notified
  BY DEF Init
<1>5. ASSUME NEW r \in Requests PROVE Request(r)
  BY <1>3, <1>4 DEF Request, Outcome, Flushed, Behind, RoutedToItem, AlertOf, Closing, Hinting
<1>6. Explained /\ ReplyTrue /\ FinishedReachesTeacher
  BY <1>1, <1>3, <1>4 DEF Explained, ReplyTrue, PromiseKept, ReplyBacked,
     FinishedReachesTeacher, Terminal
<1> QED
  BY <1>2, <1>5, <1>6 DEF IInv

LEMMA NextIInv == IInv /\ [Next]_vars => IInv'
<1> SUFFICES ASSUME IInv, [Next]_vars PROVE IInv'
  OBVIOUS
<1>1. CASE UNCHANGED vars
  <2>1. /\ UNCHANGED <<shadow, inTurn, session, durable, resolved, pc, seen, pending, counted,
                       outcome, reading, stale, notified, reply, failures>>
    BY <1>1 DEF vars, setting, store, flight, emission
  <2>2. TypeOK'
    BY <2>1 DEF IInv, TypeOK
  <2>3. \A r \in Requests : Request(r)'
    BY <2>1, LeftAlone, SameRecord DEF IInv
  <2>4. (Explained /\ ReplyTrue /\ FinishedReachesTeacher)'
    BY <2>1, NothingCommitted DEF store
  <2> QED
    BY <2>2, <2>3, <2>4 DEF IInv
<1>2. ASSUME NEW r \in Requests, Arrive(r) \/ Handle(r) \/ Fail(r) \/ Resolve(r)
      PROVE  IInv'
  BY <1>2, SubmitKeeps, RefusalsKeep, ScreenKeeps, RaiseAlertKeeps, CheckAnswerKeeps, DraftKeeps,
     CountAttemptKeeps, ReadSequenceKeeps, RecordKeeps, RouteKeeps, SaveKeeps, ResolveKeeps
     DEF Arrive, Handle
<1> QED
  BY <1>1, <1>2 DEF Next

LEMMA Invariant == Spec => []IInv
BY InitIInv, NextIInv, PTL DEF Spec

\* Every variable keeps to its kind, however requests overlap and fail; a sequence number
\* is held only by a request about to write an event, and only such a number goes stale.
THEOREM TypeCorrect == Spec => []TypeOK
<1>1. IInv => TypeOK
  BY DEF IInv
<1> QED
  BY <1>1, Invariant, PTL

\* Whatever is cut off, every stored row and event stands on what it builds on: commits
\* of other requests in between, failures and stale numbers included.
THEOREM RecordExplained == Spec => []Explained
<1>1. IInv => Explained
  BY DEF IInv
<1> QED
  BY <1>1, Invariant, PTL

\* What a child is told is so in the record: a promised teacher has an item in the queue,
\* and an answer has its whole attempt stored.
THEOREM RepliesAreTrue == Spec => []ReplyTrue
<1>1. IInv => ReplyTrue
  BY DEF IInv
<1> QED
  BY <1>1, Invariant, PTL

\* A session that stands as going to a teacher, and in shadow mode every finished one, has
\* had an item in the queue, however many requests overlapped.
THEOREM EscalationReachesTeacher == Spec => []FinishedReachesTeacher
<1>1. IInv => FinishedReachesTeacher
  BY DEF IInv
<1> QED
  BY <1>1, Invariant, PTL

-----------------------------------------------------------------------------
(* One request after the other *)

LEMMA AtMostOne ==
    ASSUME NEW S, \A p, q \in S : p = q
    PROVE  Cardinality(S) <= 1
<1>1. CASE S = {}
  BY <1>1, FS_EmptySet
<1>2. CASE S # {}
  <2>1. PICK p \in S : TRUE
    BY <1>2
  <2>2. S = {p}
    BY <2>1
  <2>3. Cardinality({p}) = 1
    BY FS_Singleton
  <2> QED
    BY <2>2, <2>3
<1> QED
  BY <1>1, <1>2

\* A step of the request in flight that commits nothing.
LEMMA QuietTurn ==
    ASSUME Orderly, failures = 0 => Unfailed, NEW r \in InFlight, r \in InFlight',
           UNCHANGED <<store, resolved, stale, reply, failures>>,
           \A q \in Requests \ {r} : pc'[q] = pc[q] /\ counted'[q] = counted[q],
           Loaded(r)', "review row" \in pending'[r] => OpenItems = {},
           failures = 0 => Unended(r)'
    PROVE  Orderly' /\ (failures' = 0 => Unfailed')
<1>1. durable' = durable /\ \A q, x : Has(q, x)' <=> Has(q, x)
  BY SameRecord DEF store
<1>2. InFlight = {r} /\ InFlight' = {r}
  BY DEF Orderly, InFlight
<1>3. OpenItems' = OpenItems
  BY <1>1 DEF OpenItems
<1>4. Orderly'
  <2>1. \A q \in Requests : pc'[q] = "idle" => counted'[q] = "unset"
    BY <1>2 DEF Orderly, InFlight
  <2> QED
    BY <1>2, <1>3, <2>1 DEF Orderly
<1>5. failures' = 0 => Unfailed'
  BY <1>1, <1>2 DEF Unfailed
<1> QED
  BY <1>4, <1>5

\* The request leaves without a commit.
LEMMA AbortTurn ==
    ASSUME Orderly, failures = 0 => Unfailed, NEW r \in Requests, NEW told, Abort(r, told),
           IInv, UNCHANGED <<store, resolved>>, failures' \in Nat, failures \in Nat,
           \/ failures' # 0
           \/ told # "error" /\ pc[r] = "idle" /\ failures' = failures
    PROVE  Orderly' /\ (failures' = 0 => Unfailed')
<1>1. durable' = durable /\ session' = session /\ \A q, x : Has(q, x)' <=> Has(q, x)
  BY SameRecord DEF store
<1>2. pc' = [pc EXCEPT ![r] = "over"] /\ reply' = [reply EXCEPT ![r] = told]
      /\ pending' = [pending EXCEPT ![r] = {}] /\ pc \in [Requests -> Places]
      /\ UNCHANGED <<seen, counted, outcome>>
  BY DEF Abort, Goto, IInv, TypeOK
<1>3. InFlight' = InFlight \ {r}
  BY <1>2 DEF InFlight
<1>4. OpenItems' = OpenItems
  BY <1>1 DEF OpenItems
<1>5. Orderly'
  <2>1. stale' = {}
    BY DEF Abort, Orderly
  <2>2. \A q \in InFlight' : Loaded(q)' /\ ("review row" \in pending'[q] => OpenItems' = {})
    <3> SUFFICES ASSUME NEW q \in InFlight'
                 PROVE  Loaded(q)' /\ ("review row" \in pending'[q] => OpenItems' = {})
      OBVIOUS
    <3>1. q \in InFlight /\ q # r /\ q \in Requests
      BY <1>3 DEF InFlight
    <3>2. pc'[q] = pc[q] /\ pending'[q] = pending[q] /\ Loaded(q)
          /\ ("review row" \in pending[q] => OpenItems = {})
      BY <1>2, <3>1 DEF Orderly, IInv, TypeOK
    <3> QED
      BY <1>1, <1>2, <1>4, <3>2 DEF Loaded
  <2>3. \A q \in Requests : pc'[q] = "idle" => counted'[q] = "unset"
    BY <1>2 DEF Orderly
  <2> QED
    BY <1>2, <1>3, <1>4, <2>1, <2>2, <2>3 DEF Orderly
<1>6. failures' = 0 => Unfailed'
  <2> SUFFICES ASSUME failures' = 0 PROVE Unfailed'
    OBVIOUS
  <2>1. Unfailed /\ told # "error" /\ pc[r] = "idle" /\ InFlight' = InFlight
    BY <1>3 DEF InFlight
  <2>2. \A q \in Requests : reply'[q] # "error"
    BY <1>2, <2>1 DEF Unfailed, IInv, TypeOK
  <2>3. \A q \in InFlight' : Unended(q)'
    <3> SUFFICES ASSUME NEW q \in InFlight PROVE Unended(q)'
      BY <2>1
    <3>1. q # r /\ q \in Requests /\ Unended(q)
      BY <2>1 DEF InFlight, Unfailed
    <3>2. pc'[q] = pc[q]
      BY <1>2, <3>1
    <3> QED
      BY <1>1, <1>2, <3>1, <3>2 DEF Unended, TargetState, Exhausted, AttemptNumber
  <2> QED
    BY <1>1, <2>1, <2>2, <2>3 DEF Unfailed
<1> QED
  BY <1>5, <1>6

LEMMA EarlyTurn ==
    ASSUME IInv, Orderly, failures = 0 => Unfailed, NEW r \in Requests,
           Screen(r) \/ RaiseAlert(r) \/ CheckAnswer(r) \/ Draft(r)
    PROVE  Orderly' /\ (failures' = 0 => Unfailed')
<1>1. pc[r] \in {"screen", "alert", "judge", "draft"}
  BY DEF Screen, RaiseAlert, CheckAnswer, Draft
<1>2. pc'[r] \in {"grade", "flag", "undelivered", "right", "wrong", "shown", "giveup"}
      /\ \A q \in Requests \ {r} : pc'[q] = pc[q]
  <2>1. CASE Screen(r)
    <3>1. PICK next \in {"grade", "flag"} : Goto(r, next)
      <4>1. Screens[inTurn] \subseteq {"grade", "flag"}
        BY SubmissionAssumption DEF IInv, TypeOK
      <4> QED
        BY <2>1, <4>1 DEF Screen
    <3> QED
      BY <3>1 DEF Goto, IInv, TypeOK
  <2>2. CASE CheckAnswer(r)
    <3>1. PICK verdict \in {"right", "wrong"} : Goto(r, verdict)
      BY <2>2, SubmissionAssumption DEF CheckAnswer
    <3> QED
      BY <3>1 DEF Goto, IInv, TypeOK
  <2>3. CASE RaiseAlert(r) \/ Draft(r)
    BY <2>3 DEF RaiseAlert, Draft, Goto, IInv, TypeOK
  <2> QED
    BY <2>1, <2>2, <2>3
<1>3. UNCHANGED <<store, resolved, stale, reply, failures, seen, counted>>
  BY DEF Screen, RaiseAlert, CheckAnswer, Draft, flight, emission
<1>4. r \in InFlight /\ r \in InFlight'
  BY <1>1, <1>2 DEF InFlight
<1>5. Loaded(r)'
  BY <1>1, <1>2, <1>3, <1>4 DEF Orderly, Loaded, Closing, store
<1>6. "review row" \notin pending'[r]
  <2>1. pending[r] = {}
    BY <1>1 DEF IInv, Request, Flushed
  <2>2. pending'[r] = pending[r] \/ pending'[r] = pending[r] \cup {"alert row"}
    BY DEF Screen, RaiseAlert, CheckAnswer, Draft, flight, IInv, TypeOK
  <2>3. pending'[r] \subseteq {"alert row"}
    BY <2>1, <2>2
  <2> QED
    BY <2>3
<1>7. failures = 0 => Unended(r)'
  <2>1. \A q, x : Has(q, x)' <=> Has(q, x)
    BY <1>3, SameRecord DEF store
  <2> QED
    BY <1>1, <1>2, <1>3, <1>4, <2>1 DEF Unfailed, Unended
<1> QED
  BY <1>2, <1>3, <1>4, <1>5, <1>6, <1>7, QuietTurn

LEMMA ReadSequenceTurn ==
    ASSUME IInv, Orderly, failures = 0 => Unfailed, NEW r \in Requests, ReadSequence(r)
    PROVE  Orderly' /\ (failures' = 0 => Unfailed')
<1>1. UNCHANGED <<session, durable, resolved, stale, reply, failures, seen, counted, pending, pc,
                  outcome>>
  BY DEF ReadSequence, flight, store
<1>2. \A q, x : Has(q, x)' <=> Has(q, x)
  BY <1>1, SameRecord
<1>3. InFlight' = InFlight /\ OpenItems' = OpenItems
  BY <1>1, <1>2 DEF InFlight, OpenItems
<1>4. \A q : (Loaded(q)' <=> Loaded(q)) /\ (Unended(q)' <=> Unended(q))
  BY <1>1, <1>2 DEF Loaded, Unended, TargetState, Exhausted, AttemptNumber
<1>5. Orderly'
  BY <1>1, <1>3, <1>4 DEF Orderly
<1>6. Unfailed' <=> Unfailed
  BY <1>1, <1>2, <1>3, <1>4 DEF Unfailed
<1> QED
  BY <1>1, <1>5, <1>6

LEMMA CountTurn ==
    ASSUME IInv, Orderly, failures = 0 => Unfailed, NEW r \in Requests, CountAttempt(r)
    PROVE  Orderly' /\ (failures' = 0 => Unfailed')
<1>1. UNCHANGED <<store, session, resolved, stale, reply, failures, seen, pending, outcome>>
  BY DEF CountAttempt, flight, emission, store
<1>2. pc[r] = "count"
      /\ pc'[r] = (IF outcome[r] = "no hint" THEN "completed"
                   ELSE IF Exhausted(r) THEN "exhausted" ELSE "save")
      /\ \A q \in Requests \ {r} : pc'[q] = pc[q] /\ counted'[q] = counted[q]
  BY DEF CountAttempt, Goto, IInv, TypeOK
<1>3. r \in InFlight /\ r \in InFlight'
  BY <1>2 DEF InFlight
<1>4. Loaded(r)'
  <2>1. counted[r] = "unset" /\ counted'[r] = "set" /\ Loaded(r)
    BY <1>2, <1>3 DEF CountAttempt, IInv, TypeOK, Orderly, Loaded, Closing
  <2> QED
    BY <1>1, <1>2, <2>1 DEF Loaded, Closing
<1>5. "review row" \notin pending'[r]
  BY <1>1, <1>2 DEF IInv, Request, Flushed
<1>6. failures = 0 => Unended(r)'
  <2>1. \A q, x : Has(q, x)' <=> Has(q, x)
    BY <1>1, SameRecord DEF store
  <2>2. TargetState(r)' = TargetState(r)
    BY <1>1 DEF TargetState, Exhausted, AttemptNumber
  <2>3. outcome[r] \in {"hint", "no hint"}
    BY <1>2 DEF IInv, Request, Outcome
  <2>4. pc'[r] = "save" => TargetState(r) \notin Terminal
    BY <1>2, <2>3 DEF TargetState, Terminal
  <2> QED
    BY <1>1, <1>2, <1>3, <2>1, <2>2, <2>4 DEF Unfailed, Unended
<1> QED
  BY <1>1, <1>2, <1>3, <1>4, <1>5, <1>6, QuietTurn

LEMMA EndsAtTerminal ==
    ASSUME IInv, NEW r \in Requests, pc[r] \in {"route", "routed"}
    PROVE  TargetState(r) \in Terminal
<1>1. outcome[r] \in {"right", "hint", "no hint"} /\ (outcome[r] = "hint" => Exhausted(r))
  BY DEF IInv, Request, Outcome, Closing
<1> QED
  BY <1>1 DEF TargetState, Terminal

LEMMA RouteTurn ==
    ASSUME IInv, Orderly, failures = 0 => Unfailed, NEW r \in Requests, Route(r)
    PROVE  Orderly' /\ (failures' = 0 => Unfailed')
<1>1. UNCHANGED <<store, session, resolved, stale, reply, failures, seen, outcome, counted>>
  BY DEF Route, flight, emission, store
<1>2. pc[r] = "route" /\ pc'[r] \in {"routed", "save"} /\ \A q \in Requests \ {r} : pc'[q] = pc[q]
  BY DEF Route, Goto, IInv, TypeOK
<1>3. r \in InFlight /\ r \in InFlight'
  BY <1>2 DEF InFlight
<1>4. Loaded(r)'
  BY <1>1, <1>2, <1>3 DEF Orderly, Loaded, Closing
<1>5. "review row" \in pending'[r] => OpenItems = {}
  <2>1. pending[r] = {}
    BY <1>2 DEF IInv, Request, Flushed
  <2>2. pending'[r] \subseteq pending[r] \cup RowToInsert
    BY DEF Route, IInv, TypeOK
  <2> QED
    BY <2>1, <2>2 DEF RowToInsert
<1>6. failures = 0 => Unended(r)'
  <2>1. \A q, x : Has(q, x)' <=> Has(q, x)
    BY <1>1, SameRecord DEF store
  <2>2. TargetState(r)' = TargetState(r)
    BY <1>1 DEF TargetState, Exhausted, AttemptNumber
  <2>3. TargetState(r) \in Terminal /\ Has(r, "completed")
    BY <1>2, EndsAtTerminal DEF IInv, Request, Behind
  <2> QED
    BY <1>1, <1>2, <1>3, <2>1, <2>2, <2>3 DEF Unfailed, Unended
<1> QED
  BY <1>1, <1>2, <1>3, <1>4, <1>5, <1>6, QuietTurn

LEMMA SubmitTurn ==
    ASSUME IInv, Orderly, failures = 0 => Unfailed, inTurn, NEW r \in Requests, Submit(r)
    PROVE  Orderly' /\ (failures' = 0 => Unfailed')
<1>1. UNCHANGED <<store, session, durable, resolved, stale, reply, failures, outcome, counted>>
  BY DEF Submit, emission, store
<1>2. pc'[r] = "answer" /\ pending'[r] = {"attempt row"} /\ seen'[r] = session
      /\ \A q \in Requests \ {r} : pc'[q] = pc[q]
  BY DEF Submit, Goto, IInv, TypeOK
<1>3. InFlight = {} /\ InFlight' = {r}
  <2>1. InFlight = {}
    BY DEF Submit, MaySubmit
  <2> QED
    BY <1>2, <2>1 DEF InFlight
<1>4. \A q, x : Has(q, x)' <=> Has(q, x)
  BY <1>1, SameRecord
<1>5. OpenItems' = OpenItems
  BY <1>1, <1>4 DEF OpenItems
<1>6. Orderly'
  <2>1. counted[r] = "unset"
    BY DEF Submit, MaySubmit, Orderly
  <2>2. Loaded(r)'
    BY <1>1, <1>2, <2>1 DEF Loaded, Closing, Submit
  <2>3. "review row" \notin pending'[r]
    BY <1>2
  <2> QED
    BY <1>1, <1>2, <1>3, <1>5, <2>2, <2>3 DEF Orderly
<1>7. failures' = 0 => Unfailed'
  <2> SUFFICES ASSUME failures = 0 PROVE Unfailed'
    BY <1>1
  <2>1. session.state \notin Terminal /\ session.count < MaxHintLevel
    <3>1. session.count \in Nat /\ MaxHintLevel \in Nat
      BY SubmissionAssumption DEF IInv, TypeOK, Sessions
    <3>2. session.state \notin Terminal /\ ~(session.count >= MaxHintLevel)
      BY <1>3 DEF Submit, Unfailed
    <3> QED
      BY <3>1, <3>2
  <2>2. \A q \in Requests : ~Has(q, "completed")
    BY <1>3, <2>1 DEF Unfailed
  <2>3. Unended(r)'
    BY <1>2, <1>4, <2>1, <2>2 DEF Unended
  <2> QED
    BY <1>1, <1>3, <1>4, <2>3 DEF Unfailed
<1> QED
  BY <1>6, <1>7

LEMMA ResolveTurn ==
    ASSUME IInv, Orderly, failures = 0 => Unfailed, NEW p \in Requests, Resolve(p)
    PROVE  Orderly' /\ (failures' = 0 => Unfailed')
<1>1. UNCHANGED <<session, durable, stale, reply, failures, outcome, counted, seen, pending, pc>>
  BY DEF Resolve, store, flight, emission
<1>2. \A q, x : Has(q, x)' <=> Has(q, x)
  BY <1>1, SameRecord
<1>3. InFlight' = InFlight /\ OpenItems' \subseteq OpenItems
  BY <1>1, <1>2 DEF InFlight, OpenItems, Resolve
<1>4. \A q : (Loaded(q)' <=> Loaded(q)) /\ (Unended(q)' <=> Unended(q))
  BY <1>1, <1>2 DEF Loaded, Unended, TargetState, Exhausted, AttemptNumber
<1>5. Orderly'
  BY <1>1, <1>3, <1>4 DEF Orderly
<1>6. Unfailed' <=> Unfailed
  BY <1>1, <1>2, <1>3, <1>4 DEF Unfailed
<1> QED
  BY <1>1, <1>5, <1>6

\* In turn a request is refused for a finished session or fails: a number is never
\* taken by another, two items are never open, and levels are never used up without an end.
LEMMA RefusalTurn ==
    ASSUME IInv, Orderly, failures = 0 => Unfailed, inTurn, NEW r \in Requests,
           SubmitFinished(r) \/ SubmitPastLevels(r) \/ Refused(r) \/ RouteAmbiguous(r) \/ Fail(r)
    PROVE  Orderly' /\ (failures' = 0 => Unfailed')
<1>1. failures \in Nat
  <2>1. inTurn \in BOOLEAN /\ failures \in 0..MaxFailures[inTurn]
    BY DEF IInv, TypeOK
  <2>2. MaxFailures[inTurn] \in Nat
    BY <2>1, SubmissionAssumption
  <2> QED
    BY <2>1, <2>2
<1>2. ~Refused(r)
  BY DEF Refused, Orderly
<1>3. ~RouteAmbiguous(r)
  <2>1. Cardinality(OpenItems) <= 1
    BY AtMostOne DEF Orderly
  <2>2. Cardinality(OpenItems) \in Nat
    BY FS_Subset, FS_CardinalityType, SubmissionAssumption DEF OpenItems
  <2> QED
    BY <2>1, <2>2 DEF RouteAmbiguous
<1>4. CASE SubmitFinished(r)
  <2>1. Abort(r, "conflict") /\ pc[r] = "idle" /\ UNCHANGED <<store, resolved, failures>>
    BY <1>4 DEF SubmitFinished, MaySubmit
  <2> QED
    BY <1>1, <2>1, AbortTurn
<1>5. CASE Fail(r)
  <2>1. Abort(r, "error") /\ UNCHANGED <<store, resolved>> /\ failures' = failures + 1
    BY <1>5 DEF Fail
  <2> QED
    BY <1>1, <2>1, AbortTurn
<1>6. CASE SubmitPastLevels(r)
  <2>1. Abort(r, "error") /\ UNCHANGED <<store, resolved, failures>>
    BY <1>6 DEF SubmitPastLevels
  <2>2. failures # 0
    <3>1. session.count \in Nat /\ MaxHintLevel \in Nat
      BY SubmissionAssumption DEF IInv, TypeOK, Sessions
    <3> QED
      BY <1>6, <3>1 DEF SubmitPastLevels, MaySubmit, Unfailed
  <2> QED
    BY <1>1, <2>1, <2>2, AbortTurn
<1> QED
  BY <1>2, <1>3, <1>4, <1>5, <1>6

LEMMA RecordTurn ==
    ASSUME IInv, Orderly, failures = 0 => Unfailed, NEW r \in Requests, Record(r)
    PROVE  Orderly' /\ (failures' = 0 => Unfailed')
<1>a. \A q, x : Has(q, x)' <=> Has(q, x) \/ (q = r /\ (x = pc[r] \/ x \in pending[r]))
  BY RecordAdds
<1>b. /\ pc[r] \in Emitting
      /\ pc'[r] = AfterEvent[pc[r]] /\ pending'[r] = FlushedAfter(pc[r])
      /\ \A q \in Requests \ {r} : pc'[q] = pc[q] /\ pending'[q] = pending[q]
      /\ UNCHANGED <<shadow, inTurn, resolved, seen, outcome, notified, reply, failures>>
      /\ session'.state = session.state
  BY RecordMoves
<1>c. /\ pc[r] \in {"finish", "exhausted"} => pc'[r] = "completed"
      /\ pc[r] = "completed" => pc'[r] = "route"
      /\ pc[r] = "routed" => pc'[r] = "save"
      /\ pc[r] \notin {"finish", "exhausted", "completed", "routed"} =>
            pc'[r] \notin Closing \cup {"exhausted"}
  BY <1>b, RouteOf, EmittingIs DEF Closing
<1>1. r \in InFlight /\ pc'[r] \notin {"idle", "over"}
  <2>1. pc[r] \notin {"idle", "over"}
    BY <1>b, EmittingIs
  <2>2. pc'[r] \notin {"idle", "over"}
    BY <1>b, RouteOf, EmittingIs
  <2> QED
    BY <2>1, <2>2 DEF InFlight
<1>2. InFlight = {r} /\ InFlight' = {r}
  BY <1>1, <1>b DEF Orderly, InFlight
<1>3. Flushed(r) /\ Behind(r) /\ Outcome(r) /\ Loaded(r)
  BY <1>1 DEF IInv, Request, Orderly
<1>4. OpenItems' \subseteq OpenItems \cup {r} /\ (pending[r] # {"review row"} => OpenItems' = OpenItems)
  <2>1. "review row" \in pending[r] => pending[r] = {"review row"}
    BY <1>b, <1>3, EmittingIs DEF Flushed
  <2>2. pc[r] # "review row"
    BY <1>b, EmittingIs
  <2> QED
    BY <1>a, <1>b, <2>1, <2>2 DEF OpenItems
<1>5. Loaded(r)'
  <2>1. counted[r] \in {"unset", "set", "committed"} /\ seen[r].count \in Nat
        /\ session.count \in Nat
    BY DEF IInv, TypeOK, Sessions
  <2>2. counted'[r] = (IF counted[r] = "set" THEN "committed" ELSE counted[r])
    BY DEF Record, IInv, TypeOK
  <2>3. session'.count = IF counted[r] = "set" THEN seen[r].count + 1 ELSE session.count
    BY DEF Record, IInv, TypeOK, Sessions, AttemptNumber
  <2>4. session'.count = IF counted'[r] = "committed" THEN seen[r].count + 1 ELSE seen[r].count
    BY <1>3, <2>1, <2>2, <2>3 DEF Loaded
  <2>5. pc'[r] \notin Closing \cup {"exhausted"} => counted'[r] = "unset"
    <3>1. pc'[r] \notin Closing \cup {"exhausted"} =>
            pc[r] \notin Closing \cup {"exhausted"}
      BY <1>b, <1>c, EmittingIs DEF Closing
    <3> QED
      BY <1>3, <2>2, <3>1 DEF Loaded
  <2> QED
    BY <1>3, <1>b, <2>4, <2>5 DEF Loaded
<1>6. Orderly'
  <2>1. stale' = {}
    BY <1>2 DEF Record, Orderly, IInv, TypeOK, InFlight, Emitting, AfterEvent
  <2>2. \A q \in Requests : pc'[q] = "idle" => counted'[q] = "unset"
    BY <1>1, <1>b DEF Orderly, Record, IInv, TypeOK
  <2>3. \A p, q \in OpenItems' : p = q
    BY <1>1, <1>4 DEF Orderly
  <2>4. "review row" \notin pending'[r]
    <3>1. pending'[r] = FlushedAfter(pc[r])
      BY <1>b
    <3>2. "review row" \notin FlushedAfter(pc[r])
      BY DEF FlushedAfter
    <3> QED
      BY <3>1, <3>2
  <2> QED
    BY <1>2, <1>5, <2>1, <2>2, <2>3, <2>4 DEF Orderly
<1>7. failures' = 0 => Unfailed'
  <2> SUFFICES ASSUME failures = 0 PROVE Unfailed'
    BY <1>b
  <2>1. "completed" \notin pending[r]
    <3>1. pending[r] \subseteq Rows
      BY DEF IInv, TypeOK
    <3> QED
      BY <3>1 DEF Rows
  <2>2. \A q : Has(q, "completed")' <=> Has(q, "completed") \/ (q = r /\ pc[r] = "completed")
    BY <1>a, <2>1
  <2>3. Unended(r)
    BY <1>1 DEF Unfailed
  <2>4. Unended(r)'
    <3>1. seen'[r].count < MaxHintLevel
      BY <1>b, <2>3 DEF Unended
    <3>2. \A q \in Requests : Has(q, "completed")' => q = r /\ pc'[r] \in {"route", "routed", "save"}
      BY <1>b, <1>c, <2>2, <2>3, EmittingIs DEF Unended
    <3>3. pc'[r] = "save" => pc[r] = "routed"
      BY <1>b, <1>c, EmittingIs DEF Closing
    <3>4. pc[r] = "routed" => TargetState(r) \in Terminal /\ Has(r, "completed")
      BY <1>3, EndsAtTerminal DEF Behind
    <3>5. TargetState(r)' = TargetState(r)
      BY <1>b DEF TargetState, Exhausted, AttemptNumber
    <3> QED
      BY <2>2, <3>1, <3>2, <3>3, <3>4, <3>5 DEF Unended
  <2>5. \A p, q \in Requests : Has(p, "completed")' /\ Has(q, "completed")' => p = q
    BY <2>2, <2>3 DEF Unended
  <2> QED
    BY <1>b, <1>2, <2>4, <2>5 DEF Unfailed
<1> QED
  BY <1>6, <1>7

LEMMA SaveTurn ==
    ASSUME IInv, Orderly, failures = 0 => Unfailed, NEW r \in Requests, Save(r)
    PROVE  Orderly' /\ (failures' = 0 => Unfailed')
<1>1. pc[r] = "save" /\ r \in InFlight /\ Loaded(r) /\ pending[r] = {}
  BY DEF Save, InFlight, Orderly, IInv, Request, Flushed
<1>2. /\ durable' = durable /\ pc'[r] = "over" /\ reply'[r] = Answer(r)
      /\ \A q \in Requests \ {r} :
            pc'[q] = pc[q] /\ reply'[q] = reply[q] /\ counted'[q] = counted[q]
      /\ UNCHANGED <<resolved, stale, failures>>
  BY <1>1 DEF Save, IInv, TypeOK, Goto, emission
<1>3. \A q, x : Has(q, x)' <=> Has(q, x)
  BY <1>2, SameRecord
<1>4. InFlight' = {} /\ OpenItems' = OpenItems
  <2>1. \A q \in Requests \ {r} : pc[q] \in {"idle", "over"}
    BY <1>1 DEF Orderly, InFlight
  <2>2. \A q \in Requests : pc'[q] \in {"idle", "over"}
    BY <1>2, <2>1
  <2>3. InFlight' = {}
    BY <2>2 DEF InFlight
  <2>4. OpenItems' = OpenItems
    BY <1>2, <1>3 DEF OpenItems
  <2> QED
    BY <2>3, <2>4
<1>5. Orderly'
  BY <1>2, <1>4 DEF Orderly
<1>6. session'.state = TargetState(r) /\ session'.count = AttemptNumber(r)
  <2>1. session' = [state |-> IF TargetState(r) = seen[r].state
                              THEN session.state ELSE TargetState(r),
                    count |-> IF counted[r] = "committed"
                              THEN session.count ELSE AttemptNumber(r)]
    BY DEF Save
  <2> QED
    BY <1>1, <2>1 DEF Loaded, AttemptNumber
<1>7. failures' = 0 => Unfailed'
  <2> SUFFICES ASSUME failures = 0 PROVE Unfailed'
    BY <1>2
  <2>1. Unended(r) /\ Unfailed
    BY <1>1 DEF Unfailed
  <2>2. \A q \in Requests : reply'[q] # "error"
    <3>1. Answer(r) # "error"
      BY DEF Answer
    <3> QED
      BY <1>2, <2>1, <3>1 DEF Unfailed
  <2>3. session'.state \in Terminal <=> \E q \in Requests : Has(q, "completed")
    BY <1>1, <1>6, <2>1 DEF Unended
  <2>4. session'.count >= MaxHintLevel => session'.state \in Terminal
    BY <1>6 DEF TargetState, Terminal, Exhausted
  <2> QED
    BY <1>3, <1>4, <2>1, <2>2, <2>3, <2>4 DEF Unfailed
<1> QED
  BY <1>5, <1>7

-----------------------------------------------------------------------------
(* The specification, one request after the other *)

LEMMA InitInTurn == Init => InTurnInv
<1> SUFFICES ASSUME Init PROVE Orderly /\ Unfailed
  BY DEF InTurnInv
<1>1. session.state \notin Terminal /\ session.count \in Nat /\ session.count < MaxHintLevel
  BY SubmissionAssumption DEF Init, Terminal
<1>2. ~(session.count >= MaxHintLevel)
  BY <1>1, SubmissionAssumption
<1>3. InFlight = {} /\ OpenItems = {} /\ \A q, x : ~Has(q, x)
  BY DEF Init, InFlight, OpenItems, Has
<1> QED
  BY <1>1, <1>2, <1>3 DEF Init, Orderly, Unfailed

LEMMA NextInTurn == IInv /\ InTurnInv /\ [Next]_vars => InTurnInv'
<1> SUFFICES ASSUME IInv, InTurnInv, [Next]_vars, inTurn'
             PROVE  Orderly' /\ (failures' = 0 => Unfailed')
  BY DEF InTurnInv
<1>1. inTurn' = inTurn
  BY DEF Next, vars, setting, Arrive, Handle, Submit, SubmitFinished, SubmitPastLevels, Screen,
     RaiseAlert, CheckAnswer, Draft, CountAttempt, ReadSequence, Record, Refused, Route,
     RouteAmbiguous, Save, Fail, Resolve
<1>2. inTurn /\ Orderly /\ (failures = 0 => Unfailed)
  BY <1>1 DEF InTurnInv
<1>3. CASE UNCHANGED vars
  <2>1. UNCHANGED <<session, durable, resolved, stale, reply, failures, seen, counted, pending,
                    pc, outcome>>
    BY <1>3 DEF vars, setting, store, flight, emission
  <2>2. \A q, x : Has(q, x)' <=> Has(q, x)
    BY <2>1, SameRecord
  <2>3. InFlight' = InFlight /\ OpenItems' = OpenItems
    BY <2>1, <2>2 DEF InFlight, OpenItems
  <2>4. \A q : (Loaded(q)' <=> Loaded(q)) /\ (Unended(q)' <=> Unended(q))
    BY <2>1, <2>2 DEF Loaded, Unended, TargetState, Exhausted, AttemptNumber
  <2>5. Orderly'
    BY <1>2, <2>1, <2>3, <2>4 DEF Orderly
  <2>6. Unfailed' <=> Unfailed
    BY <2>1, <2>2, <2>3, <2>4 DEF Unfailed
  <2> QED
    BY <1>2, <2>1, <2>5, <2>6
<1>4. ASSUME NEW r \in Requests, Arrive(r) \/ Handle(r) \/ Fail(r) \/ Resolve(r)
      PROVE  Orderly' /\ (failures' = 0 => Unfailed')
  BY <1>2, <1>4, SubmitTurn, EarlyTurn, CountTurn, ReadSequenceTurn, RecordTurn, RouteTurn,
     SaveTurn, ResolveTurn, RefusalTurn DEF Arrive, Handle
<1> QED
  BY <1>3, <1>4 DEF Next

LEMMA BothInvariants == Spec => [](IInv /\ InTurnInv)
<1>1. Init => IInv /\ InTurnInv
  BY InitIInv, InitInTurn
<1>2. IInv /\ InTurnInv /\ [Next]_vars => (IInv /\ InTurnInv)'
  BY NextIInv, NextInTurn
<1> QED
  BY <1>1, <1>2, PTL DEF Spec

\* One submission after the other, whatever fails: a session has one queue item at a time
\* and its alerts on record; and unless a request failed, its timeline has one end, it is
\* finished exactly if it is there, and no submission ends in an error.
THEOREM SettledInTurn == Spec => []InTurnSettled
<1>1. IInv /\ InTurnInv => InTurnSettled
  <2> SUFFICES ASSUME IInv, InTurnInv, inTurn PROVE OneOpenItem /\ FinishesOnce /\ AlertsKept
    BY DEF InTurnSettled
  <2>1. Orderly /\ (failures = 0 => Unfailed)
    BY DEF InTurnInv
  <2>2. OneOpenItem
    BY <2>1, AtMostOne DEF OneOpenItem, Orderly
  <2>3. FinishesOnce
    <3> DEFINE Ended == {r \in Requests : Has(r, "completed")}
    <3> SUFFICES ASSUME Unfailed PROVE FinishesOnce
      BY <2>1 DEF FinishesOnce
    <3>1. Cardinality(Ended) <= 1
      <4>1. \A p, q \in Ended : p = q
        BY DEF Unfailed
      <4> QED
        BY <4>1, AtMostOne
    <3> QED
      BY <3>1 DEF FinishesOnce, Unfailed
  <2>4. AlertsKept
    <3> SUFFICES ASSUME NEW r \in Requests
                 PROVE  /\ r \in notified => Has(r, "flag")
                        /\ Has(r, "alert row") => r \in notified \/ Has(r, "undelivered")
                        /\ r \in notified /\ reply[r] \notin {"none", "error"} =>
                              Has(r, "alert row")
      BY DEF AlertsKept
    <3>1. AlertOf(r)
      BY DEF IInv, Request
    <3> QED
      BY <3>1 DEF AlertOf
  <2> QED
    BY <2>2, <2>3, <2>4
<1> QED
  BY <1>1, BothInvariants, PTL

\* In turn, a finished session stays as it is and attempts are counted one by one, whatever
\* fails between two commits.
THEOREM MovesOn == Spec => SessionMovesOn
<1>1. IInv /\ InTurnInv /\ [Next]_vars =>
        [inTurn =>
            /\ session.state \in Terminal => session' = session
            /\ session'.count \in {session.count, session.count + 1}]_session
  <2> SUFFICES ASSUME IInv, InTurnInv, [Next]_vars, inTurn, session' # session
               PROVE  /\ session.state \notin Terminal
                      /\ session'.count \in {session.count, session.count + 1}
    OBVIOUS
  <2>1. PICK r \in Requests : Record(r) \/ Save(r)
    BY DEF Next, vars, store, Arrive, Handle, Submit, SubmitFinished, SubmitPastLevels, Screen,
       RaiseAlert, CheckAnswer, Draft, CountAttempt, ReadSequence, Refused, Route,
       RouteAmbiguous, Fail, Resolve
  <2>2. r \in InFlight
    <3>1. CASE Record(r)
      BY <3>1, RecordMoves, EmittingIs DEF InFlight
    <3>2. CASE Save(r)
      BY <3>2 DEF Save, InFlight
    <3> QED
      BY <2>1, <3>1, <3>2
  <2>3. Loaded(r)
    BY <2>2 DEF InTurnInv, Orderly
  <2>4. session'.count = session.count \/ session'.count = AttemptNumber(r)
    <3>1. CASE Record(r)
      BY <3>1 DEF Record, IInv, TypeOK, Sessions
    <3>2. CASE Save(r)
      BY <3>2 DEF Save
    <3> QED
      BY <2>1, <3>1, <3>2
  <2>5. CASE counted[r] = "committed"
    BY <2>1, <2>3, <2>5 DEF Loaded, Record, Save
  <2>6. CASE counted[r] # "committed"
    BY <2>3, <2>4, <2>6 DEF Loaded, AttemptNumber
  <2> QED
    BY <2>3, <2>5, <2>6 DEF Loaded
<1> QED
  BY <1>1, BothInvariants, PTL DEF Spec, SessionMovesOn

=============================================================================
