------------------------------ MODULE PagesProofs ------------------------------
(***************************************************************************)
(* Proofs about two pages: the runs of RunsPage.tla, for any list of runs, *)
(* of any number of stages, and any number of fetches on their way; and    *)
(* the overview of ClassSummary.tla, for any class, callers and commits    *)
(* between its queries.                                                    *)
(***************************************************************************)
EXTENDS RunsPage, ClassSummary, SequenceTheorems, FiniteSetTheorems, TLAPS

-----------------------------------------------------------------------------
(* Sequences *)

LEMMA RemoveAtIs ==
    ASSUME NEW S, NEW s \in Seq(S), NEW i \in DOMAIN s
    PROVE  /\ RemoveAt(s, i) \in Seq(S)
           /\ Len(RemoveAt(s, i)) = Len(s) - 1
           /\ \A j \in 1..(Len(s) - 1) :
                RemoveAt(s, i)[j] = IF j < i THEN s[j] ELSE s[j + 1]
<1>1. i \in 1..Len(s) /\ Len(s) \in Nat
  OBVIOUS
<1> DEFINE front == SubSeq(s, 1, i - 1)
           back == SubSeq(s, i + 1, Len(s))
<1>2. front \in Seq(S) /\ Len(front) = i - 1 /\ \A j \in 1..(i - 1) : front[j] = s[j]
  BY <1>1
<1>3. back \in Seq(S) /\ Len(back) = Len(s) - i /\ \A j \in 1..(Len(s) - i) : back[j] = s[i + j]
  BY <1>1
<1>4. RemoveAt(s, i) = front \o back
  BY DEF RemoveAt
<1> HIDE DEF front, back
<1>5. front \o back \in Seq(S) /\ Len(front \o back) = Len(s) - 1
  BY <1>1, <1>2, <1>3
<1>6. ASSUME NEW j \in 1..(Len(s) - 1)
      PROVE  (front \o back)[j] = IF j < i THEN s[j] ELSE s[j + 1]
  <2>1. CASE j < i
    BY <1>1, <1>2, <1>3, <2>1
  <2>2. CASE ~(j < i)
    <3>1. (front \o back)[j] = back[j - (i - 1)]
      <4>1. j \in 1..(Len(front) + Len(back)) /\ ~(j <= Len(front))
        BY <1>1, <1>2, <1>3, <2>2
      <4>2. \A k \in 1..(Len(front) + Len(back)) :
                (front \o back)[k] = IF k <= Len(front) THEN front[k] ELSE back[k - Len(front)]
        BY <1>2, <1>3, ConcatProperties
      <4> QED
        BY <1>2, <4>1, <4>2
    <3>2. j - (i - 1) \in 1..(Len(s) - i)
      BY <1>1, <2>2
    <3>3. back[j - (i - 1)] = s[i + (j - (i - 1))]
      BY <1>3, <3>2
    <3> QED
      BY <1>1, <2>2, <3>1, <3>3
  <2> QED
    BY <2>1, <2>2
<1> QED
  BY <1>4, <1>5, <1>6

LEMMA AppendIs ==
    ASSUME NEW S, NEW s \in Seq(S), NEW e \in S
    PROVE  /\ Append(s, e) \in Seq(S) /\ Len(Append(s, e)) = Len(s) + 1
           /\ Append(s, e)[Len(s) + 1] = e
           /\ \A i \in 1..Len(s) : Append(s, e)[i] = s[i]
OBVIOUS

-----------------------------------------------------------------------------
(* The invariant *)

Fetches == [run : Runs, latest : BOOLEAN]

\* Of the fetches on their way only the last is of the run that was clicked last; as
\* long as replies come in order, it is the one to come last.
LatestIsLast ==
    /\ \A i \in DOMAIN fetches :
        fetches[i].latest => i = Len(fetches) /\ fetches[i].run = active
    /\ inOrder => \A i \in DOMAIN fetches : i = Len(fetches) => fetches[i].latest

\* What the run clicked last left on the page once it has been answered.
LatestAnswered == \A i \in DOMAIN fetches : ~fetches[i].latest
ButtonTrue == button # "none" => button = (IF playing THEN "Pause" ELSE "Play")
PageSettled ==
    ~adrift =>
        /\ LatestAnswered => ButtonTrue
        /\ inOrder /\ fetches = <<>> /\ shown # "error" => shown = active

IInv == TypeOK /\ OneHold /\ LatestIsLast /\ PageSettled

LEMMA IInvImplies == IInv => TypeOK /\ OneHold /\ PageTruthful
BY DEF IInv, PageSettled, PageTruthful, LatestAnswered, ButtonTrue

-----------------------------------------------------------------------------
(* Timers and what is drawn *)

LEMMA FreshIs ==
    ASSUME IInv
    PROVE  Fresh \in 1..3 /\ Fresh # 0
<1>1. \E id \in 1..3 : id \notin timers \cup {handle}
  <2>1. timers \cup {handle} \subseteq {handle}
    BY DEF IInv, OneHold
  <2>2. handle # 1 \/ handle # 2
    OBVIOUS
  <2> QED
    BY <2>1, <2>2
<1> QED
  BY <1>1 DEF Fresh

\* A redrawn button says what a click does.
LEMMA RedrawTrue ==
    ASSUME NEW where, Redraw(where), playing' \in BOOLEAN
    PROVE  ButtonTrue' /\ button' \in {"none", "Play", "Pause"}
BY DEF Redraw, Drawn, ButtonTrue

\* Whatever redraws and leaves the fetches alone keeps the page settled.
LEMMA RedrawSettles ==
    ASSUME IInv, UNCHANGED <<inOrder, fetches, active, shown, adrift>>, ButtonTrue'
    PROVE  LatestIsLast' /\ PageSettled'
BY DEF IInv, LatestIsLast, PageSettled

LEMMA ClearedIsEmpty ==
    ASSUME IInv
    PROVE  Cleared = {}
BY DEF IInv, OneHold, Cleared

-----------------------------------------------------------------------------
(* Each action keeps the invariant *)

LEMMA ClickPlayKeeps ==
    ASSUME IInv, ClickPlay
    PROVE  IInv'
<1>1. UNCHANGED <<role, inOrder, runs, active, fetches, shown, adrift>>
  BY DEF ClickPlay, login, detail
<1>2. Fresh \in 1..3 /\ Fresh # 0 /\ Cleared = {}
  BY FreshIs, ClearedIsEmpty
<1>3. \/ /\ timers' = {} /\ handle' = 0 /\ playing' = FALSE /\ tour' = tour
      \/ /\ timers' = {Fresh} /\ handle' = Fresh /\ playing' = TRUE
         /\ tour' = tour \/ tour' = [tour EXCEPT !.cursor = -1]
  BY <1>2 DEF ClickPlay, Stop, Play
<1>4. OneHold' /\ playing' \in BOOLEAN
  BY <1>2, <1>3 DEF OneHold
<1>5. tour' \in Tours /\ tour'.cursor \in -1..(tour'.stages - 1)
  BY <1>3 DEF IInv, TypeOK, Tours
<1>6. ButtonTrue' /\ button' \in {"none", "Play", "Pause"}
  BY <1>4, RedrawTrue DEF ClickPlay
<1>7. TypeOK'
  <2>1. timers' \subseteq 1..3
    BY <1>2, <1>3
  <2>2. handle' \in 0..3
    <3>1. handle' = 0 \/ handle' = Fresh
      BY <1>3
    <3> QED
      BY <1>2, <3>1
  <2> QED
    BY <1>1, <1>4, <1>5, <1>6, <2>1, <2>2 DEF IInv, TypeOK
<1> QED
  BY <1>1, <1>4, <1>6, <1>7, RedrawSettles DEF IInv

LEMMA ManualKeeps ==
    ASSUME IInv, Manual
    PROVE  IInv'
<1>1. PICK to : ClickStep(to) /\ to \in -1..(tour.stages - 1)
  BY DEF Manual, AtEnd, IInv, TypeOK, Tours
<1>2. UNCHANGED <<role, inOrder, runs, active, fetches, shown, adrift>>
  BY <1>1 DEF ClickStep, login, detail
<1>3. timers' = {} /\ handle' = 0 /\ playing' = FALSE /\ tour' = [tour EXCEPT !.cursor = to]
  BY <1>1, ClearedIsEmpty DEF ClickStep, Stop
<1>4. tour' \in Tours /\ tour'.cursor \in -1..(tour'.stages - 1)
  BY <1>1, <1>3 DEF IInv, TypeOK, Tours
<1>5. ButtonTrue' /\ button' \in {"none", "Play", "Pause"}
  BY <1>1, <1>3, RedrawTrue DEF ClickStep
<1>6. TypeOK' /\ OneHold'
  <2>1. OneHold'
    BY <1>3 DEF OneHold
  <2>2. timers' \subseteq 1..3
    BY <1>3
  <2>3. handle' \in 0..3
    BY <1>3
  <2> QED
    BY <1>2, <1>3, <1>4, <1>5, <2>1, <2>2, <2>3 DEF IInv, TypeOK
<1> QED
  BY <1>2, <1>5, <1>6, RedrawSettles DEF IInv

LEMMA TickKeeps ==
    ASSUME IInv, NEW id \in timers, Tick(id)
    PROVE  IInv'
<1>1. UNCHANGED <<role, inOrder, runs, active, fetches, shown, adrift>>
  BY DEF Tick, login, detail
<1>2. timers = {id} /\ Fresh \in 1..3 /\ Fresh # 0 /\ playing
  BY FreshIs DEF IInv, OneHold
<1>3. \/ /\ timers' = {} /\ handle' = 0 /\ playing' = FALSE /\ tour' = tour
      \/ /\ timers' = {Fresh} /\ handle' = Fresh /\ playing' = playing
         /\ ~AtEnd(tour) /\ tour' = [tour EXCEPT !.cursor = @ + 1]
  BY <1>2 DEF Tick, Ended, NothingToStep
<1>4. OneHold' /\ playing' \in BOOLEAN
  BY <1>2, <1>3 DEF OneHold
<1>5. tour' \in Tours /\ tour'.cursor \in -1..(tour'.stages - 1)
  BY <1>3 DEF IInv, TypeOK, Tours, AtEnd
<1>6. ButtonTrue' /\ button' \in {"none", "Play", "Pause"}
  BY <1>4, RedrawTrue DEF Tick, Ended
<1>7. TypeOK'
  <2>1. timers' \subseteq 1..3
    BY <1>2, <1>3
  <2>2. handle' \in 0..3
    <3>1. handle' = 0 \/ handle' = Fresh
      BY <1>3
    <3> QED
      BY <1>2, <3>1
  <2> QED
    BY <1>1, <1>4, <1>5, <1>6, <2>1, <2>2 DEF IInv, TypeOK
<1> QED
  BY <1>1, <1>4, <1>6, <1>7, RedrawSettles DEF IInv

LEMMA ShowRunKeeps ==
    ASSUME IInv, NEW r \in Runs, ShowRun(r)
    PROVE  IInv'
<1> DEFINE old == [i \in DOMAIN fetches |-> [fetches[i] EXCEPT !.latest = FALSE]]
           e == [run |-> r, latest |-> TRUE]
<1>1. /\ UNCHANGED <<role, inOrder, runs, shown, adrift, tour, button>>
      /\ active' = r /\ fetches' = Append(old, e) /\ Len(fetches) < MaxFetches
      /\ timers' = {} /\ handle' = 0 /\ playing' = FALSE
  BY ClearedIsEmpty DEF ShowRun, login, Stop, Asked
<1>2. fetches \in Seq(Fetches)
  BY DEF IInv, TypeOK, Fetches
<1>3. old \in Seq(Fetches) /\ Len(old) = Len(fetches) /\ \A i \in DOMAIN fetches : ~old[i].latest
  <2>1. \A i \in 1..Len(fetches) : fetches[i] \in Fetches
    BY <1>2
  <2>2. \A i \in 1..Len(fetches) : [fetches[i] EXCEPT !.latest = FALSE] \in Fetches
                                   /\ [fetches[i] EXCEPT !.latest = FALSE].latest = FALSE
    BY <2>1 DEF Fetches
  <2>3. old = [i \in 1..Len(fetches) |-> [fetches[i] EXCEPT !.latest = FALSE]]
    BY <1>2
  <2>4. old \in [1..Len(fetches) -> Fetches] /\ Len(fetches) \in Nat
    BY <1>2, <2>2, <2>3
  <2>5. old \in Seq(Fetches) /\ Len(old) = Len(fetches)
    <3>1. old \in Seq(Fetches)
      BY <2>4
    <3> HIDE DEF old
    <3>2. DOMAIN old = 1..Len(fetches) /\ DOMAIN old = 1..Len(old) /\ Len(old) \in Nat
      BY <2>4, <3>1
    <3> QED
      BY <2>4, <3>1, <3>2
  <2> QED
    BY <1>2, <2>2, <2>3, <2>5
<1>4. e \in Fetches /\ e.latest = TRUE /\ e.run = r
  BY DEF Fetches
<1> HIDE DEF old, e
<1>5. /\ fetches' \in Seq(Fetches) /\ Len(fetches') = Len(fetches) + 1
      /\ fetches'[Len(fetches) + 1] = e
      /\ \A i \in 1..Len(fetches) : fetches'[i] = old[i]
  BY <1>1, <1>2, <1>3, <1>4, AppendIs
<1>6. Len(fetches) \in Nat /\ DOMAIN fetches' = 1..(Len(fetches) + 1)
  BY <1>2, <1>5
<1>7. LatestIsLast'
  <2>1. ASSUME NEW i \in DOMAIN fetches', fetches'[i].latest
        PROVE  i = Len(fetches') /\ fetches'[i].run = active'
    <3>1. CASE i \in 1..Len(fetches)
      BY <1>2, <1>3, <1>5, <2>1, <3>1
    <3>2. CASE i = Len(fetches) + 1
      BY <1>1, <1>4, <1>5, <3>2
    <3> QED
      BY <1>6, <3>1, <3>2
  <2>2. \A i \in DOMAIN fetches' : i = Len(fetches') => fetches'[i].latest
    BY <1>4, <1>5
  <2> QED
    BY <2>1, <2>2 DEF LatestIsLast
<1>8. PageSettled'
  <2>1. fetches' # <<>>
    BY <1>5, <1>6
  <2>2. ~LatestAnswered'
    <3>1. Len(fetches) + 1 \in DOMAIN fetches'
      BY <1>6
    <3> QED
      BY <1>4, <1>5, <3>1 DEF LatestAnswered
  <2> QED
    BY <2>1, <2>2 DEF PageSettled
<1>9. TypeOK'
  <2>1. Len(fetches') <= MaxFetches
    BY <1>1, <1>5, <1>6, PageAssumption
  <2>2. timers' \subseteq 1..3
    BY <1>1
  <2>3. handle' \in 0..3
    BY <1>1
  <2> QED
    BY <1>1, <1>5, <2>1, <2>2, <2>3 DEF IInv, TypeOK, Fetches
<1>10. OneHold'
  BY <1>1 DEF OneHold
<1> QED
  BY <1>7, <1>8, <1>9, <1>10 DEF IInv

\* A reply takes its fetch away and leaves the others in their places.
LEMMA ReplyKeeps ==
    ASSUME IInv, NEW i \in DOMAIN fetches, Reply(i)
    PROVE  /\ LatestIsLast' /\ OneHold'
           /\ fetches' \in Seq(Fetches) /\ Len(fetches') <= MaxFetches
           /\ LatestAnswered' => LatestAnswered \/ fetches[i].latest
           /\ inOrder /\ fetches' = <<>> => fetches[i].latest /\ fetches[i].run = active
<1>1. /\ fetches' = RemoveAt(fetches, i) /\ (inOrder => i = 1)
      /\ UNCHANGED <<role, inOrder, runs, active, timers, handle, playing>>
  BY DEF Reply, login
<1>2. fetches \in Seq(Fetches) /\ Len(fetches) <= MaxFetches
  BY DEF IInv, TypeOK, Fetches
<1>3. /\ fetches' \in Seq(Fetches) /\ Len(fetches') = Len(fetches) - 1
      /\ \A j \in 1..(Len(fetches) - 1) :
            fetches'[j] = IF j < i THEN fetches[j] ELSE fetches[j + 1]
  BY <1>1, <1>2, RemoveAtIs
<1>4. i \in 1..Len(fetches) /\ Len(fetches) \in Nat /\ DOMAIN fetches' = 1..(Len(fetches) - 1)
      /\ DOMAIN fetches = 1..Len(fetches)
  BY <1>2, <1>3
<1>5. LatestIsLast
  BY DEF IInv
<1>6. ASSUME NEW j \in DOMAIN fetches', fetches'[j].latest
      PROVE  j = Len(fetches') /\ fetches'[j].run = active'
  <2>1. CASE j < i
    <3>1. fetches[j].latest /\ j \in DOMAIN fetches
      BY <1>3, <1>4, <1>6, <2>1
    <3>2. j = Len(fetches)
      BY <1>5, <3>1 DEF LatestIsLast
    <3>3. ~(j < i)
      BY <1>4, <3>2
    <3> QED
      BY <2>1, <3>3
  <2>2. CASE ~(j < i)
    <3>1. fetches[j + 1].latest /\ j + 1 \in DOMAIN fetches /\ fetches'[j] = fetches[j + 1]
      BY <1>3, <1>4, <1>6, <2>2
    <3>2. j + 1 = Len(fetches) /\ fetches[j + 1].run = active
      BY <1>5, <3>1 DEF LatestIsLast
    <3> QED
      BY <1>1, <1>3, <1>4, <3>1, <3>2
  <2> QED
    BY <2>1, <2>2
<1>7. ASSUME inOrder, NEW j \in DOMAIN fetches', j = Len(fetches')
      PROVE  fetches'[j].latest
  <2>1. i = 1 /\ fetches'[j] = fetches[j + 1] /\ j + 1 = Len(fetches) /\ j + 1 \in DOMAIN fetches
    BY <1>1, <1>3, <1>4, <1>7
  <2> QED
    BY <1>5, <1>7, <2>1 DEF LatestIsLast
<1>8. LatestIsLast'
  BY <1>1, <1>6, <1>7 DEF LatestIsLast
<1>9. ASSUME LatestAnswered', ~fetches[i].latest, NEW j \in DOMAIN fetches, fetches[j].latest
      PROVE  FALSE
  <2>1. j = Len(fetches) /\ j # i
    BY <1>5, <1>9 DEF LatestIsLast
  <2>2. j - 1 \in DOMAIN fetches' /\ fetches'[j - 1] = fetches[j]
    BY <1>3, <1>4, <2>1
  <2> QED
    BY <1>9, <2>2 DEF LatestAnswered
<1>10. ASSUME inOrder, fetches' = <<>>
       PROVE  fetches[i].latest /\ fetches[i].run = active
  <2>1. Len(fetches) = 1 /\ i = 1
    BY <1>1, <1>3, <1>4, <1>10
  <2> QED
    BY <1>5, <1>10, <2>1 DEF LatestIsLast
<1>11. OneHold'
  BY <1>1 DEF IInv, OneHold
<1>12. Len(fetches') <= MaxFetches
  BY <1>2, <1>3, <1>4, PageAssumption
<1> QED
  BY <1>3, <1>8, <1>9, <1>10, <1>11, <1>12 DEF LatestAnswered

LEMMA TraceArrivesKeeps ==
    ASSUME IInv, NEW i \in DOMAIN fetches, NEW n \in 0..MaxStages, TraceArrives(i, n)
    PROVE  IInv'
<1>1. /\ LatestIsLast' /\ OneHold'
      /\ fetches' \in Seq(Fetches) /\ Len(fetches') <= MaxFetches
      /\ inOrder /\ fetches' = <<>> => fetches[i].latest /\ fetches[i].run = active
  BY ReplyKeeps DEF TraceArrives
<1>2. /\ UNCHANGED <<role, inOrder, runs, active, timers, handle, playing>>
      /\ shown' = fetches[i].run /\ tour' = [stages |-> n, cursor |-> -1]
      /\ adrift' = (adrift /\ ~fetches[i].latest)
  BY DEF TraceArrives, Reply, login
<1>3. fetches[i] \in Fetches
  <2>1. fetches \in Seq(Fetches)
    BY DEF IInv, TypeOK, Fetches
  <2> QED
    BY <2>1
<1>4. ButtonTrue' /\ button' \in {"none", "Play", "Pause"}
  BY <1>2, RedrawTrue DEF TraceArrives, IInv, TypeOK
<1>5. TypeOK'
  <2>1. shown' \in Runs /\ adrift' \in BOOLEAN
    BY <1>2, <1>3 DEF Fetches, IInv, TypeOK
  <2>2. tour' \in Tours /\ tour'.cursor \in -1..(tour'.stages - 1)
    BY <1>2, PageAssumption DEF Tours
  <2> QED
    BY <1>1, <1>2, <1>4, <2>1, <2>2 DEF IInv, TypeOK, Fetches
<1>6. PageSettled'
  BY <1>1, <1>2, <1>4 DEF PageSettled
<1> QED
  BY <1>1, <1>5, <1>6 DEF IInv

LEMMA NoTraceKeeps ==
    ASSUME IInv, NEW i \in DOMAIN fetches, TraceRefused(i) \/ FetchRejected(i)
    PROVE  IInv'
<1>1. /\ LatestIsLast' /\ OneHold'
      /\ fetches' \in Seq(Fetches) /\ Len(fetches') <= MaxFetches
      /\ LatestAnswered' => LatestAnswered \/ fetches[i].latest
      /\ inOrder /\ fetches' = <<>> => fetches[i].latest /\ fetches[i].run = active
  BY ReplyKeeps DEF TraceRefused, FetchRejected
<1>2. /\ UNCHANGED <<role, inOrder, runs, active, timers, handle, playing, tour>>
      /\ \/ shown' = "error" /\ button' = "none" /\ adrift' = (adrift /\ ~fetches[i].latest)
         \/ UNCHANGED <<shown, button>> /\ adrift' = (adrift \/ fetches[i].latest)
  BY DEF TraceRefused, FetchRejected, Reply, login
<1>3. fetches[i] \in Fetches
  <2>1. fetches \in Seq(Fetches)
    BY DEF IInv, TypeOK, Fetches
  <2> QED
    BY <2>1
<1>4. TypeOK'
  <2>1. adrift' \in BOOLEAN
    BY <1>2, <1>3 DEF Fetches, IInv, TypeOK
  <2> QED
    BY <1>1, <1>2, <2>1 DEF IInv, TypeOK, Fetches
<1>5. PageSettled'
  <2>1. CASE shown' = "error" /\ button' = "none"
    BY <2>1 DEF PageSettled, ButtonTrue
  <2>2. CASE UNCHANGED <<shown, button>> /\ adrift' = (adrift \/ fetches[i].latest)
    <3> SUFFICES ASSUME ~adrift' PROVE PageSettled'
      BY DEF PageSettled
    <3>1. ~adrift /\ ~fetches[i].latest
      BY <2>2
    <3>2. LatestAnswered' => ButtonTrue'
      BY <1>1, <1>2, <2>2, <3>1 DEF IInv, PageSettled, ButtonTrue
    <3>3. ~(inOrder' /\ fetches' = <<>>)
      BY <1>1, <1>2, <3>1
    <3> QED
      BY <3>2, <3>3 DEF PageSettled
  <2> QED
    BY <1>2, <2>1, <2>2
<1> QED
  BY <1>1, <1>4, <1>5 DEF IInv

-----------------------------------------------------------------------------
(* The specification keeps the invariant *)

LEMMA InitIInv == Init => IInv
<1> SUFFICES ASSUME Init PROVE IInv
  OBVIOUS
<1>1. fetches = <<>> /\ Len(fetches) = 0 /\ DOMAIN fetches = {}
  BY DEF Init
<1>2. TypeOK
  <2>1. fetches \in Seq([run : Runs, latest : BOOLEAN]) /\ Len(fetches) <= MaxFetches
    BY <1>1, PageAssumption
  <2>2. tour \in Tours /\ tour.cursor \in -1..(tour.stages - 1)
    BY PageAssumption DEF Init, NoTour, Tours
  <2>3. timers \subseteq 1..3 /\ handle \in 0..3
    BY DEF Init
  <2> QED
    BY <2>1, <2>2, <2>3 DEF Init, TypeOK
<1>3. OneHold /\ LatestIsLast /\ PageSettled
  BY <1>1 DEF Init, OneHold, LatestIsLast, PageSettled, ButtonTrue
<1> QED
  BY <1>2, <1>3 DEF IInv

LEMMA NextIInv == IInv /\ [Next]_vars => IInv'
<1> SUFFICES ASSUME IInv, [Next]_vars PROVE IInv'
  OBVIOUS
<1>1. CASE UNCHANGED vars \/ LoadRuns
  <2>1. UNCHANGED <<role, inOrder, active, fetches, shown, adrift, tour, timers, handle, playing,
                    button>>
        /\ runs' \subseteq Runs
    BY <1>1 DEF vars, login, detail, playback, LoadRuns, IInv, TypeOK
  <2> QED
    BY <2>1 DEF IInv, TypeOK, OneHold, LatestIsLast, PageSettled, LatestAnswered, ButtonTrue
<1>2. CASE Click
  BY <1>2, ClickPlayKeeps, ManualKeeps DEF Click
<1>3. CASE Arrive
  BY <1>3, TraceArrivesKeeps, NoTraceKeeps DEF Arrive
<1>4. CASE \E r \in Runs : ShowRun(r)
  BY <1>4, ShowRunKeeps
<1>5. CASE \E id \in timers : Tick(id)
  BY <1>5, TickKeeps
<1> QED
  BY <1>1, <1>2, <1>3, <1>4, <1>5 DEF Next

LEMMA Invariant == Spec => []IInv
BY InitIInv, NextIInv, PTL DEF Spec

\* Every variable keeps to its kind, and the cursor stays on the tour although a reply
\* may replace the tour while it plays.
THEOREM TypeCorrect == Spec => []TypeOK
BY IInvImplies, Invariant, PTL

\* There is one pending hold at most, the one the handle clears, over clicks, replies and
\* timers in any order (runs_page.py:261-262).
THEOREM OneHoldEver == Spec => []OneHold
BY IInvImplies, Invariant, PTL

\* Once the run clicked last has been answered, the button says what a click does, and if
\* replies come in order the run that is highlighted is the one that is shown.
THEOREM PageIsTruthful == Spec => []PageTruthful
BY IInvImplies, Invariant, PTL

-----------------------------------------------------------------------------
(* The overview of a class *)

InRecord == {a \in Attempts : attempt[a] # "none"}
Places == {"idle", "sessions", "attempts", "scores", "diagnoses", "items", "done",
           "refused"}
Pages == [at : Places, visible : SUBSET Students, sessions : SUBSET Sessions,
          attempts : SUBSET Attempts, right : SUBSET Attempts,
          wrong : SUBSET Attempts,
          diagnoses : SUBSET (Attempts \X Diagnosed), open : SUBSET Sessions]
ClassTyped ==
    /\ attempt \in [Attempts -> {"none", "ungraded"} \cup Graded]
    /\ IsFiniteSet(InRecord)
    /\ opened \subseteq Sessions /\ page \in Pages

\* What a query has read stays true of the record: an attempt stays in it, what was
\* judged wrong stays wrong, and a diagnosis is not taken back.
ReadAttemptsOf(at) == at \in {"scores", "diagnoses", "items", "done"} /\ page.visible # {}
StillTrue ==
    /\ began \subseteq InRecord
    /\ \A a \in page.wrong : attempt[a] \in Graded \ {"right"}
    /\ \A d \in page.diagnoses : attempt[d[1]] = d[2]
    /\ ReadAttemptsOf(page.at) =>
        \A a \in began : a[1] \in page.sessions => a \in page.attempts

ClassInv == ClassTyped /\ StillTrue

\* The record moves on.
Onwards ==
    /\ attempt' \in [Attempts -> {"none", "ungraded"} \cup Graded]
    /\ InRecord \subseteq InRecord' /\ IsFiniteSet(InRecord')
    /\ \A a \in Attempts :
        /\ attempt[a] \in Graded \ {"right"} =>
            attempt'[a] \in Graded \ {"right"}
        /\ attempt[a] \in Diagnosed => attempt'[a] = attempt[a]

LEMMA AttemptMoves ==
    ASSUME SummaryAssumption, ClassTyped, NEW a \in Attempts,
           Answer(a) \/ Grade(a) \/ Diagnose(a)
    PROVE  Onwards
<1> USE DEF Graded, Diagnosed
<1>1. Labels \cap {"none", "ungraded", "right", "wrong", "unknown"} = {}
  BY DEF SummaryAssumption
<1>2. PICK v : /\ attempt' = [attempt EXCEPT ![a] = v]
               /\ v \in {"ungraded"} \cup Graded
               /\ \/ attempt[a] = "none" /\ v = "ungraded"
                  \/ attempt[a] = "ungraded" /\ v \in {"right", "wrong"}
                  \/ attempt[a] = "wrong" /\ v \in Diagnosed
  <2>1. CASE Answer(a)
    BY <2>1 DEF Answer
  <2>2. CASE Grade(a)
    BY <2>2 DEF Grade
  <2>3. CASE Diagnose(a)
    BY <2>3 DEF Diagnose
  <2> QED
    BY <2>1, <2>2, <2>3
<1>3. /\ attempt' \in [Attempts -> {"none", "ungraded"} \cup Graded]
      /\ \A x \in Attempts : attempt'[x] = IF x = a THEN v ELSE attempt[x]
  BY <1>2 DEF ClassTyped
<1>4. v # "none"
  BY <1>1, <1>2
<1>5. InRecord \subseteq InRecord'
  BY <1>3, <1>4 DEF InRecord
<1>6. IsFiniteSet(InRecord')
  <2>1. InRecord' = InRecord \cup {a}
    BY <1>3, <1>4 DEF InRecord
  <2>2. IsFiniteSet(InRecord \cup {a})
    BY FS_AddElement DEF ClassTyped
  <2> QED
    BY <2>1, <2>2
<1>7. ASSUME NEW x \in Attempts
      PROVE  /\ attempt[x] \in Graded \ {"right"} =>
                  attempt'[x] \in Graded \ {"right"}
             /\ attempt[x] \in Diagnosed => attempt'[x] = attempt[x]
  <2>1. CASE x # a
    BY <1>3, <2>1
  <2>2. CASE x = a
    BY <1>1, <1>2, <1>3, <2>2
  <2> QED
    BY <2>1, <2>2
<1> QED
  BY <1>3, <1>5, <1>6, <1>7 DEF Onwards

\* A commit leaves what was read true.
LEMMA CommitKeeps ==
    ASSUME ClassInv, Onwards, opened' \subseteq Sessions, UNCHANGED <<page, began>>
    PROVE  ClassInv'
<1>1. ClassTyped'
  BY DEF ClassInv, ClassTyped, Onwards, Pages
<1>2. page.wrong \subseteq Attempts
      /\ page.diagnoses \subseteq Attempts \X Diagnosed
  BY DEF ClassInv, ClassTyped, Pages
<1>3. began' \subseteq InRecord'
  BY DEF ClassInv, StillTrue, Onwards
<1>4. \A a \in page.wrong : attempt'[a] \in Graded \ {"right"}
  BY <1>2 DEF ClassInv, StillTrue, Onwards
<1>5. ASSUME NEW d \in page.diagnoses PROVE attempt'[d[1]] = d[2]
  <2>1. d[1] \in Attempts /\ d[2] \in Diagnosed /\ attempt[d[1]] = d[2]
    BY <1>2 DEF ClassInv, StillTrue
  <2> QED
    BY <2>1 DEF Onwards
<1>6. StillTrue'
  BY <1>3, <1>4, <1>5 DEF ClassInv, StillTrue, ReadAttemptsOf
<1> QED
  BY <1>1, <1>6 DEF ClassInv

\* A query reads what is so.
LEMMA QueryKeeps ==
    ASSUME ClassInv, Read
    PROVE  ClassInv'
<1> USE DEF ClassInv, ClassTyped, StillTrue, InRecord, ReadAttemptsOf
<1>1. CASE Refuse
  <2>1. page' = [page EXCEPT !.at = "refused"] /\ UNCHANGED <<opened, attempt, began>>
    BY <1>1 DEF Refuse, Query, record
  <2> QED
    BY <2>1 DEF Pages, Places
<1>2. CASE ReadStudents
  <2> DEFINE visible == {student \in Students : CanReadStudent(student)}
  <2>1. /\ page' = [page EXCEPT !.visible = visible,
                               !.at = IF visible = {} THEN "done" ELSE "sessions"]
        /\ began' = InRecord /\ UNCHANGED <<opened, attempt>>
    BY <1>2 DEF ReadStudents, record
  <2>2. visible \subseteq Students
    OBVIOUS
  <2> HIDE DEF visible
  <2>3. page' \in Pages /\ page'.visible = visible
        /\ page'.at = (IF visible = {} THEN "done" ELSE "sessions")
        /\ page'.wrong = page.wrong /\ page'.diagnoses = page.diagnoses
    BY <2>1, <2>2 DEF Pages, Places
  <2> QED
    BY <2>1, <2>3
<1>3. CASE ReadSessions
  <2> DEFINE read == {s \in opened : StudentOf[s] \in page.visible}
  <2>1. /\ page' = [page EXCEPT !.sessions = read, !.at = "attempts"]
        /\ UNCHANGED <<opened, attempt, began>>
    BY <1>3 DEF ReadSessions, Query, record
  <2>2. read \subseteq Sessions
    OBVIOUS
  <2> HIDE DEF read
  <2>3. page' \in Pages /\ page'.at = "attempts"
        /\ page'.wrong = page.wrong /\ page'.diagnoses = page.diagnoses
    BY <2>1, <2>2 DEF Pages, Places
  <2> QED
    BY <2>1, <2>3
<1>4. CASE ReadAttempts
  <2> DEFINE read == {a \in Attempts : a[1] \in page.sessions /\ attempt[a] # "none"}
  <2>1. /\ page' = [page EXCEPT !.attempts = read, !.at = "scores"]
        /\ UNCHANGED <<opened, attempt, began>>
    BY <1>4 DEF ReadAttempts, Query, record
  <2>2. \A a \in began : a[1] \in page.sessions => a \in read
    OBVIOUS
  <2>3. read \subseteq Attempts
    OBVIOUS
  <2> HIDE DEF read
  <2>4. page' \in Pages /\ page'.attempts = read /\ page'.sessions = page.sessions
        /\ page'.wrong = page.wrong /\ page'.diagnoses = page.diagnoses
    BY <2>1, <2>3 DEF Pages, Places
  <2> QED
    BY <2>1, <2>2, <2>4
<1>5. CASE ReadScores
  <2> DEFINE right == {a \in page.attempts : attempt[a] = "right"}
             wrong == {a \in page.attempts : attempt[a] \in Graded \ {"right"}}
  <2>1. /\ page' = [page EXCEPT !.right = right, !.wrong = wrong, !.at = "diagnoses"]
        /\ UNCHANGED <<opened, attempt, began>> /\ page.at = "scores"
    BY <1>5 DEF ReadScores, Query, record
  <2>2. \A a \in wrong : attempt[a] \in Graded \ {"right"}
    OBVIOUS
  <2>3. right \subseteq Attempts /\ wrong \subseteq Attempts
    BY DEF Pages
  <2> HIDE DEF right, wrong
  <2>4. page' \in Pages /\ page'.wrong = wrong /\ page'.sessions = page.sessions
        /\ page'.attempts = page.attempts /\ page'.diagnoses = page.diagnoses
        /\ page'.visible = page.visible
    BY <2>1, <2>3 DEF Pages, Places
  <2> QED
    BY <2>1, <2>2, <2>4
<1>6. CASE ReadDiagnoses
  <2> DEFINE read == {<<a, attempt[a]>> :
                        a \in {x \in page.attempts : attempt[x] \in Diagnosed}}
  <2>1. /\ page' = [page EXCEPT !.diagnoses = read, !.at = "items"]
        /\ UNCHANGED <<opened, attempt, began>> /\ page.at = "diagnoses"
    BY <1>6 DEF ReadDiagnoses, Query, record
  <2>2. \A d \in read : attempt[d[1]] = d[2]
    OBVIOUS
  <2>3. read \subseteq Attempts \X Diagnosed
    BY DEF Pages
  <2> HIDE DEF read
  <2>4. page' \in Pages /\ page'.diagnoses = read /\ page'.sessions = page.sessions
        /\ page'.attempts = page.attempts /\ page'.wrong = page.wrong
        /\ page'.visible = page.visible
    BY <2>1, <2>3 DEF Pages, Places
  <2> QED
    BY <2>1, <2>2, <2>4
<1>7. CASE ReadItems
  <2> DEFINE read == items \cap page.sessions
  <2>1. /\ page' = [page EXCEPT !.open = read, !.at = "done"]
        /\ UNCHANGED <<opened, attempt, began>> /\ page.at = "items"
    BY <1>7 DEF ReadItems, Query, record, OpenItems
  <2>2. read \subseteq Sessions
    BY DEF Pages
  <2> HIDE DEF read
  <2>3. page' \in Pages /\ page'.diagnoses = page.diagnoses
        /\ page'.sessions = page.sessions /\ page'.attempts = page.attempts
        /\ page'.wrong = page.wrong /\ page'.visible = page.visible
    BY <2>1, <2>2 DEF Pages, Places
  <2> QED
    BY <2>1, <2>3
<1> QED
  BY <1>1, <1>2, <1>3, <1>4, <1>5, <1>6, <1>7 DEF Read

LEMMA InitClass == ClassInit => ClassInv
<1> SUFFICES ASSUME ClassInit PROVE ClassInv
  OBVIOUS
<1>1. page = Nothing /\ began = {} /\ attempt = [a \in Attempts |-> "none"]
  BY DEF ClassInit
<1>2. page \in Pages
  BY <1>1 DEF Nothing, Pages, Places
<1>3. InRecord = {}
  BY <1>1 DEF InRecord
<1>4. IsFiniteSet(InRecord)
  BY <1>3, FS_EmptySet
<1>5. page.wrong = {} /\ page.diagnoses = {}
  BY <1>1 DEF Nothing
<1>6. opened = {} /\ page.at = "idle"
  BY <1>1 DEF ClassInit, Nothing
<1>7. attempt \in [Attempts -> {"none", "ungraded"} \cup Graded]
  BY <1>1
<1>8. ClassTyped
  BY <1>2, <1>4, <1>6, <1>7 DEF ClassTyped
<1>9. StillTrue
  BY <1>1, <1>5, <1>6 DEF StillTrue, ReadAttemptsOf
<1> QED
  BY <1>8, <1>9 DEF ClassInv

LEMMA StaysOnwards ==
    ASSUME ClassTyped, UNCHANGED attempt
    PROVE  Onwards
BY DEF ClassTyped, Onwards, InRecord

LEMMA CommitMoves ==
    ASSUME SummaryAssumption, ClassInv, Commit
    PROVE  Onwards
<1>1. CASE \E a \in Attempts : Answer(a) \/ Grade(a) \/ Diagnose(a)
  BY <1>1, AttemptMoves DEF ClassInv
<1>2. CASE UNCHANGED attempt
  BY <1>2, StaysOnwards DEF ClassInv
<1> QED
  BY <1>1, <1>2 DEF Commit, OpenSession, Route, Resolve

LEMMA StepClass ==
    ASSUME SummaryAssumption
    PROVE  ClassInv /\ [ClassNext]_overview => ClassInv'
<1> SUFFICES ASSUME ClassInv, [ClassNext]_overview PROVE ClassInv'
  OBVIOUS
<1>1. ASSUME UNCHANGED attempt PROVE Onwards
  BY <1>1, StaysOnwards DEF ClassInv
<1>2. CASE Commit
  <2>1. Onwards
    BY <1>2, CommitMoves
  <2>2. opened' \subseteq Sessions /\ UNCHANGED <<page, began>>
    BY <1>2 DEF Commit, OpenSession, Route, Resolve, Answer,
                Grade, Diagnose, reading, ClassInv, ClassTyped
  <2> QED
    BY <2>1, <2>2, CommitKeeps
<1>3. CASE Read
  BY <1>3, QueryKeeps
<1>4. CASE UNCHANGED overview
  <2>1. UNCHANGED <<opened, attempt, page, began>>
    BY <1>4 DEF overview, record, reading
  <2> QED
    BY <1>1, <2>1, CommitKeeps DEF ClassInv, ClassTyped
<1> QED
  BY <1>2, <1>3, <1>4 DEF ClassNext

LEMMA ClassInvariant ==
    ASSUME SummaryAssumption
    PROVE  ClassSpec => []ClassInv
BY InitClass, StepClass, PTL DEF ClassSpec

\* The diagnoses read under a label are as many attempts of that child, each still
\* diagnosed with it.
LEMMA CountedDiagnosed ==
    ASSUME SummaryAssumption, ClassInv, NEW student, NEW label \in Labels
    PROVE  /\ TagCount(student, label) \in Nat
           /\ Cardinality({a \in Of(student, Attempts) : attempt[a] = label})
                \in Nat
           /\ TagCount(student, label)
                <= Cardinality({a \in Of(student, Attempts) : attempt[a] = label})
<1> DEFINE D == {d \in page.diagnoses : Owner(d[1]) = student /\ d[2] = label}
           A == {a \in Of(student, Attempts) : attempt[a] = label}
           f == [d \in D |-> d[1]]
<1>1. D \subseteq Attempts \X {label}
  BY DEF ClassInv, ClassTyped, Pages
<1>2. \A d \in D : d[1] \in A
  BY DEF ClassInv, ClassTyped, Pages, StillTrue, Of
<1>3. IsFiniteSet(A)
  <2>1. label # "none"
    BY DEF SummaryAssumption
  <2>2. A \subseteq InRecord
    BY <2>1 DEF InRecord, Of
  <2> QED
    BY <2>2, FS_Subset DEF ClassInv, ClassTyped
<1>4. \A d, e \in D : d[1] = e[1] => d = e
  BY <1>1
<1>5. f \in [D -> A] /\ \A d, e \in D : f[d] = f[e] => d = e
  BY <1>2, <1>4
<1> HIDE DEF D, A, f
<1>6. f \in Injection(D, A)
  BY <1>5 DEF Injection, IsInjective
<1>7. IsFiniteSet(D) /\ Cardinality(D) <= Cardinality(A)
  BY <1>3, <1>6, FS_Injection
<1>8. Cardinality(D) \in Nat /\ Cardinality(A) \in Nat
  BY <1>3, <1>7, FS_CardinalityType
<1>9. TagCount(student, label) = Cardinality(D)
  BY DEF D, TagCount
<1> QED
  BY <1>7, <1>8, <1>9 DEF A

\* teacher_dashboard.py:23-26 and 133-136, for any class, caller and commits while the
\* page is read: a child who got nothing wrong is not rated below all right, nobody who
\* had answered when the page was loaded counts as gone, and a misconception that is
\* said to recur was diagnosed that often.
THEOREM NobodyIsWronged ==
    ASSUME SummaryAssumption
    PROVE  ClassSpec => []FairToChildren
<1>1. ClassInv => FairToChildren
  <2> SUFFICES ASSUME ClassInv, page.at = "done", NEW student \in page.visible
               PROVE  /\ (\A a \in Of(student, Attempts) :
                             attempt[a] \notin Graded \ {"right"}) =>
                          Row(student).correct.count = Row(student).correct.of
                      /\ \A a \in Of(student, began) : a[1] \notin Abandoned
                      /\ \A label \in Row(student).recurring :
                          Cardinality({a \in Of(student, Attempts) :
                                          attempt[a] = label}) >= RecurrenceThreshold
    BY DEF FairToChildren, Shown
  <2>1. ASSUME \A a \in Of(student, Attempts) :
                  attempt[a] \notin Graded \ {"right"}
        PROVE  Row(student).correct.count = Row(student).correct.of
    <3>1. \A a \in page.wrong : Owner(a) # student
      BY <2>1 DEF ClassInv, ClassTyped, StillTrue, Pages, Of
    <3>2. Of(student, page.right) = Judged(student)
      BY <3>1 DEF Of, Judged
    <3>3. /\ Row(student).correct.count = Cardinality(Of(student, page.right))
          /\ Row(student).correct.of = Cardinality(Judged(student))
      <4>1. Row(student).correct = Correct(student)
        BY DEF Row
      <4>2. /\ Correct(student).count = Cardinality(Of(student, page.right))
            /\ Correct(student).of = Cardinality(Judged(student))
        BY DEF Correct, Measure
      <4> QED
        BY <4>1, <4>2
    <3> QED
      BY <3>2, <3>3
  <2>2. ASSUME NEW a \in Of(student, began)
        PROVE  a[1] \notin Abandoned
    <3>1. a \in began /\ ReadAttemptsOf(page.at)
      BY DEF Of, ReadAttemptsOf
    <3>2. a[1] \in page.sessions => a \in page.attempts
      BY <3>1 DEF ClassInv, StillTrue
    <3> QED
      BY <3>2 DEF Abandoned, Answered
  <2>3. ASSUME NEW label \in Row(student).recurring
        PROVE  Cardinality({a \in Of(student, Attempts) : attempt[a] = label})
                 >= RecurrenceThreshold
    <3>1. label \in Labels /\ TagCount(student, label) >= RecurrenceThreshold
      BY DEF Row, Recurring
    <3>2. RecurrenceThreshold \in Nat
      BY DEF SummaryAssumption
    <3> DEFINE n == Cardinality({a \in Of(student, Attempts) : attempt[a] = label})
    <3>3. /\ TagCount(student, label) \in Nat /\ n \in Nat
          /\ TagCount(student, label) <= n
      BY <3>1, CountedDiagnosed
    <3> HIDE DEF n
    <3>4. n >= RecurrenceThreshold
      BY <3>1, <3>2, <3>3
    <3> QED
      BY <3>4 DEF n
  <2> QED
    BY <2>1, <2>2, <2>3
<1> QED
  BY <1>1, ClassInvariant, PTL
-----------------------------------------------------------------------------
(* The totals of the overview *)

\* The sum over a finite set of the sizes of parts that do not overlap is the size of
\* them all.  MapThenSumSet is a function h of the subsets, chosen by its equation.
SizesOf(P, V) == MapThenSumSet(LAMBDA x : Cardinality(P[x]), V)

LEMMA SumOfSizes ==
    ASSUME NEW V, IsFiniteSet(V), NEW P, \A x \in V : IsFiniteSet(P[x]),
           \A x, y \in V : x # y => P[x] \cap P[y] = {}
    PROVE  SizesOf(P, V) = Cardinality(UNION {P[x] : x \in V})
<1> DEFINE First(s) == CHOOSE x \in s : TRUE
           Equation(h) == [s \in SUBSET V |->
               IF s = {} THEN 0 ELSE Cardinality(P[First(s)]) + h[s \ {First(s)}]]
           all(s) == UNION {P[x] : x \in s}
           sizes == [s \in SUBSET V |-> Cardinality(all(s))]
<1>1. ASSUME NEW s \in SUBSET V
      PROVE  IsFiniteSet(all(s))
  <2>1. IsFiniteSet(s)
    BY FS_Subset
  <2>2. IsFiniteSet({P[x] : x \in s})
    <3> DEFINE parts == {P[x] : x \in s}
               f == [x \in s |-> P[x]]
    <3>1. f \in [s -> parts] /\ \A t \in parts : \E x \in s : f[x] = t
      OBVIOUS
    <3> HIDE DEF parts, f
    <3>2. f \in Surjection(s, parts)
      BY <3>1 DEF Surjection
    <3>3. IsFiniteSet(parts)
      BY <2>1, <3>2, FS_Surjection
    <3> QED
      BY <3>3 DEF parts
  <2> QED
    BY <2>2, FS_UNION
<1>2. ASSUME NEW s \in SUBSET V, s # {}
      PROVE  /\ First(s) \in s
             /\ Cardinality(all(s))
                  = Cardinality(P[First(s)]) + Cardinality(all(s \ {First(s)}))
  <2> DEFINE x == First(s)
  <2>1. x \in s
    BY <1>2
  <2> HIDE DEF x
  <2>2. all(s) = P[x] \cup all(s \ {x})
    BY <2>1
  <2>3. P[x] \cap all(s \ {x}) = {}
    BY <2>1
  <2>4. IsFiniteSet(all(s \ {x})) /\ IsFiniteSet(P[x])
    BY <1>1, <2>1
  <2> HIDE DEF all
  <2>5. /\ Cardinality(all(s)) = Cardinality(P[x]) + Cardinality(all(s \ {x}))
                                   - Cardinality(P[x] \cap all(s \ {x}))
        /\ Cardinality(P[x]) \in Nat /\ Cardinality(all(s \ {x})) \in Nat
    BY <2>2, <2>4, FS_Union, FS_CardinalityType
  <2>6. Cardinality(P[x] \cap all(s \ {x})) = 0
    BY <2>3, FS_EmptySet
  <2>7. Cardinality(all(s)) = Cardinality(P[x]) + Cardinality(all(s \ {x}))
    BY <2>5, <2>6
  <2> QED
    BY <2>1, <2>7 DEF x
<1>3. sizes = Equation(sizes)
  <2>1. ASSUME NEW s \in SUBSET V
        PROVE  sizes[s] = IF s = {} THEN 0
                          ELSE Cardinality(P[First(s)]) + sizes[s \ {First(s)}]
    <3>1. CASE s = {}
      <4>1. all(s) = {}
        BY <3>1
      <4> QED
        BY <3>1, <4>1, FS_EmptySet
    <3>2. CASE s # {}
      <4> HIDE DEF all, First
      <4> QED
        BY <1>2, <3>2
    <3> QED
      BY <3>1, <3>2
  <2> HIDE DEF First
  <2> QED
    BY <2>1
<1>4. ASSUME NEW h, h = Equation(h)
      PROVE  h[V] = sizes[V]
  <2> DEFINE wrong == {s \in SUBSET V : h[s] # sizes[s]}
  <2> SUFFICES ASSUME wrong # {} PROVE FALSE
    BY Zenon
  <2>1. PICK s \in wrong : \A t \in wrong : <<t, s>> \notin StrictSubsetOrdering(V)
    <3>1. IsWellFoundedOn(StrictSubsetOrdering(V), SUBSET V)
      BY FS_StrictSubsetOrderingWellFounded, FS_FiniteSubsetsOfFinite
    <3>2. wrong \subseteq SUBSET V
      OBVIOUS
    <3> HIDE DEF wrong
    <3> QED
      BY <3>1, <3>2, WFMin
  <2>2. \A t \in SUBSET s : t # s => h[t] = sizes[t]
    BY <2>1 DEF StrictSubsetOrdering
  <2> HIDE DEF sizes, First
  <2>3. h[s] = IF s = {} THEN 0 ELSE Cardinality(P[First(s)]) + h[s \ {First(s)}]
    BY <1>4
  <2>4. sizes[s] = IF s = {} THEN 0 ELSE Cardinality(P[First(s)]) + sizes[s \ {First(s)}]
    BY <1>3
  <2>5. s # {} => h[s \ {First(s)}] = sizes[s \ {First(s)}]
    BY <1>2, <2>2
  <2>6. h[s] = sizes[s]
    BY <2>3, <2>4, <2>5
  <2> QED
    BY <2>1, <2>6
<1>5. (CHOOSE h : h = Equation(h)) = Equation(CHOOSE h : h = Equation(h))
  <2> HIDE DEF Equation
  <2> QED
    BY <1>3, Zenon
<1>6. (CHOOSE h : h = Equation(h))[V] = Cardinality(all(V))
  <2> HIDE DEF Equation
  <2> QED
    BY <1>4, <1>5
<1> QED
  BY <1>6, Zenon DEF SizesOf, MapThenSumSet, MapThenFoldSet

\* The queries come one after the other, and what one has not been asked yet is empty.
ReadInOrder ==
    /\ page.at \in {"idle", "refused", "sessions"} => page.sessions = {}
    /\ page.at \in {"idle", "refused", "sessions", "attempts"} => page.attempts = {}
    /\ page.at \notin {"diagnoses", "items", "done"} => page.right = {} /\ page.wrong = {}
    /\ page.at \notin {"items", "done"} => page.diagnoses = {}
    /\ page.at # "done" => page.open = {}

\* Each query keeps to what the one before it read: the children the caller may see,
\* their sessions, and the attempts at these.
MayBeSeen == {x \in Students : Role[caller] = "admin" \/ <<caller, x>> \in Enrollments}
OfTheClass ==
    /\ page.at \notin {"idle", "refused"} => page.visible = MayBeSeen
    /\ page.sessions \subseteq opened
    /\ \A s \in page.sessions : StudentOf[s] \in page.visible
    /\ page.attempts \subseteq InRecord
    /\ \A a \in page.attempts : a[1] \in page.sessions
    /\ page.right \cup page.wrong \subseteq page.attempts
    /\ \A d \in page.diagnoses : d[1] \in page.attempts
    /\ page.open \subseteq page.sessions

TotalsInv == IsFiniteSet(opened) /\ ReadInOrder /\ OfTheClass

LEMMA CommitTotals ==
    ASSUME SummaryAssumption, ClassInv, TotalsInv, Commit
    PROVE  TotalsInv'
<1>1. InRecord \subseteq InRecord'
  BY CommitMoves DEF Onwards
<1>2. UNCHANGED <<page, caller>>
  BY DEF Commit, OpenSession, Route, Resolve, Answer, Grade, Diagnose, reading
<1>3. opened \subseteq opened' /\ IsFiniteSet(opened')
  <2>1. CASE \E s \in Sessions : opened' = opened \cup {s}
    BY <2>1, FS_AddElement DEF TotalsInv
  <2>2. CASE opened' = opened
    BY <2>2 DEF TotalsInv
  <2> QED
    BY <2>1, <2>2 DEF Commit, OpenSession, Route, Resolve, Answer, Grade, Diagnose
<1> QED
  BY <1>1, <1>2, <1>3 DEF TotalsInv, ReadInOrder, OfTheClass, MayBeSeen

LEMMA QueryTotals ==
    ASSUME SummaryAssumption, ClassInv, TotalsInv, Read
    PROVE  TotalsInv'
<1> USE DEF TotalsInv, ReadInOrder, OfTheClass
<1>1. UNCHANGED <<opened, attempt, items, caller>> /\ InRecord' = InRecord /\ MayBeSeen' = MayBeSeen
  BY DEF Read, Refuse, ReadStudents, ReadSessions, ReadAttempts, ReadScores, ReadDiagnoses,
         ReadItems, Query, record, InRecord, MayBeSeen
<1>2. page \in Pages
  BY DEF ClassInv, ClassTyped
<1>3. CASE Refuse
  <2>1. page.at = "idle" /\ page' = [page EXCEPT !.at = "refused"]
    BY <1>3 DEF Refuse, Query
  <2> QED
    BY <1>1, <1>2, <2>1 DEF Pages, Places
<1>4. CASE ReadStudents
  <2> DEFINE visible == {student \in Students : CanReadStudent(student)}
  <2>1. /\ page.at = "idle"
        /\ page' = [page EXCEPT !.visible = visible,
                               !.at = IF visible = {} THEN "done" ELSE "sessions"]
    BY <1>4 DEF ReadStudents
  <2>2. visible = MayBeSeen
    <3>1. Role[caller] \in {"teacher", "admin"}
      BY <1>4 DEF ReadStudents, CanReadReviewQueue
    <3>2. CASE Role[caller] = "admin"
      BY <3>2 DEF CanReadStudent, MayBeSeen
    <3>3. CASE Role[caller] = "teacher"
      <4>1. Scope = {e[2] : e \in {x \in Enrollments : x[1] = caller}}
        BY <3>3 DEF Scope
      <4>2. Enrollments \subseteq Callers \X Students
        BY DEF SummaryAssumption
      <4>3. \A x : x \in Scope <=> <<caller, x>> \in Enrollments
        BY <4>1, <4>2
      <4> QED
        BY <3>3, <4>3 DEF CanReadStudent, MayBeSeen
    <3> QED
      BY <3>1, <3>2, <3>3
  <2> HIDE DEF visible
  <2>3. /\ page'.visible = visible /\ page'.sessions = {} /\ page'.attempts = {}
        /\ page'.right = {} /\ page'.wrong = {} /\ page'.diagnoses = {} /\ page'.open = {}
        /\ page'.at \in {"done", "sessions"}
    BY <1>2, <2>1 DEF Pages
  <2> QED
    BY <1>1, <2>2, <2>3
<1>5. CASE ReadSessions
  <2> DEFINE read == {s \in opened : StudentOf[s] \in page.visible}
  <2>1. page.at = "sessions" /\ page' = [page EXCEPT !.sessions = read, !.at = "attempts"]
    BY <1>5 DEF ReadSessions, Query
  <2>2. read \subseteq opened /\ \A s \in read : StudentOf[s] \in page.visible
    OBVIOUS
  <2> HIDE DEF read
  <2> QED
    BY <1>1, <1>2, <2>1, <2>2 DEF Pages
<1>6. CASE ReadAttempts
  <2> DEFINE read == {a \in Attempts : a[1] \in page.sessions /\ attempt[a] # "none"}
  <2>1. page.at = "attempts" /\ page' = [page EXCEPT !.attempts = read, !.at = "scores"]
    BY <1>6 DEF ReadAttempts, Query
  <2>2. read \subseteq InRecord /\ \A a \in read : a[1] \in page.sessions
    BY DEF InRecord
  <2> HIDE DEF read
  <2> QED
    BY <1>1, <1>2, <2>1, <2>2 DEF Pages
<1>7. CASE ReadScores
  <2> DEFINE right == {a \in page.attempts : attempt[a] = "right"}
             wrong == {a \in page.attempts : attempt[a] \in Graded \ {"right"}}
  <2>1. /\ page.at = "scores"
        /\ page' = [page EXCEPT !.right = right, !.wrong = wrong, !.at = "diagnoses"]
    BY <1>7 DEF ReadScores, Query
  <2>2. right \cup wrong \subseteq page.attempts
    OBVIOUS
  <2> HIDE DEF right, wrong
  <2> QED
    BY <1>1, <1>2, <2>1, <2>2 DEF Pages
<1>8. CASE ReadDiagnoses
  <2> DEFINE read == {<<a, attempt[a]>> :
                        a \in {x \in page.attempts : attempt[x] \in Diagnosed}}
  <2>1. page.at = "diagnoses" /\ page' = [page EXCEPT !.diagnoses = read, !.at = "items"]
    BY <1>8 DEF ReadDiagnoses, Query
  <2>2. \A d \in read : d[1] \in page.attempts
    OBVIOUS
  <2> HIDE DEF read
  <2> QED
    BY <1>1, <1>2, <2>1, <2>2 DEF Pages
<1>9. CASE ReadItems
  <2> DEFINE read == items \cap page.sessions
  <2>1. page.at = "items" /\ page' = [page EXCEPT !.open = read, !.at = "done"]
    BY <1>9 DEF ReadItems, Query, OpenItems
  <2>2. read \subseteq page.sessions
    OBVIOUS
  <2> HIDE DEF read
  <2> QED
    BY <1>1, <1>2, <2>1, <2>2 DEF Pages
<1> QED
  BY <1>3, <1>4, <1>5, <1>6, <1>7, <1>8, <1>9 DEF Read

LEMMA TotalsInvariant ==
    ASSUME SummaryAssumption
    PROVE  ClassSpec => []TotalsInv
<1>1. ClassInit => TotalsInv
  BY FS_EmptySet DEF ClassInit, Nothing, TotalsInv, ReadInOrder, OfTheClass
<1>2. ClassInv /\ TotalsInv /\ [ClassNext]_overview => TotalsInv'
  <2> SUFFICES ASSUME ClassInv, TotalsInv, [ClassNext]_overview PROVE TotalsInv'
    OBVIOUS
  <2>1. CASE UNCHANGED overview
    BY <2>1 DEF overview, record, reading, TotalsInv, ReadInOrder, OfTheClass, MayBeSeen,
                InRecord
  <2> QED
    BY <2>1, CommitTotals, QueryTotals DEF ClassNext
<1> QED
  BY <1>1, <1>2, ClassInvariant, PTL DEF ClassSpec

\* Rows that say the sizes of parts: a total is the sum of the sizes.
LEMMA TotalIs ==
    ASSUME NEW field, NEW P, \A x \in page.visible : Row(x)[field] = Cardinality(P[x])
    PROVE  Total(field) = SizesOf(P, page.visible)
<1> DEFINE V == page.visible
           First(s) == CHOOSE x \in s : TRUE
           Rows(h) == [s \in SUBSET V |->
               IF s = {} THEN 0 ELSE Row(First(s))[field] + h[s \ {First(s)}]]
           Sizes(h) == [s \in SUBSET V |->
               IF s = {} THEN 0 ELSE Cardinality(P[First(s)]) + h[s \ {First(s)}]]
<1>1. ASSUME NEW h, NEW s \in SUBSET V
      PROVE  (IF s = {} THEN 0 ELSE Row(First(s))[field] + h[s \ {First(s)}])
               = (IF s = {} THEN 0 ELSE Cardinality(P[First(s)]) + h[s \ {First(s)}])
  <2>1. s # {} => First(s) \in page.visible
    OBVIOUS
  <2> QED
    BY <2>1, Zenon
<1>2. \A h : Rows(h) = Sizes(h)
  BY <1>1, Zenon
<1>3. (CHOOSE h : h = Rows(h)) = (CHOOSE h : h = Sizes(h))
  <2> HIDE DEF Rows, Sizes
  <2>1. \A h : (h = Rows(h)) <=> (h = Sizes(h))
    BY <1>2, Zenon
  <2> QED
    BY <2>1, Zenon
<1> QED
  BY <1>3, Zenon DEF SizesOf, Total, MapThenSumSet, MapThenFoldSet

LEMMA TagTotalIs ==
    ASSUME NEW label, NEW P,
           \A x \in page.visible : TagCount(x, label) = Cardinality(P[x])
    PROVE  TagTotal(label) = SizesOf(P, page.visible)
<1> DEFINE V == page.visible
           First(s) == CHOOSE x \in s : TRUE
           Tags(h) == [s \in SUBSET V |->
               IF s = {} THEN 0 ELSE TagCount(First(s), label) + h[s \ {First(s)}]]
           Sizes(h) == [s \in SUBSET V |->
               IF s = {} THEN 0 ELSE Cardinality(P[First(s)]) + h[s \ {First(s)}]]
<1>1. ASSUME NEW h, NEW s \in SUBSET V
      PROVE  (IF s = {} THEN 0 ELSE TagCount(First(s), label) + h[s \ {First(s)}])
               = (IF s = {} THEN 0 ELSE Cardinality(P[First(s)]) + h[s \ {First(s)}])
  <2>1. s # {} => First(s) \in page.visible
    OBVIOUS
  <2> QED
    BY <2>1, Zenon
<1>2. \A h : Tags(h) = Sizes(h)
  BY <1>1, Zenon
<1>3. (CHOOSE h : h = Tags(h)) = (CHOOSE h : h = Sizes(h))
  <2> HIDE DEF Tags, Sizes
  <2>1. \A h : (h = Tags(h)) <=> (h = Sizes(h))
    BY <1>2, Zenon
  <2> QED
    BY <2>1, Zenon
<1> QED
  BY <1>3, Zenon DEF SizesOf, TagTotal, MapThenSumSet, MapThenFoldSet

LEMMA PageIsFinite ==
    ASSUME SummaryAssumption, ClassInv, TotalsInv
    PROVE  /\ IsFiniteSet(page.visible) /\ IsFiniteSet(page.sessions)
           /\ IsFiniteSet(page.attempts) /\ IsFiniteSet(page.diagnoses)
           /\ Cardinality(page.diagnoses) <= Cardinality(page.attempts)
<1>1. page.visible \subseteq Students /\ page.sessions \subseteq opened
      /\ page.attempts \subseteq InRecord
  BY DEF ClassInv, ClassTyped, Pages, TotalsInv, OfTheClass
<1>2. IsFiniteSet(page.visible) /\ IsFiniteSet(page.sessions) /\ IsFiniteSet(page.attempts)
  BY <1>1, FS_Subset DEF SummaryAssumption, ClassInv, ClassTyped, TotalsInv
<1> DEFINE f == [d \in page.diagnoses |-> d[1]]
<1>3. \A d, e \in page.diagnoses : d[1] = e[1] => d = e
  BY DEF ClassInv, ClassTyped, StillTrue, Pages
<1>4. \A d \in page.diagnoses : d[1] \in page.attempts
  BY DEF TotalsInv, OfTheClass
<1>5. f \in [page.diagnoses -> page.attempts]
      /\ \A d, e \in page.diagnoses : f[d] = f[e] => d = e
  BY <1>3, <1>4
<1> HIDE DEF f
<1>6. f \in Injection(page.diagnoses, page.attempts)
  BY <1>5 DEF Injection, IsInjective
<1>7. IsFiniteSet(page.diagnoses) /\ Cardinality(page.diagnoses) <= Cardinality(page.attempts)
  BY <1>2, <1>6, FS_Injection
<1> QED
  BY <1>2, <1>7

\* Parts that cover what is counted and do not overlap.
LEMMA TotalOfParts ==
    ASSUME NEW field, NEW P, NEW S, IsFiniteSet(S), IsFiniteSet(page.visible),
           \A e : e \in S <=> \E x \in page.visible : e \in P[x],
           \A x, y \in page.visible : x # y => P[x] \cap P[y] = {},
           \A x \in page.visible : Row(x)[field] = Cardinality(P[x])
    PROVE  Total(field) = Cardinality(S)
<1>1. \A x \in page.visible : IsFiniteSet(P[x])
  BY FS_Subset
<1>2. SizesOf(P, page.visible) = Cardinality(UNION {P[x] : x \in page.visible})
  BY <1>1, SumOfSizes
<1>3. \A e : e \in S <=> \E x \in page.visible : e \in P[x]
  OBVIOUS
<1> QED
  BY <1>2, <1>3, TotalIs

LEMMA TagTotalOfParts ==
    ASSUME NEW label, NEW P, NEW S, IsFiniteSet(S), IsFiniteSet(page.visible),
           \A e : e \in S <=> \E x \in page.visible : e \in P[x],
           \A x, y \in page.visible : x # y => P[x] \cap P[y] = {},
           \A x \in page.visible : TagCount(x, label) = Cardinality(P[x])
    PROVE  TagTotal(label) = Cardinality(S)
<1>1. \A x \in page.visible : IsFiniteSet(P[x])
  BY FS_Subset
<1>2. SizesOf(P, page.visible) = Cardinality(UNION {P[x] : x \in page.visible})
  BY <1>1, SumOfSizes
<1>3. \A e : e \in S <=> \E x \in page.visible : e \in P[x]
  OBVIOUS
<1> QED
  BY <1>2, <1>3, TagTotalIs

\* The four totals, each with the part of it that is a child's.
LEMMA RowsAddUp ==
    ASSUME SummaryAssumption, ClassInv, TotalsInv,
           NEW field \in {"answered", "abandoned", "attempts", "awaiting"}
    PROVE  Summary[field] = Total(field)
<1> USE PageIsFinite
<1>1. \A s \in page.sessions : StudentOf[s] \in page.visible
  BY DEF TotalsInv, OfTheClass
<1>2. \A a \in page.attempts : a[1] \in page.sessions
  BY DEF TotalsInv, OfTheClass
<1>3. Answered \subseteq page.sessions
  BY <1>2 DEF Answered
<1>4. CASE field = "answered"
  <2> DEFINE P == [x \in page.visible |-> SessionsOf(x) \cap Answered]
  <2>1. \A e : e \in Answered <=> \E x \in page.visible : e \in P[x]
    BY <1>1, <1>3 DEF SessionsOf
  <2>2. \A x, y \in page.visible : x # y => P[x] \cap P[y] = {}
    BY DEF SessionsOf
  <2>3. \A x \in page.visible : Row(x)[field] = Cardinality(P[x])
    BY <1>4 DEF Row
  <2>4. IsFiniteSet(Answered)
    BY <1>3, FS_Subset
  <2> HIDE DEF P
  <2>5. Total(field) = Cardinality(Answered)
    BY <2>1, <2>2, <2>3, <2>4, TotalOfParts
  <2> QED
    BY <1>4, <2>5 DEF Summary
<1>5. CASE field = "abandoned"
  <2> DEFINE P == [x \in page.visible |-> SessionsOf(x) \ Answered]
             S == page.sessions \ Answered
  <2>1. \A e : e \in S <=> \E x \in page.visible : e \in P[x]
    BY <1>1 DEF SessionsOf
  <2>2. \A x, y \in page.visible : x # y => P[x] \cap P[y] = {}
    BY DEF SessionsOf
  <2>3. \A x \in page.visible : Row(x)[field] = Cardinality(P[x])
    BY <1>5 DEF Row
  <2>4. /\ IsFiniteSet(S)
        /\ Cardinality(S) = Cardinality(page.sessions) - Cardinality(page.sessions \cap Answered)
    BY FS_Difference
  <2>5. page.sessions \cap Answered = Answered
    BY <1>3
  <2> HIDE DEF P, S
  <2>6. Total(field) = Cardinality(S)
    BY <2>1, <2>2, <2>3, <2>4, TotalOfParts
  <2> QED
    BY <1>5, <2>4, <2>5, <2>6 DEF Summary
<1>6. CASE field = "attempts"
  <2> DEFINE P == [x \in page.visible |-> Of(x, page.attempts)]
  <2>1. \A e : e \in page.attempts <=> \E x \in page.visible : e \in P[x]
    BY <1>1, <1>2 DEF Of, Owner
  <2>2. \A x, y \in page.visible : x # y => P[x] \cap P[y] = {}
    BY DEF Of
  <2>3. \A x \in page.visible : Row(x)[field] = Cardinality(P[x])
    BY <1>6 DEF Row
  <2> HIDE DEF P
  <2>4. Total(field) = Cardinality(page.attempts)
    BY <2>1, <2>2, <2>3, TotalOfParts
  <2> QED
    BY <1>6, <2>4 DEF Summary
<1>7. CASE field = "awaiting"
  <2> DEFINE P == [x \in page.visible |-> {s \in page.open : StudentOf[s] = x}]
  <2>1. page.open \subseteq page.sessions
    BY DEF TotalsInv, OfTheClass
  <2>2. \A e : e \in page.open <=> \E x \in page.visible : e \in P[x]
    BY <1>1, <2>1
  <2>3. \A x, y \in page.visible : x # y => P[x] \cap P[y] = {}
    OBVIOUS
  <2>4. \A x \in page.visible : Row(x)[field] = Cardinality(P[x])
    BY <1>7 DEF Row
  <2>5. IsFiniteSet(page.open)
    BY <2>1, FS_Subset
  <2> HIDE DEF P
  <2>6. Total(field) = Cardinality(page.open)
    BY <2>2, <2>3, <2>4, <2>5, TotalOfParts
  <2> QED
    BY <1>7, <2>6 DEF Summary
<1> QED
  BY <1>4, <1>5, <1>6, <1>7

\* The diagnoses with a label, each of one child of the class.
LEMMA LabelsAddUp ==
    ASSUME SummaryAssumption, ClassInv, TotalsInv, NEW label \in Labels
    PROVE  /\ ClassCount(label) = TagTotal(label)
           /\ Cardinality(Affected(label)) <= ClassCount(label)
<1> DEFINE D == {d \in page.diagnoses : d[2] = label}
           P == [x \in page.visible |->
                    {d \in page.diagnoses : Owner(d[1]) = x /\ d[2] = label}]
<1>1. \A d \in page.diagnoses : Owner(d[1]) \in page.visible
  BY DEF TotalsInv, OfTheClass, Owner
<1>2. \A e : e \in D <=> \E x \in page.visible : e \in P[x]
  BY <1>1
<1>3. \A x, y \in page.visible : x # y => P[x] \cap P[y] = {}
  OBVIOUS
<1>4. \A x \in page.visible : TagCount(x, label) = Cardinality(P[x])
  BY DEF TagCount
<1>5. IsFiniteSet(D)
  BY PageIsFinite, FS_Subset
<1>6. ClassCount(label) = Cardinality(D)
  BY DEF ClassCount
<1>7. Cardinality(Affected(label)) <= Cardinality(D)
  <2> DEFINE f == [x \in Affected(label) |-> CHOOSE d \in D : Owner(d[1]) = x]
  <2>1. ASSUME NEW x \in Affected(label)
        PROVE  \E d \in D : Owner(d[1]) = x
    <3>1. x \in page.visible /\ Cardinality(P[x]) > 0
      BY <1>4 DEF Affected
    <3>2. P[x] # {}
      <4> HIDE DEF P
      <4> QED
        BY <3>1, FS_EmptySet
    <3> QED
      BY <3>1, <3>2
  <2>2. \A x \in Affected(label) : f[x] \in D /\ Owner(f[x][1]) = x
    BY <2>1
  <2>3. f \in [Affected(label) -> D] /\ \A x, y \in Affected(label) : f[x] = f[y] => x = y
    <3>1. f = [x \in Affected(label) |-> f[x]]
      OBVIOUS
    <3> HIDE DEF f, D
    <3> QED
      BY <2>2, <3>1
  <2> HIDE DEF f, D
  <2>4. f \in Injection(Affected(label), D)
    BY <2>3 DEF Injection, IsInjective
  <2> QED
    BY <1>5, <2>4, FS_Injection
<1> HIDE DEF D, P
<1>8. TagTotal(label) = Cardinality(D)
  BY <1>2, <1>3, <1>4, <1>5, PageIsFinite, TagTotalOfParts
<1> QED
  BY <1>6, <1>7, <1>8

\* teacher_dashboard.py:32-33, for any class, caller and commits while the page is read:
\* each total is the sum of the rows under it, the rows are those of the children the
\* caller may see, and no count is larger than the count it is a part of.
THEOREM TotalsAddUp ==
    ASSUME SummaryAssumption
    PROVE  ClassSpec => []TotalsOfTheClass
<1>1. ClassInv /\ TotalsInv => TotalsOfTheClass
  <2> SUFFICES ASSUME ClassInv, TotalsInv, page.at = "done" PROVE TotalsOfTheClass
    BY DEF TotalsOfTheClass, Shown
  <2>1. page.visible = MayBeSeen
    BY DEF TotalsInv, OfTheClass
  <2>2. ASSUME NEW student \in page.visible
        PROVE  Row(student).correct.of <= Row(student).attempts
    <3>1. Judged(student) \subseteq Of(student, page.attempts)
      BY DEF Judged, Of, TotalsInv, OfTheClass
    <3>2. IsFiniteSet(Of(student, page.attempts))
      BY PageIsFinite, FS_Subset DEF Of
    <3>3. Cardinality(Judged(student)) <= Cardinality(Of(student, page.attempts))
      BY <3>1, <3>2, FS_Subset
    <3>4. Row(student).correct.of = Cardinality(Judged(student))
          /\ Row(student).attempts = Cardinality(Of(student, page.attempts))
      BY DEF Row, Correct, Measure
    <3> QED
      BY <3>3, <3>4
  <2>3. Abstained.of <= Summary.attempts
    BY PageIsFinite DEF Abstained, Measure, Summary
  <2> QED
    BY <2>1, <2>2, <2>3, RowsAddUp, LabelsAddUp DEF TotalsOfTheClass, MayBeSeen
<1> QED
  BY <1>1, ClassInvariant, TotalsInvariant, PTL

=============================================================================
