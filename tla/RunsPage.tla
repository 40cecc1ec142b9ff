------------------------------ MODULE RunsPage ------------------------------
(***************************************************************************)
(* The admin's page of runs (services/api/runs_page.py): a list, the run   *)
(* that is shown, and a tour through its stages that plays on a timer.     *)
(* Replies and timers arrive between clicks, in any order.                 *)
(***************************************************************************)
EXTENDS Integers, SequencesExt

CONSTANTS
    Runs,           \* sessions in the list
    MaxStages,      \* bound: stage runs of a session
    MaxFetches      \* bound: fetches on their way at once

ASSUME PageAssumption == MaxStages \in Nat /\ MaxFetches \in Nat

VARIABLES
    role,           \* the role of the principal in ?as=
    runs,           \* the buttons of the list
    inOrder,        \* whether replies come in the order of the fetches
    active,         \* the run that is highlighted, or "none"
    fetches,        \* runs asked for, oldest first, and which was asked for last
    shown,          \* the run the detail is about, "none" or "error"
    tour,           \* TOUR: how many stages, and the cursor
    timers,         \* timeouts that will fire
    handle,         \* TOUR_TIMER: one of them, one that has fired, or 0 for null
    playing,        \* TOUR_PLAYING
    button,         \* what the tour bar offers as drawn: "Play", "Pause" or "none"
    adrift          \* a fetch was rejected and left the page as it was

login == <<role, inOrder>>
detail == <<active, fetches, shown, adrift>>
playback == <<tour, timers, handle, playing, button>>
vars == <<login, runs, detail, playback>>

NoTour == [stages |-> 0, cursor |-> -1]
Tours == [stages : 0..MaxStages, cursor : Int]

-----------------------------------------------------------------------------
(* Timers, and what is drawn *)

Fresh == CHOOSE id \in 1..3 : id \notin timers \cup {handle}

AtEnd(t) == t.cursor >= t.stages - 1

\* renderTour draws a bar for a tour that has stages, where there is a place for it.
Drawn(where, t, isPlaying) ==
    IF where \notin Runs \/ t.stages = 0 THEN "none"
    ELSE IF isPlaying THEN "Pause" ELSE "Play"
Redraw(where) == button' = Drawn(where, tour', playing')

\* clearTimeout of what the handle holds.
Cleared == timers \ {handle}

-----------------------------------------------------------------------------
(* Loading *)

\* The runs are for administrators only.
MayRead == role = "admin"

\* loadRuns.
LoadRuns ==
    /\ runs = {} /\ MayRead
    /\ runs' = Runs
    /\ UNCHANGED <<login, detail, playback>>

\* The fetches once r has been asked for too.
Asked(r) == Append([i \in DOMAIN fetches |-> [fetches[i] EXCEPT !.latest = FALSE]],
                  [run |-> r, latest |-> TRUE])

\* Mutant: the pending hold is not cleared.
StopForgets == handle' = 0 /\ playing' = FALSE /\ UNCHANGED timers
\* stopTour.
Stop == timers' = Cleared /\ handle' = 0 /\ playing' = FALSE

\* showRun, up to its fetch: playback stops, and nothing is redrawn.
ShowRun(r) ==
    /\ r \in runs /\ Len(fetches) < MaxFetches
    /\ Stop
    /\ active' = r
    /\ fetches' = Asked(r)
    /\ UNCHANGED <<login, runs, shown, adrift, tour, button>>

\* The reply to the i-th fetch, which need not be the first to have been asked for.
Reply(i) ==
    /\ i \in DOMAIN fetches /\ (inOrder => i = 1)
    /\ fetches' = RemoveAt(fetches, i)
    /\ UNCHANGED <<login, runs, active, timers, handle, playing>>

\* The trace arrives: a fresh tour, not yet begun.
TraceArrives(i, n) ==
    /\ Reply(i)
    /\ shown' = fetches[i].run
    /\ tour' = [stages |-> n, cursor |-> -1]
    /\ Redraw(shown')
    /\ adrift' = (adrift /\ ~fetches[i].latest)

\* An error takes the place of the detail; the tour is not forgotten.
TraceRefused(i) ==
    /\ Reply(i)
    /\ shown' = "error" /\ button' = "none"
    /\ adrift' = (adrift /\ ~fetches[i].latest)
    /\ UNCHANGED tour

\* A fetch that rejects is caught by nobody.
FetchRejected(i) ==
    /\ Reply(i)
    /\ adrift' = (adrift \/ fetches[i].latest)
    /\ UNCHANGED <<shown, tour, button>>

-----------------------------------------------------------------------------
(* The tour *)

\* playTour: from the start again if it was at the end.
Play ==
    /\ playing' = TRUE
    /\ tour' = IF AtEnd(tour) THEN [tour EXCEPT !.cursor = -1] ELSE tour
    /\ timers' = Cleared \cup {Fresh} /\ handle' = Fresh

\* Play and Pause are one button, which goes by the state and not by its label.
ClickPlay ==
    /\ button # "none"
    /\ IF playing THEN Stop /\ UNCHANGED tour ELSE Play
    /\ Redraw(shown)
    /\ UNCHANGED <<login, runs, detail>>

\* Back, Step and Reset stop playback first.
ClickStep(to) ==
    /\ button # "none"
    /\ Stop /\ tour' = [tour EXCEPT !.cursor = to]
    /\ Redraw(shown)
    /\ UNCHANGED <<login, runs, detail>>
Manual ==
    \/ tour.cursor > 0 /\ ClickStep(tour.cursor - 1)
    \/ ~AtEnd(tour) /\ ClickStep(tour.cursor + 1)
    \/ ClickStep(-1)

\* Mutant: the end of the tour is looked for after the step.
NothingToStepLate == ~playing \/ tour.cursor > tour.stages - 1
NothingToStep == ~playing \/ AtEnd(tour)

\* Mutant: the end is not drawn.
EndedUndrawn == handle' = 0 /\ playing' = FALSE /\ UNCHANGED <<tour, button>>
\* step, when there is nothing to go on to.
Ended == UNCHANGED tour /\ handle' = 0 /\ playing' = FALSE /\ Redraw(shown)

\* step: a timeout fires and goes by whatever tour there is by now.
Tick(id) ==
    /\ id \in timers
    /\ IF NothingToStep
       THEN timers' = timers \ {id} /\ Ended
       ELSE /\ tour' = [tour EXCEPT !.cursor = @ + 1]
            /\ timers' = (timers \ {id}) \cup {Fresh} /\ handle' = Fresh
            /\ UNCHANGED playing
            /\ Redraw(shown)
    /\ UNCHANGED <<login, runs, detail>>

-----------------------------------------------------------------------------
(* Specification *)

Init ==
    /\ role \in {"admin", "teacher", "student"} /\ inOrder \in BOOLEAN
    /\ runs = {} /\ active = "none" /\ fetches = <<>> /\ shown = "none"
    /\ tour = NoTour /\ timers = {} /\ handle = 0 /\ playing = FALSE
    /\ button = "none" /\ adrift = FALSE

Click == ClickPlay \/ Manual

Arrive ==
    \E i \in DOMAIN fetches :
        \/ \E n \in 0..MaxStages : TraceArrives(i, n)
        \/ TraceRefused(i) \/ FetchRejected(i)

Next == LoadRuns \/ (\E r \in Runs : ShowRun(r)) \/ Arrive \/ Click \/ (\E id \in timers : Tick(id))

Spec == Init /\ [][Next]_vars

-----------------------------------------------------------------------------
(* Properties *)

\* Every variable holds a value of its kind, and the cursor stands on a stage of
\* the tour or before the first, although a tour may be replaced while it plays.
TypeOK ==
    /\ role \in {"admin", "teacher", "student"} /\ inOrder \in BOOLEAN
    /\ runs \subseteq Runs
    /\ active \in Runs \cup {"none"} /\ shown \in Runs \cup {"none", "error"}
    /\ fetches \in Seq([run : Runs, latest : BOOLEAN]) /\ Len(fetches) <= MaxFetches
    /\ tour \in Tours
    /\ tour.cursor \in -1..(tour.stages - 1)
    /\ timers \subseteq 1..3 /\ handle \in 0..3
    /\ playing \in BOOLEAN /\ adrift \in BOOLEAN
    /\ button \in {"none", "Play", "Pause"}

\* "There can only ever be one pending hold" (runs_page.py:261-262), over clicks,
\* replies and steps in any order; it is the one the handle clears, and a tour that
\* plays has one.
OneHold ==
    /\ timers \subseteq {handle} \ {0}
    /\ playing <=> timers # {}

\* The page does not deceive its reader.  While replies come in order, the run that
\* is highlighted is the one that is shown, unless it was refused; and the button
\* says what a click on it does.  Neither holds while a run that was clicked is on
\* its way or its fetch was lost: showRun stops the tour and draws nothing.
PageTruthful ==
    fetches = <<>> /\ ~adrift =>
        /\ inOrder /\ shown # "error" => shown = active
        /\ button # "none" => button = (IF playing THEN "Pause" ELSE "Play")
=============================================================================
