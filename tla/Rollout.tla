------------------------------- MODULE Rollout -------------------------------
(***************************************************************************)
(* The staged rollout of generated hints and its kill switch               *)
(* (services/orchestrator/rollout.py, services/api/admin.py).  The current *)
(* setting is the latest row of an append-only table.  An administrator's  *)
(* request stamps its row when it builds it and commits later; a kill      *)
(* reads the current setting before it builds its row.  Requests of        *)
(* several administrators overlap, and stamps are coarse.                  *)
(***************************************************************************)
EXTENDS Naturals, FiniteSets

CONSTANTS
    Buckets,        \* BUCKETS; a percentage is a number of buckets
    Admins,         \* administrators
    MaxChanges,     \* bound: changes made
    MaxTime,        \* bound: the clock
    MaxPerTick      \* bound: changes that share a timestamp

ASSUME RolloutAssumption ==
    /\ Buckets \in Nat \ {0} /\ MaxChanges \in Nat
    /\ MaxTime \in Nat /\ MaxPerTick \in Nat

VARIABLES
    inTurn,     \* whether administrators wait for one another; never changes
    rows,       \* committed rollout_change rows
    clock,      \* what datetime.now gives
    changes,    \* rows built so far; the next one's id
    work,       \* an administrator's request: nothing, a kill that has read, a row
    served,     \* per bucket: what the last attempt of its session was given
    saw         \* per bucket: the rows that attempt could read

vars == <<inTurn, rows, clock, changes, work, served, saw>>

Sessions == 0..(Buckets - 1)    \* sessions by bucket_for: the id alone decides
Percentages == 0..Buckets
Row == [id : 1..MaxChanges, on : BOOLEAN, percentage : Percentages, at : 0..MaxTime,
        kill : BOOLEAN]
None == [none |-> TRUE]
Idle == [doing |-> "nothing"]

\* Every row built, committed or not: they bound what shares a timestamp.
Staged == {work[a].row : a \in {b \in Admins : work[b].doing = "committing"}}
RoomAt(t) == Cardinality({r \in rows \cup Staged : r.at = t}) < MaxPerTick

-----------------------------------------------------------------------------
(* Reading the setting *)

\* Mutant: of two rows with one timestamp the more permissive one counts.
MoreRestrictiveReversed(a, b) ==
    IF a.on # b.on THEN IF a.on THEN a ELSE b
    ELSE IF a.percentage >= b.percentage THEN a ELSE b
\* _more_restrictive
MoreRestrictive(a, b) ==
    IF a.on # b.on THEN IF a.on THEN b ELSE a
    ELSE IF a.percentage <= b.percentage THEN a ELSE b

Unconfigured == [on |-> FALSE, percentage |-> 0]
Setting(r) == [on |-> r.on, percentage |-> r.percentage]

\* What ORDER BY created_at DESC LIMIT 2 may return: rows that share a timestamp
\* come in any order, so with three of them any two may be the ones seen.
NewestFirst(a, b) ==
    /\ a \in rows /\ b \in rows /\ a # b
    /\ a.at >= b.at
    /\ \A r \in rows \ {a, b} : r.at <= b.at

\* DatabaseRolloutSource.current, as the set of settings it may return.
Currents ==
    IF rows = {} THEN {Unconfigured}
    ELSE IF Cardinality(rows) = 1 THEN {Setting(r) : r \in rows}
    ELSE UNION {{Setting(IF a.at = b.at THEN MoreRestrictive(a, b) ELSE a) :
                    b \in {r \in rows : NewestFirst(a, r)}} : a \in rows}

\* Mutant: the percentage decides although generation is switched off.
DecidePercentageOnly(setting, bucket) == bucket < setting.percentage
Decide(setting, bucket) == setting.on /\ bucket < setting.percentage

-----------------------------------------------------------------------------
(* The administrators *)

Build(a, on, percentage, kill) ==
    /\ changes < MaxChanges /\ RoomAt(clock)
    /\ changes' = changes + 1
    /\ work' = [work EXCEPT ![a] =
                [doing |-> "committing",
                 row |-> [id |-> changes + 1, on |-> on, percentage |-> percentage,
                          at |-> clock, kill |-> kill]]]
    /\ UNCHANGED <<inTurn, rows, clock, served, saw>>

\* Mutant: the request body is not bounded.
AcceptedPercentagesUnbounded == 0..(Buckets + 1)
\* SetRolloutRequest.percentage
AcceptedPercentages == Percentages

MayStart(a) == work[a] = Idle /\ (inTurn => \A b \in Admins : work[b] = Idle)

\* set_rollout, up to the flush in record_change.
SetRollout(a) ==
    /\ MayStart(a)
    /\ \E on \in BOOLEAN, percentage \in AcceptedPercentages : Build(a, on, percentage, FALSE)

\* kill_generation reads the current setting first,
KillRead(a) ==
    /\ MayStart(a)
    /\ \E current \in Currents :
        work' = [work EXCEPT ![a] = [doing |-> "killing",
                                     percentage |-> current.percentage]]
    /\ UNCHANGED <<inTurn, rows, clock, changes, served, saw>>

\* and keeps its percentage.
KillPercentage(a) == work[a].percentage
KillBuild(a) ==
    /\ work[a].doing = "killing"
    /\ Build(a, FALSE, KillPercentage(a), TRUE)

Commit(a) ==
    /\ work[a].doing = "committing"
    /\ rows' = rows \cup {work[a].row}
    /\ work' = [work EXCEPT ![a] = Idle]
    /\ UNCHANGED <<inTurn, clock, changes, served, saw>>

\* The request fails before its commit.
GiveUp(a) ==
    /\ work[a] # Idle
    /\ work' = [work EXCEPT ![a] = Idle]
    /\ UNCHANGED <<inTurn, rows, clock, changes, served, saw>>

Tick ==
    /\ clock < MaxTime
    /\ clock' = clock + 1
    /\ UNCHANGED <<inTurn, rows, changes, work, served, saw>>

\* An attempt of a session reads the setting once (Swarm.tla, RetrieveAgent).
Attempt(s) ==
    /\ \E current \in Currents :
        served' = [served EXCEPT ![s] = IF Decide(current, s) THEN "generated"
                                        ELSE "template"]
    /\ saw' = [saw EXCEPT ![s] = rows]
    /\ UNCHANGED <<inTurn, rows, clock, changes, work>>

Init ==
    /\ inTurn \in BOOLEAN
    /\ rows = {} /\ clock = 0 /\ changes = 0
    /\ work = [a \in Admins |-> Idle]
    /\ served = [s \in Sessions |-> "nothing"]
    /\ saw = [s \in Sessions |-> {}]

Next ==
    \/ \E a \in Admins : SetRollout(a) \/ KillRead(a) \/ KillBuild(a) \/ Commit(a) \/ GiveUp(a)
    \/ Tick
    \/ \E s \in Sessions : Attempt(s)

Spec == Init /\ [][Next]_vars

-----------------------------------------------------------------------------
(* Properties *)

\* Every variable holds a value of its kind; ids are given out once.
TypeOK ==
    /\ inTurn \in BOOLEAN
    /\ rows \subseteq Row /\ clock \in 0..MaxTime /\ changes \in 0..MaxChanges
    /\ work \in [Admins -> {Idle} \cup [doing : {"killing"}, percentage : Percentages]
                           \cup [doing : {"committing"}, row : Row]]
    /\ served \in [Sessions -> {"nothing", "generated", "template"}]
    /\ \A s \in Sessions : saw[s] \subseteq rows
    /\ \A r1, r2 \in rows \cup Staged : r1.id = r2.id => r1 = r2

\* Generated text is served only when every committed off-setting was superseded
\* by a strictly later on-setting: a tie with the kill switch goes to the kill
\* switch, whatever order the rows are committed and read in.
KillWinsTies ==
    \A current \in Currents :
        current.on => \A off \in {r \in rows : ~r.on} :
                          \E on \in rows : on.on /\ on.at > off.at

\* From one attempt to the next a session goes from generated hints to templates,
\* or back, only for a change committed in between that says so: advancing the
\* percentage evicts nobody (rollout.py:22-26).
FlipsJustified ==
    [][\A s \in Sessions :
        /\ served[s] = "generated" /\ served'[s] = "template" =>
            \E r \in rows \ saw[s] : ~r.on \/ r.percentage <= s
        /\ served[s] = "template" /\ served'[s] = "generated" =>
            \E r \in rows \ saw[s] : r.on /\ s < r.percentage]_vars

-----------------------------------------------------------------------------
(* What administrators who wait for one another can rely on *)

\* "One field, and the cohort is preserved" (admin.py:172): a kill that is committed
\* leaves the percentage that was in force, and "turning generation off takes effect
\* on the next hint" (rollout.py:13), for every session.  When requests overlap it
\* may write back a percentage that was superseded since it read it, or be
\* committed last and stamped first.
KillTakesEffect ==
    [][inTurn => \A r \in rows' \ rows : r.kill =>
        /\ {c.percentage : c \in Currents'} = {c.percentage : c \in Currents}
        /\ \A s \in Sessions, c \in Currents' : ~Decide(c, s)]_vars

\* A change of the rollout does what it says to the sessions under way and no more.
ChangesMeanWhatTheySay == FlipsJustified /\ KillTakesEffect
=============================================================================
