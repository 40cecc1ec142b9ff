---------------------------- MODULE RolloutProofs ----------------------------
(***************************************************************************)
(* Proofs that the kill switch of Rollout.tla wins every tie of two, and   *)
(* that a change does what it says to the sessions under way and no more,  *)
(* for any administrators, percentages and number of changes.              *)
(***************************************************************************)
EXTENDS Rollout, FiniteSetTheorems, TLAPS

\* Every row built and not given up.  Neither a commit nor another administrator
\* changes how many share a timestamp; RoomAt bounds them when one is built.
Known == rows \cup Staged
Numbered == \A r \in Known : r.id <= changes
Roomy ==
    /\ IsFiniteSet(Known)
    /\ \A t \in Nat : Cardinality({r \in Known : r.at = t}) <= MaxPerTick

IInv == TypeOK /\ Numbered /\ Roomy

\* The setting in force is the strictest of the newest rows; what a session is given
\* is what all the newest rows that its attempt could read say of it.
Newest(r, R) == r \in R /\ \A q \in R : q.at <= r.at
Strictest(r) ==
    /\ Newest(r, rows)
    /\ \A q \in rows : Newest(q, rows) =>
        (r.on => q.on) /\ (r.on = q.on => r.percentage <= q.percentage)
Says(r, s) == r.on /\ s < r.percentage
Allows(R, s) ==
    /\ \E r \in R : Newest(r, R)
    /\ \A r \in R : Newest(r, R) => Says(r, s)

\* The query that reads the setting finds what it asks for, and no row is stamped
\* later than now.
Readable ==
    \/ rows = {} \/ \E a \in rows : rows = {a}
    \/ \E a, b \in rows : NewestFirst(a, b)
Past == \A r \in Known : r.at <= clock
Cohorts ==
    /\ DOMAIN saw = Sessions
    /\ \A s \in Sessions :
        /\ served[s] = "generated" => Allows(saw[s], s)
        /\ served[s] = "template" => ~Allows(saw[s], s)

\* Of administrators who wait for one another one is at work; a kill knows the
\* percentage in force, and a row that is built is newer than those committed.
OneAtATime == \A a, b \in Admins : work[a] # Idle /\ work[b] # Idle => a = b
Keeps(percentage) == \A c \in Currents : c.percentage = percentage
Informed == \A a \in Admins :
    /\ work[a].doing = "killing" => Keeps(work[a].percentage)
    /\ work[a].doing = "committing" =>
        /\ \A r \in rows : r.at <= work[a].row.at
        /\ work[a].row.kill => ~work[a].row.on /\ Keeps(work[a].row.percentage)

ReadInv == Readable /\ Past /\ Cohorts /\ (inTurn => OneAtATime /\ Informed)

-----------------------------------------------------------------------------
(* Reading *)

LEMMA SettingTyped ==
    ASSUME NEW r \in Row
    PROVE  /\ Setting(r).percentage \in Percentages
           /\ Setting(r).on = r.on
BY DEF Setting, Row

LEMMA CurrentsTyped ==
    ASSUME TypeOK, NEW current \in Currents
    PROVE  current.percentage \in Percentages
<1>1. rows \subseteq Row
  BY DEF TypeOK
<1>2. CASE rows = {}
  BY <1>2, RolloutAssumption DEF Currents, Unconfigured, Percentages
<1>3. CASE rows # {}
  <2>1. \A a, b \in rows :
          (IF a.at = b.at THEN MoreRestrictive(a, b) ELSE a) \in rows
    BY DEF MoreRestrictive
  <2>2. \E r \in rows : current = Setting(r)
    <3>1. CASE Cardinality(rows) = 1
      BY <1>3, <3>1 DEF Currents
    <3>2. CASE Cardinality(rows) # 1
      <4>1. PICK a \in rows, b \in rows :
              current = Setting(IF a.at = b.at THEN MoreRestrictive(a, b) ELSE a)
        BY <1>3, <3>2 DEF Currents
      <4> QED
        BY <2>1, <4>1
    <3> QED
      BY <3>1, <3>2
  <2> QED
    BY <1>1, <2>2, SettingTyped
<1> QED
  BY <1>2, <1>3

\* One element more.
LEMMA AddOne ==
    ASSUME NEW S, IsFiniteSet(S), NEW x, NEW n \in Nat, Cardinality(S) = n
    PROVE  /\ IsFiniteSet(S \cup {x})
           /\ x \notin S => Cardinality(S \cup {x}) = n + 1
           /\ Cardinality(S \cup {x}) \in Nat /\ Cardinality(S \cup {x}) <= n + 1
<1>1. CASE x \in S
  <2>1. S \cup {x} = S
    BY <1>1
  <2> QED
    BY <1>1, <2>1
<1>2. CASE x \notin S
  BY <1>2, FS_AddElement
<1> QED
  BY <1>1, <1>2

\* Three rows cannot share a timestamp where there is room for two.
LEMMA TieOfTwo ==
    ASSUME Roomy, MaxPerTick <= 2, MaxPerTick \in Nat,
           NEW a \in Known, NEW b \in Known, NEW c \in Known,
           a # b, a # c, b # c, a.at \in Nat, a.at = b.at
    PROVE  c.at # a.at
<1> SUFFICES ASSUME c.at = a.at PROVE FALSE
  OBVIOUS
<1> DEFINE same == {r \in Known : r.at = a.at}
<1>1. IsFiniteSet(same) /\ Cardinality(same) <= 2 /\ Cardinality(same) \in Nat
  <2>1. IsFiniteSet(same)
    BY FS_Subset DEF Roomy
  <2> QED
    BY <2>1, FS_CardinalityType DEF Roomy
<1>2. {a, b, c} \subseteq same
  OBVIOUS
<1>3. IsFiniteSet({a}) /\ Cardinality({a}) = 1
  BY FS_Singleton
<1>4. IsFiniteSet({a} \cup {b}) /\ Cardinality({a} \cup {b}) = 2
  <2> DEFINE one == {a}
  <2>1. b \notin one /\ IsFiniteSet(one) /\ Cardinality(one) = 1
    BY <1>3
  <2> HIDE DEF one
  <2>2. IsFiniteSet(one \cup {b}) /\ Cardinality(one \cup {b}) = 1 + 1
    BY <2>1, FS_AddElement
  <2> QED
    BY <2>2 DEF one
<1>5. Cardinality(({a} \cup {b}) \cup {c}) = 3
  <2> DEFINE two == {a} \cup {b}
  <2>1. c \notin two
    OBVIOUS
  <2> HIDE DEF two
  <2>2. Cardinality(two \cup {c}) = 2 + 1
    BY <1>4, <2>1, FS_AddElement DEF two
  <2> QED
    BY <2>2 DEF two
<1>6. ({a} \cup {b}) \cup {c} = {a, b, c}
  OBVIOUS
<1>7. Cardinality({a, b, c}) <= Cardinality(same)
  BY <1>1, <1>2, FS_Subset
<1>8. 3 <= Cardinality(same)
  BY <1>5, <1>6, <1>7
<1> HIDE DEF same
<1> QED
  BY <1>1, <1>8

-----------------------------------------------------------------------------
(* The invariant *)

LEMMA InitIInv == Init => IInv
<1> SUFFICES ASSUME Init PROVE IInv
  OBVIOUS
<1>1. Staged = {} /\ Known = {}
  BY DEF Init, Staged, Known, Idle
<1>2. TypeOK
  BY <1>1, RolloutAssumption DEF Init, TypeOK, Known
<1>3. Roomy
  <2>1. \A t : {r \in Known : r.at = t} = {}
    BY <1>1
  <2> QED
    BY <1>1, <2>1, FS_EmptySet, RolloutAssumption DEF Roomy
<1> QED
  BY <1>1, <1>2, <1>3 DEF IInv, Numbered

\* Whatever leaves the known rows alone, or drops some, keeps their bounds.
LEMMA Shrinks ==
    ASSUME IInv, Known' \subseteq Known, changes' = changes
    PROVE  /\ Numbered' /\ Roomy'
           /\ \A r1, r2 \in Known' : r1.id = r2.id => r1 = r2
<1>1. IsFiniteSet(Known')
  BY FS_Subset DEF IInv, Roomy
<1>2. ASSUME NEW t \in Nat
      PROVE  Cardinality({r \in Known' : r.at = t}) <= MaxPerTick
  <2>1. IsFiniteSet({r \in Known : r.at = t})
    BY FS_Subset DEF IInv, Roomy
  <2>2. {r \in Known' : r.at = t} \subseteq {r \in Known : r.at = t}
    OBVIOUS
  <2>3. Cardinality({r \in Known' : r.at = t}) <= Cardinality({r \in Known : r.at = t})
    BY <2>1, <2>2, FS_Subset
  <2>4. /\ Cardinality({r \in Known : r.at = t}) \in Nat
        /\ Cardinality({r \in Known' : r.at = t}) \in Nat
    BY <2>1, <2>2, FS_Subset, FS_CardinalityType
  <2> QED
    BY <2>3, <2>4, RolloutAssumption DEF IInv, Roomy
<1> QED
  BY <1>1, <1>2 DEF IInv, Numbered, Roomy, TypeOK, Known

LEMMA BuildIInv ==
    ASSUME IInv, NEW a \in Admins, work[a].doing # "committing",
           NEW on \in BOOLEAN, NEW percentage \in Percentages, NEW kill \in BOOLEAN,
           Build(a, on, percentage, kill)
    PROVE  IInv'
<1> DEFINE new == [id |-> changes + 1, on |-> on, percentage |-> percentage,
                   at |-> clock, kill |-> kill]
           entry == [doing |-> "committing", row |-> new]
<1>1. /\ changes' = changes + 1 /\ changes < MaxChanges /\ RoomAt(clock)
      /\ work' = [work EXCEPT ![a] = entry]
      /\ UNCHANGED <<inTurn, rows, clock, served, saw>>
  BY DEF Build
<1>2. new \in Row
  BY <1>1, RolloutAssumption DEF Row, IInv, TypeOK
<1>3. entry \in [doing : {"committing"}, row : Row]
  BY <1>2
<1>4. Known' = Known \cup {new}
  <2>1. Staged' = Staged \cup {new}
    <3>1. \A b \in Admins : work'[b] = IF b = a THEN entry ELSE work[b]
      BY <1>1 DEF IInv, TypeOK
    <3>2. entry.doing = "committing" /\ entry.row = new
      OBVIOUS
    <3> HIDE DEF new, entry
    <3> QED
      BY <3>1, <3>2 DEF Staged
  <2> QED
    BY <1>1, <2>1 DEF Known
<1>5. new.id = changes + 1 /\ new.at = clock
  OBVIOUS
<1> HIDE DEF new, entry
<1>6. \A r \in Known : r.id \in Nat /\ r.id <= changes
  <2>1. Known \subseteq Row
    BY DEF Known, Staged, IInv, TypeOK, Idle
  <2> QED
    BY <2>1 DEF IInv, Numbered, Row
<1>7. \A r1, r2 \in Known' : r1.id = r2.id => r1 = r2
  BY <1>1, <1>4, <1>5, <1>6 DEF IInv, TypeOK, Known
<1>8. TypeOK'
  <2>1. work' \in [Admins -> {Idle} \cup [doing : {"killing"}, percentage : Percentages]
                             \cup [doing : {"committing"}, row : Row]]
    BY <1>1, <1>3 DEF IInv, TypeOK
  <2>2. changes' \in 0..MaxChanges
    BY <1>1, RolloutAssumption DEF IInv, TypeOK
  <2> QED
    BY <1>1, <1>7, <2>1, <2>2 DEF IInv, TypeOK, Known
<1>9. Numbered'
  BY <1>1, <1>4, <1>5, <1>6 DEF Numbered, IInv, TypeOK
<1>10. Roomy'
  <2>1. IsFiniteSet(Known')
    BY <1>4, FS_AddElement DEF IInv, Roomy
  <2>2. ASSUME NEW t \in Nat
        PROVE  Cardinality({r \in Known' : r.at = t}) <= MaxPerTick
    <3> DEFINE before == {r \in Known : r.at = t}
    <3>1. IsFiniteSet(before) /\ Cardinality(before) \in Nat
      BY FS_Subset, FS_CardinalityType DEF IInv, Roomy
    <3>2. CASE t = clock
      <4>1. {r \in Known' : r.at = t} = before \cup {new}
        BY <1>4, <1>5, <3>2
      <4>2. Cardinality(before) < MaxPerTick
        BY <1>1, <3>2 DEF RoomAt, Known
      <4>3. /\ Cardinality(before \cup {new}) \in Nat
            /\ Cardinality(before \cup {new}) <= Cardinality(before) + 1
        BY <3>1, AddOne
      <4>4. MaxPerTick \in Nat
        BY RolloutAssumption
      <4>5. Cardinality(before \cup {new}) <= MaxPerTick
        <5> HIDE DEF before, new
        <5> QED
          BY <3>1, <4>2, <4>3, <4>4
      <4> QED
        BY <4>1, <4>5
    <3>3. CASE t # clock
      <4>1. {r \in Known' : r.at = t} = before
        BY <1>4, <1>5, <3>3
      <4> QED
        BY <4>1 DEF IInv, Roomy
    <3> QED
      BY <3>2, <3>3
  <2> QED
    BY <2>1, <2>2 DEF Roomy
<1> QED
  BY <1>8, <1>9, <1>10 DEF IInv

LEMMA CommitIInv ==
    ASSUME IInv, NEW a \in Admins, Commit(a)
    PROVE  IInv'
<1>1. /\ work[a].doing = "committing"
      /\ rows' = rows \cup {work[a].row}
      /\ work' = [work EXCEPT ![a] = Idle]
      /\ UNCHANGED <<inTurn, clock, changes, served, saw>>
  BY DEF Commit
<1>2. work[a].row \in Staged /\ work[a].row \in Row
  BY <1>1 DEF Staged, IInv, TypeOK, Idle
<1>3. Staged' \subseteq Staged
  BY <1>1 DEF Staged, IInv, TypeOK, Idle
<1>4. Known' \subseteq Known
  BY <1>1, <1>2, <1>3 DEF Known
<1>5. Numbered' /\ Roomy' /\ \A r1, r2 \in Known' : r1.id = r2.id => r1 = r2
  BY <1>1, <1>4, Shrinks
<1>6. TypeOK'
  BY <1>1, <1>2, <1>5 DEF IInv, TypeOK, Known
<1> QED
  BY <1>5, <1>6 DEF IInv

\* A request that is over, or a kill that has read, has no row on its way.
LEMMA WorkIInv ==
    ASSUME IInv, NEW a \in Admins,
           NEW entry \in {Idle} \cup [doing : {"killing"}, percentage : Percentages],
           work' = [work EXCEPT ![a] = entry],
           UNCHANGED <<inTurn, rows, clock, changes, served, saw>>
    PROVE  IInv'
<1>1. entry.doing # "committing"
  BY DEF Idle
<1>2. Known' \subseteq Known
  BY <1>1 DEF Known, Staged, IInv, TypeOK
<1>3. Numbered' /\ Roomy' /\ \A r1, r2 \in Known' : r1.id = r2.id => r1 = r2
  BY <1>2, Shrinks
<1>4. TypeOK'
  BY <1>3 DEF IInv, TypeOK, Known
<1> QED
  BY <1>3, <1>4 DEF IInv

\* Time, attempts and stuttering concern no row.
LEMMA QuietIInv ==
    ASSUME IInv, UNCHANGED <<inTurn, rows, changes, work>>, TypeOK'
    PROVE  IInv'
BY DEF IInv, Numbered, Roomy, Known, Staged

LEMMA StepIInv == IInv /\ [Next]_vars => IInv'
<1> SUFFICES ASSUME IInv, [Next]_vars PROVE IInv'
  OBVIOUS
<1>1. ASSUME NEW a \in Admins, SetRollout(a) PROVE IInv'
  <2>1. PICK on \in BOOLEAN, percentage \in Percentages : Build(a, on, percentage, FALSE)
    BY <1>1 DEF SetRollout, AcceptedPercentages
  <2>2. work[a].doing # "committing"
    BY <1>1 DEF SetRollout, MayStart, Idle
  <2> QED
    BY <2>1, <2>2, BuildIInv
<1>2. ASSUME NEW a \in Admins, KillRead(a) PROVE IInv'
  <2>1. PICK current \in Currents :
          work' = [work EXCEPT ![a] = [doing |-> "killing",
                                       percentage |-> current.percentage]]
    BY <1>2 DEF KillRead
  <2>2. current.percentage \in Percentages
    BY CurrentsTyped DEF IInv
  <2> QED
    BY <1>2, <2>1, <2>2, WorkIInv DEF KillRead
<1>3. ASSUME NEW a \in Admins, KillBuild(a) PROVE IInv'
  <2>1. work[a].doing = "killing" /\ work[a].percentage \in Percentages
    BY <1>3 DEF KillBuild, IInv, TypeOK, Idle
  <2> QED
    BY <1>3, <2>1, BuildIInv DEF KillBuild, KillPercentage
<1>4. ASSUME NEW a \in Admins, Commit(a) PROVE IInv'
  BY <1>4, CommitIInv
<1>5. ASSUME NEW a \in Admins, GiveUp(a) PROVE IInv'
  BY <1>5, WorkIInv DEF GiveUp
<1>6. CASE Tick
  <2>1. TypeOK'
    BY <1>6, RolloutAssumption DEF Tick, IInv, TypeOK, Staged
  <2> QED
    BY <1>6, <2>1, QuietIInv DEF Tick
<1>7. ASSUME NEW s \in Sessions, Attempt(s) PROVE IInv'
  <2>1. TypeOK'
    BY <1>7 DEF Attempt, IInv, TypeOK, Staged
  <2> QED
    BY <1>7, <2>1, QuietIInv DEF Attempt
<1>8. CASE UNCHANGED vars
  <2>1. TypeOK'
    BY <1>8 DEF vars, IInv, TypeOK, Staged
  <2> QED
    BY <1>8, <2>1, QuietIInv DEF vars
<1> QED
  BY <1>1, <1>2, <1>3, <1>4, <1>5, <1>6, <1>7, <1>8 DEF Next

THEOREM Inductive == Spec => []IInv
  BY InitIInv, StepIInv, PTL DEF Spec

-----------------------------------------------------------------------------
(* The setting in force *)

LEMMA RowsTyped ==
    ASSUME TypeOK, NEW r \in rows
    PROVE  /\ r.at \in Nat /\ r.on \in BOOLEAN /\ r.percentage \in Nat
           /\ Setting(r) = [on |-> r.on, percentage |-> r.percentage]
BY RolloutAssumption DEF TypeOK, Row, Percentages, Setting

\* Whatever two rows the query returns, the strictest of the newest is in force.
LEMMA CurrentIsStrictest ==
    ASSUME MaxPerTick <= 2, IInv, rows # {}, NEW current \in Currents
    PROVE  \E r \in rows : Strictest(r) /\ current = Setting(r)
<1>1. \A r \in rows : r.at \in Nat /\ r.on \in BOOLEAN /\ r.percentage \in Nat
  BY RowsTyped DEF IInv
<1>2. CASE Cardinality(rows) = 1
  <2>1. IsFiniteSet(rows)
    BY FS_Subset DEF IInv, Roomy, Known
  <2>2. PICK x : rows = {x}
    BY <1>2, <2>1, FS_Singleton
  <2>3. current = Setting(x)
    BY <1>2, <2>2 DEF Currents
  <2>4. Strictest(x)
    BY <1>1, <2>2 DEF Strictest, Newest
  <2> QED
    BY <2>2, <2>3, <2>4
<1>3. CASE Cardinality(rows) # 1
  <2>1. PICK a \in rows, b \in rows :
          /\ NewestFirst(a, b)
          /\ current = Setting(IF a.at = b.at THEN MoreRestrictive(a, b) ELSE a)
    BY <1>3 DEF Currents
  <2>2. a # b /\ a.at >= b.at /\ \A r \in rows \ {a, b} : r.at <= b.at
    BY <2>1 DEF NewestFirst
  <2>3. Newest(a, rows)
    BY <1>1, <2>2 DEF Newest
  <2>4. CASE a.at = b.at
    <3>1. Newest(b, rows)
      BY <1>1, <2>2, <2>4 DEF Newest
    <3>2. ASSUME NEW q \in rows, Newest(q, rows)
          PROVE  q = a \/ q = b
      <4>1. q.at = a.at
        BY <1>1, <2>3, <3>2 DEF Newest
      <4> QED
        BY <1>1, <2>2, <2>4, <4>1, TieOfTwo, RolloutAssumption DEF IInv, Known
    <3> DEFINE r == MoreRestrictive(a, b)
    <3>3. r \in {a, b}
      BY DEF MoreRestrictive
    <3>4. \A q \in {a, b} : (r.on => q.on) /\ (r.on = q.on => r.percentage <= q.percentage)
      BY <1>1 DEF MoreRestrictive
    <3>5. current = Setting(r)
      BY <2>1, <2>4
    <3> HIDE DEF r
    <3>6. Strictest(r)
      BY <2>3, <3>1, <3>2, <3>3, <3>4 DEF Strictest
    <3> QED
      BY <3>3, <3>5, <3>6
  <2>5. CASE a.at # b.at
    <3>1. \A q \in rows : Newest(q, rows) => q = a
      BY <1>1, <2>2, <2>5 DEF Newest
    <3>2. Strictest(a)
      BY <1>1, <2>3, <3>1 DEF Strictest
    <3> QED
      BY <2>1, <2>5, <3>2
  <2> QED
    BY <2>4, <2>5
<1> QED
  BY <1>2, <1>3

\* The same of the state after a step.
LEMMA NextCurrentIsStrictest ==
    ASSUME MaxPerTick <= 2
    PROVE  (IInv /\ rows # {} =>
              \A current \in Currents : \E r \in rows : Strictest(r) /\ current = Setting(r))'
<1>1. IInv /\ rows # {} =>
        \A current \in Currents : \E r \in rows : Strictest(r) /\ current = Setting(r)
  BY CurrentIsStrictest
<1> QED
  BY <1>1, PTL

\* So every reader decides alike: by what all the newest rows say,
LEMMA ReadersDecide ==
    ASSUME MaxPerTick <= 2, IInv, NEW current \in Currents, NEW s \in Sessions
    PROVE  Decide(current, s) <=> Allows(rows, s)
<1>1. CASE rows = {}
  BY <1>1 DEF Currents, Unconfigured, Decide, Allows
<1>2. CASE rows # {}
  <2>1. PICK r \in rows : Strictest(r) /\ current = Setting(r)
    BY <1>2, CurrentIsStrictest
  <2>2. current.on = r.on /\ current.percentage = r.percentage
    BY <2>1 DEF Setting
  <2>3. \A q \in rows : q.on \in BOOLEAN /\ q.percentage \in Nat
    BY RowsTyped DEF IInv
  <2>4. s \in Nat
    BY RolloutAssumption DEF Sessions
  <2>5. Newest(r, rows)
    BY <2>1 DEF Strictest
  <2>6. ASSUME Says(r, s), NEW q \in rows, Newest(q, rows)
        PROVE  Says(q, s)
    <3>1. r.on /\ s < r.percentage
      BY <2>6 DEF Says
    <3>2. q.on
      BY <2>1, <2>6, <3>1 DEF Strictest
    <3>3. r.on = q.on
      BY <2>3, <3>1, <3>2
    <3>4. r.percentage <= q.percentage
      BY <2>1, <2>6, <3>3 DEF Strictest
    <3>5. s < q.percentage
      BY <2>3, <2>4, <3>1, <3>4
    <3> QED
      BY <3>2, <3>5 DEF Says
  <2>7. Decide(current, s) <=> Says(r, s)
    BY <2>2 DEF Decide, Says
  <2> QED
    BY <2>5, <2>6, <2>7 DEF Allows
<1> QED
  BY <1>1, <1>2

\* and reads the same percentage.
LEMMA ReadersAgree ==
    ASSUME MaxPerTick <= 2, IInv, NEW c1 \in Currents, NEW c2 \in Currents
    PROVE  c1 = c2
<1>1. CASE rows = {}
  BY <1>1 DEF Currents
<1>2. CASE rows # {}
  <2>1. PICK r1 \in rows : Strictest(r1) /\ c1 = Setting(r1)
    BY <1>2, CurrentIsStrictest
  <2>2. PICK r2 \in rows : Strictest(r2) /\ c2 = Setting(r2)
    BY <1>2, CurrentIsStrictest
  <2>3. \A q \in rows : q.on \in BOOLEAN /\ q.percentage \in Nat
    BY RowsTyped DEF IInv
  <2>4. (r1.on => r2.on) /\ (r2.on => r1.on)
    BY <2>1, <2>2 DEF Strictest
  <2>5. r1.on = r2.on
    BY <2>3, <2>4
  <2>6. r1.percentage <= r2.percentage /\ r2.percentage <= r1.percentage
    BY <2>1, <2>2, <2>5 DEF Strictest
  <2>7. r1.percentage = r2.percentage
    BY <2>3, <2>6
  <2> QED
    BY <2>1, <2>2, <2>5, <2>7 DEF Setting
<1> QED
  BY <1>1, <1>2

LEMMA SomethingIsRead ==
    ASSUME Readable
    PROVE  Currents # {}
<1>1. CASE rows = {}
  BY <1>1 DEF Currents
<1>2. CASE \E a \in rows : rows = {a}
  <2>1. PICK a : rows = {a}
    BY <1>2
  <2>2. Cardinality({a}) = 1
    BY FS_Singleton
  <2>3. Setting(a) \in Currents
    BY <2>1, <2>2 DEF Currents
  <2> QED
    BY <2>3
<1>3. CASE rows # {} /\ \E a, b \in rows : NewestFirst(a, b)
  <2>1. PICK a \in rows, b \in rows : NewestFirst(a, b)
    BY <1>3
  <2>2. CASE Cardinality(rows) = 1
    <3>1. Setting(a) \in Currents
      BY <1>3, <2>2 DEF Currents
    <3> QED
      BY <3>1
  <2>3. CASE Cardinality(rows) # 1
    <3>1. Setting(IF a.at = b.at THEN MoreRestrictive(a, b) ELSE a)
            \in {Setting(IF a.at = c.at THEN MoreRestrictive(a, c) ELSE a) :
                    c \in {r \in rows : NewestFirst(a, r)}}
      BY <2>1
    <3>2. Setting(IF a.at = b.at THEN MoreRestrictive(a, b) ELSE a) \in Currents
      BY <1>3, <2>3, <3>1 DEF Currents
    <3> QED
      BY <3>2
  <2> QED
    BY <2>2, <2>3
<1> QED
  BY <1>1, <1>2, <1>3 DEF Readable

LEMMA OneMoreReadable ==
    ASSUME TypeOK, Readable, NEW k \in Row, rows' = rows \cup {k}
    PROVE  Readable'
<1>1. k.at \in Nat /\ \A r \in rows : r.at \in Nat
  BY RolloutAssumption DEF TypeOK, Row
<1>2. CASE rows = {}
  BY <1>2 DEF Readable
<1>3. CASE k \in rows
  <2>1. rows' = rows
    BY <1>3
  <2> QED
    BY <2>1 DEF Readable, NewestFirst
<1>4. ASSUME NEW a \in rows, rows = {a}, k \notin rows PROVE Readable'
  <2>1. rows' = {a, k} /\ a # k
    BY <1>4
  <2>2. NewestFirst(a, k)' \/ NewestFirst(k, a)'
    BY <1>1, <2>1 DEF NewestFirst
  <2> QED
    BY <2>1, <2>2 DEF Readable
<1>5. ASSUME NEW a \in rows, NEW b \in rows, NewestFirst(a, b), k \notin rows PROVE Readable'
  <2>1. NewestFirst(a, b)' \/ NewestFirst(a, k)' \/ NewestFirst(k, a)'
    BY <1>1, <1>5 DEF NewestFirst
  <2> QED
    BY <2>1 DEF Readable
<1> QED
  BY <1>2, <1>3, <1>4, <1>5 DEF Readable

LEMMA NextSomethingIsRead == (Readable => Currents # {})'
<1>1. Readable => Currents # {}
  BY SomethingIsRead
<1> QED
  BY <1>1, PTL

\* Some row is the newest, once there is one.
LEMMA NewestExists ==
    ASSUME TypeOK, Readable, rows # {}
    PROVE  \E r \in rows : Newest(r, rows)
<1>1. \A r \in rows : r.at \in Nat
  BY RowsTyped
<1>2. CASE \E a \in rows : rows = {a}
  BY <1>1, <1>2 DEF Newest
<1>3. ASSUME NEW a \in rows, NEW b \in rows, NewestFirst(a, b)
      PROVE  \E r \in rows : Newest(r, rows)
  BY <1>1, <1>3 DEF NewestFirst, Newest
<1> QED
  BY <1>2, <1>3 DEF Readable

-----------------------------------------------------------------------------
(* What readers and administrators know *)

LEMMA InitReadInv == Init => ReadInv
BY DEF Init, ReadInv, Readable, Past, Known, Staged, Cohorts, OneAtATime, Informed, Idle

LEMMA SameRows ==
    ASSUME UNCHANGED rows
    PROVE  /\ Readable' = Readable /\ Currents' = Currents
           /\ \A percentage : Keeps(percentage)' = Keeps(percentage)
BY DEF Readable, NewestFirst, Currents, Keeps

LEMMA BuildReadInv ==
    ASSUME IInv, ReadInv, NEW a \in Admins, work[a].doing # "committing",
           inTurn => \A b \in Admins \ {a} : work[b] = Idle,
           NEW on \in BOOLEAN, NEW percentage \in Percentages, NEW kill \in BOOLEAN,
           Build(a, on, percentage, kill),
           inTurn /\ kill => ~on /\ Keeps(percentage)
    PROVE  ReadInv'
<1> DEFINE new == [id |-> changes + 1, on |-> on, percentage |-> percentage,
                   at |-> clock, kill |-> kill]
           entry == [doing |-> "committing", row |-> new]
<1>1. /\ work' = [work EXCEPT ![a] = entry]
      /\ UNCHANGED <<inTurn, rows, clock, served, saw>>
  BY DEF Build
<1>2. /\ entry.doing = "committing" /\ entry.row = new /\ new.at = clock
      /\ new.kill = kill /\ new.on = on /\ new.percentage = percentage
  OBVIOUS
<1> HIDE DEF new, entry
<1>3. \A b \in Admins : work'[b] = IF b = a THEN entry ELSE work[b]
  BY <1>1 DEF IInv, TypeOK
<1>4. Readable' /\ Cohorts'
  BY <1>1, SameRows DEF ReadInv, Cohorts
<1>5. Past'
  <2>1. Known' \subseteq Known \cup {new}
    BY <1>1, <1>2, <1>3 DEF Known, Staged
  <2>2. clock <= clock
    BY RolloutAssumption DEF IInv, TypeOK
  <2> QED
    BY <1>1, <1>2, <2>1, <2>2 DEF ReadInv, Past
<1>6. ASSUME inTurn PROVE OneAtATime' /\ Informed'
  <2>1. \A b \in Admins \ {a} : work'[b] = Idle
    BY <1>3, <1>6
  <2>2. OneAtATime'
    BY <2>1 DEF OneAtATime
  <2>3. work'[a] = entry
    BY <1>3
  <2>4. \A r \in rows : r.at <= clock
    BY DEF ReadInv, Past, Known
  <2>5. Keeps(percentage)' = Keeps(percentage)
    BY <1>1, SameRows
  <2>6. Informed'
    BY <1>1, <1>2, <1>6, <2>1, <2>3, <2>4, <2>5 DEF Informed, Idle
  <2> QED
    BY <2>2, <2>6
<1> QED
  BY <1>1, <1>4, <1>5, <1>6 DEF ReadInv

LEMMA CommitReadInv ==
    ASSUME IInv, ReadInv, NEW a \in Admins, Commit(a)
    PROVE  ReadInv'
<1>1. /\ work[a].doing = "committing"
      /\ rows' = rows \cup {work[a].row}
      /\ work' = [work EXCEPT ![a] = Idle]
      /\ UNCHANGED <<inTurn, clock, changes, served, saw>>
  BY DEF Commit
<1>2. work[a].row \in Staged /\ work[a].row \in Row /\ work[a] # Idle
  BY <1>1 DEF Staged, IInv, TypeOK, Idle
<1>3. \A b \in Admins : work'[b] = IF b = a THEN Idle ELSE work[b]
  BY <1>1 DEF IInv, TypeOK
<1>4. Readable'
  BY <1>1, <1>2, OneMoreReadable DEF IInv, ReadInv
<1>5. Past'
  <2>1. Staged' \subseteq Staged
    BY <1>3 DEF Staged, Idle
  <2> QED
    BY <1>1, <1>2, <2>1 DEF ReadInv, Past, Known
<1>6. Cohorts'
  BY <1>1 DEF ReadInv, Cohorts
<1>7. ASSUME inTurn PROVE OneAtATime' /\ Informed'
  <2>1. \A b \in Admins : work'[b] = Idle
    BY <1>2, <1>3, <1>7 DEF ReadInv, OneAtATime
  <2> QED
    BY <2>1 DEF OneAtATime, Informed, Idle
<1> QED
  BY <1>1, <1>4, <1>5, <1>6, <1>7 DEF ReadInv

\* One administrator reads or gives up: no row is committed or on its way.
LEMMA WorkReadInv ==
    ASSUME IInv, ReadInv, NEW a \in Admins, NEW entry, entry.doing # "committing",
           work' = [work EXCEPT ![a] = entry],
           UNCHANGED <<inTurn, rows, clock, changes, served, saw>>,
           inTurn /\ entry # Idle => \A b \in Admins \ {a} : work[b] = Idle,
           inTurn /\ entry.doing = "killing" => Keeps(entry.percentage)
    PROVE  ReadInv'
<1>1. \A b \in Admins : work'[b] = IF b = a THEN entry ELSE work[b]
  BY DEF IInv, TypeOK
<1>2. Readable' /\ Cohorts'
  BY SameRows DEF ReadInv, Cohorts
<1>3. Past'
  <2>1. Staged' \subseteq Staged
    BY <1>1 DEF Staged
  <2> QED
    BY <2>1 DEF ReadInv, Past, Known
<1>4. ASSUME inTurn PROVE OneAtATime' /\ Informed'
  <2>1. OneAtATime'
    BY <1>1, <1>4 DEF ReadInv, OneAtATime
  <2>2. Informed'
    <3> SUFFICES ASSUME NEW b \in Admins
                 PROVE  /\ work'[b].doing = "killing" => Keeps(work'[b].percentage)
                        /\ work'[b].doing = "committing" =>
                            /\ \A r \in rows : r.at <= work'[b].row.at
                            /\ work'[b].row.kill =>
                                ~work'[b].row.on /\ Keeps(work'[b].row.percentage)
      BY SameRows DEF Informed
    <3>1. CASE b = a
      BY <1>1, <1>4, <3>1
    <3>2. CASE b # a
      BY <1>1, <1>4, <3>2 DEF ReadInv, Informed
    <3> QED
      BY <3>1, <3>2
  <2> QED
    BY <2>1, <2>2
<1> QED
  BY <1>2, <1>3, <1>4 DEF ReadInv

LEMMA AttemptReadInv ==
    ASSUME MaxPerTick <= 2, IInv, ReadInv, NEW s \in Sessions, Attempt(s)
    PROVE  ReadInv'
<1>1. PICK current \in Currents :
        served' = [served EXCEPT ![s] = IF Decide(current, s) THEN "generated"
                                        ELSE "template"]
  BY DEF Attempt
<1>2. saw' = [saw EXCEPT ![s] = rows] /\ UNCHANGED <<inTurn, rows, clock, changes, work>>
  BY DEF Attempt
<1>3. Decide(current, s) <=> Allows(rows, s)
  BY ReadersDecide
<1>4. Cohorts'
  <2>0. DOMAIN saw = Sessions
    BY DEF ReadInv, Cohorts
  <2> SUFFICES ASSUME NEW z \in Sessions
               PROVE  /\ served'[z] = "generated" => Allows(saw'[z], z)
                      /\ served'[z] = "template" => ~Allows(saw'[z], z)
    BY <1>2, <2>0 DEF Cohorts, Allows, Newest, Says
  <2>1. CASE z = s
    <3>1. served'[z] = IF Decide(current, s) THEN "generated" ELSE "template"
      BY <1>1, <2>1 DEF IInv, TypeOK
    <3>2. saw'[z] = rows
      BY <1>2, <2>0, <2>1
    <3> QED
      BY <1>2, <1>3, <2>1, <3>1, <3>2
  <2>2. CASE z # s
    <3>1. served'[z] = served[z] /\ saw'[z] = saw[z]
      BY <1>1, <1>2, <2>0, <2>2 DEF IInv, TypeOK
    <3> QED
      BY <3>1 DEF ReadInv, Cohorts
  <2> QED
    BY <2>1, <2>2
<1>5. Readable' /\ \A percentage : Keeps(percentage)' = Keeps(percentage)
  BY <1>2, SameRows DEF ReadInv
<1>6. Past'
  BY <1>2 DEF ReadInv, Past, Known, Staged
<1>7. inTurn => OneAtATime' /\ Informed'
  BY <1>2, <1>5 DEF ReadInv, OneAtATime, Informed
<1> QED
  BY <1>2, <1>4, <1>5, <1>6, <1>7 DEF ReadInv

LEMMA StepReadInv ==
    ASSUME MaxPerTick <= 2
    PROVE  IInv /\ ReadInv /\ [Next]_vars => ReadInv'
<1> SUFFICES ASSUME IInv, ReadInv, [Next]_vars PROVE ReadInv'
  OBVIOUS
<1>1. ASSUME NEW a \in Admins, SetRollout(a) PROVE ReadInv'
  <2>1. PICK on \in BOOLEAN, percentage \in Percentages : Build(a, on, percentage, FALSE)
    BY <1>1 DEF SetRollout, AcceptedPercentages
  <2>2. work[a].doing # "committing" /\ (inTurn => \A b \in Admins \ {a} : work[b] = Idle)
    BY <1>1 DEF SetRollout, MayStart, Idle
  <2> QED
    BY <2>1, <2>2, BuildReadInv
<1>2. ASSUME NEW a \in Admins, KillRead(a) PROVE ReadInv'
  <2>1. PICK current \in Currents :
          work' = [work EXCEPT ![a] = [doing |-> "killing",
                                       percentage |-> current.percentage]]
    BY <1>2 DEF KillRead
  <2> DEFINE entry == [doing |-> "killing", percentage |-> current.percentage]
  <2>2. /\ entry.doing = "killing" /\ entry.percentage = current.percentage
        /\ work' = [work EXCEPT ![a] = entry]
    BY <2>1
  <2>3. Keeps(current.percentage)
    BY ReadersAgree DEF Keeps
  <2>4. inTurn => \A b \in Admins \ {a} : work[b] = Idle
    BY <1>2 DEF KillRead, MayStart
  <2>5. UNCHANGED <<inTurn, rows, clock, changes, served, saw>>
    BY <1>2 DEF KillRead
  <2> HIDE DEF entry
  <2> QED
    BY <2>2, <2>3, <2>4, <2>5, WorkReadInv
<1>3. ASSUME NEW a \in Admins, KillBuild(a) PROVE ReadInv'
  <2>1. work[a].doing = "killing" /\ work[a].percentage \in Percentages /\ work[a] # Idle
    BY <1>3 DEF KillBuild, IInv, TypeOK, Idle
  <2>2. Build(a, FALSE, work[a].percentage, TRUE)
    BY <1>3 DEF KillBuild, KillPercentage
  <2>3. inTurn => \A b \in Admins \ {a} : work[b] = Idle
    BY <2>1 DEF ReadInv, OneAtATime
  <2>4. inTurn => Keeps(work[a].percentage)
    BY <2>1 DEF ReadInv, Informed
  <2> QED
    BY <2>1, <2>2, <2>3, <2>4, BuildReadInv
<1>4. ASSUME NEW a \in Admins, Commit(a) PROVE ReadInv'
  BY <1>4, CommitReadInv
<1>5. ASSUME NEW a \in Admins, GiveUp(a) PROVE ReadInv'
  <2>1. Idle.doing = "nothing"
    BY DEF Idle
  <2>2. /\ work' = [work EXCEPT ![a] = Idle]
        /\ UNCHANGED <<inTurn, rows, clock, changes, served, saw>>
    BY <1>5 DEF GiveUp
  <2> QED
    BY <2>1, <2>2, WorkReadInv
<1>6. CASE Tick
  <2>1. UNCHANGED <<inTurn, rows, changes, work, served, saw>> /\ clock' = clock + 1
    BY <1>6 DEF Tick
  <2>2. Readable' /\ \A percentage : Keeps(percentage)' = Keeps(percentage)
    BY <2>1, SameRows DEF ReadInv
  <2>3. Past'
    <3>1. clock \in Nat /\ \A r \in Known : r.at \in Nat
      BY RolloutAssumption DEF IInv, TypeOK, Known, Staged, Row, Idle
    <3>2. Known' = Known
      BY <2>1 DEF Known, Staged
    <3> QED
      BY <2>1, <3>1, <3>2 DEF ReadInv, Past
  <2>4. Cohorts' /\ (inTurn => OneAtATime' /\ Informed')
    BY <2>1, <2>2 DEF ReadInv, Cohorts, OneAtATime, Informed
  <2> QED
    BY <2>1, <2>2, <2>3, <2>4 DEF ReadInv
<1>7. ASSUME NEW s \in Sessions, Attempt(s) PROVE ReadInv'
  BY <1>7, AttemptReadInv
<1>8. CASE UNCHANGED vars
  BY <1>8, SameRows DEF vars, ReadInv, Past, Known, Staged, Cohorts, OneAtATime, Informed
<1> QED
  BY <1>1, <1>2, <1>3, <1>4, <1>5, <1>6, <1>7, <1>8 DEF Next

LEMMA ReadInductive ==
    ASSUME MaxPerTick <= 2
    PROVE  Spec => []ReadInv
BY InitReadInv, StepReadInv, Inductive, PTL DEF Spec

-----------------------------------------------------------------------------
(* Steps *)

LEMMA AttemptJustified ==
    ASSUME MaxPerTick <= 2, IInv, ReadInv, NEW s \in Sessions, Attempt(s)
    PROVE  /\ served[s] = "generated" /\ served'[s] = "template" =>
               \E r \in rows \ saw[s] : ~r.on \/ r.percentage <= s
           /\ served[s] = "template" /\ served'[s] = "generated" =>
               \E r \in rows \ saw[s] : r.on /\ s < r.percentage
<1>1. PICK current \in Currents :
        served' = [served EXCEPT ![s] = IF Decide(current, s) THEN "generated"
                                        ELSE "template"]
  BY DEF Attempt
<1>2. Decide(current, s) <=> Allows(rows, s)
  BY ReadersDecide
<1>3. served'[s] = IF Allows(rows, s) THEN "generated" ELSE "template"
  BY <1>1, <1>2 DEF IInv, TypeOK
<1>4. /\ saw[s] \subseteq rows /\ s \in Nat
      /\ \A r \in rows : r.at \in Nat /\ r.on \in BOOLEAN /\ r.percentage \in Nat
  BY RowsTyped, RolloutAssumption DEF IInv, TypeOK, Sessions
<1>5. ASSUME served[s] = "generated", served'[s] = "template"
      PROVE  \E r \in rows \ saw[s] : ~r.on \/ r.percentage <= s
  <2>1. Allows(saw[s], s) /\ ~Allows(rows, s)
    BY <1>3, <1>5 DEF ReadInv, Cohorts
  <2>2. \E r \in rows : Newest(r, rows)
    BY <1>4, <2>1, NewestExists DEF Allows, IInv, ReadInv
  <2>3. PICK r \in rows : Newest(r, rows) /\ ~Says(r, s)
    BY <2>1, <2>2 DEF Allows
  <2>4. r \notin saw[s]
    <3> SUFFICES ASSUME r \in saw[s] PROVE FALSE
      OBVIOUS
    <3>1. Newest(r, saw[s])
      BY <1>4, <2>3 DEF Newest
    <3> QED
      BY <2>1, <2>3, <3>1 DEF Allows
  <2>5. ~r.on \/ r.percentage <= s
    BY <1>4, <2>3 DEF Says
  <2> QED
    BY <2>4, <2>5
<1>6. ASSUME served[s] = "template", served'[s] = "generated"
      PROVE  \E r \in rows \ saw[s] : r.on /\ s < r.percentage
  <2>1. ~Allows(saw[s], s) /\ Allows(rows, s)
    BY <1>3, <1>6 DEF ReadInv, Cohorts
  <2>2. PICK r \in rows : Newest(r, rows) /\ Says(r, s)
    BY <2>1 DEF Allows
  <2>3. CASE r \notin saw[s]
    BY <2>2, <2>3 DEF Says
  <2>4. CASE r \in saw[s]
    <3>1. Newest(r, saw[s])
      BY <1>4, <2>2, <2>4 DEF Newest
    <3>2. \A q \in saw[s] : Newest(q, saw[s]) => Newest(q, rows)
      BY <1>4, <2>2, <2>4 DEF Newest
    <3>3. Allows(saw[s], s)
      BY <1>4, <2>1, <2>4, <3>1, <3>2 DEF Allows
    <3> QED
      BY <2>1, <3>3
  <2> QED
    BY <2>3, <2>4
<1> QED
  BY <1>5, <1>6

LEMMA KillCommits ==
    ASSUME MaxPerTick <= 2, IInv, IInv', ReadInv, ReadInv', inTurn,
           NEW a \in Admins, Commit(a), work[a].row \notin rows, work[a].row.kill
    PROVE  /\ {c.percentage : c \in Currents'} = {c.percentage : c \in Currents}
           /\ \A s \in Sessions, c \in Currents' : ~Decide(c, s)
<1> DEFINE k == work[a].row
<1>1. /\ rows' = rows \cup {k} /\ k \in rows'
      /\ \A r \in rows : r.at <= k.at
      /\ ~k.on /\ Keeps(k.percentage)
  BY DEF Commit, ReadInv, Informed
<1>2. k \notin rows
  OBVIOUS
<1>3. k \in Known
  BY DEF Commit, Known, Staged
<1> HIDE DEF k
<1>4. \A r \in rows' : r.at \in Nat /\ r.on \in BOOLEAN /\ r.percentage \in Nat
  BY RolloutAssumption DEF IInv, TypeOK, Row, Percentages
<1>5. Newest(k, rows')
  BY <1>1, <1>4 DEF Newest
<1>6. ASSUME NEW c \in Currents'
      PROVE  c.percentage = k.percentage /\ ~c.on
  <2>1. PICK r \in rows' : Strictest(r)' /\ c = Setting(r)
    <3>1. \E r \in rows' : Strictest(r)' /\ c = Setting(r)
      BY <1>1, <1>6, NextCurrentIsStrictest DEF Setting
    <3> QED
      BY <3>1
  <2>2. c.on = r.on /\ c.percentage = r.percentage
    BY <2>1 DEF Setting
  <2>3. Newest(r, rows') /\ ~r.on
    BY <1>1, <1>5, <2>1 DEF Strictest, Newest
  <2>4. r.at = k.at
    BY <1>1, <1>4, <1>5, <2>3 DEF Newest
  <2>5. r.percentage = k.percentage
    <3>1. CASE r = k
      BY <3>1
    <3>2. CASE r # k
      <4>1. r \in rows /\ rows # {}
        BY <1>1, <3>2
      <4>2. PICK c0 : c0 \in Currents
        BY SomethingIsRead DEF ReadInv
      <4>3. PICK q \in rows : Strictest(q) /\ c0 = Setting(q)
        BY <4>1, <4>2, CurrentIsStrictest
      <4>4. q.percentage = k.percentage
        BY <1>1, <4>2, <4>3 DEF Keeps, Setting
      <4>5. q.at = r.at
        <5>1. r.at <= q.at
          BY <4>1, <4>3 DEF Strictest, Newest
        <5>2. q.at <= r.at
          BY <1>1, <2>3 DEF Newest
        <5> QED
          BY <1>1, <1>4, <5>1, <5>2
      <4>6. q = r
        <5> SUFFICES ASSUME q # r PROVE FALSE
          OBVIOUS
        <5>1. q # k /\ q \in Known /\ r \in Known
          BY <1>2, <4>1 DEF Known
        <5>2. q.at \in Nat
          BY <1>1, <1>4
        <5>3. Roomy /\ MaxPerTick \in Nat
          BY RolloutAssumption DEF IInv
        <5>4. k.at # q.at
          BY <1>3, <3>2, <4>5, <5>1, <5>2, <5>3, TieOfTwo
        <5> QED
          BY <2>4, <4>5, <5>4
      <4> QED
        BY <4>4, <4>6
    <3> QED
      BY <3>1, <3>2
  <2> QED
    BY <2>2, <2>3, <2>5
<1>7. Currents' # {} /\ Currents # {}
  <2>1. Currents' # {}
    BY NextSomethingIsRead DEF ReadInv
  <2>2. Currents # {}
    BY SomethingIsRead DEF ReadInv
  <2> QED
    BY <2>1, <2>2
<1>8. {c.percentage : c \in Currents'} = {k.percentage}
  BY <1>6, <1>7
<1>9. {c.percentage : c \in Currents} = {k.percentage}
  BY <1>1, <1>7 DEF Keeps
<1> QED
  BY <1>6, <1>8, <1>9 DEF Decide

-----------------------------------------------------------------------------

\* Every variable keeps its type, and no two rows get the same id.
THEOREM TypeCorrect == Spec => []TypeOK
<1>1. IInv => TypeOK
  BY DEF IInv
<1> QED
  BY <1>1, Inductive, PTL

\* While at most two changes share a timestamp, generation is on only if it was
\* switched on strictly after every time it was switched off.
THEOREM TiesGoToTheKill ==
    ASSUME MaxPerTick <= 2
    PROVE  Spec => []KillWinsTies
<1>1. IInv => KillWinsTies
  <2> SUFFICES ASSUME IInv,
                      NEW current \in Currents, current.on,
                      NEW off \in rows, ~off.on
               PROVE  \E on \in rows : on.on /\ on.at > off.at
    BY DEF KillWinsTies
  <2>1. rows \subseteq Row /\ \A r \in rows : r.at \in Nat /\ r.on \in BOOLEAN
    BY RolloutAssumption DEF IInv, TypeOK, Row
  <2>2. CASE Cardinality(rows) = 1
    <3>1. IsFiniteSet(rows)
      BY FS_Subset DEF IInv, Roomy, Known
    <3>2. PICK x : rows = {x}
      BY <2>2, <3>1, FS_Singleton
    <3> QED
      BY <2>1, <2>2, <3>2 DEF Currents, Setting
  <2>3. CASE Cardinality(rows) # 1
    <3>1. PICK a \in rows, b \in rows :
            /\ NewestFirst(a, b)
            /\ current = Setting(IF a.at = b.at THEN MoreRestrictive(a, b) ELSE a)
      BY <2>3 DEF Currents
    <3>2. a # b /\ a.at >= b.at /\ \A r \in rows \ {a, b} : r.at <= b.at
      BY <3>1 DEF NewestFirst
    <3>3. CASE a.at = b.at
      <4>1. MoreRestrictive(a, b).on
        BY <3>1, <3>3 DEF Setting
      <4>2. a.on /\ b.on
        BY <2>1, <4>1 DEF MoreRestrictive
      <4>3. off # a /\ off # b
        BY <4>2
      <4>4. off.at # a.at
        BY <2>1, <3>2, <3>3, <4>3, TieOfTwo, RolloutAssumption DEF IInv, Known
      <4> QED
        BY <2>1, <3>2, <3>3, <4>2, <4>3, <4>4
    <3>4. CASE a.at # b.at
      <4>1. a.on
        BY <3>1, <3>4 DEF Setting
      <4>2. off.at <= b.at
        BY <2>1, <3>2, <4>1
      <4> QED
        BY <2>1, <3>2, <3>4, <4>1, <4>2
    <3> QED
      BY <3>3, <3>4
  <2> QED
    BY <2>2, <2>3
<1> QED
  BY <1>1, Inductive, PTL
\* rollout.py:13 and 22-26, admin.py:172, while at most two changes share a
\* timestamp: a session changes sides only for a change committed since its last
\* attempt that says so, however administrators overlap; and a kill by administrators
\* who wait for one another switches every session off and keeps the percentage.
THEOREM ChangesDoWhatTheySay ==
    ASSUME MaxPerTick <= 2
    PROVE  Spec => ChangesMeanWhatTheySay
<1> DEFINE Justified(s) ==
               /\ served[s] = "generated" /\ served'[s] = "template" =>
                   \E r \in rows \ saw[s] : ~r.on \/ r.percentage <= s
               /\ served[s] = "template" /\ served'[s] = "generated" =>
                   \E r \in rows \ saw[s] : r.on /\ s < r.percentage
           Effective ==
               inTurn => \A r \in rows' \ rows : r.kill =>
                   /\ {c.percentage : c \in Currents'} = {c.percentage : c \in Currents}
                   /\ \A s \in Sessions, c \in Currents' : ~Decide(c, s)
<1>1. ASSUME IInv, ReadInv, [Next]_vars
      PROVE  \A s \in Sessions : Justified(s)
  <2> SUFFICES ASSUME NEW s \in Sessions PROVE Justified(s)
    OBVIOUS
  <2>1. CASE Attempt(s)
    BY <1>1, <2>1, AttemptJustified
  <2>2. ASSUME NEW z \in Sessions, Attempt(z), z # s PROVE Justified(s)
    <3>1. served'[s] = served[s]
      BY <1>1, <2>2 DEF Attempt, IInv, TypeOK
    <3> QED
      BY <3>1
  <2>3. CASE UNCHANGED served
    BY <2>3
  <2>4. Attempt(s) \/ (\E z \in Sessions : Attempt(z) /\ z # s) \/ UNCHANGED served
    BY <1>1 DEF Next, SetRollout, KillRead, KillBuild, Build, Commit, GiveUp, Tick, vars
  <2> QED
    BY <2>1, <2>2, <2>3, <2>4
<1>2. ASSUME IInv, ReadInv, [Next]_vars, IInv', ReadInv'
      PROVE  Effective
  <2>1. ASSUME inTurn, NEW a \in Admins, Commit(a), NEW r \in rows' \ rows, r.kill
        PROVE  /\ {c.percentage : c \in Currents'} = {c.percentage : c \in Currents}
               /\ \A s \in Sessions, c \in Currents' : ~Decide(c, s)
    <3>1. r = work[a].row
      BY <2>1 DEF Commit
    <3> QED
      BY <1>2, <2>1, <3>1, KillCommits
  <2>2. (\E a \in Admins : Commit(a)) \/ UNCHANGED rows
    BY <1>2 DEF Next, SetRollout, KillRead, KillBuild, Build, GiveUp, Tick, Attempt, vars
  <2> QED
    BY <2>1, <2>2
<1> QED
  BY <1>1, <1>2, Inductive, ReadInductive, PTL DEF Spec, ChangesMeanWhatTheySay,
     FlipsJustified, KillTakesEffect
=============================================================================
