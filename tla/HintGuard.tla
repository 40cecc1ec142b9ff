------------------------------ MODULE HintGuard ------------------------------
(***************************************************************************)
(* What the hint pipeline promises a child, with nothing said about how:   *)
(* words are shown only after they were cleared, the model is asked for    *)
(* free text at most MaxFree times, and a draft that is turned down is     *)
(* replaced by another draft or by nothing.  Swarm.tla implements this.    *)
(***************************************************************************)
EXTENDS Naturals

CONSTANT MaxFree    \* free (model-written) drafts one attempt may spend

VARIABLES
    phase,          \* where the current draft stands
    kind,           \* who wrote it
    spent           \* free drafts asked for so far

guardVars == <<phase, kind, spent>>

Phases == {"drafting", "draft", "cleared", "shown", "withdrawn"}
Kinds  == {"none", "free", "template"}

GuardInit == phase = "drafting" /\ kind = "none" /\ spent = 0

DraftFree ==
    /\ phase = "drafting" /\ spent < MaxFree
    /\ phase' = "draft" /\ kind' = "free" /\ spent' = spent + 1

DraftTemplate ==
    /\ phase = "drafting"
    /\ phase' = "draft" /\ kind' = "template" /\ UNCHANGED spent

Clear == phase = "draft" /\ phase' = "cleared" /\ UNCHANGED <<kind, spent>>

\* A rejected free draft may be replaced; a rejected template may not, because
\* it would come out word for word the same.
Reject ==
    /\ phase = "draft"
    /\ phase' = IF kind = "free" THEN "drafting" ELSE "withdrawn"
    /\ kind' = "none" /\ UNCHANGED spent

GiveUp == phase = "drafting" /\ phase' = "withdrawn" /\ UNCHANGED <<kind, spent>>

Show == phase = "cleared" /\ phase' = "shown" /\ UNCHANGED <<kind, spent>>

GuardNext == DraftFree \/ DraftTemplate \/ Clear \/ Reject \/ GiveUp \/ Show

GuardSpec == GuardInit /\ [][GuardNext]_guardVars
=============================================================================
