------------------------------ MODULE ModelCalls ------------------------------
(***************************************************************************)
(* Model calls and their ledger (packages/llm/), with prompts from the     *)
(* library an instance was deployed with (PromptRegistry.tla), and the     *)
(* spending an operator reads off the ledger                               *)
(* (packages/telemetry/economics.py).  Calls overlap; instances of several *)
(* releases serve at once.                                                 *)
(***************************************************************************)
EXTENDS PromptRegistry

CONSTANTS
    Calls,          \* calls of LLMClient.complete
    Instances,      \* serving processes
    Models,         \* model ids that are asked for or say they served
    Asked,          \* TIER_MODELS: those asked for
    Supplied,       \* the sets of values that stages render with
    Price,          \* PRICING: per priced model, the rate of each day
    LastDay,        \* bound: days
    Usages          \* token counts that replies report

ASSUME CallsAssumption ==
    /\ Asked \subseteq Models /\ Supplied \subseteq SUBSET STRING
    /\ LastDay \in Nat /\ Usages \subseteq Nat
    /\ DOMAIN Price \subseteq Models /\ Asked \subseteq DOMAIN Price
    /\ \A m \in DOMAIN Price : Price[m] \in [0..LastDay -> Nat]

VARIABLES
    image,      \* per instance, the library it loads templates from
    call,       \* per call, how far complete() is
    ledger,     \* llm_call rows
    today

callVars == <<image, call, ledger, today>>
vars == <<registryVars, callVars>>

Prompt == [version : Names, text : Texts]
Reply == [kind : {"answer", "refusal"}, model : Models, tokens : Usages]
         \cup [kind : {"outage", "crash"}]
Row == [call : Calls, version : Names, text : Texts, model : Models, tokens : Nat,
        cost : Nat, ok : BOOLEAN, day : 0..LastDay]
Idle == [at |-> "idle"]

Sending == [at : {"provider"}, prompt : Prompt, asked : Asked]
Replied == [at : {"recording", "recorded", "escaped"}, prompt : Prompt, asked : Asked,
            reply : Reply]
Ended == [at : {"returned"}, prompt : Prompt, asked : Asked, reply : Reply, cost : Nat]
         \cup [at : {"raised"}, prompt : Prompt, asked : Asked, reply : Reply]

-----------------------------------------------------------------------------
(* Rendering and sending *)

Deploy(i) ==
    /\ \E library \in released : image' = [image EXCEPT ![i] = library]
    /\ UNCHANGED <<registryVars, call, ledger, today>>

\* render: the version must exist, and its slots be exactly the values supplied.
Renders(library, n, values) == n \in DOMAIN library /\ Slots[library[n]] = values

\* A stage renders and enters complete().  One whose prompt does not render
\* raises before it makes a call.
Send(c, i, n) ==
    /\ call[c] = Idle
    /\ \E values \in Supplied : Renders(image[i], n, values)
    /\ \E m \in Asked :
        call' = [call EXCEPT ![c] =
            [at |-> "provider", prompt |-> [version |-> n, text |-> image[i][n]],
             asked |-> m]]
    /\ UNCHANGED <<registryVars, image, ledger, today>>

\* The provider answers, declines, fails, or the transport raises anything else.
Hear(c) ==
    /\ call[c].at = "provider"
    /\ \E reply \in Reply :
        call' = [call EXCEPT ![c] =
            [at |-> "recording", prompt |-> call[c].prompt, asked |-> call[c].asked,
             reply |-> reply]]
    /\ UNCHANGED <<registryVars, image, ledger, today>>

-----------------------------------------------------------------------------
(* _record *)

Reported(reply) == reply.kind \in {"answer", "refusal"}

\* Mutant: only an answer has usage.
UsageOfAnswer(reply) == IF reply.kind = "answer" THEN reply.tokens ELSE 0
UsageOf(reply) == IF Reported(reply) THEN reply.tokens ELSE 0

\* The model that says it served goes before the one asked for.
BilledModel(reply, asked) == IF Reported(reply) THEN reply.model ELSE asked

Cost(model, tokens) == Price[model][today] * tokens

RowOf(c) ==
    LET model == BilledModel(call[c].reply, call[c].asked)
        tokens == UsageOf(call[c].reply)
    IN  [call |-> c, version |-> call[c].prompt.version, text |-> call[c].prompt.text,
         model |-> model, tokens |-> tokens, cost |-> Cost(model, tokens),
         ok |-> call[c].reply.kind = "answer", day |-> today]

\* Mutant: a call is recorded again on its way out.
RecordAgain(c) ==
    /\ call[c].at = "recording"
    /\ BilledModel(call[c].reply, call[c].asked) \in DOMAIN Price
    /\ ledger' = ledger \cup {RowOf(c)}
    /\ call' = [call EXCEPT ![c].at = IF call[c].reply.kind = "answer"
                                     THEN "recorded" ELSE "recording"]
    /\ UNCHANGED <<registryVars, image, today>>
\* The row is committed.
Record(c) ==
    /\ call[c].at = "recording"
    /\ BilledModel(call[c].reply, call[c].asked) \in DOMAIN Price
    /\ ledger' = ledger \cup {RowOf(c)}
    /\ call' = [call EXCEPT ![c].at = "recorded"]
    /\ UNCHANGED <<registryVars, image, today>>

\* cost_usd knows no price for the model: the error goes out of the finally.
Unpriced(c) ==
    /\ call[c].at = "recording"
    /\ BilledModel(call[c].reply, call[c].asked) \notin DOMAIN Price
    /\ call' = [call EXCEPT ![c].at = "escaped"]
    /\ UNCHANGED <<registryVars, image, ledger, today>>

\* The commit fails.
Uncommitted(c) ==
    /\ call[c].at = "recording"
    /\ call' = [call EXCEPT ![c].at = "escaped"]
    /\ UNCHANGED <<registryVars, image, ledger, today>>

\* An answer is costed once more for the caller; anything else is raised again.
Return(c) ==
    /\ call[c].at = "recorded"
    /\ LET reply == call[c].reply
       IN  call' = [call EXCEPT ![c] =
               IF reply.kind = "answer"
               THEN [at |-> "returned", prompt |-> call[c].prompt, asked |-> call[c].asked,
                     reply |-> reply, cost |-> Cost(reply.model, reply.tokens)]
               ELSE [at |-> "raised", prompt |-> call[c].prompt, asked |-> call[c].asked,
                     reply |-> reply]]
    /\ UNCHANGED <<registryVars, image, ledger, today>>

Midnight ==
    /\ today < LastDay
    /\ today' = today + 1
    /\ UNCHANGED <<registryVars, image, call, ledger>>

-----------------------------------------------------------------------------
(* What the operator reads *)

Segment(rows) ==
    [calls |-> Cardinality(rows), cost |-> MapThenSumSet(LAMBDA r : r.cost, rows)]

\* economics: one segment per version that has a row.
ByVersion ==
    [v \in {r.version : r \in ledger} |-> Segment({r \in ledger : r.version = v})]

-----------------------------------------------------------------------------

Init ==
    /\ RegistryInit
    /\ image = [i \in Instances |-> <<>>]
    /\ call = [c \in Calls |-> Idle]
    /\ ledger = {} /\ today = 0

Next ==
    \/ RegistryNext /\ UNCHANGED callVars
    \/ \E i \in Instances : Deploy(i)
    \/ \E c \in Calls :
        \/ \E i \in Instances, n \in Names : Send(c, i, n)
        \/ Hear(c) \/ Record(c) \/ Unpriced(c) \/ Uncommitted(c) \/ Return(c)
    \/ Midnight

Spec == Init /\ [][Next]_vars

-----------------------------------------------------------------------------
(* Properties *)

\* Every variable holds a value of its kind; a call has one row.
TypeOK ==
    /\ files \in Library /\ lock \in Library /\ released \subseteq Library
    /\ image \in [Instances -> Library]
    /\ call \in [Calls -> {Idle} \cup Sending \cup Replied \cup Ended]
    /\ ledger \subseteq Row /\ today \in 0..LastDay
    /\ \A r1, r2 \in ledger : r1.call = r2.call => r1 = r2

\* registry.py:5: the version recorded against a call identifies the text that was
\* sent, over edits in place, new versions, deploys and rollbacks, and instances of
\* different releases; and the row keeps that text's hash.
VersionNamesText ==
    /\ \A r1, r2 \in ledger : r1.version = r2.version => r1.text = r2.text
    /\ \A r \in ledger : r.text = call[r.call].prompt.text

\* What calls that ended cost by what the provider reported, at the rate of a day.
Bill(c, day) == Price[call[c].reply.model][day] * call[c].reply.tokens
Ends(c) == call[c].at \in {"returned", "raised"}

\* A call that ended has one row, with the usage that was reported and the model
\* that says it served, refusals included, and what the operator reads per version
\* is what calls with that version's text were billed.
SpendAccounted ==
    /\ \A c \in Calls : Ends(c) =>
        \E r \in ledger :
            /\ {x \in ledger : x.call = c} = {r}
            /\ r.cost = IF Reported(call[c].reply) THEN Bill(c, r.day) ELSE 0
    /\ \A v \in DOMAIN ByVersion :
        ByVersion[v].cost =
            MapThenSumSet(LAMBDA r : IF Reported(call[r.call].reply)
                                     THEN Bill(r.call, r.day) ELSE 0,
                          {r \in ledger : call[r.call].prompt.version = v})
=============================================================================
