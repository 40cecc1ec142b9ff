--------------------------- MODULE ModelCallsProofs ---------------------------
(***************************************************************************)
(* Proofs that a prompt version names one text in the whole ledger, and    *)
(* that the ledger accounts for what every call cost, for any library, any *)
(* releases, any prices and any number of overlapping calls.               *)
(***************************************************************************)
EXTENDS ModelCalls, TLAPS

\* A library that agrees with the lock, and a prompt that does.  The lock's
\* entries only grow in number, so agreement lasts.
Agrees(library) ==
    DOMAIN library \subseteq DOMAIN lock /\ \A n \in DOMAIN library : lock[n] = library[n]
Named(prompt) == prompt.version \in DOMAIN lock /\ lock[prompt.version] = prompt.text

Deployed == \A library \in released : Agrees(library)
Serving == \A i \in Instances : Agrees(image[i])
Sent == \A c \in Calls : call[c] # Idle => Named(call[c].prompt)
Rows == \A r \in ledger :
    /\ call[r.call].at \in {"recorded", "returned", "raised"}
    /\ r.version = call[r.call].prompt.version /\ r.text = call[r.call].prompt.text

\* A call is recorded only under a model that has a price.
Priced == \A c \in Calls :
    call[c].at = "recorded" => BilledModel(call[c].reply, call[c].asked) \in DOMAIN Price

IInv == TypeOK /\ Deployed /\ Serving /\ Sent /\ Rows /\ Priced

\* What a row should say its call cost, by the reply the call still holds; every
\* row says it, and a call that was recorded or ended has a row.
Due(r) == IF Reported(call[r.call].reply) THEN Bill(r.call, r.day) ELSE 0
Rated == \A r \in ledger : r.cost = Due(r)
Settled == {"recorded", "returned", "raised"}
HasRow == \A c \in Calls : call[c].at \in Settled => \E r \in ledger : r.call = c

SpendInv == Rated /\ HasRow

-----------------------------------------------------------------------------
(* Libraries *)

LEMMA LibraryShape ==
    ASSUME NEW f
    PROVE  f \in Library <=> DOMAIN f \subseteq Names /\ f \in [DOMAIN f -> Texts]
BY DEF Library

LEMMA Adding ==
    ASSUME NEW f \in Library, NEW n \in Names, NEW t \in Texts
    PROVE  /\ With(f, n, t) \in Library
           /\ DOMAIN With(f, n, t) = DOMAIN f \cup {n}
           /\ With(f, n, t)[n] = t
           /\ \A m \in DOMAIN f \ {n} : With(f, n, t)[m] = f[m]
<1> DEFINE g == With(f, n, t)
<1>1. g = [m \in DOMAIN f \cup {n} |-> IF m = n THEN t ELSE f[m]]
  BY DEF With
<1>2. f \in [DOMAIN f -> Texts] /\ DOMAIN f \subseteq Names
  BY LibraryShape
<1>3. g \in [DOMAIN f \cup {n} -> Texts] /\ DOMAIN f \cup {n} \in SUBSET Names
  BY <1>1, <1>2
<1> HIDE DEF g
<1>4. g \in Library
  BY <1>3 DEF Library
<1> QED
  BY <1>1, <1>4 DEF g

LEMMA Removing ==
    ASSUME NEW f \in Library, NEW n
    PROVE  Restrict(f, DOMAIN f \ {n}) \in Library
<1>1. f \in [DOMAIN f -> Texts] /\ DOMAIN f \subseteq Names
  BY LibraryShape
<1>2. Restrict(f, DOMAIN f \ {n}) \in [DOMAIN f \ {n} -> Texts]
  BY <1>1 DEF Restrict
<1>3. DOMAIN f \ {n} \in SUBSET Names
  BY <1>1
<1> QED
  BY <1>2, <1>3 DEF Library

-----------------------------------------------------------------------------
(* Rows and calls *)

LEMMA RowTyped ==
    ASSUME TypeOK, NEW c \in Calls, call[c].at = "recording",
           BilledModel(call[c].reply, call[c].asked) \in DOMAIN Price
    PROVE  RowOf(c) \in Row
<1>1. call[c] \in Replied
  BY DEF TypeOK, Idle, Sending, Replied, Ended
<1>2. call[c].prompt \in Prompt /\ call[c].reply \in Reply /\ call[c].asked \in Asked
  BY <1>1 DEF Replied
<1>3. UsageOf(call[c].reply) \in Nat
  BY <1>2, CallsAssumption DEF UsageOf, Reported, Reply
<1>4. BilledModel(call[c].reply, call[c].asked) \in Models
  BY CallsAssumption
<1>5. Cost(BilledModel(call[c].reply, call[c].asked), UsageOf(call[c].reply)) \in Nat
  <2>1. today \in 0..LastDay
    BY DEF TypeOK
  <2>2. Price[BilledModel(call[c].reply, call[c].asked)][today] \in Nat
    BY <2>1, CallsAssumption
  <2> QED
    BY <1>3, <2>2 DEF Cost
<1>6. call[c].prompt.version \in Names /\ call[c].prompt.text \in Texts
  BY <1>2 DEF Prompt
<1>7. today \in 0..LastDay
  BY DEF TypeOK
<1> QED
  BY <1>3, <1>4, <1>5, <1>6, <1>7 DEF RowOf, Row

LEMMA ReplyOf ==
    ASSUME TypeOK, NEW c \in Calls,
           call[c].at \in {"recording", "recorded", "escaped"}
    PROVE  /\ call[c] \in Replied /\ call[c] # Idle
           /\ call[c].prompt \in Prompt /\ call[c].reply \in Reply /\ call[c].asked \in Asked
BY DEF TypeOK, Idle, Sending, Replied, Ended

\* A step that changes nothing but one call, and keeps that call's prompt.
LEMMA KeepsPrompts ==
    ASSUME IInv, NEW c \in Calls, call[c] # Idle,
           NEW new, call' = [call EXCEPT ![c] = new],
           new \in Sending \cup Replied \cup Ended, new.prompt = call[c].prompt,
           call[c].at = "recorded" => new.at \in {"returned", "raised"},
           new.at # "recorded",
           call[c].at \in {"provider", "recording", "recorded"},
           UNCHANGED <<registryVars, image, ledger, today>>
    PROVE  IInv'
<1>1. TypeOK'
  BY DEF IInv, TypeOK, registryVars
<1>2. Deployed' /\ Serving'
  BY DEF IInv, Deployed, Serving, Agrees, registryVars
<1>3. Sent'
  <2> SUFFICES ASSUME NEW d \in Calls, call'[d] # Idle
               PROVE  Named(call[d].prompt)'
    BY DEF Sent
  <2>1. call'[d].prompt = call[d].prompt /\ call[d] # Idle
    BY DEF IInv, TypeOK
  <2> QED
    BY <2>1 DEF IInv, Sent, Named, registryVars
<1>4. Rows'
  <2> SUFFICES ASSUME NEW r \in ledger
               PROVE  /\ call'[r.call].at \in {"recorded", "returned", "raised"}
                      /\ r.version = call'[r.call].prompt.version
                      /\ r.text = call'[r.call].prompt.text
    BY DEF Rows
  <2>1. r.call \in Calls
    BY DEF IInv, TypeOK, Row
  <2>2. /\ call[r.call].at \in {"recorded", "returned", "raised"}
        /\ r.version = call[r.call].prompt.version /\ r.text = call[r.call].prompt.text
    BY DEF IInv, Rows
  <2>3. CASE r.call = c
    BY <2>1, <2>2, <2>3 DEF IInv, TypeOK
  <2>4. CASE r.call # c
    BY <2>1, <2>2, <2>4 DEF IInv, TypeOK
  <2> QED
    BY <2>3, <2>4
<1>5. Priced'
  BY DEF IInv, TypeOK, Priced
<1> QED
  BY <1>1, <1>2, <1>3, <1>4, <1>5 DEF IInv

-----------------------------------------------------------------------------
(* Steps *)

LEMMA InitOK == Init => IInv
<1> SUFFICES ASSUME Init PROVE IInv
  OBVIOUS
<1>1. <<>> \in Library
  <2>1. DOMAIN <<>> = {}
    OBVIOUS
  <2>2. <<>> \in [{} -> Texts]
    OBVIOUS
  <2> QED
    BY <2>2 DEF Library
<1>2. TypeOK
  BY <1>1, CallsAssumption DEF Init, RegistryInit, TypeOK
<1>3. Agrees(<<>>)
  BY DEF Agrees
<1>4. Deployed /\ Serving
  BY <1>3 DEF Init, RegistryInit, Deployed, Serving
<1>5. Sent /\ Rows /\ Priced
  BY DEF Init, Sent, Rows, Priced, Idle
<1> QED
  BY <1>2, <1>4, <1>5 DEF IInv

\* Authors: the lock keeps what it says, and what is released agrees with it.
LEMMA RegistryStep ==
    ASSUME IInv, RegistryNext, UNCHANGED callVars
    PROVE  IInv'
<1> USE DEF callVars
<1>1. ASSUME NEW n \in Names, NEW t \in Texts, Write(n, t)
      PROVE  IInv'
  <2>1. files' \in Library
    BY <1>1, Adding DEF Write, IInv, TypeOK
  <2>2. TypeOK'
    BY <1>1, <2>1 DEF Write, IInv, TypeOK
  <2> QED
    BY <1>1, <2>2 DEF Write, IInv, Deployed, Serving, Agrees, Sent, Named, Rows, Priced
<1>2. ASSUME NEW n \in Names, Remove(n)
      PROVE  IInv'
  <2>1. files' \in Library
    BY <1>2, Removing DEF Remove, IInv, TypeOK
  <2>2. TypeOK'
    BY <1>2, <2>1 DEF Remove, IInv, TypeOK
  <2> QED
    BY <1>2, <2>2 DEF Remove, IInv, Deployed, Serving, Agrees, Sent, Named, Rows, Priced
<1>3. ASSUME NEW n \in Names, Publish(n)
      PROVE  IInv'
  <2>1. n \in DOMAIN files /\ files[n] \in Texts
    BY <1>3, LibraryShape DEF Publish, MayPublish, IInv, TypeOK
  <2>2. /\ lock' \in Library
        /\ DOMAIN lock' = DOMAIN lock \cup {n}
        /\ \A m \in DOMAIN lock : lock'[m] = lock[m]
    <3>1. n \in DOMAIN lock => lock[n] = files[n]
      BY <1>3 DEF Publish, MayPublish
    <3>2. lock' = With(lock, n, files[n]) /\ lock \in Library
      BY <1>3 DEF Publish, IInv, TypeOK
    <3>3. /\ With(lock, n, files[n]) \in Library
          /\ DOMAIN With(lock, n, files[n]) = DOMAIN lock \cup {n}
          /\ With(lock, n, files[n])[n] = files[n]
          /\ \A m \in DOMAIN lock \ {n} : With(lock, n, files[n])[m] = lock[m]
      BY <2>1, <3>2, Adding
    <3> QED
      BY <3>1, <3>2, <3>3
  <2>3. TypeOK'
    BY <1>3, <2>2 DEF Publish, IInv, TypeOK
  <2>4. \A library : Agrees(library) => Agrees(library)'
    BY <2>2 DEF Agrees
  <2>5. Deployed' /\ Serving'
    BY <1>3, <2>4 DEF Publish, IInv, Deployed, Serving
  <2>6. \A prompt : Named(prompt) => Named(prompt)'
    BY <2>2 DEF Named
  <2>7. Sent' /\ Rows' /\ Priced'
    BY <1>3, <2>6 DEF Publish, IInv, Sent, Rows, Priced
  <2> QED
    BY <2>3, <2>5, <2>7 DEF IInv
<1>4. ASSUME Release
      PROVE  IInv'
  <2>1. Agrees(files)
    BY <1>4 DEF Release, Problems, Gone, Changed, Unpublished, Agrees
  <2>2. TypeOK'
    BY <1>4 DEF Release, IInv, TypeOK
  <2>3. Deployed'
    BY <1>4, <2>1 DEF Release, IInv, Deployed, Agrees
  <2> QED
    BY <1>4, <2>2, <2>3 DEF Release, IInv, Serving, Agrees, Sent, Named, Rows, Priced
<1> QED
  BY <1>1, <1>2, <1>3, <1>4 DEF RegistryNext

LEMMA DeployStep ==
    ASSUME IInv, NEW i \in Instances, Deploy(i)
    PROVE  IInv'
<1>1. PICK library \in released : image' = [image EXCEPT ![i] = library]
  BY DEF Deploy
<1>2. TypeOK'
  BY <1>1 DEF Deploy, IInv, TypeOK, registryVars
<1>3. Serving'
  BY <1>1 DEF Deploy, IInv, TypeOK, Deployed, Serving, Agrees, registryVars
<1> QED
  BY <1>2, <1>3 DEF Deploy, IInv, Deployed, Agrees, Sent, Named, Rows, Priced, registryVars

LEMMA SendStep ==
    ASSUME IInv, NEW c \in Calls, NEW i \in Instances, NEW n \in Names, Send(c, i, n)
    PROVE  IInv'
<1>1. n \in DOMAIN image[i] /\ image[i][n] \in Texts /\ Agrees(image[i])
  BY LibraryShape DEF Send, Renders, IInv, TypeOK, Serving
<1>2. PICK m \in Asked :
        call' = [call EXCEPT ![c] =
            [at |-> "provider", prompt |-> [version |-> n, text |-> image[i][n]],
             asked |-> m]]
  BY DEF Send
<1>3. [version |-> n, text |-> image[i][n]] \in Prompt
  BY <1>1 DEF Prompt
<1>4. TypeOK'
  <2>1. [at |-> "provider", prompt |-> [version |-> n, text |-> image[i][n]], asked |-> m]
          \in Sending
    BY <1>3 DEF Sending
  <2> QED
    BY <1>2, <2>1 DEF Send, IInv, TypeOK, registryVars
<1>5. Sent'
  <2> SUFFICES ASSUME NEW d \in Calls, call'[d] # Idle
               PROVE  Named(call[d].prompt)'
    BY DEF Sent
  <2>1. CASE d = c
    <3>1. call'[d].prompt = [version |-> n, text |-> image[i][n]]
      BY <1>2, <2>1 DEF IInv, TypeOK
    <3> QED
      BY <1>1, <3>1 DEF Named, Agrees, Send, registryVars
  <2>2. CASE d # c
    BY <1>2, <2>2 DEF Send, IInv, TypeOK, Sent, Named, registryVars
  <2> QED
    BY <2>1, <2>2
<1>6. Rows'
  <2>1. \A r \in ledger : r.call \in Calls /\ r.call # c
    BY DEF Send, IInv, TypeOK, Row, Rows, Idle
  <2> QED
    BY <1>2, <2>1 DEF Send, IInv, TypeOK, Rows
<1>7. Priced'
  BY <1>2 DEF Send, IInv, TypeOK, Priced
<1> QED
  BY <1>4, <1>5, <1>6, <1>7 DEF Send, IInv, Deployed, Serving, Agrees, registryVars

LEMMA HearStep ==
    ASSUME IInv, NEW c \in Calls, Hear(c)
    PROVE  IInv'
<1>1. PICK reply \in Reply :
        call' = [call EXCEPT ![c] =
            [at |-> "recording", prompt |-> call[c].prompt, asked |-> call[c].asked,
             reply |-> reply]]
  BY DEF Hear
<1>2. call[c] \in Sending /\ call[c] # Idle
  BY DEF Hear, IInv, TypeOK, Idle, Sending, Replied, Ended
<1>3. [at |-> "recording", prompt |-> call[c].prompt, asked |-> call[c].asked,
       reply |-> reply] \in Replied
  BY <1>2 DEF Sending, Replied
<1> DEFINE new == [at |-> "recording", prompt |-> call[c].prompt, asked |-> call[c].asked,
                   reply |-> reply]
<1>4. new.prompt = call[c].prompt /\ new.at = "recording"
  OBVIOUS
<1>5. new \in Sending \cup Replied \cup Ended /\ call' = [call EXCEPT ![c] = new]
  BY <1>1, <1>3
<1>6. call[c].at = "provider" /\ UNCHANGED <<registryVars, image, ledger, today>>
  BY DEF Hear
<1> HIDE DEF new
<1> QED
  BY <1>2, <1>4, <1>5, <1>6, KeepsPrompts

LEMMA EscapeStep ==
    ASSUME IInv, NEW c \in Calls, Unpriced(c) \/ Uncommitted(c)
    PROVE  IInv'
<1>1. call[c] \in Replied /\ call[c] # Idle
  BY ReplyOf DEF Unpriced, Uncommitted, IInv
<1>2. [call[c] EXCEPT !.at = "escaped"] \in Replied
  BY <1>1 DEF Replied
<1>3. call' = [call EXCEPT ![c] = [call[c] EXCEPT !.at = "escaped"]]
  BY DEF Unpriced, Uncommitted
<1>4. /\ [call[c] EXCEPT !.at = "escaped"].prompt = call[c].prompt
      /\ [call[c] EXCEPT !.at = "escaped"].at = "escaped"
  BY <1>1 DEF Replied
<1> QED
  BY <1>1, <1>2, <1>3, <1>4, KeepsPrompts DEF Unpriced, Uncommitted

LEMMA ReturnStep ==
    ASSUME IInv, NEW c \in Calls, Return(c)
    PROVE  IInv'
<1> DEFINE reply == call[c].reply
           answered == [at |-> "returned", prompt |-> call[c].prompt,
                        asked |-> call[c].asked, reply |-> reply,
                        cost |-> Cost(reply.model, reply.tokens)]
           failed == [at |-> "raised", prompt |-> call[c].prompt,
                      asked |-> call[c].asked, reply |-> reply]
<1>1. /\ call[c] # Idle /\ call[c].prompt \in Prompt
      /\ reply \in Reply /\ call[c].asked \in Asked
  BY ReplyOf DEF Return, IInv
<1>4. call[c].at = "recorded" /\ UNCHANGED <<registryVars, image, ledger, today>>
  BY DEF Return
<1>2. CASE reply.kind = "answer"
  <2>1. reply.model \in DOMAIN Price
    BY <1>2 DEF Return, IInv, Priced, BilledModel, Reported
  <2>2. reply.tokens \in Nat
    BY <1>1, <1>2, CallsAssumption DEF Reply
  <2>3. Price[reply.model][today] \in Nat
    BY <2>1, CallsAssumption DEF IInv, TypeOK
  <2>4. Cost(reply.model, reply.tokens) \in Nat
    BY <2>2, <2>3 DEF Cost
  <2>5. answered \in Ended
    BY <1>1, <2>4 DEF Ended
  <2>6. call' = [call EXCEPT ![c] = answered]
    BY <1>2 DEF Return
  <2>7. answered.prompt = call[c].prompt /\ answered.at = "returned"
    OBVIOUS
  <2> HIDE DEF answered
  <2> QED
    BY <1>1, <1>4, <2>5, <2>6, <2>7, KeepsPrompts
<1>3. CASE reply.kind # "answer"
  <2>1. failed \in Ended
    BY <1>1 DEF Ended
  <2>2. call' = [call EXCEPT ![c] = failed]
    BY <1>3 DEF Return
  <2>3. failed.prompt = call[c].prompt /\ failed.at = "raised"
    OBVIOUS
  <2> HIDE DEF failed
  <2> QED
    BY <1>1, <1>4, <2>1, <2>2, <2>3, KeepsPrompts
<1> QED
  BY <1>2, <1>3

LEMMA RecordStep ==
    ASSUME IInv, NEW c \in Calls, Record(c)
    PROVE  IInv'
<1>1. call[c] \in Replied /\ call[c] # Idle
  BY ReplyOf DEF Record, IInv
<1>2. [call[c] EXCEPT !.at = "recorded"] \in Replied
  BY <1>1 DEF Replied
<1>3. /\ call' = [call EXCEPT ![c] = [call[c] EXCEPT !.at = "recorded"]]
      /\ [call[c] EXCEPT !.at = "recorded"].prompt = call[c].prompt
      /\ [call[c] EXCEPT !.at = "recorded"].at = "recorded"
      /\ [call[c] EXCEPT !.at = "recorded"].reply = call[c].reply
      /\ [call[c] EXCEPT !.at = "recorded"].asked = call[c].asked
  BY <1>1 DEF Record, Replied
<1>4. RowOf(c) \in Row /\ RowOf(c).call = c
  BY RowTyped DEF Record, IInv, RowOf
<1>5. \A r \in ledger : r.call \in Calls /\ r.call # c
  BY DEF Record, IInv, TypeOK, Row, Rows
<1>6. TypeOK'
  BY <1>2, <1>3, <1>4, <1>5 DEF Record, IInv, TypeOK, registryVars
<1>7. Sent'
  <2> SUFFICES ASSUME NEW d \in Calls, call'[d] # Idle
               PROVE  Named(call[d].prompt)'
    BY DEF Sent
  <2>1. call'[d].prompt = call[d].prompt /\ call[d] # Idle
    BY <1>1, <1>3 DEF IInv, TypeOK
  <2> QED
    BY <2>1 DEF Record, IInv, Sent, Named, registryVars
<1>8. Rows'
  <2> SUFFICES ASSUME NEW r \in ledger'
               PROVE  /\ call'[r.call].at \in {"recorded", "returned", "raised"}
                      /\ r.version = call'[r.call].prompt.version
                      /\ r.text = call'[r.call].prompt.text
    BY DEF Rows
  <2>1. CASE r \in ledger
    BY <1>3, <1>5, <2>1 DEF IInv, TypeOK, Rows
  <2>2. CASE r = RowOf(c)
    <3>1. r.version = call[c].prompt.version /\ r.text = call[c].prompt.text
      BY <2>2 DEF RowOf
    <3> QED
      BY <1>3, <1>4, <2>2, <3>1 DEF IInv, TypeOK
  <2> QED
    BY <2>1, <2>2 DEF Record
<1>9. Priced'
  <2> SUFFICES ASSUME NEW d \in Calls, call'[d].at = "recorded"
               PROVE  BilledModel(call'[d].reply, call'[d].asked) \in DOMAIN Price
    BY DEF Priced
  <2>1. CASE d = c
    BY <1>3, <2>1 DEF Record, IInv, TypeOK
  <2>2. CASE d # c
    BY <1>3, <2>2 DEF IInv, TypeOK, Priced
  <2> QED
    BY <2>1, <2>2
<1> QED
  BY <1>6, <1>7, <1>8, <1>9 DEF Record, IInv, Deployed, Serving, Agrees, registryVars

LEMMA MidnightStep ==
    ASSUME IInv, Midnight
    PROVE  IInv'
<1>1. today' \in 0..LastDay
  BY CallsAssumption DEF Midnight, IInv, TypeOK
<1>2. TypeOK'
  BY <1>1 DEF Midnight, IInv, TypeOK, registryVars
<1> QED
  BY <1>2 DEF Midnight, IInv, Deployed, Serving, Agrees, Sent, Named, Rows, Priced,
              registryVars

LEMMA StepOK == IInv /\ [Next]_vars => IInv'
<1> SUFFICES ASSUME IInv, [Next]_vars PROVE IInv'
  OBVIOUS
<1>1. CASE RegistryNext /\ UNCHANGED callVars
  BY <1>1, RegistryStep
<1>2. CASE \E i \in Instances : Deploy(i)
  BY <1>2, DeployStep
<1>3. CASE \E c \in Calls :
        \/ \E i \in Instances, n \in Names : Send(c, i, n)
        \/ Hear(c) \/ Record(c) \/ Unpriced(c) \/ Uncommitted(c) \/ Return(c)
  BY <1>3, SendStep, HearStep, RecordStep, EscapeStep, ReturnStep
<1>4. CASE Midnight
  BY <1>4, MidnightStep
<1>5. CASE UNCHANGED vars
  BY <1>5 DEF vars, registryVars, callVars, IInv, TypeOK, Deployed, Serving, Agrees, Sent,
              Named, Rows, Priced, BilledModel
<1> QED
  BY <1>1, <1>2, <1>3, <1>4, <1>5 DEF Next

LEMMA Invariance == Spec => []IInv
BY InitOK, StepOK, PTL DEF Spec

-----------------------------------------------------------------------------
(* What calls cost *)

\* A call that has no row moves, and still needs none.
LEMMA MovesUnbilled ==
    ASSUME IInv, SpendInv, NEW c \in Calls, call[c].at \notin Settled,
           NEW new, call' = [call EXCEPT ![c] = new], new.at \notin Settled,
           UNCHANGED ledger
    PROVE  SpendInv'
<1>1. \A r \in ledger : r.call \in Calls /\ r.call # c
  BY DEF IInv, TypeOK, Row, Rows, Settled
<1>2. \A r \in ledger : call'[r.call] = call[r.call]
  BY <1>1 DEF IInv, TypeOK
<1>3. Rated'
  BY <1>2 DEF SpendInv, Rated, Due, Bill
<1>4. HasRow'
  <2> SUFFICES ASSUME NEW d \in Calls, call'[d].at \in Settled
               PROVE  \E r \in ledger : r.call = d
    BY DEF HasRow
  <2>1. d # c /\ call'[d] = call[d]
    BY DEF IInv, TypeOK
  <2> QED
    BY <2>1 DEF SpendInv, HasRow
<1> QED
  BY <1>3, <1>4 DEF SpendInv

\* A recorded call ends with the reply it was recorded with.
LEMMA EndsAsBilled ==
    ASSUME IInv, SpendInv, NEW c \in Calls, call[c].at \in Settled,
           NEW new, call' = [call EXCEPT ![c] = new], new.reply = call[c].reply,
           UNCHANGED ledger
    PROVE  SpendInv'
<1>1. \A d \in Calls : call'[d].reply = call[d].reply
  BY DEF IInv, TypeOK
<1>2. \A r \in ledger : call'[r.call].reply = call[r.call].reply
  BY <1>1 DEF IInv, TypeOK, Row
<1>3. Rated'
  BY <1>2 DEF SpendInv, Rated, Due, Bill
<1>4. HasRow'
  <2> SUFFICES ASSUME NEW d \in Calls, call'[d].at \in Settled
               PROVE  \E r \in ledger : r.call = d
    BY DEF HasRow
  <2>1. call[d].at \in Settled
    BY DEF IInv, TypeOK
  <2> QED
    BY <2>1 DEF SpendInv, HasRow
<1> QED
  BY <1>3, <1>4 DEF SpendInv

\* The row that is committed bills what the reply reported.
LEMMA RowIsDue ==
    ASSUME IInv, NEW c \in Calls, Record(c)
    PROVE  RowOf(c).cost = Due(RowOf(c))
<1> DEFINE reply == call[c].reply
<1>1. /\ RowOf(c).call = c /\ RowOf(c).day = today
      /\ RowOf(c).cost = Price[BilledModel(reply, call[c].asked)][today] * UsageOf(reply)
  BY DEF RowOf, Cost
<1>2. CASE Reported(reply)
  BY <1>1, <1>2 DEF Due, Bill, BilledModel, UsageOf
<1>3. CASE ~Reported(reply)
  <2>1. Price[BilledModel(reply, call[c].asked)][today] \in Nat
    BY CallsAssumption DEF Record, IInv, TypeOK
  <2>2. UsageOf(reply) = 0
    BY <1>3 DEF UsageOf
  <2>3. RowOf(c).cost = 0
    BY <1>1, <2>1, <2>2
  <2> QED
    BY <1>1, <1>3, <2>3 DEF Due
<1> QED
  BY <1>2, <1>3

LEMMA RecordBills ==
    ASSUME IInv, SpendInv, NEW c \in Calls, Record(c)
    PROVE  SpendInv'
<1>1. call[c] \in Replied
  BY ReplyOf DEF Record, IInv
<1>2. [call[c] EXCEPT !.at = "recorded"].reply = call[c].reply
  BY <1>1 DEF Replied
<1>3. \A d \in Calls : call'[d].reply = call[d].reply
  BY <1>2 DEF Record, IInv, TypeOK
<1>4. RowOf(c).call = c /\ ledger' = ledger \cup {RowOf(c)}
  BY DEF Record, RowOf
<1>5. Rated'
  <2> SUFFICES ASSUME NEW r \in ledger'
               PROVE  r.cost = Due(r)'
    BY DEF Rated
  <2>1. r.cost = Due(r) /\ r.call \in Calls
    BY <1>4, RowIsDue DEF SpendInv, Rated, IInv, TypeOK, Row
  <2> QED
    BY <1>3, <2>1 DEF Due, Bill
<1>6. HasRow'
  <2> SUFFICES ASSUME NEW d \in Calls, call'[d].at \in Settled
               PROVE  \E r \in ledger' : r.call = d
    BY DEF HasRow
  <2>1. CASE d = c
    BY <1>4, <2>1
  <2>2. CASE d # c
    <3>1. call'[d] = call[d]
      BY <2>2 DEF Record, IInv, TypeOK
    <3> QED
      BY <1>4, <3>1 DEF SpendInv, HasRow
  <2> QED
    BY <2>1, <2>2
<1> QED
  BY <1>5, <1>6 DEF SpendInv

LEMMA SpendStep == IInv /\ SpendInv /\ [Next]_vars => SpendInv'
<1> SUFFICES ASSUME IInv, SpendInv, [Next]_vars PROVE SpendInv'
  OBVIOUS
<1>1. ASSUME UNCHANGED <<call, ledger>> PROVE SpendInv'
  BY <1>1 DEF SpendInv, Rated, HasRow, Due, Bill
<1>2. ASSUME NEW c \in Calls, NEW i \in Instances, NEW n \in Names, Send(c, i, n)
      PROVE  SpendInv'
  <2>1. PICK m \in Asked :
          call' = [call EXCEPT ![c] =
            [at |-> "provider", prompt |-> [version |-> n, text |-> image[i][n]],
             asked |-> m]]
    BY <1>2 DEF Send
  <2> DEFINE new == [at |-> "provider", asked |-> m,
                     prompt |-> [version |-> n, text |-> image[i][n]]]
  <2>2. call' = [call EXCEPT ![c] = new] /\ new.at \notin Settled
    BY <2>1 DEF Settled
  <2>3. call[c].at \notin Settled /\ UNCHANGED ledger
    BY <1>2 DEF Send, Idle, Settled
  <2> HIDE DEF new
  <2> QED
    BY <2>2, <2>3, MovesUnbilled
<1>3. ASSUME NEW c \in Calls, Hear(c) PROVE SpendInv'
  <2>1. PICK reply \in Reply :
          call' = [call EXCEPT ![c] =
            [at |-> "recording", prompt |-> call[c].prompt, asked |-> call[c].asked,
             reply |-> reply]]
    BY <1>3 DEF Hear
  <2> DEFINE new == [at |-> "recording", prompt |-> call[c].prompt,
                     asked |-> call[c].asked, reply |-> reply]
  <2>2. call' = [call EXCEPT ![c] = new] /\ new.at \notin Settled
    BY <2>1 DEF Settled
  <2>3. call[c].at \notin Settled /\ UNCHANGED ledger
    BY <1>3 DEF Hear, Settled
  <2> HIDE DEF new
  <2> QED
    BY <2>2, <2>3, MovesUnbilled
<1>4. ASSUME NEW c \in Calls, Unpriced(c) \/ Uncommitted(c) PROVE SpendInv'
  <2> DEFINE new == [call[c] EXCEPT !.at = "escaped"]
  <2>1. call' = [call EXCEPT ![c] = new] /\ UNCHANGED ledger
    BY <1>4 DEF Unpriced, Uncommitted
  <2>2. call[c] \in Replied /\ call[c].at \notin Settled
    BY <1>4, ReplyOf DEF Unpriced, Uncommitted, IInv, Settled
  <2>3. new.at \notin Settled
    BY <2>2 DEF Replied, Settled
  <2> HIDE DEF new
  <2> QED
    BY <2>1, <2>2, <2>3, MovesUnbilled
<1>5. ASSUME NEW c \in Calls, Return(c) PROVE SpendInv'
  <2>1. \E new : call' = [call EXCEPT ![c] = new] /\ new.reply = call[c].reply
    <3> DEFINE reply == call[c].reply
               answered == [at |-> "returned", prompt |-> call[c].prompt,
                            asked |-> call[c].asked, reply |-> reply,
                            cost |-> Cost(reply.model, reply.tokens)]
               failed == [at |-> "raised", prompt |-> call[c].prompt,
                          asked |-> call[c].asked, reply |-> reply]
    <3>1. answered.reply = reply /\ failed.reply = reply
      OBVIOUS
    <3>2. call' = [call EXCEPT ![c] = IF reply.kind = "answer" THEN answered ELSE failed]
      BY <1>5 DEF Return
    <3> HIDE DEF answered, failed
    <3> QED
      BY <3>1, <3>2
  <2>2. call[c].at \in Settled /\ UNCHANGED ledger
    BY <1>5 DEF Return, Settled
  <2>3. PICK new : call' = [call EXCEPT ![c] = new] /\ new.reply = call[c].reply
    BY <2>1
  <2> QED
    BY <2>2, <2>3, EndsAsBilled
<1>6. ASSUME NEW c \in Calls, Record(c) PROVE SpendInv'
  BY <1>6, RecordBills
<1>7. CASE (RegistryNext /\ UNCHANGED callVars) \/ (\E i \in Instances : Deploy(i))
           \/ Midnight \/ UNCHANGED vars
  BY <1>1, <1>7 DEF callVars, vars, Deploy, Midnight
<1>8. CASE \E c \in Calls :
        \/ \E i \in Instances, n \in Names : Send(c, i, n)
        \/ Hear(c) \/ Record(c) \/ Unpriced(c) \/ Uncommitted(c) \/ Return(c)
  BY <1>8, <1>2, <1>3, <1>4, <1>5, <1>6
<1> QED
  BY <1>7, <1>8 DEF Next

LEMMA SpendInvariance == Spec => []SpendInv
<1>1. Init => SpendInv
  BY DEF Init, SpendInv, Rated, HasRow, Settled, Idle
<1> QED
  BY <1>1, Invariance, SpendStep, PTL DEF Spec

\* Rows that say what is due add up to what is due.  The sum is a fold, which is a
\* function that is chosen by its equation: both folds have the same equation.
LEMMA SumOfDues ==
    ASSUME NEW S, \A r \in S : r.cost = Due(r)
    PROVE  MapThenSumSet(LAMBDA r : r.cost, S)
             = MapThenSumSet(LAMBDA r : IF Reported(call[r.call].reply)
                                        THEN Bill(r.call, r.day) ELSE 0, S)
<1> DEFINE First(s) == CHOOSE r \in s : TRUE
           Said(h) == [s \in SUBSET S |->
               IF s = {} THEN 0 ELSE First(s).cost + h[s \ {First(s)}]]
           Owed(h) == [s \in SUBSET S |->
               IF s = {} THEN 0
               ELSE (IF Reported(call[First(s).call].reply)
                     THEN Bill(First(s).call, First(s).day) ELSE 0) + h[s \ {First(s)}]]
<1>1. ASSUME NEW h, NEW s \in SUBSET S
      PROVE  (IF s = {} THEN 0 ELSE First(s).cost + h[s \ {First(s)}])
               = (IF s = {} THEN 0
                  ELSE (IF Reported(call[First(s).call].reply)
                        THEN Bill(First(s).call, First(s).day) ELSE 0) + h[s \ {First(s)}])
  <2>1. s # {} => First(s) \in S
    OBVIOUS
  <2>2. s # {} => First(s).cost = (IF Reported(call[First(s).call].reply)
                                  THEN Bill(First(s).call, First(s).day) ELSE 0)
    BY <2>1 DEF Due
  <2> QED
    BY <2>2, Zenon
<1>2. \A h : Said(h) = Owed(h)
  BY <1>1, Zenon
<1>3. (CHOOSE h : h = Said(h)) = (CHOOSE h : h = Owed(h))
  <2> HIDE DEF Said, Owed
  <2>1. \A h : (h = Said(h)) <=> (h = Owed(h))
    BY <1>2, Zenon
  <2> QED
    BY <2>1, Zenon
<1> QED
  BY <1>3, Zenon DEF MapThenSumSet, MapThenFoldSet

-----------------------------------------------------------------------------
(* Theorems *)

\* Every variable keeps to its kind, and a call has at most one row, whatever is
\* deployed and however calls overlap (client.py, _record).
THEOREM TypeCorrect == Spec => []TypeOK
<1>1. IInv => TypeOK
  BY DEF IInv
<1> QED
  BY <1>1, Invariance, PTL

\* registry.py:5: as long as only verified libraries are deployed, the version in a
\* ledger row names one text for ever, and it is the text that was sent.
THEOREM VersionsNameTexts == Spec => []VersionNamesText
<1>1. IInv => VersionNamesText
  <2> SUFFICES ASSUME IInv PROVE VersionNamesText
    OBVIOUS
  <2>1. \A r \in ledger : r.call \in Calls /\ r.text = call[r.call].prompt.text
                           /\ Named([version |-> r.version, text |-> r.text])
    <3> SUFFICES ASSUME NEW r \in ledger
                 PROVE  /\ r.call \in Calls /\ r.text = call[r.call].prompt.text
                        /\ Named([version |-> r.version, text |-> r.text])
      OBVIOUS
    <3>1. r.call \in Calls
      BY DEF IInv, TypeOK, Row
    <3>2. call[r.call] # Idle
      BY DEF IInv, Rows, Idle
    <3> QED
      BY <3>1, <3>2 DEF IInv, Rows, Sent, Named
  <2> QED
    BY <2>1 DEF VersionNamesText, Named
<1> QED
  BY <1>1, Invariance, PTL
\* client.py, _record, and economics.py: a call that ended, refusals included, has
\* exactly one row, which bills the usage and the model the provider reported at the
\* rate of a day; and the spending an operator reads per prompt version is what the
\* calls with that version's text were billed.
THEOREM SpendIsAccounted == Spec => []SpendAccounted
<1>1. IInv /\ SpendInv => SpendAccounted
  <2> SUFFICES ASSUME IInv, SpendInv PROVE SpendAccounted
    OBVIOUS
  <2>1. ASSUME NEW c \in Calls, Ends(c)
        PROVE  \E r \in ledger :
                 /\ {x \in ledger : x.call = c} = {r}
                 /\ r.cost = IF Reported(call[c].reply) THEN Bill(c, r.day) ELSE 0
    <3>1. PICK r \in ledger : r.call = c
      BY <2>1 DEF SpendInv, HasRow, Ends, Settled
    <3>2. {x \in ledger : x.call = c} = {r}
      BY <3>1 DEF IInv, TypeOK
    <3>3. r.cost = IF Reported(call[c].reply) THEN Bill(c, r.day) ELSE 0
      BY <3>1 DEF SpendInv, Rated, Due
    <3> QED
      BY <3>2, <3>3
  <2>2. ASSUME NEW v \in DOMAIN ByVersion
        PROVE  ByVersion[v].cost =
                 MapThenSumSet(LAMBDA r : IF Reported(call[r.call].reply)
                                          THEN Bill(r.call, r.day) ELSE 0,
                               {r \in ledger : call[r.call].prompt.version = v})
    <3> DEFINE S == {r \in ledger : r.version = v}
    <3>1. S = {r \in ledger : call[r.call].prompt.version = v}
      BY DEF IInv, Rows
    <3>2. ByVersion[v].cost = MapThenSumSet(LAMBDA r : r.cost, S)
      BY <2>2, Zenon DEF ByVersion, Segment
    <3>3. \A r \in S : r.cost = Due(r)
      BY DEF SpendInv, Rated
    <3> HIDE DEF S
    <3>4. MapThenSumSet(LAMBDA r : r.cost, S)
            = MapThenSumSet(LAMBDA r : IF Reported(call[r.call].reply)
                                       THEN Bill(r.call, r.day) ELSE 0, S)
      BY <3>3, SumOfDues
    <3> QED
      BY <3>1, <3>2, <3>4, Zenon
  <2> QED
    BY <2>1, <2>2 DEF SpendAccounted
<1> QED
  BY <1>1, Invariance, SpendInvariance, PTL
=============================================================================
