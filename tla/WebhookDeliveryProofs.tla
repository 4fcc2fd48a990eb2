------------------------ MODULE WebhookDeliveryProofs ------------------------
(***************************************************************************)
(* Theorems of WebhookDelivery, for any events, any number of activations  *)
(* of the retry job and admin requests, and any limits.                    *)
(***************************************************************************)
EXTENDS WebhookDelivery, FiniteSetTheorems, TLAPS

(* The chain of attempts of e has one end, which knows how often e was     *)
(* posted: with the attempt that is awaited, or was answered last.         *)
ChainOK(e) ==
  /\ AtMostOne(Posted(e)) /\ AtMostOne(Held(e)) /\ AtMostOne(Scheduled(e))
  /\ Posted(e) = {} \/ (Held(e) = {} /\ Scheduled(e) = {})
  /\ Held(e) = {} \/ Scheduled(e) = {}
  /\ posts[e] <= MaxRetries
  /\ \A p \in Posted(e) : p.attempt < MaxRetries /\ posts[e] = p.attempt + 1
  /\ \A r \in Scheduled(e) : r.attempt + 1 < MaxRetries /\ posts[e] = r.attempt + 1
  /\ \A h \in Held(e) : h[2].attempt + 1 < MaxRetries /\ posts[e] = h[2].attempt + 1

(* Only deliveries of events are automatic, and only those are retried.    *)
OnlyEventsRetried ==
  /\ \A p \in inFlight : p.auto => p.event \in Events
  /\ \A r \in rows : r.due => r.event \in Events
  /\ \A j \in Activations : \A r \in batch[j] : r.event \in Events

IInv == TypeOK /\ OnlyEventsRetried /\ \A e \in Events : ChainOK(e)

LEMMA BatchIsDue ==
  ASSUME NEW k, NEW B \in kSubset(k, Due)
  PROVE  B \subseteq rows /\ \A r \in B : r.due
BY DEF kSubset, Due

-----------------------------------------------------------------------------
(* Types.                                                                  *)

LEMMA TypeInit == Init => TypeOK
<1> SUFFICES ASSUME Init PROVE TypeOK
  OBVIOUS
<1> USE DEF Init
<1>1. hook \in [exists : BOOLEAN, enabled : BOOLEAN, failures : Nat]
  BY SMT
<1>2. batch \in [Activations -> SUBSET Row] /\ posts \in [Events -> Nat]
  OBVIOUS
<1>3. rows \subseteq Row /\ inFlight \subseteq Post /\ nextId \in Nat
  OBVIOUS
<1>4. {writes, restarts} \subseteq Nat
  OBVIOUS
<1>5. answered \in BOOLEAN
  OBVIOUS
<1> QED BY <1>1, <1>2, <1>3, <1>4, <1>5 DEF TypeOK

LEMMA TypeNext == TypeOK /\ [Next]_vars => TypeOK'
<1> SUFFICES ASSUME TypeOK, [Next]_vars PROVE TypeOK'
  OBVIOUS
<1> USE ConstantsAssumption DEF TypeOK
<1>1. ASSUME NEW e \in Events, Fire(e) PROVE TypeOK'
  <2>1. [event |-> e, attempt |-> 0, auto |-> TRUE, by |-> e] \in Post
    BY DEF Post
  <2> QED BY <1>1, <2>1 DEF Fire
<1>2. ASSUME NEW p \in inFlight, NEW ok \in BOOLEAN, Finish(p, ok) PROVE TypeOK'
  <2>1. p.event \in Events \cup {Test} /\ p.attempt \in Nat /\ p.auto \in BOOLEAN
    BY DEF Post
  <2>2. RetryAfter(p) \in BOOLEAN /\ Trips(p, ok) \in BOOLEAN
    BY DEF RetryAfter, Trips
  <2>3. hook.failures \in Nat /\ hook.enabled \in BOOLEAN /\ hook.exists \in BOOLEAN
    OBVIOUS
  <2>4. Count(p, ok) \in Nat
    BY <2>3, <2>1 DEF Count
  <2> DEFINE new == [id |-> nextId, event |-> p.event, attempt |-> p.attempt,
                     auto |-> p.auto, ok |-> ok, due |-> ~ok /\ RetryAfter(p)]
  <2>5. new \in Row
    BY <2>1, <2>2 DEF Row
  <2>6. rows' \subseteq rows \cup {new} /\ nextId' \in Nat
    <3>1. Prune(rows \cup {new}) \subseteq rows \cup {new}
      BY DEF Prune
    <3>2. CASE hook.exists
      <4>1. rows' = Prune(rows \cup {new}) /\ nextId' = nextId + 1
        BY <1>2, <3>2 DEF Finish
      <4>2. nextId' \in Nat
        BY <4>1
      <4>3. rows' \subseteq rows \cup {new}
        BY <3>1, <4>1
      <4> QED BY <4>2, <4>3
    <3>3. CASE ~hook.exists
      BY <1>2, <3>3 DEF Finish
    <3> QED BY <3>2, <3>3
  <2>7. rows' \subseteq Row
    BY <2>5, <2>6
  <2>8. hook' \in [exists : BOOLEAN, enabled : BOOLEAN, failures : Nat]
    BY <1>2, <2>2, <2>3, <2>4 DEF Finish
  <2>9. inFlight' \subseteq Post /\ answered' \in BOOLEAN
    BY <1>2, <2>1 DEF Finish
  <2>10. last' \in [Events -> [id : Nat, ok : BOOLEAN]]
    <3>1. last' = last \/ last' = [last EXCEPT ![p.event] = [id |-> nextId, ok |-> ok]]
      BY <1>2 DEF Finish
    <3> QED BY <3>1
  <2> QED BY <1>2, <2>6, <2>7, <2>8, <2>9, <2>10 DEF Finish
<1>3. ASSUME NEW j \in Activations, NEW r \in Row, Redeliver(j, r)
      PROVE  inFlight' \subseteq Post /\ posts' \in [Events -> Nat]
  <2>1. [event |-> r.event, attempt |-> r.attempt + 1, auto |-> TRUE, by |-> j] \in Post
    BY DEF Post, Row
  <2>2. posts' \in [Events -> Nat]
    <3>1. CASE r.event \in Events
      BY <1>3, <3>1 DEF Redeliver
    <3>2. CASE r.event \notin Events
      <4>1. posts' = posts
        BY <1>3, <3>2 DEF Redeliver
      <4> QED BY <4>1
    <3> QED BY <3>1, <3>2
  <2> QED BY <1>3, <2>1, <2>2 DEF Redeliver
<1>4. ASSUME NEW j \in Activations, StartRetries(j) PROVE TypeOK'
  <2>1. PICK B \in kSubset(IF Cardinality(Due) < RetryBatch THEN Cardinality(Due) ELSE RetryBatch, Due) :
          \E r \in B : /\ rows' = Cleared(B, r)
                       /\ batch' = [batch EXCEPT ![j] = B \ {r}]
                       /\ Redeliver(j, r)
    BY <1>4 DEF StartRetries
  <2>2. PICK r \in B : /\ rows' = Cleared(B, r)
                       /\ batch' = [batch EXCEPT ![j] = B \ {r}]
                       /\ Redeliver(j, r)
    BY <2>1
  <2>3. B \subseteq Row
    BY BatchIsDue
  <2>4. \A q \in rows : [q EXCEPT !.due = FALSE] \in Row
    BY DEF Row
  <2>5. rows' \subseteq Row
    BY <2>2, <2>4 DEF Cleared
  <2>6. batch' \in [Activations -> SUBSET Row]
    BY <2>2, <2>3
  <2>7. inFlight' \subseteq Post /\ posts' \in [Events -> Nat]
    BY <1>3, <2>2, <2>3
  <2> QED BY <1>4, <2>5, <2>6, <2>7 DEF StartRetries
<1>5. ASSUME NEW j \in Activations, NextRetry(j) PROVE TypeOK'
  <2>1. PICK r \in batch[j] : batch' = [batch EXCEPT ![j] = @ \ {r}] /\ Redeliver(j, r)
    BY <1>5 DEF NextRetry
  <2>2. r \in Row /\ batch' \in [Activations -> SUBSET Row]
    BY <2>1
  <2>3. inFlight' \subseteq Post /\ posts' \in [Events -> Nat]
    BY <1>3, <2>1, <2>2
  <2> QED BY <1>5, <2>2, <2>3 DEF NextRetry
<1>6. ASSUME NEW b \in BOOLEAN, Switch(b) PROVE TypeOK'
  BY <1>6 DEF Switch, Write
<1>7. CASE ResetCircuit
  <2>1. hook' \in [exists : BOOLEAN, enabled : BOOLEAN, failures : Nat]
    BY <1>7 DEF ResetCircuit
  <2>2. writes' \in Nat
    BY <1>7 DEF ResetCircuit, Write
  <2> QED BY <1>7, <2>1, <2>2 DEF ResetCircuit, Write
<1>8. CASE DeleteWebhook
  <2>1. hook' \in [exists : BOOLEAN, enabled : BOOLEAN, failures : Nat]
    BY <1>8 DEF DeleteWebhook
  <2>2. writes' \in Nat /\ rows' \subseteq Row
    BY <1>8 DEF DeleteWebhook, Write
  <2> QED BY <1>8, <2>1, <2>2 DEF DeleteWebhook, Write
<1>9. ASSUME NEW q \in Requests, SendTest(q) PROVE TypeOK'
  <2>1. [event |-> Test, attempt |-> 0, auto |-> FALSE, by |-> q] \in Post
    BY DEF Post
  <2>2. inFlight' \subseteq Post
    BY <1>9, <2>1 DEF SendTest
  <2>3. writes' \in Nat
    BY <1>9 DEF SendTest, Write
  <2> QED BY <1>9, <2>2, <2>3 DEF SendTest, Write
<1>10. ASSUME NEW q \in Requests, NEW r \in rows, RetryByHand(q, r) PROVE TypeOK'
  <2>1. [event |-> r.event, attempt |-> r.attempt + 1, auto |-> FALSE, by |-> q] \in Post
    BY DEF Post, Row
  <2>2. inFlight' \subseteq Post
    BY <1>10, <2>1 DEF RetryByHand
  <2>3. writes' \in Nat
    BY <1>10 DEF RetryByHand, Write
  <2> QED BY <1>10, <2>2, <2>3 DEF RetryByHand, Write
<1>11. CASE Restart
  BY <1>11 DEF Restart
<1>12. CASE UNCHANGED vars
  BY <1>12 DEF vars
<1> QED
  BY <1>1, <1>2, <1>4, <1>5, <1>6, <1>7, <1>8, <1>9, <1>10, <1>11, <1>12
     DEF Next, RetryJob, Admin

(* Every reachable state is well typed: what the code leaves in the rows   *)
(* and in the local variables of its deliveries and retry jobs.            *)
THEOREM TypeCorrect == Spec => []TypeOK
BY TypeInit, TypeNext, PTL DEF Spec

-----------------------------------------------------------------------------
(* The chain of attempts.                                                  *)

LEMMA ChainInit == Init => IInv
<1> SUFFICES ASSUME Init PROVE IInv
  OBVIOUS
<1>1. TypeOK
  BY TypeInit
<1>2. OnlyEventsRetried
  BY DEF Init, OnlyEventsRetried
<1>3. ASSUME NEW e \in Events PROVE ChainOK(e)
  <2>1. Posted(e) = {} /\ Held(e) = {} /\ Scheduled(e) = {}
    BY DEF Init, Posted, Held, Scheduled
  <2>2. posts[e] = 0
    BY DEF Init
  <2> QED BY <2>1, <2>2, ConstantsAssumption DEF ChainOK, AtMostOne
<1> QED BY <1>1, <1>2, <1>3 DEF IInv

(* A step that leaves the end of the chain of e where it is.               *)
LEMMA ChainKept ==
  ASSUME NEW e \in Events, ChainOK(e), posts'[e] = posts[e],
         Posted(e)' \subseteq Posted(e), Held(e)' \subseteq Held(e),
         Scheduled(e)' \subseteq Scheduled(e)
  PROVE  ChainOK(e)'
BY DEF ChainOK, AtMostOne

(* The first post of an event, and where its chain is before.              *)
LEMMA ChainStarts ==
  ASSUME TypeOK, NEW e \in Events, ChainOK(e), posts[e] = 0
  PROVE  Posted(e) = {} /\ Held(e) = {} /\ Scheduled(e) = {}
<1>1. ASSUME NEW p \in Posted(e) PROVE FALSE
  <2>1. p.attempt \in Nat
    BY DEF Posted, TypeOK, Post
  <2> QED BY <1>1, <2>1 DEF ChainOK
<1>2. ASSUME NEW r \in Scheduled(e) PROVE FALSE
  <2>1. r.attempt \in Nat
    BY DEF Scheduled, TypeOK, Row
  <2> QED BY <1>2, <2>1 DEF ChainOK
<1>3. ASSUME NEW h \in Held(e) PROVE FALSE
  <2>1. PICK j \in Activations : h \in {j} \X {r \in batch[j] : r.event = e}
    BY DEF Held
  <2>2. h[2] \in Row
    BY <2>1 DEF TypeOK
  <2>3. h[2].attempt \in Nat
    BY <2>2 DEF Row
  <2> QED BY <1>3, <2>3 DEF ChainOK
<1> QED BY <1>1, <1>2, <1>3

(* The retry of r moves the end of its chain into a post.                  *)
LEMMA RedeliverChain ==
  ASSUME TypeOK, NEW j \in Activations, NEW r \in Row, r.event \in Events,
         Posted(r.event) = {}, Held(r.event)' = {}, Scheduled(r.event)' = {},
         posts[r.event] = r.attempt + 1, r.attempt + 1 < MaxRetries,
         Redeliver(j, r)
  PROVE  ChainOK(r.event)'
<1> DEFINE e == r.event
           new == [event |-> e, attempt |-> r.attempt + 1, auto |-> TRUE, by |-> j]
<1>1. r.attempt \in Nat
  BY DEF Row
<1>2. posts'[e] = r.attempt + 2
  BY <1>1 DEF Redeliver, TypeOK
<1>3. inFlight' = inFlight \cup {new}
  BY DEF Redeliver
<1>4. Posted(e)' = {new}
  BY <1>3 DEF Posted
<1>5. MaxRetries \in Nat
  BY ConstantsAssumption
<1> HIDE DEF e, new
<1>6. new.attempt = r.attempt + 1
  BY DEF new
<1>7. ChainOK(e)'
  BY <1>1, <1>2, <1>4, <1>5, <1>6 DEF ChainOK, AtMostOne, e
<1> QED BY <1>7 DEF e

(* It touches no other chain.                                              *)
LEMMA RedeliverOther ==
  ASSUME TypeOK, NEW j \in Activations, NEW r \in Row, NEW e \in Events, e # r.event,
         Redeliver(j, r)
  PROVE  posts'[e] = posts[e] /\ Posted(e)' = Posted(e)
<1>1. posts'[e] = posts[e]
  BY DEF Redeliver, TypeOK
<1>2. Posted(e)' = Posted(e)
  BY DEF Redeliver, Posted
<1> QED BY <1>1, <1>2

LEMMA FireChain ==
  ASSUME IInv, NEW f \in Events, Fire(f), NEW e \in Events
  PROVE  ChainOK(e)'
<1> DEFINE new == [event |-> f, attempt |-> 0, auto |-> TRUE, by |-> f]
<1>1. inFlight' = inFlight \cup {new} /\ UNCHANGED <<batch, rows>>
  BY DEF Fire
<1>2. Held(e)' = Held(e) /\ Scheduled(e)' = Scheduled(e)
  BY <1>1 DEF Held, Scheduled
<1>3. CASE e = f
  <2>1. Posted(e) = {} /\ Held(e) = {} /\ Scheduled(e) = {}
    BY <1>3, ChainStarts DEF IInv, Fire
  <2>2. Posted(e)' = {new}
    BY <1>1, <1>3, <2>1 DEF Posted
  <2>3. posts'[e] = 1
    BY <1>3 DEF Fire, IInv, TypeOK
  <2>4. MaxRetries \in Nat /\ MaxRetries >= 1
    BY ConstantsAssumption
  <2> QED BY <1>2, <2>1, <2>2, <2>3, <2>4 DEF ChainOK, AtMostOne
<1>4. CASE e # f
  <2>1. Posted(e)' = Posted(e)
    BY <1>1, <1>4 DEF Posted
  <2>2. posts'[e] = posts[e]
    BY <1>4 DEF Fire, IInv, TypeOK
  <2> QED BY <1>2, <2>1, <2>2, ChainKept DEF IInv
<1> QED BY <1>3, <1>4

(* The bookkeeping of a delivery hands the chain over to the new row, if   *)
(* it is to be retried, and ends it otherwise.                             *)
LEMMA FinishChain ==
  ASSUME IInv, NEW p \in inFlight, NEW ok \in BOOLEAN, Finish(p, ok), NEW e \in Events
  PROVE  ChainOK(e)'
<1> DEFINE new == [id |-> nextId, event |-> p.event, attempt |-> p.attempt,
                   auto |-> p.auto, ok |-> ok, due |-> ~ok /\ RetryAfter(p)]
<1>1. inFlight' = inFlight \ {p} /\ UNCHANGED <<batch, posts>>
  BY DEF Finish
<1>2. rows' \subseteq rows \cup {new}
  <2>1. Prune(rows \cup {new}) \subseteq rows \cup {new}
    BY DEF Prune
  <2>2. CASE hook.exists
    BY <2>1, <2>2 DEF Finish
  <2>3. CASE ~hook.exists
    BY <2>3 DEF Finish
  <2> QED BY <2>2, <2>3
<1>3. Posted(e)' = Posted(e) \ {p} /\ Held(e)' = Held(e)
  BY <1>1 DEF Posted, Held
<1>4. CASE new.due /\ p.event = e
  <2>1. p.auto /\ p.attempt < MaxRetries - 1
    BY <1>4 DEF RetryAfter
  <2>2. p \in Posted(e)
    BY <1>4, <2>1 DEF Posted
  <2>3. Held(e) = {} /\ Scheduled(e) = {} /\ posts[e] = p.attempt + 1 /\ Posted(e)' = {}
    BY <1>3, <2>2 DEF IInv, ChainOK, AtMostOne
  <2>4. Scheduled(e)' \subseteq {new}
    BY <1>2, <2>3 DEF Scheduled
  <2>5. new.attempt = p.attempt /\ posts'[e] = posts[e]
    BY <1>1
  <2>6. p.attempt \in Nat /\ MaxRetries \in Nat
    BY ConstantsAssumption DEF IInv, TypeOK, Post
  <2> HIDE DEF new
  <2> QED BY <1>3, <2>1, <2>3, <2>4, <2>5, <2>6 DEF ChainOK, AtMostOne, IInv
<1>5. CASE ~(new.due /\ p.event = e)
  <2>1. Scheduled(e)' \subseteq Scheduled(e)
    BY <1>2, <1>5 DEF Scheduled
  <2> QED BY <1>1, <1>3, <2>1, ChainKept DEF IInv
<1> QED BY <1>4, <1>5

(* The first await of the job finds the whole batch cleared: every chain   *)
(* whose end was a row of it is now held, or posted.                       *)
LEMMA StartRetriesChain ==
  ASSUME IInv, NEW j \in Activations, StartRetries(j), NEW e \in Events
  PROVE  ChainOK(e)'
<1>1. PICK B \in kSubset(IF Cardinality(Due) < RetryBatch THEN Cardinality(Due) ELSE RetryBatch, Due) :
        \E r \in B : /\ rows' = Cleared(B, r)
                     /\ batch' = [batch EXCEPT ![j] = B \ {r}]
                     /\ Redeliver(j, r)
  BY DEF StartRetries
<1>2. PICK r \in B : /\ rows' = Cleared(B, r)
                     /\ batch' = [batch EXCEPT ![j] = B \ {r}]
                     /\ Redeliver(j, r)
  BY <1>1
<1>3. B \subseteq rows /\ \A q \in B : q.due
  BY BatchIsDue
<1>4. rows \subseteq Row /\ batch \in [Activations -> SUBSET Row] /\ batch[j] = {}
  BY DEF IInv, TypeOK, StartRetries
<1>5. Scheduled(e)' \subseteq {q \in Scheduled(e) : q \notin B}
  <2>1. ASSUME NEW q \in rows PROVE [q EXCEPT !.due = FALSE].due = FALSE
    <3>1. q \in Row
      BY <1>4
    <3> QED BY <3>1 DEF Row
  <2> QED BY <1>2, <2>1 DEF Scheduled, Cleared
<1>6. Held(e)' = Held(e) \cup ({j} \X {q \in B \ {r} : q.event = e})
  <2>1. batch'[j] = B \ {r} /\ \A k \in Activations : k # j => batch'[k] = batch[k]
    BY <1>2, <1>4
  <2> QED BY <1>4, <2>1 DEF Held
<1>7. \A q \in B : q.event = e => q \in Scheduled(e)
  BY <1>3 DEF Scheduled
<1>8. r \in Row /\ r.event \in Events
  BY <1>3, <1>4 DEF IInv, OnlyEventsRetried
<1>9. CASE e = r.event
  <2>1. r \in Scheduled(e) /\ Scheduled(e) = {r}
    BY <1>7, <1>9 DEF IInv, ChainOK, AtMostOne
  <2>2. Posted(e) = {} /\ Held(e) = {} /\ posts[e] = r.attempt + 1 /\ r.attempt + 1 < MaxRetries
    BY <2>1 DEF IInv, ChainOK
  <2>3. Scheduled(e)' = {}
    BY <1>5, <2>1
  <2>4. Held(e)' = {}
    <3>1. {q \in B \ {r} : q.event = e} = {}
      BY <1>7, <2>1
    <3> QED BY <1>6, <2>2, <3>1
  <2> QED BY <1>2, <1>8, <1>9, <2>2, <2>3, <2>4, RedeliverChain DEF IInv
<1>10. CASE e # r.event
  <2>1. posts'[e] = posts[e] /\ Posted(e)' = Posted(e)
    BY <1>2, <1>8, <1>10, RedeliverOther DEF IInv
  <2>2. CASE \E q \in B : q.event = e
    <3>1. PICK q \in B : q.event = e
      BY <2>2
    <3>2. Scheduled(e) = {q} /\ Posted(e) = {} /\ Held(e) = {}
      BY <1>7, <3>1 DEF IInv, ChainOK, AtMostOne
    <3>3. Scheduled(e)' = {}
      BY <1>5, <3>1, <3>2
    <3>4. {x \in B \ {r} : x.event = e} \subseteq {q}
      BY <1>7, <3>2
    <3>5. Held(e)' \subseteq {<<j, q>>}
      BY <1>6, <3>2, <3>4
    <3>6. posts[e] = q.attempt + 1 /\ q.attempt + 1 < MaxRetries /\ posts[e] <= MaxRetries
      BY <3>2 DEF IInv, ChainOK
    <3> QED BY <2>1, <3>2, <3>3, <3>5, <3>6 DEF ChainOK, AtMostOne
  <2>3. CASE ~\E q \in B : q.event = e
    <3>1. Held(e)' \subseteq Held(e)
      BY <1>6, <2>3
    <3> QED BY <1>5, <2>1, <3>1, ChainKept DEF IInv
  <2> QED BY <2>2, <2>3
<1> QED BY <1>9, <1>10

LEMMA NextRetryChain ==
  ASSUME IInv, NEW j \in Activations, NextRetry(j), NEW e \in Events
  PROVE  ChainOK(e)'
<1>1. PICK r \in batch[j] : batch' = [batch EXCEPT ![j] = @ \ {r}] /\ Redeliver(j, r)
  BY DEF NextRetry
<1>2. batch \in [Activations -> SUBSET Row] /\ r \in Row
  BY DEF IInv, TypeOK
<1>3. r.event \in Events
  BY DEF IInv, OnlyEventsRetried
<1>4. batch'[j] = batch[j] \ {r} /\ \A k \in Activations : k # j => batch'[k] = batch[k]
  BY <1>1, <1>2
<1>5. Held(e)' \subseteq Held(e) \ {<<j, r>>}
  BY <1>4 DEF Held
<1>6. Scheduled(e)' = Scheduled(e)
  BY DEF NextRetry, Scheduled
<1>7. CASE e = r.event
  <2>1. <<j, r>> \in Held(e)
    BY <1>7 DEF Held
  <2>2. Held(e)' = {}
    BY <1>5, <2>1 DEF IInv, ChainOK, AtMostOne
  <2>3. Posted(e) = {} /\ Scheduled(e)' = {}
    BY <1>6, <2>1 DEF IInv, ChainOK
  <2>4. posts[e] = r.attempt + 1 /\ r.attempt + 1 < MaxRetries
    BY <2>1 DEF IInv, ChainOK
  <2> QED BY <1>1, <1>2, <1>3, <1>7, <2>2, <2>3, <2>4, RedeliverChain DEF IInv
<1>8. CASE e # r.event
  <2>1. posts'[e] = posts[e] /\ Posted(e)' = Posted(e)
    BY <1>1, <1>2, <1>8, RedeliverOther DEF IInv
  <2> QED BY <1>5, <1>6, <2>1, ChainKept DEF IInv
<1> QED BY <1>7, <1>8

LEMMA ChainNext ==
  ASSUME IInv, [Next]_vars, NEW e \in Events
  PROVE  ChainOK(e)'
<1>1. ASSUME NEW b \in BOOLEAN, Switch(b) PROVE ChainOK(e)'
  BY <1>1, ChainKept DEF Switch, Write, Posted, Held, Scheduled, IInv
<1>2. CASE ResetCircuit
  BY <1>2, ChainKept DEF ResetCircuit, Write, Posted, Held, Scheduled, IInv
<1>3. CASE DeleteWebhook
  BY <1>3, ChainKept DEF DeleteWebhook, Write, Posted, Held, Scheduled, IInv
<1>4. ASSUME NEW q \in Requests, SendTest(q) PROVE ChainOK(e)'
  BY <1>4, ChainKept DEF SendTest, Write, Posted, Held, Scheduled, IInv
<1>5. ASSUME NEW q \in Requests, NEW r \in rows, RetryByHand(q, r) PROVE ChainOK(e)'
  BY <1>5, ChainKept DEF RetryByHand, Write, Posted, Held, Scheduled, IInv
<1>6. CASE Restart
  BY <1>6, ChainKept DEF Restart, Posted, Held, Scheduled, IInv
<1>7. CASE UNCHANGED vars
  BY <1>7, ChainKept DEF vars, Posted, Held, Scheduled, IInv
<1> QED
  BY <1>1, <1>2, <1>3, <1>4, <1>5, <1>6, <1>7,
     FireChain, FinishChain, StartRetriesChain, NextRetryChain
     DEF Next, RetryJob, Admin

LEMMA OnlyEventsNext == IInv /\ [Next]_vars => OnlyEventsRetried'
<1> SUFFICES ASSUME IInv, [Next]_vars PROVE OnlyEventsRetried'
  OBVIOUS
<1> USE DEF OnlyEventsRetried, IInv
<1>1. ASSUME NEW e \in Events, Fire(e) PROVE OnlyEventsRetried'
  BY <1>1 DEF Fire
<1>2. ASSUME NEW p \in inFlight, NEW ok \in BOOLEAN, Finish(p, ok) PROVE OnlyEventsRetried'
  <2> DEFINE new == [id |-> nextId, event |-> p.event, attempt |-> p.attempt,
                     auto |-> p.auto, ok |-> ok, due |-> ~ok /\ RetryAfter(p)]
  <2>1. Prune(rows \cup {new}) \subseteq rows \cup {new}
    BY DEF Prune
  <2>2. rows' \subseteq rows \cup {new}
    <3>1. CASE hook.exists
      BY <1>2, <2>1, <3>1 DEF Finish
    <3>2. CASE ~hook.exists
      BY <1>2, <3>2 DEF Finish
    <3> QED BY <3>1, <3>2
  <2>3. new.due => new.event \in Events
    BY DEF RetryAfter
  <2>4. inFlight' \subseteq inFlight /\ batch' = batch
    BY <1>2 DEF Finish
  <2> HIDE DEF new
  <2> QED BY <2>2, <2>3, <2>4
<1>3. ASSUME NEW j \in Activations, StartRetries(j) PROVE OnlyEventsRetried'
  <2>1. PICK B \in kSubset(IF Cardinality(Due) < RetryBatch THEN Cardinality(Due) ELSE RetryBatch, Due) :
          \E r \in B : /\ rows' = Cleared(B, r)
                       /\ batch' = [batch EXCEPT ![j] = B \ {r}]
                       /\ Redeliver(j, r)
    BY <1>3 DEF StartRetries
  <2>2. PICK r \in B : /\ rows' = Cleared(B, r)
                       /\ batch' = [batch EXCEPT ![j] = B \ {r}]
                       /\ Redeliver(j, r)
    BY <2>1
  <2>3. \A q \in B : q.event \in Events
    BY BatchIsDue
  <2>4. \A p \in inFlight' : p.auto => p.event \in Events
    BY <2>2, <2>3 DEF Redeliver
  <2>5. \A q \in rows' : q.due => q.event \in Events
    <3>1. ASSUME NEW q \in rows PROVE [q EXCEPT !.due = FALSE].due = FALSE
      <4>1. q \in Row
        BY DEF TypeOK
      <4> QED BY <4>1 DEF Row
    <3> QED BY <2>2, <3>1 DEF Cleared
  <2>6. \A k \in Activations : batch'[k] \subseteq batch[k] \cup B
    BY <2>2 DEF TypeOK
  <2> QED BY <2>3, <2>4, <2>5, <2>6
<1>4. ASSUME NEW j \in Activations, NextRetry(j) PROVE OnlyEventsRetried'
  <2>1. PICK r \in batch[j] : batch' = [batch EXCEPT ![j] = @ \ {r}] /\ Redeliver(j, r)
    BY <1>4 DEF NextRetry
  <2>2. \A p \in inFlight' : p.auto => p.event \in Events
    BY <2>1 DEF Redeliver
  <2>3. \A k \in Activations : batch'[k] \subseteq batch[k]
    BY <2>1 DEF TypeOK
  <2>4. rows' = rows
    BY <1>4 DEF NextRetry
  <2> QED BY <2>2, <2>3, <2>4
<1>5. ASSUME NEW b \in BOOLEAN, Switch(b) PROVE OnlyEventsRetried'
  BY <1>5 DEF Switch, Write
<1>6. CASE ResetCircuit
  BY <1>6 DEF ResetCircuit, Write
<1>7. CASE DeleteWebhook
  BY <1>7 DEF DeleteWebhook, Write
<1>8. ASSUME NEW q \in Requests, SendTest(q) PROVE OnlyEventsRetried'
  BY <1>8 DEF SendTest, Write
<1>9. ASSUME NEW q \in Requests, NEW r \in rows, RetryByHand(q, r) PROVE OnlyEventsRetried'
  BY <1>9 DEF RetryByHand, Write
<1>10. CASE Restart
  BY <1>10 DEF Restart
<1>11. CASE UNCHANGED vars
  BY <1>11 DEF vars
<1> QED
  BY <1>1, <1>2, <1>3, <1>4, <1>5, <1>6, <1>7, <1>8, <1>9, <1>10, <1>11
     DEF Next, RetryJob, Admin

LEMMA IInvNext == IInv /\ [Next]_vars => IInv'
<1>1. IInv => TypeOK
  BY DEF IInv
<1> QED BY <1>1, TypeNext, OnlyEventsNext, ChainNext DEF IInv

LEMMA Invariance == Spec => []IInv
BY ChainInit, IInvNext, PTL DEF Spec

(* Overlapping activations of the retry job never deliver a row twice,     *)
(* since next_retry_at is cleared for the whole batch before the first     *)
(* await: the attempts of an event form one chain.                         *)
THEOREM ChainIsOne == Spec => []OneChain
<1>1. IInv => OneChain
  BY DEF IInv, ChainOK, OneChain
<1> QED BY <1>1, Invariance, PTL

(* An event is posted automatically at most MAX_RETRIES times, whatever    *)
(* restarts, prunings and deliveries by hand come in between.              *)
THEOREM AtMostMaxRetries == Spec => []PostsBounded
<1>1. IInv => PostsBounded
  BY DEF IInv, ChainOK, PostsBounded
<1> QED BY <1>1, Invariance, PTL

-----------------------------------------------------------------------------
(* What the deliveries leave behind.                                       *)

(* The rows are numbered, the automatic ones of an event by their attempts *)
(* too, and none of them is as late as the post that awaits the endpoint.  *)
RowsInOrder ==
  /\ hook.exists \/ rows = {}
  /\ \A r \in rows :
       /\ r.id < nextId
       /\ r.due => r.auto
       /\ r.auto => r.event \in Events /\ r.attempt < posts[r.event]
       /\ \A q \in rows :
            q.auto /\ r.auto /\ q.event = r.event /\ q.attempt = r.attempt => q = r
       /\ \A p \in inFlight : p.auto /\ r.auto /\ p.event = r.event => r.attempt < p.attempt
  /\ \A j \in Activations : \A r \in batch[j] : r.auto

(* The row that the bookkeeping of a delivery inserts.                     *)
LeftRow(p, ok) == [id |-> nextId, event |-> p.event, attempt |-> p.attempt,
                   auto |-> p.auto, ok |-> ok, due |-> ~ok /\ RetryAfter(p)]

(* The row a delivery leaves is not pruned by its own bookkeeping.         *)
LEMMA FinishRows ==
  ASSUME TypeOK, RowsInOrder, NEW p \in inFlight, NEW ok \in BOOLEAN, Finish(p, ok),
         hook.exists
  PROVE  /\ LeftRow(p, ok) \in rows' /\ rows' \subseteq rows \cup {LeftRow(p, ok)}
         /\ nextId' = nextId + 1
<1> DEFINE new == LeftRow(p, ok)
<1>1. rows' = Prune(rows \cup {new}) /\ nextId' = nextId + 1
  BY DEF Finish, LeftRow
<1>2. {q \in rows \cup {new} : q.id > new.id} = {}
  <2>1. \A q \in rows : q.id \in Nat /\ q.id < nextId
    BY DEF RowsInOrder, TypeOK, Row
  <2>2. nextId \in Nat
    BY DEF TypeOK
  <2>3. new.id = nextId
    BY DEF LeftRow
  <2> QED BY <2>1, <2>2, <2>3
<1>3. new \in Prune(rows \cup {new})
  <2>1. Cardinality({}) < KeepRows
    BY FS_EmptySet, ConstantsAssumption
  <2> QED BY <1>2, <2>1 DEF Prune
<1> QED BY <1>1, <1>3 DEF Prune

(* The retry job changes nothing of a row but that it is due.              *)
LEMMA ClearedRows ==
  ASSUME TypeOK, NEW B, NEW r, rows' = Cleared(B, r), NEW q \in rows'
  PROVE  \E o \in rows :
           /\ q = IF o \in B THEN [o EXCEPT !.due = FALSE] ELSE o
           /\ q.id = o.id /\ q.event = o.event /\ q.attempt = o.attempt
           /\ q.auto = o.auto /\ q.ok = o.ok
           /\ q.due => q = o /\ o \notin B
<1>1. PICK o \in rows : q = IF o \in B THEN [o EXCEPT !.due = FALSE] ELSE o
  BY DEF Cleared
<1>2. o \in Row
  BY DEF TypeOK
<1>3. CASE o \in B
  BY <1>1, <1>2, <1>3 DEF Row
<1>4. CASE o \notin B
  BY <1>1, <1>2, <1>4
<1> QED BY <1>3, <1>4

(* A retry posts the attempt after the last row of its event.              *)
LEMMA RedeliverOrder ==
  ASSUME TypeOK, NEW j \in Activations, NEW r \in Row, r.event \in Events,
         posts[r.event] = r.attempt + 1, Redeliver(j, r)
  PROVE  /\ \A e \in Events : posts[e] <= posts'[e]
         /\ \A p \in inFlight' \ inFlight :
              p.event = r.event /\ p.auto /\ p.attempt = posts[r.event]
<1>1. \A e \in Events : posts'[e] = IF e = r.event THEN posts[e] + 1 ELSE posts[e]
  BY DEF Redeliver, TypeOK
<1>2. \A e \in Events : posts[e] \in Nat
  BY DEF TypeOK
<1>3. inFlight' \ inFlight \subseteq
        {[event |-> r.event, attempt |-> r.attempt + 1, auto |-> TRUE, by |-> j]}
  BY DEF Redeliver
<1> QED BY <1>1, <1>2, <1>3

(* The end of the chain of a row that is due, or of one that is held.      *)
LEMMA DueEnd ==
  ASSUME IInv, NEW r \in rows, r.due
  PROVE  /\ r.event \in Events /\ r \in Row /\ Posted(r.event) = {} /\ Held(r.event) = {}
         /\ posts[r.event] = r.attempt + 1 /\ r.attempt + 1 < MaxRetries
         /\ \A q \in rows : q.due /\ q.event = r.event => q = r
<1>1. r.event \in Events /\ r \in Scheduled(r.event)
  BY DEF IInv, OnlyEventsRetried, Scheduled
<1>2. \A q \in rows : q.due /\ q.event = r.event => q \in Scheduled(r.event)
  BY DEF Scheduled
<1> QED BY <1>1, <1>2 DEF IInv, ChainOK, AtMostOne, TypeOK

LEMMA HeldEnd ==
  ASSUME IInv, NEW j \in Activations, NEW r \in batch[j]
  PROVE  /\ r.event \in Events /\ r \in Row /\ Posted(r.event) = {} /\ Scheduled(r.event) = {}
         /\ posts[r.event] = r.attempt + 1 /\ r.attempt + 1 < MaxRetries
<1>1. r.event \in Events /\ <<j, r>> \in Held(r.event)
  BY DEF IInv, OnlyEventsRetried, Held
<1>2. r \in Row
  BY DEF IInv, TypeOK
<1> QED BY <1>1, <1>2 DEF IInv, ChainOK

LEMMA FinishOrder ==
  ASSUME IInv, RowsInOrder, NEW p \in inFlight, NEW ok \in BOOLEAN, Finish(p, ok)
  PROVE  RowsInOrder'
<1> DEFINE new == LeftRow(p, ok)
<1>1. inFlight' = inFlight \ {p} /\ UNCHANGED <<batch, posts>>
  BY DEF Finish
<1>2. CASE ~hook.exists
  BY <1>1, <1>2 DEF Finish, RowsInOrder
<1>3. CASE hook.exists
  <2>1. rows' \subseteq rows \cup {new} /\ nextId' = nextId + 1
    BY <1>3, FinishRows DEF IInv
  <2>2. hook'.exists
    BY <1>3 DEF Finish, IInv, TypeOK
  <2>3. /\ new.id = nextId /\ new.event = p.event /\ new.attempt = p.attempt
        /\ new.auto = p.auto /\ (new.due => p.auto)
    BY DEF RetryAfter, LeftRow
  <2> HIDE DEF new
  <2>4. nextId \in Nat /\ \A r \in rows : r.id \in Nat /\ r.attempt \in Nat
    BY DEF IInv, TypeOK, Row
  <2>5. p.auto => p.event \in Events /\ p \in Posted(p.event)
    BY DEF IInv, OnlyEventsRetried, Posted
  <2>6. p.auto => posts[p.event] = p.attempt + 1 /\ Posted(p.event) = {p}
    BY <2>5 DEF IInv, ChainOK, AtMostOne
  <2>7. p.attempt \in Nat
    BY DEF IInv, TypeOK, Post
  <2>8. \A r \in rows' :
          /\ r.id < nextId'
          /\ r.due => r.auto
          /\ r.auto => r.event \in Events /\ r.attempt < posts'[r.event]
    BY <1>1, <2>1, <2>3, <2>4, <2>5, <2>6, <2>7 DEF RowsInOrder
  <2>9. \A r, q \in rows' :
          q.auto /\ r.auto /\ q.event = r.event /\ q.attempt = r.attempt => q = r
    <3>1. \A r \in rows : r.auto /\ p.auto /\ r.event = p.event => r.attempt < p.attempt
      BY DEF RowsInOrder
    <3> QED BY <2>1, <2>3, <2>4, <2>7, <3>1 DEF RowsInOrder
  <2>10. \A r \in rows', o \in inFlight' :
           o.auto /\ r.auto /\ o.event = r.event => r.attempt < o.attempt
    <3>1. ASSUME NEW o \in inFlight', o.auto, p.auto, o.event = p.event PROVE FALSE
      BY <1>1, <2>6, <3>1 DEF Posted
    <3> QED BY <1>1, <2>1, <2>3, <3>1 DEF RowsInOrder
  <2> QED BY <1>1, <2>2, <2>8, <2>9, <2>10 DEF RowsInOrder
<1> QED BY <1>2, <1>3

LEMMA StartRetriesOrder ==
  ASSUME IInv, RowsInOrder, NEW j \in Activations, StartRetries(j)
  PROVE  RowsInOrder'
<1>1. PICK B \in kSubset(IF Cardinality(Due) < RetryBatch THEN Cardinality(Due) ELSE RetryBatch, Due) :
        \E r \in B : /\ rows' = Cleared(B, r)
                     /\ batch' = [batch EXCEPT ![j] = B \ {r}]
                     /\ Redeliver(j, r)
  BY DEF StartRetries
<1>2. PICK r \in B : /\ rows' = Cleared(B, r)
                     /\ batch' = [batch EXCEPT ![j] = B \ {r}]
                     /\ Redeliver(j, r)
  BY <1>1
<1>3. r \in rows /\ r.due /\ \A b \in B : b \in rows /\ b.due
  BY BatchIsDue
<1>4. /\ r.event \in Events /\ r \in Row /\ posts[r.event] = r.attempt + 1
  BY <1>3, DueEnd
<1>5. /\ \A e \in Events : posts[e] <= posts'[e]
      /\ \A p \in inFlight' \ inFlight :
           p.event = r.event /\ p.auto /\ p.attempt = posts[r.event]
  BY <1>2, <1>4, RedeliverOrder DEF IInv
<1>6. \A q \in rows' :
        \E o \in rows : /\ q = IF o \in B THEN [o EXCEPT !.due = FALSE] ELSE o
                        /\ q.id = o.id /\ q.event = o.event /\ q.attempt = o.attempt
                        /\ q.auto = o.auto /\ q.ok = o.ok
                        /\ q.due => q = o /\ o \notin B
  BY <1>2, ClearedRows DEF IInv
<1>7. hook' = hook /\ nextId' = nextId
  BY DEF StartRetries
<1>8. hook'.exists \/ rows' = {}
  BY <1>2, <1>7 DEF Cleared, RowsInOrder
<1>9. \A q \in rows : q.attempt \in Nat /\ \A e \in Events : posts[e] \in Nat /\ posts'[e] \in Nat
  BY TypeNext DEF IInv, TypeOK, Row, Next, RetryJob
<1>10. ASSUME NEW q \in rows'
       PROVE  /\ q.id < nextId' /\ (q.due => q.auto)
              /\ q.auto => q.event \in Events /\ q.attempt < posts'[q.event]
              /\ \A p \in inFlight' : p.auto /\ q.auto /\ p.event = q.event => q.attempt < p.attempt
  <2>1. PICK o \in rows : /\ q.id = o.id /\ q.event = o.event /\ q.attempt = o.attempt
                          /\ q.auto = o.auto /\ (q.due => q = o)
    BY <1>6
  <2>2. q.id < nextId' /\ (q.due => q.auto)
    BY <1>7, <2>1 DEF RowsInOrder
  <2>3. q.auto => q.event \in Events /\ q.attempt < posts[q.event]
    BY <2>1 DEF RowsInOrder
  <2>4. q.auto => q.event \in Events /\ q.attempt < posts'[q.event]
    BY <1>5, <1>9, <2>1, <2>3
  <2>5. ASSUME NEW p \in inFlight', p.auto, q.auto, p.event = q.event
        PROVE  q.attempt < p.attempt
    BY <1>5, <2>1, <2>3, <2>5 DEF RowsInOrder
  <2> QED BY <2>2, <2>4, <2>5
<1>11. \A q, s \in rows' :
         s.auto /\ q.auto /\ s.event = q.event /\ s.attempt = q.attempt => s = q
  <2> SUFFICES ASSUME NEW q \in rows', NEW s \in rows',
                      s.auto, q.auto, s.event = q.event, s.attempt = q.attempt
               PROVE  s = q
    OBVIOUS
  <2>1. PICK o \in rows : /\ q = IF o \in B THEN [o EXCEPT !.due = FALSE] ELSE o
                          /\ q.event = o.event /\ q.attempt = o.attempt /\ q.auto = o.auto
    BY <1>6
  <2>2. PICK u \in rows : /\ s = IF u \in B THEN [u EXCEPT !.due = FALSE] ELSE u
                          /\ s.event = u.event /\ s.attempt = u.attempt /\ s.auto = u.auto
    BY <1>6
  <2>3. u = o
    BY <2>1, <2>2 DEF RowsInOrder
  <2> QED BY <2>1, <2>2, <2>3
<1>12. \A k \in Activations : \A q \in batch'[k] : q.auto
  BY <1>2, <1>3 DEF RowsInOrder, IInv, TypeOK
<1> QED BY <1>8, <1>10, <1>11, <1>12 DEF RowsInOrder

LEMMA NextRetryOrder ==
  ASSUME IInv, RowsInOrder, NEW j \in Activations, NextRetry(j)
  PROVE  RowsInOrder'
<1>1. PICK r \in batch[j] : batch' = [batch EXCEPT ![j] = @ \ {r}] /\ Redeliver(j, r)
  BY DEF NextRetry
<1>2. r.event \in Events /\ r \in Row /\ posts[r.event] = r.attempt + 1
  BY HeldEnd
<1>3. /\ \A e \in Events : posts[e] <= posts'[e]
      /\ \A p \in inFlight' \ inFlight :
           p.event = r.event /\ p.auto /\ p.attempt = posts[r.event]
  BY <1>1, <1>2, RedeliverOrder DEF IInv
<1>4. UNCHANGED <<hook, rows, nextId>>
  BY DEF NextRetry
<1>5. \A q \in rows : q.attempt \in Nat /\ \A e \in Events : posts[e] \in Nat /\ posts'[e] \in Nat
  BY TypeNext DEF IInv, TypeOK, Row, Next, RetryJob
<1>6. \A k \in Activations : batch'[k] \subseteq batch[k]
  BY <1>1 DEF IInv, TypeOK
<1>7. ASSUME NEW q \in rows, NEW p \in inFlight', p.auto, q.auto, p.event = q.event
      PROVE  q.attempt < p.attempt
  BY <1>3, <1>5, <1>7 DEF RowsInOrder
<1>8. \A q \in rows : q.auto => q.event \in Events /\ q.attempt < posts'[q.event]
  BY <1>3, <1>5 DEF RowsInOrder
<1> QED BY <1>4, <1>6, <1>7, <1>8 DEF RowsInOrder

LEMMA OrderNext == IInv /\ RowsInOrder /\ [Next]_vars => RowsInOrder'
<1> SUFFICES ASSUME IInv, RowsInOrder, [Next]_vars PROVE RowsInOrder'
  OBVIOUS
<1>1. ASSUME NEW e \in Events, Fire(e) PROVE RowsInOrder'
  <2>1. posts[e] = 0 /\ \A f \in Events : f # e => posts'[f] = posts[f]
    BY <1>1 DEF Fire, IInv, TypeOK
  <2>2. \A r \in rows : r.auto => r.attempt \in Nat /\ r.event # e
    BY <2>1 DEF RowsInOrder, IInv, TypeOK, Row
  <2>3. \A p \in inFlight' : p \in inFlight \/ p.event = e
    BY <1>1 DEF Fire
  <2>4. UNCHANGED <<hook, rows, nextId, batch>>
    BY <1>1 DEF Fire
  <2> QED BY <2>1, <2>2, <2>3, <2>4 DEF RowsInOrder
<1>2. ASSUME NEW b \in BOOLEAN, Switch(b) PROVE RowsInOrder'
  <2>1. hook'.exists /\ UNCHANGED <<rows, nextId, batch, posts, inFlight>>
    BY <1>2 DEF Switch, Write, IInv, TypeOK
  <2> QED BY <2>1 DEF RowsInOrder
<1>3. CASE ResetCircuit
  <2>1. hook'.exists /\ UNCHANGED <<rows, nextId, batch, posts, inFlight>>
    BY <1>3 DEF ResetCircuit, Write, IInv, TypeOK
  <2> QED BY <2>1 DEF RowsInOrder
<1>4. CASE DeleteWebhook
  BY <1>4 DEF DeleteWebhook, Write, RowsInOrder
<1>5. ASSUME NEW q \in Requests, SendTest(q) PROVE RowsInOrder'
  <2>1. UNCHANGED <<hook, rows, nextId, batch, posts>>
    BY <1>5 DEF SendTest, Write
  <2>2. \A p \in inFlight' : p \in inFlight \/ ~p.auto
    BY <1>5 DEF SendTest
  <2> QED BY <2>1, <2>2 DEF RowsInOrder
<1>6. ASSUME NEW q \in Requests, NEW r \in rows, RetryByHand(q, r) PROVE RowsInOrder'
  <2>1. UNCHANGED <<hook, rows, nextId, batch, posts>>
    BY <1>6 DEF RetryByHand, Write
  <2>2. \A p \in inFlight' : p \in inFlight \/ ~p.auto
    BY <1>6 DEF RetryByHand
  <2> QED BY <2>1, <2>2 DEF RowsInOrder
<1>7. CASE Restart
  BY <1>7 DEF Restart, RowsInOrder
<1>8. CASE UNCHANGED vars
  BY <1>8 DEF vars, RowsInOrder
<1> QED
  BY <1>1, <1>2, <1>3, <1>4, <1>5, <1>6, <1>7, <1>8, FinishOrder, StartRetriesOrder,
     NextRetryOrder
     DEF Next, RetryJob, Admin

-----------------------------------------------------------------------------
(* No retry is lost.                                                       *)

(* No two rows have one id, and the row of an event that is scheduled is   *)
(* the newest of its automatic deliveries.                                 *)
LastIsDue ==
  /\ \A q, r \in rows : q.id = r.id => q = r
  /\ \A r \in rows : r.due => last[r.event].id = r.id

(* Pruning takes a row away only when KeepRows newer ones were recorded.   *)
LEMMA PrunedIsOld ==
  ASSUME NEW R, NEW n \in Nat, \A q \in R : q.id \in Nat /\ q.id <= n,
         \A q, r \in R : q.id = r.id => q = r, NEW r \in R, r \notin Prune(R)
  PROVE  n + 1 - r.id > KeepRows
<1> DEFINE S == {q \in R : q.id > r.id}
           T == (r.id + 1)..n
           f == [q \in S |-> q.id]
<1>1. f \in Injection(S, T)
  BY DEF Injection, IsInjective
<1>2. IsFiniteSet(T) /\ Cardinality(T) = n - r.id
  <2>1. IsFiniteSet(T) /\ Cardinality(T) = IF r.id + 1 > n THEN 0 ELSE n - (r.id + 1) + 1
    BY FS_Interval
  <2> QED BY <2>1
<1> HIDE DEF T, f
<1>3. IsFiniteSet(S) /\ Cardinality(S) <= n - r.id
  BY <1>1, <1>2, FS_Injection
<1>4. Cardinality(S) \in Nat
  BY <1>3, FS_CardinalityType
<1>5. ~(Cardinality(S) < KeepRows)
  BY DEF Prune
<1> HIDE DEF S
<1> QED BY <1>3, <1>4, <1>5, ConstantsAssumption

(* What is left after the bookkeeping of a delivery, and what is not.      *)
LEMMA FinishPrunes ==
  ASSUME IInv, RowsInOrder, LastIsDue, NEW p \in inFlight, NEW ok \in BOOLEAN, Finish(p, ok),
         hook.exists
  PROVE  \A r \in rows : r \in rows' \/ nextId' - r.id > KeepRows
<1> DEFINE new == LeftRow(p, ok)
<1>1. rows' = Prune(rows \cup {new}) /\ nextId' = nextId + 1 /\ new.id = nextId
  BY DEF Finish, LeftRow
<1> HIDE DEF new
<1>2. nextId \in Nat /\ \A q \in rows : q.id \in Nat /\ q.id < nextId
  BY DEF IInv, TypeOK, Row, RowsInOrder
<1>3. \A q, r \in rows \cup {new} : q.id = r.id => q = r
  BY <1>1, <1>2 DEF LastIsDue
<1>4. \A q \in rows \cup {new} : q.id \in Nat /\ q.id <= nextId
  BY <1>1, <1>2
<1> QED BY <1>1, <1>2, <1>3, <1>4, PrunedIsOld

(* While the post of an event awaits the endpoint, nothing else of it is   *)
(* held or scheduled.                                                      *)
LEMMA PostedAlone ==
  ASSUME IInv, NEW p \in inFlight, p.auto
  PROVE  /\ p.event \in Events /\ posts[p.event] = p.attempt + 1 /\ p.attempt \in Nat
         /\ Posted(p.event) = {p} /\ Held(p.event) = {} /\ Scheduled(p.event) = {}
<1>1. p.event \in Events /\ p \in Posted(p.event) /\ p.attempt \in Nat
  BY DEF IInv, OnlyEventsRetried, Posted, TypeOK, Post
<1> QED BY <1>1 DEF IInv, ChainOK, AtMostOne

LEMMA FinishLast ==
  ASSUME IInv, RowsInOrder, LastIsDue, NEW p \in inFlight, NEW ok \in BOOLEAN, Finish(p, ok)
  PROVE  LastIsDue'
<1>1. CASE ~hook.exists
  BY <1>1 DEF Finish, LastIsDue
<1>2. CASE hook.exists
  <2> DEFINE new == LeftRow(p, ok)
  <2>1. rows' \subseteq rows \cup {new} /\ nextId' = nextId + 1
    BY <1>2, FinishRows DEF IInv
  <2>2. last' = IF p.auto THEN [last EXCEPT ![p.event] = [id |-> nextId, ok |-> ok]] ELSE last
    BY <1>2 DEF Finish
  <2>3. new.id = nextId /\ new.event = p.event /\ (new.due => p.auto)
    BY DEF RetryAfter, LeftRow
  <2> HIDE DEF new
  <2>4. nextId \in Nat /\ \A r \in rows : r.id \in Nat /\ r.id < nextId
    BY DEF IInv, TypeOK, Row, RowsInOrder
  <2>5. \A q, r \in rows' : q.id = r.id => q = r
    BY <2>1, <2>3, <2>4 DEF LastIsDue
  <2>6. last \in [Events -> [id : Nat, ok : BOOLEAN]]
    BY DEF IInv, TypeOK
  <2>7. ASSUME NEW r \in rows', r.due PROVE last'[r.event].id = r.id
    <3>1. CASE r = new
      BY <2>2, <2>3, <2>6, <2>7, <3>1, PostedAlone
    <3>2. CASE r \in rows
      <4>1. r.event \in Events /\ last[r.event].id = r.id
        BY <2>7, <3>2 DEF LastIsDue, IInv, OnlyEventsRetried
      <4>2. ~(p.auto /\ p.event = r.event)
        BY <2>7, <3>2, PostedAlone DEF Scheduled
      <4> QED BY <2>2, <2>6, <4>1, <4>2
    <3> QED BY <2>1, <3>1, <3>2
  <2> QED BY <2>5, <2>7 DEF LastIsDue
<1> QED BY <1>1, <1>2

LEMMA StartRetriesLast ==
  ASSUME IInv, LastIsDue, NEW j \in Activations, StartRetries(j)
  PROVE  LastIsDue'
<1>1. PICK B, r : rows' = Cleared(B, r)
  BY DEF StartRetries
<1>2. last' = last
  BY DEF StartRetries
<1>3. \A q \in rows' :
        \E o \in rows : /\ q = IF o \in B THEN [o EXCEPT !.due = FALSE] ELSE o
                        /\ q.id = o.id /\ (q.due => q = o)
  BY <1>1, ClearedRows DEF IInv
<1>4. ASSUME NEW q \in rows', NEW s \in rows', q.id = s.id PROVE q = s
  <2>1. PICK o \in rows : q.id = o.id /\ q = IF o \in B THEN [o EXCEPT !.due = FALSE] ELSE o
    BY <1>3
  <2>2. PICK u \in rows : s.id = u.id /\ s = IF u \in B THEN [u EXCEPT !.due = FALSE] ELSE u
    BY <1>3
  <2>3. u = o
    BY <1>4, <2>1, <2>2 DEF LastIsDue
  <2> QED BY <2>1, <2>2, <2>3
<1>5. \A q \in rows' : q.due => last'[q.event].id = q.id
  BY <1>2, <1>3 DEF LastIsDue
<1> QED BY <1>4, <1>5 DEF LastIsDue

LEMMA LastNext == IInv /\ RowsInOrder /\ LastIsDue /\ [Next]_vars => LastIsDue'
<1> SUFFICES ASSUME IInv, RowsInOrder, LastIsDue, [Next]_vars PROVE LastIsDue'
  OBVIOUS
<1>1. ASSUME UNCHANGED <<rows, last>> PROVE LastIsDue'
  BY <1>1 DEF LastIsDue
<1>2. CASE DeleteWebhook
  BY <1>2 DEF DeleteWebhook, LastIsDue
<1>3. ASSUME NEW e \in Events, Fire(e) PROVE LastIsDue'
  BY <1>1, <1>3 DEF Fire
<1>4. ASSUME NEW j \in Activations, NextRetry(j) PROVE LastIsDue'
  BY <1>1, <1>4 DEF NextRetry
<1>5. ASSUME NEW b \in BOOLEAN, Switch(b) \/ ResetCircuit PROVE LastIsDue'
  BY <1>1, <1>5 DEF Switch, ResetCircuit, Write
<1>6. ASSUME NEW q \in Requests, SendTest(q) \/ \E r \in rows : RetryByHand(q, r)
      PROVE  LastIsDue'
  BY <1>1, <1>6 DEF SendTest, RetryByHand, Write
<1>7. CASE Restart \/ UNCHANGED vars
  BY <1>1, <1>7 DEF Restart, vars
<1> QED
  BY <1>2, <1>3, <1>4, <1>5, <1>6, <1>7, FinishLast, StartRetriesLast DEF Next, RetryJob, Admin

(* What NoRetryLost says of one event.                                     *)
Kept(e) == Waiting(e) \/ last[e].ok \/ nextId - last[e].id > KeepRows

(* An event that is kept stays so in a step that keeps what is posted,     *)
(* held and scheduled of it.                                               *)
LEMMA KeptOn ==
  ASSUME NEW e, Kept(e), UNCHANGED <<last, nextId>>, Posted(e) \subseteq Posted(e)',
         Held(e) # {} \/ Scheduled(e) # {} => Held(e)' # {} \/ Scheduled(e)' # {}
  PROVE  Kept(e)'
BY DEF Kept, Waiting

LEMMA FinishLosesNone ==
  ASSUME IInv, RowsInOrder, LastIsDue, NoRetryLost, NEW p \in inFlight, NEW ok \in BOOLEAN,
         Finish(p, ok)
  PROVE  NoRetryLost'
<1> SUFFICES ASSUME NEW e \in Events, restarts' = 0, hook'.exists,
                    posts'[e] \in 1..(MaxRetries - 1)
             PROVE  Kept(e)'
  BY DEF NoRetryLost, Kept
<1>1. UNCHANGED <<batch, posts, restarts>> /\ inFlight' = inFlight \ {p}
  BY DEF Finish
<1>2. hook.exists
  BY DEF Finish, IInv, TypeOK
<1>3. LeftRow(p, ok) \in rows' /\ nextId' = nextId + 1
  BY <1>2, FinishRows DEF IInv
<1>4. last' = IF p.auto THEN [last EXCEPT ![p.event] = [id |-> nextId, ok |-> ok]] ELSE last
  BY <1>2 DEF Finish
<1>5. last \in [Events -> [id : Nat, ok : BOOLEAN]] /\ nextId \in Nat
  BY DEF IInv, TypeOK
<1>6. CASE p.auto /\ p.event = e
  <2>1. posts[e] = p.attempt + 1 /\ p.attempt \in Nat
    BY <1>6, PostedAlone
  <2>2. CASE ok
    BY <1>4, <1>5, <1>6, <2>2 DEF Kept
  <2>3. CASE ~ok
    <3>1. RetryAfter(p)
      <4>1. p.attempt + 1 <= MaxRetries - 1 /\ MaxRetries \in Nat
        BY <1>1, <2>1, ConstantsAssumption
      <4> QED BY <1>6, <2>1, <4>1 DEF RetryAfter
    <3>2. LeftRow(p, ok).due /\ LeftRow(p, ok).event = e
      BY <1>6, <2>3, <3>1 DEF LeftRow
    <3> QED BY <1>3, <3>2 DEF Kept, Waiting, Scheduled
  <2> QED BY <2>2, <2>3
<1>7. CASE ~(p.auto /\ p.event = e)
  <2>1. last'[e] = last[e]
    BY <1>4, <1>5, <1>7
  <2>2. Kept(e)
    BY <1>1, <1>2 DEF NoRetryLost, Kept
  <2>3. CASE Posted(e) # {} \/ Held(e) # {}
    BY <1>1, <1>7, <2>3 DEF Kept, Waiting, Posted, Held
  <2>4. CASE Scheduled(e) # {}
    <3>1. PICK r \in rows : r.event = e /\ r.due
      BY <2>4 DEF Scheduled
    <3>2. CASE r \in rows'
      BY <3>1, <3>2 DEF Kept, Waiting, Scheduled
    <3>3. CASE r \notin rows'
      <4>1. last[e].id = r.id
        BY <3>1 DEF LastIsDue
      <4> QED BY <1>2, <2>1, <3>3, <4>1, FinishPrunes DEF Kept
    <3> QED BY <3>2, <3>3
  <2>5. CASE last[e].ok
    BY <2>1, <2>5 DEF Kept
  <2>6. CASE nextId - last[e].id > KeepRows
    <3>1. last[e].id \in Nat /\ KeepRows \in Nat
      BY <1>5, ConstantsAssumption
    <3> QED BY <1>3, <1>5, <2>1, <2>6, <3>1 DEF Kept
  <2> QED BY <2>2, <2>3, <2>4, <2>5, <2>6 DEF Kept, Waiting
<1> QED BY <1>6, <1>7

(* The chains the retry job does not post go on, in its hands or as they   *)
(* were.                                                                   *)
LEMMA RedeliverLosesNone ==
  ASSUME IInv, NoRetryLost, UNCHANGED <<restarts, hook, last, nextId>>,
         NEW j \in Activations, NEW r \in Row, r.event \in Events, Redeliver(j, r),
         \A e \in Events \ {r.event} :
           Held(e) # {} \/ Scheduled(e) # {} => Held(e)' # {} \/ Scheduled(e)' # {}
  PROVE  NoRetryLost'
<1> SUFFICES ASSUME NEW e \in Events, restarts' = 0, hook'.exists,
                    posts'[e] \in 1..(MaxRetries - 1)
             PROVE  Kept(e)'
  BY DEF NoRetryLost, Kept
<1>1. CASE e = r.event
  <2> DEFINE new == [event |-> r.event, attempt |-> r.attempt + 1, auto |-> TRUE, by |-> j]
  <2>1. new \in inFlight' /\ new.event = e /\ new.auto
    BY <1>1 DEF Redeliver
  <2>2. new \in Posted(e)'
    BY <2>1 DEF Posted
  <2> QED BY <2>2 DEF Kept, Waiting
<1>2. CASE e # r.event
  <2>1. posts'[e] = posts[e] /\ Posted(e)' = Posted(e)
    BY <1>2, RedeliverOther DEF IInv
  <2>2. Kept(e)
    BY <2>1 DEF NoRetryLost, Kept
  <2> QED BY <1>2, <2>1, <2>2, KeptOn
<1> QED BY <1>1, <1>2

LEMMA StartRetriesLosesNone ==
  ASSUME IInv, RowsInOrder, NoRetryLost, NEW j \in Activations, StartRetries(j)
  PROVE  NoRetryLost'
<1>1. PICK B \in kSubset(IF Cardinality(Due) < RetryBatch THEN Cardinality(Due) ELSE RetryBatch, Due) :
        \E r \in B : /\ rows' = Cleared(B, r)
                     /\ batch' = [batch EXCEPT ![j] = B \ {r}]
                     /\ Redeliver(j, r)
  BY DEF StartRetries
<1>2. PICK r \in B : /\ rows' = Cleared(B, r)
                     /\ batch' = [batch EXCEPT ![j] = B \ {r}]
                     /\ Redeliver(j, r)
  BY <1>1
<1>3. r.event \in Events /\ r \in Row
  BY DueEnd, BatchIsDue
<1>5. batch'[j] = B \ {r} /\ batch[j] = {} /\ \A k \in Activations : k # j => batch'[k] = batch[k]
  BY <1>2 DEF IInv, TypeOK, StartRetries
<1>6. ASSUME NEW e \in Events \ {r.event}, Held(e) # {} \/ Scheduled(e) # {}
      PROVE  Held(e)' # {} \/ Scheduled(e)' # {}
  <2>1. CASE Held(e) # {}
    <3>1. PICK k \in Activations : \E q \in batch[k] : q.event = e
      BY <2>1 DEF Held
    <3>2. PICK q \in batch[k] : q.event = e
      BY <3>1
    <3>3. q \in batch'[k]
      BY <1>5, <3>1
    <3>4. <<k, q>> \in Held(e)'
      BY <3>2, <3>3 DEF Held
    <3> QED BY <3>4
  <2>2. CASE Scheduled(e) # {}
    <3>1. PICK q \in rows : q.event = e /\ q.due
      BY <2>2 DEF Scheduled
    <3>2. CASE q \in B
      <4>1. q \in batch'[j]
        BY <1>5, <3>1, <3>2
      <4>2. <<j, q>> \in Held(e)'
        BY <3>1, <4>1 DEF Held
      <4> QED BY <4>2
    <3>3. CASE q \notin B
      <4>1. q \in rows'
        BY <1>2, <3>3 DEF Cleared
      <4>2. q \in Scheduled(e)'
        BY <3>1, <4>1 DEF Scheduled
      <4> QED BY <4>2
    <3> QED BY <3>2, <3>3
  <2> QED BY <1>6, <2>1, <2>2
<1> QED BY <1>2, <1>3, <1>6, RedeliverLosesNone DEF StartRetries

LEMMA NextRetryLosesNone ==
  ASSUME IInv, RowsInOrder, NoRetryLost, NEW j \in Activations, NextRetry(j)
  PROVE  NoRetryLost'
<1>1. PICK r \in batch[j] : batch' = [batch EXCEPT ![j] = @ \ {r}] /\ Redeliver(j, r)
  BY DEF NextRetry
<1>2. r.event \in Events /\ r \in Row
  BY HeldEnd
<1>3. \A k \in Activations : \A q \in batch[k] : q \in batch'[k] \/ q = r
  BY <1>1 DEF IInv, TypeOK
<1>4. UNCHANGED <<rows, restarts, hook, last, nextId>>
  BY DEF NextRetry
<1>5. ASSUME NEW e \in Events \ {r.event}, Held(e) # {} \/ Scheduled(e) # {}
      PROVE  Held(e)' # {} \/ Scheduled(e)' # {}
  <2>1. CASE Held(e) # {}
    <3>1. PICK k \in Activations : \E q \in batch[k] : q.event = e
      BY <2>1 DEF Held
    <3>2. PICK q \in batch[k] : q.event = e
      BY <3>1
    <3>3. q \in batch'[k]
      BY <1>3, <3>2
    <3>4. <<k, q>> \in Held(e)'
      BY <3>2, <3>3 DEF Held
    <3> QED BY <3>4
  <2>2. CASE Scheduled(e) # {}
    BY <1>4, <2>2 DEF Scheduled
  <2> QED BY <1>5, <2>1, <2>2
<1> QED BY <1>1, <1>2, <1>4, <1>5, RedeliverLosesNone

LEMMA LosesNoneNext == IInv /\ RowsInOrder /\ LastIsDue /\ NoRetryLost /\ [Next]_vars => NoRetryLost'
<1> SUFFICES ASSUME IInv, RowsInOrder, LastIsDue, NoRetryLost, [Next]_vars PROVE NoRetryLost'
  OBVIOUS
<1>1. ASSUME NEW f \in Events, Fire(f) PROVE NoRetryLost'
  <2> SUFFICES ASSUME NEW e \in Events, restarts' = 0, hook'.exists,
                      posts'[e] \in 1..(MaxRetries - 1)
               PROVE  Kept(e)'
    BY DEF NoRetryLost, Kept
  <2>1. UNCHANGED <<rows, batch, restarts, hook, last, nextId>> /\ inFlight \subseteq inFlight'
    BY <1>1 DEF Fire
  <2>2. CASE e = f
    <3> DEFINE new == [event |-> f, attempt |-> 0, auto |-> TRUE, by |-> f]
    <3>1. new \in inFlight' /\ new.event = e /\ new.auto
      BY <1>1, <2>2 DEF Fire
    <3>2. new \in Posted(e)'
      BY <3>1 DEF Posted
    <3> QED BY <3>2 DEF Kept, Waiting
  <2>3. CASE e # f
    <3>1. posts'[e] = posts[e]
      BY <1>1, <2>3 DEF Fire, IInv, TypeOK
    <3>2. Kept(e)
      BY <2>1, <3>1 DEF NoRetryLost, Kept
    <3> QED BY <2>1, <3>2, KeptOn DEF Posted, Held, Scheduled
  <2> QED BY <2>2, <2>3
<1>2. ASSUME UNCHANGED <<rows, posts, batch, restarts, last, nextId>>,
             inFlight \subseteq inFlight', hook'.exists => hook.exists
      PROVE  NoRetryLost'
  <2> SUFFICES ASSUME NEW e \in Events, restarts' = 0, hook'.exists,
                      posts'[e] \in 1..(MaxRetries - 1)
               PROVE  Kept(e)'
    BY DEF NoRetryLost, Kept
  <2>1. Kept(e)
    BY <1>2 DEF NoRetryLost, Kept
  <2> QED BY <1>2, <2>1, KeptOn DEF Posted, Held, Scheduled
<1>3. ASSUME NEW b \in BOOLEAN, Switch(b) PROVE NoRetryLost'
  BY <1>2, <1>3 DEF Switch, Write
<1>4. CASE ResetCircuit
  BY <1>2, <1>4 DEF ResetCircuit, Write
<1>5. CASE DeleteWebhook
  <2>1. ~hook'.exists
    BY <1>5 DEF DeleteWebhook, IInv, TypeOK
  <2> QED BY <2>1 DEF NoRetryLost
<1>6. ASSUME NEW q \in Requests, SendTest(q) PROVE NoRetryLost'
  BY <1>2, <1>6 DEF SendTest, Write
<1>7. ASSUME NEW q \in Requests, NEW r \in rows, RetryByHand(q, r) PROVE NoRetryLost'
  BY <1>2, <1>7 DEF RetryByHand, Write
<1>8. CASE Restart
  <2>1. restarts' # 0
    BY <1>8 DEF Restart, IInv, TypeOK
  <2> QED BY <2>1 DEF NoRetryLost
<1>9. CASE UNCHANGED vars
  BY <1>2, <1>9 DEF vars
<1> QED
  BY <1>1, <1>3, <1>4, <1>5, <1>6, <1>7, <1>8, <1>9, FinishLosesNone, StartRetriesLosesNone,
     NextRetryLosesNone
     DEF Next, RetryJob, Admin

(* An event with attempts left is being retried, or its newest attempt     *)
(* succeeded, or KeepRows newer deliveries pushed its row out, however     *)
(* many events fail at once: nothing but a restart and that pruning loses  *)
(* a retry, for any limits.                                                *)
THEOREM RetriesAreKept == Spec => []NoRetryLost
<1>1. Init => RowsInOrder /\ LastIsDue /\ NoRetryLost
  <2>1. Init => RowsInOrder /\ LastIsDue
    BY DEF Init, RowsInOrder, LastIsDue
  <2>2. Init => NoRetryLost
    BY DEF Init, NoRetryLost
  <2> QED BY <2>1, <2>2
<1> QED BY <1>1, ChainInit, IInvNext, OrderNext, LastNext, LosesNoneNext, PTL DEF Spec

-----------------------------------------------------------------------------
(* The circuit breaker.                                                    *)

(* Before the first success and the first admin, consecutive_failures has  *)
(* counted every attempt of every chain, however the chains interleave.    *)
FailuresCounted ==
  writes = 0 /\ ~answered =>
    /\ hook.exists
    /\ \A p \in inFlight : p.auto /\ hook.failures >= p.attempt
    /\ \A r \in rows : r.due => hook.failures > r.attempt
    /\ \A j \in Activations : \A r \in batch[j] : hook.failures > r.attempt

BreakerInv == FailuresCounted /\ DeadEndpointDisabled

(* A step that sends nothing and takes up nothing.                         *)
LEMMA BreakerKept ==
  ASSUME BreakerInv, inFlight' \subseteq inFlight, rows' = rows, hook' = hook,
         \A j \in Activations : batch'[j] \subseteq batch[j],
         writes' = writes, answered' = answered
  PROVE  BreakerInv'
BY DEF BreakerInv, FailuresCounted, DeadEndpointDisabled

LEMMA FinishBreaker ==
  ASSUME IInv, RowsInOrder, BreakerInv, NEW p \in inFlight, NEW ok \in BOOLEAN, Finish(p, ok)
  PROVE  BreakerInv'
<1> SUFFICES ASSUME writes' = 0, ~answered' PROVE BreakerInv'
  BY DEF BreakerInv, FailuresCounted, DeadEndpointDisabled
<1>1. writes = 0 /\ ~answered
  BY DEF Finish
<1>2. hook.exists /\ p.auto /\ hook.failures >= p.attempt
  BY <1>1 DEF BreakerInv, FailuresCounted
<1>3. ~ok
  BY <1>2 DEF Finish
<1>4. hook.failures \in Nat /\ p.attempt \in Nat /\ MaxRetries \in Nat \ {0}
  BY ConstantsAssumption DEF IInv, TypeOK, Post
<1>5. Count(p, ok) = hook.failures + 1
  BY <1>2, <1>3 DEF Count
<1>6. hook'.failures = hook.failures + 1 /\ hook'.exists /\ hook'.enabled = (hook.enabled /\ ~Trips(p, ok))
  BY <1>2, <1>5 DEF Finish, IInv, TypeOK
<1>7. rows' \subseteq rows \cup {LeftRow(p, ok)}
  BY <1>2, FinishRows DEF IInv
<1>8. inFlight' \subseteq inFlight /\ batch' = batch
  BY DEF Finish
<1>9. LeftRow(p, ok).attempt = p.attempt
  BY DEF LeftRow
<1>10. \A o \in inFlight : o.attempt \in Nat
  BY DEF IInv, TypeOK, Post
<1>11. \A r \in rows : r.attempt \in Nat
  BY DEF IInv, TypeOK, Row
<1>12. \A j \in Activations : \A r \in batch[j] : r.attempt \in Nat
  BY DEF IInv, TypeOK, Row
<1>13. FailuresCounted'
  <2>1. \A o \in inFlight' : o.auto /\ hook'.failures >= o.attempt
    BY <1>1, <1>4, <1>6, <1>8, <1>10 DEF BreakerInv, FailuresCounted
  <2>2. \A r \in rows' : r.due => hook'.failures > r.attempt
    BY <1>1, <1>2, <1>4, <1>6, <1>7, <1>9, <1>11 DEF BreakerInv, FailuresCounted
  <2>3. \A j \in Activations : \A r \in batch'[j] : hook'.failures > r.attempt
    BY <1>1, <1>4, <1>6, <1>8, <1>12 DEF BreakerInv, FailuresCounted
  <2> QED BY <1>6, <2>1, <2>2, <2>3 DEF FailuresCounted
<1>14. DeadEndpointDisabled'
  <2> SUFFICES ASSUME NEW r \in rows', r.attempt = MaxRetries - 1 PROVE ~hook'.enabled
    BY DEF DeadEndpointDisabled
  <2>1. CASE r \in rows
    BY <1>1, <1>6, <2>1 DEF BreakerInv, DeadEndpointDisabled
  <2>2. CASE r \notin rows
    <3>1. p.attempt = MaxRetries - 1
      BY <1>7, <1>9, <2>2
    <3>2. ~RetryAfter(p)
      BY <1>4, <3>1 DEF RetryAfter
    <3>3. Count(p, ok) >= MaxRetries
      BY <1>2, <1>4, <1>5, <3>1
    <3>4. Trips(p, ok)
      BY <1>2, <1>3, <3>2, <3>3 DEF Trips
    <3> QED BY <1>6, <3>4
  <2> QED BY <2>1, <2>2
<1> QED BY <1>13, <1>14 DEF BreakerInv

LEMMA StartRetriesBreaker ==
  ASSUME IInv, BreakerInv, NEW j \in Activations, StartRetries(j)
  PROVE  BreakerInv'
<1> SUFFICES ASSUME writes = 0, ~answered PROVE BreakerInv'
  BY DEF BreakerInv, FailuresCounted, DeadEndpointDisabled, StartRetries
<1>1. PICK B \in kSubset(IF Cardinality(Due) < RetryBatch THEN Cardinality(Due) ELSE RetryBatch, Due) :
        \E r \in B : /\ rows' = Cleared(B, r)
                     /\ batch' = [batch EXCEPT ![j] = B \ {r}]
                     /\ Redeliver(j, r)
  BY DEF StartRetries
<1>2. PICK r \in B : /\ rows' = Cleared(B, r)
                     /\ batch' = [batch EXCEPT ![j] = B \ {r}]
                     /\ Redeliver(j, r)
  BY <1>1
<1>3. \A q \in B : q \in rows /\ q.due
  BY BatchIsDue
<1>4. \A q \in rows' : \E o \in rows : q.attempt = o.attempt /\ (q.due => q = o)
  BY <1>2, ClearedRows DEF IInv
<1>5. \A q \in B : hook.failures > q.attempt
  BY <1>3 DEF BreakerInv, FailuresCounted
<1>6. hook' = hook /\ writes' = writes /\ answered' = answered
  BY DEF StartRetries
<1>7. r.attempt \in Nat /\ hook.failures \in Nat
  BY <1>3 DEF IInv, TypeOK, Row
<1>8. \A p \in inFlight' : p \in inFlight \/ (p.auto /\ p.attempt = r.attempt + 1)
  BY <1>2 DEF Redeliver
<1>9. \A k \in Activations : batch'[k] \subseteq batch[k] \cup B
  BY <1>2 DEF IInv, TypeOK
<1>10. FailuresCounted'
  <2>1. \A p \in inFlight' : p.auto /\ hook.failures >= p.attempt
    BY <1>5, <1>7, <1>8 DEF BreakerInv, FailuresCounted
  <2>2. \A q \in rows' : q.due => hook.failures > q.attempt
    BY <1>4 DEF BreakerInv, FailuresCounted
  <2>3. \A k \in Activations : \A q \in batch'[k] : hook.failures > q.attempt
    BY <1>5, <1>9 DEF BreakerInv, FailuresCounted
  <2>4. hook.exists
    BY DEF BreakerInv, FailuresCounted
  <2> QED BY <1>6, <2>1, <2>2, <2>3, <2>4 DEF FailuresCounted
<1>11. DeadEndpointDisabled'
  BY <1>4, <1>6 DEF BreakerInv, DeadEndpointDisabled
<1> QED BY <1>10, <1>11 DEF BreakerInv

LEMMA NextRetryBreaker ==
  ASSUME IInv, BreakerInv, NEW j \in Activations, NextRetry(j)
  PROVE  BreakerInv'
<1> SUFFICES ASSUME writes = 0, ~answered PROVE BreakerInv'
  BY DEF BreakerInv, FailuresCounted, DeadEndpointDisabled, NextRetry
<1>1. PICK r \in batch[j] : batch' = [batch EXCEPT ![j] = @ \ {r}] /\ Redeliver(j, r)
  BY DEF NextRetry
<1>2. hook.failures > r.attempt
  BY DEF BreakerInv, FailuresCounted
<1>3. r.attempt \in Nat /\ hook.failures \in Nat
  BY DEF IInv, TypeOK, Row
<1>4. \A p \in inFlight' : p \in inFlight \/ (p.auto /\ p.attempt = r.attempt + 1)
  BY <1>1 DEF Redeliver
<1>5. \A k \in Activations : batch'[k] \subseteq batch[k]
  BY <1>1 DEF IInv, TypeOK
<1>6. UNCHANGED <<hook, rows, writes, answered>>
  BY DEF NextRetry
<1>7. \A p \in inFlight' : p.auto /\ hook.failures >= p.attempt
  BY <1>2, <1>3, <1>4 DEF BreakerInv, FailuresCounted
<1> QED BY <1>5, <1>6, <1>7 DEF BreakerInv, FailuresCounted, DeadEndpointDisabled

LEMMA BreakerNext == IInv /\ RowsInOrder /\ BreakerInv /\ [Next]_vars => BreakerInv'
<1> SUFFICES ASSUME IInv, RowsInOrder, BreakerInv, [Next]_vars PROVE BreakerInv'
  OBVIOUS
<1>1. ASSUME NEW e \in Events, Fire(e) PROVE BreakerInv'
  <2>1. UNCHANGED <<hook, rows, batch, writes, answered>>
    BY <1>1 DEF Fire
  <2>2. \A p \in inFlight' : p \in inFlight \/ (p.auto /\ p.attempt = 0)
    BY <1>1 DEF Fire
  <2>3. hook.failures >= 0
    BY DEF IInv, TypeOK
  <2> QED BY <2>1, <2>2, <2>3 DEF BreakerInv, FailuresCounted, DeadEndpointDisabled
<1>2. ASSUME Write PROVE BreakerInv'
  <2>1. writes' # 0
    BY <1>2 DEF Write, IInv, TypeOK
  <2> QED BY <2>1 DEF BreakerInv, FailuresCounted, DeadEndpointDisabled
<1>3. CASE Admin
  BY <1>2, <1>3 DEF Admin, Switch, ResetCircuit, DeleteWebhook, SendTest, RetryByHand
<1>4. CASE Restart
  BY <1>4, BreakerKept DEF Restart
<1>5. CASE UNCHANGED vars
  BY <1>5, BreakerKept DEF vars
<1> QED
  BY <1>1, <1>3, <1>4, <1>5, FinishBreaker, StartRetriesBreaker, NextRetryBreaker
     DEF Next, RetryJob

(* Without a success or an admin in between, the first event whose retries *)
(* are exhausted disables the webhook: the failures of all events are      *)
(* counted together, and no interleaving of their attempts uncounts one.   *)
THEOREM BreakerTrips == Spec => []DeadEndpointDisabled
<1>1. Init => RowsInOrder /\ BreakerInv
  BY DEF Init, RowsInOrder, BreakerInv, FailuresCounted, DeadEndpointDisabled
<1>2. BreakerInv => DeadEndpointDisabled
  BY DEF BreakerInv
<1> QED BY <1>1, <1>2, ChainInit, IInvNext, OrderNext, BreakerNext, PTL DEF Spec

=============================================================================
