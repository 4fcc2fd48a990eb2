--------------------------- MODULE WebhookDelivery ---------------------------
(***************************************************************************)
(* The outgoing webhooks of Mission Control (src/lib/webhooks.ts): events  *)
(* are posted to one webhook, failed deliveries are retried by the         *)
(* webhook_retry job, and a circuit breaker disables the webhook. Admins   *)
(* retry by hand, send tests, switch the webhook off and on and delete it  *)
(* (src/app/api/webhooks).                                                 *)
(*                                                                         *)
(* A delivery awaits the endpoint; its bookkeeping, one step, comes after. *)
(* Webhooks share nothing but the batch of the retry job: one is modelled. *)
(***************************************************************************)
EXTENDS Integers, FiniteSets, FiniteSetsExt

CONSTANTS
  Events,       \* occurrences the webhook is subscribed to
  Test,         \* the test.ping of POST /api/webhooks/test
  Activations,  \* activations of the webhook_retry job (tick, manual trigger)
  Requests,     \* admin requests that deliver: retry by hand, test
  MaxRetries,   \* MAX_RETRIES, 5 unless configured
  RetryBatch,   \* LIMIT of the retry query, 50
  KeepRows,     \* deliveries kept per webhook, 200
  MaxWrites,    \* bound: admin writes and deliveries by hand
  MaxRestarts   \* bound: restarts of the process

ASSUME ConstantsAssumption ==
  /\ Test \notin Events
  /\ Activations \cap Requests = {}
  /\ {MaxRetries, RetryBatch, KeepRows} \subseteq Nat \ {0}
  /\ {MaxWrites, MaxRestarts} \subseteq Nat

VARIABLES
  hook,      \* the webhooks row: does it exist, enabled, consecutive_failures
  rows,      \* its webhook_deliveries
  nextId,    \* the next delivery id
  inFlight,  \* deliveries that await the endpoint
  batch,     \* the rows an activation of the retry job has yet to deliver
  posts,     \* history: automatic posts of an event
  writes,    \* history: admin writes and deliveries by hand
  restarts,  \* history: restarts
  answered,  \* history: some automatic delivery succeeded
  last       \* history: the newest automatic delivery recorded of an event

vars == <<hook, rows, nextId, inFlight, batch, posts, writes, restarts, answered, last>>

(* due stands for next_retry_at IS NOT NULL: the delay is not modelled, a  *)
(* retry may come due at any moment. auto is allowRetry.                   *)
Row == [id : Nat, event : Events \cup {Test}, attempt : Nat, auto : BOOLEAN,
        ok : BOOLEAN, due : BOOLEAN]
Post == [event : Events \cup {Test}, attempt : Nat, auto : BOOLEAN,
         by : Events \cup Activations \cup Requests]

TypeOK ==
  /\ hook \in [exists : BOOLEAN, enabled : BOOLEAN, failures : Nat]
  /\ rows \subseteq Row
  /\ nextId \in Nat
  /\ inFlight \subseteq Post
  /\ batch \in [Activations -> SUBSET Row]
  /\ posts \in [Events -> Nat]
  /\ {writes, restarts} \subseteq Nat
  /\ answered \in BOOLEAN
  /\ last \in [Events -> [id : Nat, ok : BOOLEAN]]

Init ==
  /\ hook = [exists |-> TRUE, enabled |-> TRUE, failures |-> 0]
  /\ rows = {}
  /\ nextId = 0
  /\ inFlight = {}
  /\ batch = [j \in Activations |-> {}]
  /\ posts = [e \in Events |-> 0]
  /\ writes = 0 /\ restarts = 0
  /\ answered = FALSE
  /\ last = [e \in Events |-> [id |-> 0, ok |-> FALSE]]

-----------------------------------------------------------------------------
Busy(who) == \E p \in inFlight : p.by = who

(* The event bus emits e: fireWebhooks selects the webhook if enabled.     *)
Fire(e) ==
  /\ hook.exists /\ hook.enabled
  /\ posts[e] = 0
  /\ inFlight' = inFlight \cup {[event |-> e, attempt |-> 0, auto |-> TRUE, by |-> e]}
  /\ posts' = [posts EXCEPT ![e] = 1]
  /\ UNCHANGED <<hook, rows, nextId, batch, writes, restarts, answered, last>>

(* Prune old deliveries: the newest KeepRows stay. Rows of one second, in  *)
(* no order for the query, are taken by their ids.                         *)
Prune(R) == {r \in R : Cardinality({q \in R : q.id > r.id}) < KeepRows}

(* UPDATE webhooks SET consecutive_failures = ...                          *)
Count_FirstOnly(p, ok) ==
  CASE ~p.auto -> hook.failures
    [] p.auto /\ ok -> 0
    [] OTHER -> hook.failures + (IF p.attempt = 0 THEN 1 ELSE 0)
Count(p, ok) ==
  CASE ~p.auto -> hook.failures
    [] p.auto /\ ok -> 0
    [] OTHER -> hook.failures + 1

(* A failed automatic delivery is to be retried, until it was the last.    *)
RetryAfter_OffByOne(p) == p.auto /\ p.attempt < MaxRetries
RetryAfter_Dropped(p) == p.auto /\ p.attempt < MaxRetries - 2
RetryAfter(p) == p.auto /\ p.attempt < MaxRetries - 1

(* Exhausted retries trip the breaker.                                     *)
Trips(p, ok) == p.auto /\ ~ok /\ ~RetryAfter(p) /\ Count(p, ok) >= MaxRetries

(* The endpoint answered, refused or timed out. Bookkeeping for a webhook  *)
(* deleted meanwhile fails on the foreign key and is given up.             *)
Finish(p, ok) ==
  /\ inFlight' = inFlight \ {p}
  /\ answered' = (answered \/ (p.auto /\ ok))
  /\ IF hook.exists
     THEN /\ rows' = Prune(rows \cup {[id |-> nextId, event |-> p.event, attempt |-> p.attempt,
                                       auto |-> p.auto, ok |-> ok, due |-> ~ok /\ RetryAfter(p)]})
          /\ nextId' = nextId + 1
          /\ hook' = [hook EXCEPT !.failures = Count(p, ok),
                                  !.enabled = @ /\ ~Trips(p, ok)]
          /\ last' = IF p.auto THEN [last EXCEPT ![p.event] = [id |-> nextId, ok |-> ok]] ELSE last
     ELSE UNCHANGED <<rows, nextId, hook, last>>
  /\ UNCHANGED <<batch, posts, writes, restarts>>

-----------------------------------------------------------------------------
(* processWebhookRetries.                                                  *)

Due_TooEarly == {r \in rows : r.due /\ hook.enabled /\ r.attempt < MaxRetries - 2}
Due == {r \in rows : r.due /\ hook.enabled}

(* "Clear next_retry_at immediately to prevent double-processing"          *)
Cleared_OnlyFirst(B, first) == {IF r = first THEN [r EXCEPT !.due = FALSE] ELSE r : r \in rows}
Cleared(B, first) == {IF r \in B THEN [r EXCEPT !.due = FALSE] ELSE r : r \in rows}

Redeliver(j, r) ==
  /\ inFlight' = inFlight \cup
       {[event |-> r.event, attempt |-> r.attempt + 1, auto |-> TRUE, by |-> j]}
  /\ posts' = [posts EXCEPT ![r.event] = @ + 1]

StartRetries(j) ==
  /\ batch[j] = {} /\ ~Busy(j)
  /\ \E B \in kSubset(IF Cardinality(Due) < RetryBatch THEN Cardinality(Due) ELSE RetryBatch, Due) :
       \E r \in B :
         /\ rows' = Cleared(B, r)
         /\ batch' = [batch EXCEPT ![j] = B \ {r}]
         /\ Redeliver(j, r)
  /\ UNCHANGED <<hook, nextId, writes, restarts, answered, last>>

(* The next row of the batch, with the webhook as it was when selected.    *)
NextRetry(j) ==
  /\ ~Busy(j)
  /\ \E r \in batch[j] :
       /\ batch' = [batch EXCEPT ![j] = @ \ {r}]
       /\ Redeliver(j, r)
  /\ UNCHANGED <<hook, rows, nextId, writes, restarts, answered, last>>

-----------------------------------------------------------------------------
(* The API.                                                                *)

Write ==
  /\ hook.exists
  /\ writes < MaxWrites /\ writes' = writes + 1
  /\ UNCHANGED <<nextId, batch, posts, restarts, answered, last>>

(* PUT enabled                                                             *)
Switch(b) ==
  /\ Write
  /\ hook' = [hook EXCEPT !.enabled = b]
  /\ UNCHANGED <<rows, inFlight>>

(* PUT reset_circuit                                                       *)
ResetCircuit ==
  /\ Write
  /\ hook' = [hook EXCEPT !.enabled = TRUE, !.failures = 0]
  /\ UNCHANGED <<rows, inFlight>>

(* POST /api/webhooks/retry: any delivery, whether it failed or not. No    *)
(* retry is scheduled, and one that is scheduled stays.                    *)
RetryByHand(q, r) ==
  /\ ~Busy(q) /\ Write
  /\ inFlight' = inFlight \cup
       {[event |-> r.event, attempt |-> r.attempt + 1, auto |-> FALSE, by |-> q]}
  /\ UNCHANGED <<hook, rows>>

(* POST /api/webhooks/test                                                 *)
SendTest(q) ==
  /\ ~Busy(q) /\ Write
  /\ inFlight' = inFlight \cup {[event |-> Test, attempt |-> 0, auto |-> FALSE, by |-> q]}
  /\ UNCHANGED <<hook, rows>>

DeleteWebhook ==
  /\ Write
  /\ hook' = [hook EXCEPT !.exists = FALSE]
  /\ rows' = {}
  /\ UNCHANGED inFlight

(* The process restarts: the rows stay, what was awaited is forgotten.     *)
Restart ==
  /\ restarts < MaxRestarts
  /\ restarts' = restarts + 1
  /\ inFlight' = {}
  /\ batch' = [j \in Activations |-> {}]
  /\ UNCHANGED <<hook, rows, nextId, posts, writes, answered, last>>

-----------------------------------------------------------------------------
RetryJob(j) == StartRetries(j) \/ NextRetry(j)

Admin ==
  \/ \E b \in BOOLEAN : Switch(b)
  \/ ResetCircuit \/ DeleteWebhook
  \/ \E q \in Requests : SendTest(q) \/ \E r \in rows : RetryByHand(q, r)

Next ==
  \/ \E e \in Events : Fire(e)
  \/ \E p \in inFlight, ok \in BOOLEAN : Finish(p, ok)
  \/ \E j \in Activations : RetryJob(j)
  \/ Admin
  \/ Restart

Spec == Init /\ [][Next]_vars

(* The endpoint answers, or the ten seconds for its headers or the limit   *)
(* of fetch for the body pass; the scheduler comes back to the job every   *)
(* minute.                                                                 *)
FinishOf(who) == \E p \in inFlight, ok \in BOOLEAN : p.by = who /\ Finish(p, ok)

Fairness ==
  /\ \A who \in Events \cup Activations \cup Requests : WF_vars(FinishOf(who))
  /\ \A j \in Activations : WF_vars(RetryJob(j))

FairSpec == Spec /\ Fairness

-----------------------------------------------------------------------------
(* Where the chain of attempts of an event goes on: posts that await the   *)
(* endpoint, rows an activation holds, rows scheduled for a retry.         *)
Posted(e) == {p \in inFlight : p.event = e /\ p.auto}
Held(e) == UNION {{j} \X {r \in batch[j] : r.event = e} : j \in Activations}
Scheduled(e) == {r \in rows : r.event = e /\ r.due}

AtMostOne(S) == \A x, y \in S : x = y

Waiting(e) == Posted(e) # {} \/ Held(e) # {} \/ Scheduled(e) # {}

(* An event is retried along one chain: overlapping activations of the job *)
(* never deliver one row twice, since next_retry_at is cleared for the     *)
(* whole batch before the first await.                                     *)
OneChain ==
  \A e \in Events :
    /\ AtMostOne(Posted(e)) /\ AtMostOne(Held(e)) /\ AtMostOne(Scheduled(e))
    /\ Posted(e) = {} \/ (Held(e) = {} /\ Scheduled(e) = {})
    /\ Held(e) = {} \/ Scheduled(e) = {}

(* So an event is posted automatically at most MAX_RETRIES times, whatever *)
(* restarts, prunings, switches and retries by hand come in between.       *)
PostsBounded == \A e \in Events : posts[e] <= MaxRetries

(* An event that was posted and has attempts left is being retried, or its *)
(* newest attempt succeeded. A restart may lose the retry, and so may the  *)
(* pruning, which asks of no row whether a retry is due: but not before    *)
(* KeepRows newer deliveries were recorded.                                *)
NoRetryLost ==
  \A e \in Events :
    restarts = 0 /\ hook.exists /\ posts[e] \in 1..(MaxRetries - 1)
      => Waiting(e) \/ last[e].ok \/ nextId - last[e].id > KeepRows

(* Without a success or an admin in between, the first event whose retries *)
(* are exhausted disables the webhook, however the attempts of several     *)
(* events interleave.                                                      *)
DeadEndpointDisabled ==
  writes = 0 /\ ~answered /\ (\E r \in rows : r.attempt = MaxRetries - 1) => ~hook.enabled

(* Of FairSpec: the retries of an event come to an end, or the webhook is  *)
(* disabled.                                                               *)
RetriesEnd == \A e \in Events : Waiting(e) ~> ~Waiting(e) \/ ~hook.enabled

=============================================================================
