----------------------------- MODULE Notifications -----------------------------
(***************************************************************************)
(* Delivery of notifications to agents                                     *)
(* (src/app/api/notifications/deliver/route.ts): a call of the route       *)
(* selects the oldest undelivered ones, awaits the agent's command for     *)
(* each in turn and marks it delivered afterwards. A daemon calls the      *)
(* route every minute, people may at any time.                             *)
(***************************************************************************)
EXTENDS Naturals, FiniteSets

CONSTANTS
  Notes,       \* ids, in the order of created_at
  Recipients,  \* whom they may be for
  Dead,        \* agents whose command always fails, and the empty recipient
  Deliveries,  \* the calls that may be under way at a time
  Daemon,      \* the one of them that the daemon makes
  Limit,       \* LIMIT of the selection
  MaxFaults    \* bound: commands that were misread and restarts

ASSUME NotificationAssumption ==
  /\ Notes \subseteq Nat /\ Recipients # {} /\ Dead \subseteq Recipients /\ Daemon \in Deliveries
  /\ Limit \in Nat \ {0} /\ MaxFaults \in Nat

VARIABLES
  note,       \* the rows: delivered_at IS NOT NULL, and whom they are for
  delivering, \* what each call has yet to send; the oldest is being sent
  got,        \* history: those the agent was sent, or fetched and marked itself
  faults      \* history: misread commands and restarts

notificationVars == <<note, delivering, got, faults>>

NotificationTypeOK ==
  /\ note \in [Notes -> [status : {"absent", "undelivered", "delivered", "deleted"},
                         recipient : Recipients]]
  /\ delivering \in [Deliveries -> SUBSET Notes]
  /\ got \subseteq Notes
  /\ faults \in 0..MaxFaults

NotificationInit ==
  /\ note = [n \in Notes |-> [status |-> "absent", recipient |-> CHOOSE a \in Recipients : TRUE]]
  /\ delivering = [d \in Deliveries |-> {}]
  /\ got = {}
  /\ faults = 0

Idle(d) == delivering[d] = {}
NoneUnderWay == \A d \in Deliveries : Idle(d)

Undelivered == {n \in Notes : note[n].status = "undelivered"}
Of(agents) == {n \in Undelivered : note[n].recipient \in agents}

-----------------------------------------------------------------------------
(* createNotification                                                      *)
CreateNotification(n, agent) ==
  /\ note[n].status = "absent"
  /\ \A k \in Notes : k < n => note[k].status # "absent"
  /\ note' = [note EXCEPT ![n] = [status |-> "undelivered", recipient |-> agent]]
  /\ UNCHANGED <<delivering, got, faults>>

OldestNotes(notes) == {n \in notes : Cardinality({k \in notes : k <= n}) <= Limit}

(* POST, up to the first command: for all agents or with an agent_filter,  *)
(* which the daemon is run without. A dry run only reads.                  *)
StartDelivery(d, agents) ==
  /\ Idle(d) /\ Of(agents) # {}
  /\ delivering' = [delivering EXCEPT ![d] = OldestNotes(Of(agents))]
  /\ UNCHANGED <<note, got, faults>>

(* The command for the oldest of the batch ended, and the next is started. *)
Sending(d, n) == n \in delivering[d] /\ \A k \in delivering[d] : n <= k
NextInBatch(d, n) == delivering' = [delivering EXCEPT ![d] = @ \ {n}]
Reached(n) ==
  /\ note[n].recipient \notin Dead
  /\ got' = got \cup {n}

MarkDelivered(n) ==
  note' = IF note[n].status = "deleted" THEN note ELSE [note EXCEPT ![n].status = "delivered"]

Sent(d, n) ==
  /\ Sending(d, n)
  /\ Reached(n)
  /\ MarkDelivered(n)
  /\ NextInBatch(d, n)
  /\ UNCHANGED faults

NotSent_Break(d, n) ==
  /\ Sending(d, n) /\ note[n].recipient \in Dead
  /\ delivering' = [delivering EXCEPT ![d] = {}]
  /\ UNCHANGED <<note, got, faults>>
NotSent(d, n) ==
  /\ Sending(d, n) /\ note[n].recipient \in Dead
  /\ NextInBatch(d, n)
  /\ UNCHANGED <<note, got, faults>>

(* The agent got it, but the command timed out or wrote 'error' to stderr. *)
SentUnnoticed(d, n) ==
  /\ Sending(d, n) /\ faults < MaxFaults
  /\ Reached(n)
  /\ NextInBatch(d, n)
  /\ faults' = faults + 1
  /\ UNCHANGED note

(* POST /api/notifications: an agent that polled marks all of its own.     *)
MarkOwn(agent) ==
  /\ Of({agent}) # {}
  /\ note' = [n \in Notes |->
                IF n \in Of({agent}) THEN [note[n] EXCEPT !.status = "delivered"] ELSE note[n]]
  /\ got' = got \cup Of({agent})
  /\ UNCHANGED <<delivering, faults>>

(* DELETE, by id or by age, delivered or not.                              *)
DeleteNotification(n) ==
  /\ note[n].status \in {"undelivered", "delivered"}
  /\ note' = [note EXCEPT ![n].status = "deleted"]
  /\ UNCHANGED <<delivering, got, faults>>

(* The commands that were awaited may have reached their agents.           *)
RestartDeliveries ==
  /\ ~NoneUnderWay /\ faults < MaxFaults
  /\ \E reached \in SUBSET {n \in Notes : \E d \in Deliveries :
                                Sending(d, n) /\ note[n].recipient \notin Dead} :
       got' = got \cup reached
  /\ delivering' = [d \in Deliveries |-> {}]
  /\ faults' = faults + 1
  /\ UNCHANGED note

DeliveryStep(d) == \E n \in Notes : Sent(d, n) \/ NotSent(d, n)

NotificationNext ==
  \/ \E n \in Notes : DeleteNotification(n) \/ \E a \in Recipients : CreateNotification(n, a)
  \/ \E d \in Deliveries :
       \/ DeliveryStep(d) \/ \E n \in Notes : SentUnnoticed(d, n)
       \/ StartDelivery(d, Recipients)
       \/ d # Daemon /\ \E a \in Recipients : StartDelivery(d, {a})
  \/ \E agent \in Recipients : MarkOwn(agent)
  \/ RestartDeliveries

NotificationSpec == NotificationInit /\ [][NotificationNext]_notificationVars

-----------------------------------------------------------------------------
(* Each notification reaches its agent in the end unless it is deleted,    *)
(* whatever calls overlap, fail after they reached the agent or are cut    *)
(* off by a restart, and also when older ones never can be delivered, as   *)
(* long as those are fewer than a call selects.                            *)
EachIsDelivered ==
  \A n \in Notes :
    note[n].status = "undelivered" /\ note[n].recipient \notin Dead ~>
      \/ n \in got
      \/ note[n].status = "deleted"
      \/ Limit <= Cardinality({k \in Of(Dead) : k < n})

=============================================================================
