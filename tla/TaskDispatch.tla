---------------------------- MODULE TaskDispatch ----------------------------
(***************************************************************************)
(* The task loop of Mission Control: the scheduler jobs that route,        *)
(* dispatch, reconcile, requeue and review the tasks of the board          *)
(* (src/lib/task-dispatch.ts), and the API routes through which people and *)
(* agents change the same rows (src/app/api/tasks, /api/quality-review),   *)
(* and the pull of GitHub issues, which writes them too.                   *)
(*                                                                         *)
(* Every database call is synchronous, so the code between two awaits is   *)
(* one step; what an await lets in between is exactly what the workers     *)
(* below carry in their records: a row that was read before the await and  *)
(* is written after it.                                                    *)
(***************************************************************************)
EXTENDS Naturals, FiniteSets, FiniteSetsExt

CONSTANTS
  Tasks,               \* the ids tasks may get
  Agents,              \* the registered, visible agents
  People,              \* other names tasks are assigned to
  NoAgent,             \* assigned_to IS NULL
  Blank,               \* assigned_to = '', what un-assigning a task stores
  ClaudeAgents,        \* agents whose runtime_type is 'claude'
  Pollers,             \* agents that call GET /api/tasks/queue
  Dispatchers,         \* activations of the task_dispatch job (tick, manual)
  Reviewers,           \* activations of the aegis_review job (tick, manual)
  Readers,             \* GET requests that reconcile deferred runs
  GatewayModes,        \* the values isGatewayAvailable() may take
  DirectAvailable,     \* isDirectDispatchAvailable()
  TargetSessions,      \* whether a task's metadata may name a session to send it to
  GatewayOmitsRunId,   \* whether the gateway may accept without a run id
  AgentStatuses,       \* the statuses agents may take
  CreateStatuses,      \* the statuses POST /api/tasks is called with
  GithubStatuses,      \* the statuses GitHub issues give tasks when pulled
  PostReviewers,       \* the reviewer names POST /api/quality-review gets
  MaxDispatchRetries,  \* maxDispatchRetries, 5 in the code
  MaxAegisRetries,     \* maxAegisRetries, 3 in the code
  AgentCapacity,       \* in-progress tasks that stop auto-routing, 3
  RouteBatch,          \* LIMIT of the routing query, 5
  DispatchBatch,       \* LIMIT of the dispatch query, 3
  ReviewBatch,         \* LIMIT of the review query, 3
  ReconcileBatch,      \* LIMIT of the reconcile query, 5
  MaxEdits,            \* bound: writes to one task by the API and the pull
  MaxRejections,       \* bound: rejections of one task by Aegis
  CanCrash             \* whether the process may be restarted

Board == {"backlog", "inbox", "assigned", "awaiting_owner", "in_progress", "review",
          "quality_review", "done", "failed"}
Status == Board \cup {"absent", "deleted"}

ASSUME ConstantsAssumption ==
  /\ NoAgent # Blank
  /\ {NoAgent, Blank} \cap (Agents \cup People) = {}
  /\ Agents \cap People = {}
  /\ ClaudeAgents \cup Pollers \subseteq Agents
  /\ GatewayModes \in (SUBSET BOOLEAN) \ {{}}
  /\ {DirectAvailable, TargetSessions, GatewayOmitsRunId, CanCrash} \subseteq BOOLEAN
  /\ AgentStatuses \in (SUBSET {"online", "error", "offline"}) \ {{}}
  /\ CreateStatuses \cup GithubStatuses \subseteq Board
  /\ {MaxEdits, MaxRejections} \subseteq Nat
  /\ {AgentCapacity, RouteBatch, DispatchBatch, ReviewBatch, ReconcileBatch}
       \subseteq Nat \ {0}

(* The code has maxAegisRetries = 3 and maxDispatchRetries = 5.            *)
ASSUME RetryLimitsAssumption ==
  /\ MaxAegisRetries \in Nat \ {0}
  /\ MaxDispatchRetries \in Nat \ {0}
  /\ MaxAegisRetries <= MaxDispatchRetries

VARIABLES
  status,      \* tasks.status, or that the row does not exist
  assignee,    \* tasks.assigned_to
  attempts,    \* tasks.dispatch_attempts
  pendingRun,  \* tasks.metadata: the run awaited while async_state is 'pending', else 0
  answer,      \* tasks.resolution: the handout whose answer it holds, else 0
  aegis,       \* the newest quality_reviews row whose reviewer is 'aegis'
  agentStatus, \* agents.status
  gateway,     \* isGatewayAvailable()
  job,         \* each dispatcher's activation: phase, batch and awaited call
  review,      \* each reviewer's activation: batch and awaited task
  waits,       \* the task rows each reconciler read before it awaits agent.wait
  handouts,    \* history: how often the task was given to an agent
  rejections,  \* history: how often Aegis rejected the task
  edits,       \* history: how often the API or the pull wrote to the task
  waived       \* history: tasks last made done by a write that asks for no approval

rowVars     == <<status, assignee, attempts, pendingRun, answer, aegis>>
envVars     == <<agentStatus, gateway>>
workerVars  == <<job, review, waits>>
historyVars == <<handouts, rejections, edits, waived>>
vars == <<rowVars, envVars, workerVars, historyVars>>

Reconcilers == Dispatchers \cup Readers
Names == Agents \cup People

(* A row of the dispatch query; a call to an agent that a dispatcher       *)
(* awaits; a row of the reconcile query.                                   *)
Item == [task : Tasks, agent : Agents]
Call == [task : Tasks, run : Nat, kind : {"sync", "deferred"}, feedback : BOOLEAN]
Wait == [task : Tasks, run : Nat]

(* What an activation of the dispatch job, or of the review job, holds.    *)
Idle == [phase |-> "idle", batch |-> {}, call |-> {}]
Reconciling == [phase |-> "reconciling", batch |-> {}, call |-> {}]
Dispatching(batch, call) == [phase |-> "dispatching", batch |-> batch, call |-> call]
Reviewing(batch, task) == [batch |-> batch, task |-> task]

TypeOK ==
  /\ status \in [Tasks -> Status]
  /\ assignee \in [Tasks -> Names \cup {NoAgent, Blank}]
  /\ attempts \in [Tasks -> Nat]
  /\ pendingRun \in [Tasks -> Nat]
  /\ answer \in [Tasks -> Nat]
  /\ aegis \in [Tasks -> {"none", "approved", "rejected"}]
  /\ agentStatus \in [Agents -> AgentStatuses]
  /\ gateway \in BOOLEAN
  /\ job \in [Dispatchers ->
       [phase : {"idle", "reconciling", "dispatching"},
        batch : SUBSET Item, call : SUBSET Call]]
  /\ review \in [Reviewers -> [batch : SUBSET Tasks, task : SUBSET Tasks]]
  /\ waits \in [Reconcilers -> SUBSET Wait]
  /\ handouts \in [Tasks -> Nat]
  /\ rejections \in [Tasks -> Nat]
  /\ edits \in [Tasks -> Nat]
  /\ waived \in SUBSET Tasks

Init ==
  /\ status = [t \in Tasks |-> "absent"]
  /\ assignee = [t \in Tasks |-> NoAgent]
  /\ attempts = [t \in Tasks |-> 0]
  /\ pendingRun = [t \in Tasks |-> 0]
  /\ answer = [t \in Tasks |-> 0]
  /\ aegis = [t \in Tasks |-> "none"]
  /\ agentStatus \in [Agents -> AgentStatuses]
  /\ gateway \in GatewayModes
  /\ job = [d \in Dispatchers |-> Idle]
  /\ review = [r \in Reviewers |-> Reviewing({}, {})]
  /\ waits = [c \in Reconcilers |-> {}]
  /\ handouts = [t \in Tasks |-> 0]
  /\ rejections = [t \in Tasks |-> 0]
  /\ edits = [t \in Tasks |-> 0]
  /\ waived = {}

-----------------------------------------------------------------------------
(* What the queries and updates of the module are made of.                 *)

(* A query with LIMIT n. Its ORDER BY ranks priorities and dates, which    *)
(* are not modelled: any n of the matching rows may come first.            *)
Limit(S, n) == kSubset(IF Cardinality(S) < n THEN Cardinality(S) ELSE n, S)

(* UPDATE ... WHERE id = t: a row deleted meanwhile is not written.        *)
Write(column, t, value) ==
  IF status[t] = "deleted" THEN column ELSE [column EXCEPT ![t] = value]

(* What one more counted failure makes of a task.                          *)
AfterFailure_OffByOne(t, limit) == IF attempts[t] + 1 > limit THEN "failed" ELSE "assigned"
AfterFailure(t, limit) == IF attempts[t] + 1 >= limit THEN "failed" ELSE "assigned"

CountFailure_NotCounted(t, limit) ==
  /\ status' = Write(status, t, AfterFailure(t, limit))
  /\ UNCHANGED attempts

CountFailure(t, limit) ==
  /\ attempts' = Write(attempts, t, attempts[t] + 1)
  /\ status' = Write(status, t, AfterFailure(t, limit))

(* !isGatewayAvailable() && isDirectDispatchAvailable()                    *)
DirectMode == ~gateway /\ DirectAvailable

(* Tasks that count against an agent's auto-routing capacity.              *)
Load(a) == Cardinality({t \in Tasks : status[t] = "in_progress" /\ assignee[t] = a})

UnassignedInbox == {t \in Tasks : status[t] = "inbox" /\ assignee[t] = NoAgent}

AssignedItems == {[task |-> t, agent |-> assignee[t]] :
                    t \in {u \in Tasks : status[u] = "assigned" /\ assignee[u] \in Agents}}

PendingWaits == {[task |-> t, run |-> pendingRun[t]] :
                    t \in {u \in Tasks : status[u] = "in_progress" /\ pendingRun[u] # 0}}

(* The comment a rejection leaves starts "Quality Review Rejected (attempt"; *)
(* the one the dispatcher looks for starts "Quality Review Rejected:".       *)
RejectionComments(t) == IF rejections[t] > 0 THEN {"Rejected (attempt"} ELSE {}
FeedbackFor(t) == {c \in RejectionComments(t) : c = "Rejected:"}

-----------------------------------------------------------------------------
(* The task_dispatch job: autoRouteInboxTasks, then                        *)
(* reconcileDeferredTaskCompletions, then dispatchAssignedTasks.           *)

(* Unassigned inbox tasks go to the best-scored agent that is neither      *)
(* offline nor in error and, by load, not at capacity; scores are not      *)
(* modelled. The routing is followed, without an await, by the query of    *)
(* the reconcile pass.                                                     *)
RouteInbox(d) ==
  /\ job[d].phase = "idle"
  /\ LET free == {a \in Agents : agentStatus[a] = "online" /\ Load(a) < AgentCapacity}
         routable == IF free = {} THEN {} ELSE UnassignedInbox
     IN \E S \in Limit(routable, RouteBatch) : \E route \in [S -> free] :
          /\ status' = [t \in Tasks |-> IF t \in S THEN "assigned" ELSE status[t]]
          /\ assignee' = [t \in Tasks |-> IF t \in S THEN route[t] ELSE assignee[t]]
  /\ \E W \in Limit(PendingWaits, ReconcileBatch) : waits' = [waits EXCEPT ![d] = W]
  /\ job' = [job EXCEPT ![d] = Reconciling]
  /\ UNCHANGED <<attempts, pendingRun, answer, aegis, envVars, review, historyVars>>

(* GET /api/tasks and GET /api/tasks/[id] run the same reconcile pass.     *)
ReadTasks(c) ==
  /\ waits[c] = {}
  /\ \E W \in Limit(PendingWaits, ReconcileBatch) :
       W # {} /\ waits' = [waits EXCEPT ![c] = W]
  /\ UNCHANGED <<rowVars, envVars, job, review, historyVars>>

(* agent.wait says the run is complete: the task is promoted if it is      *)
(* still in progress. The metadata written is the row read before the      *)
(* await, with async_state 'completed'.                                    *)
PromoteDeferred(c, w) ==
  /\ waits' = [waits EXCEPT ![c] = @ \ {w}]
  /\ IF status[w.task] = "in_progress"
     THEN /\ status' = [status EXCEPT ![w.task] = "review"]
          /\ answer' = [answer EXCEPT ![w.task] = w.run]
          /\ pendingRun' = [pendingRun EXCEPT ![w.task] = 0]
     ELSE UNCHANGED <<status, answer, pendingRun>>
  /\ UNCHANGED <<assignee, attempts, aegis, envVars, job, review, historyVars>>

(* agent.wait fails, times out or says the run still goes on.              *)
KeepWaiting(c, w) ==
  /\ waits' = [waits EXCEPT ![c] = @ \ {w}]
  /\ UNCHANGED <<rowVars, envVars, job, review, historyVars>>

(* How a claimed task reaches its agent: a claude-runtime agent through    *)
(* its session, in direct mode through the provider (unless the metadata   *)
(* names a target session), else through the gateway, which only accepts.  *)
DispatchKinds(a) ==
  CASE a \in ClaudeAgents -> {"sync"}
    [] a \notin ClaudeAgents /\ DirectMode ->
         IF TargetSessions THEN {"sync", "deferred"} ELSE {"sync"}
    [] OTHER -> {"deferred"}

(* The WHERE clause of the claim.                                          *)
Claimable_Any(t) == status[t] # "deleted"
Claimable(t) == status[t] = "assigned"

(* The atomic claim: UPDATE ... SET status = 'in_progress' WHERE           *)
(* status = 'assigned'. The prompt is built and the agent called at once.  *)
Claim(d, m, rest) ==
  /\ Claimable(m.task)
  /\ status' = [status EXCEPT ![m.task] = "in_progress"]
  /\ handouts' = [handouts EXCEPT ![m.task] = @ + 1]
  /\ \E k \in DispatchKinds(m.agent) :
       job' = [job EXCEPT ![d] =
                Dispatching(rest, {[task |-> m.task, run |-> handouts[m.task] + 1,
                                    kind |-> k, feedback |-> FeedbackFor(m.task) # {}]})]

(* The dispatch query, and the first claim of its batch.                   *)
SelectAssigned(d) ==
  /\ job[d].phase = "reconciling" /\ waits[d] = {}
  /\ \E B \in Limit(AssignedItems, DispatchBatch) :
       \/ /\ B = {}
          /\ job' = [job EXCEPT ![d] = Idle]
          /\ UNCHANGED <<status, handouts>>
       \/ \E m \in B : Claim(d, m, B \ {m})
  /\ UNCHANGED <<assignee, attempts, pendingRun, answer, aegis, envVars, review,
                 waits, rejections, edits, waived>>

(* The next task of the batch, read before the last await: claimed if it   *)
(* still is 'assigned', else skipped.                                      *)
DispatchNext(d) ==
  /\ job[d].phase = "dispatching" /\ job[d].call = {}
  /\ \E m \in job[d].batch :
       \/ Claim(d, m, job[d].batch \ {m})
       \/ /\ ~Claimable(m.task)
          /\ job' = [job EXCEPT ![d] = Dispatching(job[d].batch \ {m}, {})]
          /\ UNCHANGED <<status, handouts>>
  /\ UNCHANGED <<assignee, attempts, pendingRun, answer, aegis, envVars, review,
                 waits, rejections, edits, waived>>

EndDispatch(d) ==
  /\ job[d].phase = "dispatching" /\ job[d].call = {} /\ job[d].batch = {}
  /\ job' = [job EXCEPT ![d] = Idle]
  /\ UNCHANGED <<rowVars, envVars, review, waits, historyVars>>

EndCall(d) == job' = [job EXCEPT ![d] = Dispatching(job[d].batch, {})]

(* The agent answered within the call: the row goes to 'review', whatever  *)
(* its status is by now. The metadata keeps its async_state.               *)
CompleteSync_Unanswered(d, c) ==
  /\ c.kind = "sync"
  /\ status' = Write(status, c.task, "review")
  /\ EndCall(d)
  /\ UNCHANGED <<assignee, attempts, pendingRun, answer, aegis, envVars, review, waits, historyVars>>

CompleteSync(d, c) ==
  /\ c.kind = "sync"
  /\ status' = Write(status, c.task, "review")
  /\ answer' = Write(answer, c.task, c.run)
  /\ EndCall(d)
  /\ UNCHANGED <<assignee, attempts, pendingRun, aegis, envVars, review, waits, historyVars>>

(* The gateway accepted the run: async_state becomes 'pending' if it named *)
(* the run, 'accepted_without_run_id' if not; the status is not written.   *)
AcceptDeferred(d, c) ==
  /\ c.kind = "deferred"
  /\ \E run \in {c.run} \cup (IF GatewayOmitsRunId THEN {0} ELSE {}) :
       pendingRun' = Write(pendingRun, c.task, run)
  /\ EndCall(d)
  /\ UNCHANGED <<status, assignee, attempts, answer, aegis, envVars, review, waits, historyVars>>

(* The call failed, timed out or returned no text.                         *)
FailDispatch(d, c) ==
  /\ CountFailure(c.task, MaxDispatchRetries)
  /\ EndCall(d)
  /\ UNCHANGED <<assignee, pendingRun, answer, aegis, envVars, review, waits, historyVars>>

-----------------------------------------------------------------------------
(* The stale_task_requeue job. A task is stale after ten minutes without   *)
(* an update; time is not modelled, so any task in progress may be. In     *)
(* direct mode the job changes nothing.                                    *)
Unreachable(t) == assignee[t] \in Agents => agentStatus[assignee[t]] = "offline"

Requeueable_UnlessPending(t) ==
  status[t] = "in_progress" /\ Unreachable(t) /\ pendingRun[t] = 0

Requeueable(t) == status[t] = "in_progress" /\ Unreachable(t)

(* directApiSkipsStaleCheck                                                *)
SkipsStaleCheck == DirectMode

RequeueStale(S) ==
  /\ ~SkipsStaleCheck
  /\ \A t \in S : Requeueable(t)
  /\ attempts' = [t \in Tasks |-> IF t \in S THEN attempts[t] + 1 ELSE attempts[t]]
  /\ status' = [t \in Tasks |->
                 IF t \in S THEN AfterFailure(t, MaxDispatchRetries) ELSE status[t]]
  /\ UNCHANGED <<assignee, pendingRun, answer, aegis, envVars, workerVars, historyVars>>

-----------------------------------------------------------------------------
(* The aegis_review job: runAegisReviews.                                  *)

(* "Move to quality_review to prevent re-processing": without looking at   *)
(* the status the row has by now.                                          *)
TakeForReview(r, t, rest) ==
  /\ status' = Write(status, t, "quality_review")
  /\ review' = [review EXCEPT ![r] = Reviewing(rest, {t})]
  /\ UNCHANGED <<assignee, attempts, pendingRun, answer, aegis, envVars, job, waits, historyVars>>

StartReviews(r) ==
  /\ review[r].task = {} /\ review[r].batch = {}
  /\ \E B \in Limit({t \in Tasks : status[t] = "review"}, ReviewBatch) :
       \E t \in B : TakeForReview(r, t, B \ {t})

NextReview(r) ==
  /\ review[r].task = {}
  /\ \E t \in review[r].batch : TakeForReview(r, t, review[r].batch \ {t})

EndReview(r) == review' = [review EXCEPT ![r] = Reviewing(review[r].batch, {})]


Approve(r, t) ==
  /\ aegis' = Write(aegis, t, "approved")
  /\ status' = Write(status, t, "done")
  /\ waived' = waived \ {t}
  /\ EndReview(r)
  /\ UNCHANGED <<assignee, attempts, pendingRun, answer, envVars, job, waits, handouts,
                 rejections, edits>>

Reject(r, t) ==
  /\ rejections[t] < MaxRejections
  /\ aegis' = Write(aegis, t, "rejected")
  /\ rejections' = Write(rejections, t, rejections[t] + 1)
  /\ CountFailure(t, MaxAegisRetries)
  /\ EndReview(r)
  /\ UNCHANGED <<assignee, pendingRun, answer, envVars, job, waits, handouts, edits, waived>>

(* The review call failed or was empty: "Revert to review so it can be     *)
(* retried".                                                               *)
ReviewFails_NotReverted(r, t) ==
  /\ EndReview(r)
  /\ UNCHANGED <<rowVars, envVars, job, waits, historyVars>>

ReviewFails(r, t) ==
  /\ status' = Write(status, t, "review")
  /\ EndReview(r)
  /\ UNCHANGED <<assignee, attempts, pendingRun, answer, aegis, envVars, job, waits, historyVars>>

-----------------------------------------------------------------------------
(* The API routes.                                                         *)

Exists(t) == status[t] \in Board

Edit(t) ==
  /\ edits[t] < MaxEdits
  /\ edits' = [edits EXCEPT ![t] = @ + 1]
  /\ UNCHANGED <<envVars, workerVars, handouts, rejections>>

(* POST /api/tasks                                                         *)
CreateTask(t, s, a) ==
  /\ status[t] = "absent"
  /\ status' = [status EXCEPT ![t] = IF s = "inbox" /\ a # NoAgent THEN "assigned" ELSE s]
  /\ assignee' = [assignee EXCEPT ![t] = a]
  /\ waived' = IF s = "done" THEN waived \cup {t} ELSE waived
  /\ UNCHANGED <<attempts, pendingRun, answer, aegis, envVars, workerVars, handouts,
                 rejections, edits>>

(* hasAegisApproval guards 'done', and 'done' only.                        *)
MayMove_Ungated(t, s) == Exists(t)
MayMove(t, s) == Exists(t) /\ (s = "done" => aegis[t] = "approved")

(* PUT with a status, and with an assignee or the present one.             *)
MoveTask(t, s, a) ==
  /\ MayMove(t, s) /\ Edit(t)
  /\ status' = [status EXCEPT ![t] = s]
  /\ assignee' = [assignee EXCEPT ![t] = a]
  /\ waived' = IF s = "done" THEN waived \ {t} ELSE waived
  /\ UNCHANGED <<attempts, pendingRun, answer, aegis>>

(* PUT with an assignee only: normalizeTaskUpdateStatus. A task can be     *)
(* un-assigned with an empty name only, null is refused.                   *)
AssignTask(t, a) ==
  /\ Exists(t) /\ Edit(t)
  /\ assignee' = [assignee EXCEPT ![t] = a]
  /\ status' = [status EXCEPT ![t] =
                 CASE a # Blank /\ @ = "inbox" -> "assigned"
                   [] a = Blank /\ @ = "assigned" -> "inbox"
                   [] OTHER -> @]
  /\ UNCHANGED <<attempts, pendingRun, answer, aegis, waived>>

(* PUT with metadata: the column is replaced, and the run it names with it. *)
WriteMetadata(t) ==
  /\ Exists(t) /\ Edit(t)
  /\ pendingRun' = [pendingRun EXCEPT ![t] = 0]
  /\ UNCHANGED <<status, assignee, attempts, answer, aegis, waived>>

(* A comment that mentions an agent assigns an unassigned task to it.      *)
MentionAgent(t, a) ==
  /\ Exists(t) /\ Edit(t)
  /\ assignee[t] \in {NoAgent, Blank}
  /\ assignee' = [assignee EXCEPT ![t] = a]
  /\ status' = [status EXCEPT ![t] = IF @ = "inbox" THEN "assigned" ELSE @]
  /\ UNCHANGED <<attempts, pendingRun, answer, aegis, waived>>

(* PUT by the agent that worked on the task: its answer, and 'review'.     *)
SubmitAnswer(t) ==
  /\ Exists(t) /\ Edit(t)
  /\ handouts[t] > 0
  /\ status' = [status EXCEPT ![t] = "review"]
  /\ answer' = [answer EXCEPT ![t] = handouts[t]]
  /\ UNCHANGED <<assignee, attempts, pendingRun, aegis, waived>>

(* PUT /api/tasks: a transaction over several tasks; one missing approval  *)
(* rolls all of them back.                                                 *)
MoveTasks(target) ==
  /\ \A t \in DOMAIN target : MayMove(t, target[t]) /\ edits[t] < MaxEdits
  /\ status' = [t \in Tasks |-> IF t \in DOMAIN target THEN target[t] ELSE status[t]]
  /\ edits' = [t \in Tasks |-> IF t \in DOMAIN target THEN edits[t] + 1 ELSE edits[t]]
  /\ waived' = {t \in waived : t \notin DOMAIN target \/ target[t] # "done"}
  /\ UNCHANGED <<assignee, attempts, pendingRun, answer, aegis, envVars, workerVars,
                 handouts, rejections>>

DeleteTask(t) ==
  /\ Exists(t)
  /\ status' = [status EXCEPT ![t] = "deleted"]
  /\ UNCHANGED <<assignee, attempts, pendingRun, answer, aegis, envVars, workerVars, historyVars>>

(* POST /api/quality-review: the status follows the verdict, whoever the   *)
(* reviewer is and whatever the task's status was.                         *)
PostReview(t, reviewer, verdict) ==
  /\ Exists(t) /\ Edit(t)
  /\ aegis' = IF reviewer = "aegis" THEN [aegis EXCEPT ![t] = verdict] ELSE aegis
  /\ status' = [status EXCEPT ![t] = IF verdict = "approved" THEN "done" ELSE "in_progress"]
  /\ waived' = IF verdict = "approved" /\ reviewer # "aegis" THEN waived \cup {t}
              ELSE waived \ {t}
  /\ UNCHANGED <<assignee, attempts, pendingRun, answer>>

(* pullFromGitHub: an issue that is new makes a task, one that changed     *)
(* writes its status over the task's, whatever that is. It awaits nothing  *)
(* between the row it reads and the row it writes, and asks for no         *)
(* approval: a closed issue makes the task done.                           *)
PullIssue(t, s) ==
  \/ CreateTask(t, s, NoAgent)
  \/ /\ Exists(t) /\ Edit(t)
     /\ status' = [status EXCEPT ![t] = s]
     /\ waived' = IF s = "done" THEN waived \cup {t} ELSE waived
     /\ UNCHANGED <<assignee, attempts, pendingRun, answer, aegis>>

(* GET /api/tasks/queue: an agent with a task in progress gets that task   *)
(* again, and nothing is written; otherwise it claims one in one UPDATE.   *)
PollQueue(a) ==
  /\ Load(a) = 0
  /\ \E t \in Tasks :
       /\ status[t] \in {"assigned", "inbox"}
       /\ assignee[t] \in {NoAgent, a}
       /\ status' = [status EXCEPT ![t] = "in_progress"]
       /\ assignee' = [assignee EXCEPT ![t] = a]
       /\ handouts' = [handouts EXCEPT ![t] = @ + 1]
  /\ UNCHANGED <<attempts, pendingRun, answer, aegis, envVars, workerVars, rejections, edits, waived>>

-----------------------------------------------------------------------------
(* The environment.                                                        *)

(* Heartbeats, the heartbeat check and the gateway's live statuses.        *)
AgentStatus(a, s) ==
  /\ agentStatus' = [agentStatus EXCEPT ![a] = s]
  /\ UNCHANGED <<rowVars, gateway, workerVars, historyVars>>

GatewayStatus(b) ==
  /\ gateway' = b
  /\ UNCHANGED <<rowVars, agentStatus, workerVars, historyVars>>

(* The process restarts: the rows stay, what the jobs were awaiting is     *)
(* forgotten.                                                              *)
Restart ==
  /\ CanCrash
  /\ job' = [d \in Dispatchers |-> Idle]
  /\ review' = [r \in Reviewers |-> Reviewing({}, {})]
  /\ waits' = [c \in Reconcilers |-> {}]
  /\ UNCHANGED <<rowVars, envVars, historyVars>>

-----------------------------------------------------------------------------
DispatchStep(d) ==
  \/ RouteInbox(d) \/ SelectAssigned(d) \/ DispatchNext(d) \/ EndDispatch(d)
  \/ \E c \in job[d].call : CompleteSync(d, c) \/ AcceptDeferred(d, c) \/ FailDispatch(d, c)

WaitStep(c) == \E w \in waits[c] : PromoteDeferred(c, w) \/ KeepWaiting(c, w)

ReviewStep(r) ==
  \/ StartReviews(r) \/ NextReview(r)
  \/ \E t \in review[r].task : Approve(r, t) \/ Reject(r, t) \/ ReviewFails(r, t)

RequeueJob == \E S \in (SUBSET Tasks) \ {{}} : RequeueStale(S)

Jobs ==
  \/ \E d \in Dispatchers : DispatchStep(d)
  \/ \E c \in Readers : ReadTasks(c)
  \/ \E c \in Reconcilers : WaitStep(c)
  \/ \E r \in Reviewers : ReviewStep(r)
  \/ RequeueJob

TaskApi(t) ==
  \/ \E s \in CreateStatuses, a \in Names \cup {NoAgent} : CreateTask(t, s, a)
  \/ \E s \in Board, a \in Names \cup {Blank, assignee[t]} : MoveTask(t, s, a)
  \/ \E a \in Names \cup {Blank} : AssignTask(t, a)
  \/ \E a \in Agents : MentionAgent(t, a)
  \/ WriteMetadata(t) \/ SubmitAnswer(t) \/ DeleteTask(t)
  \/ \E who \in PostReviewers, v \in {"approved", "rejected"} : PostReview(t, who, v)
  \/ \E s \in GithubStatuses : PullIssue(t, s)

Api ==
  \/ \E t \in Tasks : TaskApi(t)
  \/ \E S \in SUBSET Tasks : \E target \in [S -> Board] : MoveTasks(target)
  \/ \E a \in Pollers : PollQueue(a)

Environment ==
  \/ \E a \in Agents, s \in AgentStatuses : AgentStatus(a, s)
  \/ \E b \in GatewayModes : GatewayStatus(b)
  \/ Restart

Next == Jobs \/ Api \/ Environment

Spec == Init /\ [][Next]_vars

(* The scheduler's interval keeps every job going, and every call a job    *)
(* awaits has a timeout. That Aegis gives a verdict sooner or later is an  *)
(* assumption: a review that fails is repeated without a limit.            *)
Fairness ==
  /\ \A d \in Dispatchers : WF_vars(DispatchStep(d))
  /\ \A c \in Dispatchers : WF_vars(WaitStep(c))
  /\ \A r \in Reviewers : WF_vars(ReviewStep(r))
  /\ \A r \in Reviewers, t \in Tasks :
       SF_vars(t \in review[r].task /\ (Approve(r, t) \/ Reject(r, t)))
  /\ \A t \in Tasks : WF_vars(\E S \in SUBSET Tasks : t \in S /\ RequeueStale(S))

FairSpec == Spec /\ Fairness

-----------------------------------------------------------------------------
(* Safety.                                                                 *)

Claimables == {"absent", "inbox", "assigned"}

(* A task is given to an agent once for its creation, once for every       *)
(* failure counted in dispatch_attempts and once for every write from      *)
(* outside, whichever dispatchers and pollers race for it: the claims      *)
(* of dispatchAssignedTasks and of the queue never hand one out twice.     *)
HandoutsArePaid ==
  \A t \in Tasks :
    handouts[t] + (IF status[t] \in Claimables THEN 1 ELSE 0) <= attempts[t] + edits[t] + 1

(* A task no one writes to from outside can be claimed only while          *)
(* dispatch_attempts is below the limit, whichever of the three jobs       *)
(* that count failures (each with a read-modify-write) counted last.       *)
UnattendedBelowLimit ==
  \A t \in Tasks :
    edits[t] = 0 /\ status[t] \in Claimables => attempts[t] < MaxDispatchRetries

(* So such a task reaches agents at most maxDispatchRetries times.         *)
UnattendedHandoutBound ==
  \A t \in Tasks : edits[t] = 0 => handouts[t] <= MaxDispatchRetries

(* README.md:177: "Aegis review requires an approval record before a task  *)
(* reaches done." Three writers ask for none: the pull of a closed issue,  *)
(* a review posted in another name than Aegis', and the creation of a task *)
(* that is done. A task that is done by any other write (a job's, a move,  *)
(* a bulk move) carries Aegis' approval, and no later verdict takes it     *)
(* from a task that stays done.                                            *)
DoneCarriesApproval ==
  \A t \in Tasks : status[t] = "done" => aegis[t] = "approved" \/ t \in waived

(* While a job awaits an agent or the reviewer, the task stays where the   *)
(* job put it. This is what the updates after the awaits, none of which    *)
(* looks at the status, rely on; it holds in direct mode with one          *)
(* activation of the review job and no writes by the API or the pull.      *)
WorkersOwnTheirTasks ==
  /\ \A d \in Dispatchers : \A c \in job[d].call : status[c.task] \in {"in_progress", "deleted"}
  /\ \A r \in Reviewers : \A t \in review[r].task : status[t] \in {"quality_review", "deleted"}

(* The resolution a reviewer gets is the answer to the latest handout.     *)
AnswerIsLatest ==
  \A t \in Tasks :
    edits[t] = 0 /\ status[t] \in {"review", "quality_review"} => answer[t] = handouts[t]

(* docs/orchestration.md:168: "Rejected tasks are re-dispatched with the   *)
(* feedback included in the prompt".                                       *)
FeedbackReachesAgent ==
  [][\A d \in Dispatchers : \A c \in job'[d].call \ job[d].call :
       rejections[c.task] > 0 => c.feedback]_vars

-----------------------------------------------------------------------------
(* The jobs, the routes and the queue together keep the ledger of          *)
(* handouts: whatever they interleave, a task that was given to an agent   *)
(* is open again only after a counted failure below the limit or a write.  *)
Contract == INSTANCE HandoutLedger WITH
            MaxFailures <- MaxDispatchRetries,
            open <- [t \in Tasks |-> status[t] \in Claimables],
            granted <- handouts, failed <- attempts, written <- edits

LedgerIsKept == Contract!Spec

-----------------------------------------------------------------------------
(* Liveness, of FairSpec.                                                  *)

Settled == {"done", "failed", "deleted"}

(* A task that was assigned is done or failed in the end, also when its    *)
(* agent stays offline (docs/orchestration.md:288-291 promises that such a *)
(* task goes back to 'assigned') and when its run is never answered.       *)
AssignedSettles == \A t \in Tasks : status[t] = "assigned" ~> status[t] \in Settled

(* task-dispatch.ts:2116: "Offline agents can't take work - unless we're   *)
(* in direct-API mode where the agent has no heartbeat by design": an      *)
(* unassigned task of the inbox does not stay there.                       *)
InboxIsRouted == \A t \in Tasks : status[t] = "inbox" ~> status[t] # "inbox"

(* docs/orchestration.md:151: "When a task reaches `review` status, the    *)
(* scheduler sends it to the Aegis reviewer agent for sign-off." No job    *)
(* selects a task in quality_review: the review that took it there takes   *)
(* it out again, whatever comes of it, unless the process is restarted.    *)
ReviewEnds == \A t \in Tasks : status[t] = "quality_review" ~> status[t] # "quality_review"

=============================================================================
