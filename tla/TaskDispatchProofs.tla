------------------------- MODULE TaskDispatchProofs -------------------------
(* What holds of the task loop for any number of tasks, agents,            *)
(* activations and batches, and for any limits in the order of the code's. *)
EXTENDS TaskDispatch, TLAPS

-----------------------------------------------------------------------------
(* The operators of the model.                                             *)

(* A query with a LIMIT returns matching rows only.                        *)
LEMMA LimitSubset == ASSUME NEW S, NEW n, NEW B \in Limit(S, n) PROVE B \subseteq S
  BY DEF Limit, kSubset

(* A guarded write keeps a column a column.                                *)
LEMMA WriteType ==
  ASSUME NEW D, NEW column \in [Tasks -> D], NEW t \in Tasks, NEW value \in D
  PROVE  Write(column, t, value) \in [Tasks -> D]
  BY DEF Write

(* A counted failure leaves a status and a number of attempts behind.      *)
LEMMA CountFailureType ==
  ASSUME NEW t \in Tasks, NEW limit, TypeOK, CountFailure(t, limit)
  PROVE  status' \in [Tasks -> Status] /\ attempts' \in [Tasks -> Nat]
  <1>1. AfterFailure(t, limit) \in Status
    BY DEF AfterFailure, Status, Board
  <1>2. Write(status, t, AfterFailure(t, limit)) \in [Tasks -> Status]
    BY <1>1, WriteType DEF TypeOK
  <1>3. Write(attempts, t, attempts[t] + 1) \in [Tasks -> Nat]
    BY DEF TypeOK, Write
  <1> QED BY <1>2, <1>3 DEF CountFailure

(* Both steps of the dispatch loop claim one row or claim nothing.         *)
LEMMA ClaimsOrSkips ==
  ASSUME TypeOK, NEW d \in Dispatchers, SelectAssigned(d) \/ DispatchNext(d)
  PROVE  \/ /\ UNCHANGED <<status, handouts>>
            /\ \/ job' = [job EXCEPT ![d] = Idle]
               \/ \E m \in Item : job' = [job EXCEPT ![d] = Dispatching(job[d].batch \ {m}, {})]
         \/ \E m \in Item, B \in SUBSET Item : Claim(d, m, B)
  <1>1. AssignedItems \subseteq Item
    BY DEF TypeOK, AssignedItems, Item
  <1>2. job[d].batch \subseteq Item
    BY DEF TypeOK
  <1>3. CASE SelectAssigned(d)
    <2>1. PICK B \in Limit(AssignedItems, DispatchBatch) :
             \/ /\ B = {}
                /\ job' = [job EXCEPT ![d] = Idle]
                /\ UNCHANGED <<status, handouts>>
             \/ \E m \in B : Claim(d, m, B \ {m})
      BY <1>3 DEF SelectAssigned
    <2>2. B \subseteq Item
      BY <1>1, LimitSubset
    <2> QED BY <2>1, <2>2
  <1>4. CASE DispatchNext(d)
    BY <1>2, <1>4 DEF DispatchNext
  <1> QED BY <1>3, <1>4

(* Both steps of the review loop take one task for review.                 *)
LEMMA TakesATask ==
  ASSUME TypeOK, NEW r \in Reviewers, StartReviews(r) \/ NextReview(r)
  PROVE  \E t \in Tasks, B \in SUBSET Tasks : TakeForReview(r, t, B)
  <1>1. CASE StartReviews(r)
    <2>1. PICK B \in Limit({t \in Tasks : status[t] = "review"}, ReviewBatch) :
            \E t \in B : TakeForReview(r, t, B \ {t})
      BY <1>1 DEF StartReviews
    <2>2. B \subseteq Tasks
      BY LimitSubset
    <2> QED BY <2>1, <2>2
  <1>2. CASE NextReview(r)
    BY <1>2 DEF NextReview, TypeOK
  <1> QED BY <1>1, <1>2

-----------------------------------------------------------------------------
(* Types.                                                                  *)

JobState ==
  [phase : {"idle", "reconciling", "dispatching"}, batch : SUBSET Item, call : SUBSET Call]

LEMMA InitType == ASSUME Init PROVE TypeOK
  BY ConstantsAssumption
  DEF Init, TypeOK, Idle, Reviewing, Status, Board, Reconcilers, Item, Call, Wait, Names

LEMMA NextType == ASSUME TypeOK, [Next]_vars PROVE TypeOK'
  <1> USE DEF rowVars, envVars, workerVars, historyVars
  <1>1. ASSUME NEW d \in Dispatchers, RouteInbox(d) PROVE TypeOK'
    <2>1. PICK S, A, route, W :
            /\ S \subseteq Tasks /\ A \subseteq Agents /\ route \in [S -> A]
            /\ W \in SUBSET Wait
            /\ status' = [t \in Tasks |-> IF t \in S THEN "assigned" ELSE status[t]]
            /\ assignee' = [t \in Tasks |-> IF t \in S THEN route[t] ELSE assignee[t]]
            /\ waits' = [waits EXCEPT ![d] = W]
      <3>1. PendingWaits \subseteq Wait
        BY DEF TypeOK, PendingWaits, Wait
      <3>2. \E W \in Limit(PendingWaits, ReconcileBatch) : waits' = [waits EXCEPT ![d] = W]
        BY <1>1 DEF RouteInbox
      <3>3. PICK W \in SUBSET Wait : waits' = [waits EXCEPT ![d] = W]
        BY <3>1, <3>2, LimitSubset
      <3> DEFINE free == {a \in Agents : agentStatus[a] = "online" /\ Load(a) < AgentCapacity}
                 routable == IF free = {} THEN {} ELSE UnassignedInbox
      <3>4. routable \subseteq Tasks
        BY DEF UnassignedInbox
      <3>5. \E S \in Limit(routable, RouteBatch) : \E route \in [S -> free] :
              /\ status' = [t \in Tasks |-> IF t \in S THEN "assigned" ELSE status[t]]
              /\ assignee' = [t \in Tasks |-> IF t \in S THEN route[t] ELSE assignee[t]]
        BY <1>1 DEF RouteInbox
      <3>6. free \subseteq Agents
        OBVIOUS
      <3> HIDE DEF free, routable
      <3>7. PICK S \in Limit(routable, RouteBatch) : \E route \in [S -> free] :
              /\ status' = [t \in Tasks |-> IF t \in S THEN "assigned" ELSE status[t]]
              /\ assignee' = [t \in Tasks |-> IF t \in S THEN route[t] ELSE assignee[t]]
        BY <3>5
      <3>8. S \subseteq Tasks
        BY <3>4, LimitSubset
      <3> QED BY <3>3, <3>6, <3>7, <3>8
    <2>2. job' \in [Dispatchers -> JobState]
      BY <1>1 DEF RouteInbox, TypeOK, Reconciling, JobState
    <2>3. status' \in [Tasks -> Status] /\ assignee' \in [Tasks -> Names \cup {NoAgent, Blank}]
      BY <2>1 DEF TypeOK, Status, Board, Names
    <2>4. waits' \in [Reconcilers -> SUBSET Wait]
      BY <2>1 DEF TypeOK, Reconcilers
    <2> QED BY <1>1, <2>2, <2>3, <2>4 DEF RouteInbox, TypeOK, JobState
  <1>2. ASSUME NEW d \in Dispatchers, SelectAssigned(d) \/ DispatchNext(d) PROVE TypeOK'
    <2>1. \/ /\ UNCHANGED <<status, handouts>>
             /\ \/ job' = [job EXCEPT ![d] = Idle]
                \/ \E m \in Item : job' = [job EXCEPT ![d] = Dispatching(job[d].batch \ {m}, {})]
          \/ \E m \in Item, B \in SUBSET Item : Claim(d, m, B)
      BY <1>2, ClaimsOrSkips
    <2>2. UNCHANGED <<assignee, attempts, pendingRun, answer, aegis, envVars, review,
                      waits, rejections, edits, waived>>
      BY <1>2 DEF SelectAssigned, DispatchNext
    <2>3. ASSUME NEW m \in Item, NEW B \in SUBSET Item, Claim(d, m, B) PROVE TypeOK'
      <3>1. m.task \in Tasks
        BY DEF Item
      <3> DEFINE call(k) == [task |-> m.task, run |-> handouts[m.task] + 1,
                             kind |-> k, feedback |-> FeedbackFor(m.task) # {}]
      <3>2. \E k \in DispatchKinds(m.agent) : job' = [job EXCEPT ![d] = Dispatching(B, {call(k)})]
        BY <2>3 DEF Claim
      <3>3. DispatchKinds(m.agent) \subseteq {"sync", "deferred"}
        BY DEF DispatchKinds
      <3>4. \A k \in {"sync", "deferred"} : call(k) \in Call
        BY <3>1 DEF TypeOK, Call
      <3>5. job' \in [Dispatchers -> JobState]
        <4>1. PICK k \in {"sync", "deferred"} : job' = [job EXCEPT ![d] = Dispatching(B, {call(k)})]
          BY <3>2, <3>3
        <4>2. {call(k)} \in SUBSET Call
          BY <3>4
        <4>3. Dispatching(B, {call(k)}) \in JobState
          BY <4>2 DEF Dispatching, JobState
        <4>4. job \in [Dispatchers -> JobState]
          BY DEF TypeOK, JobState
        <4> QED BY <4>1, <4>3, <4>4
      <3>6. status' \in [Tasks -> Status] /\ handouts' \in [Tasks -> Nat]
        BY <2>3, <3>1 DEF Claim, TypeOK, Status, Board
      <3> QED BY <2>2, <3>5, <3>6 DEF TypeOK, JobState
    <2>4. ASSUME UNCHANGED <<status, handouts>>,
                 \/ job' = [job EXCEPT ![d] = Idle]
                 \/ \E m \in Item : job' = [job EXCEPT ![d] = Dispatching(job[d].batch \ {m}, {})]
          PROVE  TypeOK'
      <3>1. job' \in [Dispatchers -> JobState]
        BY <2>4 DEF TypeOK, Idle, Dispatching, JobState
      <3> QED BY <2>2, <2>4, <3>1 DEF TypeOK, JobState
    <2> QED BY <2>1, <2>3, <2>4
  <1>3. ASSUME NEW d \in Dispatchers, EndDispatch(d) PROVE TypeOK'
    BY <1>3 DEF EndDispatch, TypeOK, Idle
  <1>4. ASSUME NEW d \in Dispatchers, NEW c \in job[d].call,
               CompleteSync(d, c) \/ AcceptDeferred(d, c) \/ FailDispatch(d, c)
        PROVE  TypeOK'
    <2>1. c \in Call /\ c.task \in Tasks /\ c.run \in Nat
      BY DEF TypeOK, Call
    <2>2. EndCall(d) => job' \in [Dispatchers -> JobState]
      BY DEF TypeOK, EndCall, Dispatching, JobState
    <2>3. CASE CompleteSync(d, c)
      BY <2>1, <2>2, <2>3, WriteType DEF CompleteSync, TypeOK, Status, Board, JobState
    <2>4. CASE AcceptDeferred(d, c)
      <3>1. PICK run \in Nat : pendingRun' = Write(pendingRun, c.task, run)
        BY <2>1, <2>4 DEF AcceptDeferred
      <3>2. pendingRun' \in [Tasks -> Nat]
        BY <2>1, <3>1 DEF Write, TypeOK
      <3> QED BY <2>2, <2>4, <3>2 DEF AcceptDeferred, TypeOK, JobState
    <2>5. CASE FailDispatch(d, c)
      BY <2>1, <2>2, <2>5, CountFailureType DEF FailDispatch, TypeOK, JobState
    <2> QED BY <1>4, <2>3, <2>4, <2>5
  <1>5. ASSUME NEW c \in Readers, ReadTasks(c) PROVE TypeOK'
    <2>1. PendingWaits \subseteq Wait
      BY DEF TypeOK, PendingWaits, Wait
    <2>2. PICK W \in SUBSET Wait : waits' = [waits EXCEPT ![c] = W]
      BY <1>5, <2>1, LimitSubset DEF ReadTasks
    <2> QED BY <1>5, <2>2 DEF ReadTasks, TypeOK, Reconcilers
  <1>6. ASSUME NEW c \in Reconcilers, NEW w \in waits[c],
               PromoteDeferred(c, w) \/ KeepWaiting(c, w)
        PROVE  TypeOK'
    <2>1. w \in Wait /\ w.task \in Tasks /\ w.run \in Nat
      BY DEF TypeOK, Wait
    <2>2. waits' \in [Reconcilers -> SUBSET Wait]
      BY <1>6 DEF PromoteDeferred, KeepWaiting, TypeOK
    <2>3. CASE PromoteDeferred(c, w)
      <3>1. /\ status' \in [Tasks -> Status]
            /\ answer' \in [Tasks -> Nat]
            /\ pendingRun' \in [Tasks -> Nat]
        BY <2>1, <2>3 DEF PromoteDeferred, TypeOK, Status, Board
      <3> QED BY <2>2, <2>3, <3>1 DEF PromoteDeferred, TypeOK
    <2>4. CASE KeepWaiting(c, w)
      BY <2>2, <2>4 DEF KeepWaiting, TypeOK
    <2> QED BY <1>6, <2>3, <2>4
  <1>7. ASSUME NEW S \in SUBSET Tasks, RequeueStale(S) PROVE TypeOK'
    BY <1>7 DEF RequeueStale, AfterFailure, TypeOK, Status, Board
  <1>8. ASSUME NEW r \in Reviewers, StartReviews(r) \/ NextReview(r) PROVE TypeOK'
    <2>1. PICK t \in Tasks, B \in SUBSET Tasks : TakeForReview(r, t, B)
      BY <1>8, TakesATask
    <2> QED BY <2>1, WriteType DEF TakeForReview, Reviewing, TypeOK, Status, Board
  <1>9. ASSUME NEW r \in Reviewers, NEW t \in review[r].task,
               Approve(r, t) \/ Reject(r, t) \/ ReviewFails(r, t)
        PROVE  TypeOK'
    <2>1. t \in Tasks
      BY DEF TypeOK
    <2>2. EndReview(r) => review' \in [Reviewers -> [batch : SUBSET Tasks, task : SUBSET Tasks]]
      BY DEF TypeOK, EndReview, Reviewing
    <2>3. CASE Approve(r, t)
      BY <2>1, <2>2, <2>3, WriteType DEF Approve, TypeOK, Status, Board
    <2>4. CASE Reject(r, t)
      <3>1. status' \in [Tasks -> Status] /\ attempts' \in [Tasks -> Nat]
        BY <2>1, <2>4, CountFailureType DEF Reject
      <3>2. aegis' \in [Tasks -> {"none", "approved", "rejected"}]
        BY <2>1, <2>4 DEF Reject, Write, TypeOK
      <3>3. rejections' \in [Tasks -> Nat]
        BY <2>1, <2>4 DEF Reject, Write, TypeOK
      <3> QED BY <2>2, <2>4, <3>1, <3>2, <3>3 DEF Reject, TypeOK
    <2>5. CASE ReviewFails(r, t)
      BY <2>1, <2>2, <2>5, WriteType DEF ReviewFails, TypeOK, Status, Board
    <2> QED BY <1>9, <2>3, <2>4, <2>5
  <1>10. ASSUME NEW t \in Tasks, TaskApi(t) PROVE TypeOK'
    <2> USE DEF Edit, Exists
    <2>1. ASSUME NEW s \in CreateStatuses, NEW a \in Names \cup {NoAgent}, CreateTask(t, s, a)
          PROVE  TypeOK'
      BY <2>1, ConstantsAssumption DEF CreateTask, TypeOK, Status, Board
    <2>2. ASSUME NEW s \in Board, NEW a \in Names \cup {Blank, assignee[t]}, MoveTask(t, s, a)
          PROVE  TypeOK'
      BY <2>2 DEF MoveTask, MayMove, TypeOK, Status
    <2>3. ASSUME NEW a \in Names \cup {Blank}, AssignTask(t, a) PROVE TypeOK'
      <3>1. status' \in [Tasks -> Status]
        BY <2>3 DEF AssignTask, TypeOK, Status, Board
      <3> QED BY <2>3, <3>1 DEF AssignTask, TypeOK
    <2>4. ASSUME NEW a \in Agents, MentionAgent(t, a) PROVE TypeOK'
      BY <2>4 DEF MentionAgent, TypeOK, Status, Board, Names
    <2>5. CASE WriteMetadata(t) \/ SubmitAnswer(t) \/ DeleteTask(t)
      <3>1. CASE WriteMetadata(t)
        BY <3>1 DEF WriteMetadata, TypeOK
      <3>2. CASE SubmitAnswer(t)
        BY <3>2 DEF SubmitAnswer, TypeOK, Status, Board
      <3>3. CASE DeleteTask(t)
        BY <3>3 DEF DeleteTask, TypeOK, Status, Board
      <3> QED BY <2>5, <3>1, <3>2, <3>3
    <2>6. ASSUME NEW who \in PostReviewers, NEW v \in {"approved", "rejected"},
                 PostReview(t, who, v)
          PROVE  TypeOK'
      BY <2>6 DEF PostReview, TypeOK, Status, Board
    <2>7. ASSUME NEW s \in GithubStatuses, PullIssue(t, s) PROVE TypeOK'
      <3>1. s \in Board
        BY ConstantsAssumption
      <3>2. CASE CreateTask(t, s, NoAgent)
        BY <3>1, <3>2, ConstantsAssumption DEF CreateTask, TypeOK, Status, Board
      <3>3. ASSUME Edit(t), status' = [status EXCEPT ![t] = s],
                   waived' = IF s = "done" THEN waived \cup {t} ELSE waived,
                   UNCHANGED <<assignee, attempts, pendingRun, answer, aegis>>
            PROVE  TypeOK'
        <4>1. status' \in [Tasks -> Status]
          BY <3>1, <3>3 DEF TypeOK, Status
        <4>2. waived' \in SUBSET Tasks
          BY <3>3 DEF TypeOK
        <4> QED BY <3>3, <4>1, <4>2 DEF TypeOK
      <3> QED BY <2>7, <3>2, <3>3 DEF PullIssue
    <2> QED BY <1>10, <2>1, <2>2, <2>3, <2>4, <2>5, <2>6, <2>7 DEF TaskApi
  <1>11. ASSUME NEW S \in SUBSET Tasks, NEW target \in [S -> Board], MoveTasks(target)
         PROVE  TypeOK'
    BY <1>11 DEF MoveTasks, TypeOK, Status
  <1>12. ASSUME NEW a \in Pollers, PollQueue(a) PROVE TypeOK'
    BY <1>12, ConstantsAssumption DEF PollQueue, TypeOK, Status, Board, Names
  <1>13. ASSUME Environment PROVE TypeOK'
    <2>1. ASSUME NEW a \in Agents, NEW s \in AgentStatuses, AgentStatus(a, s) PROVE TypeOK'
      BY <2>1 DEF AgentStatus, TypeOK
    <2>2. ASSUME NEW b \in GatewayModes, GatewayStatus(b) PROVE TypeOK'
      BY <2>2, ConstantsAssumption DEF GatewayStatus, TypeOK
    <2>3. CASE Restart
      BY <2>3 DEF Restart, Idle, Reviewing, TypeOK
    <2> QED BY <1>13, <2>1, <2>2, <2>3 DEF Environment
  <1>14. CASE UNCHANGED vars
    BY <1>14 DEF vars, TypeOK
  <1> QED BY <1>1, <1>2, <1>3, <1>4, <1>5, <1>6, <1>7, <1>8, <1>9, <1>10, <1>11, <1>12, <1>13, <1>14
          DEF Next, Jobs, DispatchStep, WaitStep, ReviewStep, RequeueJob, Api

(* Every column, and every row a job holds across an await, has its type.  *)
THEOREM TypeCorrect == Spec => []TypeOK
  BY InitType, NextType, PTL DEF Spec

-----------------------------------------------------------------------------
(* The ledger of handouts. Every step does one of four things to a task    *)
(* as far as the ledger is concerned.                                      *)

Unpaid(t) == /\ attempts'[t] = attempts[t]
             /\ edits'[t] = edits[t]
             /\ handouts'[t] = handouts[t]

Quiet(t) == Unpaid(t) /\ (status'[t] \in Claimables => status[t] \in Claimables)

Failure(t) == /\ attempts'[t] = attempts[t] + 1
              /\ edits'[t] = edits[t] /\ handouts'[t] = handouts[t]
              /\ status'[t] \in Claimables => attempts'[t] < MaxDispatchRetries

Handout(t) == /\ attempts'[t] = attempts[t] /\ edits'[t] = edits[t]
              /\ handouts'[t] = handouts[t] + 1
              /\ status[t] \in Claimables /\ status'[t] \notin Claimables

Written(t) == /\ edits'[t] = edits[t] + 1
              /\ attempts'[t] = attempts[t] /\ handouts'[t] = handouts[t]

Entry(t) == Quiet(t) \/ Failure(t) \/ Handout(t) \/ Written(t)

(* A task that is moved to a status no one claims from.                    *)
LEMMA MoveEntry ==
  ASSUME TypeOK, NEW t \in Tasks, NEW s, s \notin Claimables,
         status' = Write(status, t, s), UNCHANGED <<attempts, handouts, edits>>
  PROVE  \A u \in Tasks : Entry(u)
  BY DEF Write, Entry, Quiet, Unpaid, TypeOK

(* A counted failure, whatever the job that counts it.                     *)
LEMMA FailureEntry ==
  ASSUME TypeOK, NEW t \in Tasks, NEW limit \in Nat, limit <= MaxDispatchRetries,
         CountFailure(t, limit), UNCHANGED <<handouts, edits>>
  PROVE  \A u \in Tasks : Entry(u)
  <1> SUFFICES ASSUME NEW u \in Tasks PROVE Entry(u)
    OBVIOUS
  <1>1. CASE status[t] = "deleted" \/ u # t
    BY <1>1 DEF CountFailure, Write, Entry, Quiet, Unpaid, TypeOK
  <1>2. CASE status[t] # "deleted" /\ u = t
    <2>1. attempts'[t] = attempts[t] + 1 /\ attempts[t] \in Nat
      BY <1>2 DEF CountFailure, Write, TypeOK
    <2>2. status'[t] = AfterFailure(t, limit)
      BY <1>2 DEF CountFailure, Write, TypeOK
    <2>3. status'[t] \in Claimables => attempts'[t] < MaxDispatchRetries
      BY <2>1, <2>2, RetryLimitsAssumption DEF AfterFailure, Claimables
    <2> QED BY <1>2, <2>1, <2>3 DEF Entry, Failure
  <1> QED BY <1>1, <1>2

(* A claim, of the dispatcher or of the queue.                             *)
LEMMA HandoutEntry ==
  ASSUME TypeOK, NEW t \in Tasks, status[t] \in Claimables,
         status' = [status EXCEPT ![t] = "in_progress"],
         handouts' = [handouts EXCEPT ![t] = @ + 1], UNCHANGED <<attempts, edits>>
  PROVE  \A u \in Tasks : Entry(u)
  BY DEF Entry, Quiet, Unpaid, Handout, Claimables, TypeOK

(* Every write of the API is counted.                                      *)
LEMMA EditEntry ==
  ASSUME TypeOK, NEW t \in Tasks, Edit(t), UNCHANGED attempts,
         \A u \in Tasks \ {t} : status'[u] = status[u]
  PROVE  \A u \in Tasks : Entry(u)
  BY DEF Edit, Entry, Quiet, Unpaid, Written, TypeOK

LEMMA NextEntry == ASSUME TypeOK, [Next]_vars PROVE \A t \in Tasks : Entry(t)
  <1> USE DEF rowVars, envVars, workerVars, historyVars
  <1> DEFINE Goal == \A t \in Tasks : Entry(t)
  <1>0. ASSUME UNCHANGED <<status, attempts, handouts, edits>> PROVE Goal
    BY <1>0 DEF Entry, Quiet, Unpaid
  <1>1. ASSUME NEW d \in Dispatchers, RouteInbox(d) PROVE Goal
    <2>1. UNCHANGED <<attempts, handouts, edits>>
      BY <1>1 DEF RouteInbox
    <2>2. \A t \in Tasks : status'[t] = status[t] \/ status[t] \in Claimables
      <3> DEFINE free == {a \in Agents : agentStatus[a] = "online" /\ Load(a) < AgentCapacity}
                 routable == IF free = {} THEN {} ELSE UnassignedInbox
      <3>1. \A t \in routable : status[t] = "inbox"
        BY DEF UnassignedInbox
      <3>2. \E S \in Limit(routable, RouteBatch) :
              status' = [t \in Tasks |-> IF t \in S THEN "assigned" ELSE status[t]]
        BY <1>1 DEF RouteInbox
      <3> HIDE DEF routable
      <3>3. PICK S \in SUBSET routable :
              status' = [t \in Tasks |-> IF t \in S THEN "assigned" ELSE status[t]]
        BY <3>2, LimitSubset
      <3> QED BY <3>1, <3>3 DEF Claimables
    <2> QED BY <2>1, <2>2 DEF Entry, Quiet, Unpaid
  <1>2. ASSUME NEW d \in Dispatchers, SelectAssigned(d) \/ DispatchNext(d) PROVE Goal
    <2>1. \/ UNCHANGED <<status, handouts>>
          \/ \E m \in Item, B \in SUBSET Item : Claim(d, m, B)
      BY <1>2, ClaimsOrSkips
    <2>2. UNCHANGED <<attempts, edits>>
      BY <1>2 DEF SelectAssigned, DispatchNext
    <2>3. ASSUME NEW m \in Item, NEW B \in SUBSET Item, Claim(d, m, B) PROVE Goal
      <3>1. m.task \in Tasks /\ status[m.task] \in Claimables
        BY <2>3 DEF Item, Claim, Claimable, Claimables
      <3> QED BY <2>2, <2>3, <3>1, HandoutEntry DEF Claim
    <2> QED BY <1>0, <2>1, <2>2, <2>3
  <1>3. ASSUME NEW d \in Dispatchers, EndDispatch(d) PROVE Goal
    BY <1>0, <1>3 DEF EndDispatch
  <1>4. ASSUME NEW d \in Dispatchers, NEW c \in job[d].call,
               CompleteSync(d, c) \/ AcceptDeferred(d, c) \/ FailDispatch(d, c)
        PROVE  Goal
    <2>1. c.task \in Tasks
      BY DEF TypeOK, Call
    <2>2. CASE CompleteSync(d, c)
      BY <2>1, <2>2, MoveEntry DEF CompleteSync, Claimables
    <2>3. CASE AcceptDeferred(d, c)
      BY <1>0, <2>3 DEF AcceptDeferred
    <2>4. CASE FailDispatch(d, c)
      <3>1. MaxDispatchRetries \in Nat /\ MaxDispatchRetries <= MaxDispatchRetries
        BY RetryLimitsAssumption
      <3> QED BY <2>1, <2>4, <3>1, FailureEntry DEF FailDispatch
    <2> QED BY <1>4, <2>2, <2>3, <2>4
  <1>5. ASSUME NEW c \in Readers, ReadTasks(c) PROVE Goal
    BY <1>0, <1>5 DEF ReadTasks
  <1>6. ASSUME NEW c \in Reconcilers, NEW w \in waits[c],
               PromoteDeferred(c, w) \/ KeepWaiting(c, w)
        PROVE  Goal
    <2>1. w.task \in Tasks
      BY DEF TypeOK, Wait
    <2>2. CASE PromoteDeferred(c, w) /\ status[w.task] = "in_progress"
      BY <2>1, <2>2 DEF PromoteDeferred, Entry, Quiet, Unpaid, Claimables, TypeOK
    <2>3. CASE PromoteDeferred(c, w) /\ status[w.task] # "in_progress"
      BY <1>0, <2>3 DEF PromoteDeferred
    <2>4. CASE KeepWaiting(c, w)
      BY <1>0, <2>4 DEF KeepWaiting
    <2> QED BY <1>6, <2>2, <2>3, <2>4
  <1>7. ASSUME NEW S \in SUBSET Tasks, RequeueStale(S) PROVE Goal
    <2> SUFFICES ASSUME NEW t \in Tasks PROVE Entry(t)
      OBVIOUS
    <2>1. CASE t \in S
      <3>1. attempts'[t] = attempts[t] + 1 /\ attempts[t] \in Nat
        BY <1>7, <2>1 DEF RequeueStale, TypeOK
      <3>2. status'[t] = AfterFailure(t, MaxDispatchRetries)
        BY <1>7, <2>1 DEF RequeueStale
      <3>3. status'[t] \in Claimables => attempts'[t] < MaxDispatchRetries
        BY <3>1, <3>2, RetryLimitsAssumption DEF AfterFailure, Claimables
      <3> QED BY <1>7, <3>1, <3>3 DEF RequeueStale, Entry, Failure
    <2>2. CASE t \notin S
      BY <1>7, <2>2 DEF RequeueStale, Entry, Quiet, Unpaid
    <2> QED BY <2>1, <2>2
  <1>8. ASSUME NEW r \in Reviewers, StartReviews(r) \/ NextReview(r) PROVE Goal
    <2>1. PICK t \in Tasks, B \in SUBSET Tasks : TakeForReview(r, t, B)
      BY <1>8, TakesATask
    <2> QED BY <2>1, MoveEntry DEF TakeForReview, Claimables
  <1>9. ASSUME NEW r \in Reviewers, NEW t \in review[r].task,
               Approve(r, t) \/ Reject(r, t) \/ ReviewFails(r, t)
        PROVE  Goal
    <2>1. t \in Tasks
      BY DEF TypeOK
    <2>2. CASE Approve(r, t)
      BY <2>1, <2>2, MoveEntry DEF Approve, Claimables
    <2>3. CASE Reject(r, t)
      <3>1. MaxAegisRetries \in Nat /\ MaxAegisRetries <= MaxDispatchRetries
        BY RetryLimitsAssumption
      <3> QED BY <2>1, <2>3, <3>1, FailureEntry DEF Reject
    <2>4. CASE ReviewFails(r, t)
      BY <2>1, <2>4, MoveEntry DEF ReviewFails, Claimables
    <2> QED BY <1>9, <2>2, <2>3, <2>4
  <1>10. ASSUME NEW t \in Tasks, TaskApi(t) PROVE Goal
    <2>1. ASSUME NEW s \in CreateStatuses, NEW a \in Names \cup {NoAgent}, CreateTask(t, s, a)
          PROVE  Goal
      BY <2>1 DEF CreateTask, Entry, Quiet, Unpaid, Claimables, TypeOK
    <2>2. CASE DeleteTask(t)
      BY <2>2 DEF DeleteTask, Entry, Quiet, Unpaid, Claimables, TypeOK
    <2>3. ASSUME NEW s \in Board, NEW a \in Names \cup {Blank, assignee[t]}, MoveTask(t, s, a)
          PROVE  Goal
      BY <2>3, EditEntry DEF MoveTask, TypeOK
    <2>4. ASSUME NEW a \in Names \cup {Blank}, AssignTask(t, a) PROVE Goal
      <3>1. \A u \in Tasks \ {t} : status'[u] = status[u]
        BY <2>4 DEF AssignTask, TypeOK
      <3> QED BY <2>4, <3>1, EditEntry DEF AssignTask
    <2>5. ASSUME NEW a \in Agents, MentionAgent(t, a) PROVE Goal
      BY <2>5, EditEntry DEF MentionAgent, TypeOK
    <2>6. CASE WriteMetadata(t)
      BY <2>6, EditEntry DEF WriteMetadata
    <2>7. CASE SubmitAnswer(t)
      BY <2>7, EditEntry DEF SubmitAnswer, TypeOK
    <2>8. ASSUME NEW who \in PostReviewers, NEW v \in {"approved", "rejected"},
                 PostReview(t, who, v)
          PROVE  Goal
      BY <2>8, EditEntry DEF PostReview, TypeOK
    <2>9. ASSUME NEW s \in GithubStatuses, PullIssue(t, s) PROVE Goal
      <3>1. CASE CreateTask(t, s, NoAgent)
        BY <3>1 DEF CreateTask, Entry, Quiet, Unpaid, Claimables, TypeOK
      <3>2. CASE ~CreateTask(t, s, NoAgent)
        BY <2>9, <3>2, EditEntry DEF PullIssue, TypeOK
      <3> QED BY <3>1, <3>2
    <2> QED BY <1>10, <2>1, <2>2, <2>3, <2>4, <2>5, <2>6, <2>7, <2>8, <2>9 DEF TaskApi
  <1>11. ASSUME NEW S \in SUBSET Tasks, NEW target \in [S -> Board], MoveTasks(target)
         PROVE  Goal
    BY <1>11 DEF MoveTasks, Entry, Quiet, Unpaid, Written, TypeOK
  <1>12. ASSUME NEW a \in Pollers, PollQueue(a) PROVE Goal
    BY <1>12, HandoutEntry DEF PollQueue, Claimables
  <1>13. ASSUME Environment PROVE Goal
    BY <1>0, <1>13 DEF Environment, AgentStatus, GatewayStatus, Restart
  <1>14. CASE UNCHANGED vars
    BY <1>0, <1>14 DEF vars
  <1> QED BY <1>1, <1>2, <1>3, <1>4, <1>5, <1>6, <1>7, <1>8, <1>9, <1>10, <1>11, <1>12, <1>13, <1>14
          DEF Next, Jobs, DispatchStep, WaitStep, ReviewStep, RequeueJob, Api

(* The three parts are inductive together: a claim is paid for by the      *)
(* first, at most limit - 1 failures are counted before it by the second,  *)
(* and the third is what follows.                                          *)
Ledger == HandoutsArePaid /\ UnattendedBelowLimit /\ UnattendedHandoutBound

LEMMA InitLedger == ASSUME Init PROVE Ledger
  BY RetryLimitsAssumption
  DEF Init, Ledger, HandoutsArePaid, UnattendedBelowLimit, UnattendedHandoutBound, Claimables

LEMMA NextLedger == ASSUME TypeOK, Ledger, [Next]_vars PROVE Ledger'
  <1> SUFFICES ASSUME NEW t \in Tasks
               PROVE  /\ handouts'[t] + (IF status'[t] \in Claimables THEN 1 ELSE 0)
                           <= attempts'[t] + edits'[t] + 1
                      /\ edits'[t] = 0 /\ status'[t] \in Claimables
                           => attempts'[t] < MaxDispatchRetries
                      /\ edits'[t] = 0 => handouts'[t] <= MaxDispatchRetries
    BY DEF Ledger, HandoutsArePaid, UnattendedBelowLimit, UnattendedHandoutBound, Claimables
  <1>1. /\ handouts[t] + (IF status[t] \in Claimables THEN 1 ELSE 0) <= attempts[t] + edits[t] + 1
        /\ edits[t] = 0 /\ status[t] \in Claimables => attempts[t] < MaxDispatchRetries
        /\ edits[t] = 0 => handouts[t] <= MaxDispatchRetries
    BY DEF Ledger, HandoutsArePaid, UnattendedBelowLimit, UnattendedHandoutBound
  <1>2. handouts[t] \in Nat /\ attempts[t] \in Nat /\ edits[t] \in Nat /\ MaxDispatchRetries \in Nat
    BY RetryLimitsAssumption DEF TypeOK
  <1>3. Entry(t)
    BY NextEntry
  <1>4. CASE Quiet(t)
    BY <1>1, <1>2, <1>4 DEF Quiet, Unpaid
  <1>5. CASE Failure(t)
    BY <1>1, <1>2, <1>5 DEF Failure
  <1>6. CASE Handout(t)
    BY <1>1, <1>2, <1>6 DEF Handout
  <1>7. CASE Written(t)
    BY <1>1, <1>2, <1>7 DEF Written
  <1> QED BY <1>3, <1>4, <1>5, <1>6, <1>7 DEF Entry

LEMMA LedgerKept == Spec => []Ledger
  BY InitLedger, NextLedger, TypeCorrect, PTL DEF Spec

(* No race between dispatchers, polling agents, requeues, reviews and      *)
(* restarts hands a task out without its creation, a counted failure or    *)
(* a write of the API to account for it.                                   *)
THEOREM HandoutsPaid == Spec => []HandoutsArePaid
  BY LedgerKept, PTL DEF Ledger

(* A task no one writes to is claimable only below the retry limit.        *)
THEOREM BelowLimit == Spec => []UnattendedBelowLimit
  BY LedgerKept, PTL DEF Ledger

(* Such a task reaches agents at most maxDispatchRetries times.            *)
THEOREM HandoutBound == Spec => []UnattendedHandoutBound
  BY LedgerKept, PTL DEF Ledger

-----------------------------------------------------------------------------
(* The approval gate.                                                      *)

(* What a step does to a task: it leaves the status and Aegis' verdict     *)
(* alone, or the task is not done afterwards, or it is done with approval, *)
(* or by a write that asks for none.                                       *)
Gated(t) == \/ status'[t] = status[t] /\ aegis'[t] = aegis[t] /\ (t \in waived => t \in waived')
            \/ status'[t] # "done"
            \/ aegis'[t] = "approved"
            \/ t \in waived'

(* A task that is moved anywhere but to 'done', by a guarded write.        *)
LEMMA MoveGated ==
  ASSUME TypeOK, NEW t \in Tasks, NEW s, s # "done", status' = Write(status, t, s),
         UNCHANGED <<aegis, waived>>
  PROVE  \A u \in Tasks : Gated(u)
  BY DEF Write, Gated, TypeOK

(* An assignment to the status of one task, whatever it is now.            *)
LEMMA SetGated ==
  ASSUME TypeOK, NEW t \in Tasks, NEW s, status' = [status EXCEPT ![t] = s], UNCHANGED aegis,
         \A u \in Tasks \ {t} : u \in waived => u \in waived',
         s = "done" => aegis[t] = "approved" \/ t \in waived'
  PROVE  \A u \in Tasks : Gated(u)
  BY DEF Gated, TypeOK

(* The two outcomes of a counted failure.                                  *)
LEMMA AfterFailureNotDone ==
  ASSUME NEW t, NEW limit PROVE AfterFailure(t, limit) # "done"
  BY DEF AfterFailure

(* A task that is created, by a route or by the pull.                      *)
LEMMA CreateGated ==
  ASSUME TypeOK, NEW t \in Tasks, NEW s, NEW a \in Names \cup {NoAgent}, CreateTask(t, s, a)
  PROVE  \A u \in Tasks : Gated(u)
  <1> DEFINE n == IF s = "inbox" /\ a # NoAgent THEN "assigned" ELSE s
  <1>1. n = "done" => t \in waived'
    BY DEF CreateTask
  <1>2. waived \subseteq waived' /\ UNCHANGED aegis /\ status' = [status EXCEPT ![t] = n]
    BY DEF CreateTask
  <1> HIDE DEF n
  <1> QED BY <1>1, <1>2, SetGated

(* No step makes a task done without approval and without a trace.         *)
LEMMA NextGated == ASSUME TypeOK, [Next]_vars PROVE \A t \in Tasks : Gated(t)
  <1> USE DEF rowVars, envVars, workerVars, historyVars
  <1> DEFINE Goal == \A t \in Tasks : Gated(t)
  <1>0. ASSUME UNCHANGED <<status, aegis, waived>> PROVE Goal
    BY <1>0 DEF Gated
  <1>1. ASSUME NEW d \in Dispatchers, RouteInbox(d) PROVE Goal
    <2>1. UNCHANGED <<aegis, waived>>
      BY <1>1 DEF RouteInbox
    <2>2. \E S : status' = [t \in Tasks |-> IF t \in S THEN "assigned" ELSE status[t]]
      BY <1>1 DEF RouteInbox
    <2> QED BY <2>1, <2>2 DEF Gated
  <1>2. ASSUME NEW d \in Dispatchers, SelectAssigned(d) \/ DispatchNext(d) PROVE Goal
    <2>1. \/ UNCHANGED <<status, handouts>>
          \/ \E m \in Item, B \in SUBSET Item : Claim(d, m, B)
      BY <1>2, ClaimsOrSkips
    <2>2. UNCHANGED <<aegis, waived>>
      BY <1>2 DEF SelectAssigned, DispatchNext
    <2>3. ASSUME NEW m \in Item, NEW B \in SUBSET Item, Claim(d, m, B) PROVE Goal
      <3>1. m.task \in Tasks
        BY DEF Item
      <3> QED BY <2>2, <2>3, <3>1, SetGated DEF Claim
    <2> QED BY <1>0, <2>1, <2>2, <2>3
  <1>3. ASSUME NEW d \in Dispatchers, EndDispatch(d) PROVE Goal
    BY <1>0, <1>3 DEF EndDispatch
  <1>4. ASSUME NEW d \in Dispatchers, NEW c \in job[d].call,
               CompleteSync(d, c) \/ AcceptDeferred(d, c) \/ FailDispatch(d, c)
        PROVE  Goal
    <2>1. c.task \in Tasks
      BY DEF TypeOK, Call
    <2>2. CASE CompleteSync(d, c)
      BY <2>1, <2>2, MoveGated DEF CompleteSync
    <2>3. CASE AcceptDeferred(d, c)
      BY <1>0, <2>3 DEF AcceptDeferred
    <2>4. CASE FailDispatch(d, c)
      BY <2>1, <2>4, AfterFailureNotDone, MoveGated DEF FailDispatch, CountFailure
    <2> QED BY <1>4, <2>2, <2>3, <2>4
  <1>5. ASSUME NEW c \in Readers, ReadTasks(c) PROVE Goal
    BY <1>0, <1>5 DEF ReadTasks
  <1>6. ASSUME NEW c \in Reconcilers, NEW w \in waits[c],
               PromoteDeferred(c, w) \/ KeepWaiting(c, w)
        PROVE  Goal
    <2>1. w.task \in Tasks
      BY DEF TypeOK, Wait
    <2>2. CASE PromoteDeferred(c, w) /\ status[w.task] = "in_progress"
      BY <2>1, <2>2, SetGated DEF PromoteDeferred
    <2>3. CASE PromoteDeferred(c, w) /\ status[w.task] # "in_progress"
      BY <1>0, <2>3 DEF PromoteDeferred
    <2>4. CASE KeepWaiting(c, w)
      BY <1>0, <2>4 DEF KeepWaiting
    <2> QED BY <1>6, <2>2, <2>3, <2>4
  <1>7. ASSUME NEW S \in SUBSET Tasks, RequeueStale(S) PROVE Goal
    BY <1>7, AfterFailureNotDone DEF RequeueStale, Gated
  <1>8. ASSUME NEW r \in Reviewers, StartReviews(r) \/ NextReview(r) PROVE Goal
    <2>1. PICK t \in Tasks, B \in SUBSET Tasks : TakeForReview(r, t, B)
      BY <1>8, TakesATask
    <2> QED BY <2>1, MoveGated DEF TakeForReview
  <1>9. ASSUME NEW r \in Reviewers, NEW t \in review[r].task,
               Approve(r, t) \/ Reject(r, t) \/ ReviewFails(r, t)
        PROVE  Goal
    <2>1. t \in Tasks
      BY DEF TypeOK
    <2>2. CASE status[t] = "deleted" /\ (Approve(r, t) \/ Reject(r, t))
      <3>1. UNCHANGED <<status, aegis>> /\ \A u \in Tasks \ {t} : u \in waived => u \in waived'
        BY <2>2 DEF Approve, Reject, CountFailure, Write
      <3> QED BY <2>2, <3>1 DEF Gated
    <2>3. CASE status[t] # "deleted" /\ Approve(r, t)
      BY <2>1, <2>3 DEF Approve, Write, Gated, TypeOK
    <2>4. CASE status[t] # "deleted" /\ Reject(r, t)
      BY <2>1, <2>4, AfterFailureNotDone DEF Reject, CountFailure, Write, Gated, TypeOK
    <2>5. CASE ReviewFails(r, t)
      BY <2>1, <2>5, MoveGated DEF ReviewFails
    <2> QED BY <1>9, <2>2, <2>3, <2>4, <2>5
  <1>10. ASSUME NEW t \in Tasks, TaskApi(t) PROVE Goal
    <2>1. ASSUME NEW s \in CreateStatuses, NEW a \in Names \cup {NoAgent}, CreateTask(t, s, a)
          PROVE  Goal
      BY <2>1, CreateGated
    <2>2. CASE DeleteTask(t)
      BY <2>2, SetGated DEF DeleteTask
    <2>3. ASSUME NEW s \in Board, NEW a \in Names \cup {Blank, assignee[t]}, MoveTask(t, s, a)
          PROVE  Goal
      BY <2>3, SetGated DEF MoveTask, MayMove
    <2>4. ASSUME NEW a \in Names \cup {Blank}, AssignTask(t, a) PROVE Goal
      BY <2>4 DEF AssignTask, Gated, TypeOK
    <2>5. ASSUME NEW a \in Agents, MentionAgent(t, a) PROVE Goal
      BY <2>5 DEF MentionAgent, Gated, TypeOK
    <2>6. CASE WriteMetadata(t)
      BY <1>0, <2>6 DEF WriteMetadata
    <2>7. CASE SubmitAnswer(t)
      BY <2>7, SetGated DEF SubmitAnswer
    <2>8. ASSUME NEW who \in PostReviewers, NEW v \in {"approved", "rejected"},
                 PostReview(t, who, v)
          PROVE  Goal
      BY <2>8 DEF PostReview, Gated, TypeOK
    <2>9. ASSUME NEW s \in GithubStatuses, PullIssue(t, s) PROVE Goal
      <3>1. CASE CreateTask(t, s, NoAgent)
        BY <3>1, CreateGated
      <3>2. CASE ~CreateTask(t, s, NoAgent)
        BY <2>9, <3>2, SetGated DEF PullIssue
      <3> QED BY <3>1, <3>2
    <2> QED BY <1>10, <2>1, <2>2, <2>3, <2>4, <2>5, <2>6, <2>7, <2>8, <2>9 DEF TaskApi
  <1>11. ASSUME NEW S \in SUBSET Tasks, NEW target \in [S -> Board], MoveTasks(target)
         PROVE  Goal
    BY <1>11 DEF MoveTasks, MayMove, Gated
  <1>12. ASSUME NEW a \in Pollers, PollQueue(a) PROVE Goal
    BY <1>12, SetGated DEF PollQueue
  <1>13. ASSUME Environment PROVE Goal
    BY <1>0, <1>13 DEF Environment, AgentStatus, GatewayStatus, Restart
  <1>14. CASE UNCHANGED vars
    BY <1>0, <1>14 DEF vars
  <1> QED BY <1>1, <1>2, <1>3, <1>4, <1>5, <1>6, <1>7, <1>8, <1>9, <1>10, <1>11, <1>12, <1>13, <1>14
          DEF Next, Jobs, DispatchStep, WaitStep, ReviewStep, RequeueJob, Api

(* Whatever the jobs, the routes and the pull interleave: a task that is   *)
(* done carries Aegis' approval, unless it was made done last by the pull  *)
(* of a closed issue, by a review in another name, or by its creation.     *)
THEOREM DoneApproved == Spec => []DoneCarriesApproval
  <1>1. Init => DoneCarriesApproval
    BY DEF Init, DoneCarriesApproval
  <1>2. ASSUME TypeOK, DoneCarriesApproval, [Next]_vars PROVE DoneCarriesApproval'
    BY <1>2, NextGated DEF Gated, DoneCarriesApproval
  <1> QED BY <1>1, <1>2, TypeCorrect, PTL DEF Spec

-----------------------------------------------------------------------------
(* The refinement: what the ledger calls a step is an entry of a task.     *)

LEMMA LedgerInit == Init => Contract!Init
  BY DEF Init, Contract!Init, Claimables

LEMMA LedgerStep == ASSUME TypeOK, [Next]_vars PROVE [Contract!Next]_Contract!ledgerVars
  <1>1. ASSUME NEW t \in Tasks
        PROVE  Contract!Settle(t) \/ Contract!Grant(t) \/ Contract!Fail(t) \/ Contract!Change(t)
    <2>1. Entry(t)
      BY NextEntry
    <2>2. CASE Quiet(t)
      BY <2>2 DEF Quiet, Unpaid, Contract!Settle
    <2>3. CASE Failure(t)
      BY <2>3 DEF Failure, Contract!Fail
    <2>4. CASE Handout(t)
      BY <2>4 DEF Handout, Contract!Grant
    <2>5. CASE Written(t)
      BY <2>5 DEF Written, Contract!Change
    <2> QED BY <2>1, <2>2, <2>3, <2>4, <2>5 DEF Entry
  <1> QED BY <1>1 DEF Contract!Next

(* The task loop implements the ledger of handouts, for any number of      *)
(* tasks, jobs, polling agents and requests, and any order of their steps. *)
THEOREM KeepsLedger == Spec => LedgerIsKept
  <1>1. TypeOK /\ [Next]_vars => [Contract!Next]_Contract!ledgerVars
    BY LedgerStep
  <1> QED BY <1>1, LedgerInit, TypeCorrect, PTL DEF Spec, LedgerIsKept, Contract!Spec

-----------------------------------------------------------------------------
(* The updates of the task loop that look at no status, after the awaits   *)
(* on an agent and on the reviewer, are right in one setting: no gateway,  *)
(* agents that answer within the call, one activation of the review job    *)
(* and no writes through the API but creation, deletion and the polling of *)
(* the queue. Any number of dispatchers, tasks and agents, and restarts.   *)

(* The setting, as a condition on the constants.                           *)
DirectSetting ==
  /\ GatewayModes = {FALSE} /\ DirectAvailable = TRUE /\ TargetSessions = FALSE
  /\ MaxEdits = 0
  /\ \A q, r \in Reviewers : q = r

(* Every call is answered within itself and no run is waited for.          *)
NoDeferred ==
  /\ gateway = FALSE
  /\ \A t \in Tasks : edits[t] = 0 /\ pendingRun[t] = 0
  /\ \A c \in Reconcilers : waits[c] = {}
  /\ \A d \in Dispatchers : \A c \in job[d].call : c.kind = "sync"

(* A dispatcher awaits the latest handout of a task in progress, and no    *)
(* other dispatcher awaits the same task.                                  *)
CallsOwned ==
  \A d \in Dispatchers : \A c \in job[d].call :
    /\ status[c.task] \in {"in_progress", "deleted"}
    /\ c.run = handouts[c.task]
    /\ \A e \in Dispatchers \ {d} : \A k \in job[e].call : k.task # c.task

(* The task under review is in 'quality_review'; those of the batch still  *)
(* are in 'review'.                                                        *)
ReviewsOwned ==
  \A r \in Reviewers :
    /\ \A t \in review[r].task : status[t] \in {"quality_review", "deleted"}
    /\ \A t \in review[r].batch : status[t] \in {"review", "deleted"}

(* What a reviewer would read is the answer to the latest handout.         *)
AnswersKept ==
  \A t \in Tasks :
    status[t] \in {"absent", "review", "quality_review"} => answer[t] = handouts[t]

Ownership == CallsOwned /\ ReviewsOwned /\ AnswersKept

-----------------------------------------------------------------------------
(* The setting stays what it is.                                           *)

(* In the setting a claimed task is answered within the call.              *)
LEMMA ClaimsAreSync ==
  ASSUME TypeOK, DirectSetting, NoDeferred, NEW d \in Dispatchers,
         NEW m \in Item, NEW B \in SUBSET Item, Claim(d, m, B)
  PROVE  \E f \in BOOLEAN :
           job' = [job EXCEPT ![d] =
                    Dispatching(B, {[task |-> m.task, run |-> handouts[m.task] + 1,
                                     kind |-> "sync", feedback |-> f]})]
  <1>1. DirectMode
    BY DEF DirectSetting, NoDeferred, DirectMode
  <1>2. DispatchKinds(m.agent) = {"sync"}
    BY <1>1 DEF DispatchKinds, DirectSetting
  <1> QED BY <1>2 DEF Claim

(* Nothing is written through the API.                                     *)
LEMMA NoEdits ==
  ASSUME TypeOK, DirectSetting, NoDeferred, NEW t \in Tasks
  PROVE  ~Edit(t)
  BY DEF Edit, DirectSetting, NoDeferred

(* The bulk route moves no task.                                           *)
LEMMA NoBulkMoves ==
  ASSUME TypeOK, DirectSetting, NoDeferred, NEW S \in SUBSET Tasks, NEW target \in [S -> Board],
         MoveTasks(target)
  PROVE  UNCHANGED vars
  <1>1. \A t \in Tasks : t \notin DOMAIN target
    BY DEF MoveTasks, DirectSetting, NoDeferred
  <1>2. status' = status /\ edits' = edits
    BY <1>1 DEF MoveTasks, TypeOK
  <1>3. waived' = waived
    BY <1>1 DEF MoveTasks, TypeOK
  <1> QED BY <1>2, <1>3 DEF MoveTasks, vars, rowVars, envVars, workerVars, historyVars

(* Of the routes, creation and deletion are left.                          *)
LEMMA ApiIsCreateOrDelete ==
  ASSUME TypeOK, DirectSetting, NoDeferred, NEW t \in Tasks, TaskApi(t)
  PROVE  \/ \E s \in Board, a \in Names \cup {NoAgent} : CreateTask(t, s, a)
         \/ DeleteTask(t)
  BY NoEdits, ConstantsAssumption
  DEF TaskApi, MoveTask, AssignTask, MentionAgent, WriteMetadata, SubmitAnswer, PostReview, PullIssue

(* With no run to wait for, a query for such runs returns none.            *)
LEMMA NothingPending ==
  ASSUME TypeOK, NoDeferred, NEW W \in Limit(PendingWaits, ReconcileBatch)
  PROVE  W = {}
  <1>1. PendingWaits = {}
    BY DEF PendingWaits, NoDeferred
  <1> QED BY <1>1, LimitSubset

(* What a step must not touch for the setting to stay.                     *)
LEMMA SettingKept ==
  ASSUME TypeOK, NoDeferred, UNCHANGED <<gateway, edits, pendingRun, waits>>,
         \A d \in Dispatchers : \A c \in job'[d].call : c.kind = "sync"
  PROVE  NoDeferred'
  BY DEF NoDeferred

LEMMA NextNoDeferred ==
  ASSUME TypeOK, DirectSetting, NoDeferred, [Next]_vars PROVE NoDeferred'
  <1> USE DEF rowVars, envVars, workerVars, historyVars
  <1>0. ASSUME UNCHANGED <<gateway, edits, pendingRun, waits, job>> PROVE NoDeferred'
    BY <1>0 DEF NoDeferred
  <1>1. ASSUME NEW d \in Dispatchers, RouteInbox(d) PROVE NoDeferred'
    <2>1. UNCHANGED <<gateway, edits, pendingRun>> /\ job' = [job EXCEPT ![d] = Reconciling]
      BY <1>1 DEF RouteInbox
    <2>2. PICK W \in Limit(PendingWaits, ReconcileBatch) : waits' = [waits EXCEPT ![d] = W]
      BY <1>1 DEF RouteInbox
    <2>3. W = {}
      BY NothingPending
    <2>4. \A c \in Reconcilers : waits'[c] = {}
      BY <2>2, <2>3 DEF NoDeferred, TypeOK
    <2>5. \A e \in Dispatchers : \A c \in job'[e].call : c.kind = "sync"
      BY <2>1 DEF NoDeferred, TypeOK, Reconciling
    <2> QED BY <2>1, <2>4, <2>5 DEF NoDeferred
  <1>2. ASSUME NEW d \in Dispatchers, SelectAssigned(d) \/ DispatchNext(d) PROVE NoDeferred'
    <2>1. UNCHANGED <<gateway, edits, pendingRun, waits>>
      BY <1>2 DEF SelectAssigned, DispatchNext
    <2>2. CASE \/ job' = [job EXCEPT ![d] = Idle]
               \/ \E m \in Item : job' = [job EXCEPT ![d] = Dispatching(job[d].batch \ {m}, {})]
      <3>1. \A e \in Dispatchers : \A c \in job'[e].call : c.kind = "sync"
        BY <2>2 DEF NoDeferred, TypeOK, Idle, Dispatching
      <3> QED BY <2>1, <3>1, SettingKept
    <2>3. ASSUME NEW m \in Item, NEW B \in SUBSET Item, Claim(d, m, B) PROVE NoDeferred'
      <3>1. PICK f \in BOOLEAN :
              job' = [job EXCEPT ![d] =
                       Dispatching(B, {[task |-> m.task, run |-> handouts[m.task] + 1,
                                        kind |-> "sync", feedback |-> f]})]
        BY <2>3, ClaimsAreSync
      <3>2. \A e \in Dispatchers : \A c \in job'[e].call : c.kind = "sync"
        BY <3>1 DEF NoDeferred, TypeOK, Dispatching
      <3> QED BY <2>1, <3>2, SettingKept
    <2> QED BY <1>2, <2>2, <2>3, ClaimsOrSkips
  <1>3. ASSUME NEW d \in Dispatchers, EndDispatch(d) PROVE NoDeferred'
    <2>1. \A e \in Dispatchers : \A c \in job'[e].call : c.kind = "sync"
      BY <1>3 DEF EndDispatch, NoDeferred, TypeOK, Idle
    <2> QED BY <1>3, <2>1, SettingKept DEF EndDispatch
  <1>4. ASSUME NEW d \in Dispatchers, NEW c \in job[d].call,
               CompleteSync(d, c) \/ AcceptDeferred(d, c) \/ FailDispatch(d, c)
        PROVE  NoDeferred'
    <2>1. ~AcceptDeferred(d, c)
      BY DEF AcceptDeferred, NoDeferred
    <2>2. UNCHANGED <<gateway, edits, pendingRun, waits>> /\ EndCall(d)
      BY <1>4, <2>1 DEF CompleteSync, FailDispatch
    <2>3. \A e \in Dispatchers : \A k \in job'[e].call : k.kind = "sync"
      BY <2>2 DEF EndCall, Dispatching, NoDeferred, TypeOK
    <2> QED BY <2>2, <2>3, SettingKept
  <1>5. ASSUME NEW c \in Readers, ReadTasks(c) PROVE NoDeferred'
    BY <1>5, NothingPending DEF ReadTasks
  <1>6. ASSUME NEW c \in Reconcilers, NEW w \in waits[c] PROVE NoDeferred'
    BY DEF NoDeferred
  <1>7. ASSUME NEW S \in SUBSET Tasks, RequeueStale(S) PROVE NoDeferred'
    BY <1>0, <1>7 DEF RequeueStale
  <1>8. ASSUME NEW r \in Reviewers, StartReviews(r) \/ NextReview(r) PROVE NoDeferred'
    BY <1>0, <1>8 DEF StartReviews, NextReview, TakeForReview
  <1>9. ASSUME NEW r \in Reviewers, NEW t \in review[r].task,
               Approve(r, t) \/ Reject(r, t) \/ ReviewFails(r, t)
        PROVE  NoDeferred'
    BY <1>0, <1>9 DEF Approve, Reject, ReviewFails
  <1>10. ASSUME NEW t \in Tasks, TaskApi(t) PROVE NoDeferred'
    BY <1>0, <1>10, ApiIsCreateOrDelete DEF CreateTask, DeleteTask
  <1>11. ASSUME NEW S \in SUBSET Tasks, NEW target \in [S -> Board], MoveTasks(target)
         PROVE  NoDeferred'
    BY <1>0, <1>11, NoBulkMoves DEF vars
  <1>12. ASSUME NEW a \in Pollers, PollQueue(a) PROVE NoDeferred'
    BY <1>0, <1>12 DEF PollQueue
  <1>13. ASSUME NEW a \in Agents, NEW s \in AgentStatuses, AgentStatus(a, s) PROVE NoDeferred'
    BY <1>0, <1>13 DEF AgentStatus
  <1>14. ASSUME NEW b \in GatewayModes, GatewayStatus(b) PROVE NoDeferred'
    <2>1. b = FALSE
      BY DEF DirectSetting
    <2> QED BY <1>14, <2>1 DEF GatewayStatus, NoDeferred
  <1>15. CASE Restart
    BY <1>15 DEF Restart, NoDeferred, Idle
  <1>16. CASE UNCHANGED vars
    BY <1>0, <1>16 DEF vars
  <1> QED BY <1>1, <1>2, <1>3, <1>4, <1>5, <1>6, <1>7, <1>8, <1>9, <1>10, <1>11, <1>12, <1>13,
             <1>14, <1>15, <1>16
          DEF Next, Jobs, DispatchStep, WaitStep, ReviewStep, RequeueJob, Api, Environment

-----------------------------------------------------------------------------
(* Who owns a task.                                                        *)

(* A status no worker holds a task in.                                     *)
Busy == {"in_progress", "review", "quality_review"}

(* A step that leaves every task alone, deletes it, or moves it out of a   *)
(* status no worker holds it in.                                           *)
Moves(t) == \/ status'[t] = status[t]
            \/ status'[t] = "deleted"
            \/ /\ status[t] \notin Busy \cup {"deleted"}
               /\ status'[t] \in {"absent", "review", "quality_review"} => status[t] = "absent"

(* A step in which no worker takes anything up.                            *)
LEMMA NothingTaken ==
  ASSUME TypeOK, TypeOK', Ownership, \A t \in Tasks : Moves(t), UNCHANGED <<answer, handouts>>,
         \A d \in Dispatchers : job'[d].call \subseteq job[d].call,
         \A r \in Reviewers : review'[r].task \subseteq review[r].task
                                /\ review'[r].batch \subseteq review[r].batch
  PROVE  Ownership'
  <1>0. /\ \A d \in Dispatchers : \A c \in job[d].call : c.task \in Tasks
        /\ \A r \in Reviewers : review[r].task \subseteq Tasks /\ review[r].batch \subseteq Tasks
    BY DEF TypeOK, Call
  <1>1. CallsOwned'
    BY <1>0 DEF Ownership, CallsOwned, Moves, Busy
  <1>2. ReviewsOwned'
    BY <1>0 DEF Ownership, ReviewsOwned, Moves, Busy
  <1>3. AnswersKept'
    BY DEF Ownership, AnswersKept, Moves
  <1> QED BY <1>1, <1>2, <1>3 DEF Ownership

(* A claim: the task was 'assigned', so no call and no review was on it.   *)
LEMMA ClaimOwned ==
  ASSUME TypeOK, DirectSetting, NoDeferred, Ownership, UNCHANGED <<answer, review>>,
         NEW d \in Dispatchers, NEW m \in Item, NEW B \in SUBSET Item, Claim(d, m, B)
  PROVE  Ownership'
  <1>0. /\ \A e \in Dispatchers : \A c \in job[e].call : c.task \in Tasks
        /\ \A r \in Reviewers : review[r].task \subseteq Tasks /\ review[r].batch \subseteq Tasks
        /\ m.task \in Tasks
    BY DEF TypeOK, Call, Item
  <1>1. PICK f \in BOOLEAN :
          job' = [job EXCEPT ![d] =
                   Dispatching(B, {[task |-> m.task, run |-> handouts[m.task] + 1,
                                    kind |-> "sync", feedback |-> f]})]
    BY ClaimsAreSync
  <1>2. /\ status[m.task] = "assigned"
        /\ status' = [status EXCEPT ![m.task] = "in_progress"]
        /\ handouts' = [handouts EXCEPT ![m.task] = @ + 1]
    BY DEF Claim, Claimable
  <1>3. /\ job'[d].call = {[task |-> m.task, run |-> handouts[m.task] + 1,
                            kind |-> "sync", feedback |-> f]}
        /\ \A e \in Dispatchers \ {d} : job'[e] = job[e]
    BY <1>1 DEF TypeOK, Dispatching
  <1>4. /\ status'[m.task] = "in_progress" /\ handouts'[m.task] = handouts[m.task] + 1
        /\ \A t \in Tasks \ {m.task} : status'[t] = status[t] /\ handouts'[t] = handouts[t]
    BY <1>0, <1>2 DEF TypeOK
  <1>5. \A e \in Dispatchers : \A c \in job[e].call : c.task # m.task
    BY <1>2 DEF Ownership, CallsOwned
  <1>6. CallsOwned'
    BY <1>0, <1>3, <1>4, <1>5 DEF Ownership, CallsOwned
  <1>7. ReviewsOwned'
    BY <1>0, <1>2, <1>4 DEF Ownership, ReviewsOwned
  <1>8. AnswersKept'
    BY <1>4 DEF Ownership, AnswersKept
  <1> QED BY <1>6, <1>7, <1>8 DEF Ownership

(* The end of a call: the task leaves 'in_progress', with its answer if it *)
(* goes to review. No other call was on it.                                *)
LEMMA CallEnds ==
  ASSUME TypeOK, Ownership, UNCHANGED <<handouts, review>>,
         NEW d \in Dispatchers, NEW c \in job[d].call, EndCall(d), NEW s \in Status,
         status' = Write(status, c.task, s), s \notin {"absent", "quality_review"},
         \/ s = "review" /\ answer' = Write(answer, c.task, c.run)
         \/ s # "review" /\ UNCHANGED answer
  PROVE  Ownership'
  <1>0. /\ \A e \in Dispatchers : \A k \in job[e].call : k.task \in Tasks
        /\ \A r \in Reviewers : review[r].task \subseteq Tasks /\ review[r].batch \subseteq Tasks
        /\ c.task \in Tasks
    BY DEF TypeOK, Call
  <1>1. /\ job'[d].call = {}
        /\ \A e \in Dispatchers \ {d} : job'[e] = job[e]
    BY DEF EndCall, Dispatching, TypeOK
  <1>2. status[c.task] \in {"in_progress", "deleted"} /\ c.run = handouts[c.task]
    BY DEF Ownership, CallsOwned
  <1>3. /\ status'[c.task] = (IF status[c.task] = "deleted" THEN "deleted" ELSE s)
        /\ \A t \in Tasks \ {c.task} : status'[t] = status[t] /\ answer'[t] = answer[t]
    BY <1>0 DEF TypeOK, Write
  <1>4. \A e \in Dispatchers : \A k \in job'[e].call : k.task # c.task /\ k \in job[e].call
    BY <1>1 DEF Ownership, CallsOwned
  <1>5. CallsOwned'
    BY <1>0, <1>1, <1>3, <1>4 DEF Ownership, CallsOwned
  <1>6. ReviewsOwned'
    BY <1>0, <1>2, <1>3 DEF Ownership, ReviewsOwned
  <1>7. status'[c.task] = "review" => answer'[c.task] = handouts[c.task]
    BY <1>0, <1>2, <1>3 DEF Write, TypeOK
  <1>8. AnswersKept'
    BY <1>2, <1>3, <1>7 DEF Ownership, AnswersKept
  <1> QED BY <1>5, <1>6, <1>8 DEF Ownership

(* A polling agent claims a task no worker holds.                          *)
LEMMA PollOwned ==
  ASSUME TypeOK, Ownership, NEW a \in Pollers, PollQueue(a)
  PROVE  Ownership'
  <1>0. /\ \A e \in Dispatchers : \A c \in job[e].call : c.task \in Tasks
        /\ \A r \in Reviewers : review[r].task \subseteq Tasks /\ review[r].batch \subseteq Tasks
    BY DEF TypeOK, Call
  <1>1. PICK t \in Tasks : /\ status[t] \in {"assigned", "inbox"}
                           /\ status' = [status EXCEPT ![t] = "in_progress"]
                           /\ handouts' = [handouts EXCEPT ![t] = @ + 1]
    BY DEF PollQueue
  <1>2. UNCHANGED <<answer, job, review>>
    BY DEF PollQueue, workerVars
  <1>3. /\ status'[t] = "in_progress"
        /\ \A u \in Tasks \ {t} : status'[u] = status[u] /\ handouts'[u] = handouts[u]
    BY <1>1 DEF TypeOK
  <1>4. \A e \in Dispatchers : \A c \in job[e].call : c.task # t
    BY <1>1 DEF Ownership, CallsOwned
  <1>5. CallsOwned'
    BY <1>0, <1>2, <1>3, <1>4 DEF Ownership, CallsOwned
  <1>6. ReviewsOwned'
    BY <1>0, <1>1, <1>2, <1>3 DEF Ownership, ReviewsOwned
  <1>7. AnswersKept'
    BY <1>2, <1>3 DEF Ownership, AnswersKept
  <1> QED BY <1>5, <1>6, <1>7 DEF Ownership

(* The one activation of the review job takes a task in 'review'; no call  *)
(* is on it, and the rest of the batch is left in 'review'.                *)
LEMMA ReviewOwned ==
  ASSUME TypeOK, DirectSetting, Ownership, NEW r \in Reviewers, StartReviews(r) \/ NextReview(r)
  PROVE  Ownership'
  <1>0. /\ \A e \in Dispatchers : \A c \in job[e].call : c.task \in Tasks
        /\ \A q \in Reviewers : q = r
    BY DEF TypeOK, Call, DirectSetting
  <1>1. PICK t \in Tasks, B \in SUBSET Tasks :
          /\ TakeForReview(r, t, B) /\ t \notin B
          /\ \A u \in B \cup {t} : status[u] \in {"review", "deleted"}
    <2>1. CASE StartReviews(r)
      <3>1. PICK A \in Limit({t \in Tasks : status[t] = "review"}, ReviewBatch) :
              \E t \in A : TakeForReview(r, t, A \ {t})
        BY <2>1 DEF StartReviews
      <3>2. A \subseteq {t \in Tasks : status[t] = "review"}
        BY LimitSubset
      <3> QED BY <3>1, <3>2
    <2>2. CASE NextReview(r)
      <3>1. PICK t \in review[r].batch : TakeForReview(r, t, review[r].batch \ {t})
        BY <2>2 DEF NextReview
      <3>2. \A u \in review[r].batch : u \in Tasks /\ status[u] \in {"review", "deleted"}
        BY DEF Ownership, ReviewsOwned, TypeOK
      <3> QED BY <3>1, <3>2
    <2> QED BY <2>1, <2>2
  <1>2. /\ review'[r].task = {t} /\ review'[r].batch = B
        /\ UNCHANGED <<answer, handouts, job>>
    BY <1>1 DEF TakeForReview, Reviewing, TypeOK, historyVars
  <1>3. /\ status'[t] = (IF status[t] = "deleted" THEN "deleted" ELSE "quality_review")
        /\ \A u \in Tasks \ {t} : status'[u] = status[u]
    BY <1>1 DEF TakeForReview, Write, TypeOK
  <1>4. CallsOwned'
    BY <1>0, <1>1, <1>2, <1>3 DEF Ownership, CallsOwned
  <1>5. ReviewsOwned'
    BY <1>0, <1>1, <1>2, <1>3 DEF ReviewsOwned
  <1>6. AnswersKept'
    BY <1>1, <1>2, <1>3 DEF Ownership, AnswersKept
  <1> QED BY <1>4, <1>5, <1>6 DEF Ownership

(* A review ends: the task goes wherever the verdict sends it.             *)
LEMMA ReviewEnded ==
  ASSUME TypeOK, DirectSetting, Ownership, UNCHANGED <<answer, handouts, job>>,
         NEW r \in Reviewers, NEW t \in review[r].task, EndReview(r), NEW s \in Status,
         status' = Write(status, t, s), s # "absent"
  PROVE  Ownership'
  <1>0. /\ \A e \in Dispatchers : \A c \in job[e].call : c.task \in Tasks
        /\ \A q \in Reviewers : q = r
        /\ t \in Tasks /\ review[r].batch \subseteq Tasks
    BY DEF TypeOK, Call, DirectSetting
  <1>1. status[t] \in {"quality_review", "deleted"}
    BY DEF Ownership, ReviewsOwned
  <1>2. review'[r].task = {} /\ review'[r].batch = review[r].batch
    BY DEF EndReview, Reviewing, TypeOK
  <1>3. /\ status'[t] = (IF status[t] = "deleted" THEN "deleted" ELSE s)
        /\ \A u \in Tasks \ {t} : status'[u] = status[u]
    BY <1>0 DEF Write, TypeOK
  <1>4. CallsOwned'
    BY <1>0, <1>1, <1>3 DEF Ownership, CallsOwned
  <1>5. ReviewsOwned'
    BY <1>0, <1>1, <1>2, <1>3 DEF Ownership, ReviewsOwned
  <1>6. AnswersKept'
    BY <1>0, <1>1, <1>3 DEF Ownership, AnswersKept
  <1> QED BY <1>4, <1>5, <1>6 DEF Ownership

LEMMA NextOwnership ==
  ASSUME TypeOK, TypeOK', DirectSetting, NoDeferred, Ownership, [Next]_vars PROVE Ownership'
  <1> USE DEF rowVars, envVars, workerVars, historyVars
  <1>0. ASSUME UNCHANGED <<status, answer, handouts, job, review>> PROVE Ownership'
    BY <1>0, NothingTaken DEF Moves
  <1>1. ASSUME NEW d \in Dispatchers, RouteInbox(d) PROVE Ownership'
    <2> DEFINE free == {a \in Agents : agentStatus[a] = "online" /\ Load(a) < AgentCapacity}
               routable == IF free = {} THEN {} ELSE UnassignedInbox
    <2>1. \A t \in routable : status[t] = "inbox"
      BY DEF UnassignedInbox
    <2>2. /\ \E S \in Limit(routable, RouteBatch) :
               status' = [t \in Tasks |-> IF t \in S THEN "assigned" ELSE status[t]]
          /\ job' = [job EXCEPT ![d] = Reconciling]
          /\ UNCHANGED <<answer, handouts, review>>
      BY <1>1 DEF RouteInbox
    <2> HIDE DEF routable
    <2>3. PICK S \in SUBSET routable :
            status' = [t \in Tasks |-> IF t \in S THEN "assigned" ELSE status[t]]
      BY <2>2, LimitSubset
    <2>4. \A t \in Tasks : Moves(t)
      BY <2>1, <2>3 DEF Moves, Busy
    <2>5. \A e \in Dispatchers : job'[e].call \subseteq job[e].call
      BY <2>2 DEF TypeOK, Reconciling
    <2> QED BY <2>2, <2>4, <2>5, NothingTaken
  <1>2. ASSUME NEW d \in Dispatchers, SelectAssigned(d) \/ DispatchNext(d) PROVE Ownership'
    <2>1. UNCHANGED <<answer, review>>
      BY <1>2 DEF SelectAssigned, DispatchNext
    <2>2. ASSUME UNCHANGED <<status, handouts>>,
                 \/ job' = [job EXCEPT ![d] = Idle]
                 \/ \E m \in Item : job' = [job EXCEPT ![d] = Dispatching(job[d].batch \ {m}, {})]
          PROVE  Ownership'
      <3>1. \A e \in Dispatchers : job'[e].call \subseteq job[e].call
        <4>1. PICK B : job' = [job EXCEPT ![d] = [phase |-> B.phase, batch |-> B.batch, call |-> {}]]
          BY <2>2 DEF Idle, Dispatching
        <4> QED BY <4>1 DEF TypeOK
      <3> QED BY <2>1, <2>2, <3>1, NothingTaken DEF Moves
    <2> QED BY <1>2, <2>1, <2>2, ClaimsOrSkips, ClaimOwned
  <1>3. ASSUME NEW d \in Dispatchers, EndDispatch(d) PROVE Ownership'
    <2>1. \A e \in Dispatchers : job'[e].call \subseteq job[e].call
      BY <1>3 DEF EndDispatch, TypeOK, Idle
    <2> QED BY <1>3, <2>1, NothingTaken DEF EndDispatch, Moves
  <1>4. ASSUME NEW d \in Dispatchers, NEW c \in job[d].call,
               CompleteSync(d, c) \/ AcceptDeferred(d, c) \/ FailDispatch(d, c)
        PROVE  Ownership'
    <2>1. CASE CompleteSync(d, c)
      BY <2>1, CallEnds DEF CompleteSync, Status, Board
    <2>2. CASE AcceptDeferred(d, c)
      BY <2>2 DEF AcceptDeferred, NoDeferred
    <2>3. CASE FailDispatch(d, c)
      <3>1. AfterFailure(c.task, MaxDispatchRetries) \in {"failed", "assigned"}
        BY DEF AfterFailure
      <3> QED BY <2>3, <3>1, CallEnds DEF FailDispatch, CountFailure, Status, Board
    <2> QED BY <1>4, <2>1, <2>2, <2>3
  <1>5. ASSUME NEW c \in Readers, ReadTasks(c) PROVE Ownership'
    BY <1>0, <1>5 DEF ReadTasks
  <1>6. ASSUME NEW c \in Reconcilers, NEW w \in waits[c] PROVE Ownership'
    BY DEF NoDeferred
  <1>7. ASSUME NEW S \in SUBSET Tasks, RequeueStale(S) PROVE Ownership'
    BY <1>7 DEF RequeueStale, SkipsStaleCheck, DirectMode, DirectSetting, NoDeferred
  <1>8. ASSUME NEW r \in Reviewers, StartReviews(r) \/ NextReview(r) PROVE Ownership'
    BY <1>8, ReviewOwned
  <1>9. ASSUME NEW r \in Reviewers, NEW t \in review[r].task,
               Approve(r, t) \/ Reject(r, t) \/ ReviewFails(r, t)
        PROVE  Ownership'
    <2>1. CASE Approve(r, t)
      BY <2>1, ReviewEnded DEF Approve, Status, Board
    <2>2. CASE Reject(r, t)
      <3>1. AfterFailure(t, MaxAegisRetries) \in {"failed", "assigned"}
        BY DEF AfterFailure
      <3> QED BY <2>2, <3>1, ReviewEnded DEF Reject, CountFailure, Status, Board
    <2>3. CASE ReviewFails(r, t)
      BY <2>3, ReviewEnded DEF ReviewFails, Status, Board
    <2> QED BY <1>9, <2>1, <2>2, <2>3
  <1>10. ASSUME NEW t \in Tasks, TaskApi(t) PROVE Ownership'
    <2>1. UNCHANGED <<answer, handouts, job, review>>
      BY <1>10, ApiIsCreateOrDelete DEF CreateTask, DeleteTask
    <2>2. \A u \in Tasks : Moves(u)
      BY <1>10, ApiIsCreateOrDelete DEF CreateTask, DeleteTask, Moves, Busy, TypeOK
    <2> QED BY <2>1, <2>2, NothingTaken
  <1>11. ASSUME NEW S \in SUBSET Tasks, NEW target \in [S -> Board], MoveTasks(target)
         PROVE  Ownership'
    BY <1>0, <1>11, NoBulkMoves DEF vars
  <1>12. ASSUME NEW a \in Pollers, PollQueue(a) PROVE Ownership'
    BY <1>12, PollOwned
  <1>13. ASSUME NEW a \in Agents, NEW s \in AgentStatuses, AgentStatus(a, s) PROVE Ownership'
    BY <1>0, <1>13 DEF AgentStatus
  <1>14. ASSUME NEW b \in GatewayModes, GatewayStatus(b) PROVE Ownership'
    BY <1>0, <1>14 DEF GatewayStatus
  <1>15. CASE Restart
    BY <1>15, NothingTaken DEF Restart, Idle, Reviewing, Moves
  <1>16. CASE UNCHANGED vars
    BY <1>0, <1>16 DEF vars
  <1> QED BY <1>1, <1>2, <1>3, <1>4, <1>5, <1>6, <1>7, <1>8, <1>9, <1>10, <1>11, <1>12, <1>13,
             <1>14, <1>15, <1>16
          DEF Next, Jobs, DispatchStep, WaitStep, ReviewStep, RequeueJob, Api, Environment

-----------------------------------------------------------------------------
LEMMA OwnershipKept == ASSUME DirectSetting PROVE Spec => [](NoDeferred /\ Ownership)
  <1>1. Init => NoDeferred /\ Ownership
    BY DEF Init, DirectSetting, NoDeferred, Ownership, CallsOwned, ReviewsOwned, AnswersKept,
           Idle, Reviewing
  <1>2. ASSUME TypeOK, TypeOK', NoDeferred, Ownership, [Next]_vars PROVE NoDeferred' /\ Ownership'
    BY <1>2, NextNoDeferred, NextOwnership
  <1> QED BY <1>1, <1>2, TypeCorrect, PTL DEF Spec

(* In the direct setting the updates after the awaits on an agent and on   *)
(* the reviewer meet the task in the status the job gave it, or deleted.   *)
THEOREM AwaitedTasksStay == ASSUME DirectSetting PROVE Spec => []WorkersOwnTheirTasks
  <1>1. Ownership => WorkersOwnTheirTasks
    BY DEF Ownership, CallsOwned, ReviewsOwned, WorkersOwnTheirTasks
  <1> QED BY <1>1, OwnershipKept, PTL

(* In the direct setting Aegis never judges the answer of an earlier       *)
(* handout.                                                                *)
THEOREM ReviewsLatestAnswer == ASSUME DirectSetting PROVE Spec => []AnswerIsLatest
  <1>1. Ownership => AnswerIsLatest
    BY DEF Ownership, AnswersKept, AnswerIsLatest
  <1> QED BY <1>1, OwnershipKept, PTL

=============================================================================
