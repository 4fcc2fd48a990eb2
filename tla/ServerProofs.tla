----------------------------- MODULE ServerProofs -----------------------------
(***************************************************************************)
(* Proofs for the components of the server that share no state: runs of a  *)
(* pipeline, the limiters of the routes, the allow lists in an editor, the *)
(* delivery of notifications, the processes of terminals and their         *)
(* sockets, and the browser's connection to the gateway; those of a        *)
(* provisioning job are in a module of their own. Each theorem is about the specification of one component, *)
(* and the last section puts the components together: what holds of each   *)
(* holds of the server.                                                    *)
(***************************************************************************)
EXTENDS MCServer, ProvisioningProofs, TLAPS

-----------------------------------------------------------------------------
(* Runs of a pipeline, for any number of steps, any policies and any       *)
(* number of requests that overlap or are cut off: in which order agents   *)
(* are started, that a settled run rests, and what the row of a run says   *)
(* while requests come one at a time.                                      *)

(* Every step up to i that has an agent to start had it started.           *)
SpawnedUpTo(i) == \A k \in 1..i : policy[k].template => spawned[k] > 0

(* The step of the row, and those that requests are about to write to it,  *)
(* were reached without leaving one out.                                   *)
Ordered ==
  /\ runStatus # "absent" => SpawnedUpTo(current)
  /\ \A r \in RunRequests : spawning[r].action = "advance" => SpawnedUpTo(spawning[r].step)
  /\ SpawnsInOrder

(* Before it is started nothing happened to a run.                         *)
Untouched ==
  runStatus = "absent" =>
    /\ Alone /\ current = 1 /\ snapshot = Fresh
    /\ \A i \in Steps : spawned[i] = 0

OrderInv == PipelineTypeOK /\ Untouched /\ Ordered

-----------------------------------------------------------------------------
LEMMA Bounds ==
  /\ LastStep \in Nat /\ LastStep > 0 /\ 1 \in Steps
  /\ MaxSpawns \in Nat /\ MaxSpawns > 0
  BY PipelineAssumption DEF Steps

(* The steps up to one step are steps.                                     *)
LEMMA StepsUpTo == \A i \in Steps : i \in Nat /\ \A k \in 1..i : k \in Steps
  BY Bounds DEF Steps

LEMMA FreshType == Fresh \in [Steps -> StepStatus] /\ NoAwait \in Await
  BY Bounds DEF Fresh, StepStatus, NoAwait, Await

(* The snapshot with the outcome of the current step.                      *)
LEMMA ReportedType ==
  ASSUME PipelineTypeOK, NEW outcome \in {"completed", "failed"}
  PROVE  /\ Reported(outcome) \in [Steps -> StepStatus]
         /\ Reported(outcome)[current] = outcome
         /\ \A i \in Steps \ {current} : Reported(outcome)[i] = snapshot[i]
  BY DEF PipelineTypeOK, Reported, StepStatus

(* What a started agent changes.                                           *)
LEMMA SpawnFacts ==
  ASSUME PipelineTypeOK, NEW r \in RunRequests, NEW action \in {"start", "advance"},
         NEW i \in Steps, NEW steps \in [Steps -> StepStatus], Spawn(r, action, i, steps)
  PROVE  /\ spawning' \in [RunRequests -> Await] /\ spawned' \in [Steps -> 0..MaxSpawns]
         /\ spawning'[r] = [action |-> action, step |-> i, steps |-> steps]
         /\ \A q \in RunRequests \ {r} : spawning'[q] = spawning[q]
         /\ spawned'[i] = spawned[i] + 1
         /\ \A k \in Steps \ {i} : spawned'[k] = spawned[k]
  <1>1. [action |-> action, step |-> i, steps |-> steps] \in Await
    BY DEF Await
  <1>2. spawned[i] + 1 \in 0..MaxSpawns
    BY Bounds DEF PipelineTypeOK, Spawn
  <1> QED BY <1>1, <1>2 DEF PipelineTypeOK, Spawn

(* The snapshot an advance is about to write.                              *)
LEMMA AdvanceFacts ==
  ASSUME PipelineTypeOK, NEW outcome \in {"completed", "failed"}, current < LastStep
  PROVE  /\ current + 1 \in Steps
         /\ [Reported(outcome) EXCEPT ![current + 1] = "running"] \in [Steps -> StepStatus]
  <1>1. current + 1 \in Steps
    BY Bounds DEF PipelineTypeOK, Steps
  <1>2. Reported(outcome) \in [Steps -> StepStatus]
    BY ReportedType
  <1> QED BY <1>1, <1>2 DEF StepStatus

-----------------------------------------------------------------------------
(* The types and the order of the agents, action by action.                *)

LEMMA OrderStart ==
  ASSUME OrderInv, NEW r \in RunRequests, StartRun(r)
  PROVE  OrderInv'
  <1>1. PipelineTypeOK /\ runStatus = "absent" /\ runStatus' = "running"
        /\ UNCHANGED <<policy, current, snapshot, serial>>
    BY DEF OrderInv, StartRun
  <1>2. Alone /\ current = 1 /\ \A i \in Steps : spawned[i] = 0
    BY <1>1 DEF OrderInv, Untouched
  <1>3. \A q \in RunRequests : spawning[q].action = "none"
    BY <1>2 DEF Alone, Free, NoAwait
  <1>4. CASE policy[1].template
    <2>1. Spawn(r, "start", 1, Fresh)
      BY <1>4 DEF StartRun
    <2>2. /\ spawning' \in [RunRequests -> Await] /\ spawned' \in [Steps -> 0..MaxSpawns]
          /\ spawning'[r] = [action |-> "start", step |-> 1, steps |-> Fresh]
          /\ \A q \in RunRequests \ {r} : spawning'[q] = spawning[q]
          /\ spawned'[1] = spawned[1] + 1
          /\ \A k \in Steps \ {1} : spawned'[k] = spawned[k]
      BY <1>1, <2>1, Bounds, FreshType, SpawnFacts
    <2>3. spawned'[1] = 1 /\ \A k \in Steps \ {1} : spawned'[k] = 0
      BY <1>2, <2>2, Bounds
    <2>4. PipelineTypeOK'
      BY <1>1, <2>2 DEF PipelineTypeOK
    <2>5. \A q \in RunRequests : spawning'[q].action # "advance"
      BY <1>3, <2>2
    <2>6. SpawnedUpTo(current)'
      BY <1>1, <1>2, <2>3 DEF SpawnedUpTo
    <2>7. SpawnsInOrder'
      BY <2>3 DEF SpawnsInOrder, Steps
    <2> QED BY <1>1, <2>4, <2>5, <2>6, <2>7 DEF OrderInv, Untouched, Ordered
  <1>5. CASE ~policy[1].template
    <2>1. spawning' = spawning /\ spawned' = spawned
      BY <1>5 DEF StartRun
    <2>2. PipelineTypeOK'
      BY <1>1, <2>1 DEF PipelineTypeOK
    <2>3. SpawnedUpTo(current)'
      BY <1>1, <1>2, <1>5, <2>1 DEF SpawnedUpTo
    <2>4. SpawnsInOrder'
      BY <1>2, <2>1 DEF SpawnsInOrder
    <2> QED BY <1>1, <1>3, <2>1, <2>2, <2>3, <2>4 DEF OrderInv, Untouched, Ordered
  <1> QED BY <1>4, <1>5

(* Steps that start no agent and leave the number of the step alone, or    *)
(* take it from an advance that ends.                                      *)
LEMMA OrderQuiet ==
  ASSUME OrderInv, PipelineTypeOK', runStatus # "absent", runStatus' # "absent",
         policy' = policy, spawned' = spawned,
         \A r \in RunRequests : spawning'[r].action = "advance" => spawning'[r] = spawning[r],
         current' = current \/ \E r \in RunRequests : spawning[r].action = "advance" /\ current' = spawning[r].step
  PROVE  OrderInv'
  <1>1. \A i : SpawnedUpTo(i)' <=> SpawnedUpTo(i)
    BY DEF SpawnedUpTo
  <1>2. SpawnedUpTo(current')
    BY DEF OrderInv, Ordered
  <1>3. (SpawnedUpTo(current))'
    BY <1>2 DEF SpawnedUpTo
  <1>4. ASSUME NEW r \in RunRequests, spawning'[r].action = "advance"
        PROVE  (SpawnedUpTo(spawning[r].step))'
    <2>1. spawning'[r] = spawning[r] /\ SpawnedUpTo(spawning[r].step)
      BY <1>4 DEF OrderInv, Ordered
    <2> QED BY <2>1 DEF SpawnedUpTo
  <1>5. SpawnsInOrder'
    BY DEF OrderInv, Ordered, SpawnsInOrder
  <1> QED BY <1>3, <1>4, <1>5 DEF OrderInv, Untouched, Ordered

(* A request that awaits says that there is a run.                         *)
LEMMA AwaitsRun ==
  ASSUME OrderInv, NEW r \in RunRequests, spawning[r].action # "none"
  PROVE  runStatus # "absent"
  BY DEF OrderInv, Untouched, Alone, Free, NoAwait

LEMMA OrderEnds ==
  ASSUME OrderInv, NEW r \in RunRequests, StartEnds(r) \/ AdvanceEnds(r)
  PROVE  OrderInv'
  <1>1. PipelineTypeOK /\ spawning[r] \in Await
    BY DEF OrderInv, PipelineTypeOK
  <1>2. spawning[r].steps \in [Steps -> StepStatus] /\ spawning[r].step \in Steps
    BY <1>1 DEF Await
  <1>3. /\ spawning' = [spawning EXCEPT ![r] = NoAwait] /\ snapshot' = spawning[r].steps
        /\ policy' = policy /\ runStatus' = runStatus /\ spawned' = spawned /\ serial' = serial
    BY DEF StartEnds, AdvanceEnds
  <1>4. /\ spawning'[r] = NoAwait
        /\ \A q \in RunRequests \ {r} : spawning'[q] = spawning[q]
    BY <1>1, <1>3 DEF PipelineTypeOK
  <1>5. \/ current' = current
        \/ spawning[r].action = "advance" /\ current' = spawning[r].step
    BY DEF StartEnds, AdvanceEnds
  <1>6. current' \in Steps
    BY <1>1, <1>2, <1>5 DEF PipelineTypeOK
  <1>7. PipelineTypeOK'
    BY <1>1, <1>2, <1>3, <1>6, FreshType DEF PipelineTypeOK
  <1>8. runStatus # "absent"
    <2>1. spawning[r].action # "none"
      BY DEF StartEnds, AdvanceEnds
    <2> QED BY <2>1, AwaitsRun
  <1>9. \A q \in RunRequests : spawning'[q].action = "advance" => spawning'[q] = spawning[q]
    BY <1>4 DEF NoAwait
  <1> QED BY <1>3, <1>5, <1>7, <1>8, <1>9, OrderQuiet

LEMMA OrderSettle ==
  ASSUME OrderInv, NEW outcome \in {"completed", "failed"},
         \/ \E r \in RunRequests : StopRun(r, outcome) \/ CompleteRun(r, outcome)
         \/ CancelRun
  PROVE  OrderInv'
  <1>1. PipelineTypeOK /\ Reported(outcome) \in [Steps -> StepStatus]
    BY ReportedType DEF OrderInv
  <1>2. /\ runStatus = "running" /\ runStatus' \in {"failed", "completed", "cancelled"}
        /\ UNCHANGED <<policy, current, spawning, spawned>>
    BY DEF StopRun, CompleteRun, CancelRun, MayAdvance
  <1>3. snapshot' \in [Steps -> StepStatus]
    BY <1>1 DEF StopRun, CompleteRun, CancelRun, PipelineTypeOK, StepStatus
  <1>4. serial' \in BOOLEAN
    BY <1>1 DEF StopRun, CompleteRun, CancelRun, PipelineTypeOK, Alone
  <1>5. PipelineTypeOK'
    BY <1>1, <1>2, <1>3, <1>4 DEF PipelineTypeOK
  <1> QED BY <1>2, <1>5, OrderQuiet

LEMMA OrderAdvance ==
  ASSUME OrderInv, NEW r \in RunRequests, NEW outcome \in {"completed", "failed"},
         AdvanceRun(r, outcome)
  PROVE  OrderInv'
  <1> DEFINE next == current + 1
             steps == [Reported(outcome) EXCEPT ![next] = "running"]
  <1>1. /\ PipelineTypeOK /\ runStatus = "running" /\ runStatus' = runStatus /\ policy' = policy
        /\ current < LastStep /\ current \in Steps
    BY DEF OrderInv, PipelineTypeOK, AdvanceRun, MayAdvance
  <1>2. next \in Steps /\ steps \in [Steps -> StepStatus]
    BY <1>1, AdvanceFacts
  <1>3. serial' \in BOOLEAN
    BY <1>1 DEF AdvanceRun, PipelineTypeOK, Alone
  <1>4. SpawnedUpTo(current)
    BY <1>1 DEF OrderInv, Ordered
  <1>5. \A k \in 1..next : k = next \/ k \in 1..current
    BY <1>1 DEF Steps
  <1>6. CASE policy[next].template
    <2>1. Spawn(r, "advance", next, steps) /\ current' = current /\ snapshot' = snapshot
      BY <1>6 DEF AdvanceRun
    <2> HIDE DEF steps
    <2>2. /\ spawning' \in [RunRequests -> Await] /\ spawned' \in [Steps -> 0..MaxSpawns]
          /\ spawning'[r] = [action |-> "advance", step |-> next, steps |-> steps]
          /\ \A q \in RunRequests \ {r} : spawning'[q] = spawning[q]
          /\ spawned'[next] = spawned[next] + 1
          /\ \A k \in Steps \ {next} : spawned'[k] = spawned[k]
      BY <1>1, <1>2, <2>1, SpawnFacts
    <2>3. PipelineTypeOK'
      BY <1>1, <1>3, <2>1, <2>2 DEF PipelineTypeOK
    <2>4. \A k \in Steps : spawned[k] > 0 => spawned'[k] > 0
      BY <1>1, <2>2 DEF PipelineTypeOK
    <2>5. spawned'[next] > 0
      BY <1>1, <1>2, <2>2 DEF PipelineTypeOK
    <2>6. \A i \in Steps : SpawnedUpTo(i) => SpawnedUpTo(i)'
      BY <1>1, <2>4, StepsUpTo DEF SpawnedUpTo
    <2>7. \A k \in 1..next : policy'[k].template => spawned'[k] > 0
      BY <1>1, <1>4, <1>5, <2>4, <2>5, StepsUpTo DEF SpawnedUpTo
    <2>8. (SpawnedUpTo(current))'
      BY <1>1, <1>4, <2>1, <2>6 DEF SpawnedUpTo
    <2>9. ASSUME NEW q \in RunRequests, spawning'[q].action = "advance"
          PROVE  (SpawnedUpTo(spawning[q].step))'
      <3>1. CASE q = r
        BY <2>2, <2>7, <3>1 DEF SpawnedUpTo
      <3>2. CASE q # r
        <4>1. spawning'[q] = spawning[q] /\ SpawnedUpTo(spawning[q].step)
          BY <2>2, <2>9, <3>2 DEF OrderInv, Ordered
        <4>2. spawning[q].step \in Steps
          BY <1>1 DEF PipelineTypeOK, Await
        <4> QED BY <1>1, <2>4, <4>1, <4>2, StepsUpTo DEF SpawnedUpTo
      <3> QED BY <3>1, <3>2
    <2>10. SpawnsInOrder'
      <3> SUFFICES ASSUME NEW i \in Steps, spawned'[i] > 0, NEW k \in 1..(i - 1), policy[k].template
                   PROVE  spawned'[k] > 0
        BY <1>1 DEF SpawnsInOrder
      <3>1. CASE i = next
        BY <1>1, <2>7, <3>1 DEF Steps
      <3>2. CASE i # next
        <4>1. spawned[i] > 0
          BY <2>2, <3>2
        <4>2. spawned[k] > 0
          BY <4>1 DEF OrderInv, Ordered, SpawnsInOrder
        <4>3. k \in 1..i
          BY StepsUpTo
        <4>4. k \in Steps
          BY <4>3, StepsUpTo
        <4> QED BY <2>4, <4>2, <4>4
      <3> QED BY <3>1, <3>2
    <2> QED BY <1>1, <2>3, <2>8, <2>9, <2>10 DEF OrderInv, Untouched, Ordered
  <1>7. CASE ~policy[next].template
    <2>1. current' = next /\ snapshot' = steps /\ spawning' = spawning /\ spawned' = spawned
      BY <1>7 DEF AdvanceRun
    <2>2. PipelineTypeOK'
      BY <1>1, <1>2, <1>3, <2>1 DEF PipelineTypeOK
    <2>3. (SpawnedUpTo(current))'
      BY <1>1, <1>4, <1>5, <1>7, <2>1 DEF SpawnedUpTo
    <2>4. \A q \in RunRequests : spawning'[q].action = "advance" => (SpawnedUpTo(spawning[q].step))'
      BY <1>1, <2>1 DEF OrderInv, Ordered, SpawnedUpTo
    <2>5. SpawnsInOrder'
      BY <1>1, <2>1 DEF OrderInv, Ordered, SpawnsInOrder
    <2> QED BY <1>1, <2>2, <2>3, <2>4, <2>5 DEF OrderInv, Untouched, Ordered
  <1> QED BY <1>6, <1>7

LEMMA OrderRestart ==
  ASSUME OrderInv, RestartRequests
  PROVE  OrderInv'
  <1>1. PipelineTypeOK'
    BY FreshType DEF OrderInv, PipelineTypeOK, RestartRequests
  <1>2. \A r \in RunRequests : spawning'[r].action # "advance"
    BY DEF RestartRequests, NoAwait
  <1>3. runStatus # "absent"
    BY DEF RestartRequests, OrderInv, Untouched
  <1> QED BY <1>1, <1>2, <1>3, OrderQuiet DEF RestartRequests

LEMMA OrderInit == PipelineInit => OrderInv
  <1> SUFFICES ASSUME PipelineInit PROVE OrderInv
    OBVIOUS
  <1>1. PipelineTypeOK
    BY Bounds, FreshType DEF PipelineInit, PipelineTypeOK
  <1>2. Untouched /\ Ordered
    BY DEF PipelineInit, Untouched, Ordered, SpawnsInOrder, Alone, Free, NoAwait
  <1> QED BY <1>1, <1>2 DEF OrderInv

LEMMA OrderStep == OrderInv /\ [PipelineNext]_pipelineVars => OrderInv'
  <1> SUFFICES ASSUME OrderInv, [PipelineNext]_pipelineVars PROVE OrderInv'
    OBVIOUS
  <1>1. CASE \E r \in RunRequests : StartRun(r)
    BY <1>1, OrderStart
  <1>2. CASE \E r \in RunRequests : StartEnds(r) \/ AdvanceEnds(r)
    BY <1>2, OrderEnds
  <1>3. CASE \E r \in RunRequests, outcome \in {"completed", "failed"} :
               StopRun(r, outcome) \/ CompleteRun(r, outcome)
    BY <1>3, OrderSettle
  <1>4. CASE \E r \in RunRequests, outcome \in {"completed", "failed"} : AdvanceRun(r, outcome)
    BY <1>4, OrderAdvance
  <1>5. CASE CancelRun
    BY <1>5, OrderSettle
  <1>6. CASE RestartRequests
    BY <1>6, OrderRestart
  <1>7. CASE UNCHANGED pipelineVars
    BY <1>7 DEF pipelineVars, OrderInv, PipelineTypeOK, Untouched, Ordered, SpawnsInOrder,
                SpawnedUpTo, Alone, Free
  <1> QED BY <1>1, <1>2, <1>3, <1>4, <1>5, <1>6, <1>7 DEF PipelineNext

(* The row, the requests that are under way and the counts of agents keep  *)
(* to their types (startPipeline, advanceRun, cancelRun).                  *)
THEOREM PipelineTypeCorrect == PipelineSpec => []PipelineTypeOK
  BY OrderInit, OrderStep, PTL DEF PipelineSpec, OrderInv

(* Whatever requests overlap, an agent works on a step only after the ones *)
(* before it had theirs (advanceRun takes the next step, never another).   *)
THEOREM StepsInOrder == PipelineSpec => []SpawnsInOrder
  <1>1. OrderInv => SpawnsInOrder
    BY DEF OrderInv, Ordered
  <1> QED BY OrderInit, OrderStep, <1>1, PTL DEF PipelineSpec

(* A settled run keeps its status, and no agent is started for it.         *)
THEOREM SettledRests == PipelineSpec => SettledRunRests
  <1>1. ASSUME [PipelineNext]_pipelineVars, RunSettled
        PROVE  runStatus' = runStatus /\ spawned' = spawned
    BY <1>1 DEF PipelineNext, pipelineVars, RunSettled, StartRun, StartEnds, AdvanceEnds,
                StopRun, CompleteRun, AdvanceRun, MayAdvance, CancelRun, RestartRequests
  <1>2. [PipelineNext]_pipelineVars
        => [RunSettled => runStatus' = runStatus /\ spawned' = spawned]_pipelineVars
    BY <1>1
  <1> QED BY <1>2, PTL DEF PipelineSpec, SettledRunRests

-----------------------------------------------------------------------------
(* What the row says while requests come one at a time, for a run that was *)
(* started.                                                                *)
RowSaysWhere ==
  /\ runStatus = "running" => \A i \in Steps :
       /\ i < current => snapshot[i] \in {"completed", "failed"}
       /\ i = current => snapshot[i] = "running"
       /\ i > current => snapshot[i] = "pending"
  /\ runStatus = "completed" => \A i \in Steps : snapshot[i] \in {"completed", "failed"}
  /\ runStatus = "failed" => \A i \in Steps :
       /\ i = current => StopsAt(i, snapshot[i])
       /\ i > current => snapshot[i] = "skipped"
  /\ runStatus = "cancelled" => \A i \in Steps : snapshot[i] \notin {"pending", "running"}

(* At most one request awaits, of a run in progress.                       *)
OneRequest ==
  /\ ~Alone => runStatus = "running"
  /\ \A r, q \in RunRequests : ~Free(r) /\ ~Free(q) => r = q

(* What the request that awaits is about to write.                         *)
WritesNext(r) ==
  /\ spawning[r].action = "start" => spawning[r].steps = snapshot
  /\ spawning[r].action = "advance" =>
       /\ current < LastStep /\ spawning[r].step = current + 1
       /\ \E outcome \in {"completed", "failed"} :
            spawning[r].steps = [Reported(outcome) EXCEPT ![current + 1] = "running"]

(* An agent was started once for each step, and for a later one than that  *)
(* of the row only by the request that is about to write it.               *)
StartedOnce ==
  \A i \in Steps :
    /\ spawned[i] <= 1
    /\ i > current /\ spawned[i] > 0 =>
         \E r \in RunRequests : spawning[r].action = "advance" /\ spawning[r].step = i

SerialInv ==
  serial => /\ RowSaysWhere /\ OneRequest /\ StartedOnce
            /\ \A r \in RunRequests : WritesNext(r)

LEMMA SerialStart ==
  ASSUME OrderInv, SerialInv, NEW r \in RunRequests, StartRun(r)
  PROVE  SerialInv'
  <1>1. PipelineTypeOK /\ runStatus = "absent" /\ runStatus' = "running"
        /\ UNCHANGED <<policy, current, snapshot, serial>>
    BY DEF OrderInv, StartRun
  <1>2. Alone /\ current = 1 /\ snapshot = Fresh /\ \A i \in Steps : spawned[i] = 0
    BY <1>1 DEF OrderInv, Untouched
  <1>3. \A q \in RunRequests : spawning[q] = NoAwait
    BY <1>2 DEF Alone, Free
  <1>4. RowSaysWhere'
    <2>1. \A i \in Steps : i \in Nat /\ i >= 1
      BY Bounds DEF Steps
    <2> QED BY <1>1, <1>2, <2>1 DEF RowSaysWhere, Fresh
  <1>5. CASE policy[1].template
    <2>1. Spawn(r, "start", 1, Fresh)
      BY <1>5 DEF StartRun
    <2>2. /\ spawning'[r] = [action |-> "start", step |-> 1, steps |-> Fresh]
          /\ \A q \in RunRequests \ {r} : spawning'[q] = spawning[q]
          /\ spawned'[1] = spawned[1] + 1
          /\ \A k \in Steps \ {1} : spawned'[k] = spawned[k]
      BY <1>1, <2>1, Bounds, FreshType, SpawnFacts
    <2>3. OneRequest'
      BY <1>1, <1>3, <2>2 DEF OneRequest, Free
    <2>4. StartedOnce'
      <3>1. spawned'[1] = 1 /\ \A k \in Steps \ {1} : spawned'[k] = 0
        BY <1>2, <2>2, Bounds
      <3> QED BY <1>1, <1>2, <3>1 DEF StartedOnce
    <2>5. \A q \in RunRequests : WritesNext(q)'
      BY <1>1, <1>2, <1>3, <2>2 DEF WritesNext, NoAwait
    <2> QED BY <1>4, <2>3, <2>4, <2>5 DEF SerialInv
  <1>6. CASE ~policy[1].template
    <2>1. spawning' = spawning /\ spawned' = spawned
      BY <1>6 DEF StartRun
    <2>2. OneRequest'
      BY <1>1, <1>3, <2>1 DEF OneRequest, Free
    <2>3. StartedOnce'
      BY <1>2, <2>1 DEF StartedOnce
    <2>4. \A q \in RunRequests : WritesNext(q)'
      BY <1>3, <2>1 DEF WritesNext, NoAwait
    <2> QED BY <1>4, <2>2, <2>3, <2>4 DEF SerialInv
  <1> QED BY <1>5, <1>6

LEMMA SerialEnds ==
  ASSUME OrderInv, SerialInv, NEW r \in RunRequests, StartEnds(r) \/ AdvanceEnds(r)
  PROVE  SerialInv'
  <1> SUFFICES ASSUME serial PROVE SerialInv'
    BY DEF SerialInv, StartEnds, AdvanceEnds
  <1>1. /\ PipelineTypeOK /\ RowSaysWhere /\ OneRequest /\ StartedOnce /\ WritesNext(r)
    BY DEF OrderInv, SerialInv
  <1>2. /\ spawning' = [spawning EXCEPT ![r] = NoAwait] /\ snapshot' = spawning[r].steps
        /\ policy' = policy /\ runStatus' = runStatus /\ spawned' = spawned
        /\ spawning[r].action # "none"
    BY DEF StartEnds, AdvanceEnds
  <1>3. ~Free(r) /\ runStatus = "running"
    BY <1>1, <1>2 DEF OneRequest, Alone, Free, NoAwait
  <1>4. \A q \in RunRequests : spawning'[q] = NoAwait
    BY <1>1, <1>2, <1>3 DEF OneRequest, Free, PipelineTypeOK
  <1>5. OneRequest' /\ \A q \in RunRequests : WritesNext(q)'
    BY <1>4 DEF OneRequest, Alone, Free, WritesNext, NoAwait
  <1>6. \A i \in Steps : i \in Nat
    BY StepsUpTo
  <1>7. CASE StartEnds(r)
    <2>1. snapshot' = snapshot /\ current' = current
      BY <1>1, <1>2, <1>7 DEF WritesNext, StartEnds
    <2>2. RowSaysWhere'
      BY <1>1, <1>2, <2>1 DEF RowSaysWhere, StopsAt
    <2>3. \A q \in RunRequests : spawning[q].action # "advance"
      BY <1>1, <1>3, <1>7 DEF OneRequest, Free, StartEnds, NoAwait
    <2>4. StartedOnce'
      BY <1>1, <1>2, <2>1, <2>3 DEF StartedOnce
    <2> QED BY <1>5, <2>2, <2>4 DEF SerialInv
  <1>8. CASE AdvanceEnds(r)
    <2>1. current < LastStep /\ spawning[r].step = current + 1 /\ current' = current + 1
      BY <1>1, <1>8 DEF WritesNext, AdvanceEnds
    <2>2. PICK outcome \in {"completed", "failed"} :
            snapshot' = [Reported(outcome) EXCEPT ![current + 1] = "running"]
      BY <1>1, <1>2, <1>8 DEF WritesNext, AdvanceEnds
    <2>3. RowSaysWhere'
      <3>1. /\ Reported(outcome) \in [Steps -> StepStatus] /\ Reported(outcome)[current] = outcome
            /\ \A i \in Steps \ {current} : Reported(outcome)[i] = snapshot[i]
        BY <1>1, ReportedType
      <3>2. current \in Nat /\ current + 1 \in Steps
        BY <1>1, <1>6, <2>1, AdvanceFacts DEF PipelineTypeOK
      <3>3. snapshot'[current + 1] = "running"
        BY <2>2, <3>1, <3>2
      <3>4. \A i \in Steps \ {current + 1} : snapshot'[i] = Reported(outcome)[i]
        BY <2>2, <3>1, <3>2
      <3>5. \A i \in Steps : i < current + 1 => snapshot'[i] \in {"completed", "failed"}
        BY <1>1, <1>3, <1>6, <3>1, <3>2, <3>4 DEF RowSaysWhere
      <3>6. \A i \in Steps : i > current + 1 => snapshot'[i] = "pending"
        BY <1>1, <1>3, <1>6, <3>1, <3>2, <3>4 DEF RowSaysWhere
      <3> QED BY <1>2, <1>3, <2>1, <3>3, <3>5, <3>6 DEF RowSaysWhere
    <2>4. \A q \in RunRequests : spawning[q].action = "advance" => spawning[q].step = current + 1
      BY <1>1, <1>3, <2>1 DEF OneRequest, Free, NoAwait
    <2>5. StartedOnce'
      BY <1>1, <1>2, <1>6, <2>1, <2>4 DEF StartedOnce, PipelineTypeOK
    <2> QED BY <1>5, <2>3, <2>5 DEF SerialInv
  <1> QED BY <1>7, <1>8

LEMMA SerialSettle ==
  ASSUME OrderInv, SerialInv, NEW outcome \in {"completed", "failed"},
         \/ \E r \in RunRequests : StopRun(r, outcome) \/ CompleteRun(r, outcome)
         \/ CancelRun
  PROVE  SerialInv'
  <1> SUFFICES ASSUME serial' PROVE SerialInv'
    BY DEF SerialInv
  <1>1. serial /\ Alone
    BY DEF StopRun, CompleteRun, CancelRun
  <1>2. PipelineTypeOK /\ RowSaysWhere /\ StartedOnce
    BY <1>1 DEF OrderInv, SerialInv
  <1>3. /\ runStatus = "running" /\ runStatus' \in {"failed", "completed", "cancelled"}
        /\ UNCHANGED <<policy, current, spawning, spawned>>
    BY DEF StopRun, CompleteRun, CancelRun, MayAdvance
  <1>4. \A q \in RunRequests : spawning'[q] = NoAwait
    BY <1>1, <1>3 DEF Alone, Free
  <1>5. OneRequest' /\ \A q \in RunRequests : WritesNext(q)'
    BY <1>4 DEF OneRequest, Alone, Free, WritesNext, NoAwait
  <1>6. StartedOnce'
    BY <1>2, <1>3 DEF StartedOnce
  <1>7. /\ Reported(outcome)[current] = outcome
        /\ \A i \in Steps \ {current} : Reported(outcome)[i] = snapshot[i]
    BY <1>2, ReportedType
  <1>8. LastStep \in Nat /\ current \in Steps /\ \A i \in Steps : i \in Nat /\ i <= LastStep
    BY <1>2, Bounds DEF Steps, PipelineTypeOK
  <1>9. RowSaysWhere'
    <2>1. CASE \E r \in RunRequests : StopRun(r, outcome)
      <3>1. /\ runStatus' = "failed" /\ StopsAt(current, outcome)
            /\ snapshot' = [i \in Steps |-> IF i > current THEN "skipped" ELSE Reported(outcome)[i]]
        BY <2>1 DEF StopRun
      <3>2. snapshot'[current] = outcome
        BY <1>7, <1>8, <3>1
      <3>3. \A i \in Steps : i > current => snapshot'[i] = "skipped"
        BY <3>1
      <3> QED BY <1>3, <3>1, <3>2, <3>3 DEF RowSaysWhere, StopsAt
    <2>2. CASE \E r \in RunRequests : CompleteRun(r, outcome)
      <3>1. runStatus' = "completed" /\ current = LastStep /\ snapshot' = Reported(outcome)
        BY <2>2 DEF CompleteRun
      <3>2. \A i \in Steps : snapshot'[i] \in {"completed", "failed"}
        BY <1>2, <1>3, <1>7, <1>8, <3>1 DEF RowSaysWhere
      <3> QED BY <3>1, <3>2 DEF RowSaysWhere
    <2>3. CASE CancelRun
      BY <1>2, <2>3 DEF CancelRun, RowSaysWhere
    <2> QED BY <2>1, <2>2, <2>3
  <1> QED BY <1>5, <1>6, <1>9 DEF SerialInv

LEMMA SerialAdvance ==
  ASSUME OrderInv, SerialInv, NEW r \in RunRequests, NEW outcome \in {"completed", "failed"},
         AdvanceRun(r, outcome)
  PROVE  SerialInv'
  <1> SUFFICES ASSUME serial' PROVE SerialInv'
    BY DEF SerialInv
  <1> DEFINE next == current + 1
             steps == [Reported(outcome) EXCEPT ![next] = "running"]
  <1>1. serial /\ Alone
    BY DEF AdvanceRun
  <1>2. PipelineTypeOK /\ RowSaysWhere /\ StartedOnce
    BY <1>1 DEF OrderInv, SerialInv
  <1>3. /\ runStatus = "running" /\ runStatus' = runStatus /\ policy' = policy
        /\ current < LastStep /\ current \in Steps
    BY <1>2 DEF PipelineTypeOK, AdvanceRun, MayAdvance
  <1>4. next \in Steps /\ steps \in [Steps -> StepStatus]
    BY <1>2, <1>3, AdvanceFacts
  <1>5. \A q \in RunRequests : spawning[q] = NoAwait
    BY <1>1 DEF Alone, Free
  <1>6. \A i \in Steps : i \in Nat
    BY StepsUpTo
  <1>7. \A i \in Steps : i > current => spawned[i] = 0
    BY <1>2, <1>5, <1>6 DEF StartedOnce, NoAwait, PipelineTypeOK
  <1>8. CASE policy[next].template
    <2>1. Spawn(r, "advance", next, steps) /\ current' = current /\ snapshot' = snapshot
      BY <1>8 DEF AdvanceRun
    <2>2. \E o \in {"completed", "failed"} : steps = [Reported(o) EXCEPT ![next] = "running"]
      OBVIOUS
    <2> HIDE DEF steps
    <2>4. /\ spawning'[r] = [action |-> "advance", step |-> next, steps |-> steps]
          /\ \A q \in RunRequests \ {r} : spawning'[q] = spawning[q]
          /\ spawned'[next] = spawned[next] + 1
          /\ \A k \in Steps \ {next} : spawned'[k] = spawned[k]
      BY <1>2, <1>4, <2>1, SpawnFacts
    <2>5. OneRequest'
      BY <1>3, <1>5, <2>4 DEF OneRequest, Free
    <2>6. RowSaysWhere'
      BY <1>2, <1>3, <2>1 DEF RowSaysWhere, StopsAt
    <2>7. StartedOnce'
      <3>1. spawned'[next] = 1
        BY <1>3, <1>4, <1>6, <1>7, <2>4
      <3>2. \A i \in Steps \ {next} : i > current => spawned'[i] = 0
        BY <1>7, <2>4
      <3> QED BY <1>2, <2>1, <2>4, <3>1, <3>2 DEF StartedOnce
    <2>8. \A q \in RunRequests : WritesNext(q)'
      <3>1. ASSUME NEW q \in RunRequests, q # r PROVE WritesNext(q)'
        BY <1>5, <2>4, <3>1 DEF WritesNext, NoAwait
      <3>2. WritesNext(r)'
        <4>1. PICK o \in {"completed", "failed"} : steps = [Reported(o) EXCEPT ![next] = "running"]
          BY <2>2
        <4>2. spawning'[r].steps = [Reported(o)' EXCEPT ![next] = "running"]
          BY <2>1, <2>4, <4>1 DEF Reported
        <4>3. spawning'[r].action = "advance" /\ spawning'[r].step = next
          BY <2>4
        <4> QED BY <1>3, <2>1, <4>2, <4>3 DEF WritesNext
      <3> QED BY <3>1, <3>2
    <2> QED BY <2>5, <2>6, <2>7, <2>8 DEF SerialInv
  <1>9. CASE ~policy[next].template
    <2>1. current' = next /\ snapshot' = steps /\ spawning' = spawning /\ spawned' = spawned
      BY <1>9 DEF AdvanceRun
    <2>2. OneRequest' /\ \A q \in RunRequests : WritesNext(q)'
      BY <1>5, <2>1 DEF OneRequest, Alone, Free, WritesNext, NoAwait
    <2>3. StartedOnce'
      BY <1>2, <1>3, <1>6, <1>7, <2>1 DEF StartedOnce
    <2>4. RowSaysWhere'
      <3>1. /\ Reported(outcome) \in [Steps -> StepStatus] /\ Reported(outcome)[current] = outcome
            /\ \A i \in Steps \ {current} : Reported(outcome)[i] = snapshot[i]
        BY <1>2, ReportedType
      <3>2. snapshot'[next] = "running" /\ \A i \in Steps \ {next} : snapshot'[i] = Reported(outcome)[i]
        BY <1>4, <2>1, <3>1
      <3>3. \A i \in Steps : i < next => snapshot'[i] \in {"completed", "failed"}
        BY <1>2, <1>3, <1>6, <3>1, <3>2 DEF RowSaysWhere
      <3>4. \A i \in Steps : i > next => snapshot'[i] = "pending"
        BY <1>2, <1>3, <1>6, <3>1, <3>2 DEF RowSaysWhere
      <3> QED BY <1>3, <2>1, <3>2, <3>3, <3>4 DEF RowSaysWhere
    <2> QED BY <2>2, <2>3, <2>4 DEF SerialInv
  <1> QED BY <1>8, <1>9

LEMMA SerialInit == PipelineInit => SerialInv
  <1> SUFFICES ASSUME PipelineInit PROVE SerialInv
    OBVIOUS
  <1>1. Alone /\ \A q \in RunRequests : spawning[q] = NoAwait
    BY DEF PipelineInit, Alone, Free
  <1>2. RowSaysWhere /\ StartedOnce
    BY DEF PipelineInit, RowSaysWhere, StartedOnce
  <1> QED BY <1>1, <1>2 DEF SerialInv, OneRequest, WritesNext, Free, NoAwait

LEMMA SerialStep == OrderInv /\ SerialInv /\ [PipelineNext]_pipelineVars => SerialInv'
  <1> SUFFICES ASSUME OrderInv, SerialInv, [PipelineNext]_pipelineVars PROVE SerialInv'
    OBVIOUS
  <1>1. CASE \E r \in RunRequests : StartRun(r)
    BY <1>1, SerialStart
  <1>2. CASE \E r \in RunRequests : StartEnds(r) \/ AdvanceEnds(r)
    BY <1>2, SerialEnds
  <1>3. CASE \E r \in RunRequests, outcome \in {"completed", "failed"} :
               StopRun(r, outcome) \/ CompleteRun(r, outcome)
    BY <1>3, SerialSettle
  <1>4. CASE \E r \in RunRequests, outcome \in {"completed", "failed"} : AdvanceRun(r, outcome)
    BY <1>4, SerialAdvance
  <1>5. CASE CancelRun
    BY <1>5, SerialSettle
  <1>6. CASE RestartRequests
    BY <1>6 DEF RestartRequests, SerialInv
  <1>7. CASE UNCHANGED pipelineVars
    <2> USE <1>7 DEF pipelineVars
    <2>1. RowSaysWhere' = RowSaysWhere
      BY DEF RowSaysWhere, StopsAt
    <2>2. OneRequest' = OneRequest
      BY DEF OneRequest, Alone, Free
    <2>3. StartedOnce' = StartedOnce
      BY DEF StartedOnce
    <2>4. \A r \in RunRequests : WritesNext(r)' = WritesNext(r)
      BY DEF WritesNext, Reported
    <2> QED BY <2>1, <2>2, <2>3, <2>4 DEF SerialInv
  <1> QED BY <1>1, <1>2, <1>3, <1>4, <1>5, <1>6, <1>7 DEF PipelineNext

(* While requests come one at a time, each step has one agent and the row  *)
(* tells where the run is (startPipeline, advanceRun, cancelRun).          *)
THEOREM SerialConsistent == PipelineSpec => []SerialRunIsConsistent
  <1>1. SerialInv => SerialRunIsConsistent
    BY DEF SerialInv, SerialRunIsConsistent, RowSaysWhere, StartedOnce
  <1> QED BY OrderInit, OrderStep, SerialInit, SerialStep, <1>1, PTL DEF PipelineSpec

-----------------------------------------------------------------------------
(* The rate limiter.                                                       *)

LimiterShape ==
  /\ LimiterTypeOK
  /\ entry \in [Stored -> [count : Nat, resetAt : Nat]]

(* What a client was let through only grows, and nothing is let through    *)
(* ahead of now.                                                           *)
Grows(let, now) ==
  /\ \A s, t \in 0..LastMs : s <= t => let[s] <= let[t]
  /\ \A t \in 0..LastMs : t >= now => let[t] = let[now]

(* A client without a window of its own got no more than one window allows *)
(* in the time of the last one, and nothing at this moment.                *)
MayOpen(let, now) ==
  /\ let[now] = let[now - 1]
  /\ let[now] <= let[Before(now)] + MaxRequests

(* One with a window got no more than the window counts or allows, and no  *)
(* more than one window allows in the time before it.                      *)
MayCount(let, window, now) ==
  LET start == window.resetAt - WindowMs
  IN /\ start \in 1..now
     /\ let[now] <= let[start - 1] + window.count
     /\ let[now] <= let[start - 1] + MaxRequests
     /\ let[start - 1] <= let[Before(start)] + MaxRequests

Twice(let, now) == \A t \in 1..now : let[t] <= let[Before(t)] + 2 * MaxRequests

Limited(c) ==
  /\ IF Opens(c) THEN MayOpen(admitted[c], ms) ELSE MayCount(admitted[c], entry[c], ms)
  /\ Twice(admitted[c], ms)

LimiterInv ==
  /\ LimiterShape
  /\ \A c \in Clients : Grows(admitted[c], ms)
  /\ \A c \in Clients \ evicted : Limited(c)

LEMMA LimiterBounds ==
  /\ WindowMs \in Nat \ {0} /\ MaxRequests \in Nat \ {0} /\ LastMs \in Nat \ {0}
  /\ \A t \in Moments : Before(t) \in 0..LastMs /\ Before(t) < t
  /\ \A s, t \in Moments : s <= t => Before(s) <= Before(t)
  BY LimiterAssumption DEF Moments, Before

(* One more is let through, now.                                           *)
LEMMA OneLetThrough ==
  ASSUME LimiterShape, NEW c \in Clients, LetThrough(c)
  PROVE /\ admitted' \in [Clients -> Admitted]
        /\ \A k \in Clients : k # c => admitted'[k] = admitted[k]
        /\ \A t \in 0..LastMs : admitted'[c][t] = IF t >= ms THEN admitted[c][t] + 1 ELSE admitted[c][t]
  <1> DEFINE more == [t \in 0..LastMs |-> IF t >= ms THEN admitted[c][t] + 1 ELSE admitted[c][t]]
  <1>1. admitted[c] \in Admitted
    BY DEF LimiterShape, LimiterTypeOK
  <1>2. more \in Admitted
    <2>1. ASSUME NEW t \in 0..LastMs
          PROVE (IF t >= ms THEN admitted[c][t] + 1 ELSE admitted[c][t]) \in Nat
      <3>1. admitted[c][t] \in Nat
        BY <1>1 DEF Admitted
      <3> QED BY <3>1
    <2> QED BY <2>1 DEF Admitted
  <1>3. admitted' = [admitted EXCEPT ![c] = more]
    BY DEF LetThrough
  <1>4. \A t \in 0..LastMs : more[t] = IF t >= ms THEN admitted[c][t] + 1 ELSE admitted[c][t]
    OBVIOUS
  <1> HIDE DEF more
  <1> QED BY <1>2, <1>3, <1>4 DEF LimiterShape, LimiterTypeOK

(* An entry stays, is opened, or goes.                                     *)
LEMMA WindowOpened ==
  ASSUME LimiterShape, NEW c \in Clients, OpenWindow(c)
  PROVE \E keys \in SUBSET Stored :
          /\ Stored' = keys \cup {c}
          /\ entry' \in [Stored' -> [count : Nat, resetAt : Nat]]
          /\ entry'[c] = [count |-> 1, resetAt |-> ms + WindowMs]
          /\ \A k \in keys : k # c => entry'[k] = entry[k]
          /\ evicted' = evicted \cup (Stored \ keys)
  <1>1. PICK keys \in (IF c \in Stored THEN {Stored} ELSE Keep) :
          /\ entry' = [k \in keys \cup {c} |->
               IF k = c THEN [count |-> 1, resetAt |-> ms + WindowMs] ELSE entry[k]]
          /\ evicted' = evicted \cup (Stored \ keys)
    BY DEF OpenWindow
  <1>2. keys \subseteq Stored
    BY DEF Keep, FirstToEnd
  <1>3. Stored' = keys \cup {c}
    BY <1>1 DEF Stored
  <1>4. ms + WindowMs \in Nat
    BY LimiterBounds DEF LimiterShape, LimiterTypeOK, Moments
  <1>5. entry' \in [Stored' -> [count : Nat, resetAt : Nat]]
    BY <1>1, <1>2, <1>3, <1>4 DEF LimiterShape
  <1> QED BY <1>1, <1>2, <1>3, <1>5

LEMMA LimiterStarts == LimiterInit => LimiterInv
  <1> SUFFICES ASSUME LimiterInit PROVE LimiterInv
    OBVIOUS
  <1>1. LimiterShape
    BY LimiterAssumption DEF LimiterInit, LimiterShape, LimiterTypeOK, Moments, Admitted, Stored
  <1>2. ASSUME NEW c \in Clients PROVE Grows(admitted[c], ms) /\ Limited(c)
    BY LimiterBounds DEF LimiterInit, Grows, Limited, Twice, Opens, MayOpen, Stored, Moments
  <1> QED BY <1>1, <1>2 DEF LimiterInv

LEMMA LimiterShapeStays == LimiterShape /\ [LimiterNext]_limiterVars => LimiterShape'
  <1> SUFFICES ASSUME LimiterShape, [LimiterNext]_limiterVars PROVE LimiterShape'
    OBVIOUS
  <1>1. ASSUME NEW c \in Clients, Request(c), OpenWindow(c) PROVE LimiterShape'
    <2>1. admitted' \in [Clients -> Admitted]
      BY <1>1, OneLetThrough DEF OpenWindow
    <2>2. /\ Stored' \subseteq Clients /\ evicted' \subseteq Clients
          /\ entry' \in [Stored' -> [count : Nat, resetAt : Nat]]
      BY <1>1, WindowOpened DEF LimiterShape, LimiterTypeOK
    <2>3. asked' \in [Clients -> Nat] /\ ms' = ms
      BY <1>1 DEF Request, OpenWindow, LimiterShape, LimiterTypeOK
    <2> QED BY <2>1, <2>2, <2>3 DEF LimiterShape, LimiterTypeOK
  <1>2. ASSUME NEW c \in Clients, Request(c), CountRequest(c) PROVE LimiterShape'
    <2>1. admitted' \in [Clients -> Admitted]
      BY <1>2, OneLetThrough DEF CountRequest, LimiterShape, LimiterTypeOK
    <2>2. c \in Stored
      BY <1>2 DEF CountRequest, Opens
    <2>3. entry' \in [Stored -> [count : Nat, resetAt : Nat]]
      BY <1>2, <2>2 DEF CountRequest, LimiterShape
    <2>4. Stored' = Stored
      BY <2>3 DEF Stored
    <2>5. asked' \in [Clients -> Nat] /\ UNCHANGED <<ms, evicted>>
      BY <1>2 DEF Request, CountRequest, LimiterShape, LimiterTypeOK
    <2> QED BY <2>1, <2>3, <2>4, <2>5 DEF LimiterShape, LimiterTypeOK
  <1>3. ASSUME Cleanup PROVE LimiterShape'
    <2>1. Stored' = {k \in Stored : ms <= entry[k].resetAt}
      BY <1>3 DEF Cleanup, Stored
    <2>2. entry' \in [Stored' -> [count : Nat, resetAt : Nat]]
      BY <1>3, <2>1 DEF Cleanup, LimiterShape
    <2> QED BY <1>3, <2>1, <2>2 DEF Cleanup, LimiterShape, LimiterTypeOK
  <1>4. ASSUME ClockTicks PROVE LimiterShape'
    <2>1. ms' \in Moments /\ asked' \in [Clients -> Nat]
      BY <1>4, LimiterBounds DEF ClockTicks, LimiterShape, LimiterTypeOK, Moments
    <2> QED BY <1>4, <2>1 DEF ClockTicks, LimiterShape, LimiterTypeOK, Stored
  <1>5. ASSUME UNCHANGED limiterVars PROVE LimiterShape'
    BY <1>5 DEF limiterVars, LimiterShape, LimiterTypeOK, Stored
  <1> QED BY <1>1, <1>2, <1>3, <1>4, <1>5 DEF LimiterNext, Request

(* The count of one client, as a function of the time.                     *)
OneMore(let, new, now) ==
  \A t \in 0..LastMs : new[t] = IF t >= now THEN let[t] + 1 ELSE let[t]

LEMMA OneMoreGrows ==
  ASSUME NEW let \in Admitted, NEW new, NEW now \in Moments, Grows(let, now), OneMore(let, new, now)
  PROVE Grows(new, now)
  <1>1. LastMs \in Nat /\ \A t \in 0..LastMs : let[t] \in Nat
    BY LimiterBounds DEF Admitted
  <1> QED BY <1>1 DEF Grows, OneMore, Moments

(* A window is opened: what was let through before it is no more than one  *)
(* window allows.                                                          *)
LEMMA OpenedTwice ==
  ASSUME NEW let \in Admitted, NEW new, NEW now \in Moments, Grows(let, now), OneMore(let, new, now),
         MayOpen(let, now), Twice(let, now), NEW window, window.count = 1, window.resetAt = now + WindowMs
  PROVE MayCount(new, window, now) /\ Twice(new, now)
  <1>1. now \in 1..LastMs /\ LastMs \in Nat /\ \A t \in 0..LastMs : let[t] \in Nat
    BY LimiterBounds DEF Admitted, Moments
  <1>2. Before(now) \in 0..LastMs /\ Before(now) < now
    BY LimiterBounds
  <1>3. new[now] = let[now] + 1 /\ new[now - 1] = let[now - 1] /\ new[Before(now)] = let[Before(now)]
    BY <1>1, <1>2 DEF OneMore
  <1>4. window.resetAt - WindowMs = now
    BY <1>1, LimiterBounds
  <1>5. MayCount(new, window, now)
    BY <1>1, <1>2, <1>3, <1>4, LimiterBounds DEF MayOpen, MayCount
  <1>6. ASSUME NEW t \in 1..now PROVE new[t] <= new[Before(t)] + 2 * MaxRequests
    <2>1. CASE t = now
      BY <1>1, <1>2, <1>3, <2>1, LimiterBounds DEF MayOpen
    <2>2. CASE t < now
      <3>1. t \in Moments /\ Before(t) \in 0..LastMs /\ Before(t) < t
        BY <1>1, <2>2, LimiterBounds DEF Moments
      <3>2. new[t] = let[t] /\ new[Before(t)] = let[Before(t)]
        BY <1>1, <2>2, <3>1 DEF OneMore
      <3> QED BY <3>2 DEF Twice
    <2> QED BY <1>1, <2>1, <2>2
  <1> QED BY <1>5, <1>6 DEF Twice

(* A request is counted and let through: two windows, and the time of one  *)
(* before now begins no earlier than that before the later of them.        *)
LEMMA CountedTwice ==
  ASSUME NEW let \in Admitted, NEW new, NEW now \in Moments, Grows(let, now), OneMore(let, new, now),
         NEW window, window.count \in Nat, window.resetAt \in Nat, Allows(window.count + 1),
         MayCount(let, window, now), Twice(let, now),
         NEW next, next.count = window.count + 1, next.resetAt = window.resetAt
  PROVE MayCount(new, next, now) /\ Twice(new, now)
  <1> DEFINE start == window.resetAt - WindowMs
  <1>1. now \in 1..LastMs /\ LastMs \in Nat /\ \A t \in 0..LastMs : let[t] \in Nat
    BY LimiterBounds DEF Admitted, Moments
  <1>2. /\ start \in 1..now
        /\ let[now] <= let[start - 1] + window.count
        /\ let[now] <= let[start - 1] + MaxRequests
        /\ let[start - 1] <= let[Before(start)] + MaxRequests
    BY DEF MayCount
  <1>3. next.resetAt - WindowMs = start
    OBVIOUS
  <1> HIDE DEF start
  <1>4. start \in Moments /\ Before(start) \in 0..LastMs /\ Before(start) < start
    BY <1>1, <1>2, LimiterBounds DEF Moments
  <1>5. Before(now) \in 0..LastMs /\ Before(now) < now /\ Before(start) <= Before(now)
    BY <1>1, <1>2, <1>4, LimiterBounds
  <1>6. /\ new[now] = let[now] + 1 /\ new[start - 1] = let[start - 1]
        /\ new[Before(start)] = let[Before(start)] /\ new[Before(now)] = let[Before(now)]
    BY <1>1, <1>2, <1>4, <1>5 DEF OneMore
  <1>7. let[now] + 1 <= let[start - 1] + MaxRequests
    BY <1>1, <1>2, LimiterBounds DEF Allows
  <1>8. MayCount(new, next, now)
    BY <1>1, <1>2, <1>3, <1>6, <1>7 DEF MayCount
  <1>9. ASSUME NEW t \in 1..now PROVE new[t] <= new[Before(t)] + 2 * MaxRequests
    <2>1. CASE t = now
      <3>1. let[Before(start)] <= let[Before(now)]
        BY <1>4, <1>5 DEF Grows
      <3> QED BY <1>1, <1>2, <1>4, <1>5, <1>6, <1>7, <2>1, <3>1, LimiterBounds
    <2>2. CASE t < now
      <3>1. t \in Moments /\ Before(t) \in 0..LastMs /\ Before(t) < t
        BY <1>1, <2>2, LimiterBounds DEF Moments
      <3>2. new[t] = let[t] /\ new[Before(t)] = let[Before(t)]
        BY <1>1, <2>2, <3>1 DEF OneMore
      <3> QED BY <3>2 DEF Twice
    <2> QED BY <1>1, <2>1, <2>2
  <1> QED BY <1>8, <1>9 DEF Twice

(* The clock ticks: a window that ends leaves a client no more than one    *)
(* window's requests.                                                      *)
LEMMA TickedTwice ==
  ASSUME NEW let \in Admitted, NEW now \in Moments, now + 1 \in Moments, Grows(let, now),
         NEW window, Twice(let, now)
  PROVE /\ MayOpen(let, now) => MayOpen(let, now + 1) /\ Twice(let, now + 1)
        /\ window.resetAt \in Nat /\ window.count \in Nat /\ window.resetAt >= now /\ MayCount(let, window, now)
           => /\ IF now + 1 > window.resetAt THEN MayOpen(let, now + 1) ELSE MayCount(let, window, now + 1)
              /\ Twice(let, now + 1)
  <1>1. now \in 1..LastMs /\ now + 1 \in 1..LastMs /\ LastMs \in Nat /\ \A t \in 0..LastMs : let[t] \in Nat
    BY LimiterBounds DEF Admitted, Moments
  <1>2. let[now + 1] = let[now]
    BY <1>1 DEF Grows
  <1>3. /\ Before(now) \in 0..LastMs /\ Before(now + 1) \in 0..LastMs /\ Before(now) <= Before(now + 1)
    BY <1>1, LimiterBounds
  <1>4. let[Before(now)] <= let[Before(now + 1)]
    BY <1>3 DEF Grows
  <1>5. ASSUME let[now + 1] <= let[Before(now + 1)] + 2 * MaxRequests PROVE Twice(let, now + 1)
    BY <1>1, <1>5 DEF Twice
  <1>6. ASSUME MayOpen(let, now) PROVE MayOpen(let, now + 1) /\ Twice(let, now + 1)
    <2>1. let[now + 1] <= let[Before(now + 1)] + MaxRequests
      BY <1>1, <1>2, <1>3, <1>4, <1>6, LimiterBounds DEF MayOpen
    <2>2. (now + 1) - 1 = now
      BY <1>1
    <2>3. let[now + 1] <= let[Before(now + 1)] + 2 * MaxRequests
      BY <1>1, <1>3, <2>1, LimiterBounds
    <2> QED BY <1>2, <1>5, <2>1, <2>2, <2>3 DEF MayOpen
  <1>7. ASSUME window.resetAt \in Nat, window.count \in Nat, window.resetAt >= now, MayCount(let, window, now)
        PROVE /\ IF now + 1 > window.resetAt THEN MayOpen(let, now + 1) ELSE MayCount(let, window, now + 1)
              /\ Twice(let, now + 1)
    <2> DEFINE start == window.resetAt - WindowMs
    <2>1. /\ start \in 1..now
          /\ let[now] <= let[start - 1] + window.count
          /\ let[now] <= let[start - 1] + MaxRequests
          /\ let[start - 1] <= let[Before(start)] + MaxRequests
      BY <1>7 DEF MayCount
    <2>2. start \in Moments /\ Before(start) \in 0..LastMs /\ Before(start) <= Before(now + 1)
      BY <1>1, <2>1, LimiterBounds DEF Moments
    <2>3. let[Before(start)] <= let[Before(now + 1)]
      BY <1>3, <2>2 DEF Grows
    <2>4. let[now + 1] <= let[Before(now + 1)] + 2 * MaxRequests
      BY <1>1, <1>2, <1>3, <2>1, <2>2, <2>3, LimiterBounds
    <2>5. CASE now + 1 > window.resetAt
      <3>1. window.resetAt = now /\ start = now - WindowMs
        BY <1>1, <1>7, <2>5
      <3>2. Before(now + 1) = start /\ start - 1 \in 0..LastMs /\ start \in 0..LastMs
        BY <1>1, <2>1, <3>1, LimiterBounds DEF Before
      <3>3. let[start - 1] <= let[start]
        BY <2>1, <3>2 DEF Grows
      <3>4. let[now + 1] <= let[Before(now + 1)] + MaxRequests
        BY <1>1, <1>2, <2>1, <3>2, <3>3, LimiterBounds
      <3>5. (now + 1) - 1 = now
        BY <1>1
      <3> QED BY <1>2, <1>5, <2>4, <2>5, <3>4, <3>5 DEF MayOpen
    <2>6. CASE ~(now + 1 > window.resetAt)
      <3>1. start \in 1..(now + 1)
        BY <1>1, <2>1
      <3> QED BY <1>2, <1>5, <2>1, <2>4, <2>6, <3>1 DEF MayCount
    <2> QED BY <2>5, <2>6
  <1> QED BY <1>6, <1>7

-----------------------------------------------------------------------------
LEMMA GrowsStays ==
  ASSUME LimiterShape, NEW c \in Clients, Grows(admitted[c], ms), [LimiterNext]_limiterVars
  PROVE Grows(admitted'[c], ms')
  <1>1. admitted[c] \in Admitted /\ ms \in Moments
    BY DEF LimiterShape, LimiterTypeOK
  <1>2. ASSUME NEW k \in Clients, LetThrough(k), UNCHANGED ms PROVE Grows(admitted'[c], ms')
    <2>1. CASE k = c
      BY <1>1, <1>2, <2>1, OneLetThrough, OneMoreGrows DEF OneMore
    <2>2. CASE k # c
      BY <1>2, <2>2, OneLetThrough
    <2> QED BY <2>1, <2>2
  <1>3. ASSUME UNCHANGED <<admitted, ms>> PROVE Grows(admitted'[c], ms')
    BY <1>3
  <1>4. ASSUME ClockTicks PROVE Grows(admitted'[c], ms')
    <2>1. ms \in 1..LastMs /\ LastMs \in Nat /\ ms' = ms + 1 /\ ms < LastMs /\ admitted' = admitted
      BY <1>1, <1>4, LimiterBounds DEF ClockTicks, Moments
    <2> QED BY <2>1 DEF Grows
  <1> QED BY <1>2, <1>3, <1>4
       DEF LimiterNext, limiterVars, Request, OpenWindow, CountRequest, Cleanup

(* What a client that keeps its counts and its window keeps.               *)
LEMMA LimitStays ==
  ASSUME NEW c, Limited(c), Opens(c)' <=> Opens(c), ~Opens(c) => entry'[c] = entry[c],
         admitted'[c] = admitted[c], ms' = ms
  PROVE Limited(c)'
  BY DEF Limited

LEMMA RequestLimited ==
  ASSUME LimiterInv, NEW c \in Clients \ evicted, Request(c)
  PROVE Limited(c)'
  <1>1. /\ LimiterShape /\ Limited(c) /\ ms \in Moments /\ admitted[c] \in Admitted
        /\ Grows(admitted[c], ms) /\ Twice(admitted[c], ms)
    BY DEF LimiterInv, LimiterShape, LimiterTypeOK, Limited
  <1>2. CASE OpenWindow(c)
    <2>1. ms' = ms /\ c \in Stored' /\ entry'[c] = [count |-> 1, resetAt |-> ms + WindowMs]
      BY <1>1, <1>2, WindowOpened DEF OpenWindow
    <2>2. OneMore(admitted[c], admitted'[c], ms) /\ MayOpen(admitted[c], ms)
      BY <1>1, <1>2, OneLetThrough DEF OpenWindow, OneMore, Limited
    <2>3. MayCount(admitted'[c], entry'[c], ms) /\ Twice(admitted'[c], ms)
      BY <1>1, <2>1, <2>2, OpenedTwice
    <2>4. ~(ms > ms + WindowMs)
      BY <1>1, LimiterBounds DEF Moments
    <2>5. ~Opens(c)'
      BY <2>1, <2>4 DEF Opens
    <2> QED BY <2>1, <2>3, <2>5 DEF Limited
  <1>3. CASE CountRequest(c)
    <2>1. c \in Stored /\ ~Opens(c) /\ MayCount(admitted[c], entry[c], ms) /\ ms' = ms
      BY <1>1, <1>3 DEF CountRequest, Opens, Limited
    <2>2. entry[c] \in [count : Nat, resetAt : Nat]
      BY <1>1, <2>1 DEF LimiterShape
    <2>3. /\ Stored' = Stored
          /\ entry'[c].count = entry[c].count + 1 /\ entry'[c].resetAt = entry[c].resetAt
      BY <1>1, <1>3, <2>1, <2>2 DEF CountRequest, LimiterShape, Stored
    <2>4. ~Opens(c)'
      BY <2>1, <2>3 DEF Opens
    <2>5. CASE Allows(entry[c].count + 1)
      <3>1. OneMore(admitted[c], admitted'[c], ms)
        BY <1>1, <1>3, <2>5, OneLetThrough DEF CountRequest, OneMore
      <3>2. MayCount(admitted'[c], entry'[c], ms) /\ Twice(admitted'[c], ms)
        BY <1>1, <2>1, <2>2, <2>3, <2>5, <3>1, CountedTwice
      <3> QED BY <2>1, <2>4, <3>2 DEF Limited
    <2>6. CASE ~Allows(entry[c].count + 1)
      <3>1. admitted'[c] = admitted[c]
        BY <1>3, <2>6 DEF CountRequest
      <3>2. ms \in 1..LastMs /\ \A t \in 0..LastMs : admitted[c][t] \in Nat
        BY <1>1 DEF Admitted, Moments
      <3>3. MayCount(admitted[c], entry'[c], ms)
        <4> DEFINE start == entry[c].resetAt - WindowMs
        <4>1. start \in 1..ms /\ admitted[c][ms] <= admitted[c][start - 1] + entry[c].count
          BY <2>1 DEF MayCount
        <4>2. admitted[c][start - 1] \in Nat /\ admitted[c][ms] \in Nat
          BY <3>2, <4>1, LimiterBounds
        <4> HIDE DEF start
        <4>3. admitted[c][ms] <= admitted[c][start - 1] + (entry[c].count + 1)
          BY <2>2, <4>1, <4>2
        <4> QED BY <2>1, <2>3, <4>1, <4>3 DEF MayCount, start
      <3> QED BY <1>1, <2>1, <2>4, <3>1, <3>3 DEF Limited
    <2> QED BY <2>5, <2>6
  <1> QED BY <1>2, <1>3 DEF Request

(* The request of another client changes nothing of this one's, unless it  *)
(* evicts it.                                                              *)
LEMMA OthersLimited ==
  ASSUME LimiterInv, NEW k \in Clients, Request(k), NEW c \in Clients \ evicted', c # k
  PROVE Limited(c)'
  <1>1. LimiterShape
    BY DEF LimiterInv
  <1>2. CASE OpenWindow(k)
    <2>1. PICK keys \in SUBSET Stored :
            /\ Stored' = keys \cup {k}
            /\ \A j \in keys : j # k => entry'[j] = entry[j]
            /\ evicted' = evicted \cup (Stored \ keys)
      BY <1>1, <1>2, WindowOpened
    <2>2. Limited(c)
      BY <2>1 DEF LimiterInv
    <2>3. admitted'[c] = admitted[c] /\ ms' = ms
      BY <1>1, <1>2, OneLetThrough DEF OpenWindow
    <2>4. /\ c \in Stored' <=> c \in Stored
          /\ c \in Stored => entry'[c] = entry[c]
      BY <2>1
    <2>5. Opens(c)' <=> Opens(c)
      BY <2>3, <2>4 DEF Opens
    <2> QED BY <2>2, <2>3, <2>4, <2>5, LimitStays DEF Opens
  <1>3. CASE CountRequest(k)
    <2>1. Limited(c)
      BY <1>3 DEF LimiterInv, CountRequest
    <2>2. admitted'[c] = admitted[c] /\ ms' = ms
      BY <1>1, <1>3, OneLetThrough DEF CountRequest
    <2>3. Stored' = Stored /\ \A j \in Stored : j # k => entry'[j] = entry[j]
      BY <1>1, <1>3 DEF CountRequest, LimiterShape, Stored
    <2>4. Opens(c)' <=> Opens(c)
      BY <2>2, <2>3 DEF Opens
    <2> QED BY <2>1, <2>2, <2>3, <2>4, LimitStays DEF Opens
  <1> QED BY <1>2, <1>3 DEF Request

LEMMA LimiterStays == LimiterInv /\ [LimiterNext]_limiterVars => LimiterInv'
  <1> SUFFICES ASSUME LimiterInv, [LimiterNext]_limiterVars PROVE LimiterInv'
    OBVIOUS
  <1>1. LimiterShape'
    BY LimiterShapeStays DEF LimiterInv
  <1>2. \A c \in Clients : Grows(admitted[c], ms)'
    BY GrowsStays DEF LimiterInv
  <1>3. ASSUME NEW c \in Clients \ evicted' PROVE Limited(c)'
    <2>1. ASSUME NEW k \in Clients, Request(k) PROVE Limited(c)'
      <3>1. c \notin evicted
        BY <1>3, <2>1, WindowOpened DEF LimiterInv, Request, CountRequest
      <3> QED BY <1>3, <2>1, <3>1, RequestLimited, OthersLimited
    <2>2. ASSUME Cleanup PROVE Limited(c)'
      <3>1. Limited(c) /\ LimiterShape
        BY <1>3, <2>2 DEF LimiterInv, Cleanup
      <3>2. Stored' = {k \in Stored : ms <= entry[k].resetAt} /\ \A k \in Stored' : entry'[k] = entry[k]
        BY <2>2 DEF Cleanup, Stored
      <3>3. c \in Stored => entry[c].resetAt \in Nat /\ ms \in Nat
        BY <3>1 DEF LimiterShape, LimiterTypeOK, Moments
      <3>4. (Opens(c)' <=> Opens(c)) /\ (~Opens(c) => entry'[c] = entry[c])
        BY <2>2, <3>2, <3>3 DEF Cleanup, Opens
      <3> QED BY <2>2, <3>1, <3>4, LimitStays DEF Cleanup
    <2>3. ASSUME ClockTicks PROVE Limited(c)'
      <3>1. /\ Limited(c) /\ LimiterShape /\ Grows(admitted[c], ms)
            /\ admitted[c] \in Admitted /\ ms \in Moments /\ Twice(admitted[c], ms)
        BY <1>3, <2>3 DEF LimiterInv, ClockTicks, LimiterShape, LimiterTypeOK, Limited
      <3>2. ms' = ms + 1 /\ ms + 1 \in Moments /\ admitted' = admitted /\ entry' = entry /\ Stored' = Stored
        BY <2>3, <3>1, LimiterBounds DEF ClockTicks, Moments, Stored
      <3>3. CASE Opens(c)
        <4>1. MayOpen(admitted[c], ms + 1) /\ Twice(admitted[c], ms + 1)
          BY <3>1, <3>2, <3>3, TickedTwice DEF Limited
        <4>2. Opens(c)'
          BY <3>1, <3>2, <3>3 DEF Opens, LimiterShape, LimiterTypeOK, Moments
        <4> QED BY <3>2, <4>1, <4>2 DEF Limited
      <3>4. CASE ~Opens(c)
        <4>1. /\ c \in Stored /\ entry[c].resetAt \in Nat /\ entry[c].count \in Nat
              /\ entry[c].resetAt >= ms /\ MayCount(admitted[c], entry[c], ms)
          BY <3>1, <3>4 DEF Opens, Limited, LimiterShape, LimiterTypeOK, Moments
        <4>2. /\ IF ms + 1 > entry[c].resetAt THEN MayOpen(admitted[c], ms + 1)
                 ELSE MayCount(admitted[c], entry[c], ms + 1)
              /\ Twice(admitted[c], ms + 1)
          BY <3>1, <3>2, <4>1, TickedTwice
        <4>3. Opens(c)' <=> ms + 1 > entry[c].resetAt
          BY <3>2, <4>1 DEF Opens
        <4> QED BY <3>2, <4>2, <4>3 DEF Limited
      <3> QED BY <3>3, <3>4
    <2>4. ASSUME UNCHANGED limiterVars PROVE Limited(c)'
      <3>1. Limited(c) /\ (Opens(c)' <=> Opens(c))
        BY <1>3, <2>4 DEF limiterVars, LimiterInv, Opens, Stored
      <3> QED BY <2>4, <3>1, LimitStays DEF limiterVars
    <2> QED BY <2>1, <2>2, <2>3, <2>4 DEF LimiterNext
  <1> QED BY <1>1, <1>2, <1>3 DEF LimiterInv

LEMMA LimiterInductive == LimiterSpec => []LimiterInv
  BY LimiterStarts, LimiterStays, PTL DEF LimiterSpec

(* Every window counts from one and ends within the clock's numbers, and   *)
(* the history of a client is a count for every moment.                    *)
THEOREM LimiterTypeCorrect == LimiterSpec => []LimiterTypeOK
  <1>1. LimiterInv => LimiterTypeOK
    BY DEF LimiterInv, LimiterShape
  <1> QED BY <1>1, LimiterInductive, PTL

(* checkRateLimit and evictOldest: whatever the number of requests and of  *)
(* clients, one whose entry is never evicted is let through at most twice  *)
(* its requests in the time of one window.                                 *)
THEOREM TwiceAnyTime == LimiterSpec => []TwiceAtMost
  <1>1. LimiterInv => TwiceAtMost
    BY DEF LimiterInv, LimiterShape, LimiterTypeOK, Moments, Limited, Twice, TwiceAtMost
  <1> QED BY <1>1, LimiterInductive, PTL

-----------------------------------------------------------------------------
(* The allow lists.                                                        *)

(* While saves come one after the other: what an editor with a hash writes *)
(* stems from every save that is kept, and the file is empty only under    *)
(* the hands of the editor that is about to write it.                      *)
Apart ==
  /\ \A d, e \in Editors : save[d].phase # "idle" /\ save[e].phase # "idle" => d = e
  /\ \A e \in Editors :
       save[e].phase \in {"compared", "emptied"} /\ save[e].hashed => kept \subseteq save[e].saves
  /\ file.text = "empty" => \E e \in Editors : save[e].phase = "emptied"
  /\ kept \subseteq file.saves

(* A save under way has a number of its own, and of a file that is not     *)
(* there nothing is kept.                                                  *)
AllowInv ==
  /\ AllowTypeOK
  /\ file.text = "missing" => file.saves = {}
  /\ \A e \in Editors : save[e].phase # "idle" => save[e].id \in Saves
  /\ apart => Apart

LEMMA NoSaveOK == NoSave \in Saving /\ NoSave.phase = "idle"
  BY AllowListAssumption DEF NoSave, Saving

LEMMA AllowInitial == AllowInit => AllowInv
  <1> SUFFICES ASSUME AllowInit PROVE AllowInv
    OBVIOUS
  <1>1. AllowTypeOK
    <2>1. file \in [text : {"whole", "empty", "missing"}, lists : Lists \cup {NoFile},
                    saves : SUBSET Saves]
      BY DEF AllowInit, NoListFile
    <2>2. editor \in [Editors -> Version]
      BY <2>1 DEF AllowInit, Version
    <2>3. save \in [Editors -> Saving]
      BY NoSaveOK DEF AllowInit
    <2>4. saves \in 0..MaxSaves
      BY AllowListAssumption DEF AllowInit
    <2> QED BY <2>1, <2>2, <2>3, <2>4 DEF AllowInit, AllowTypeOK
  <1>2. \A e \in Editors : save[e] = NoSave
    BY DEF AllowInit
  <1>3. file.text # "empty" /\ file.saves = {}
    BY DEF AllowInit, NoListFile
  <1> QED BY <1>1, <1>2, <1>3, NoSaveOK DEF AllowInit, AllowInv, Apart

LEMMA AllowStep ==
  ASSUME AllowInv, [AllowNext]_allowVars
  PROVE  AllowInv'
  <1> USE DEF AllowInv, AllowTypeOK
  <1>0. MaxSaves \in Nat
    BY AllowListAssumption
  <1>1. CASE UNCHANGED allowVars
    BY <1>1 DEF allowVars, Apart
  <1>2. ASSUME NEW e \in Editors, LoadLists(e) PROVE AllowInv'
    BY <1>2 DEF LoadLists, Apart, Version
  <1>3. ASSUME NEW e \in Editors, NEW lists \in Lists, NEW hashed \in BOOLEAN,
               AskSave(e, lists, hashed)
        PROVE  AllowInv'
    <2>1. /\ saves' = saves + 1 /\ saves' \in Saves
          /\ save'[e] = [phase |-> "asked", id |-> saves + 1, hashed |-> hashed, lists |-> lists,
                       saves |-> {}]
          /\ \A d \in Editors \ {e} : save'[d] = save[d]
      BY <1>0, <1>3 DEF AskSave, Saves
    <2>2. AllowTypeOK'
      BY <1>0, <1>3, <2>1 DEF AskSave, Saving, Saves
    <2>3. apart' => Apart'
      BY <1>3, <2>1 DEF AskSave, Apart, NoneSaving
    <2> QED BY <1>3, <2>1, <2>2, <2>3 DEF AskSave
  <1>4. ASSUME NEW e \in Editors, Compare(e) PROVE AllowInv'
    <2> DEFINE stem == IF file.lists = editor[e].lists THEN file.saves ELSE editor[e].saves
               compared == [save[e] EXCEPT !.phase = "compared", !.saves = stem]
    <2>1. /\ UNCHANGED <<file, editor, saves, kept, apart>>
          /\ \A d \in Editors \ {e} : save'[d] = save[d]
          /\ save'[e] = IF Agrees(e) THEN compared ELSE NoSave
          /\ save[e].phase = "asked" /\ save[e] \in Saving
      BY <1>4 DEF Compare
    <2>2. compared \in Saving /\ compared.id = save[e].id /\ compared.saves = stem
          /\ compared.hashed = save[e].hashed /\ compared.phase = "compared"
      <3>1. stem \in SUBSET Saves
        BY DEF Version
      <3> HIDE DEF stem
      <3> QED BY <2>1, <3>1 DEF Saving
    <2>3. apart /\ Agrees(e) /\ save[e].hashed => kept \subseteq stem
      BY DEF Agrees, Apart
    <2> HIDE DEF stem, compared
    <2>4. save'[e] \in Saving /\ (save'[e].phase # "idle" => save'[e].id = save[e].id)
      BY <2>1, <2>2, NoSaveOK
    <2>5. save' \in [Editors -> Saving]
      BY <1>4, <2>4 DEF Compare
    <2>6. apart /\ save'[e].phase \in {"compared", "emptied"} /\ save'[e].hashed
            => kept \subseteq save'[e].saves
      BY <2>1, <2>2, <2>3, NoSaveOK
    <2>7. apart => Apart'
      BY <2>1, <2>6 DEF Apart
    <2> QED BY <2>1, <2>4, <2>5, <2>7
  <1>5. ASSUME NEW e \in Editors, EmptyFile(e) PROVE AllowInv'
    <2>1. /\ save'[e] = [save[e] EXCEPT !.phase = "emptied"]
          /\ \A d \in Editors \ {e} : save'[d] = save[d]
          /\ file' = [file EXCEPT !.text = "empty"]
          /\ save[e] \in Saving /\ save[e].phase = "compared"
      BY <1>5 DEF EmptyFile
    <2>2. save'[e].phase = "emptied" /\ save'[e].id = save[e].id /\ save'[e].saves = save[e].saves
          /\ save'[e].hashed = save[e].hashed /\ save'[e] \in Saving
      BY <2>1 DEF Saving
    <2> QED BY <1>5, <2>1, <2>2 DEF EmptyFile, Apart
  <1>6. ASSUME NEW e \in Editors, WriteLists(e) PROVE AllowInv'
    <2>1. /\ save[e] \in Saving /\ save[e].phase = "emptied" /\ save[e].id \in Saves
          /\ save'[e] = NoSave /\ \A d \in Editors \ {e} : save'[d] = save[d]
          /\ file' = [text |-> "whole", lists |-> save[e].lists,
                      saves |-> save[e].saves \cup {save[e].id}]
          /\ kept' = (IF save[e].hashed THEN kept ELSE kept \cap (save[e].saves \cup {save[e].id}))
                       \cup {save[e].id}
      BY <1>6 DEF WriteLists
    <2>2. AllowTypeOK'
      BY <1>6, <2>1, NoSaveOK DEF WriteLists, Saving, Version
    <2>3. apart' => Apart'
      BY <1>6, <2>1, NoSaveOK DEF WriteLists, Apart
    <2> QED BY <1>6, <2>1, <2>2, <2>3, NoSaveOK DEF WriteLists
  <1>7. ASSUME NEW lists \in Lists, OpenClawSaves(lists) PROVE AllowInv'
    <2>1. saves' = saves + 1 /\ saves' \in Saves /\ saves' \in 0..MaxSaves
      BY <1>0, <1>7 DEF OpenClawSaves, Saves
    <2> QED BY <1>7, <2>1 DEF OpenClawSaves, Apart, NoneSaving
  <1>9. CASE FileRemoved
    <2>1. saves' = saves + 1 /\ saves' \in 0..MaxSaves /\ file' = NoListFile /\ kept' = {}
      BY <1>0, <1>9 DEF FileRemoved
    <2>2. file' \in [text : {"whole", "empty", "missing"}, lists : Lists \cup {NoFile},
                     saves : SUBSET Saves]
          /\ file'.text # "empty" /\ file'.saves = {}
      BY <2>1 DEF NoListFile
    <2> QED BY <1>9, <2>1, <2>2 DEF FileRemoved, Apart, NoneSaving
  <1>8. CASE RestartSaves
    <2>1. \A e \in Editors : save'[e] = NoSave
      BY <1>8 DEF RestartSaves
    <2> QED BY <1>8, <2>1, NoSaveOK DEF RestartSaves
  <1> QED BY <1>1, <1>2, <1>3, <1>4, <1>5, <1>6, <1>7, <1>8, <1>9 DEF AllowNext

LEMMA AllowInductive == AllowSpec => []AllowInv
  BY AllowInitial, AllowStep, PTL DEF AllowSpec

(* The file, the editors and the saves under way stay well formed.         *)
THEOREM AllowTypeCorrect == AllowSpec => []AllowTypeOK
  BY AllowInductive, PTL DEF AllowInv

(* No save that was answered with ok is undone by an editor that sends the *)
(* hash of lists without it, and none leaves an empty file, while saves do *)
(* not overlap.                                                            *)
THEOREM KeptSaves == AllowSpec => []SavesAreKept
  <1>1. AllowInv => SavesAreKept
    BY DEF AllowInv, Apart, SavesAreKept, NoneSaving
  <1> QED BY <1>1, AllowInductive, PTL

-----------------------------------------------------------------------------
(* The delivery of notifications.                                          *)

(* Rows, batches and the history of a delivery stay well formed: a call    *)
(* sends none but notifications, and takes each from its batch at most     *)
(* once.                                                                   *)
LEMMA NotificationTypeStep ==
  NotificationTypeOK /\ [NotificationNext]_notificationVars => NotificationTypeOK'
  <1> SUFFICES ASSUME NotificationTypeOK, [NotificationNext]_notificationVars PROVE NotificationTypeOK'
    OBVIOUS
  <1> USE DEF NotificationTypeOK
  <1>0. MaxFaults \in Nat
    BY NotificationAssumption
  <1>1. ASSUME NEW n \in Notes, DeleteNotification(n) PROVE NotificationTypeOK'
    BY <1>1 DEF DeleteNotification
  <1>2. ASSUME NEW n \in Notes, NEW a \in Recipients, CreateNotification(n, a) PROVE NotificationTypeOK'
    BY <1>2 DEF CreateNotification
  <1>3. ASSUME NEW d \in Deliveries, NEW n \in Notes, Sent(d, n) PROVE NotificationTypeOK'
    BY <1>3 DEF Sent, Reached, MarkDelivered, NextInBatch
  <1>4. ASSUME NEW d \in Deliveries, NEW n \in Notes, NotSent(d, n) PROVE NotificationTypeOK'
    BY <1>4 DEF NotSent, NextInBatch
  <1>5. ASSUME NEW d \in Deliveries, NEW n \in Notes, SentUnnoticed(d, n) PROVE NotificationTypeOK'
    BY <1>0, <1>5 DEF SentUnnoticed, Reached, NextInBatch
  <1>6. ASSUME NEW d \in Deliveries, NEW agents, StartDelivery(d, agents) PROVE NotificationTypeOK'
    BY <1>6 DEF StartDelivery, OldestNotes, Of, Undelivered
  <1>7. ASSUME NEW agent \in Recipients, MarkOwn(agent) PROVE NotificationTypeOK'
    BY <1>7 DEF MarkOwn, Of, Undelivered
  <1>8. ASSUME RestartDeliveries PROVE NotificationTypeOK'
    BY <1>0, <1>8 DEF RestartDeliveries
  <1>9. ASSUME UNCHANGED notificationVars PROVE NotificationTypeOK'
    BY <1>9 DEF notificationVars
  <1> QED BY <1>1, <1>2, <1>3, <1>4, <1>5, <1>6, <1>7, <1>8, <1>9 DEF NotificationNext, DeliveryStep

(* The rows of the notifications, the batches of the calls and the history *)
(* stay well formed (createNotification, the route's POST, DELETE).        *)
THEOREM NotificationTypeCorrect == NotificationSpec => []NotificationTypeOK
  <1>1. NotificationInit => NotificationTypeOK
    <2>1. (CHOOSE a \in Recipients : TRUE) \in Recipients
      BY NotificationAssumption
    <2> QED BY <2>1, NotificationAssumption DEF NotificationInit, NotificationTypeOK
  <1> QED BY <1>1, NotificationTypeStep, PTL DEF NotificationSpec

-----------------------------------------------------------------------------
(* Terminals.                                                              *)

(* What the socket, the process and the timer of one connection may be at  *)
(* the same time.                                                          *)
Consistent(c) ==
  /\ socket[c] = "none" => pty[c] = "none"
  /\ pty[c] \in {"none", "starting"} => c \notin pool \cup clients \cup idleTimer
  /\ pty[c] = "starting" /\ socket[c] = "closed" => c \in early
  /\ pty[c] \in {"live", "ended"} => c \in pool
  /\ pty[c] = "live" /\ c \notin clients => c \in idleTimer
  /\ c \in clients /\ c \notin early => socket[c] \in {"open", "closing"}
  /\ c \notin clients /\ pty[c] \in {"live", "ended"} => socket[c] # "open"
  /\ pty[c] = "disposed" => c \notin clients \cup pool /\ socket[c] # "open"
  /\ c \in clients => c \in pool
  /\ c \in pool => pty[c] \in {"live", "ended"}

TerminalInv == TerminalTypeOK /\ \A c \in Connections : Consistent(c)

LEMMA PtyInductive == TerminalSpec => []TerminalInv
  <1>1. TerminalInit => TerminalInv
    BY DEF TerminalInit, TerminalInv, TerminalTypeOK, Consistent
  <1>2. TerminalInv /\ [TerminalNext]_terminalVars => TerminalInv'
    <2> SUFFICES ASSUME TerminalInv, [TerminalNext]_terminalVars PROVE TerminalInv'
      OBVIOUS
    <2>1. ASSUME UNCHANGED terminalVars PROVE TerminalInv'
      BY <2>1 DEF terminalVars, TerminalInv, TerminalTypeOK, Consistent
    <2>2. ASSUME NEW c \in Connections, OpenTerminal(c) PROVE TerminalInv'
      BY <2>2 DEF TerminalInv, TerminalTypeOK, Consistent, OpenTerminal
    <2>3. ASSUME NEW c \in Connections, StartFails(c) PROVE TerminalInv'
      BY <2>3 DEF TerminalInv, TerminalTypeOK, Consistent, StartFails, Closing
    <2>4. ASSUME NEW c \in Connections, Attach(c) PROVE TerminalInv'
      BY <2>4 DEF TerminalInv, TerminalTypeOK, Consistent, Attach
    <2>5. ASSUME NEW c \in Connections, SocketCloses(c) PROVE TerminalInv'
      BY <2>5 DEF TerminalInv, TerminalTypeOK, Consistent, SocketCloses, RemoveClient
    <2>6. ASSUME NEW c \in Connections, ProcessEnds(c) PROVE TerminalInv'
      BY <2>6 DEF TerminalInv, TerminalTypeOK, Consistent, ProcessEnds
    <2>7. ASSUME NEW c \in Connections, OnExit(c) PROVE TerminalInv'
      BY <2>7 DEF TerminalInv, TerminalTypeOK, Consistent, OnExit, Closing
    <2>8. ASSUME NEW c \in Connections, IdleTimeout(c) PROVE TerminalInv'
      BY <2>8 DEF TerminalInv, TerminalTypeOK, Consistent, IdleTimeout, Dispose, Closing
    <2> QED BY <2>1, <2>2, <2>3, <2>4, <2>5, <2>6, <2>7, <2>8 DEF TerminalNext
  <1> QED BY <1>1, <1>2, PTL DEF TerminalSpec

(* A process that was started for a terminal is never left running without *)
(* a client or the timer that ends it (attachTerminal, cleanup).           *)
THEOREM WatchedPty == TerminalSpec => []PtyIsWatched
  <1>1. TerminalInv => PtyIsWatched
    BY DEF TerminalInv, Consistent, PtyIsWatched
  <1> QED BY <1>1, PtyInductive, PTL

(* Every reachable state of the terminals is well typed.                   *)
THEOREM TerminalTypeCorrect == TerminalSpec => []TerminalTypeOK
  BY PtyInductive, PTL DEF TerminalInv

-----------------------------------------------------------------------------
(* The connection to the gateway.                                          *)

(* There is an address to reconnect to once there was a socket.            *)
UrlKnown ==
  url = "none" =>
    /\ \A n \in Sockets : ws[n].state = "none"
    /\ timer = "none" /\ \A k \in Timers : strays[k] = 0

(* Whatever a handler of an open socket does, it does on the current one,  *)
(* because there is no other: that is what keeps the rest.                 *)
SocketInv == SocketTypeOK /\ UrlKnown /\ OneLiveSocket /\ ShownIsGuarded /\ LostIsRetried

LEMMA SocketNumbers ==
  /\ LastSocket \in Nat /\ MaxAttempts \in Nat /\ MaxMissed \in Nat /\ MaxMissed > 0
  /\ MaxStrays \in Nat /\ PathsToTry \in Nat
  /\ 0 \in 0..MaxAttempts /\ 0 \in 0..MaxMissed /\ 0 \in 0..PathsToTry /\ 0 \in 0..LastSocket
  /\ Sockets \subseteq 0..LastSocket
  BY SocketAssumption DEF Sockets

LEMMA SocketInitial == SocketInit => SocketInv
  <1> SUFFICES ASSUME SocketInit PROVE SocketInv
    OBVIOUS
  <1>1. SocketTypeOK
    <2>1. /\ ws \in [Sockets -> [state : {"none", "connecting", "open", "closing", "closed"}, url : Urls]]
          /\ strays \in [Timers -> Nat] /\ pairing \subseteq Sockets
      BY DEF SocketInit, Urls
    <2> QED BY <2>1, SocketNumbers DEF SocketInit, SocketTypeOK
  <1>2. UrlKnown /\ OneLiveSocket /\ ShownIsGuarded /\ LostIsRetried
    BY DEF SocketInit, UrlKnown, OneLiveSocket, ShownIsGuarded, LostIsRetried, IsLive, Is, Urls
  <1> QED BY <1>1, <1>2 DEF SocketInv

LEMMA ConnectKeeps ==
  ASSUME SocketInv, NEW to \in Addresses, Connect(to),
         UNCHANGED <<beating, missed, pings, tokenOnly, attempts, pairing>>,
         timer' \in {timer, "none"}, strays' \in [Timers -> Nat],
         \A k \in Timers : strays'[k] <= strays[k]
  PROVE  SocketInv'
  <1>1. CASE AlreadyConnected
    <2>1. active \in Sockets /\ ws[active].state \in {"connecting", "open"}
      BY <1>1 DEF AlreadyConnected, IsLive, Is, SocketInv, SocketTypeOK, Sockets
    <2>2. UNCHANGED <<ws, active, handshake, shown, manual, blocked, url, tried, crossed>>
      BY <1>1 DEF Connect
    <2>3. SocketTypeOK' /\ UrlKnown' /\ OneLiveSocket' /\ ShownIsGuarded'
      BY <2>2 DEF SocketInv, SocketTypeOK, UrlKnown, OneLiveSocket, ShownIsGuarded, IsLive, Is
    <2>4. LostIsRetried'
      BY <2>1, <2>2 DEF LostIsRetried, Is, Sockets
    <2> QED BY <2>3, <2>4 DEF SocketInv
  <1>2. CASE ~AlreadyConnected /\ to = "bad"
    <2>1. /\ handshake' = FALSE /\ manual' = FALSE /\ blocked' = FALSE /\ shown' = FALSE
          /\ url' = "bad" /\ tried' = (IF url = to THEN tried ELSE 0)
          /\ UNCHANGED <<ws, active, crossed>>
      BY <1>2 DEF Connect
    <2>2. tried' \in 0..PathsToTry /\ timer' \in Timers \cup {"none"}
      BY <2>1, SocketNumbers DEF SocketInv, SocketTypeOK
    <2>3. SocketTypeOK'
      BY <2>1, <2>2 DEF SocketInv, SocketTypeOK, Addresses
    <2>4. UrlKnown' /\ ShownIsGuarded' /\ LostIsRetried'
      BY <2>1 DEF UrlKnown, ShownIsGuarded, LostIsRetried, Urls
    <2>5. OneLiveSocket'
      BY <2>1 DEF SocketInv, OneLiveSocket, IsLive, Is
    <2> QED BY <2>3, <2>4, <2>5 DEF SocketInv
  <1>3. CASE ~AlreadyConnected /\ to # "bad"
    <2>0. to \in Urls
      BY <1>3 DEF Addresses
    <2>1. PICK n \in Sockets :
            /\ ws' = [ws EXCEPT ![n] = [state |-> "connecting", url |-> to]]
            /\ active' = n
            /\ handshake' = FALSE /\ manual' = FALSE /\ blocked' = FALSE
            /\ url' = to
            /\ tried' = IF url = to THEN tried ELSE 0
            /\ crossed' = (crossed \/ \E k \in Sockets : Is(k, {"connecting", "open", "closing"}))
            /\ UNCHANGED shown
      BY <1>3 DEF Connect
    <2>2. /\ ws'[n] = [state |-> "connecting", url |-> to]
          /\ \A k \in Sockets \ {n} : ws'[k] = ws[k]
          /\ n # 0
      BY <2>1 DEF SocketInv, SocketTypeOK, Sockets
    <2>3. SocketTypeOK'
      <3>1. tried' \in 0..PathsToTry /\ n \in 0..LastSocket
        BY <2>1, SocketNumbers DEF SocketInv, SocketTypeOK
      <3>2. timer' \in Timers \cup {"none"}
        BY DEF SocketInv, SocketTypeOK
      <3> QED BY <2>0, <2>1, <3>1, <3>2 DEF SocketInv, SocketTypeOK, Addresses
    <2> UrlKnown'
      BY <2>0, <2>1 DEF UrlKnown, Urls
    <2>4. OneLiveSocket'
      BY <1>3, <2>1, <2>2 DEF SocketInv, OneLiveSocket, AlreadyConnected, IsLive, Is
    <2>5. ShownIsGuarded'
      <3>1. ~crossed' => ~shown
        BY <1>3, <2>1 DEF SocketInv, SocketTypeOK, Sockets, ShownIsGuarded, AlreadyConnected, IsLive, Is
      <3> QED BY <2>1, <3>1 DEF ShownIsGuarded, SocketInv, SocketTypeOK
    <2>6. LostIsRetried'
      BY <2>2 DEF LostIsRetried, Is
    <2> QED BY <2>3, <2>4, <2>5, <2>6 DEF SocketInv
  <1> QED BY <1>1, <1>2, <1>3

(* Where the current socket, if any, is asked to close and no other one.   *)
LEMMA ClosingKeeps ==
  ASSUME SocketInv, NEW n \in Sockets, CloseSocket(n),
         active = n \/ crossed',
         UNCHANGED <<active, handshake, shown, manual, attempts, url, tried, timer, strays>>,
         crossed => crossed', blocked => blocked',
         beating' \in BOOLEAN, missed' \in 0..MaxMissed, pings' \in BOOLEAN, blocked' \in BOOLEAN,
         tokenOnly' \in BOOLEAN, pairing' \subseteq Sockets, crossed' \in BOOLEAN
  PROVE  SocketInv'
  <1>1. /\ \A k \in Sockets \ {n} : ws'[k] = ws[k]
        /\ ws'[n].state = IF IsLive(n) THEN "closing" ELSE ws[n].state
        /\ ws' \in [Sockets -> [state : {"none", "connecting", "open", "closing", "closed"}, url : Urls]]
    BY DEF CloseSocket, SocketInv, SocketTypeOK
  <1>2. SocketTypeOK'
    BY <1>1 DEF SocketInv, SocketTypeOK
  <1> UrlKnown'
    BY <1>1 DEF SocketInv, UrlKnown, IsLive, Is
  <1>3. OneLiveSocket'
    BY <1>1 DEF SocketInv, OneLiveSocket, IsLive, Is
  <1>4. ShownIsGuarded'
    BY <1>1 DEF SocketInv, ShownIsGuarded, IsLive, Is, Sockets
  <1>5. LostIsRetried'
    BY <1>1 DEF SocketInv, LostIsRetried, IsLive, Is
  <1> QED BY <1>2, <1>3, <1>4, <1>5 DEF SocketInv

LEMMA GatewayClosesKeeps ==
  ASSUME SocketInv, NEW n \in Sockets, GatewayCloses(n)
  PROVE  SocketInv'
  <1>1. /\ \A k \in Sockets \ {n} : ws'[k] = ws[k]
        /\ ws'[n].state = "closed"
        /\ ws' \in [Sockets -> [state : {"none", "connecting", "open", "closing", "closed"}, url : Urls]]
    BY DEF GatewayCloses, SocketInv, SocketTypeOK
  <1>2. /\ attempts' \in 0..MaxAttempts /\ url' \in Addresses \cup {"none"} /\ tried' \in 0..PathsToTry
        /\ timer' \in Timers \cup {"none"} /\ strays' \in [Timers -> Nat]
    BY SocketNumbers
       DEF GatewayCloses, Retry, NoRetry, RetriesByPath, RetryByPath, SetTimer, SocketInv, SocketTypeOK,
           Timers, Urls, Addresses
  <1>3. SocketTypeOK'
    BY <1>1, <1>2, SocketNumbers DEF GatewayCloses, StopHeartbeat, SocketInv, SocketTypeOK
  <1> UrlKnown'
    BY <1>1 DEF GatewayCloses, Is, Retry, NoRetry, RetryByPath, SetTimer, SocketInv, UrlKnown
  <1>4. OneLiveSocket'
    BY <1>1 DEF GatewayCloses, SocketInv, OneLiveSocket, IsLive, Is
  <1>5. ShownIsGuarded'
    BY DEF GatewayCloses, ShownIsGuarded
  <1>6. LostIsRetried'
    <2> SUFFICES ASSUME ~manual', ~blocked', ~Optional, attempts' < MaxAttempts
                 PROVE  timer' # "none"
      BY DEF LostIsRetried
    <2>1. UNCHANGED <<manual, blocked>> /\ Retry(n)
      BY DEF GatewayCloses
    <2>2. attempts \in 0..MaxAttempts
      BY DEF SocketInv, SocketTypeOK
    <2>3. CASE RetryByPath(n)
      BY <2>3 DEF RetryByPath, SetTimer
    <2>4. CASE attempts' = attempts + 1 /\ SetTimer("latest")
      BY <2>4 DEF SetTimer
    <2>5. CASE attempts = MaxAttempts /\ NoRetry
      BY <2>2, <2>5, SocketNumbers DEF NoRetry
    <2> QED BY <2>1, <2>3, <2>4, <2>5 DEF Retry
  <1> QED BY <1>3, <1>4, <1>5, <1>6 DEF SocketInv

LEMMA SocketStep ==
  ASSUME SocketInv, [SocketNext]_socketVars
  PROVE  SocketInv'
  <1>1. CASE UNCHANGED socketVars
    BY <1>1 DEF socketVars, SocketInv, SocketTypeOK, UrlKnown, OneLiveSocket, ShownIsGuarded,
                LostIsRetried, IsLive, Is
  <1>2. ASSUME NEW to \in Addresses, UserConnects(to) PROVE SocketInv'
    BY <1>2, ConnectKeeps DEF UserConnects, SocketInv, SocketTypeOK
  <1>3. CASE TimerFires
    <2>1. (IF timer = "path" THEN "path" ELSE url) \in Addresses
      BY <1>3 DEF TimerFires, SocketInv, SocketTypeOK, UrlKnown, Urls, Addresses
    <2> QED BY <1>3, <2>1, ConnectKeeps DEF TimerFires, SocketInv, SocketTypeOK
  <1>4. ASSUME NEW k \in Timers, StrayFires(k) PROVE SocketInv'
    <2>1. (IF k = "path" THEN "path" ELSE url) \in Addresses
      BY <1>4 DEF StrayFires, SocketInv, SocketTypeOK, UrlKnown, Urls, Addresses
    <2>2. strays' \in [Timers -> Nat] /\ \A j \in Timers : strays'[j] <= strays[j]
      BY <1>4 DEF StrayFires, SocketInv, SocketTypeOK
    <2> QED BY <1>4, <2>1, <2>2, ConnectKeeps DEF StrayFires
  <1>5. ASSUME NEW n \in Sockets, SocketOpens(n) PROVE SocketInv'
    <2>1. /\ ws' \in [Sockets -> [state : {"none", "connecting", "open", "closing", "closed"}, url : Urls]]
          /\ ws'[n].state = "open" /\ ws[n].state = "connecting" /\ n # 0
          /\ \A k \in Sockets \ {n} : ws'[k] = ws[k]
      BY <1>5 DEF SocketOpens, Is, SocketInv, SocketTypeOK
    <2>2. n = active
      BY <2>1 DEF SocketInv, OneLiveSocket, IsLive, Is
    <2>3. SocketTypeOK'
      BY <1>5, <2>1 DEF SocketOpens, SocketInv, SocketTypeOK
    <2>4. UrlKnown' /\ OneLiveSocket'
      BY <1>5, <2>1 DEF SocketOpens, SocketInv, UrlKnown, OneLiveSocket, IsLive, Is
    <2>5. ShownIsGuarded'
      BY <1>5, <2>1, <2>2 DEF SocketOpens, SocketInv, ShownIsGuarded, Is
    <2>6. LostIsRetried'
      BY <1>5, <2>1 DEF SocketOpens, SocketInv, LostIsRetried, Is
    <2> QED BY <2>3, <2>4, <2>5, <2>6 DEF SocketInv
  <1>6. ASSUME NEW n \in Sockets, HandshakeDone(n) PROVE SocketInv'
    <2>1. n = active /\ Is(n, {"open"})
      BY <1>6 DEF HandshakeDone, SocketInv, OneLiveSocket, IsLive, Is
    <2>2. SocketTypeOK'
      BY <1>6, SocketNumbers DEF HandshakeDone, SocketInv, SocketTypeOK
    <2> QED BY <1>6, <2>1, <2>2
            DEF HandshakeDone, SocketInv, UrlKnown, OneLiveSocket, ShownIsGuarded, LostIsRetried,
                IsLive, Is
  <1>7. ASSUME NEW n \in Sockets, FallBackToToken(n) \/ Refused(n) PROVE SocketInv'
    <2>1. n = active
      BY <1>7 DEF FallBackToToken, Refused, SocketInv, OneLiveSocket, IsLive, Is
    <2>2. CASE FallBackToToken(n)
      BY <2>1, <2>2, ClosingKeeps, SocketNumbers
         DEF FallBackToToken, StopHeartbeat, SocketInv, SocketTypeOK
    <2>3. CASE Refused(n)
      BY <2>1, <2>3, ClosingKeeps, SocketNumbers
         DEF Refused, StopHeartbeat, SocketInv, SocketTypeOK
    <2> QED BY <1>7, <2>2, <2>3
  <1>8. ASSUME NEW n \in Sockets, PairingRequired(n) PROVE SocketInv'
    BY <1>8 DEF PairingRequired, SocketInv, SocketTypeOK, UrlKnown, OneLiveSocket, ShownIsGuarded,
                LostIsRetried, IsLive, Is
  <1>9. ASSUME NEW n \in Sockets, GatewayCloses(n) PROVE SocketInv'
    BY <1>9, GatewayClosesKeeps
  <1>10. ASSUME NEW n \in Sockets, NEW approved \in BOOLEAN, PairingEnds(n, approved) PROVE SocketInv'
    <2>1. CASE approved
      BY <1>10, <2>1, ClosingKeeps, SocketNumbers
         DEF PairingEnds, StopHeartbeat, SocketInv, SocketTypeOK
    <2>2. CASE ~approved
      BY <1>10, <2>2
         DEF PairingEnds, SocketInv, SocketTypeOK, UrlKnown, OneLiveSocket, ShownIsGuarded,
             LostIsRetried, IsLive, Is
    <2> QED BY <2>1, <2>2
  <1>11. CASE Ping
    <2>1. active \in Sockets
      BY <1>11 DEF Ping, Is, SocketInv, SocketTypeOK, Sockets
    <2>2. CASE missed >= MaxMissed
      BY <1>11, <2>1, <2>2, ClosingKeeps DEF Ping, SocketInv, SocketTypeOK
    <2>3. CASE ~(missed >= MaxMissed)
      <3>1. missed' \in 0..MaxMissed /\ UNCHANGED ws
        BY <1>11, <2>3, SocketNumbers DEF Ping, SocketInv, SocketTypeOK
      <3> QED BY <1>11, <3>1
              DEF Ping, SocketInv, SocketTypeOK, UrlKnown, OneLiveSocket, ShownIsGuarded,
                  LostIsRetried, IsLive, Is
    <2> QED BY <2>2, <2>3
  <1>12. ASSUME NEW supported \in BOOLEAN, Pong(supported) PROVE SocketInv'
    <2>1. SocketTypeOK'
      BY <1>12, SocketNumbers DEF Pong, SocketInv, SocketTypeOK
    <2> QED BY <1>12, <2>1
            DEF Pong, SocketInv, UrlKnown, OneLiveSocket, ShownIsGuarded, LostIsRetried, IsLive, Is
  <1>13. CASE UserReconnects
    <2>1. /\ manual' = TRUE /\ attempts' = 0 /\ tried' = 0 /\ timer' = "none"
          /\ beating' = FALSE /\ missed' = 0 /\ active' = 0
          /\ handshake' = FALSE /\ shown' = FALSE
          /\ UNCHANGED <<pings, blocked, tokenOnly, url, pairing, crossed>>
          /\ ws' = IF IsLive(active) THEN [ws EXCEPT ![active].state = "closing"] ELSE ws
      BY <1>13 DEF UserReconnects, Disconnect, StopHeartbeat, CloseSocket
    <2>2. strays' \in [Timers -> Nat] /\ (url = "none" => strays' = strays)
      BY <1>13 DEF UserReconnects, SocketInv, SocketTypeOK, Timers
    <2>3. /\ ws' \in [Sockets -> [state : {"none", "connecting", "open", "closing", "closed"}, url : Urls]]
          /\ \A n \in Sockets : ws'[n].state \notin {"connecting", "open"}
          /\ (\A n \in Sockets : ws[n].state = "none") => ws' = ws
      <3>1. CASE IsLive(active)
        <4>1. active \in Sockets
          BY <3>1 DEF IsLive, Is, SocketInv, SocketTypeOK, Sockets
        <4>2. /\ ws'[active].state = "closing" /\ \A n \in Sockets \ {active} : ws'[n] = ws[n]
              /\ ws' \in [Sockets -> [state : {"none", "connecting", "open", "closing", "closed"}, url : Urls]]
          BY <2>1, <3>1, <4>1 DEF SocketInv, SocketTypeOK
        <4> QED BY <3>1, <4>1, <4>2 DEF SocketInv, OneLiveSocket, IsLive, Is, Sockets
      <3>2. CASE ~IsLive(active)
        BY <2>1, <3>2 DEF SocketInv, SocketTypeOK, OneLiveSocket, IsLive, Is, Sockets
      <3> QED BY <3>1, <3>2
    <2>4. SocketTypeOK'
      BY <2>1, <2>2, <2>3, SocketNumbers DEF SocketInv, SocketTypeOK
    <2>5. UrlKnown'
      BY <2>1, <2>2, <2>3 DEF SocketInv, UrlKnown
    <2>6. OneLiveSocket' /\ ShownIsGuarded' /\ LostIsRetried'
      BY <2>1, <2>3 DEF OneLiveSocket, ShownIsGuarded, LostIsRetried, IsLive, Is
    <2> QED BY <2>4, <2>5, <2>6 DEF SocketInv
  <1> QED BY <1>1, <1>2, <1>3, <1>4, <1>5, <1>6, <1>7, <1>8, <1>9, <1>10, <1>11, <1>12, <1>13
          DEF SocketNext

LEMMA SocketInductive == SocketSpec => []SocketInv
  BY SocketInitial, SocketStep, PTL DEF SocketSpec

(* However timers, clicks and closes come together, there is one live      *)
(* socket at most, and it is the one that messages are sent on.            *)
THEOREM OneSocketLives == SocketSpec => []OneLiveSocket
  BY SocketInductive, PTL DEF SocketInv

(* A gateway that is shown as connected has a heartbeat, until its socket  *)
(* is closing, as long as no handler of an earlier socket came late.       *)
THEOREM GuardedWhileShown == SocketSpec => []ShownIsGuarded
  BY SocketInductive, PTL DEF SocketInv

(* A connection that was lost is tried again until the attempts are used   *)
(* up: a socket on its way or a timer is there.                            *)
THEOREM RetriedWhenLost == SocketSpec => []LostIsRetried
  BY SocketInductive, PTL DEF SocketInv

(* Every reachable state of the connection is well typed.                  *)
THEOREM SocketTypeCorrect == SocketSpec => []SocketTypeOK
  BY SocketInductive, PTL DEF SocketInv

-----------------------------------------------------------------------------
(* The server.                                                             *)

(* A step of the server is a step of the component that runs, and leaves   *)
(* the others as they are.                                                 *)
LEMMA PartsStart ==
  Init => AllowInit /\ LimiterInit /\ NotificationInit /\ PipelineInit
          /\ ProvisioningInit /\ SocketInit /\ TerminalInit
  BY DEF Init

LEMMA PartsStep ==
  [Next]_vars => /\ [AllowNext]_allowVars
                 /\ [LimiterNext]_limiterVars
                 /\ [NotificationNext]_notificationVars
                 /\ [PipelineNext]_pipelineVars
                 /\ [ProvisioningNext]_provisioningVars
                 /\ [SocketNext]_socketVars
                 /\ [TerminalNext]_terminalVars
  BY DEF Next, Runs, vars

(* Whatever is proved of a component holds of the server it is a part of.  *)
THEOREM PartsOfServer ==
  Spec => AllowSpec /\ LimiterSpec /\ NotificationSpec /\ PipelineSpec
          /\ ProvisioningSpec /\ SocketSpec /\ TerminalSpec
  BY PartsStart, PartsStep, PTL
     DEF Spec, AllowSpec, LimiterSpec, NotificationSpec, PipelineSpec, ProvisioningSpec,
         SocketSpec, TerminalSpec

(* Every component keeps its rows, files and histories well formed.        *)
THEOREM ServerTypeCorrect == Spec => []TypeOK
  <1>1. /\ AllowTypeOK /\ LimiterTypeOK /\ NotificationTypeOK
        /\ PipelineTypeOK /\ ProvisioningTypeOK /\ SocketTypeOK /\ TerminalTypeOK
        => TypeOK
    BY DEF TypeOK
  <1> QED BY <1>1, PartsOfServer, AllowTypeCorrect, LimiterTypeCorrect, NotificationTypeCorrect,
             PipelineTypeCorrect, ProvisioningTypeCorrect, SocketTypeCorrect, TerminalTypeCorrect, PTL

=============================================================================
