------------------------------ MODULE PipelineRun ------------------------------
(***************************************************************************)
(* One run of a pipeline (src/app/api/pipelines/run/route.ts): started,    *)
(* advanced from step to step as their outcomes are reported, cancelled.   *)
(* Starting and advancing await the agent of the next step; the row they   *)
(* write afterwards is the one they read before, and its status is not     *)
(* looked at again.                                                        *)
(***************************************************************************)
EXTENDS Naturals

CONSTANTS
  RunRequests,  \* requests that may be in progress at a time
  LastStep,     \* the number of steps of the pipeline
  MaxSpawns     \* bound: agents started for one step

ASSUME PipelineAssumption == LastStep \in Nat \ {0} /\ MaxSpawns \in Nat \ {0}

VARIABLES
  policy,     \* on_failure of each step, and whether its template exists
  runStatus,  \* pipeline_runs.status, or that there is no run yet
  current,    \* pipeline_runs.current_step
  snapshot,   \* pipeline_runs.steps_snapshot: the status of each step
  spawning,   \* the requests that await spawnStep, with the snapshot they hold
  spawned,    \* history: how many agents were started for each step
  serial      \* history: no request met another one or a restart so far

pipelineVars == <<policy, runStatus, current, snapshot, spawning, spawned, serial>>

Steps == 1..LastStep
StepStatus == {"pending", "running", "completed", "failed", "skipped"}
Policy == [onFailure : {"stop", "continue"}, template : BOOLEAN]
Await == [action : {"none", "start", "advance"}, step : Steps, steps : [Steps -> StepStatus]]

Fresh == [i \in Steps |-> IF i = 1 THEN "running" ELSE "pending"]
NoAwait == [action |-> "none", step |-> 1, steps |-> Fresh]

PipelineTypeOK ==
  /\ policy \in [Steps -> Policy]
  /\ runStatus \in {"absent", "running", "completed", "failed", "cancelled"}
  /\ current \in Steps
  /\ snapshot \in [Steps -> StepStatus]
  /\ spawning \in [RunRequests -> Await]
  /\ spawned \in [Steps -> 0..MaxSpawns]
  /\ serial \in BOOLEAN

PipelineInit ==
  /\ policy \in [Steps -> Policy]
  /\ runStatus = "absent"
  /\ current = 1
  /\ snapshot = Fresh
  /\ spawning = [r \in RunRequests |-> NoAwait]
  /\ spawned = [i \in Steps |-> 0]
  /\ serial = TRUE

Free(r) == spawning[r] = NoAwait
Alone == \A r \in RunRequests : Free(r)

(* The agent is started at once, its answer awaited.                       *)
Spawn(r, action, i, steps) ==
  /\ spawned[i] < MaxSpawns
  /\ spawned' = [spawned EXCEPT ![i] = @ + 1]
  /\ spawning' = [spawning EXCEPT ![r] = [action |-> action, step |-> i, steps |-> steps]]

-----------------------------------------------------------------------------
(* startPipeline                                                           *)
StartRun(r) ==
  /\ Free(r) /\ runStatus = "absent"
  /\ runStatus' = "running"
  /\ IF policy[1].template THEN Spawn(r, "start", 1, Fresh) ELSE UNCHANGED <<spawning, spawned>>
  /\ UNCHANGED <<policy, current, snapshot, serial>>

(* spawnStep in startPipeline: the snapshot is written with the spawn id,  *)
(* or with the error of the spawn.                                         *)
StartEnds(r) ==
  /\ spawning[r].action = "start"
  /\ snapshot' = spawning[r].steps
  /\ spawning' = [spawning EXCEPT ![r] = NoAwait]
  /\ UNCHANGED <<policy, runStatus, current, spawned, serial>>

(* advanceRun, up to its end or to the await of spawnStep.                 *)
Reported(outcome) == [snapshot EXCEPT ![current] = outcome]

StopsAt(i, outcome) == outcome = "failed" /\ policy[i].onFailure = "stop"

MayAdvance_Settled(r) == Free(r) /\ runStatus # "absent"
MayAdvance(r) == Free(r) /\ runStatus = "running"

StopRun(r, outcome) ==
  /\ MayAdvance(r) /\ StopsAt(current, outcome)
  /\ runStatus' = "failed"
  /\ snapshot' = [i \in Steps |-> IF i > current THEN "skipped" ELSE Reported(outcome)[i]]
  /\ serial' = (serial /\ Alone)
  /\ UNCHANGED <<policy, current, spawning, spawned>>

CompleteRun(r, outcome) ==
  /\ MayAdvance(r) /\ ~StopsAt(current, outcome) /\ current = LastStep
  /\ runStatus' = "completed"
  /\ snapshot' = Reported(outcome)
  /\ serial' = (serial /\ Alone)
  /\ UNCHANGED <<policy, current, spawning, spawned>>

AdvanceRun_FailedSkipsNext(r, outcome) ==
  /\ MayAdvance(r) /\ ~StopsAt(current, outcome) /\ current < LastStep
  /\ LET next  == IF outcome = "failed" /\ current + 1 < LastStep THEN current + 2 ELSE current + 1
         steps == [Reported(outcome) EXCEPT ![next] = "running"]
     IN IF policy[next].template
        THEN Spawn(r, "advance", next, steps) /\ UNCHANGED <<current, snapshot>>
        ELSE /\ current' = next /\ snapshot' = steps
             /\ UNCHANGED <<spawning, spawned>>
  /\ serial' = (serial /\ Alone)
  /\ UNCHANGED <<policy, runStatus>>
AdvanceRun(r, outcome) ==
  /\ MayAdvance(r) /\ ~StopsAt(current, outcome) /\ current < LastStep
  /\ LET next  == current + 1
         steps == [Reported(outcome) EXCEPT ![next] = "running"]
     IN IF policy[next].template
        THEN Spawn(r, "advance", next, steps) /\ UNCHANGED <<current, snapshot>>
        ELSE /\ current' = next /\ snapshot' = steps
             /\ UNCHANGED <<spawning, spawned>>
  /\ serial' = (serial /\ Alone)
  /\ UNCHANGED <<policy, runStatus>>

(* The two UPDATEs after the await, without a look at the row.             *)
AdvanceEnds_Running(r) ==
  /\ spawning[r].action = "advance"
  /\ current' = spawning[r].step
  /\ snapshot' = spawning[r].steps
  /\ runStatus' = "running"
  /\ spawning' = [spawning EXCEPT ![r] = NoAwait]
  /\ UNCHANGED <<policy, spawned, serial>>

AdvanceEnds_StepLeft(r) ==
  /\ spawning[r].action = "advance"
  /\ snapshot' = spawning[r].steps
  /\ spawning' = [spawning EXCEPT ![r] = NoAwait]
  /\ UNCHANGED <<policy, runStatus, current, spawned, serial>>

AdvanceEnds(r) ==
  /\ spawning[r].action = "advance"
  /\ current' = spawning[r].step
  /\ snapshot' = spawning[r].steps
  /\ spawning' = [spawning EXCEPT ![r] = NoAwait]
  /\ UNCHANGED <<policy, runStatus, spawned, serial>>

(* cancelRun                                                               *)
CancelRun ==
  /\ runStatus = "running"
  /\ runStatus' = "cancelled"
  /\ snapshot' = [i \in Steps |->
                   IF snapshot[i] \in {"pending", "running"} THEN "skipped" ELSE snapshot[i]]
  /\ serial' = (serial /\ Alone)
  /\ UNCHANGED <<policy, current, spawning, spawned>>

(* A restart forgets the requests; agents they started are not.            *)
RestartRequests ==
  /\ ~Alone
  /\ spawning' = [r \in RunRequests |-> NoAwait]
  /\ serial' = FALSE
  /\ UNCHANGED <<policy, runStatus, current, snapshot, spawned>>

PipelineNext ==
  \/ \E r \in RunRequests :
       \/ StartRun(r) \/ StartEnds(r) \/ AdvanceEnds(r)
       \/ \E outcome \in {"completed", "failed"} :
            StopRun(r, outcome) \/ CompleteRun(r, outcome) \/ AdvanceRun(r, outcome)
  \/ CancelRun
  \/ RestartRequests

PipelineSpec == PipelineInit /\ [][PipelineNext]_pipelineVars

-----------------------------------------------------------------------------
(* A run that failed, was completed or cancelled stays so, although the    *)
(* requests that were awaiting an agent write its row afterwards, and no   *)
(* further agent is started for it.                                        *)
RunSettled == runStatus \in {"completed", "failed", "cancelled"}
SettledRunRests ==
  [][RunSettled => runStatus' = runStatus /\ spawned' = spawned]_pipelineVars

(* No step is skipped or taken early: an agent works on a step only when   *)
(* one was started for every step before it, however requests overlap,     *)
(* step numbers go back, or a restart cuts an advance off.                 *)
SpawnsInOrder ==
  \A i \in Steps : spawned[i] > 0 =>
    \A k \in 1..(i - 1) : policy[k].template => spawned[k] > 0

(* While requests come one at a time, each step's agent is started once    *)
(* and the row says where the run is: this is what the panel shows and     *)
(* what an advance starts from.                                            *)
SerialRunIsConsistent ==
  serial =>
    /\ \A i \in Steps : spawned[i] <= 1
    /\ Alone =>
         /\ runStatus = "running" => \A i \in Steps :
              /\ i < current => snapshot[i] \in {"completed", "failed"}
              /\ i = current => snapshot[i] = "running"
              /\ i > current => snapshot[i] = "pending"
         /\ runStatus = "completed" => \A i \in Steps : snapshot[i] \in {"completed", "failed"}
         /\ runStatus = "failed" => \A i \in Steps :
              /\ i = current => StopsAt(i, snapshot[i])
              /\ i > current => snapshot[i] = "skipped"
         /\ runStatus = "cancelled" => \A i \in Steps : snapshot[i] \notin {"pending", "running"}

=============================================================================
