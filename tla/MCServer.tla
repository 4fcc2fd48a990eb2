------------------------------- MODULE MCServer -------------------------------
(***************************************************************************)
(* Components of the server, its terminals and the browser's connection to *)
(* the gateway. They share no state and are checked by one run, whose      *)
(* behaviours are each of one of them, chosen in the initial state, while  *)
(* the others rest in theirs. A property of a component is therefore       *)
(* checked in all behaviours of that component, and fairness is assumed of *)
(* its own steps only.                                                     *)
(***************************************************************************)
EXTENDS AllowList, GatewaySocket, Notifications, PipelineRun, Provisioning, RateLimiter, Terminals

VARIABLE part  \* the component that runs


vars == <<part, allowVars, limiterVars, notificationVars, pipelineVars, provisioningVars,
          socketVars, terminalVars>>

(* Those that rest do so in one of their initial states.                   *)
Init ==
  /\ part \in {"allow", "limiter", "notifications", "pipeline", "provisioning", "socket", "terminals"}
  /\ AllowInit /\ LimiterInit /\ NotificationInit /\ PipelineInit /\ ProvisioningInit
  /\ SocketInit /\ TerminalInit
  /\ part # "allow" => file.lists = CHOOSE l \in Lists : TRUE
  /\ part # "pipeline" => policy = [i \in Steps |-> CHOOSE p \in Policy : TRUE]

(* Only the variables of the component p may change.                       *)
Runs(p) ==
  /\ part = p /\ part' = part
  /\ p # "allow" => UNCHANGED allowVars
  /\ p # "limiter" => UNCHANGED limiterVars
  /\ p # "notifications" => UNCHANGED notificationVars
  /\ p # "pipeline" => UNCHANGED pipelineVars
  /\ p # "provisioning" => UNCHANGED provisioningVars
  /\ p # "socket" => UNCHANGED socketVars
  /\ p # "terminals" => UNCHANGED terminalVars

Next ==
  \/ Runs("allow") /\ AllowNext
  \/ Runs("limiter") /\ LimiterNext
  \/ Runs("notifications") /\ NotificationNext
  \/ Runs("pipeline") /\ PipelineNext
  \/ Runs("provisioning") /\ ProvisioningNext
  \/ Runs("socket") /\ SocketNext
  \/ Runs("terminals") /\ TerminalNext

(* Every component keeps its rows, files and histories well formed.        *)
TypeOK ==
  /\ AllowTypeOK /\ LimiterTypeOK /\ NotificationTypeOK
  /\ PipelineTypeOK /\ ProvisioningTypeOK /\ SocketTypeOK /\ TerminalTypeOK

(* The daemon calls again and again, and a command ends within 30 s.       *)
NotificationFairness ==
  /\ WF_vars(Runs("notifications") /\ StartDelivery(Daemon, Recipients))
  /\ \A d \in Deliveries : WF_vars(Runs("notifications") /\ DeliveryStep(d))

Spec == Init /\ [][Next]_vars /\ NotificationFairness

=============================================================================
