------------------------------- MODULE MCCopies -------------------------------
(***************************************************************************)
(* Components that keep a copy of what changes elsewhere: the browser's    *)
(* board, the rows of agents and those of skills. They share no state and  *)
(* are checked by one run, whose behaviours are each of one of them,       *)
(* chosen in the initial state, while the others rest in theirs. Fairness  *)
(* is assumed of its own steps.                                            *)
(***************************************************************************)
EXTENDS AgentConfig, LiveBoard, SkillMirror

VARIABLE part  \* the component that runs

vars == <<part, agentVars, boardVars, skillVars>>

(* POST drops the dot at the end of a name, the others keep it.            *)
MCPostId == [n \in AgentNames |-> IF n = "neo." THEN "neo" ELSE n]
MCPutId == [n \in AgentNames |-> n]

(* The models of an agent: only the primary is set, or a fallback as well. *)
MCConfigs == {[primary |-> "opus", fallbacks |-> f] : f \in {Unset, "haiku"}}

(* All tasks, or those of one project.                                     *)
MCProjects == {BoardTasks, {1}}

(* One skill of a source that always is synced, the others of an agent.    *)
MCSource == [s \in Skills |-> IF s = "review" THEN "user-agents" ELSE "workspace-neo"]

(* Those that rest do so in one of their initial states. OpenClaw knows at *)
(* most one of the two agents at first.                                    *)
Init ==
  /\ part \in {"agents", "board", "skills"}
  /\ AgentInit /\ BoardInit /\ SkillInit
  /\ ~HasEntry(openclaw.list, "neo.")
  /\ part # "agents" => openclaw.list = [i \in Ids |-> NoEntry]
  /\ table = [t \in BoardTasks |-> IF part = "board" /\ t = 1 THEN "inbox" ELSE None]
  /\ chosen = BoardTasks
  /\ part # "skills" => disk = [s \in Skills |-> Missing]

(* Only the variables of the component p may change.                       *)
Runs(p) ==
  /\ part = p /\ part' = part
  /\ p # "agents" => UNCHANGED agentVars
  /\ p # "board" => UNCHANGED boardVars
  /\ p # "skills" => UNCHANGED skillVars

Next ==
  \/ Runs("agents") /\ AgentNext
  \/ Runs("board") /\ BoardNext
  \/ Runs("skills") /\ SkillNext

(* The interval of a mounted board fires, and its requests are answered.   *)
BoardFairness ==
  /\ WF_vars(Runs("board") /\ Poll)
  /\ \A k \in 0..MaxFetches :
       WF_vars(Runs("board") /\ \E f \in fetches : f.number = k /\ (ServerAnswers(f) \/ FetchEnds(f)))

(* The scheduler syncs every minute, and awaited commands, reads and       *)
(* writes end.                                                             *)
AgentFairness ==
  /\ WF_vars(Runs("agents") /\ \E c \in Callers : StartSync(c))
  /\ \A c \in Callers : WF_vars(Runs("agents") /\ CallStep(c))

SkillFairness ==
  /\ WF_vars(Runs("skills") /\ SyncSkills)
  /\ \A w \in SkillWriters : WF_vars(Runs("skills") /\ (WriteSkillRow(w) \/ SkillRowLost(w)))

Spec == Init /\ [][Next]_vars /\ AgentFairness /\ BoardFairness /\ SkillFairness

=============================================================================
