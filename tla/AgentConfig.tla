------------------------------ MODULE AgentConfig ------------------------------
(***************************************************************************)
(* Agents are rows of the database and entries of OpenClaw's configuration *)
(* file. The routes of an agent write the row and then, with readFile and  *)
(* writeFile under awaits, the whole file; a job copies the entries of the *)
(* file into the rows every minute (src/lib/agent-sync.ts,                 *)
(* src/app/api/agents). None of them takes the lock of the file, and       *)
(* OpenClaw writes it, too.                                                *)
(***************************************************************************)
EXTENDS Naturals, FiniteSets

CONSTANTS
  AgentNames,  \* the names of agents
  Ids,         \* the ids of entries, which serve as names of unnamed ones
  PostId, PutId, DeleteId, \* the id each route makes of a name, with a regex of its own
  ConfigFields, \* the fields inside one field of the configuration that all routes write
  Configs,     \* what it may be: the model, say, with its primary and its fallbacks
  Callers,     \* the requests and syncs that may be under way
  MaxWishes,   \* bound: what people and OpenClaw do
  MaxErrors    \* bound: reads, writes and commands that fail, and restarts

Unset == "unset"
NoConfig == [k \in ConfigFields |-> "none"]
NoName == "none"

(* deepMerge: the entry keeps the fields that the update does not have.    *)
Merged(old, new) ==
  IF old = NoConfig THEN new
  ELSE [k \in ConfigFields |-> IF new[k] = Unset THEN old[k] ELSE new[k]]

ASSUME AgentAssumption ==
  /\ Ids \subseteq AgentNames /\ AgentNames # {} /\ Configs # {}
  /\ NoConfig \notin Configs
  /\ \A v \in Configs : v = [k \in ConfigFields |-> v[k]]
  /\ \A v, w \in Configs : Merged(v, w) \in Configs
  /\ {PostId, PutId, DeleteId} \subseteq [AgentNames -> Ids]
  /\ \A i \in Ids : DeleteId[i] = i  \* OpenClaw's ids are what DELETE makes of them
  /\ MaxWishes \in Nat /\ MaxErrors \in Nat

VARIABLES
  agentRow,  \* the rows, by name; 'born' stands for the id of the row
  openclaw,  \* openclaw.json: whether it can be parsed, and agents.list
  call,      \* what is under way
  wishes,    \* history: what people and OpenClaw did
  errors,    \* history: failures and restarts
  unified,   \* history: the agents whose row and entry were written together
  single     \* history: no call met another one, OpenClaw or a restart

agentVars == <<agentRow, openclaw, call, wishes, errors, unified, single>>

AgentRow == [there : BOOLEAN, born : 0..MaxWishes, config : Configs \cup {NoConfig},
             openclawId : Ids \cup {NoName}]
AgentEntry == [config : Configs \cup {NoConfig}, name : AgentNames \cup {NoName}]
AgentCall == [kind : {"none", "post", "put", "delete", "sync"},
              phase : {"idle", "command", "reading", "read", "emptied", "written"},
              name : AgentNames, config : Configs \cup {NoConfig}, gateway : BOOLEAN,
              row : AgentRow, list : [Ids -> AgentEntry]]

NoEntry == [config |-> NoConfig, name |-> NoName]
NoRow == [there |-> FALSE, born |-> 0, config |-> NoConfig, openclawId |-> NoName]
NoCall == [kind |-> "none", phase |-> "idle", name |-> CHOOSE n \in AgentNames : TRUE,
           config |-> NoConfig, gateway |-> FALSE, row |-> NoRow, list |-> [i \in Ids |-> NoEntry]]

AgentTypeOK ==
  /\ agentRow \in [AgentNames -> AgentRow]
  /\ openclaw.text \in {"whole", "empty", "garbled"} /\ openclaw.list \in [Ids -> AgentEntry]
  /\ DOMAIN call = Callers /\ \A c \in Callers : call[c] \in AgentCall
  /\ wishes \in 0..MaxWishes /\ errors \in 0..MaxErrors
  /\ unified \subseteq AgentNames
  /\ single \in BOOLEAN

(* A new database beside the file of an OpenClaw that has agents already.  *)
AgentInit ==
  /\ agentRow = [n \in AgentNames |-> NoRow]
  /\ openclaw \in [text : {"whole"},
                   list : [Ids -> {NoEntry, [NoEntry EXCEPT !.config = CHOOSE v \in Configs : TRUE]}]]
  /\ call = [c \in Callers |-> NoCall]
  /\ wishes = 0 /\ errors = 0
  /\ unified = {}
  /\ single = TRUE

Resting(c) == call[c] = NoCall
NoCalls == \A c \in Callers : Resting(c)
Ends(c) == call' = [call EXCEPT ![c] = NoCall]
GoesTo(c, phase) == call' = [call EXCEPT ![c].phase = phase]

(* mapAgentToMC: identity.name || name || id                               *)
HasEntry(list, i) == list[i].config # NoConfig
NameOf(list, i) == IF list[i].name = NoName THEN i ELSE list[i].name
EntriesOf(list, n) == {i \in Ids : HasEntry(list, i) /\ NameOf(list, i) = n}

(* The entry a PUT and a DELETE of a row are about.                        *)
EntryOf(row, n) == IF row.openclawId # NoName THEN row.openclawId ELSE PutId[n]
RemovedId(row, n) == IF row.openclawId # NoName THEN DeleteId[row.openclawId] ELSE DeleteId[n]

(* Agents whose entry changes are no longer what was written together.     *)
Changed(list) == {i \in Ids : list[i] # openclaw.list[i]}
StillUnified(list) ==
  {n \in unified : /\ EntryOf(agentRow[n], n) \notin Changed(list)
                   /\ \A i \in Changed(list) : NameOf(list, i) # n}

-----------------------------------------------------------------------------
(* The requests, up to their first await.                                  *)

Ask(c) ==
  /\ Resting(c) /\ wishes < MaxWishes
  /\ wishes' = wishes + 1
  /\ single' = (single /\ NoCalls)

AgentRequest(c, kind, phase, n, config, gateway) ==
  call' = [call EXCEPT ![c] =
    [NoCall EXCEPT !.kind = kind, !.phase = phase, !.name = n, !.config = config,
                   !.gateway = gateway, !.row = agentRow[n]]]

Inserted(n, config) ==
  [agentRow EXCEPT ![n] = [@ EXCEPT !.there = TRUE, !.config = config, !.openclawId = NoName]]

(* POST, with or without provision_openclaw_workspace.                     *)
PostAgent(c, n, config, gateway, provision) ==
  /\ Ask(c) /\ ~agentRow[n].there
  /\ agentRow' = IF provision THEN agentRow ELSE Inserted(n, config)
  /\ IF provision \/ gateway
     THEN AgentRequest(c, "post", IF provision THEN "command" ELSE "reading", n, config, gateway)
     ELSE UNCHANGED call
  /\ unified' = unified \ {n}
  /\ UNCHANGED <<openclaw, errors>>

(* PUT with a gateway_config: the row first. The route of one agent takes  *)
(* the fields it names as they are, with nothing of what was inside them;  *)
(* that of all agents replaces the whole config.                           *)
PutAgent(c, n, config, gateway) ==
  /\ Ask(c) /\ agentRow[n].there
  /\ agentRow' = [agentRow EXCEPT ![n].config = config]
  /\ IF gateway THEN AgentRequest(c, "put", "reading", n, config, TRUE) /\ UNCHANGED unified
     ELSE UNCHANGED call /\ unified' = unified \ {n}
  /\ UNCHANGED <<openclaw, errors>>

ReplaceConfigOfRow(c, n, config) ==
  /\ Ask(c) /\ agentRow[n].there
  /\ agentRow' = [agentRow EXCEPT ![n].config = config, ![n].openclawId = NoName]
  /\ unified' = unified \ {n}
  /\ UNCHANGED <<openclaw, call, errors>>

(* DELETE, with or without remove_workspace.                               *)
DeleteAgent(c, n, workspace) ==
  /\ Ask(c) /\ agentRow[n].there
  /\ AgentRequest(c, "delete", IF workspace THEN "command" ELSE "reading", n, NoConfig, TRUE)
  /\ UNCHANGED <<agentRow, openclaw, errors, unified>>

(* The scheduler's job, its start or its route.                            *)
StartSync(c) ==
  /\ Resting(c)
  /\ AgentRequest(c, "sync", "reading", NoCall.name, NoConfig, FALSE)
  /\ single' = (single /\ NoCalls)
  /\ UNCHANGED <<agentRow, openclaw, wishes, errors, unified>>

-----------------------------------------------------------------------------
(* OpenClaw's command, which writes the file itself.                       *)

CommandEntry(c) ==
  LET n == call[c].name
  IN IF call[c].kind = "post"
     THEN {[openclaw.list EXCEPT ![PostId[n]] = [config |-> v, name |-> NoName]] : v \in Configs}
     ELSE {[openclaw.list EXCEPT ![RemovedId(call[c].row, n)] = NoEntry]}

(* An id is added once, and only one that is there can be deleted.         *)
CommandCan(c) ==
  LET n == call[c].name
  IN /\ openclaw.text = "whole"
     /\ IF call[c].kind = "post" THEN ~HasEntry(openclaw.list, PostId[n])
        ELSE HasEntry(openclaw.list, RemovedId(call[c].row, n))

(* After an INSERT the file is written only if the request asked for it.   *)
CommandSucceeds(c) ==
  /\ call[c].phase = "command" /\ CommandCan(c)
  /\ \E list \in CommandEntry(c) :
       openclaw' = [openclaw EXCEPT !.list = list] /\ unified' = StillUnified(list)
  /\ LET n == call[c].name
     IN CASE call[c].kind = "delete" -> GoesTo(c, "reading") /\ UNCHANGED agentRow
          [] call[c].kind = "post" /\ agentRow[n].there -> Ends(c) /\ UNCHANGED agentRow
          [] OTHER -> /\ agentRow' = Inserted(n, call[c].config)
                      /\ IF call[c].gateway THEN GoesTo(c, "reading") ELSE Ends(c)
  /\ UNCHANGED <<wishes, errors, single>>

(* It fails, or times out after it did what it was asked to.               *)
CommandFails(c) ==
  /\ call[c].phase = "command"
  /\ IF CommandCan(c) THEN errors < MaxErrors /\ errors' = errors + 1 ELSE UNCHANGED errors
  /\ \E list \in {openclaw.list} \cup (IF CommandCan(c) THEN CommandEntry(c) ELSE {}) :
       openclaw' = [openclaw EXCEPT !.list = list] /\ unified' = StillUnified(list)
  /\ Ends(c)
  /\ UNCHANGED <<agentRow, wishes, single>>

-----------------------------------------------------------------------------
(* writeAgentToConfig and removeAgentFromConfig.                           *)

(* An entry that is there is merged with the update, which has no name if  *)
(* it is that of a PUT.                                                    *)
NewList(c, list) ==
  LET n == call[c].name
  IN CASE call[c].kind = "post" ->
            [list EXCEPT ![PostId[n]] = [config |-> Merged(@.config, call[c].config), name |-> n]]
       [] call[c].kind = "put" ->
            [list EXCEPT ![EntryOf(call[c].row, n)].config = Merged(@, call[c].config)]
       [] call[c].kind = "delete" ->
            [i \in Ids |-> IF i = RemovedId(call[c].row, n) \/ list[i].name = n THEN NoEntry
                           ELSE list[i]]
       [] OTHER -> list

(* A DELETE that finds nothing to remove writes nothing.                   *)
ReadConfig(c) ==
  /\ call[c].phase = "reading" /\ openclaw.text = "whole"
  /\ LET list == NewList(c, openclaw.list)
     IN IF call[c].kind = "delete" /\ list = openclaw.list THEN GoesTo(c, "written")
        ELSE call' = [call EXCEPT ![c].phase = "read", ![c].list = list]
  /\ UNCHANGED <<agentRow, openclaw, wishes, errors, unified, single>>

EmptyConfig(c) ==
  /\ call[c].phase = "read" /\ call[c].kind # "sync"
  /\ openclaw' = [openclaw EXCEPT !.text = "empty"]
  /\ GoesTo(c, "emptied")
  /\ UNCHANGED <<agentRow, wishes, errors, unified, single>>

(* Over what another call wrote meanwhile, the end of the longer one may   *)
(* be left.                                                                *)
WriteConfig(c) ==
  /\ call[c].phase = "emptied"
  /\ \E text \in {"whole"} \cup (IF openclaw.text = "empty" THEN {} ELSE {"garbled"}) :
       openclaw' = [text |-> text, list |-> call[c].list]
  /\ unified' = StillUnified(call[c].list)
  /\ call' = [call EXCEPT ![c].phase = "written", ![c].list = NoCall.list]
  /\ UNCHANGED <<agentRow, wishes, errors, single>>

(* The row of an id, which may be gone by then.                            *)
SameRow(c) ==
  LET n == call[c].name IN agentRow[n].there /\ agentRow[n].born = call[c].row.born

RowDeleted(c) ==
  IF SameRow(c)
  THEN [agentRow EXCEPT ![call[c].name] = [NoRow EXCEPT !.born = agentRow[call[c].name].born + 1]]
  ELSE agentRow

(* The file is written.                                                    *)
CallSucceeds(c) ==
  /\ call[c].phase = "written"
  /\ agentRow' = IF call[c].kind = "delete" THEN RowDeleted(c) ELSE agentRow
  /\ unified' = unified \cup {call[c].name}
  /\ Ends(c)
  /\ UNCHANGED <<openclaw, wishes, errors, single>>

(* It cannot be read or parsed, or writing fails before or after the file  *)
(* was emptied: a PUT writes back the row it read, a DELETE warns.         *)
Fails(c) ==
  \/ call[c].phase = "reading" /\ openclaw.text # "whole" /\ UNCHANGED errors
  \/ /\ call[c].phase \in {"reading", "read", "emptied"} /\ errors < MaxErrors
     /\ errors' = errors + 1

CallFails_RowKept(c) ==
  /\ Fails(c)
  /\ agentRow' = IF call[c].kind = "delete" THEN RowDeleted(c) ELSE agentRow
  /\ unified' = IF call[c].kind \in {"post", "delete"} THEN unified \ {call[c].name} ELSE unified
  /\ Ends(c)
  /\ UNCHANGED <<openclaw, wishes, single>>

CallFails(c) ==
  /\ Fails(c)
  /\ agentRow' =
       CASE call[c].kind = "put" /\ SameRow(c) -> [agentRow EXCEPT ![call[c].name] = call[c].row]
         [] call[c].kind = "delete" -> RowDeleted(c)
         [] OTHER -> agentRow
  /\ unified' = IF call[c].kind \in {"post", "delete"} THEN unified \ {call[c].name} ELSE unified
  /\ Ends(c)
  /\ UNCHANGED <<openclaw, wishes, single>>

(* syncAgentsFromConfig, after the await: one transaction. Of entries with *)
(* the same name the last of the list wins.                                *)
SyncedRow(list, i, row) ==
  [row EXCEPT !.there = TRUE, !.config = list[i].config, !.openclawId = i]

SyncApplies_NewOnly(c) ==
  LET list  == call[c].list
      named == {n \in AgentNames : EntriesOf(list, n) # {}}
  IN /\ call[c].phase = "read" /\ call[c].kind = "sync"
     /\ \E last \in [named -> Ids] :
          /\ \A n \in named : last[n] \in EntriesOf(list, n)
          /\ agentRow' = [n \in AgentNames |->
               IF n \in named /\ ~agentRow[n].there THEN SyncedRow(list, last[n], agentRow[n])
               ELSE agentRow[n]]
     /\ unified' = unified \cup named
     /\ Ends(c)
     /\ UNCHANGED <<openclaw, wishes, errors, single>>

SyncApplies(c) ==
  LET list  == call[c].list
      named == {n \in AgentNames : EntriesOf(list, n) # {}}
  IN /\ call[c].phase = "read" /\ call[c].kind = "sync"
     /\ \E last \in [named -> Ids] :
          /\ \A n \in named : last[n] \in EntriesOf(list, n)
          /\ agentRow' = [n \in AgentNames |->
               IF n \in named THEN SyncedRow(list, last[n], agentRow[n]) ELSE agentRow[n]]
     /\ unified' = unified \cup named
     /\ Ends(c)
     /\ UNCHANGED <<openclaw, wishes, errors, single>>

-----------------------------------------------------------------------------
(* OpenClaw, or a person with an editor: an entry is made, changed or      *)
(* removed. It is named, if at all, as its id is made.                     *)
OpenClawWrites(i, entry) ==
  /\ openclaw.text = "whole" /\ wishes < MaxWishes
  /\ entry.config = NoConfig => entry = NoEntry
  /\ entry.name # NoName => i \in {PostId[entry.name], PutId[entry.name]}
  /\ wishes' = wishes + 1
  /\ LET list == [openclaw.list EXCEPT ![i] = entry]
     IN openclaw' = [openclaw EXCEPT !.list = list] /\ unified' = StillUnified(list)
  /\ single' = (single /\ NoCalls)
  /\ UNCHANGED <<agentRow, call, errors>>

RestartCalls ==
  /\ ~NoCalls /\ errors < MaxErrors
  /\ errors' = errors + 1
  /\ call' = [c \in Callers |-> NoCall]
  /\ single' = FALSE
  /\ UNCHANGED <<agentRow, openclaw, wishes, unified>>

CallStep(c) ==
  \/ CommandSucceeds(c) \/ CommandFails(c) \/ ReadConfig(c) \/ EmptyConfig(c) \/ WriteConfig(c)
  \/ CallSucceeds(c) \/ CallFails(c) \/ SyncApplies(c)

AgentNext ==
  \/ \E c \in Callers : StartSync(c) \/ CallStep(c)
  \/ \E c \in Callers, n \in AgentNames, config \in Configs, gateway \in BOOLEAN :
       \/ \E provision \in BOOLEAN : PostAgent(c, n, config, gateway, provision)
       \/ PutAgent(c, n, config, gateway) \/ ReplaceConfigOfRow(c, n, config)
  \/ \E c \in Callers, n \in AgentNames, workspace \in BOOLEAN : DeleteAgent(c, n, workspace)
  \/ \E i \in Ids, entry \in AgentEntry : OpenClawWrites(i, entry)
  \/ RestartCalls

AgentSpec == AgentInit /\ [][AgentNext]_agentVars

-----------------------------------------------------------------------------
(* The three regexes make the same id of some names only.                  *)
Plain(n) == PostId[n] = PutId[n] /\ PutId[n] = DeleteId[n]

(* What is set in the row is so in the entry, which may keep more.         *)
Within(row, entry) == \A k \in ConfigFields : row.config[k] # Unset => entry.config[k] = row.config[k]

Agree(n) ==
  IF agentRow[n].there THEN Within(agentRow[n], openclaw.list[EntryOf(agentRow[n], n)])
  ELSE EntriesOf(openclaw.list, n) = {}

(* The two halves of a save stay together: as long as calls come one after *)
(* the other, the entry of an agent has everything that its row says of    *)
(* the field after a save with write-back, a deletion or a sync, and still *)
(* does after later saves failed halfway, which the route undoes "to keep  *)
(* consistency". It may have more, as one merges where the other replaces. *)
SaveIsUnified ==
  single /\ NoCalls /\ openclaw.text = "whole" => \A n \in unified : Plain(n) => Agree(n)

(* Whatever calls that overlap made of the file and the rows, the sync     *)
(* brings the rows to what the file says in the end, unless the file was   *)
(* left unreadable or two entries claim one name.                          *)
Mirrored ==
  \A i \in Ids : HasEntry(openclaw.list, i) =>
    LET n == NameOf(openclaw.list, i)
    IN EntriesOf(openclaw.list, n) = {i} =>
         agentRow[n].there /\ agentRow[n].config = openclaw.list[i].config
FileIsMirrored == <>[](openclaw.text = "whole" => Mirrored)

=============================================================================
