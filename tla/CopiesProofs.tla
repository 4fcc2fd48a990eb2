----------------------------- MODULE CopiesProofs -----------------------------
(* Proofs for the components that keep a copy of what changes elsewhere:   *)
(* the agents in a configuration file, the tasks on the page's board, and  *)
(* the skills on disk. The modules share no state: each theorem is about   *)
(* the specification of one, and the last one puts them together.          *)
EXTENDS MCCopies, TLAPS

-----------------------------------------------------------------------------
(* Agents as rows and as entries of OpenClaw's configuration file.         *)

(* What a call is of, without the bounds of the instance.                  *)
WideRow == [there : BOOLEAN, born : Nat, config : Configs \cup {NoConfig},
            openclawId : Ids \cup {NoName}]
WideCall == [kind : {"none", "post", "put", "delete", "sync"},
             phase : {"idle", "command", "reading", "read", "emptied", "written"},
             name : AgentNames, config : Configs \cup {NoConfig}, gateway : BOOLEAN,
             row : WideRow, list : [Ids -> AgentEntry]]

AgentShape ==
  /\ agentRow \in [AgentNames -> WideRow]
  /\ openclaw \in [text : {"whole", "empty", "garbled"}, list : [Ids -> AgentEntry]]
  /\ call \in [Callers -> WideCall]
  /\ unified \subseteq AgentNames
  /\ single \in BOOLEAN
  /\ \A c \in Callers : call[c].kind = "none" => Resting(c)

(* An entry is named as one of the ids the routes make of the name.        *)
NamedByRoute(list) ==
  \A i \in Ids : list[i].name # NoName => i \in {PostId[list[i].name], PutId[list[i].name]}

(* There is one entry a row with a plain name may be about.                *)
OwnEntry(row, n) == Plain(n) => EntryOf(row, n) = PutId[n]

Entries ==
  /\ NamedByRoute(openclaw.list)
  /\ \A n \in AgentNames : OwnEntry(agentRow[n], n)
  /\ \A c \in Callers : NamedByRoute(call[c].list) /\ OwnEntry(call[c].row, call[c].name)

(* What the only call under way may rely on, by its kind and phase.        *)
PostUnderWay(c) ==
  LET n == call[c].name
  IN /\ n \notin unified
     /\ IF call[c].phase = "command" THEN agentRow[n].there => FALSE
        ELSE agentRow[n].there /\ agentRow[n].config = call[c].config /\ agentRow[n].openclawId = NoName

PutUnderWay(c) ==
  LET n == call[c].name
  IN /\ agentRow[n] = [call[c].row EXCEPT !.config = call[c].config]
     /\ call[c].row.there /\ call[c].phase # "command"
     /\ n \in unified /\ Plain(n) /\ call[c].phase # "written" =>
          Within(call[c].row, openclaw.list[PutId[n]])

DeleteUnderWay(c) == agentRow[call[c].name] = call[c].row

SyncUnderWay(c) == call[c].phase \in {"reading", "read"}

UnderWay(c) ==
  /\ call[c].kind = "post" => PostUnderWay(c)
  /\ call[c].kind = "put" => PutUnderWay(c)
  /\ call[c].kind = "delete" => DeleteUnderWay(c)
  /\ call[c].kind = "sync" => SyncUnderWay(c)
  /\ call[c].phase = "emptied" => openclaw.text = "empty"
  /\ call[c].phase \in {"read", "emptied"} => call[c].list = NewList(c, openclaw.list)
  /\ call[c].phase = "written" => openclaw.list = NewList(c, openclaw.list)

Single ==
  /\ \A c, d \in Callers : ~Resting(c) /\ ~Resting(d) => c = d
  /\ \A n \in unified : Plain(n) =>
       Agree(n) \/ \E c \in Callers : call[c].kind = "put" /\ call[c].name = n
  /\ \A c \in Callers : ~Resting(c) => UnderWay(c)

AgentInv == AgentShape /\ Entries /\ (single => Single)

LEMMA AgentIds ==
  /\ Ids \subseteq AgentNames
  /\ \A n \in AgentNames : PostId[n] \in Ids /\ PutId[n] \in Ids /\ DeleteId[n] \in Ids
  /\ \A i \in Ids : DeleteId[i] = i
  BY AgentAssumption

LEMMA NoCallOK ==
  /\ NoCall \in WideCall /\ NoCall.kind = "none" /\ NoCall.phase = "idle"
  /\ NoEntry \in AgentEntry /\ NoEntry.name = NoName /\ NoEntry.config = NoConfig
  /\ NoRow \in WideRow
  /\ NamedByRoute(NoCall.list) /\ \A n \in AgentNames : OwnEntry(NoRow, n)
  /\ NoCall.row = NoRow
  <1>1. NoEntry \in AgentEntry /\ NoEntry.name = NoName /\ NoEntry.config = NoConfig
    BY DEF NoEntry, AgentEntry
  <1>2. NoRow \in WideRow /\ NoRow.openclawId = NoName
    BY DEF NoRow, WideRow
  <1>3. NoCall \in WideCall
    BY <1>1, <1>2, AgentAssumption DEF NoCall, WideCall
  <1>4. NoCall.list = [i \in Ids |-> NoEntry] /\ NoCall.row = NoRow
        /\ NoCall.kind = "none" /\ NoCall.phase = "idle"
    BY DEF NoCall
  <1> QED BY <1>1, <1>2, <1>3, <1>4 DEF NamedByRoute, OwnEntry, EntryOf

(* The id of the entry a row is about.                                     *)
LEMMA EntryIsId ==
  ASSUME NEW n \in AgentNames, NEW row \in WideRow
  PROVE  /\ EntryOf(row, n) \in Ids /\ RemovedId(row, n) \in Ids
         /\ Plain(n) /\ OwnEntry(row, n) => EntryOf(row, n) = PutId[n] /\ RemovedId(row, n) = PutId[n]
  <1>1. row.openclawId \in Ids \cup {NoName}
    BY DEF WideRow
  <1> QED BY <1>1, AgentIds DEF EntryOf, RemovedId, OwnEntry, Plain

(* What a merge makes of configurations: once more, it changes nothing.    *)
LEMMA Merging ==
  ASSUME NEW old \in Configs \cup {NoConfig}, NEW new \in Configs \cup {NoConfig}
  PROVE  /\ Merged(old, new) \in Configs \cup {NoConfig}
         /\ Merged(Merged(old, new), new) = Merged(old, new)
         /\ \A k \in ConfigFields : new[k] # Unset => Merged(old, new)[k] = new[k]
  <1>1. /\ NoConfig \notin Configs
        /\ \A v, w \in Configs : Merged(v, w) \in Configs
        /\ new = [k \in ConfigFields |-> new[k]]
    BY AgentAssumption DEF NoConfig
  <1>2. CASE old = NoConfig
    <2>1. Merged(old, new) = new
      BY <1>2 DEF Merged
    <2>2. Merged(new, new) = new
      BY <1>1 DEF Merged
    <2> QED BY <2>1, <2>2
  <1>3. CASE old # NoConfig
    <2> DEFINE m == [k \in ConfigFields |-> IF new[k] = Unset THEN old[k] ELSE new[k]]
    <2>1. Merged(old, new) = m
      BY <1>3 DEF Merged
    <2>2. CASE new = NoConfig
      <3>1. \A k \in ConfigFields : new[k] # Unset
        BY <2>2 DEF NoConfig, Unset
      <3>2. m = [k \in ConfigFields |-> new[k]]
        BY <3>1
      <3>3. m = NoConfig
        BY <1>1, <2>2, <3>2
      <3>4. Merged(NoConfig, new) = new
        BY DEF Merged
      <3> QED BY <2>1, <2>2, <3>3, <3>4
    <2>3. CASE new # NoConfig
      <3>1. m \in Configs /\ m # NoConfig
        BY <1>1, <1>3, <2>1, <2>3
      <3>2. Merged(m, new) = [k \in ConfigFields |-> IF new[k] = Unset THEN m[k] ELSE new[k]]
        BY <3>1 DEF Merged
      <3>3. \A k \in ConfigFields : m[k] = IF new[k] = Unset THEN old[k] ELSE new[k]
        OBVIOUS
      <3>4. \A k \in ConfigFields : (IF new[k] = Unset THEN m[k] ELSE new[k])
                                    = (IF new[k] = Unset THEN old[k] ELSE new[k])
        BY <3>3
      <3>5. Merged(m, new) = m
        BY <3>2, <3>4
      <3> QED BY <2>1, <3>1, <3>3, <3>5
    <2> QED BY <2>2, <2>3
  <1> QED BY <1>2, <1>3

(* What a route makes of the list is a list, with its names in place.      *)
LEMMA NewListOK ==
  ASSUME NEW c \in Callers, call[c] \in WideCall, NEW list \in [Ids -> AgentEntry],
         NamedByRoute(list)
  PROVE  NewList(c, list) \in [Ids -> AgentEntry] /\ NamedByRoute(NewList(c, list))
  <1> DEFINE n == call[c].name
  <1>1. /\ n \in AgentNames /\ call[c].config \in Configs \cup {NoConfig} /\ call[c].row \in WideRow
        /\ call[c].kind \in {"none", "post", "put", "delete", "sync"}
    BY DEF WideCall
  <1>2. CASE call[c].kind = "post"
    <2> DEFINE i == PostId[n]
               v == Merged(list[i].config, call[c].config)
    <2>1. NewList(c, list) = [list EXCEPT ![i] = [config |-> v, name |-> n]]
      BY <1>2 DEF NewList
    <2>2. i \in Ids /\ list[i].config \in Configs \cup {NoConfig}
      BY <1>1, AgentIds DEF AgentEntry
    <2>3. v \in Configs \cup {NoConfig}
      BY <1>1, <2>2, Merging
    <2> HIDE DEF v
    <2>4. [config |-> v, name |-> n] \in AgentEntry /\ [config |-> v, name |-> n].name = n
      BY <1>1, <2>3 DEF AgentEntry
    <2> QED BY <2>1, <2>2, <2>4 DEF NamedByRoute
  <1>3. CASE call[c].kind = "put"
    <2> DEFINE i == EntryOf(call[c].row, n)
               v == Merged(list[i].config, call[c].config)
    <2>1. i \in Ids /\ list[i] \in AgentEntry
      BY <1>1, EntryIsId
    <2>2. NewList(c, list) = [list EXCEPT ![i] = [list[i] EXCEPT !.config = v]]
      BY <1>3, <2>1 DEF NewList
    <2>3. v \in Configs \cup {NoConfig}
      BY <1>1, <2>1, Merging DEF AgentEntry
    <2> HIDE DEF i, v
    <2>4. /\ [list[i] EXCEPT !.config = v] \in AgentEntry
          /\ [list[i] EXCEPT !.config = v].name = list[i].name
      BY <2>1, <2>3 DEF AgentEntry
    <2> QED BY <2>1, <2>2, <2>4 DEF NamedByRoute
  <1>4. CASE call[c].kind = "delete"
    <2>1. NewList(c, list) = [i \in Ids |-> IF i = RemovedId(call[c].row, n) \/ list[i].name = n THEN NoEntry
                                            ELSE list[i]]
      BY <1>4 DEF NewList
    <2> QED BY <2>1, NoCallOK DEF NamedByRoute
  <1>5. CASE call[c].kind \in {"none", "sync"}
    BY <1>5 DEF NewList
  <1> QED BY <1>1, <1>2, <1>3, <1>4, <1>5

(* Whoever is still unified with a new list agrees with it.                *)
LEMMA AgreeStays ==
  ASSUME AgentShape, NEW list \in [Ids -> AgentEntry], openclaw'.list = list,
         NEW n \in StillUnified(list), agentRow'[n] = agentRow[n], Agree(n)
  PROVE  Agree(n)'
  <1>1. /\ n \in AgentNames /\ agentRow[n] \in WideRow
        /\ EntryOf(agentRow[n], n) \notin Changed(list)
        /\ \A i \in Changed(list) : NameOf(list, i) # n
    BY DEF StillUnified, AgentShape
  <1>2. EntryOf(agentRow[n], n) \in Ids
    BY <1>1, EntryIsId
  <1>3. CASE agentRow[n].there
    <2>1. list[EntryOf(agentRow[n], n)] = openclaw.list[EntryOf(agentRow[n], n)]
      BY <1>1, <1>2 DEF Changed
    <2> QED BY <1>3, <2>1 DEF Agree, EntryOf, Within
  <1>4. CASE ~agentRow[n].there
    <2>1. EntriesOf(openclaw.list, n) = {}
      BY <1>4 DEF Agree
    <2>2. EntriesOf(list, n) = {}
      BY <1>1, <2>1 DEF EntriesOf, HasEntry, NameOf, Changed
    <2> QED BY <1>4, <2>2 DEF Agree, EntriesOf, HasEntry, NameOf
  <1> QED BY <1>3, <1>4

LEMMA AgreeSame ==
  ASSUME NEW n, agentRow'[n] = agentRow[n], openclaw'.list = openclaw.list, Agree(n)
  PROVE  Agree(n)'
  BY DEF Agree, EntryOf, EntriesOf, HasEntry, NameOf, Within

(* At rest all that are unified agree.                                     *)
LEMMA RestingAgree ==
  ASSUME AgentShape, Single, NoCalls, NEW n \in unified, Plain(n)
  PROVE  Agree(n)
  <1>1. \A c \in Callers : call[c].kind # "put"
    BY NoCallOK DEF NoCalls, Resting
  <1> QED BY <1>1 DEF Single

(* A step that leaves at most one call under way.                          *)
LEMMA OneCall ==
  ASSUME AgentShape, NEW c \in Callers, \A d \in Callers \ {c} : call'[d] = NoCall,
         call'[c] = NoCall \/ UnderWay(c)',
         \A n \in unified' : Plain(n) => Agree(n)' \/ (call'[c].kind = "put" /\ call'[c].name = n)
  PROVE  Single'
  BY DEF Single, Resting

LEMMA AgentInitial == AgentInit => AgentInv
  <1> SUFFICES ASSUME AgentInit PROVE AgentInv
    OBVIOUS
  <1>1. \A c \in Callers : call[c] = NoCall
    BY DEF AgentInit
  <1> DEFINE One == CHOOSE v \in Configs : TRUE
             Some == [NoEntry EXCEPT !.config = One]
  <1>2. Some \in AgentEntry /\ Some.name = NoName
    <2>1. One \in Configs
      BY AgentAssumption
    <2> HIDE DEF One
    <2>2. NoEntry \in AgentEntry /\ NoEntry.name = NoName
      BY NoCallOK
    <2> QED BY <2>1, <2>2 DEF AgentEntry
  <1>3. openclaw \in [text : {"whole"}, list : [Ids -> {NoEntry, Some}]]
    BY DEF AgentInit
  <1> HIDE DEF Some
  <1>4. openclaw \in [text : {"whole", "empty", "garbled"}, list : [Ids -> AgentEntry]]
        /\ NamedByRoute(openclaw.list)
    BY <1>2, <1>3, NoCallOK DEF NamedByRoute
  <1>5. AgentShape
    BY <1>1, <1>4, NoCallOK DEF AgentInit, AgentShape, Resting
  <1>6. Entries
    BY <1>1, <1>4, NoCallOK, AgentAssumption DEF AgentInit, Entries, OwnEntry, NoCall
  <1>7. Single
    BY <1>1 DEF AgentInit, Single, Resting
  <1> QED BY <1>5, <1>6, <1>7 DEF AgentInv

(* A request comes: its call holds the row it found.                       *)
LEMMA RequestOK ==
  ASSUME AgentShape, Entries, NEW c \in Callers, NEW n \in AgentNames,
         NEW kind \in {"post", "put", "delete", "sync"}, NEW phase \in {"command", "reading"},
         NEW config \in Configs \cup {NoConfig}, NEW gateway \in BOOLEAN,
         AgentRequest(c, kind, phase, n, config, gateway)
  PROVE  /\ call' \in [Callers -> WideCall]
         /\ \A d \in Callers \ {c} : call'[d] = call[d]
         /\ call'[c].kind = kind /\ call'[c].phase = phase /\ call'[c].name = n
         /\ call'[c].config = config /\ call'[c].row = agentRow[n]
         /\ NamedByRoute(call'[c].list) /\ OwnEntry(call'[c].row, call'[c].name)
  <1> DEFINE new == [NoCall EXCEPT !.kind = kind, !.phase = phase, !.name = n, !.config = config,
                                   !.gateway = gateway, !.row = agentRow[n]]
  <1>1. /\ new \in WideCall /\ new.kind = kind /\ new.phase = phase /\ new.name = n
        /\ new.config = config /\ new.row = agentRow[n] /\ new.list = NoCall.list
    <2>1. NoCall \in WideCall /\ agentRow[n] \in WideRow
      BY NoCallOK DEF AgentShape
    <2> QED BY <2>1 DEF WideCall
  <1>2. call' = [call EXCEPT ![c] = new] /\ call \in [Callers -> WideCall]
    BY DEF AgentRequest, AgentShape
  <1> HIDE DEF new
  <1>3. call'[c] = new /\ \A d \in Callers \ {c} : call'[d] = call[d]
    BY <1>2
  <1>4. NamedByRoute(new.list) /\ OwnEntry(new.row, new.name)
    BY <1>1, NoCallOK DEF Entries
  <1> QED BY <1>1, <1>2, <1>3, <1>4

LEMMA RowOK ==
  ASSUME NEW n \in AgentNames, NEW row \in WideRow, OwnEntry(row, n),
         NEW config \in Configs \cup {NoConfig}
  PROVE  /\ [row EXCEPT !.config = config] \in WideRow
         /\ [row EXCEPT !.config = config].openclawId = row.openclawId
         /\ OwnEntry([row EXCEPT !.config = config], n)
         /\ [row EXCEPT !.config = config, !.openclawId = NoName] \in WideRow
         /\ OwnEntry([row EXCEPT !.config = config, !.openclawId = NoName], n)
         /\ [row EXCEPT !.there = TRUE, !.config = config, !.openclawId = NoName] \in WideRow
         /\ OwnEntry([row EXCEPT !.there = TRUE, !.config = config, !.openclawId = NoName], n)
  BY DEF WideRow, OwnEntry, EntryOf

LEMMA PostKeeps ==
  ASSUME AgentInv, NEW c \in Callers, NEW n \in AgentNames, NEW config \in Configs,
         NEW gateway \in BOOLEAN, NEW provision \in BOOLEAN,
         PostAgent(c, n, config, gateway, provision)
  PROVE  AgentInv'
  <1>1. /\ Resting(c) /\ ~agentRow[n].there /\ single' = (single /\ NoCalls)
        /\ unified' = unified \ {n} /\ openclaw' = openclaw
        /\ AgentShape /\ Entries /\ (single => Single)
    BY DEF PostAgent, Ask, AgentInv
  <1> DEFINE new == [agentRow[n] EXCEPT !.there = TRUE, !.config = config, !.openclawId = NoName]
  <1>2. /\ \A m \in AgentNames \ {n} : agentRow'[m] = agentRow[m]
        /\ agentRow'[n] = IF provision THEN agentRow[n] ELSE new
        /\ agentRow' \in [AgentNames -> WideRow] /\ OwnEntry(agentRow'[n], n)
    <2>1. agentRow \in [AgentNames -> WideRow] /\ OwnEntry(agentRow[n], n)
      BY <1>1 DEF AgentShape, Entries
    <2>2. new \in WideRow /\ OwnEntry(new, n)
      BY <2>1, RowOK
    <2>3. agentRow' = IF provision THEN agentRow ELSE [agentRow EXCEPT ![n] = new]
      BY DEF PostAgent, Inserted
    <2> HIDE DEF new
    <2> QED BY <2>1, <2>2, <2>3
  <1>3. new.there /\ new.config = config /\ new.openclawId = NoName
    BY <1>1 DEF AgentShape, WideRow
  <1> HIDE DEF new
  <1>4. /\ call' \in [Callers -> WideCall]
        /\ \A d \in Callers \ {c} : call'[d] = call[d]
        /\ NamedByRoute(call'[c].list) /\ OwnEntry(call'[c].row, call'[c].name)
        /\ \/ call'[c] = NoCall
           \/ /\ call'[c].kind = "post" /\ call'[c].name = n /\ call'[c].config = config
              /\ call'[c].phase = IF provision THEN "command" ELSE "reading"
    <2>1. CASE provision \/ gateway
      <3> DEFINE phase == IF provision THEN "command" ELSE "reading"
      <3>1. AgentRequest(c, "post", phase, n, config, gateway)
        BY <2>1 DEF PostAgent
      <3>2. phase \in {"command", "reading"}
        OBVIOUS
      <3> HIDE DEF phase
      <3>3. /\ call' \in [Callers -> WideCall]
            /\ \A d \in Callers \ {c} : call'[d] = call[d]
            /\ call'[c].kind = "post" /\ call'[c].phase = phase /\ call'[c].name = n
            /\ call'[c].config = config
            /\ NamedByRoute(call'[c].list) /\ OwnEntry(call'[c].row, call'[c].name)
        BY <1>1, <3>1, <3>2, RequestOK
      <3> QED BY <3>3 DEF phase
    <2>2. CASE ~(provision \/ gateway)
      BY <1>1, <2>2 DEF PostAgent, Resting, AgentShape, Entries
    <2> QED BY <2>1, <2>2
  <1>5. AgentShape'
    BY <1>1, <1>2, <1>4 DEF AgentShape, Resting
  <1>6. Entries'
    BY <1>1, <1>2, <1>4 DEF Entries
  <1>7. ASSUME single' PROVE Single'
    <2>1. Single /\ NoCalls /\ \A d \in Callers \ {c} : call'[d] = NoCall
      BY <1>1, <1>4, <1>7 DEF NoCalls, Resting
    <2>2. \A m \in unified' : Plain(m) => Agree(m)'
      <3> SUFFICES ASSUME NEW m \in unified', Plain(m) PROVE Agree(m)'
        OBVIOUS
      <3>1. m \in unified /\ m # n /\ m \in AgentNames
        BY <1>1 DEF AgentShape
      <3>2. Agree(m)
        BY <1>1, <2>1, <3>1, RestingAgree
      <3> QED BY <1>1, <1>2, <3>1, <3>2, AgreeSame
    <2>3. call'[c] = NoCall \/ UnderWay(c)'
      BY <1>1, <1>2, <1>3, <1>4 DEF UnderWay, PostUnderWay
    <2> QED BY <1>5, <2>1, <2>2, <2>3 DEF Single, Resting
  <1> QED BY <1>5, <1>6, <1>7 DEF AgentInv

LEMMA PutKeeps ==
  ASSUME AgentInv, NEW c \in Callers, NEW n \in AgentNames, NEW config \in Configs,
         NEW gateway \in BOOLEAN, PutAgent(c, n, config, gateway)
  PROVE  AgentInv'
  <1>1. /\ Resting(c) /\ agentRow[n].there /\ single' = (single /\ NoCalls)
        /\ openclaw' = openclaw /\ agentRow' = [agentRow EXCEPT ![n].config = config]
        /\ AgentShape /\ Entries /\ (single => Single)
    BY DEF PutAgent, Ask, AgentInv
  <1> DEFINE new == [agentRow[n] EXCEPT !.config = config]
  <1>2. /\ \A m \in AgentNames \ {n} : agentRow'[m] = agentRow[m]
        /\ agentRow'[n] = new
        /\ agentRow' \in [AgentNames -> WideRow] /\ OwnEntry(agentRow'[n], n)
    <2>1. agentRow \in [AgentNames -> WideRow] /\ OwnEntry(agentRow[n], n)
      BY <1>1 DEF AgentShape, Entries
    <2>2. new \in WideRow /\ OwnEntry(new, n)
      BY <2>1, RowOK
    <2>3. agentRow' = [agentRow EXCEPT ![n] = new]
      BY <1>1, <2>1
    <2> HIDE DEF new
    <2> QED BY <2>1, <2>2, <2>3
  <1>3. CASE gateway
    <2>1. AgentRequest(c, "put", "reading", n, config, TRUE) /\ unified' = unified
      BY <1>3 DEF PutAgent
    <2>2. /\ call' \in [Callers -> WideCall]
          /\ \A d \in Callers \ {c} : call'[d] = call[d]
          /\ call'[c].kind = "put" /\ call'[c].phase = "reading" /\ call'[c].name = n
          /\ call'[c].config = config /\ call'[c].row = agentRow[n]
          /\ NamedByRoute(call'[c].list) /\ OwnEntry(call'[c].row, call'[c].name)
      BY <1>1, <2>1, RequestOK
    <2>3. AgentShape' /\ Entries'
      BY <1>1, <1>2, <2>1, <2>2 DEF AgentShape, Entries, Resting
    <2>4. ASSUME single' PROVE Single'
      <3>1. Single /\ NoCalls /\ \A d \in Callers \ {c} : call'[d] = NoCall
        BY <1>1, <2>2, <2>4 DEF NoCalls, Resting
      <3>2. \A m \in unified' : Plain(m) => Agree(m)' \/ m = n
        <4> SUFFICES ASSUME NEW m \in unified', Plain(m), m # n PROVE Agree(m)'
          OBVIOUS
        <4>1. m \in unified /\ m \in AgentNames
          BY <1>1, <2>1 DEF AgentShape
        <4>2. Agree(m)
          BY <1>1, <3>1, <4>1, RestingAgree
        <4> QED BY <1>1, <1>2, <4>1, <4>2, AgreeSame
      <3>3. n \in unified /\ Plain(n) => Within(agentRow[n], openclaw.list[PutId[n]])
        <4> SUFFICES ASSUME n \in unified, Plain(n)
                     PROVE  Within(agentRow[n], openclaw.list[PutId[n]])
          OBVIOUS
        <4>1. Agree(n)
          BY <1>1, <3>1, RestingAgree
        <4> QED BY <1>1, <4>1 DEF Agree, Entries, OwnEntry
      <3>4. UnderWay(c)'
        BY <1>1, <1>2, <2>1, <2>2, <3>3 DEF UnderWay, PutUnderWay, Within
      <3> QED BY <2>2, <3>1, <3>2, <3>4 DEF Single, Resting
    <2> QED BY <2>3, <2>4 DEF AgentInv
  <1>4. CASE ~gateway
    <2>1. call' = call /\ unified' = unified \ {n}
      BY <1>4 DEF PutAgent
    <2>2. AgentShape' /\ Entries'
      BY <1>1, <1>2, <2>1 DEF AgentShape, Entries, Resting
    <2>3. ASSUME single' PROVE Single'
      <3>1. Single /\ NoCalls
        BY <1>1, <2>3
      <3>2. \A m \in unified' : Plain(m) => Agree(m)'
        <4> SUFFICES ASSUME NEW m \in unified', Plain(m) PROVE Agree(m)'
          OBVIOUS
        <4>1. m \in unified /\ m # n /\ m \in AgentNames
          BY <1>1, <2>1 DEF AgentShape
        <4>2. Agree(m)
          BY <1>1, <3>1, <4>1, RestingAgree
        <4> QED BY <1>1, <1>2, <4>1, <4>2, AgreeSame
      <3> QED BY <2>1, <3>1, <3>2 DEF Single, NoCalls, Resting
    <2> QED BY <2>2, <2>3 DEF AgentInv
  <1> QED BY <1>3, <1>4

LEMMA ReplaceKeeps ==
  ASSUME AgentInv, NEW c \in Callers, NEW n \in AgentNames, NEW config \in Configs,
         ReplaceConfigOfRow(c, n, config)
  PROVE  AgentInv'
  <1>1. /\ single' = (single /\ NoCalls) /\ UNCHANGED <<openclaw, call>>
        /\ unified' = unified \ {n}
        /\ AgentShape /\ Entries /\ (single => Single)
    BY DEF ReplaceConfigOfRow, Ask, AgentInv
  <1> DEFINE new == [agentRow[n] EXCEPT !.config = config, !.openclawId = NoName]
  <1>2. /\ \A m \in AgentNames \ {n} : agentRow'[m] = agentRow[m]
        /\ agentRow' \in [AgentNames -> WideRow] /\ OwnEntry(agentRow'[n], n)
    <2>1. agentRow \in [AgentNames -> WideRow] /\ OwnEntry(agentRow[n], n)
      BY <1>1 DEF AgentShape, Entries
    <2>2. new \in WideRow /\ OwnEntry(new, n)
      BY <2>1, RowOK
    <2>3. agentRow' = [agentRow EXCEPT ![n] = new]
      BY <2>1 DEF ReplaceConfigOfRow
    <2> HIDE DEF new
    <2> QED BY <2>1, <2>2, <2>3
  <1>3. AgentShape' /\ Entries'
    BY <1>1, <1>2 DEF AgentShape, Entries, Resting
  <1>4. ASSUME single' PROVE Single'
    <2>1. Single /\ NoCalls
      BY <1>1, <1>4
    <2>2. \A m \in unified' : Plain(m) => Agree(m)'
      <3> SUFFICES ASSUME NEW m \in unified', Plain(m) PROVE Agree(m)'
        OBVIOUS
      <3>1. m \in unified /\ m # n /\ m \in AgentNames
        BY <1>1 DEF AgentShape
      <3>2. Agree(m)
        BY <1>1, <2>1, <3>1, RestingAgree
      <3> QED BY <1>1, <1>2, <3>1, <3>2, AgreeSame
    <2> QED BY <1>1, <2>1, <2>2 DEF Single, NoCalls, Resting
  <1> QED BY <1>3, <1>4 DEF AgentInv

(* A DELETE or a sync starts: the rows and the file stay as they are.      *)
LEMMA StartKeeps ==
  ASSUME AgentInv, NEW c \in Callers, NEW n \in AgentNames,
         NEW kind \in {"delete", "sync"}, NEW phase \in {"command", "reading"},
         kind = "sync" => phase = "reading", NEW gateway \in BOOLEAN,
         AgentRequest(c, kind, phase, n, NoConfig, gateway),
         UNCHANGED <<agentRow, openclaw, unified>>, single' = (single /\ NoCalls)
  PROVE  AgentInv'
  <1>1. AgentShape /\ Entries /\ (single => Single)
    BY DEF AgentInv
  <1>2. /\ call' \in [Callers -> WideCall]
        /\ \A d \in Callers \ {c} : call'[d] = call[d]
        /\ call'[c].kind = kind /\ call'[c].phase = phase /\ call'[c].name = n
        /\ call'[c].row = agentRow[n]
        /\ NamedByRoute(call'[c].list) /\ OwnEntry(call'[c].row, call'[c].name)
    BY <1>1, RequestOK
  <1>3. AgentShape' /\ Entries'
    BY <1>1, <1>2 DEF AgentShape, Entries, Resting
  <1>4. ASSUME single' PROVE Single'
    <2>1. Single /\ NoCalls /\ \A d \in Callers \ {c} : call'[d] = NoCall
      BY <1>1, <1>2, <1>4 DEF NoCalls, Resting
    <2>2. \A m \in unified' : Plain(m) => Agree(m)'
      <3> SUFFICES ASSUME NEW m \in unified', Plain(m) PROVE Agree(m)'
        OBVIOUS
      <3>1. Agree(m)
        BY <1>1, <2>1, RestingAgree
      <3> QED BY <3>1, AgreeSame
    <2>3. UnderWay(c)'
      BY <1>2 DEF UnderWay, DeleteUnderWay, SyncUnderWay
    <2> QED BY <2>1, <2>2, <2>3 DEF Single, Resting
  <1> QED BY <1>3, <1>4 DEF AgentInv

(* The file gets a new list, and only those stay unified that it is not    *)
(* about.                                                                  *)
LEMMA AgreeAfterWrite ==
  ASSUME AgentShape, Single, NEW list \in [Ids -> AgentEntry], openclaw'.list = list,
         unified' \subseteq StillUnified(list), NEW m \in unified', Plain(m),
         agentRow'[m] = agentRow[m],
         \A c \in Callers : ~(call[c].kind = "put" /\ call[c].name = m)
  PROVE  Agree(m)'
  <1>1. m \in StillUnified(list) /\ m \in unified
    BY DEF StillUnified
  <1>2. Agree(m)
    BY <1>1 DEF Single
  <1> QED BY <1>1, <1>2, AgreeStays

LEMMA OpenClawKeeps ==
  ASSUME AgentInv, NEW i \in Ids, NEW entry \in AgentEntry, OpenClawWrites(i, entry)
  PROVE  AgentInv'
  <1> DEFINE list == [openclaw.list EXCEPT ![i] = entry]
  <1>1. /\ single' = (single /\ NoCalls) /\ UNCHANGED <<agentRow, call>>
        /\ openclaw' = [openclaw EXCEPT !.list = list] /\ unified' = StillUnified(list)
        /\ entry.name # NoName => i \in {PostId[entry.name], PutId[entry.name]}
        /\ AgentShape /\ Entries /\ (single => Single)
    BY DEF OpenClawWrites, AgentInv
  <1>2. list \in [Ids -> AgentEntry] /\ NamedByRoute(list)
    BY <1>1 DEF AgentShape, Entries, NamedByRoute
  <1> HIDE DEF list
  <1>3. openclaw'.list = list
        /\ openclaw' \in [text : {"whole", "empty", "garbled"}, list : [Ids -> AgentEntry]]
    BY <1>1, <1>2 DEF AgentShape
  <1>4. AgentShape' /\ Entries'
    BY <1>1, <1>2, <1>3 DEF AgentShape, Entries, Resting, StillUnified
  <1>5. ASSUME single' PROVE Single'
    <2>1. Single /\ NoCalls
      BY <1>1, <1>5
    <2>2. \A c \in Callers : call[c].kind # "put"
      BY <2>1, NoCallOK DEF NoCalls, Resting
    <2>3. \A m \in unified' : Plain(m) => Agree(m)'
      BY <1>1, <1>2, <1>3, <2>1, <2>2, AgreeAfterWrite
    <2> QED BY <1>1, <2>1, <2>3 DEF Single, NoCalls, Resting
  <1> QED BY <1>4, <1>5 DEF AgentInv

(* A call that is alone.                                                   *)
LEMMA Alone ==
  ASSUME AgentInv, single, NEW c \in Callers, ~Resting(c)
  PROVE  /\ UnderWay(c) /\ Single /\ \A d \in Callers \ {c} : call[d] = NoCall
         /\ call[c].kind # "none"
         /\ \A m \in unified : Plain(m) /\ (call[c].kind # "put" \/ call[c].name # m) => Agree(m)
         /\ \A m : (call[c].kind # "put" \/ call[c].name # m) =>
              \A d \in Callers : ~(call[d].kind = "put" /\ call[d].name = m)
  <1>1. AgentShape /\ Single
    BY DEF AgentInv
  <1>2. \A d \in Callers \ {c} : call[d] = NoCall
    BY <1>1 DEF Single, Resting
  <1>3. UnderWay(c) /\ call[c].kind # "none"
    BY <1>1 DEF Single, AgentShape
  <1>4. \A d \in Callers \ {c} : call[d].kind # "put"
    BY <1>2, NoCallOK
  <1>5. \A m : (call[c].kind # "put" \/ call[c].name # m) =>
              \A d \in Callers : ~(call[d].kind = "put" /\ call[d].name = m)
    BY <1>4
  <1> QED BY <1>1, <1>2, <1>3, <1>5 DEF Single

LEMMA EndsOK ==
  ASSUME AgentShape, Entries, NEW c \in Callers, Ends(c)
  PROVE  /\ call' \in [Callers -> WideCall] /\ call'[c] = NoCall
         /\ \A d \in Callers \ {c} : call'[d] = call[d]
         /\ \A d \in Callers : call'[d].kind = "none" => call'[d] = NoCall
         /\ \A d \in Callers : NamedByRoute(call'[d].list) /\ OwnEntry(call'[d].row, call'[d].name)
  <1>1. call' = [call EXCEPT ![c] = NoCall] /\ call \in [Callers -> WideCall]
    BY DEF Ends, AgentShape
  <1>2. call'[c] = NoCall /\ \A d \in Callers \ {c} : call'[d] = call[d]
    BY <1>1
  <1>3. NoCall.name \in AgentNames
    BY NoCallOK DEF WideCall
  <1>4. NamedByRoute(NoCall.list) /\ OwnEntry(NoCall.row, NoCall.name)
    BY <1>3, NoCallOK
  <1> QED BY <1>1, <1>2, <1>4, NoCallOK DEF AgentShape, Entries, Resting

LEMMA GoesOK ==
  ASSUME AgentShape, Entries, NEW c \in Callers, ~Resting(c),
         NEW phase \in {"idle", "command", "reading", "read", "emptied", "written"}, GoesTo(c, phase)
  PROVE  /\ call' \in [Callers -> WideCall]
         /\ \A d \in Callers \ {c} : call'[d] = call[d]
         /\ call'[c].phase = phase /\ call'[c].kind = call[c].kind /\ call'[c].name = call[c].name
         /\ call'[c].config = call[c].config /\ call'[c].row = call[c].row
         /\ call'[c].list = call[c].list
         /\ \A d \in Callers : call'[d].kind = "none" => call'[d] = NoCall
         /\ \A d \in Callers : NamedByRoute(call'[d].list) /\ OwnEntry(call'[d].row, call'[d].name)
  <1>1. call' = [call EXCEPT ![c] = [call[c] EXCEPT !.phase = phase]]
        /\ call \in [Callers -> WideCall] /\ call[c] \in WideCall /\ call[c].kind # "none"
    BY DEF GoesTo, AgentShape
  <1> DEFINE new == [call[c] EXCEPT !.phase = phase]
  <1>2. /\ new \in WideCall /\ new.phase = phase /\ new.kind = call[c].kind /\ new.name = call[c].name
        /\ new.config = call[c].config /\ new.row = call[c].row /\ new.list = call[c].list
    BY <1>1 DEF WideCall
  <1> HIDE DEF new
  <1>3. call'[c] = new /\ call' \in [Callers -> WideCall] /\ \A d \in Callers \ {c} : call'[d] = call[d]
    BY <1>1, <1>2 DEF new
  <1> QED BY <1>1, <1>2, <1>3 DEF AgentShape, Entries, Resting

LEMMA RowDeletedOK ==
  ASSUME AgentShape, Entries, NEW c \in Callers
  PROVE  LET n == call[c].name
         IN /\ RowDeleted(c) \in [AgentNames -> WideRow]
            /\ \A m \in AgentNames : OwnEntry(RowDeleted(c)[m], m)
            /\ \A m \in AgentNames \ {n} : RowDeleted(c)[m] = agentRow[m]
            /\ RowDeleted(c)[n].there => agentRow[n].there /\ agentRow[n].born # call[c].row.born
  <1> DEFINE n == call[c].name
             gone == [NoRow EXCEPT !.born = agentRow[n].born + 1]
  <1>1. n \in AgentNames /\ agentRow \in [AgentNames -> WideRow] /\ agentRow[n].born \in Nat
    BY DEF AgentShape, WideCall, WideRow
  <1>2. gone \in WideRow /\ ~gone.there /\ OwnEntry(gone, n)
    <2>1. NoRow.openclawId = NoName /\ ~NoRow.there /\ NoRow \in WideRow
      BY NoCallOK DEF NoRow
    <2>2. agentRow[n].born + 1 \in Nat
      BY <1>1
    <2> QED BY <2>1, <2>2 DEF WideRow, OwnEntry, EntryOf
  <1>3. RowDeleted(c) = IF agentRow[n].there /\ agentRow[n].born = call[c].row.born
                        THEN [agentRow EXCEPT ![n] = gone] ELSE agentRow
    BY DEF RowDeleted, SameRow
  <1> HIDE DEF gone
  <1>4. \A m \in AgentNames : OwnEntry(agentRow[m], m)
    BY DEF Entries
  <1> QED BY <1>1, <1>2, <1>3, <1>4

(* Made twice, a change of the list is the same as made once.              *)
LEMMA NewListTwice ==
  ASSUME NEW c \in Callers, call[c] \in WideCall, NEW list \in [Ids -> AgentEntry]
  PROVE  NewList(c, NewList(c, list)) = NewList(c, list)
  <1> DEFINE n == call[c].name
  <1>1. /\ n \in AgentNames /\ call[c].config \in Configs \cup {NoConfig} /\ call[c].row \in WideRow
        /\ call[c].kind \in {"none", "post", "put", "delete", "sync"}
    BY DEF WideCall
  <1>2. CASE call[c].kind = "post"
    <2> DEFINE i == PostId[n]
               v == Merged(list[i].config, call[c].config)
               one == [list EXCEPT ![i] = [config |-> v, name |-> n]]
    <2>1. /\ NewList(c, list) = one
          /\ NewList(c, one) =
               [one EXCEPT ![i] = [config |-> Merged(one[i].config, call[c].config), name |-> n]]
      BY <1>2 DEF NewList
    <2>2. i \in Ids /\ list[i].config \in Configs \cup {NoConfig}
      BY <1>1, AgentIds DEF AgentEntry
    <2>3. Merged(v, call[c].config) = v
      BY <1>1, <2>2, Merging
    <2> HIDE DEF i, v
    <2>4. one[i] = [config |-> v, name |-> n]
      BY <2>2
    <2> HIDE DEF one
    <2>5. [config |-> Merged(one[i].config, call[c].config), name |-> n] = one[i]
      BY <2>3, <2>4
    <2>6. one = [one EXCEPT ![i] = one[i]]
      BY DEF one
    <2> QED BY <2>1, <2>5, <2>6
  <1>3. CASE call[c].kind = "put"
    <2> DEFINE i == EntryOf(call[c].row, n)
               v == Merged(list[i].config, call[c].config)
               new == [list[i] EXCEPT !.config = v]
               one == [list EXCEPT ![i] = new]
    <2>1. i \in Ids /\ list[i] \in AgentEntry
      BY <1>1, EntryIsId
    <2>2. v \in Configs \cup {NoConfig} /\ Merged(v, call[c].config) = v
      BY <1>1, <2>1, Merging DEF AgentEntry
    <2>3. NewList(c, list) = one
      BY <1>3, <2>1 DEF NewList
    <2>4. NewList(c, one) = [one EXCEPT ![i].config = Merged(@, call[c].config)]
      BY <1>3 DEF NewList
    <2> HIDE DEF i, v
    <2>5. new.config = v /\ new = [new EXCEPT !.config = v]
      BY <2>1 DEF AgentEntry
    <2> HIDE DEF new
    <2>6. one[i] = new
      BY <2>1
    <2>7. [one EXCEPT ![i].config = Merged(@, call[c].config)] = [one EXCEPT ![i] = new]
      BY <2>2, <2>5, <2>6
    <2>8. [one EXCEPT ![i] = new] = one
      BY <2>6
    <2> QED BY <2>3, <2>4, <2>7, <2>8
  <1>4. CASE call[c].kind = "delete"
    BY <1>4 DEF NewList
  <1>5. CASE call[c].kind \in {"none", "sync"}
    BY <1>5 DEF NewList
  <1> QED BY <1>1, <1>2, <1>3, <1>4, <1>5

LEMMA CommandOK ==
  ASSUME AgentShape, Entries, NEW c \in Callers, NEW list \in CommandEntry(c)
  PROVE  list \in [Ids -> AgentEntry] /\ NamedByRoute(list)
  <1> DEFINE n == call[c].name
  <1>1. n \in AgentNames /\ call[c].row \in WideRow /\ openclaw.list \in [Ids -> AgentEntry]
        /\ NamedByRoute(openclaw.list)
    BY DEF AgentShape, WideCall, Entries
  <1>2. CASE call[c].kind = "post"
    <2>1. PICK v \in Configs : list = [openclaw.list EXCEPT ![PostId[n]] = [config |-> v, name |-> NoName]]
      BY <1>2 DEF CommandEntry
    <2>2. PostId[n] \in Ids /\ [config |-> v, name |-> NoName] \in AgentEntry
      BY <1>1, AgentIds DEF AgentEntry
    <2> QED BY <1>1, <2>1, <2>2 DEF NamedByRoute
  <1>3. CASE call[c].kind # "post"
    <2>1. list = [openclaw.list EXCEPT ![RemovedId(call[c].row, n)] = NoEntry]
      BY <1>3 DEF CommandEntry
    <2>2. RemovedId(call[c].row, n) \in Ids
      BY <1>1, EntryIsId
    <2> QED BY <1>1, <2>1, <2>2, NoCallOK DEF NamedByRoute
  <1> QED BY <1>2, <1>3

LEMMA CommandSucceedsKeeps ==
  ASSUME AgentInv, NEW c \in Callers, CommandSucceeds(c)
  PROVE  AgentInv'
  <1> DEFINE n == call[c].name
  <1>1. /\ call[c].phase = "command" /\ single' = single
        /\ AgentShape /\ Entries /\ (single => Single)
        /\ n \in AgentNames /\ call[c].config \in Configs \cup {NoConfig}
    BY DEF CommandSucceeds, AgentInv, AgentShape, WideCall
  <1>2. ~Resting(c)
    BY <1>1, NoCallOK DEF Resting
  <1>3. PICK list \in CommandEntry(c) :
          openclaw' = [openclaw EXCEPT !.list = list] /\ unified' = StillUnified(list)
    BY DEF CommandSucceeds
  <1>4. list \in [Ids -> AgentEntry] /\ NamedByRoute(list)
    BY <1>1, CommandOK
  <1>5. openclaw'.list = list
        /\ openclaw' \in [text : {"whole", "empty", "garbled"}, list : [Ids -> AgentEntry]]
        /\ unified' \subseteq unified
    BY <1>1, <1>3, <1>4 DEF AgentShape, StillUnified
  <1>6. CASE UNCHANGED agentRow /\ (Ends(c) \/ (call[c].kind = "delete" /\ GoesTo(c, "reading")))
    <2>1. /\ call' \in [Callers -> WideCall]
          /\ \A d \in Callers \ {c} : call'[d] = call[d]
          /\ \A d \in Callers : call'[d].kind = "none" => call'[d] = NoCall
          /\ \A d \in Callers : NamedByRoute(call'[d].list) /\ OwnEntry(call'[d].row, call'[d].name)
          /\ \/ call'[c] = NoCall
             \/ /\ call[c].kind = "delete" /\ call'[c].kind = "delete" /\ call'[c].phase = "reading"
                /\ call'[c].name = n /\ call'[c].row = call[c].row
      <3>1. CASE Ends(c)
        BY <1>1, <3>1, EndsOK
      <3>2. CASE call[c].kind = "delete" /\ GoesTo(c, "reading")
        BY <1>1, <1>2, <3>2, GoesOK
      <3> QED BY <1>6, <3>1, <3>2
    <2>2. AgentShape' /\ Entries'
      BY <1>1, <1>4, <1>5, <1>6, <2>1 DEF AgentShape, Entries, Resting
    <2>3. ASSUME single' PROVE Single'
      <3>1. UnderWay(c) /\ Single /\ \A d \in Callers \ {c} : call'[d] = NoCall
        BY <1>1, <1>2, <2>1, <2>3, Alone
      <3>2. call[c].kind # "put"
        BY <1>1, <3>1 DEF UnderWay, PutUnderWay
      <3>3. \A m \in unified' : Plain(m) => Agree(m)'
        <4> SUFFICES ASSUME NEW m \in unified', Plain(m) PROVE Agree(m)'
          OBVIOUS
        <4>1. \A d \in Callers : ~(call[d].kind = "put" /\ call[d].name = m)
          BY <1>1, <1>2, <2>3, <3>2, Alone
        <4> QED BY <1>1, <1>3, <1>4, <1>5, <1>6, <3>1, <4>1, AgreeAfterWrite
      <3>4. call'[c] = NoCall \/ UnderWay(c)'
        BY <1>6, <2>1, <3>1 DEF UnderWay, DeleteUnderWay
      <3> QED BY <2>1, <3>1, <3>3, <3>4 DEF Single, Resting
    <2> QED BY <2>2, <2>3 DEF AgentInv
  <1>7. CASE /\ call[c].kind # "delete" /\ ~(call[c].kind = "post" /\ agentRow[n].there)
             /\ agentRow' = Inserted(n, call[c].config)
             /\ IF call[c].gateway THEN GoesTo(c, "reading") ELSE Ends(c)
    <2> DEFINE new == [agentRow[n] EXCEPT !.there = TRUE, !.config = call[c].config, !.openclawId = NoName]
    <2>1. agentRow' = [agentRow EXCEPT ![n] = new] /\ agentRow \in [AgentNames -> WideRow]
          /\ agentRow[n] \in WideRow /\ OwnEntry(agentRow[n], n)
      BY <1>1, <1>7 DEF Inserted, AgentShape, Entries
    <2>2. new \in WideRow /\ OwnEntry(new, n) /\ new.there /\ new.config = call[c].config
          /\ new.openclawId = NoName
      <3>1. new \in WideRow /\ OwnEntry(new, n)
        BY <1>1, <2>1, RowOK
      <3> QED BY <2>1, <3>1 DEF WideRow
    <2> HIDE DEF new
    <2>3. /\ agentRow'[n] = new /\ \A m \in AgentNames \ {n} : agentRow'[m] = agentRow[m]
          /\ agentRow' \in [AgentNames -> WideRow]
      BY <1>1, <2>1, <2>2
    <2>4. /\ call' \in [Callers -> WideCall]
          /\ \A d \in Callers \ {c} : call'[d] = call[d]
          /\ \A d \in Callers : call'[d].kind = "none" => call'[d] = NoCall
          /\ \A d \in Callers : NamedByRoute(call'[d].list) /\ OwnEntry(call'[d].row, call'[d].name)
          /\ \/ call'[c] = NoCall
             \/ /\ call'[c].kind = call[c].kind /\ call'[c].phase = "reading"
                /\ call'[c].name = n /\ call'[c].config = call[c].config
      <3>1. CASE Ends(c)
        BY <1>1, <3>1, EndsOK
      <3>2. CASE GoesTo(c, "reading")
        BY <1>1, <1>2, <3>2, GoesOK
      <3> QED BY <1>7, <3>1, <3>2
    <2>5. AgentShape' /\ Entries'
      BY <1>1, <1>4, <1>5, <2>2, <2>3, <2>4 DEF AgentShape, Entries, Resting
    <2>6. ASSUME single' PROVE Single'
      <3>1. UnderWay(c) /\ Single /\ \A d \in Callers \ {c} : call'[d] = NoCall
        BY <1>1, <1>2, <2>4, <2>6, Alone
      <3>2. call[c].kind = "post"
        <4>1. call[c].kind \in {"none", "post", "put", "delete", "sync"} /\ call[c].kind # "none"
          BY <1>1, <1>2 DEF AgentShape, WideCall
        <4> QED BY <1>1, <1>7, <3>1, <4>1 DEF UnderWay, PutUnderWay, SyncUnderWay
      <3>3. n \notin unified
        BY <3>1, <3>2 DEF UnderWay, PostUnderWay
      <3>4. \A m \in unified' : Plain(m) => Agree(m)'
        <4> SUFFICES ASSUME NEW m \in unified', Plain(m) PROVE Agree(m)'
          OBVIOUS
        <4>1. \A d \in Callers : ~(call[d].kind = "put" /\ call[d].name = m)
          BY <1>1, <1>2, <2>6, <3>2, Alone
        <4>2. m # n /\ m \in AgentNames
          BY <1>1, <1>5, <3>3 DEF AgentShape
        <4> QED BY <1>1, <1>3, <1>4, <1>5, <2>3, <3>1, <4>1, <4>2, AgreeAfterWrite
      <3>5. call'[c] = NoCall \/ UnderWay(c)'
        BY <1>5, <2>2, <2>3, <2>4, <3>2, <3>3 DEF UnderWay, PostUnderWay
      <3> QED BY <2>4, <3>1, <3>4, <3>5 DEF Single, Resting
    <2> QED BY <2>5, <2>6 DEF AgentInv
  <1>8. /\ call[c].kind = "delete" => GoesTo(c, "reading") /\ UNCHANGED agentRow
        /\ call[c].kind = "post" /\ agentRow[n].there => Ends(c) /\ UNCHANGED agentRow
        /\ call[c].kind # "delete" /\ ~(call[c].kind = "post" /\ agentRow[n].there) =>
             /\ agentRow' = Inserted(n, call[c].config)
             /\ IF call[c].gateway THEN GoesTo(c, "reading") ELSE Ends(c)
    BY DEF CommandSucceeds
  <1>9. CASE call[c].kind = "delete"
    BY <1>6, <1>8, <1>9
  <1>10. CASE call[c].kind = "post" /\ agentRow[n].there
    <2>1. Ends(c) /\ UNCHANGED agentRow
      BY <1>10 DEF CommandSucceeds
    <2> QED BY <1>6, <2>1
  <1>11. CASE call[c].kind # "delete" /\ ~(call[c].kind = "post" /\ agentRow[n].there)
    BY <1>7, <1>8, <1>11
  <1> QED BY <1>9, <1>10, <1>11

LEMMA CommandFailsKeeps ==
  ASSUME AgentInv, NEW c \in Callers, CommandFails(c)
  PROVE  AgentInv'
  <1>1. /\ call[c].phase = "command" /\ single' = single /\ agentRow' = agentRow /\ Ends(c)
        /\ AgentShape /\ Entries /\ (single => Single)
    BY DEF CommandFails, AgentInv
  <1>2. ~Resting(c)
    BY <1>1, NoCallOK DEF Resting
  <1>3. PICK list \in {openclaw.list} \cup CommandEntry(c) :
          openclaw' = [openclaw EXCEPT !.list = list] /\ unified' = StillUnified(list)
    BY DEF CommandFails
  <1>4. list \in [Ids -> AgentEntry] /\ NamedByRoute(list)
    BY <1>1, CommandOK DEF AgentShape, Entries
  <1>5. openclaw'.list = list
        /\ openclaw' \in [text : {"whole", "empty", "garbled"}, list : [Ids -> AgentEntry]]
        /\ unified' \subseteq unified
    BY <1>1, <1>3, <1>4 DEF AgentShape, StillUnified
  <1>6. /\ call' \in [Callers -> WideCall] /\ call'[c] = NoCall
        /\ \A d \in Callers \ {c} : call'[d] = call[d]
        /\ \A d \in Callers : call'[d].kind = "none" => call'[d] = NoCall
        /\ \A d \in Callers : NamedByRoute(call'[d].list) /\ OwnEntry(call'[d].row, call'[d].name)
    BY <1>1, EndsOK
  <1>7. AgentShape' /\ Entries'
    BY <1>1, <1>4, <1>5, <1>6 DEF AgentShape, Entries, Resting
  <1>8. ASSUME single' PROVE Single'
    <2>1. UnderWay(c) /\ Single /\ \A d \in Callers \ {c} : call'[d] = NoCall
      BY <1>1, <1>2, <1>6, <1>8, Alone
    <2>2. call[c].kind # "put"
      BY <1>1, <2>1 DEF UnderWay, PutUnderWay
    <2>3. \A m \in unified' : Plain(m) => Agree(m)'
      <3> SUFFICES ASSUME NEW m \in unified', Plain(m) PROVE Agree(m)'
        OBVIOUS
      <3>1. \A d \in Callers : ~(call[d].kind = "put" /\ call[d].name = m)
        BY <1>1, <1>2, <1>8, <2>2, Alone
      <3> QED BY <1>1, <1>3, <1>4, <1>5, <2>1, <3>1, AgreeAfterWrite
    <2> QED BY <1>6, <2>1, <2>3 DEF Single, Resting
  <1> QED BY <1>7, <1>8 DEF AgentInv

LEMMA ReadKeeps ==
  ASSUME AgentInv, NEW c \in Callers, ReadConfig(c)
  PROVE  AgentInv'
  <1> DEFINE list == NewList(c, openclaw.list)
  <1>1. /\ call[c].phase = "reading" /\ UNCHANGED <<agentRow, openclaw, unified, single>>
        /\ AgentShape /\ Entries /\ (single => Single)
        /\ call \in [Callers -> WideCall] /\ call[c] \in WideCall
        /\ openclaw.list \in [Ids -> AgentEntry] /\ NamedByRoute(openclaw.list)
    BY DEF ReadConfig, AgentInv, AgentShape, Entries
  <1>2. ~Resting(c) /\ call[c].kind # "none"
    BY <1>1, NoCallOK DEF Resting, AgentShape
  <1>3. list \in [Ids -> AgentEntry] /\ NamedByRoute(list)
    BY <1>1, NewListOK
  <1>4. /\ call' \in [Callers -> WideCall]
        /\ \A d \in Callers \ {c} : call'[d] = call[d]
        /\ call'[c].kind = call[c].kind /\ call'[c].name = call[c].name
        /\ call'[c].config = call[c].config /\ call'[c].row = call[c].row
        /\ NamedByRoute(call'[c].list)
        /\ \/ call'[c].phase = "written" /\ list = openclaw.list /\ call[c].kind = "delete"
           \/ call'[c].phase = "read" /\ call'[c].list = list
    <2>1. CASE call[c].kind = "delete" /\ list = openclaw.list
      <3>1. GoesTo(c, "written")
        BY <2>1 DEF ReadConfig
      <3> QED BY <1>1, <1>2, <2>1, <3>1, GoesOK
    <2>2. CASE ~(call[c].kind = "delete" /\ list = openclaw.list)
      <3> DEFINE new == [call[c] EXCEPT !.phase = "read", !.list = list]
      <3>1. /\ new \in WideCall /\ new.phase = "read" /\ new.kind = call[c].kind
            /\ new.name = call[c].name /\ new.config = call[c].config
            /\ new.row = call[c].row /\ new.list = list
        BY <1>1, <1>3 DEF WideCall
      <3>2. call' = [call EXCEPT ![c] = new]
        BY <1>1, <2>2 DEF ReadConfig
      <3> HIDE DEF new, list
      <3> QED BY <1>1, <1>3, <3>1, <3>2
    <2> QED BY <2>1, <2>2
  <1> HIDE DEF list
  <1>5. AgentShape' /\ Entries'
    BY <1>1, <1>2, <1>4 DEF AgentShape, Entries, Resting
  <1>6. ASSUME single' PROVE Single'
    <2>1. UnderWay(c) /\ Single /\ \A d \in Callers \ {c} : call'[d] = NoCall
      BY <1>1, <1>2, <1>4, <1>6, Alone
    <2>2. \A m \in unified' : Plain(m) => Agree(m)' \/ (call'[c].kind = "put" /\ call'[c].name = m)
      <3> SUFFICES ASSUME NEW m \in unified', Plain(m), ~(call'[c].kind = "put" /\ call'[c].name = m)
                   PROVE  Agree(m)'
        OBVIOUS
      <3>1. Agree(m)
        BY <1>1, <1>2, <1>4, <1>6, Alone
      <3> QED BY <1>1, <3>1, AgreeSame
    <2>3. NewList(c, openclaw.list)' = list
      BY <1>1, <1>4 DEF NewList, list
    <2>4. UnderWay(c)'
      BY <1>1, <1>4, <2>1, <2>3
         DEF UnderWay, PostUnderWay, PutUnderWay, DeleteUnderWay, SyncUnderWay, Within
    <2> QED BY <1>1, <2>1, <2>2, <2>4, OneCall
  <1> QED BY <1>5, <1>6 DEF AgentInv

LEMMA EmptyKeeps ==
  ASSUME AgentInv, NEW c \in Callers, EmptyConfig(c)
  PROVE  AgentInv'
  <1>1. /\ call[c].phase = "read" /\ call[c].kind # "sync" /\ UNCHANGED <<agentRow, unified, single>>
        /\ openclaw' = [openclaw EXCEPT !.text = "empty"] /\ GoesTo(c, "emptied")
        /\ AgentShape /\ Entries /\ (single => Single)
        /\ openclaw \in [text : {"whole", "empty", "garbled"}, list : [Ids -> AgentEntry]]
    BY DEF EmptyConfig, AgentInv, AgentShape
  <1>2. ~Resting(c) /\ call[c].kind # "none"
    BY <1>1, NoCallOK DEF Resting, AgentShape
  <1>3. /\ openclaw' \in [text : {"whole", "empty", "garbled"}, list : [Ids -> AgentEntry]]
        /\ openclaw'.list = openclaw.list /\ openclaw'.text = "empty"
    BY <1>1
  <1>4. /\ call' \in [Callers -> WideCall]
        /\ \A d \in Callers \ {c} : call'[d] = call[d]
        /\ call'[c].phase = "emptied" /\ call'[c].kind = call[c].kind /\ call'[c].name = call[c].name
        /\ call'[c].config = call[c].config /\ call'[c].row = call[c].row
        /\ call'[c].list = call[c].list
        /\ \A d \in Callers : call'[d].kind = "none" => call'[d] = NoCall
        /\ \A d \in Callers : NamedByRoute(call'[d].list) /\ OwnEntry(call'[d].row, call'[d].name)
    BY <1>1, <1>2, GoesOK
  <1>5. AgentShape' /\ Entries'
    BY <1>1, <1>3, <1>4 DEF AgentShape, Entries, Resting
  <1>6. ASSUME single' PROVE Single'
    <2>1. UnderWay(c) /\ Single /\ \A d \in Callers \ {c} : call'[d] = NoCall
      BY <1>1, <1>2, <1>4, <1>6, Alone
    <2>2. \A m \in unified' : Plain(m) => Agree(m)' \/ (call'[c].kind = "put" /\ call'[c].name = m)
      <3> SUFFICES ASSUME NEW m \in unified', Plain(m), ~(call'[c].kind = "put" /\ call'[c].name = m)
                   PROVE  Agree(m)'
        OBVIOUS
      <3>1. Agree(m)
        BY <1>1, <1>2, <1>4, <1>6, Alone
      <3> QED BY <1>1, <1>3, <3>1, AgreeSame
    <2>3. NewList(c, openclaw.list)' = NewList(c, openclaw.list)
      BY <1>3, <1>4 DEF NewList
    <2>4. UnderWay(c)'
      BY <1>1, <1>3, <1>4, <2>1, <2>3
         DEF UnderWay, PostUnderWay, PutUnderWay, DeleteUnderWay, SyncUnderWay, Within
    <2> QED BY <1>1, <2>1, <2>2, <2>4, OneCall
  <1> QED BY <1>5, <1>6 DEF AgentInv

LEMMA WriteKeeps ==
  ASSUME AgentInv, NEW c \in Callers, WriteConfig(c)
  PROVE  AgentInv'
  <1> DEFINE list == call[c].list
  <1>1. /\ call[c].phase = "emptied" /\ UNCHANGED <<agentRow, single>>
        /\ unified' = StillUnified(list)
        /\ AgentShape /\ Entries /\ (single => Single)
        /\ call \in [Callers -> WideCall] /\ call[c] \in WideCall
        /\ list \in [Ids -> AgentEntry] /\ NamedByRoute(list)
    BY DEF WriteConfig, AgentInv, AgentShape, WideCall, Entries
  <1>2. ~Resting(c) /\ call[c].kind # "none"
    BY <1>1, NoCallOK DEF Resting, AgentShape
  <1>3. /\ openclaw' \in [text : {"whole", "empty", "garbled"}, list : [Ids -> AgentEntry]]
        /\ openclaw'.list = list
        /\ unified' \subseteq unified
    <2>1. PICK text \in {"whole"} \cup (IF openclaw.text = "empty" THEN {} ELSE {"garbled"}) :
            openclaw' = [text |-> text, list |-> list]
      BY DEF WriteConfig
    <2>2. text \in {"whole", "garbled"}
      OBVIOUS
    <2> HIDE DEF list
    <2> QED BY <1>1, <2>1, <2>2 DEF StillUnified
  <1>4. /\ call' \in [Callers -> WideCall]
        /\ \A d \in Callers \ {c} : call'[d] = call[d]
        /\ call'[c].phase = "written" /\ call'[c].kind = call[c].kind /\ call'[c].name = call[c].name
        /\ call'[c].config = call[c].config /\ call'[c].row = call[c].row
        /\ NamedByRoute(call'[c].list)
    <2> DEFINE new == [call[c] EXCEPT !.phase = "written", !.list = NoCall.list]
    <2>1. NoCall.list \in [Ids -> AgentEntry] /\ NamedByRoute(NoCall.list)
      BY NoCallOK DEF WideCall
    <2>2. /\ new \in WideCall /\ new.phase = "written" /\ new.kind = call[c].kind
          /\ new.name = call[c].name /\ new.config = call[c].config
          /\ new.row = call[c].row /\ new.list = NoCall.list
      BY <1>1, <2>1 DEF WideCall
    <2>3. call' = [call EXCEPT ![c] = new]
      BY <1>1 DEF WriteConfig
    <2> HIDE DEF new
    <2> QED BY <1>1, <2>1, <2>2, <2>3
  <1>5. AgentShape' /\ Entries'
    BY <1>1, <1>2, <1>3, <1>4 DEF AgentShape, Entries, Resting
  <1>6. ASSUME single' PROVE Single'
    <2>1. UnderWay(c) /\ Single /\ \A d \in Callers \ {c} : call'[d] = NoCall
      BY <1>1, <1>2, <1>4, <1>6, Alone
    <2>2. \A m \in unified' : Plain(m) => Agree(m)' \/ (call'[c].kind = "put" /\ call'[c].name = m)
      <3> SUFFICES ASSUME NEW m \in unified', Plain(m), ~(call'[c].kind = "put" /\ call'[c].name = m)
                   PROVE  Agree(m)'
        OBVIOUS
      <3>1. \A d \in Callers : ~(call[d].kind = "put" /\ call[d].name = m)
        BY <1>1, <1>2, <1>4, <1>6, Alone
      <3> HIDE DEF list
      <3> QED BY <1>1, <1>3, <2>1, <3>1, AgreeAfterWrite
    <2>3. NewList(c, list) = list
      BY <1>1, <2>1, NewListTwice DEF UnderWay, AgentShape
    <2>4. NewList(c, openclaw.list)' = list
      BY <1>3, <1>4, <2>3 DEF NewList
    <2>5. UnderWay(c)'
      BY <1>1, <1>3, <1>4, <2>1, <2>4
         DEF UnderWay, PostUnderWay, PutUnderWay, DeleteUnderWay, SyncUnderWay, Within
    <2> QED BY <1>1, <2>1, <2>2, <2>5, OneCall
  <1> QED BY <1>5, <1>6 DEF AgentInv

(* A call that comes to rest.                                              *)
LEMMA EndKeeps ==
  ASSUME AgentInv, NEW c \in Callers, ~Resting(c), Ends(c), UNCHANGED <<openclaw, single>>,
         agentRow' \in [AgentNames -> WideRow], \A m \in AgentNames : OwnEntry(agentRow'[m], m),
         unified' \subseteq AgentNames,
         single => \A m \in unified' : Plain(m) => Agree(m)'
  PROVE  AgentInv'
  <1>1. AgentShape /\ Entries /\ (single => Single)
    BY DEF AgentInv
  <1>2. /\ call' \in [Callers -> WideCall] /\ call'[c] = NoCall
        /\ \A d \in Callers \ {c} : call'[d] = call[d]
        /\ \A d \in Callers : call'[d].kind = "none" => call'[d] = NoCall
        /\ \A d \in Callers : NamedByRoute(call'[d].list) /\ OwnEntry(call'[d].row, call'[d].name)
    BY <1>1, EndsOK
  <1>3. AgentShape' /\ Entries'
    BY <1>1, <1>2 DEF AgentShape, Entries, Resting
  <1>4. ASSUME single' PROVE Single'
    <2>1. \A d \in Callers \ {c} : call'[d] = NoCall
      BY <1>2, <1>4, Alone
    <2> QED BY <1>1, <1>2, <1>4, <2>1, OneCall
  <1> QED BY <1>3, <1>4 DEF AgentInv

LEMMA SucceedsKeeps ==
  ASSUME AgentInv, NEW c \in Callers, CallSucceeds(c)
  PROVE  AgentInv'
  <1> DEFINE n == call[c].name
  <1>1. /\ call[c].phase = "written" /\ UNCHANGED <<openclaw, single>> /\ Ends(c)
        /\ agentRow' = IF call[c].kind = "delete" THEN RowDeleted(c) ELSE agentRow
        /\ unified' = unified \cup {n}
        /\ AgentShape /\ Entries /\ (single => Single)
        /\ n \in AgentNames /\ call[c] \in WideCall
        /\ call[c].row \in WideRow /\ OwnEntry(call[c].row, n) /\ openclaw.list \in [Ids -> AgentEntry]
    BY DEF CallSucceeds, AgentInv, AgentShape, WideCall, Entries
  <1>2. ~Resting(c)
    BY <1>1, NoCallOK DEF Resting
  <1>3. /\ agentRow' \in [AgentNames -> WideRow] /\ \A m \in AgentNames : OwnEntry(agentRow'[m], m)
        /\ \A m \in AgentNames \ {n} : agentRow'[m] = agentRow[m]
    BY <1>1, RowDeletedOK DEF AgentShape, Entries
  <1>4. ASSUME single, NEW m \in unified', Plain(m) PROVE Agree(m)'
    <2>1. /\ UnderWay(c) /\ call[c].kind \in {"post", "put", "delete", "sync"}
          /\ openclaw.list = NewList(c, openclaw.list)
      BY <1>1, <1>2, <1>4, Alone DEF WideCall, UnderWay
    <2>2. CASE m # n
      <3>1. Agree(m) /\ m \in AgentNames
        BY <1>1, <1>2, <1>4, <2>2, Alone DEF AgentShape
      <3> QED BY <1>1, <1>3, <2>2, <3>1, AgreeSame
    <2>3. CASE m = n /\ call[c].kind = "post"
      <3> DEFINE v == Merged(openclaw.list[PutId[n]].config, call[c].config)
      <3>1. PostId[n] = PutId[n] /\ PutId[n] \in Ids
        BY <1>1, <1>4, <2>3, AgentIds DEF Plain
      <3>2. openclaw.list = [openclaw.list EXCEPT ![PutId[n]] = [config |-> v, name |-> n]]
        BY <2>1, <2>3, <3>1 DEF NewList
      <3>3. openclaw.list[PutId[n]].config \in Configs \cup {NoConfig}
            /\ call[c].config \in Configs \cup {NoConfig}
        BY <1>1, <3>1 DEF AgentEntry, WideCall
      <3>4. \A k \in ConfigFields : call[c].config[k] # Unset => v[k] = call[c].config[k]
        BY <3>3, Merging
      <3> HIDE DEF v
      <3>5. openclaw.list[PutId[n]].config = v
        BY <1>1, <3>1, <3>2
      <3>6. agentRow[n].there /\ agentRow[n].config = call[c].config /\ agentRow[n].openclawId = NoName
        BY <1>1, <2>1, <2>3 DEF UnderWay, PostUnderWay
      <3> QED BY <1>1, <2>3, <3>4, <3>5, <3>6 DEF Agree, EntryOf, Within
    <2>4. CASE m = n /\ call[c].kind = "put"
      <3> DEFINE i == EntryOf(call[c].row, n)
                 v == Merged(openclaw.list[i].config, call[c].config)
      <3>1. i \in Ids /\ openclaw.list[i] \in AgentEntry /\ i = PutId[n]
        BY <1>1, <1>4, <2>4, EntryIsId
      <3>2. openclaw.list = [openclaw.list EXCEPT ![i] = [openclaw.list[i] EXCEPT !.config = v]]
        BY <1>1, <2>1, <2>4, <3>1 DEF NewList
      <3>3. openclaw.list[i].config \in Configs \cup {NoConfig}
            /\ call[c].config \in Configs \cup {NoConfig}
        BY <1>1, <3>1 DEF AgentEntry, WideCall
      <3>4. \A k \in ConfigFields : call[c].config[k] # Unset => v[k] = call[c].config[k]
        BY <3>3, Merging
      <3> HIDE DEF i, v
      <3>8. openclaw.list[i] = [openclaw.list[i] EXCEPT !.config = v]
        BY <1>1, <3>1, <3>2
      <3>9. openclaw.list[i].config = v
        BY <3>1, <3>8 DEF AgentEntry
      <3>5. agentRow[n] = [call[c].row EXCEPT !.config = call[c].config] /\ call[c].row.there
        BY <2>1, <2>4 DEF UnderWay, PutUnderWay
      <3>6. agentRow[n].there /\ agentRow[n].config = call[c].config
        BY <1>1, <3>5 DEF WideRow
      <3>7. EntryOf(agentRow[n], n) = PutId[n]
        BY <1>1, <1>4, <2>4 DEF Entries, OwnEntry
      <3> QED BY <1>1, <2>4, <3>1, <3>4, <3>6, <3>7, <3>9 DEF Agree, Within
    <2>5. CASE m = n /\ call[c].kind = "delete"
      <3>1. ~agentRow'[n].there
        BY <1>1, <2>1, <2>5, RowDeletedOK DEF UnderWay, DeleteUnderWay
      <3>2. RemovedId(call[c].row, n) = DeleteId[n]
        BY <1>1, <1>4, <2>5, EntryIsId DEF Plain
      <3>3. openclaw.list = [i \in Ids |-> IF i = DeleteId[n] \/ openclaw.list[i].name = n THEN NoEntry
                                           ELSE openclaw.list[i]]
        BY <2>1, <2>5, <3>2 DEF NewList
      <3>4. \A i \in Ids : HasEntry(openclaw.list, i) => i # DeleteId[n] /\ openclaw.list[i].name # n
        <4> SUFFICES ASSUME NEW i \in Ids, i = DeleteId[n] \/ openclaw.list[i].name = n
                     PROVE  openclaw.list[i].config = NoConfig
          BY DEF HasEntry
        <4>1. openclaw.list[i] = NoEntry
          BY <3>3
        <4> QED BY <4>1, NoCallOK
      <3>5. EntriesOf(openclaw.list, n) = {}
        <4> SUFFICES ASSUME NEW i \in Ids, HasEntry(openclaw.list, i), NameOf(openclaw.list, i) = n
                     PROVE  FALSE
          BY DEF EntriesOf
        <4>1. i = n
          BY <3>4 DEF NameOf
        <4> QED BY <3>4, <4>1, AgentIds
      <3> QED BY <1>1, <2>5, <3>1, <3>5 DEF Agree
    <2>6. call[c].kind # "sync"
      BY <1>1, <2>1 DEF UnderWay, SyncUnderWay
    <2> QED BY <2>1, <2>2, <2>3, <2>4, <2>5, <2>6
  <1>5. unified' \subseteq AgentNames
    BY <1>1 DEF AgentShape
  <1> QED BY <1>1, <1>2, <1>3, <1>4, <1>5, EndKeeps

LEMMA FailsKeeps ==
  ASSUME AgentInv, NEW c \in Callers, CallFails(c)
  PROVE  AgentInv'
  <1> DEFINE n == call[c].name
  <1>1. /\ call[c].phase \in {"reading", "read", "emptied"} /\ UNCHANGED <<openclaw, single>> /\ Ends(c)
        /\ unified' = IF call[c].kind \in {"post", "delete"} THEN unified \ {n} ELSE unified
        /\ AgentShape /\ Entries /\ (single => Single)
        /\ n \in AgentNames /\ call[c] \in WideCall
        /\ call[c].row \in WideRow /\ OwnEntry(call[c].row, n)
        /\ agentRow \in [AgentNames -> WideRow]
    BY DEF CallFails, Fails, AgentInv, AgentShape, WideCall, Entries
  <1>2. ~Resting(c)
    BY <1>1, NoCallOK DEF Resting
  <1>3. \/ call[c].kind = "put" /\ SameRow(c) /\ agentRow' = [agentRow EXCEPT ![n] = call[c].row]
        \/ call[c].kind = "delete" /\ agentRow' = RowDeleted(c)
        \/ ~(call[c].kind = "put" /\ SameRow(c)) /\ agentRow' = agentRow
    BY DEF CallFails
  <1>4. /\ agentRow' \in [AgentNames -> WideRow] /\ \A m \in AgentNames : OwnEntry(agentRow'[m], m)
        /\ \A m \in AgentNames \ {n} : agentRow'[m] = agentRow[m]
    BY <1>1, <1>3, RowDeletedOK DEF Entries
  <1>5. ASSUME single, NEW m \in unified', Plain(m) PROVE Agree(m)'
    <2>1. UnderWay(c) /\ m \in unified /\ m \in AgentNames
      BY <1>1, <1>2, <1>5, Alone DEF AgentShape
    <2>2. CASE call[c].kind = "put" /\ m = n
      <3>1. /\ agentRow[n] = [call[c].row EXCEPT !.config = call[c].config]
            /\ call[c].row.there /\ Within(call[c].row, openclaw.list[PutId[n]])
        BY <1>1, <1>5, <2>1, <2>2 DEF UnderWay, PutUnderWay
      <3>2. SameRow(c)
        BY <1>1, <3>1 DEF SameRow, WideRow
      <3>3. agentRow'[n] = call[c].row
        BY <1>1, <1>3, <2>2, <3>2
      <3>4. EntryOf(call[c].row, n) = PutId[n]
        BY <1>1, <1>5, <2>2 DEF OwnEntry
      <3> QED BY <1>1, <2>2, <3>1, <3>3, <3>4 DEF Agree, Within
    <2>3. CASE ~(call[c].kind = "put" /\ m = n)
      <3>1. Agree(m)
        BY <1>2, <1>5, <2>1, <2>3, Alone
      <3>2. agentRow'[m] = agentRow[m]
        <4>1. CASE m # n
          BY <1>4, <2>1, <4>1
        <4>2. CASE m = n
          BY <1>1, <1>3, <2>3, <4>2
        <4> QED BY <4>1, <4>2
      <3> QED BY <1>1, <3>1, <3>2, AgreeSame
    <2> QED BY <2>2, <2>3
  <1>6. unified' \subseteq AgentNames
    BY <1>1 DEF AgentShape
  <1> QED BY <1>1, <1>2, <1>4, <1>5, <1>6, EndKeeps

LEMMA SyncKeeps ==
  ASSUME AgentInv, NEW c \in Callers, SyncApplies(c)
  PROVE  AgentInv'
  <1> DEFINE list  == call[c].list
             named == {n \in AgentNames : EntriesOf(list, n) # {}}
  <1>1. /\ call[c].phase = "read" /\ call[c].kind = "sync" /\ UNCHANGED <<openclaw, single>> /\ Ends(c)
        /\ unified' = unified \cup named
        /\ AgentShape /\ Entries /\ (single => Single)
        /\ list \in [Ids -> AgentEntry] /\ NamedByRoute(list)
        /\ agentRow \in [AgentNames -> WideRow] /\ unified \subseteq AgentNames
    BY DEF SyncApplies, AgentInv, AgentShape, WideCall, Entries
  <1>2. ~Resting(c)
    BY <1>1, NoCallOK DEF Resting
  <1>3. PICK last \in [named -> Ids] :
          /\ \A n \in named : last[n] \in EntriesOf(list, n)
          /\ agentRow' = [n \in AgentNames |->
               IF n \in named THEN SyncedRow(list, last[n], agentRow[n]) ELSE agentRow[n]]
    BY DEF SyncApplies
  <1>4. ASSUME NEW n \in named
        PROVE  /\ agentRow'[n] \in WideRow /\ agentRow'[n].there
               /\ agentRow'[n].config = list[last[n]].config /\ agentRow'[n].openclawId = last[n]
               /\ last[n] \in Ids
               /\ Plain(n) => last[n] = PutId[n]
    <2>1. /\ n \in AgentNames /\ last[n] \in Ids /\ NameOf(list, last[n]) = n
          /\ agentRow'[n] = SyncedRow(list, last[n], agentRow[n]) /\ agentRow[n] \in WideRow
      BY <1>1, <1>3 DEF EntriesOf
    <2>2. list[last[n]] \in AgentEntry
      BY <1>1, <2>1
    <2> HIDE DEF list, named
    <2>3. /\ agentRow'[n] \in WideRow /\ agentRow'[n].there
          /\ agentRow'[n].config = list[last[n]].config /\ agentRow'[n].openclawId = last[n]
      BY <2>1, <2>2 DEF SyncedRow, WideRow, AgentEntry
    <2>4. Plain(n) => last[n] = PutId[n]
      BY <1>1, <2>1, AgentIds DEF NameOf, NamedByRoute, Plain
    <2> QED BY <2>1, <2>3, <2>4
  <1>5. \A m \in AgentNames \ named : agentRow'[m] = agentRow[m]
    BY <1>3
  <1>6. agentRow' \in [AgentNames -> WideRow] /\ \A m \in AgentNames : OwnEntry(agentRow'[m], m)
    <2>1. \A m \in AgentNames : agentRow'[m] \in WideRow
      BY <1>1, <1>4, <1>5
    <2>2. \A m \in AgentNames : OwnEntry(agentRow'[m], m)
      BY <1>1, <1>4, <1>5 DEF Entries, OwnEntry, EntryOf
    <2> QED BY <1>3, <2>1, <2>2
  <1>7. ASSUME single, NEW m \in unified', Plain(m) PROVE Agree(m)'
    <2>1. list = openclaw.list
      BY <1>1, <1>2, <1>7, Alone DEF UnderWay, NewList
    <2>2. CASE m \in named
      <3>1. EntryOf(agentRow'[m], m) = PutId[m] /\ last[m] = PutId[m]
        BY <1>4, <1>6, <1>7, <2>2 DEF OwnEntry
      <3> QED BY <1>1, <1>4, <2>1, <2>2, <3>1 DEF Agree, Within
    <2>3. CASE m \notin named
      <3>1. Agree(m) /\ m \in AgentNames
        BY <1>1, <1>2, <1>7, <2>3, Alone
      <3> QED BY <1>1, <1>5, <2>3, <3>1, AgreeSame
    <2> QED BY <2>2, <2>3
  <1>8. unified' \subseteq AgentNames
    BY <1>1
  <1> HIDE DEF list, named
  <1> QED BY <1>1, <1>2, <1>6, <1>7, <1>8, EndKeeps

LEMMA AgentStep ==
  ASSUME AgentInv, [AgentNext]_agentVars
  PROVE  AgentInv'
  <1>1. CASE UNCHANGED agentVars
    <2>1. AgentShape' /\ Entries'
      BY <1>1 DEF agentVars, AgentInv, AgentShape, Entries, Resting
    <2>2. ASSUME single' PROVE Single'
      <3>1. Single
        BY <1>1, <2>2 DEF agentVars, AgentInv
      <3>2. \A n : Agree(n) <=> Agree(n)'
        BY <1>1 DEF agentVars, Agree, EntryOf, EntriesOf, HasEntry, NameOf, Within
      <3>3. \A c : UnderWay(c) <=> UnderWay(c)'
        BY <1>1 DEF agentVars, UnderWay, PostUnderWay, PutUnderWay, DeleteUnderWay, SyncUnderWay, NewList,
                    Within
      <3> QED BY <1>1, <3>1, <3>2, <3>3 DEF agentVars, Single, Resting
    <2> QED BY <2>1, <2>2 DEF AgentInv
  <1>2. ASSUME NEW c \in Callers, StartSync(c) PROVE AgentInv'
    <2>1. NoCall.name \in AgentNames
      BY NoCallOK DEF WideCall
    <2> QED BY <1>2, <2>1, StartKeeps DEF StartSync
  <1>3. ASSUME NEW c \in Callers, CallStep(c) PROVE AgentInv'
    BY <1>3, CommandSucceedsKeeps, CommandFailsKeeps, ReadKeeps, EmptyKeeps, WriteKeeps,
       SucceedsKeeps, FailsKeeps, SyncKeeps DEF CallStep
  <1>4. ASSUME NEW c \in Callers, NEW n \in AgentNames, NEW workspace \in BOOLEAN,
               DeleteAgent(c, n, workspace)
        PROVE AgentInv'
    <2> DEFINE phase == IF workspace THEN "command" ELSE "reading"
    <2>1. /\ AgentRequest(c, "delete", phase, n, NoConfig, TRUE)
          /\ UNCHANGED <<agentRow, openclaw, unified>> /\ single' = (single /\ NoCalls)
      BY <1>4 DEF DeleteAgent, Ask
    <2>2. phase \in {"command", "reading"}
      OBVIOUS
    <2> HIDE DEF phase
    <2> QED BY <2>1, <2>2, StartKeeps
  <1>5. CASE RestartCalls
    <2>1. /\ call' = [c \in Callers |-> NoCall] /\ single' = FALSE
          /\ UNCHANGED <<agentRow, openclaw, unified>>
      BY <1>5 DEF RestartCalls
    <2>2. NoCall.name \in AgentNames
      BY NoCallOK DEF WideCall
    <2>3. AgentShape' /\ Entries'
      BY <2>1, <2>2, NoCallOK DEF AgentInv, AgentShape, Entries, Resting
    <2> QED BY <2>1, <2>3 DEF AgentInv
  <1> QED BY <1>1, <1>2, <1>3, <1>4, <1>5, PostKeeps, PutKeeps, ReplaceKeeps, OpenClawKeeps
          DEF AgentNext

LEMMA AgentInductive == AgentSpec => []AgentInv
  BY AgentInitial, AgentStep, PTL DEF AgentSpec

(* A row is born again by the deletion of another one only, and a deletion *)
(* was wished for after the row it found was born.                         *)
Counted ==
  /\ wishes \in 0..MaxWishes /\ errors \in 0..MaxErrors
  /\ \A n \in AgentNames : agentRow[n].born <= wishes
  /\ \A c \in Callers :
       /\ call[c].row.born <= wishes
       /\ call[c].kind = "delete" => call[c].row.born < wishes

LEMMA Births ==
  ASSUME AgentShape
  PROVE  /\ \A n \in AgentNames : agentRow[n] \in WideRow /\ agentRow[n].born \in Nat
         /\ \A c \in Callers : /\ call[c] \in WideCall /\ call[c].row \in WideRow
                               /\ call[c].row.born \in Nat /\ call[c].name \in AgentNames
         /\ NoCall.row.born = 0 /\ NoCall.kind = "none"
         /\ MaxWishes \in Nat /\ MaxErrors \in Nat
  <1>1. \A n \in AgentNames : agentRow[n] \in WideRow
    BY DEF AgentShape
  <1>2. \A c \in Callers : call[c] \in WideCall
    BY DEF AgentShape
  <1>3. \A c \in Callers : call[c].row \in WideRow /\ call[c].name \in AgentNames
    BY <1>2 DEF WideCall
  <1>4. NoCall.row = NoRow /\ NoRow.born = 0
    BY NoCallOK DEF NoRow
  <1> QED BY <1>1, <1>2, <1>3, <1>4, NoCallOK, AgentAssumption DEF WideRow

(* The calls under way go on or end, and another row is born only as many  *)
(* times as there were wishes.                                             *)
LEMMA CountedOn ==
  ASSUME AgentShape, Counted, wishes' \in {wishes, wishes + 1}, wishes' <= MaxWishes,
         errors' \in {errors, errors + 1}, errors' <= MaxErrors,
         \A n \in AgentNames : agentRow'[n].born \in Nat,
         \A n \in AgentNames : agentRow'[n].born = agentRow[n].born \/ agentRow'[n].born <= wishes,
         \A c \in Callers : \/ call'[c].row.born = 0 /\ call'[c].kind # "delete"
                            \/ call'[c].row = call[c].row /\ call'[c].kind = call[c].kind
                            \/ /\ \E n \in AgentNames : call'[c].row = agentRow[n]
                               /\ call'[c].kind = "delete" => wishes' = wishes + 1
  PROVE  Counted'
  <1>1. wishes \in Nat /\ errors \in Nat /\ wishes' >= wishes
    BY Births DEF Counted
  <1>2. wishes' \in 0..MaxWishes /\ errors' \in 0..MaxErrors
    BY <1>1, Births
  <1>3. ASSUME NEW n \in AgentNames PROVE agentRow'[n].born <= wishes'
    <2>1. agentRow[n].born \in Nat /\ agentRow[n].born <= wishes
      BY Births DEF Counted
    <2>2. wishes' = wishes \/ wishes' = wishes + 1
      OBVIOUS
    <2>3. CASE agentRow'[n].born = agentRow[n].born
      BY <1>1, <2>1, <2>2, <2>3
    <2>4. CASE agentRow'[n].born <= wishes /\ agentRow'[n].born # agentRow[n].born
      BY <1>1, <2>2, <2>4
    <2> QED BY <2>3, <2>4
  <1>4. ASSUME NEW c \in Callers
        PROVE  /\ call'[c].row.born <= wishes'
               /\ call'[c].kind = "delete" => call'[c].row.born < wishes'
    <2>1. CASE call'[c].row.born = 0 /\ call'[c].kind # "delete"
      BY <1>1, <2>1
    <2>2. CASE call'[c].row = call[c].row /\ call'[c].kind = call[c].kind
      BY <1>1, <2>2, Births DEF Counted
    <2>3. CASE /\ \E n \in AgentNames : call'[c].row = agentRow[n]
               /\ call'[c].kind = "delete" => wishes' = wishes + 1
      <3>1. PICK n \in AgentNames : call'[c].row = agentRow[n]
        BY <2>3
      <3>2. agentRow[n].born \in Nat /\ agentRow[n].born <= wishes
        BY Births DEF Counted
      <3> QED BY <1>1, <2>3, <3>1, <3>2
    <2> QED BY <2>1, <2>2, <2>3
  <1> QED BY <1>2, <1>3, <1>4 DEF Counted

(* Calls that stay as they are, but for the one that takes a step.         *)
OneGoesOn(c) ==
  /\ \A d \in Callers \ {c} : call'[d] = call[d]
  /\ call'[c] = NoCall \/ (call'[c].row = call[c].row /\ call'[c].kind = call[c].kind)

LEMMA CallGoesOn ==
  ASSUME AgentShape, NEW c \in Callers,
         \/ Ends(c) \/ UNCHANGED call
         \/ \E phase \in {"command", "reading", "read", "emptied", "written"} : GoesTo(c, phase)
         \/ \E phase \in {"read", "written"}, list \in [Ids -> AgentEntry] :
              call' = [call EXCEPT ![c].phase = phase, ![c].list = list]
  PROVE  OneGoesOn(c)
  <1>1. call \in [Callers -> WideCall] /\ call[c] \in WideCall
    BY DEF AgentShape
  <1> QED BY <1>1 DEF OneGoesOn, Ends, GoesTo, WideCall

LEMMA DeletionCounted ==
  ASSUME AgentShape, Counted, NEW c \in Callers, call[c].kind = "delete"
  PROVE  \A n \in AgentNames : RowDeleted(c)[n].born = agentRow[n].born \/ RowDeleted(c)[n].born <= wishes
  <1>1. CASE SameRow(c)
    <2> DEFINE m == call[c].name
    <2>1. agentRow[m].born = call[c].row.born /\ agentRow[m].born + 1 <= wishes
      BY <1>1, Births DEF SameRow, Counted
    <2>2. RowDeleted(c) = [agentRow EXCEPT ![m] = [NoRow EXCEPT !.born = agentRow[m].born + 1]]
      BY <1>1 DEF RowDeleted
    <2>3. [NoRow EXCEPT !.born = agentRow[m].born + 1].born = agentRow[m].born + 1
      BY DEF NoRow
    <2>4. agentRow \in [AgentNames -> WideRow] /\ m \in AgentNames
      BY Births DEF AgentShape
    <2> HIDE DEF m
    <2> QED BY <2>1, <2>2, <2>3, <2>4
  <1>2. CASE ~SameRow(c)
    BY <1>2 DEF RowDeleted
  <1> QED BY <1>1, <1>2

LEMMA CountedStep ==
  ASSUME AgentInv, AgentInv', Counted, [AgentNext]_agentVars
  PROVE  Counted'
  <1>1. AgentShape /\ Entries /\ AgentShape'
    BY DEF AgentInv
  <1>2. \A n \in AgentNames : agentRow'[n].born \in Nat
    BY <1>1 DEF AgentShape, WideRow
  <1>3. wishes \in 0..MaxWishes /\ errors \in 0..MaxErrors /\ MaxWishes \in Nat /\ MaxErrors \in Nat
    BY <1>1, Births DEF Counted
  <1>4. ASSUME NEW c \in Callers, OneGoesOn(c), UNCHANGED wishes, errors' \in {errors, errors + 1},
               errors' <= MaxErrors,
               \A n \in AgentNames : agentRow'[n].born = agentRow[n].born \/ agentRow'[n].born <= wishes
        PROVE Counted'
    <2>1. \A d \in Callers : \/ call'[d].row.born = 0 /\ call'[d].kind # "delete"
                             \/ call'[d].row = call[d].row /\ call'[d].kind = call[d].kind
      BY <1>1, <1>4, Births DEF OneGoesOn
    <2> QED BY <1>1, <1>2, <1>3, <1>4, <2>1, CountedOn
  <1>5. ASSUME NEW c \in Callers, NEW n \in AgentNames, wishes' \in {wishes, wishes + 1}, wishes' <= MaxWishes,
               UNCHANGED errors, \A m \in AgentNames : agentRow'[m].born = agentRow[m].born,
               \/ UNCHANGED call
               \/ /\ \A d \in Callers \ {c} : call'[d] = call[d]
                  /\ call'[c].row = agentRow[n] /\ (call'[c].kind = "delete" => wishes' = wishes + 1)
        PROVE Counted'
    <2>1. \A d \in Callers : \/ call'[d].row.born = 0 /\ call'[d].kind # "delete"
                             \/ call'[d].row = call[d].row /\ call'[d].kind = call[d].kind
                             \/ /\ \E m \in AgentNames : call'[d].row = agentRow[m]
                                /\ call'[d].kind = "delete" => wishes' = wishes + 1
      BY <1>5
    <2> QED BY <1>1, <1>2, <1>3, <1>5, <2>1, CountedOn
  <1>6. ASSUME NEW n \in AgentNames, NEW config PROVE
               \A m \in AgentNames : Inserted(n, config)[m].born = agentRow[m].born
    BY <1>1 DEF Inserted, AgentShape, WideRow
  <1>7. ASSUME NEW c \in Callers, Ask(c) PROVE wishes' = wishes + 1 /\ wishes' <= MaxWishes
    BY <1>3, <1>7 DEF Ask
  <1>8. ASSUME NEW c \in Callers, NEW n \in AgentNames, NEW config \in Configs, NEW gateway \in BOOLEAN,
               NEW provision \in BOOLEAN, PostAgent(c, n, config, gateway, provision)
        PROVE Counted'
    <2>1. \A m \in AgentNames : agentRow'[m].born = agentRow[m].born
      BY <1>6, <1>8 DEF PostAgent
    <2>2. CASE provision \/ gateway
      <3> DEFINE phase == IF provision THEN "command" ELSE "reading"
      <3>1. AgentRequest(c, "post", phase, n, config, gateway)
        BY <1>8, <2>2 DEF PostAgent
      <3>2. phase \in {"command", "reading"}
        OBVIOUS
      <3> HIDE DEF phase
      <3>3. call'[c].row = agentRow[n] /\ call'[c].kind = "post" /\ \A d \in Callers \ {c} : call'[d] = call[d]
        BY <1>1, <3>1, <3>2, RequestOK
      <3> QED BY <1>5, <1>7, <1>8, <2>1, <3>3 DEF PostAgent
    <2>3. CASE ~(provision \/ gateway)
      BY <1>5, <1>7, <1>8, <2>1, <2>3 DEF PostAgent
    <2> QED BY <2>2, <2>3
  <1>9. ASSUME NEW c \in Callers, NEW n \in AgentNames, NEW config \in Configs, NEW gateway \in BOOLEAN,
               PutAgent(c, n, config, gateway)
        PROVE Counted'
    <2>1. \A m \in AgentNames : agentRow'[m].born = agentRow[m].born
      BY <1>1, <1>9 DEF PutAgent, AgentShape, WideRow
    <2>2. CASE gateway
      <3>1. AgentRequest(c, "put", "reading", n, config, TRUE)
        BY <1>9, <2>2 DEF PutAgent
      <3>2. call'[c].row = agentRow[n] /\ call'[c].kind = "put" /\ \A d \in Callers \ {c} : call'[d] = call[d]
        BY <1>1, <3>1, RequestOK
      <3> QED BY <1>5, <1>7, <1>9, <2>1, <3>2 DEF PutAgent
    <2>3. CASE ~gateway
      BY <1>5, <1>7, <1>9, <2>1, <2>3 DEF PutAgent
    <2> QED BY <2>2, <2>3
  <1>10. ASSUME NEW c \in Callers, NEW n \in AgentNames, NEW config \in Configs, ReplaceConfigOfRow(c, n, config)
         PROVE Counted'
    <2>1. \A m \in AgentNames : agentRow'[m].born = agentRow[m].born
      BY <1>1, <1>10 DEF ReplaceConfigOfRow, AgentShape, WideRow
    <2> QED BY <1>5, <1>7, <1>10, <2>1 DEF ReplaceConfigOfRow
  <1>11. ASSUME NEW c \in Callers, NEW n \in AgentNames, NEW workspace \in BOOLEAN, DeleteAgent(c, n, workspace)
         PROVE Counted'
    <2> DEFINE phase == IF workspace THEN "command" ELSE "reading"
    <2>1. AgentRequest(c, "delete", phase, n, NoConfig, TRUE) /\ phase \in {"command", "reading"}
      BY <1>11 DEF DeleteAgent
    <2> HIDE DEF phase
    <2>2. NoCall \in WideCall /\ agentRow[n] \in WideRow /\ call \in [Callers -> WideCall]
      BY <1>1, NoCallOK, Births DEF AgentShape
    <2>3. call'[c].row = agentRow[n] /\ \A d \in Callers \ {c} : call'[d] = call[d]
      BY <2>1, <2>2 DEF AgentRequest, WideCall
    <2> QED BY <1>5, <1>7, <1>11, <2>3 DEF DeleteAgent
  <1>12. ASSUME NEW c \in Callers, StartSync(c) PROVE Counted'
    <2>1. AgentRequest(c, "sync", "reading", NoCall.name, NoConfig, FALSE)
      BY <1>12 DEF StartSync
    <2>2. NoCall.name \in AgentNames
      BY NoCallOK DEF WideCall
    <2>3. call'[c].row = agentRow[NoCall.name] /\ call'[c].kind = "sync"
          /\ \A d \in Callers \ {c} : call'[d] = call[d]
      BY <1>1, <2>1, <2>2, RequestOK
    <2> QED BY <1>3, <1>5, <1>12, <2>2, <2>3 DEF StartSync
  <1>13. ASSUME NEW c \in Callers, CommandSucceeds(c) PROVE Counted'
    <2>1. (Ends(c) \/ GoesTo(c, "reading")) /\ (agentRow' = agentRow \/ agentRow' = Inserted(call[c].name, call[c].config))
      BY <1>13 DEF CommandSucceeds
    <2>2. OneGoesOn(c) /\ call[c].name \in AgentNames
      BY <1>1, <2>1, CallGoesOn, Births
    <2> QED BY <1>3, <1>4, <1>6, <1>13, <2>1, <2>2 DEF CommandSucceeds
  <1>14. ASSUME NEW c \in Callers, CommandFails(c) PROVE Counted'
    <2>1. OneGoesOn(c)
      BY <1>1, <1>14, CallGoesOn DEF CommandFails
    <2>2. errors' \in {errors, errors + 1} /\ errors' <= MaxErrors
      BY <1>3, <1>14 DEF CommandFails
    <2> QED BY <1>4, <1>14, <2>1, <2>2 DEF CommandFails
  <1>15. ASSUME NEW c \in Callers, ReadConfig(c) PROVE Counted'
    <2>1. NewList(c, openclaw.list) \in [Ids -> AgentEntry]
      <3>1. call[c] \in WideCall /\ openclaw.list \in [Ids -> AgentEntry] /\ NamedByRoute(openclaw.list)
        BY <1>1, Births DEF AgentShape, Entries
      <3> QED BY <3>1, NewListOK
    <2>2. GoesTo(c, "written") \/ call' = [call EXCEPT ![c].phase = "read", ![c].list = NewList(c, openclaw.list)]
      BY <1>15 DEF ReadConfig
    <2>3. OneGoesOn(c)
      BY <1>1, <2>1, <2>2, CallGoesOn
    <2> QED BY <1>3, <1>4, <1>15, <2>3 DEF ReadConfig
  <1>16. ASSUME NEW c \in Callers, EmptyConfig(c) PROVE Counted'
    <2>1. OneGoesOn(c)
      BY <1>1, <1>16, CallGoesOn DEF EmptyConfig
    <2> QED BY <1>3, <1>4, <1>16, <2>1 DEF EmptyConfig
  <1>17. ASSUME NEW c \in Callers, WriteConfig(c) PROVE Counted'
    <2>1. NoCall.list \in [Ids -> AgentEntry]
      BY NoCallOK DEF WideCall
    <2>2. OneGoesOn(c)
      BY <1>1, <1>17, <2>1, CallGoesOn DEF WriteConfig
    <2> QED BY <1>3, <1>4, <1>17, <2>2 DEF WriteConfig
  <1>18. ASSUME NEW c \in Callers, CallSucceeds(c) PROVE Counted'
    <2>1. OneGoesOn(c)
      BY <1>1, <1>18, CallGoesOn DEF CallSucceeds
    <2>2. \A n \in AgentNames : agentRow'[n].born = agentRow[n].born \/ agentRow'[n].born <= wishes
      BY <1>1, <1>18, DeletionCounted DEF CallSucceeds
    <2> QED BY <1>3, <1>4, <1>18, <2>1, <2>2 DEF CallSucceeds
  <1>19. ASSUME NEW c \in Callers, CallFails(c) PROVE Counted'
    <2>1. OneGoesOn(c)
      BY <1>1, <1>19, CallGoesOn DEF CallFails
    <2>2. errors' \in {errors, errors + 1} /\ errors' <= MaxErrors
      BY <1>3, <1>19 DEF CallFails, Fails
    <2>3. ASSUME NEW n \in AgentNames
          PROVE agentRow'[n].born = agentRow[n].born \/ agentRow'[n].born <= wishes
      <3>1. CASE call[c].kind = "put" /\ SameRow(c)
        <4>1. agentRow' = [agentRow EXCEPT ![call[c].name] = call[c].row]
          BY <1>19, <3>1 DEF CallFails
        <4>2. agentRow[call[c].name].born = call[c].row.born
          BY <3>1 DEF SameRow
        <4> QED BY <1>1, <4>1, <4>2 DEF AgentShape
      <3>2. CASE call[c].kind = "delete"
        <4>1. agentRow' = RowDeleted(c)
          BY <1>19, <3>2 DEF CallFails
        <4> QED BY <1>1, <3>2, <4>1, DeletionCounted
      <3>3. CASE ~(call[c].kind = "put" /\ SameRow(c)) /\ call[c].kind # "delete"
        BY <1>19, <3>3 DEF CallFails
      <3> QED BY <3>1, <3>2, <3>3
    <2> QED BY <1>4, <1>19, <2>1, <2>2, <2>3 DEF CallFails
  <1>20. ASSUME NEW c \in Callers, SyncApplies(c) PROVE Counted'
    <2>1. OneGoesOn(c)
      BY <1>1, <1>20, CallGoesOn DEF SyncApplies
    <2>2. ASSUME NEW n \in AgentNames PROVE agentRow'[n].born = agentRow[n].born
      <3>1. agentRow'[n] = agentRow[n] \/ \E i : agentRow'[n] = SyncedRow(call[c].list, i, agentRow[n])
        BY <1>20 DEF SyncApplies
      <3>2. agentRow[n] \in WideRow
        BY <1>1, Births
      <3> QED BY <3>1, <3>2 DEF SyncedRow, WideRow
    <2> QED BY <1>3, <1>4, <1>20, <2>1, <2>2 DEF SyncApplies
  <1>21. ASSUME NEW i \in Ids, NEW entry \in AgentEntry, OpenClawWrites(i, entry) PROVE Counted'
    <2>1. wishes' \in {wishes, wishes + 1} /\ wishes' <= MaxWishes
      BY <1>3, <1>21 DEF OpenClawWrites
    <2> QED BY <1>1, <1>2, <1>3, <1>21, <2>1, CountedOn DEF OpenClawWrites
  <1>22. ASSUME RestartCalls PROVE Counted'
    <2>1. \A c \in Callers : call'[c].row.born = 0 /\ call'[c].kind # "delete"
      BY <1>1, <1>22, Births DEF RestartCalls
    <2>2. errors' \in {errors, errors + 1} /\ errors' <= MaxErrors
      BY <1>3, <1>22 DEF RestartCalls
    <2> QED BY <1>1, <1>2, <1>3, <1>22, <2>1, <2>2, CountedOn DEF RestartCalls
  <1>23. ASSUME UNCHANGED agentVars PROVE Counted'
    BY <1>23 DEF agentVars, Counted
  <1> QED BY <1>8, <1>9, <1>10, <1>11, <1>12, <1>13, <1>14, <1>15, <1>16, <1>17, <1>18, <1>19, <1>20,
             <1>21, <1>22, <1>23 DEF AgentNext, CallStep

(* Every reachable state of the agents and their calls is well typed.      *)
THEOREM AgentTypeCorrect == AgentSpec => []AgentTypeOK
  <1>1. AgentInit => Counted
    <2> SUFFICES ASSUME AgentInit PROVE Counted
      OBVIOUS
    <2>1. (\A n \in AgentNames : agentRow[n].born = 0) /\ \A c \in Callers : call[c] = NoCall
      BY DEF AgentInit, NoRow
    <2> QED BY <2>1, AgentInitial, Births DEF AgentInit, AgentInv, Counted
  <1>2. AgentInv /\ Counted => AgentTypeOK
    <2> SUFFICES ASSUME AgentInv, Counted PROVE AgentTypeOK
      OBVIOUS
    <2>1. AgentShape /\ wishes \in 0..MaxWishes /\ MaxWishes \in Nat
      BY Births DEF AgentInv, Counted
    <2>2. \A row \in WideRow : row.born <= wishes => row \in AgentRow
      BY <2>1 DEF WideRow, AgentRow
    <2>3. agentRow \in [AgentNames -> AgentRow]
      BY <2>1, <2>2, Births DEF AgentShape, Counted
    <2>4. ASSUME NEW c \in Callers PROVE call[c] \in AgentCall
      <3>1. call[c] \in WideCall /\ call[c].row \in AgentRow
        BY <2>1, <2>2, Births DEF Counted
      <3> QED BY <3>1 DEF WideCall, AgentCall
    <2> QED BY <2>1, <2>3, <2>4 DEF AgentTypeOK, AgentShape, Counted
  <1> QED BY <1>1, <1>2, AgentInductive, CountedStep, PTL DEF AgentSpec

(* The two halves of a save stay together: while calls come one after the  *)
(* other, an agent's entry has what its row says of the field after a      *)
(* save, a deletion or a sync, and still does after later saves failed     *)
(* halfway, though the row is replaced and the entry is merged.            *)
THEOREM UnifiedSaves == AgentSpec => []SaveIsUnified
  <1>1. AgentInv => SaveIsUnified
    BY RestingAgree DEF AgentInv, SaveIsUnified
  <1> QED BY <1>1, AgentInductive, PTL

(* A sync that applies the file as it still is leaves no entry without its *)
(* row, whatever requests that overlap made of the two before: what        *)
(* FileIsMirrored needs of every single sync (syncAgentsFromConfig).       *)
THEOREM SyncAdopts ==
  AgentSpec => [][\A c \in Callers : SyncApplies(c) /\ call[c].list = openclaw.list => Mirrored']_agentVars
  <1>1. ASSUME AgentInv, NEW c \in Callers, SyncApplies(c), call[c].list = openclaw.list
        PROVE Mirrored'
    <2> DEFINE list == call[c].list
               named == {n \in AgentNames : EntriesOf(list, n) # {}}
    <2>1. PICK last \in [named -> Ids] :
            /\ \A n \in named : last[n] \in EntriesOf(list, n)
            /\ agentRow' = [n \in AgentNames |->
                 IF n \in named THEN SyncedRow(list, last[n], agentRow[n]) ELSE agentRow[n]]
      BY <1>1 DEF SyncApplies
    <2>2. openclaw' = openclaw /\ list = openclaw.list
      BY <1>1 DEF SyncApplies
    <2>3. agentRow \in [AgentNames -> WideRow] /\ list \in [Ids -> AgentEntry]
      BY <1>1, <2>2 DEF AgentInv, AgentShape
    <2>4. ASSUME NEW i \in Ids, NEW n, n = NameOf(list, i), EntriesOf(list, n) = {i}
          PROVE agentRow'[n].there /\ agentRow'[n].config = list[i].config
      <3>1. n \in AgentNames
        BY <2>3, <2>4, AgentAssumption DEF NameOf, AgentEntry
      <3>2. n \in named /\ last[n] = i
        BY <2>1, <2>4, <3>1
      <3> HIDE DEF named, list
      <3>3. agentRow'[n] = SyncedRow(list, i, agentRow[n])
        BY <2>1, <3>1, <3>2
      <3> QED BY <2>3, <3>1, <3>3 DEF SyncedRow, WideRow
    <2> QED BY <2>2, <2>4 DEF Mirrored, EntriesOf, HasEntry, NameOf
  <1>2. AgentInv =>
          \A c \in Callers : SyncApplies(c) /\ call[c].list = openclaw.list => Mirrored'
    BY <1>1
  <1> QED BY <1>2, AgentInductive, PTL DEF AgentSpec

-----------------------------------------------------------------------------
(* The board of the page.                                                  *)

(* The events about a task that are on their way.                          *)
Heard(t, ev) == {k \in DOMAIN ev : ev[k].id = t}

(* How the row of a task, its entry on the board and the events between    *)
(* them fit together. Before the event that it was created, a task is not  *)
(* listed and only drops were broadcast; after the one that it is deleted, *)
(* only drops are. The last event says where the row is.                   *)
Sound(t, ev, row, entry, ahead) ==
  /\ \A k \in Heard(t, ev) : ev[k].type = "task.created" =>
       /\ entry = Unlisted /\ row # None
       /\ \A j \in Heard(t, ev) : j < k => ev[j].type = "task.status_changed"
  /\ \A k \in Heard(t, ev) : ev[k].type = "task.deleted" =>
       /\ row = Gone
       /\ \A j \in Heard(t, ev) : j > k => ev[j].type = "task.status_changed"
  /\ row \in Columns =>
       /\ Heard(t, ev) = {} => entry = Entry(row) \/ ahead
       /\ \A k \in Heard(t, ev) : (\A j \in Heard(t, ev) : j <= k) => ev[k].at = row
       /\ entry.copies = 1 \/ \E k \in Heard(t, ev) : ev[k].type = "task.created"
  /\ row \notin Columns =>
       \/ \E k \in Heard(t, ev) : ev[k].type = "task.deleted"
       \/ entry = Unlisted /\ \A k \in Heard(t, ev) : ev[k].type = "task.status_changed"

Phases == {"connecting", "registered", "open", "waiting", "over"}

BoardShape ==
  /\ BoardTypeOK
  /\ stream \in [phase : Phases, events : Seq(Event)]
  /\ \A m \in Moves : \A a, b \in moves[m] : a = b

AllSound ==
  /\ followed # {} => Receives
  /\ \A t \in followed : Sound(t, stream.events, table[t], board[t], Ahead(t))

BoardInv == BoardShape /\ AllSound

LEMMA BoardValues ==
  /\ SomeColumn \in Columns /\ Unlisted \in Listed
  /\ MaxReconnects \in Nat /\ MaxChanges \in Nat /\ MaxDrops \in Nat /\ MaxFetches \in Nat
  /\ None \notin Columns /\ Gone \notin Columns /\ None # Gone
  /\ \A n \in Nat, p \in Projects : Asked(n, p) \in Fetch
  /\ \A row \in Row : Entry(row) \in Listed
  <1>1. SomeColumn \in Columns
    BY BoardAssumption DEF SomeColumn
  <1>2. Unlisted \in Listed
    BY <1>1 DEF Unlisted, Listed
  <1>3. \A n \in Nat, p \in Projects : Asked(n, p) \in Fetch
    BY DEF Asked, Fetch, Row
  <1>4. \A row \in Row : Entry(row) \in Listed
    BY <1>2 DEF Entry, Row, Listed
  <1> QED BY <1>1, <1>2, <1>3, <1>4, BoardAssumption DEF None, Gone

(* What is left when the first event arrives.                              *)
LEMMA HeardRest ==
  ASSUME NEW t, NEW ev \in Seq(Event), ev # <<>>
  PROVE  /\ Tail(ev) \in Seq(Event) /\ Head(ev) = ev[1] /\ 1 \in DOMAIN ev
         /\ \A k \in DOMAIN ev : k \in Nat /\ k >= 1
         /\ \A k \in Heard(t, Tail(ev)) : k + 1 \in Heard(t, ev) /\ Tail(ev)[k] = ev[k + 1]
         /\ \A k \in Heard(t, ev) \ {1} : k - 1 \in Heard(t, Tail(ev)) /\ Tail(ev)[k - 1] = ev[k]
  <1>1. /\ Tail(ev) \in Seq(Event) /\ Len(ev) \in Nat \ {0} /\ Len(Tail(ev)) = Len(ev) - 1
        /\ DOMAIN ev = 1..Len(ev) /\ DOMAIN Tail(ev) = 1..Len(Tail(ev)) /\ Head(ev) = ev[1]
        /\ \A k \in 1..Len(Tail(ev)) : Tail(ev)[k] = ev[k + 1]
    OBVIOUS
  <1>2. ASSUME NEW k \in Heard(t, Tail(ev)) PROVE k + 1 \in Heard(t, ev) /\ Tail(ev)[k] = ev[k + 1]
    <2>1. k \in 1..Len(Tail(ev)) /\ Tail(ev)[k].id = t
      BY <1>1 DEF Heard
    <2> QED BY <1>1, <2>1 DEF Heard
  <1>3. ASSUME NEW k \in Heard(t, ev) \ {1}
        PROVE k - 1 \in Heard(t, Tail(ev)) /\ Tail(ev)[k - 1] = ev[k]
    <2>1. k \in 2..Len(ev) /\ ev[k].id = t
      BY <1>1 DEF Heard
    <2>2. k - 1 \in 1..Len(Tail(ev)) /\ Tail(ev)[k - 1] = ev[(k - 1) + 1] /\ (k - 1) + 1 = k
      BY <1>1, <2>1
    <2> QED BY <1>1, <2>1, <2>2 DEF Heard
  <1>4. \A k \in DOMAIN ev : k \in Nat /\ k >= 1
    BY <1>1
  <1>5. 1 \in DOMAIN ev
    BY <1>1
  <1> QED BY <1>1, <1>2, <1>3, <1>4, <1>5, Zenon

(* What is there after one more event is sent.                             *)
LEMMA HeardBefore ==
  ASSUME NEW t, NEW ev \in Seq(Event), NEW e \in Event
  PROVE  \A k \in Heard(t, ev) : k \in Nat /\ k < Len(ev) + 1 /\ Append(ev, e)[k] = ev[k]
  BY DEF Heard

LEMMA HeardMore ==
  ASSUME NEW t, NEW ev \in Seq(Event), NEW e \in Event
  PROVE  /\ Len(ev) + 1 \in Nat /\ Append(ev, e)[Len(ev) + 1] = e
         /\ e.id = t => Heard(t, Append(ev, e)) = Heard(t, ev) \cup {Len(ev) + 1}
         /\ e.id # t => Heard(t, Append(ev, e)) = Heard(t, ev)
  <1> DEFINE n == Len(ev) + 1
             more == Append(ev, e)
  <1>1. /\ n \in Nat /\ more[n] = e /\ DOMAIN more = 1..n /\ DOMAIN ev = 1..(n - 1)
        /\ \A k \in 1..(n - 1) : more[k] = ev[k]
    OBVIOUS
  <1> HIDE DEF n, more
  <1>2. /\ e.id = t => Heard(t, more) = Heard(t, ev) \cup {n}
        /\ e.id # t => Heard(t, more) = Heard(t, ev)
    <2>1. Heard(t, more) = {k \in 1..n : more[k].id = t} /\ Heard(t, ev) = {k \in 1..(n - 1) : ev[k].id = t}
      BY <1>1 DEF Heard
    <2>2. 1..n = 1..(n - 1) \cup {n}
      <3>1. n >= 1
        BY DEF n
      <3> QED BY <1>1, <3>1
    <2>3. \A k : k \in Heard(t, more) <=> k \in Heard(t, ev) \cup (IF e.id = t THEN {n} ELSE {})
      BY <1>1, <2>1, <2>2
    <2> QED BY <2>3
  <1> QED BY <1>1, <1>2 DEF n, more

(* Events about other tasks change nothing.                                *)
LEMMA OthersHeard ==
  ASSUME NEW t, NEW ev \in Seq(Event), NEW e \in Event, e.id # t, NEW row, NEW entry,
         NEW ahead \in BOOLEAN, Sound(t, ev, row, entry, ahead)
  PROVE  Sound(t, Append(ev, e), row, entry, ahead)
  <1>1. Heard(t, Append(ev, e)) = Heard(t, ev)
    BY HeardMore
  <1>2. \A k \in Heard(t, ev) : Append(ev, e)[k] = ev[k]
    BY HeardBefore
  <1> QED BY <1>1, <1>2 DEF Sound

(* The event of a write says what the write did, and that of a drop on a   *)
(* task that is gone is heard before or after all others.                  *)
LEMMA OwnHeard ==
  ASSUME NEW t, NEW ev \in Seq(Event), NEW e \in Event, e.id = t, NEW row \in Row, NEW entry,
         NEW ahead \in BOOLEAN, NEW ahead2 \in BOOLEAN, Sound(t, ev, row, entry, ahead), NEW row2 \in Row,
         \/ e.type = "task.created" /\ row = None /\ row2 = e.at
         \/ e.type = "task.status_changed" /\ row \in Columns /\ row2 = e.at
         \/ e.type = "task.status_changed" /\ row \notin Columns /\ row2 = row
         \/ e.type = "task.deleted" /\ row \in Columns /\ row2 = Gone
  PROVE  Sound(t, Append(ev, e), row2, entry, ahead2)
  <1> DEFINE n == Len(ev) + 1
             more == Append(ev, e)
             A == Heard(t, ev)
             B == Heard(t, more)
  <1>1. /\ n \in Nat /\ more[n] = e /\ B = A \cup {n}
        /\ \A k \in A : k \in Nat /\ k < n /\ more[k] = ev[k]
    BY HeardMore, HeardBefore
  <1>2. e.at \in Columns
    BY DEF Event
  <1> HIDE DEF n, more, A, B
  <1>3. /\ \A k \in A : ev[k].type = "task.created" =>
             entry = Unlisted /\ row # None /\ \A j \in A : j < k => ev[j].type = "task.status_changed"
        /\ \A k \in A : ev[k].type = "task.deleted" =>
             row = Gone /\ \A j \in A : j > k => ev[j].type = "task.status_changed"
        /\ row \in Columns => entry.copies = 1 \/ \E k \in A : ev[k].type = "task.created"
        /\ row \notin Columns => \/ \E k \in A : ev[k].type = "task.deleted"
                                 \/ entry = Unlisted /\ \A k \in A : ev[k].type = "task.status_changed"
    BY DEF Sound, A
  <1>4. ASSUME NEW k \in B, more[k].type = "task.created"
        PROVE  entry = Unlisted /\ row2 # None /\ \A j \in B : j < k => more[j].type = "task.status_changed"
    <2>1. CASE k = n
      <3>1. e.type = "task.created" /\ row = None /\ row2 = e.at
        BY <1>1, <1>4, <2>1
      <3>2. \A j \in A : ev[j].type = "task.status_changed"
        BY <1>3, <3>1, BoardValues
      <3>3. entry = Unlisted
        BY <1>3, <3>1, BoardValues
      <3> QED BY <1>1, <1>2, <2>1, <3>1, <3>2, <3>3, BoardValues
    <2>2. CASE k \in A
      <3>1. entry = Unlisted /\ row # None /\ \A j \in A : j < k => ev[j].type = "task.status_changed"
        BY <1>1, <1>3, <1>4, <2>2
      <3>2. row2 # None
        BY <1>2, <3>1, BoardValues
      <3>3. \A j \in B : j < k => j \in A
        BY <1>1, <2>2
      <3> QED BY <1>1, <3>1, <3>2, <3>3
    <2> QED BY <1>1, <2>1, <2>2
  <1>5. ASSUME NEW k \in B, more[k].type = "task.deleted"
        PROVE  row2 = Gone /\ \A j \in B : j > k => more[j].type = "task.status_changed"
    <2>1. CASE k = n
      BY <1>1, <1>5, <2>1
    <2>2. CASE k \in A
      <3>1. row = Gone /\ \A j \in A : j > k => ev[j].type = "task.status_changed"
        BY <1>1, <1>3, <1>5, <2>2
      <3>2. e.type = "task.status_changed" /\ row2 = row
        BY <3>1, BoardValues
      <3> QED BY <1>1, <3>1, <3>2
    <2> QED BY <1>1, <2>1, <2>2
  <1>6. ASSUME row2 \in Columns
        PROVE  /\ B # {}
               /\ \A k \in B : (\A j \in B : j <= k) => more[k].at = row2
               /\ entry.copies = 1 \/ \E k \in B : more[k].type = "task.created"
    <2>1. row2 = e.at
      BY <1>6, BoardValues
    <2>2. \A k \in B : (\A j \in B : j <= k) => k = n
      BY <1>1
    <2>3. entry.copies = 1 \/ \E k \in B : more[k].type = "task.created"
      <3>1. CASE e.type = "task.created"
        BY <1>1, <3>1
      <3>2. CASE row \in Columns
        BY <1>1, <1>3, <3>2
      <3> QED BY <1>6, <3>1, <3>2
    <2> QED BY <1>1, <2>1, <2>2, <2>3
  <1>7. ASSUME row2 \notin Columns
        PROVE  \/ \E k \in B : more[k].type = "task.deleted"
               \/ entry = Unlisted /\ \A k \in B : more[k].type = "task.status_changed"
    <2>1. CASE e.type = "task.deleted"
      BY <1>1, <2>1
    <2>2. CASE e.type = "task.status_changed" /\ row \notin Columns
      BY <1>1, <1>3, <2>2
    <2> QED BY <1>2, <1>7, <2>1, <2>2
  <1> QED BY <1>4, <1>5, <1>6, <1>7 DEF Sound, B, more

(* The first event arrives, about this task or another.                    *)
LEMMA FirstHeard ==
  ASSUME NEW t \in BoardTasks, NEW ev \in Seq(Event), ev # <<>>, NEW row \in Row,
         NEW list \in [BoardTasks -> Listed], NEW ahead \in BOOLEAN, NEW ahead2 \in BOOLEAN,
         Sound(t, ev, row, list[t], ahead),
         Head(ev).id # t => ahead2 = ahead
  PROVE  Sound(t, Tail(ev), row, Applied(list, Head(ev))[t], ahead2)
  <1> DEFINE e == Head(ev)
             rest == Tail(ev)
             A == Heard(t, ev)
             B == Heard(t, rest)
             entry == list[t]
             entry2 == Applied(list, Head(ev))[t]
  <1>1. /\ e \in Event /\ e = ev[1] /\ 1 \in DOMAIN ev
        /\ \A k \in DOMAIN ev : k \in Nat /\ k >= 1
        /\ \A k \in B : k + 1 \in A /\ rest[k] = ev[k + 1]
        /\ \A k \in A \ {1} : k - 1 \in B /\ rest[k - 1] = ev[k]
    <2>1. Head(ev) \in Event
      OBVIOUS
    <2> QED BY <2>1, HeardRest, Zenon
  <1>2. /\ \A k \in A : k \in Nat /\ k >= 1
        /\ \A k \in B : k \in Nat
        /\ 1 \in A <=> e.id = t
    <2>1. \A k \in B : k \in DOMAIN rest /\ rest \in Seq(Event)
      BY HeardRest DEF Heard
    <2> QED BY <1>1, <2>1 DEF Heard
  <1>3. /\ e.type \in {"task.created", "task.status_changed", "task.deleted"} /\ e.id \in BoardTasks
        /\ entry \in Listed
    BY <1>1 DEF Event
  <1>4. entry2 = IF e.id # t THEN entry
                 ELSE CASE e.type = "task.created" -> [copies |-> entry.copies + 1, at |-> e.at]
                        [] e.type = "task.status_changed" ->
                             (IF entry.copies > 0 THEN [copies |-> entry.copies, at |-> e.at] ELSE entry)
                        [] OTHER -> Unlisted
    <2>1. CASE e.type = "task.created"
      BY <1>3, <2>1 DEF Applied
    <2>2. CASE e.type = "task.status_changed"
      BY <1>3, <2>2 DEF Applied, Updated, Listed
    <2>3. CASE e.type = "task.deleted"
      BY <1>3, <2>3 DEF Applied
    <2> QED BY <1>3, <2>1, <2>2, <2>3
  <1>5. /\ \A k \in A : ev[k].type = "task.created" =>
             entry = Unlisted /\ row # None /\ \A j \in A : j < k => ev[j].type = "task.status_changed"
        /\ \A k \in A : ev[k].type = "task.deleted" =>
             row = Gone /\ \A j \in A : j > k => ev[j].type = "task.status_changed"
        /\ row \in Columns =>
             /\ A = {} => entry = Entry(row) \/ ahead
             /\ \A k \in A : (\A j \in A : j <= k) => ev[k].at = row
             /\ entry.copies = 1 \/ \E k \in A : ev[k].type = "task.created"
        /\ row \notin Columns => \/ \E k \in A : ev[k].type = "task.deleted"
                                 \/ entry = Unlisted /\ \A k \in A : ev[k].type = "task.status_changed"
    BY DEF Sound
  <1>6. Unlisted.copies = 0 /\ \A r \in Columns : Entry(r) = [copies |-> 1, at |-> r]
    BY DEF Unlisted, Entry
  <1>7. ahead2 \in BOOLEAN /\ (e.id # t => ahead2 = ahead)
    OBVIOUS
  <1> HIDE DEF e, rest, A, B, entry, entry2
  <1>8. ASSUME NEW k \in B, rest[k].type = "task.created"
        PROVE  entry2 = Unlisted /\ row # None /\ \A j \in B : j < k => rest[j].type = "task.status_changed"
    <2>1. /\ k + 1 \in A /\ ev[k + 1].type = "task.created"
          /\ entry = Unlisted /\ row # None /\ \A j \in A : j < k + 1 => ev[j].type = "task.status_changed"
      BY <1>1, <1>5, <1>8
    <2>2. e.id = t => e.type = "task.status_changed"
      <3>1. k \in B => k >= 1
        BY HeardRest DEF B, Heard, rest
      <3>2. 1 < k + 1
        BY <1>2, <3>1
      <3> QED BY <1>1, <1>2, <2>1, <3>2
    <2>3. entry2 = Unlisted
      BY <1>4, <1>6, <2>1, <2>2
    <2>4. \A j \in B : j < k => j + 1 \in A /\ j + 1 < k + 1 /\ rest[j] = ev[j + 1]
      BY <1>1, <1>2
    <2> QED BY <2>1, <2>3, <2>4
  <1>9. ASSUME NEW k \in B, rest[k].type = "task.deleted"
        PROVE  row = Gone /\ \A j \in B : j > k => rest[j].type = "task.status_changed"
    <2>1. /\ k + 1 \in A /\ ev[k + 1].type = "task.deleted"
          /\ row = Gone /\ \A j \in A : j > k + 1 => ev[j].type = "task.status_changed"
      BY <1>1, <1>5, <1>9
    <2>2. \A j \in B : j > k => j + 1 \in A /\ j + 1 > k + 1 /\ rest[j] = ev[j + 1]
      BY <1>1, <1>2
    <2> QED BY <2>1, <2>2
  <1>10. ASSUME row \in Columns
         PROVE  /\ B = {} => entry2 = Entry(row) \/ ahead2
                /\ \A k \in B : (\A j \in B : j <= k) => rest[k].at = row
                /\ entry2.copies = 1 \/ \E k \in B : rest[k].type = "task.created"
    <2>0. row # Gone
      BY <1>10, BoardValues
    <2>1. ASSUME NEW k \in B, \A j \in B : j <= k PROVE rest[k].at = row
      <3>1. ASSUME NEW j \in A PROVE j <= k + 1
        <4>1. j \in Nat /\ k \in Nat
          BY <1>2
        <4>2. j # 1 => j - 1 \in B
          BY <1>1
        <4>3. j # 1 => j - 1 <= k
          BY <2>1, <4>2
        <4> QED BY <4>1, <4>3
      <3> QED BY <1>1, <1>5, <1>10, <2>1, <3>1
    <2>2. entry2.copies = 1 \/ \E k \in B : rest[k].type = "task.created"
      <3>1. CASE \E k \in A : ev[k].type = "task.created"
        <4>1. PICK k \in A : ev[k].type = "task.created"
          BY <3>1
        <4>2. CASE k = 1
          <5>1. e.id = t /\ e.type = "task.created" /\ entry = Unlisted
            BY <1>1, <1>2, <1>5, <4>1, <4>2
          <5> QED BY <1>4, <1>6, <5>1
        <4>3. CASE k # 1
          BY <1>1, <4>1, <4>3
        <4> QED BY <4>2, <4>3
      <3>2. CASE entry.copies = 1 /\ ~\E k \in A : ev[k].type = "task.created"
        <4>1. e.id = t => e.type = "task.status_changed"
          <5>1. e.id = t => 1 \in A /\ ev[1] = e
            BY <1>1, <1>2
          <5> QED BY <1>3, <1>5, <2>0, <3>2, <5>1
        <4> QED BY <1>4, <3>2, <4>1
      <3> QED BY <1>5, <1>10, <3>1, <3>2
    <2>3. ASSUME B = {} PROVE entry2 = Entry(row) \/ ahead2
      <3>1. A \subseteq {1}
        BY <1>1, <2>3
      <3>2. CASE e.id # t
        BY <1>2, <1>4, <1>5, <1>7, <1>10, <3>1, <3>2
      <3>3. CASE e.id = t
        <4>1. 1 \in A /\ ev[1] = e /\ \A j \in A : j <= 1
          BY <1>1, <1>2, <3>1, <3>3
        <4>2. e.at = row
          BY <1>5, <1>10, <4>1
        <4>3. entry2.copies = 1
          BY <2>2, <2>3
        <4>4. e.type # "task.deleted"
          BY <1>5, <2>0, <4>1
        <4>5. entry2 = [copies |-> entry2.copies, at |-> e.at]
          <5>1. CASE e.type = "task.created"
            BY <1>4, <3>3, <5>1
          <5>2. CASE e.type = "task.status_changed"
            <6>1. entry.copies > 0
              BY <1>4, <3>3, <4>3, <5>2
            <6> QED BY <1>4, <3>3, <5>2, <6>1
          <5> QED BY <1>3, <4>4, <5>1, <5>2
        <4> QED BY <1>6, <1>10, <4>2, <4>3, <4>5
      <3> QED BY <3>2, <3>3
    <2> QED BY <2>1, <2>2, <2>3
  <1>11. ASSUME row \notin Columns
         PROVE  \/ \E k \in B : rest[k].type = "task.deleted"
                \/ entry2 = Unlisted /\ \A k \in B : rest[k].type = "task.status_changed"
    <2>1. CASE \E k \in A : ev[k].type = "task.deleted"
      <3>1. PICK k \in A : ev[k].type = "task.deleted"
        BY <2>1
      <3>2. CASE k = 1
        <4>1. e.id = t /\ e.type = "task.deleted" /\ \A j \in A : j > 1 => ev[j].type = "task.status_changed"
          BY <1>1, <1>2, <1>5, <3>1, <3>2
        <4>2. \A j \in B : j + 1 \in A /\ j + 1 > 1 /\ rest[j] = ev[j + 1]
          <5>1. \A j \in B : j + 1 \in A /\ j + 1 # 1
            <6>1. ASSUME NEW j \in B PROVE j >= 1
              BY HeardRest, SMT DEF Heard, B, rest
            <6> QED BY <1>1, <1>2, <6>1
          <5> QED BY <1>1, <1>2, <5>1
        <4> QED BY <1>4, <4>1, <4>2
      <3>3. CASE k # 1
        BY <1>1, <3>1, <3>3
      <3> QED BY <3>2, <3>3
    <2>2. CASE entry = Unlisted /\ \A k \in A : ev[k].type = "task.status_changed"
      <3>1. e.id = t => e.type = "task.status_changed"
        BY <1>1, <1>2, <2>2
      <3> QED BY <1>1, <1>4, <1>6, <2>2, <3>1
    <2> QED BY <1>5, <1>11, <2>1, <2>2
  <1> QED BY <1>8, <1>9, <1>10, <1>11 DEF Sound, B, rest, entry2

(* An entry that is or is not there, moved to another column.              *)
LEMMA UpdatedOK ==
  ASSUME NEW list \in [BoardTasks -> Listed], NEW t \in BoardTasks, NEW at \in Columns
  PROVE  /\ Updated(list, t, at) \in [BoardTasks -> Listed]
         /\ \A u \in BoardTasks \ {t} : Updated(list, t, at)[u] = list[u]
         /\ list[t] = Unlisted => Updated(list, t, at)[t] = Unlisted
         /\ Updated(list, t, at)[t].copies = list[t].copies
         /\ list[t].copies = 1 => Updated(list, t, at)[t] = Entry(at)
  <1>1. list[t] \in Listed /\ list[t].copies \in Nat /\ Unlisted.copies = 0
    BY DEF Listed, Unlisted
  <1>2. CASE list[t].copies > 0
    <2>1. [list[t] EXCEPT !.at = at] = [copies |-> list[t].copies, at |-> at]
      BY <1>1 DEF Listed
    <2>2. [copies |-> list[t].copies, at |-> at] \in Listed
      BY <1>1 DEF Listed
    <2>3. Updated(list, t, at) = [list EXCEPT ![t] = [copies |-> list[t].copies, at |-> at]]
      BY <1>2, <2>1 DEF Updated
    <2>4. Entry(at) = [copies |-> 1, at |-> at]
      BY DEF Entry
    <2> QED BY <1>1, <1>2, <2>2, <2>3, <2>4
  <1>3. CASE ~(list[t].copies > 0)
    BY <1>1, <1>3 DEF Updated
  <1> QED BY <1>2, <1>3

LEMMA AppliedOK ==
  ASSUME NEW list \in [BoardTasks -> Listed], NEW e \in Event
  PROVE  Applied(list, e) \in [BoardTasks -> Listed]
  <1>1. /\ e.id \in BoardTasks /\ e.at \in Columns
        /\ e.type \in {"task.created", "task.status_changed", "task.deleted"}
        /\ list[e.id].copies \in Nat
    BY DEF Event, Listed
  <1>2. CASE e.type = "task.created"
    <2>1. [copies |-> list[e.id].copies + 1, at |-> e.at] \in Listed
      BY <1>1 DEF Listed
    <2> QED BY <1>2, <2>1 DEF Applied
  <1>3. CASE e.type = "task.status_changed"
    BY <1>1, <1>3, UpdatedOK DEF Applied
  <1>4. CASE e.type = "task.deleted"
    BY <1>4, BoardValues DEF Applied
  <1> QED BY <1>1, <1>2, <1>3, <1>4

LEMMA PageOK ==
  ASSUME table \in [BoardTasks -> Row], NEW p
  PROVE  Page(p) \in [BoardTasks -> Row]
  <1>1. \A t \in BoardTasks : table[t] \in Row /\ None \in Row
    BY DEF Row
  <1> QED BY <1>1, Zenon DEF Page

LEMMA BoardStarts == BoardInit => BoardInv
  <1> SUFFICES ASSUME BoardInit PROVE BoardInv
    OBVIOUS
  <1>1. table \in [BoardTasks -> Row] /\ board \in [BoardTasks -> Listed]
    BY BoardValues DEF BoardInit, Row
  <1>2. stream \in [phase : Phases, events : Seq(Event)]
    BY DEF BoardInit, Phases
  <1>3. fetches \subseteq Fetch /\ chosen \in Projects
    <2>1. chosen \in Projects /\ fetches = {Asked(0, chosen), Asked(1, chosen)}
      BY DEF BoardInit
    <2> QED BY <2>1, BoardValues
  <1>4. retries \in 0..MaxReconnects /\ changes \in 0..MaxChanges /\ drops \in 0..MaxDrops
    BY BoardValues DEF BoardInit
  <1>5. moves \in [Moves -> SUBSET Move] /\ \A m \in Moves : moves[m] = {}
    BY DEF BoardInit
  <1> QED BY <1>1, <1>2, <1>3, <1>4, <1>5 DEF BoardInit, BoardInv, AllSound, BoardShape, BoardTypeOK, Phases

(* A task that is followed stays so by whatever leaves its row, its entry, *)
(* the events and the drops as they are.                                   *)
LEMMA StillFollowed ==
  ASSUME BoardInv, UNCHANGED <<table, board, stream, followed>>,
         \A t \in followed : Ahead(t)' = Ahead(t)
  PROVE  AllSound'
  BY DEF BoardInv, AllSound, Receives, Sound

(* What the server sends is heard if the page hears anything.              *)
LEMMA SentOK ==
  ASSUME BoardInv, NEW e \in Event, Broadcast(e.type, e.id, e.at)
  PROVE  /\ stream' \in [phase : Phases, events : Seq(Event)]
         /\ Receives' <=> Receives
         /\ Receives => stream'.events = Append(stream.events, e)
  <1>1. e = [type |-> e.type, id |-> e.id, at |-> e.at]
    BY DEF Event
  <1>2. stream' = IF Receives THEN [stream EXCEPT !.events = Append(@, e)] ELSE stream
    BY <1>1 DEF Broadcast
  <1>3. stream.events \in Seq(Event) /\ Append(stream.events, e) \in Seq(Event)
    BY DEF BoardInv, BoardShape
  <1> QED BY <1>2, <1>3 DEF BoardInv, BoardShape, Receives

(* A write of a task and its event.                                        *)
LEMMA RowWritten ==
  ASSUME BoardInv, NEW e \in Event, Broadcast(e.type, e.id, e.at), NEW row \in Row,
         table' = [table EXCEPT ![e.id] = row],
         \/ e.type = "task.created" /\ table[e.id] = None /\ row = e.at
         \/ e.type = "task.status_changed" /\ table[e.id] \in Columns /\ row = e.at
         \/ e.type = "task.status_changed" /\ table[e.id] \notin Columns /\ row = table[e.id]
         \/ e.type = "task.deleted" /\ table[e.id] \in Columns /\ row = Gone,
         UNCHANGED <<board, followed>>,
         \A t \in BoardTasks : t # e.id => Ahead(t)' = Ahead(t)
  PROVE  /\ table' \in [BoardTasks -> Row]
         /\ stream' \in [phase : Phases, events : Seq(Event)]
         /\ AllSound'
  <1>1. table \in [BoardTasks -> Row] /\ followed \subseteq BoardTasks /\ stream.events \in Seq(Event)
        /\ e.id \in BoardTasks
    BY DEF BoardInv, BoardShape, BoardTypeOK, Event
  <1>2. table' \in [BoardTasks -> Row] /\ table'[e.id] = row
        /\ \A t \in BoardTasks \ {e.id} : table'[t] = table[t]
    BY <1>1
  <1>3. /\ stream' \in [phase : Phases, events : Seq(Event)]
        /\ followed' # {} => Receives' /\ stream'.events = Append(stream.events, e)
    BY SentOK DEF BoardInv, AllSound
  <1>4. ASSUME NEW t \in followed' PROVE Sound(t, stream'.events, table'[t], board'[t], Ahead(t)')
    <2>1. t \in BoardTasks /\ table[t] \in Row /\ Sound(t, stream.events, table[t], board[t], Ahead(t))
      BY <1>1, <1>4 DEF BoardInv, AllSound
    <2>2. Ahead(t) \in BOOLEAN /\ Ahead(t)' \in BOOLEAN
      BY DEF Ahead
    <2>3. stream'.events = Append(stream.events, e) /\ board'[t] = board[t]
      BY <1>3, <1>4
    <2>4. CASE t = e.id
      <3>1. Sound(t, Append(stream.events, e), row, board[t], Ahead(t)')
        BY <1>1, <2>1, <2>2, <2>4, OwnHeard
      <3> QED BY <1>2, <2>3, <2>4, <3>1
    <2>5. CASE t # e.id
      <3>1. Sound(t, Append(stream.events, e), table[t], board[t], Ahead(t))
        BY <1>1, <2>1, <2>2, <2>5, OthersHeard
      <3> QED BY <1>2, <2>1, <2>3, <2>5, <3>1
    <2> QED BY <2>4, <2>5
  <1>5. followed' # {} => Receives'
    BY <1>3
  <1>6. AllSound'
    BY <1>4, <1>5 DEF AllSound
  <1> QED BY <1>2, <1>3, <1>6

(* A drop, or what undoes it, sets the entry of a task.                    *)
LEMMA EntrySet ==
  ASSUME BoardInv, NEW u \in BoardTasks, NEW at \in Columns, board' = Updated(board, u, at),
         UNCHANGED <<table, stream>>,
         \A t \in followed' : t \in followed,
         u \in followed' => table[u] = at \/ ((board'[u] = Entry(at)) => Ahead(u)'),
         \A t \in BoardTasks : t # u => Ahead(t)' = Ahead(t)
  PROVE  board' \in [BoardTasks -> Listed] /\ AllSound'
  <1>1. board \in [BoardTasks -> Listed] /\ followed \subseteq BoardTasks
    BY DEF BoardInv, BoardShape, BoardTypeOK
  <1>2. /\ board' \in [BoardTasks -> Listed]
        /\ \A t \in BoardTasks \ {u} : board'[t] = board[t]
        /\ board[u] = Unlisted => board'[u] = Unlisted
        /\ board'[u].copies = board[u].copies
        /\ board[u].copies = 1 => board'[u] = Entry(at)
    BY <1>1, UpdatedOK
  <1>3. followed' # {} => Receives'
    BY DEF BoardInv, AllSound, Receives
  <1>4. ASSUME NEW t \in followed' PROVE Sound(t, stream'.events, table'[t], board'[t], Ahead(t)')
    <2>1. t \in BoardTasks /\ Sound(t, stream.events, table[t], board[t], Ahead(t))
      BY <1>1, <1>4 DEF BoardInv, AllSound
    <2>2. CASE t # u
      BY <1>2, <2>1, <2>2
    <2>3. CASE t = u
      <3>1. Sound(t, stream.events, table[t], board'[t], Ahead(t)')
        <4>1. table[t] \in Columns /\ Heard(t, stream.events) = {} => board'[t] = Entry(at)
          BY <1>2, <2>1, <2>3 DEF Sound
        <4>2. table[t] \in Columns /\ Heard(t, stream.events) = {} =>
                board'[t] = Entry(table[t]) \/ Ahead(t)'
          BY <2>3, <4>1
        <4> QED BY <1>2, <2>1, <2>3, <4>2 DEF Sound
      <3> QED BY <3>1
    <2> QED BY <2>2, <2>3
  <1>5. AllSound'
    BY <1>3, <1>4 DEF AllSound
  <1> QED BY <1>2, <1>5

(* What a drag or a drop leaves in its place.                              *)
LEMMA MoveOK ==
  ASSUME BoardInv, NEW m \in Moves, NEW next \in SUBSET Move, \A a, b \in next : a = b,
         Becomes(m, next)
  PROVE  /\ moves' \in [Moves -> SUBSET Move] /\ moves'[m] = next
         /\ \A n \in Moves : \A a, b \in moves'[n] : a = b
         /\ \A n \in Moves \ {m} : moves'[n] = moves[n]
  BY DEF Becomes, BoardInv, BoardShape, BoardTypeOK

(* Which task is ahead of the server is up to the drops of that task.      *)
LEMMA OthersAhead ==
  ASSUME NEW m \in Moves, NEW t,
         \A n \in Moves \ {m} : moves'[n] = moves[n],
         \A move \in moves[m] \cup moves'[m] : move.id # t,
         board'[t] = board[t]
  PROVE  Ahead(t)' = Ahead(t)
  <1>1. \A n \in Moves : \A move : move.id = t => (move \in moves'[n] <=> move \in moves[n])
    OBVIOUS
  <1> QED BY <1>1 DEF Ahead

LEMMA SameAhead ==
  ASSUME UNCHANGED <<board, moves>>, NEW t
  PROVE  Ahead(t)' = Ahead(t)
  BY DEF Ahead

(* A task stays sound when a drop of it fails: it may be ahead, no less.   *)
LEMMA MoreAhead ==
  ASSUME BoardInv, UNCHANGED <<table, board, stream, followed>>,
         \A t \in followed : Ahead(t) => Ahead(t)'
  PROVE  AllSound'
  <1>1. ASSUME NEW t \in followed PROVE Sound(t, stream.events, table[t], board[t], Ahead(t)')
    <2>1. Sound(t, stream.events, table[t], board[t], Ahead(t)) /\ (Ahead(t) => Ahead(t)')
      BY DEF BoardInv, AllSound
    <2> QED BY <2>1 DEF Sound
  <1>2. followed' # {} => Receives'
    BY DEF BoardInv, AllSound, Receives
  <1> QED BY <1>1, <1>2 DEF AllSound

(* The parts of the shape, put together.                                   *)
LEMMA ShapeOf ==
  ASSUME table' \in [BoardTasks -> Row], board' \in [BoardTasks -> Listed], chosen' \in Projects,
         stream' \in [phase : Phases, events : Seq(Event)], retries' \in 0..MaxReconnects,
         fetches' \subseteq Fetch, moves' \in [Moves -> SUBSET Move],
         \A m \in Moves : \A a, b \in moves'[m] : a = b,
         visible' \in BOOLEAN, changes' \in 0..MaxChanges, drops' \in 0..MaxDrops,
         followed' \subseteq BoardTasks
  PROVE  BoardShape'
  BY DEF BoardShape, BoardTypeOK, Phases

LEMMA CountOK ==
  ASSUME BoardShape, Count PROVE changes' \in 0..MaxChanges
  BY BoardValues DEF Count, BoardShape, BoardTypeOK

LEMMA DropOK ==
  ASSUME BoardShape, drops < MaxDrops PROVE drops + 1 \in 0..MaxDrops
  BY BoardValues DEF BoardShape, BoardTypeOK

(* The server's steps.                                                     *)
LEMMA WritesKeep ==
  ASSUME BoardInv, NEW t \in BoardTasks, NEW row \in Columns,
         CreateRow(t, row) \/ UpdateRow(t, row) \/ WriteSilently(t, row) \/ DeleteRow(t)
  PROVE  BoardInv'
  <1>1. /\ table \in [BoardTasks -> Row] /\ row \in Row /\ Gone \in Row
        /\ BoardShape /\ followed \subseteq BoardTasks
    BY DEF Row, BoardInv, BoardShape, BoardTypeOK
  <1>2. /\ changes' \in 0..MaxChanges
        /\ UNCHANGED <<board, chosen, retries, fetches, moves, visible, drops>>
    BY <1>1, CountOK DEF CreateRow, UpdateRow, WriteSilently, DeleteRow, Change
  <1>3. \A u : Ahead(u)' = Ahead(u)
    BY <1>2, SameAhead
  <1>4. CASE CreateRow(t, row)
    <2> DEFINE e == [type |-> "task.created", id |-> t, at |-> row]
    <2>1. e \in Event /\ e.type = "task.created" /\ e.id = t /\ e.at = row
      BY DEF Event
    <2> HIDE DEF e
    <2>2. /\ Broadcast(e.type, e.id, e.at) /\ table' = [table EXCEPT ![e.id] = row]
          /\ table[e.id] = None /\ UNCHANGED <<board, followed>>
      BY <1>4, <2>1 DEF CreateRow, Change
    <2>3. /\ table' \in [BoardTasks -> Row] /\ AllSound'
          /\ stream' \in [phase : Phases, events : Seq(Event)]
      BY <1>1, <1>3, <2>1, <2>2, RowWritten
    <2>4. BoardShape'
      BY <1>1, <1>2, <2>2, <2>3, ShapeOf DEF BoardShape, BoardTypeOK
    <2> QED BY <2>3, <2>4 DEF BoardInv
  <1>5. CASE UpdateRow(t, row)
    <2> DEFINE e == [type |-> "task.status_changed", id |-> t, at |-> row]
    <2>1. e \in Event /\ e.type = "task.status_changed" /\ e.id = t /\ e.at = row
      BY DEF Event
    <2> HIDE DEF e
    <2>2. /\ Broadcast(e.type, e.id, e.at) /\ table' = [table EXCEPT ![e.id] = row]
          /\ table[e.id] \in Columns /\ UNCHANGED <<board, followed>>
      BY <1>5, <2>1 DEF UpdateRow, Change
    <2>3. /\ table' \in [BoardTasks -> Row] /\ AllSound'
          /\ stream' \in [phase : Phases, events : Seq(Event)]
      BY <1>1, <1>3, <2>1, <2>2, RowWritten
    <2>4. BoardShape'
      BY <1>1, <1>2, <2>2, <2>3, ShapeOf DEF BoardShape, BoardTypeOK
    <2> QED BY <2>3, <2>4 DEF BoardInv
  <1>6. CASE DeleteRow(t)
    <2> DEFINE e == [type |-> "task.deleted", id |-> t, at |-> table[t]]
    <2>0. table[t] \in Columns
      BY <1>6 DEF DeleteRow
    <2>1. e \in Event /\ e.type = "task.deleted" /\ e.id = t /\ e.at = table[t]
      BY <2>0 DEF Event
    <2> HIDE DEF e
    <2>2. /\ Broadcast(e.type, e.id, e.at) /\ table' = [table EXCEPT ![e.id] = Gone]
          /\ table[e.id] \in Columns /\ UNCHANGED <<board, followed>>
      BY <1>6, <2>1 DEF DeleteRow, Change
    <2>3. /\ table' \in [BoardTasks -> Row] /\ AllSound'
          /\ stream' \in [phase : Phases, events : Seq(Event)]
      BY <1>1, <1>3, <2>1, <2>2, RowWritten
    <2>4. BoardShape'
      BY <1>1, <1>2, <2>2, <2>3, ShapeOf DEF BoardShape, BoardTypeOK
    <2> QED BY <2>3, <2>4 DEF BoardInv
  <1>7. CASE WriteSilently(t, row)
    <2>1. /\ table' = [table EXCEPT ![t] = row] /\ followed' = followed \ {t}
          /\ UNCHANGED stream
      BY <1>7 DEF WriteSilently, Change
    <2>2. /\ table' \in [BoardTasks -> Row]
          /\ \A u \in BoardTasks \ {t} : table'[u] = table[u]
      BY <1>1, <2>1
    <2>3. ASSUME NEW u \in followed'
          PROVE  Sound(u, stream'.events, table'[u], board'[u], Ahead(u)')
      <3>1. u \in BoardTasks \ {t} /\ u \in followed
        BY <1>1, <2>1
      <3>2. Sound(u, stream.events, table[u], board[u], Ahead(u))
        BY <3>1 DEF BoardInv, AllSound
      <3> QED BY <1>2, <1>3, <2>1, <2>2, <3>1, <3>2
    <2>4. followed' # {} => Receives'
      BY <2>1 DEF BoardInv, AllSound, Receives
    <2>5. AllSound'
      BY <2>3, <2>4 DEF AllSound
    <2>6. BoardShape'
      BY <1>1, <1>2, <2>1, <2>2, ShapeOf DEF BoardShape, BoardTypeOK
    <2> QED BY <2>5, <2>6 DEF BoardInv
  <1> QED BY <1>4, <1>5, <1>6, <1>7

(* The stream's steps.                                                     *)
LEMMA StreamKeeps ==
  ASSUME BoardInv, HandlerRegistered \/ StreamOpens \/ StreamBreaks \/ Reconnect
  PROVE  BoardInv'
  <1>1. /\ UNCHANGED <<table, board, chosen, fetches, moves, visible, changes>>
        /\ BoardShape /\ stream \in [phase : Phases, events : Seq(Event)]
    BY DEF HandlerRegistered, StreamOpens, StreamBreaks, Reconnect, BoardInv, BoardShape
  <1>2. \A u : Ahead(u)' = Ahead(u)
    BY <1>1, SameAhead
  <1>3. drops' \in 0..MaxDrops /\ retries' \in 0..MaxReconnects
    <2>1. drops \in 0..MaxDrops /\ retries \in 0..MaxReconnects
      BY <1>1 DEF BoardShape, BoardTypeOK
    <2> QED BY <2>1, BoardValues DEF HandlerRegistered, StreamOpens, StreamBreaks, Reconnect
  <1>4. CASE StreamBreaks
    <2>1. stream' \in [phase : Phases, events : Seq(Event)] /\ followed' = {}
      <3>1. <<>> \in Seq(Event)
        OBVIOUS
      <3>2. \/ stream' = [phase |-> "over", events |-> <<>>]
            \/ stream' = [phase |-> "waiting", events |-> <<>>]
        BY <1>4 DEF StreamBreaks
      <3>3. followed' = {}
        BY <1>4 DEF StreamBreaks
      <3>4. \A p \in Phases : [phase |-> p, events |-> <<>>] \in [phase : Phases, events : Seq(Event)]
        BY <3>1
      <3>5. "over" \in Phases /\ "waiting" \in Phases
        BY DEF Phases
      <3> QED BY <3>2, <3>3, <3>4, <3>5
    <2>2. AllSound'
      BY <2>1 DEF AllSound
    <2>3. BoardShape'
      BY <1>1, <1>3, <2>1, ShapeOf DEF BoardShape, BoardTypeOK
    <2> QED BY <2>2, <2>3 DEF BoardInv
  <1>5. CASE HandlerRegistered \/ StreamOpens \/ Reconnect
    <2>1. /\ stream' \in [phase : Phases, events : Seq(Event)] /\ stream'.events = stream.events
          /\ Receives => Receives'
          /\ UNCHANGED followed
      BY <1>1, <1>5 DEF HandlerRegistered, StreamOpens, Reconnect, Phases, Receives
    <2>2. followed' # {} => Receives'
      BY <2>1 DEF BoardInv, AllSound
    <2>3. ASSUME NEW u \in followed'
          PROVE  Sound(u, stream'.events, table'[u], board'[u], Ahead(u)')
      <3>1. Sound(u, stream.events, table[u], board[u], Ahead(u))
        BY <2>1 DEF BoardInv, AllSound
      <3> QED BY <1>1, <1>2, <2>1, <3>1
    <2>4. AllSound'
      BY <2>2, <2>3 DEF AllSound
    <2>5. BoardShape'
      BY <1>1, <1>3, <2>1, ShapeOf DEF BoardShape, BoardTypeOK
    <2> QED BY <2>4, <2>5 DEF BoardInv
  <1> QED BY <1>4, <1>5

LEMMA EventKeeps ==
  ASSUME BoardInv, EventArrives PROVE BoardInv'
  <1> DEFINE e == Head(stream.events)
  <1>1. /\ UNCHANGED <<table, chosen, retries, fetches, moves, visible, changes, drops, followed>>
        /\ stream' = [stream EXCEPT !.events = Tail(@)] /\ stream.events # <<>>
        /\ board' = Applied(board, e) /\ stream.phase = "open"
    BY DEF EventArrives
  <1>2. /\ BoardShape /\ stream \in [phase : Phases, events : Seq(Event)]
        /\ board \in [BoardTasks -> Listed] /\ table \in [BoardTasks -> Row]
        /\ followed \subseteq BoardTasks /\ stream.events \in Seq(Event)
    BY DEF BoardInv, BoardShape, BoardTypeOK
  <1>3. e \in Event /\ Tail(stream.events) \in Seq(Event)
    BY <1>1, <1>2
  <1>4. board' \in [BoardTasks -> Listed]
    BY <1>1, <1>2, <1>3, AppliedOK
  <1>5. /\ stream' \in [phase : Phases, events : Seq(Event)]
        /\ stream'.events = Tail(stream.events) /\ stream'.phase = "open"
    BY <1>1, <1>2, <1>3
  <1>6. ASSUME NEW t \in BoardTasks, e.id # t PROVE Ahead(t)' = Ahead(t)
    <2>1. board'[t] = board[t]
      <3>1. /\ e.type \in {"task.created", "task.status_changed", "task.deleted"}
            /\ e.id \in BoardTasks /\ e.at \in Columns
        BY <1>3 DEF Event
      <3>2. Updated(board, e.id, e.at)[t] = board[t]
        BY <1>2, <1>6, <3>1, UpdatedOK
      <3> HIDE DEF e
      <3>3. CASE e.type = "task.status_changed"
        BY <1>1, <3>2, <3>3 DEF Applied
      <3>4. CASE e.type = "task.created"
        BY <1>1, <1>2, <1>6, <3>1, <3>4 DEF Applied
      <3>5. CASE e.type = "task.deleted"
        BY <1>1, <1>2, <1>6, <3>1, <3>5 DEF Applied
      <3> QED BY <3>1, <3>3, <3>4, <3>5
    <2> QED BY <1>1, <2>1 DEF Ahead
  <1>7. ASSUME NEW t \in followed'
        PROVE  Sound(t, stream'.events, table'[t], board'[t], Ahead(t)')
    <2>1. t \in BoardTasks /\ Sound(t, stream.events, table[t], board[t], Ahead(t))
      BY <1>1, <1>2 DEF BoardInv, AllSound
    <2>2. Ahead(t) \in BOOLEAN /\ Ahead(t)' \in BOOLEAN /\ table[t] \in Row
      BY <1>2, <2>1 DEF Ahead
    <2>3. e.id # t => Ahead(t)' = Ahead(t)
      BY <1>6, <2>1
    <2>4. Sound(t, Tail(stream.events), table[t], Applied(board, e)[t], Ahead(t)')
      BY <1>1, <1>2, <2>1, <2>2, <2>3, FirstHeard
    <2> QED BY <1>1, <1>5, <2>4
  <1>8. followed' # {} => Receives'
    BY <1>5 DEF Receives
  <1>9. AllSound'
    BY <1>7, <1>8 DEF AllSound
  <1>10. BoardShape'
    BY <1>1, <1>2, <1>4, <1>5, ShapeOf DEF BoardShape, BoardTypeOK
  <1> QED BY <1>9, <1>10 DEF BoardInv

(* Fetches.                                                                *)
LEMMA FetchesKeep ==
  ASSUME BoardInv,
         \/ Poll \/ Refresh \/ \E p \in Projects : ChooseProject(p)
         \/ \E f \in fetches : ServerAnswers(f) \/ FetchFails(f)
  PROVE  BoardInv'
  <1>1. /\ UNCHANGED <<table, board, stream, retries, moves, visible, followed>>
        /\ BoardShape /\ table \in [BoardTasks -> Row] /\ fetches \subseteq Fetch
        /\ chosen \in Projects
    BY DEF Poll, Refresh, ChooseProject, AskBoard, ServerAnswers, FetchFails, BoardInv, BoardShape,
           BoardTypeOK
  <1>2. AllSound'
    BY <1>1, SameAhead, StillFollowed
  <1>3. ASSUME NEW p \in Projects, AskBoard(p) PROVE fetches' \subseteq Fetch /\ UNCHANGED drops
    <2>1. PICK n \in 0..MaxFetches : fetches' = fetches \cup {Asked(n, p)}
      BY <1>3 DEF AskBoard
    <2>2. n \in Nat
      BY BoardValues
    <2> QED BY <1>1, <1>3, <2>1, <2>2, BoardValues DEF AskBoard
  <1>4. /\ fetches' \subseteq Fetch /\ chosen' \in Projects
        /\ changes' \in 0..MaxChanges /\ drops' \in 0..MaxDrops
    <2>0. changes \in 0..MaxChanges /\ drops \in 0..MaxDrops
      BY <1>1 DEF BoardShape, BoardTypeOK
    <2>1. CASE Poll \/ Refresh
      BY <1>1, <1>3, <2>0, <2>1 DEF Poll, Refresh
    <2>2. ASSUME NEW p \in Projects, ChooseProject(p)
          PROVE  /\ fetches' \subseteq Fetch /\ chosen' \in Projects
                 /\ changes' \in 0..MaxChanges /\ drops' \in 0..MaxDrops
      BY <1>1, <1>3, <2>0, <2>2, CountOK DEF ChooseProject
    <2>3. ASSUME NEW f \in fetches, ServerAnswers(f)
          PROVE  /\ fetches' \subseteq Fetch /\ chosen' \in Projects
                 /\ changes' \in 0..MaxChanges /\ drops' \in 0..MaxDrops
      <3>1. f \in Fetch /\ Page(f.project) \in [BoardTasks -> Row]
        BY <1>1, PageOK
      <3> HIDE DEF Page
      <3>2. [f EXCEPT !.phase = "answered", !.rows = Page(f.project)] \in Fetch
        BY <3>1 DEF Fetch
      <3> QED BY <1>1, <2>0, <2>3, <3>2 DEF ServerAnswers
    <2>4. ASSUME NEW f \in fetches, FetchFails(f)
          PROVE  /\ fetches' \subseteq Fetch /\ chosen' \in Projects
                 /\ changes' \in 0..MaxChanges /\ drops' \in 0..MaxDrops
      BY <1>1, <2>0, <2>4, DropOK DEF FetchFails
    <2> QED BY <2>1, <2>2, <2>3, <2>4
  <1>5. BoardShape'
    BY <1>1, <1>4, ShapeOf DEF BoardShape, BoardTypeOK
  <1> QED BY <1>2, <1>5 DEF BoardInv

LEMMA AnswerKeeps ==
  ASSUME BoardInv, NEW f \in fetches, FetchEnds(f) PROVE BoardInv'
  <1>1. /\ UNCHANGED <<table, chosen, stream, retries, moves, visible, changes, drops>>
        /\ board' = SetTasks(f.rows) /\ fetches' = fetches \ {f}
        /\ followed' = {t \in BoardTasks : Receives /\ About(t) = {} /\ Entry(f.rows[t]) = Entry(table[t])}
    BY DEF FetchEnds
  <1>2. BoardShape /\ fetches \subseteq Fetch
    BY DEF BoardInv, BoardShape, BoardTypeOK
  <1>3. f.rows \in [BoardTasks -> Row]
    BY <1>2 DEF Fetch
  <1>4. board' \in [BoardTasks -> Listed] /\ \A t \in BoardTasks : board'[t] = Entry(f.rows[t])
    BY <1>1, <1>3, BoardValues DEF SetTasks
  <1>5. ASSUME NEW t \in followed'
        PROVE  Sound(t, stream'.events, table'[t], board'[t], Ahead(t)')
    <2>1. Heard(t, stream.events) = {} /\ board'[t] = Entry(table[t])
      BY <1>1, <1>4, <1>5 DEF About, Heard
    <2>2. table[t] \in Columns => Entry(table[t]).copies = 1
      BY DEF Entry
    <2>3. table[t] \notin Columns => Entry(table[t]) = Unlisted
      BY DEF Entry
    <2> QED BY <1>1, <2>1, <2>2, <2>3 DEF Sound
  <1>6. followed' # {} => Receives'
    BY <1>1 DEF Receives
  <1>7. AllSound'
    BY <1>5, <1>6 DEF AllSound
  <1>8. followed' \subseteq BoardTasks /\ fetches' \subseteq Fetch
    BY <1>1, <1>2
  <1>9. BoardShape'
    BY <1>1, <1>2, <1>4, <1>8, ShapeOf DEF BoardShape, BoardTypeOK
  <1> QED BY <1>7, <1>9 DEF BoardInv

(* A task that is dragged, dropped or put back.                            *)
LEMMA DragKeeps ==
  ASSUME BoardInv, NEW m \in Moves, NEW t \in BoardTasks, DragTask(m, t) PROVE BoardInv'
  <1> DEFINE move == [phase |-> "dragged", id |-> t, from |-> board[t].at, to |-> board[t].at]
  <1>1. /\ UNCHANGED <<table, board, chosen, stream, retries, fetches, visible, drops, followed>>
        /\ moves[m] = {} /\ Becomes(m, {move}) /\ Count
    BY DEF DragTask
  <1>2. BoardShape /\ board[t] \in Listed
    BY DEF BoardInv, BoardShape, BoardTypeOK
  <1>3. move \in Move
    BY <1>2 DEF Move, Listed
  <1>4. {move} \in SUBSET Move /\ \A a, b \in {move} : a = b
    BY <1>3
  <1>5. /\ moves' \in [Moves -> SUBSET Move] /\ moves'[m] = {move}
        /\ \A n \in Moves : \A a, b \in moves'[n] : a = b
        /\ \A n \in Moves \ {m} : moves'[n] = moves[n]
    BY <1>1, <1>4, MoveOK
  <1>6. ASSUME NEW u \in followed PROVE Ahead(u)' = Ahead(u)
    <2>1. \A n \in Moves : \A mv : mv.phase \in {"sent", "failed"} =>
            (mv \in moves'[n] <=> mv \in moves[n])
      BY <1>1, <1>5
    <2> QED BY <1>1, <2>1 DEF Ahead
  <1>7. AllSound'
    BY <1>1, <1>6, StillFollowed
  <1>8. BoardShape'
    BY <1>1, <1>2, <1>5, CountOK, ShapeOf DEF BoardShape, BoardTypeOK
  <1> QED BY <1>7, <1>8 DEF BoardInv

LEMMA MovesKeep ==
  ASSUME BoardInv, NEW m \in Moves, NEW move \in moves[m],
         \/ \E to \in Columns : DropTask(m, move, to)
         \/ ApprovalFound(m, move) \/ ServerMoves(m, move) \/ ServerRefuses(m, move)
         \/ MoveReverts(m, move)
  PROVE  BoardInv'
  <1> DEFINE id == move.id
             Leaves(next) == /\ moves' \in [Moves -> SUBSET Move] /\ moves'[m] = next
                             /\ \A n \in Moves : \A a, b \in moves'[n] : a = b
                             /\ \A n \in Moves \ {m} : moves'[n] = moves[n]
                             /\ \A mv \in moves[m] \cup moves'[m] : mv.id = id
  <1>1. /\ BoardShape /\ board \in [BoardTasks -> Listed] /\ table \in [BoardTasks -> Row]
        /\ followed \subseteq BoardTasks /\ drops \in 0..MaxDrops
        /\ move \in Move /\ \A mv \in moves[m] : mv = move
    BY DEF BoardInv, BoardShape, BoardTypeOK
  <1>2. /\ id \in BoardTasks /\ move.from \in Columns /\ move.to \in Columns
        /\ move = [phase |-> move.phase, id |-> id, from |-> move.from, to |-> move.to]
    BY <1>1 DEF Move
  <1>3. /\ UNCHANGED <<chosen, retries, fetches, visible, changes>>
    BY DEF DropTask, ApprovalFound, ServerMoves, ServerRefuses, MoveReverts
  <1>4. ASSUME Becomes(m, {}) PROVE Leaves({})
    <2>1. {} \in SUBSET Move
      OBVIOUS
    <2> QED BY <1>1, <1>4, <2>1, MoveOK
  <1>5. ASSUME NEW mv \in Move, mv.id = id, Becomes(m, {mv}) PROVE Leaves({mv})
    <2>1. {mv} \in SUBSET Move /\ \A a, b \in {mv} : a = b
      OBVIOUS
    <2> QED BY <1>1, <1>5, <2>1, MoveOK
  <1>6. ASSUME NEW next, Leaves(next), NEW u \in BoardTasks, u # id, board'[u] = board[u]
        PROVE  Ahead(u)' = Ahead(u)
    BY <1>6, OthersAhead
  <1> HIDE DEF id, Leaves
  <1>7. ASSUME NEW next, Leaves(next)
        PROVE  /\ moves' \in [Moves -> SUBSET Move] /\ moves'[m] = next
               /\ \A n \in Moves : \A a, b \in moves'[n] : a = b
               /\ \A n \in Moves \ {m} : moves'[n] = moves[n]
    BY <1>7 DEF Leaves
  (* The server has yet to hear of it: the entry moves alone.              *)
  <1>10. ASSUME NEW mv \in Move, mv.id = id, mv.phase = "sent", mv.to \in Columns,
                Becomes(m, {mv}), board' = Updated(board, id, mv.to),
                UNCHANGED <<table, stream, drops, followed>>
         PROVE  BoardInv'
    <2>1. Leaves({mv})
      BY <1>5, <1>10
    <2>2. \A u \in BoardTasks \ {id} : board'[u] = board[u]
      BY <1>1, <1>2, <1>10, UpdatedOK
    <2>3. \A u \in BoardTasks : u # id => Ahead(u)' = Ahead(u)
      BY <1>6, <2>1, <2>2
    <2>4. moves'[m] = {mv}
      BY <1>7, <2>1
    <2>5. board'[id] = Entry(mv.to) => Ahead(id)'
      BY <1>10, <2>4 DEF Ahead
    <2>6. board' \in [BoardTasks -> Listed] /\ AllSound'
      BY <1>2, <1>10, <2>3, <2>5, EntrySet
    <2>7. BoardShape'
      BY <1>1, <1>3, <1>7, <1>10, <2>1, <2>6, ShapeOf DEF BoardShape, BoardTypeOK
    <2> QED BY <2>6, <2>7 DEF BoardInv
  (* Nothing but the drop itself changes, and it is ahead no less.         *)
  <1>11. ASSUME NEW next, Leaves(next), UNCHANGED <<table, board, stream, followed>>,
                Ahead(id) => Ahead(id)', drops' \in 0..MaxDrops
         PROVE  BoardInv'
    <2>1. \A u \in BoardTasks : u # id => Ahead(u)' = Ahead(u)
      BY <1>6, <1>11
    <2>2. \A u \in followed : Ahead(u) => Ahead(u)'
      BY <1>1, <1>11, <2>1
    <2>3. AllSound'
      BY <1>11, <2>2, MoreAhead
    <2>4. BoardShape'
      BY <1>1, <1>3, <1>7, <1>11, ShapeOf DEF BoardShape, BoardTypeOK
    <2> QED BY <2>3, <2>4 DEF BoardInv
  (* A drop that is not sent makes no task ahead.                          *)
  <1>12. ASSUME NEW next, Leaves(next), move.phase \notin {"sent", "failed"}, UNCHANGED board
         PROVE  Ahead(id) => Ahead(id)'
    <2>1. ASSUME NEW n \in Moves, NEW mv \in moves[n], mv.phase \in {"sent", "failed"}
          PROVE  mv \in moves'[n]
      <3>1. n # m
        BY <1>1, <1>12, <2>1
      <3> QED BY <1>7, <1>12, <2>1, <3>1
    <2> QED BY <1>12, <2>1 DEF Ahead
  <1>13. ASSUME NEW to \in Columns, DropTask(m, move, to) PROVE BoardInv'
    <2>1. /\ move.phase = "dragged" /\ UNCHANGED <<table, stream, drops, followed>>
      BY <1>13 DEF DropTask
    <2>2. CASE to = move.from
      <3>1. Becomes(m, {}) /\ UNCHANGED board
        BY <1>13, <2>2 DEF DropTask
      <3> QED BY <1>1, <1>4, <1>11, <1>12, <2>1, <3>1
    <2>3. CASE to # move.from /\ to = "done"
      <3> DEFINE mv == [move EXCEPT !.phase = "checked", !.to = to]
      <3>1. mv \in Move /\ mv.id = id
        BY <1>1, <1>2 DEF Move, id
      <3>2. Becomes(m, {mv}) /\ UNCHANGED board
        BY <1>13, <2>3 DEF DropTask
      <3> HIDE DEF mv
      <3>3. Leaves({mv})
        BY <1>5, <3>1, <3>2
      <3> QED BY <1>1, <1>11, <1>12, <2>1, <3>2, <3>3
    <2>4. CASE to # move.from /\ to # "done"
      <3> DEFINE mv == [move EXCEPT !.phase = "sent", !.to = to]
      <3>1. mv \in Move /\ mv.id = id /\ mv.phase = "sent" /\ mv.to = to
        BY <1>1, <1>2 DEF Move, id
      <3>2. Becomes(m, {mv}) /\ board' = Updated(board, id, to)
        BY <1>13, <2>4 DEF DropTask, id
      <3> HIDE DEF mv
      <3> QED BY <1>10, <2>1, <3>1, <3>2
    <2> QED BY <2>2, <2>3, <2>4
  <1>14. ASSUME ApprovalFound(m, move) PROVE BoardInv'
    <2> DEFINE mv == [move EXCEPT !.phase = "sent"]
    <2>1. mv \in Move /\ mv.id = id /\ mv.phase = "sent" /\ mv.to = move.to
      BY <1>1, <1>2 DEF Move, id
    <2>2. Becomes(m, {mv}) /\ board' = Updated(board, id, move.to)
          /\ UNCHANGED <<table, stream, drops, followed>>
      BY <1>14 DEF ApprovalFound, id
    <2> HIDE DEF mv
    <2> QED BY <1>2, <1>10, <2>1, <2>2
  <1>15. ASSUME ServerRefuses(m, move) PROVE BoardInv'
    <2> DEFINE mv == [move EXCEPT !.phase = "failed"]
    <2>1. mv \in Move /\ mv.id = id /\ mv.phase = "failed" /\ mv.to = move.to
      BY <1>1, <1>2 DEF Move, id
    <2>2. Becomes(m, {mv}) /\ UNCHANGED <<table, board, stream, followed>>
          /\ drops < MaxDrops /\ drops' = drops + 1
      BY <1>15 DEF ServerRefuses
    <2> HIDE DEF mv
    <2>3. Leaves({mv})
      BY <1>5, <2>1, <2>2
    <2>4. Ahead(id) => Ahead(id)'
      <3>1. moves'[m] = {mv} /\ \A n \in Moves \ {m} : moves'[n] = moves[n]
        BY <1>7, <2>3
      <3>2. SUFFICES ASSUME NEW n \in Moves, NEW b \in moves[n], b.phase \in {"sent", "failed"},
                            b.id = id, board[id] = Entry(b.to)
                     PROVE  Ahead(id)'
        BY DEF Ahead
      <3>3. CASE n = m
        BY <1>1, <2>1, <2>2, <3>1, <3>2, <3>3 DEF Ahead
      <3>4. CASE n # m
        BY <2>2, <3>1, <3>2, <3>4 DEF Ahead
      <3> QED BY <3>3, <3>4
    <2>5. drops' \in 0..MaxDrops
      BY <1>1, <2>2, DropOK
    <2> QED BY <1>11, <2>2, <2>3, <2>4, <2>5
  <1>16. ASSUME MoveReverts(m, move) PROVE BoardInv'
    <2>1. /\ Becomes(m, {}) /\ board' = Updated(board, id, move.from)
          /\ UNCHANGED <<table, stream, drops>>
          /\ followed' = IF table[id] = move.from THEN followed ELSE followed \ {id}
      BY <1>16 DEF MoveReverts, id
    <2>2. Leaves({})
      BY <1>4, <2>1
    <2>3. \A u \in BoardTasks \ {id} : board'[u] = board[u]
      BY <1>1, <1>2, <2>1, UpdatedOK
    <2>4. \A u \in BoardTasks : u # id => Ahead(u)' = Ahead(u)
      BY <1>6, <2>2, <2>3
    <2>5. (\A u \in followed' : u \in followed) /\ (id \in followed' => table[id] = move.from)
      BY <2>1
    <2>6. board' \in [BoardTasks -> Listed] /\ AllSound'
      BY <1>2, <2>1, <2>4, <2>5, EntrySet
    <2>7. followed' \subseteq BoardTasks
      BY <1>1, <2>5
    <2>8. BoardShape'
      BY <1>1, <1>3, <1>7, <2>1, <2>2, <2>6, <2>7, ShapeOf DEF BoardShape, BoardTypeOK
    <2> QED BY <2>6, <2>8 DEF BoardInv
  <1>17. ASSUME ServerMoves(m, move) PROVE BoardInv'
    <2> DEFINE e == [type |-> "task.status_changed", id |-> id, at |-> move.to]
               row == IF table[id] \in Columns THEN move.to ELSE table[id]
               mv == [move EXCEPT !.phase = "failed"]
    <2>1. e \in Event /\ e.type = "task.status_changed" /\ e.id = id /\ e.at = move.to
      BY <1>2 DEF Event
    <2>2. row \in Row /\ table' = [table EXCEPT ![id] = row]
          /\ UNCHANGED <<board, followed>>
      BY <1>1, <1>2, <1>17 DEF ServerMoves, Row, id
    <2>3. /\ \/ table[id] \in Columns /\ row = move.to
             \/ table[id] \notin Columns /\ row = table[id]
      OBVIOUS
    <2>4. Broadcast(e.type, e.id, e.at)
      BY <1>17, <2>1 DEF ServerMoves, id
    <2>5. mv \in Move /\ mv.id = id
      BY <1>1, <1>2 DEF Move, id
    <2>6. /\ \/ Becomes(m, {}) \/ Becomes(m, {mv})
          /\ drops' \in 0..MaxDrops
      BY <1>1, <1>17, DropOK DEF ServerMoves
    <2> HIDE DEF e, row, mv
    <2>7. PICK next : Leaves(next)
      BY <1>4, <1>5, <2>5, <2>6
    <2>8. \A u \in BoardTasks : u # id => Ahead(u)' = Ahead(u)
      BY <1>6, <2>2, <2>7
    <2>9. /\ table' \in [BoardTasks -> Row] /\ AllSound'
          /\ stream' \in [phase : Phases, events : Seq(Event)]
      BY <2>1, <2>2, <2>3, <2>4, <2>8, RowWritten
    <2>10. BoardShape'
      BY <1>1, <1>3, <1>7, <2>2, <2>6, <2>7, <2>9, ShapeOf DEF BoardShape, BoardTypeOK
    <2> QED BY <2>9, <2>10 DEF BoardInv
  <1> QED BY <1>13, <1>14, <1>15, <1>16, <1>17

LEMMA BoardStep == BoardInv /\ [BoardNext]_boardVars => BoardInv'
  <1> SUFFICES ASSUME BoardInv, [BoardNext]_boardVars PROVE BoardInv'
    OBVIOUS
  <1>1. CASE UNCHANGED boardVars
    <2>1. AllSound'
      BY <1>1, SameAhead, StillFollowed DEF boardVars
    <2>2. BoardShape'
      BY <1>1, ShapeOf DEF boardVars, BoardInv, BoardShape, BoardTypeOK
    <2> QED BY <2>1, <2>2 DEF BoardInv
  <1>2. ASSUME NEW t \in BoardTasks, NEW row \in Columns,
               CreateRow(t, row) \/ UpdateRow(t, row) \/ WriteSilently(t, row) \/ DeleteRow(t)
        PROVE  BoardInv'
    BY <1>2, WritesKeep
  <1>3. ASSUME NEW t \in BoardTasks, NEW m \in Moves, DragTask(m, t) PROVE BoardInv'
    BY <1>3, DragKeeps
  <1>4. CASE HandlerRegistered \/ StreamOpens \/ StreamBreaks \/ Reconnect
    BY <1>4, StreamKeeps
  <1>5. CASE EventArrives
    BY <1>5, EventKeeps
  <1>6. CASE \/ Poll \/ Refresh \/ \E p \in Projects : ChooseProject(p)
             \/ \E f \in fetches : ServerAnswers(f) \/ FetchFails(f)
    BY <1>6, FetchesKeep
  <1>7. CASE \E f \in fetches : FetchEnds(f)
    BY <1>7, AnswerKeeps
  <1>8. CASE \E m \in Moves : \E move \in moves[m] :
               \/ \E to \in Columns : DropTask(m, move, to)
               \/ ApprovalFound(m, move) \/ ServerMoves(m, move) \/ ServerRefuses(m, move)
               \/ MoveReverts(m, move)
    BY <1>8, MovesKeep
  <1>9. CASE SwitchTab
    <2>1. UNCHANGED <<table, board, chosen, stream, retries, fetches, moves, changes, drops, followed>>
          /\ visible' \in BOOLEAN
      BY <1>9 DEF SwitchTab
    <2>2. AllSound'
      BY <2>1, SameAhead, StillFollowed
    <2>3. BoardShape'
      BY <2>1, ShapeOf DEF BoardInv, BoardShape, BoardTypeOK
    <2> QED BY <2>2, <2>3 DEF BoardInv
  <1>10. \/ BoardNext \/ UNCHANGED boardVars
    OBVIOUS
  <1>11. CASE BoardNext
    <2>1. CASE \E t \in BoardTasks :
                 \/ \E row \in Columns : CreateRow(t, row) \/ UpdateRow(t, row) \/ WriteSilently(t, row)
                 \/ DeleteRow(t)
                 \/ \E m \in Moves : DragTask(m, t)
      BY <1>2, <1>3, <2>1, BoardValues
    <2>2. CASE \E f \in fetches : ServerAnswers(f) \/ FetchEnds(f) \/ FetchFails(f)
      BY <1>6, <1>7, <2>2
    <2> QED BY <1>4, <1>5, <1>6, <1>8, <1>9, <1>11, <2>1, <2>2 DEF BoardNext
  <1> QED BY <1>1, <1>10, <1>11

(* The events of the stream keep the board right about every task an       *)
(* answer was right about (use-server-events.ts, store/index.ts), in pages *)
(* of any length, until one of the named things happens: the stream        *)
(* breaks, another answer replaces the board, the task is written without  *)
(* an event, or a failed drop puts back what the task no longer is.        *)
THEOREM BoardFollows == BoardSpec => []FollowsTable
  <1>1. BoardInv => FollowsTable
    <2> SUFFICES ASSUME BoardInv, NEW t \in followed, About(t) = {}
                 PROVE  board[t] = Entry(table[t]) \/ Ahead(t)
      BY DEF FollowsTable
    <2>1. Sound(t, stream.events, table[t], board[t], Ahead(t)) /\ Heard(t, stream.events) = {}
      BY DEF BoardInv, AllSound, About, Heard
    <2>2. table[t] \notin Columns => Entry(table[t]) = Unlisted
      BY DEF Entry
    <2> QED BY <2>1, <2>2 DEF Sound
  <1> QED BY <1>1, BoardStarts, BoardStep, PTL DEF BoardSpec

(* Its table, entries, stream, fetches and drops stay well formed          *)
(* (store/index.ts, task-board-panel.tsx).                                 *)
THEOREM BoardTypeCorrect == BoardSpec => []BoardTypeOK
  <1>1. BoardInv => BoardTypeOK
    BY DEF BoardInv, BoardShape
  <1> QED BY <1>1, BoardStarts, BoardStep, PTL DEF BoardSpec

-----------------------------------------------------------------------------
(* The skills.                                                             *)

SkillShape == SkillTypeOK /\ skillWrite \in [SkillWriters -> SUBSET SkillWrite]

LEMMA RowAfterType ==
  ASSUME NEW row \in SkillRow, NEW write \in SkillWrite PROVE RowAfter(row, write) \in SkillRow
  <1>1. write.kind \in {"upsert", "install", "delete"} /\ write.text \in Content
    BY DEF SkillWrite
  <1> QED BY <1>1 DEF RowAfter, SkillRow, NoSkillRow, Content

LEMMA SkillShapeStarts == SkillInit => SkillShape
  BY SkillAssumption DEF SkillInit, SkillShape, SkillTypeOK, SkillRow, NoSkillRow, Content

LEMMA SkillShapeStep == SkillShape /\ [SkillNext]_skillVars => SkillShape'
  <1> SUFFICES ASSUME SkillShape, [SkillNext]_skillVars PROVE SkillShape'
    OBVIOUS
  <1> USE DEF SkillShape, SkillTypeOK
  <1>1. ASSUME NEW s \in Skills, NEW text \in Content, ChangeDisk(s, text)
        PROVE disk' \in [Skills -> Content] /\ skillEdits' \in 0..MaxSkillEdits
    BY <1>1, SkillAssumption DEF ChangeDisk
  <1>2. ASSUME NEW w \in SkillWriters, NEW s \in Skills, RemoveSkill(w, s) PROVE SkillShape'
    <2>1. Missing \in Content /\ [kind |-> "delete", skill |-> s, text |-> Missing] \in SkillWrite
      BY DEF SkillWrite, Content
    <2> QED BY <1>1, <1>2, <2>1 DEF RemoveSkill
  <1>3. ASSUME NEW w \in SkillWriters, NEW s \in Skills, NEW kind \in {"upsert", "install"},
               NEW text \in Texts, WriteSkill(w, kind, s, text)
        PROVE SkillShape'
    <2>1. text \in Content /\ [kind |-> kind, skill |-> s, text |-> text] \in SkillWrite
      BY DEF SkillWrite, Content
    <2> QED BY <1>1, <1>3, <2>1 DEF WriteSkill
  <1>4. ASSUME NEW w \in SkillWriters, WriteSkillRow(w) PROVE SkillShape'
    <2>1. PICK write \in skillWrite[w] :
            /\ skillRow' = [skillRow EXCEPT ![write.skill] = RowAfter(@, write)]
            /\ skillWrite' = [skillWrite EXCEPT ![w] = {}]
            /\ UNCHANGED <<disk, skillEdits>>
      BY <1>4 DEF WriteSkillRow
    <2>2. write \in SkillWrite /\ write.skill \in Skills
      BY DEF SkillWrite
    <2>3. RowAfter(skillRow[write.skill], write) \in SkillRow
      BY <2>2, RowAfterType
    <2> QED BY <2>1, <2>2, <2>3
  <1>5. ASSUME NEW w \in SkillWriters, SkillRowLost(w) PROVE SkillShape'
    BY <1>5 DEF SkillRowLost
  <1>6. ASSUME NEW s \in Skills, NEW text \in Content, EditOnDisk(s, text) PROVE SkillShape'
    BY <1>1, <1>6 DEF EditOnDisk
  <1>7. ASSUME SyncSkills PROVE SkillShape'
    <2>1. ASSUME NEW s \in Skills
          PROVE [skillRow[s] EXCEPT !.hash = disk[s]] \in SkillRow /\ NoSkillRow \in SkillRow
      BY DEF SkillRow, NoSkillRow, Content
    <2> QED BY <1>7, <2>1 DEF SyncSkills
  <1>8. ASSUME UNCHANGED skillVars PROVE SkillShape'
    BY <1>8 DEF skillVars
  <1> QED BY <1>2, <1>3, <1>4, <1>5, <1>6, <1>7, <1>8 DEF SkillNext

(* A sync makes the list of skills what is on disk, whatever requests did  *)
(* to the rows and however many were lost, and that stays so until the     *)
(* disk changes or a request writes a row: what SkillsMirrored needs of    *)
(* every single step (syncSkillsFromDisk).                                 *)
THEOREM SyncMirrors ==
  SkillSpec => [][/\ SyncSkills => SkillsListed'
                  /\ SkillsListed /\ UNCHANGED disk /\ (\A w \in SkillWriters : skillWrite[w] = {})
                       => SkillsListed']_skillVars
  <1>1. SkillInit => SkillShape
    BY SkillShapeStarts
  <1>2. ASSUME SkillShape, SkillNext PROVE SyncSkills => SkillsListed'
    <2> SUFFICES ASSUME SyncSkills, NEW s \in Skills
                 PROVE /\ disk[s] # Missing => skillRow'[s].hash = disk[s]
                       /\ disk[s] = Missing /\ skillRow'[s].hash # Missing =>
                            skillRow'[s].registry \/ Source[s] \notin Scanned
      BY DEF SkillsListed, SyncSkills, Scanned
    <2>1. skillRow'[s] = (IF disk[s] # Missing THEN [skillRow[s] EXCEPT !.hash = disk[s]]
                          ELSE IF Vanished(s) THEN NoSkillRow ELSE skillRow[s])
      BY DEF SyncSkills
    <2>2. skillRow[s] \in SkillRow
      BY <1>2 DEF SkillShape, SkillTypeOK
    <2> QED BY <2>1, <2>2 DEF Vanished, SkillRow, NoSkillRow
  <1>3. ASSUME SkillShape, SkillNext, SkillsListed, UNCHANGED disk, \A w \in SkillWriters : skillWrite[w] = {}
        PROVE SkillsListed'
    <2>1. CASE SyncSkills
      BY <1>2, <1>3, <2>1
    <2>2. CASE UNCHANGED skillRow
      BY <1>3, <2>2 DEF SkillsListed, Scanned
    <2>3. ASSUME NEW w \in SkillWriters PROVE ~WriteSkillRow(w)
      BY <1>3 DEF WriteSkillRow
    <2> QED BY <1>3, <2>1, <2>2, <2>3
            DEF SkillNext, RemoveSkill, WriteSkill, SkillRowLost, EditOnDisk
  <1> QED BY <1>1, <1>2, <1>3, SkillShapeStep, PTL DEF SkillSpec

(* The disk, the rows of skills and the requests between the two stay well *)
(* formed (skill-registry.ts, skill-sync.ts).                              *)
THEOREM SkillTypeCorrect == SkillSpec => []SkillTypeOK
  <1>1. SkillInit => SkillShape
    BY SkillShapeStarts
  <1>2. SkillShape => SkillTypeOK
    BY DEF SkillShape
  <1> QED BY <1>1, <1>2, SkillShapeStep, PTL DEF SkillSpec

-----------------------------------------------------------------------------
(* The copies, side by side.                                               *)

LEMMA CopiesStart ==
  Init => AgentInit /\ BoardInit /\ SkillInit
  BY DEF Init

LEMMA CopiesStep ==
  [Next]_vars => /\ [AgentNext]_agentVars
                 /\ [BoardNext]_boardVars
                 /\ [SkillNext]_skillVars
  BY DEF Next, Runs, vars

(* Whatever is proved of one of them holds of the run that checks them     *)
(* together.                                                               *)
THEOREM PartsOfCopies ==
  Spec => AgentSpec /\ BoardSpec /\ SkillSpec
  BY CopiesStart, CopiesStep, PTL
     DEF Spec, AgentSpec, BoardSpec, SkillSpec

=============================================================================
