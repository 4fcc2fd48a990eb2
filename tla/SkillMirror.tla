------------------------------ MODULE SkillMirror ------------------------------
(***************************************************************************)
(* Skills are directories on disk and rows of the database. A request      *)
(* writes the disk, awaits, and then writes the row                        *)
(* (src/app/api/skills/route.ts, src/lib/skill-registry.ts); agents and    *)
(* people change the disk behind it; a job compares the two every minute   *)
(* without an await (src/lib/skill-sync.ts): the disk wins.                *)
(***************************************************************************)
EXTENDS Naturals

CONSTANTS
  Skills,      \* a source and a name each
  Source,      \* the source of each
  Fixed,       \* the sources that always are synced; the others are workspace-<agent>
  Texts,       \* contents of SKILL.md, told apart by their hash
  SkillWriters, \* requests that may be under way
  MaxSkillEdits \* bound: changes of the disk

ASSUME SkillAssumption == MaxSkillEdits \in Nat

VARIABLES
  disk,        \* the content of each SKILL.md that is there
  skillRow,    \* content_hash, and whether registry_slug is set
  skillWrite,  \* the requests that wrote the disk, with the row they will write
  skillEdits   \* history: changes of the disk

skillVars == <<disk, skillRow, skillWrite, skillEdits>>

Missing == "missing"
Content == Texts \cup {Missing}
SkillRow == [hash : Content, registry : BOOLEAN]
NoSkillRow == [hash |-> Missing, registry |-> FALSE]
SkillWrite == [kind : {"upsert", "install", "delete"}, skill : Skills, text : Content]

SkillTypeOK ==
  /\ disk \in [Skills -> Content]
  /\ skillRow \in [Skills -> SkillRow]
  /\ \A w \in SkillWriters : skillWrite[w] \subseteq SkillWrite
  /\ skillEdits \in 0..MaxSkillEdits

SkillInit ==
  /\ disk \in [Skills -> Content]
  /\ skillRow = [s \in Skills |-> NoSkillRow]
  /\ skillWrite = [w \in SkillWriters |-> {}]
  /\ skillEdits = 0

ChangeDisk(s, text) ==
  /\ skillEdits < MaxSkillEdits
  /\ skillEdits' = skillEdits + 1
  /\ disk' = [disk EXCEPT ![s] = text]

-----------------------------------------------------------------------------
(* POST, PUT and an installation: the document is replaced in one step.    *)
WriteSkill(w, kind, s, text) ==
  /\ skillWrite[w] = {} /\ text # Missing
  /\ kind = "install" => Source[s] \in Fixed
  /\ ChangeDisk(s, text)
  /\ skillWrite' = [skillWrite EXCEPT ![w] = {[kind |-> kind, skill |-> s, text |-> text]}]
  /\ UNCHANGED skillRow

RemoveSkill(w, s) ==
  /\ skillWrite[w] = {} /\ disk[s] # Missing
  /\ ChangeDisk(s, Missing)
  /\ skillWrite' = [skillWrite EXCEPT ![w] = {[kind |-> "delete", skill |-> s, text |-> Missing]}]
  /\ UNCHANGED skillRow

(* The row, after the await: ON CONFLICT keeps the slug of an upsert.      *)
RowAfter(row, write) ==
  CASE write.kind = "upsert" -> [row EXCEPT !.hash = write.text]
    [] write.kind = "install" -> [hash |-> write.text, registry |-> TRUE]
    [] write.kind = "delete" -> NoSkillRow

WriteSkillRow(w) ==
  \E write \in skillWrite[w] :
    /\ skillRow' = [skillRow EXCEPT ![write.skill] = RowAfter(@, write)]
    /\ skillWrite' = [skillWrite EXCEPT ![w] = {}]
    /\ UNCHANGED <<disk, skillEdits>>

(* The row cannot be written, or the process restarts before it is.        *)
SkillRowLost(w) ==
  /\ skillWrite[w] # {}
  /\ skillWrite' = [skillWrite EXCEPT ![w] = {}]
  /\ UNCHANGED <<disk, skillRow, skillEdits>>

(* An agent or a person, on disk.                                          *)
EditOnDisk(s, text) ==
  /\ disk[s] # text
  /\ ChangeDisk(s, text)
  /\ UNCHANGED <<skillRow, skillWrite>>

-----------------------------------------------------------------------------
(* syncSkillsFromDisk. Of the workspaces of agents it looks at those that  *)
(* have a skill on disk.                                                   *)
Scanned == Fixed \cup {Source[s] : s \in {k \in Skills : disk[k] # Missing}}

Vanished(s) == disk[s] = Missing /\ Source[s] \in Scanned /\ ~skillRow[s].registry

SyncSkills_NewOnly ==
  /\ skillRow' = [s \in Skills |->
       IF disk[s] # Missing /\ skillRow[s].hash = Missing THEN [skillRow[s] EXCEPT !.hash = disk[s]]
       ELSE IF Vanished(s) THEN NoSkillRow ELSE skillRow[s]]
  /\ UNCHANGED <<disk, skillWrite, skillEdits>>

SyncSkills ==
  /\ skillRow' = [s \in Skills |->
       IF disk[s] # Missing THEN [skillRow[s] EXCEPT !.hash = disk[s]]
       ELSE IF Vanished(s) THEN NoSkillRow ELSE skillRow[s]]
  /\ UNCHANGED <<disk, skillWrite, skillEdits>>

SkillNext ==
  \/ \E w \in SkillWriters, s \in Skills :
       RemoveSkill(w, s) \/ \E kind \in {"upsert", "install"}, text \in Texts : WriteSkill(w, kind, s, text)
  \/ \E w \in SkillWriters : WriteSkillRow(w) \/ SkillRowLost(w)
  \/ \E s \in Skills, text \in Content : EditOnDisk(s, text)
  \/ SyncSkills

SkillSpec == SkillInit /\ [][SkillNext]_skillVars

-----------------------------------------------------------------------------
(* The list of skills is what is on disk. Two kinds of rows stay without a *)
(* file: those of the registry, and those of an agent's workspace that has *)
(* no skill any more.                                                      *)
SkillsListed ==
  \A s \in Skills :
    /\ disk[s] # Missing => skillRow[s].hash = disk[s]
    /\ disk[s] = Missing /\ skillRow[s].hash # Missing =>
         skillRow[s].registry \/ Source[s] \notin Scanned

(* In the end it is that for good, whatever requests and edits on disk did *)
(* to each other's rows and how many rows were lost.                       *)
SkillsMirrored == <>[]SkillsListed

=============================================================================
