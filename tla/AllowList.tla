------------------------------- MODULE AllowList -------------------------------
(***************************************************************************)
(* The allow lists of commands in exec-approvals.json                      *)
(* (src/app/api/exec-approvals/route.ts). An editor in the browser loads   *)
(* them with a hash of the file and saves all of them with that hash, or   *)
(* with none if it could not load them; the route reads the file, compares *)
(* and writes, with an await between each, and writing empties the file    *)
(* first. There may be no file yet, OpenClaw writes the same one, and      *)
(* people remove it.                                                       *)
(***************************************************************************)
EXTENDS Naturals

CONSTANTS
  Editors,    \* the browsers that edit
  Lists,      \* the contents the file may have
  NoFile,     \* what is loaded if there is none
  MaxSaves    \* bound: saves, of the editors and of OpenClaw, and removals

ASSUME AllowListAssumption == Lists # {} /\ NoFile \notin Lists /\ MaxSaves \in Nat

VARIABLES
  file,    \* the file: its content, and history: the saves that are part of it
  editor,  \* what each editor loaded: content and saves
  save,    \* PUT under way: what it writes
  saves,   \* history: how many saves and removals there were
  kept,    \* history: the saves answered with ok, but for those that a save without a
           \* hash or a removal overruled
  apart    \* history: no save met another one or a restart

allowVars == <<file, editor, save, saves, kept, apart>>

Saves == 1..MaxSaves
Version == [lists : Lists \cup {NoFile}, saves : SUBSET Saves]
Saving == [phase : {"idle", "asked", "compared", "emptied"}, id : 0..MaxSaves,
           hashed : BOOLEAN, lists : Lists, saves : SUBSET Saves]

AllowTypeOK ==
  /\ file \in [text : {"whole", "empty", "missing"}, lists : Lists \cup {NoFile},
               saves : SUBSET Saves]
  /\ editor \in [Editors -> Version]
  /\ save \in [Editors -> Saving]
  /\ saves \in 0..MaxSaves
  /\ kept \subseteq Saves
  /\ apart \in BOOLEAN

NoSave == [phase |-> "idle", id |-> 0, hashed |-> FALSE, lists |-> CHOOSE l \in Lists : TRUE, saves |-> {}]

NoListFile == [text |-> "missing", lists |-> NoFile, saves |-> {}]

AllowInit ==
  /\ file \in {NoListFile} \cup [text : {"whole"}, lists : Lists, saves : {{}}]
  /\ editor = [e \in Editors |-> [lists |-> file.lists, saves |-> {}]]
  /\ save = [e \in Editors |-> NoSave]
  /\ saves = 0
  /\ kept = {}
  /\ apart = TRUE

NoneSaving == \A e \in Editors : save[e].phase = "idle"

-----------------------------------------------------------------------------
(* GET: an empty file is an error, and the editor keeps what it has.       *)
LoadLists(e) ==
  /\ save[e].phase = "idle" /\ file.text # "empty"
  /\ editor' = [editor EXCEPT ![e] = [lists |-> file.lists, saves |-> file.saves]]
  /\ UNCHANGED <<file, save, saves, kept, apart>>

(* PUT with the edited lists and, unless it is left out, the hash of what  *)
(* was loaded.                                                             *)
AskSave(e, lists, hashed) ==
  /\ save[e].phase = "idle" /\ saves < MaxSaves
  /\ saves' = saves + 1
  /\ save' = [save EXCEPT ![e] =
       [phase |-> "asked", id |-> saves + 1, hashed |-> hashed, lists |-> lists, saves |-> {}]]
  /\ apart' = (apart /\ NoneSaving)
  /\ UNCHANGED <<file, editor, kept>>

Agrees_Always(e) == file.text # "empty"
Agrees(e) ==
  \/ file.text = "missing"
  \/ file.text = "whole" /\ (save[e].hashed => file.lists = editor[e].lists)

(* readFile and the comparison, which is left out for a file that is not   *)
(* there or a request without a hash. An empty file cannot be parsed. The  *)
(* lists that are written stem from what the editor loaded.                *)
Compare(e) ==
  /\ save[e].phase = "asked"
  /\ save' = [save EXCEPT ![e] =
       IF Agrees(e)
       THEN [@ EXCEPT !.phase = "compared",
                      !.saves = IF file.lists = editor[e].lists THEN file.saves
                                ELSE editor[e].saves]
       ELSE NoSave]
  /\ UNCHANGED <<file, editor, saves, kept, apart>>

(* writeFile opens the file, which empties it, and then writes.            *)
EmptyFile(e) ==
  /\ save[e].phase = "compared"
  /\ file' = [file EXCEPT !.text = "empty"]
  /\ save' = [save EXCEPT ![e].phase = "emptied"]
  /\ UNCHANGED <<editor, saves, kept, apart>>

WriteLists(e) ==
  LET written == [lists |-> save[e].lists, saves |-> save[e].saves \cup {save[e].id}]
  IN /\ save[e].phase = "emptied"
     /\ file' = [text |-> "whole", lists |-> written.lists, saves |-> written.saves]
     /\ editor' = [editor EXCEPT ![e] = written]
     /\ kept' = (IF save[e].hashed THEN kept ELSE kept \cap written.saves) \cup {save[e].id}
     /\ save' = [save EXCEPT ![e] = NoSave]
     /\ UNCHANGED <<saves, apart>>

(* OpenClaw, after an approval for always: it changes what is there.       *)
OpenClawSaves(lists) ==
  /\ file.text # "empty" /\ saves < MaxSaves
  /\ saves' = saves + 1
  /\ file' = [text |-> "whole", lists |-> lists, saves |-> file.saves \cup {saves + 1}]
  /\ kept' = kept \cup {saves + 1}
  /\ apart' = (apart /\ NoneSaving)
  /\ UNCHANGED <<editor, save>>

FileRemoved ==
  /\ file.text # "missing" /\ saves < MaxSaves
  /\ saves' = saves + 1
  /\ file' = NoListFile
  /\ kept' = {}
  /\ apart' = (apart /\ NoneSaving)
  /\ UNCHANGED <<editor, save>>

RestartSaves ==
  /\ ~NoneSaving
  /\ save' = [e \in Editors |-> NoSave]
  /\ apart' = FALSE
  /\ UNCHANGED <<file, editor, saves, kept>>

AllowNext ==
  \/ \E e \in Editors : LoadLists(e) \/ Compare(e) \/ EmptyFile(e) \/ WriteLists(e)
  \/ \E e \in Editors, lists \in Lists, hashed \in BOOLEAN : AskSave(e, lists, hashed)
  \/ \E lists \in Lists : OpenClawSaves(lists)
  \/ FileRemoved \/ RestartSaves

AllowSpec == AllowInit /\ [][AllowNext]_allowVars

-----------------------------------------------------------------------------
(* No save that was answered with ok is undone by an editor that sends the *)
(* hash of lists without it: the hash refuses those, whatever saves        *)
(* without one, approvals and removals of the file come in between; and no *)
(* save leaves an empty file. This is so only while saves come one after   *)
(* the other, since nothing holds the file between the comparison and the  *)
(* write.                                                                  *)
SavesAreKept ==
  apart => kept \subseteq file.saves /\ (NoneSaving => file.text # "empty")

=============================================================================
