------------------------------- MODULE GithubSync -------------------------------
(***************************************************************************)
(* Tasks of a project and the issues of its repository                     *)
(* (src/lib/github-sync-engine.ts). A write of a task starts a push that   *)
(* nobody awaits; a poller and a route pull what changed at GitHub. Both   *)
(* await GitHub and then write rows by what they read before.              *)
(***************************************************************************)
EXTENDS Naturals, FiniteSetsExt

CONSTANTS
  TaskIds, Issues,  \* the ids tasks and issues may get; issues are numbers
  Statuses,         \* the statuses tasks take
  Pullers,          \* the poller and the requests to sync
  Window,           \* 10 s: changes that near to the last sync are skipped
  LastTime,         \* bound: the time
  MaxPushes,        \* bound: pushes under way
  MaxWrites         \* bounds: changes of tasks, and of issues by people

ASSUME GithubAssumption ==
  /\ Issues \subseteq Nat \ {0} /\ "done" \in Statuses /\ "inbox" \in Statuses
  /\ {Window, LastTime, MaxPushes} \subseteq Nat \ {0}
  /\ MaxWrites \in [{"tasks", "issues"} -> Nat]

VARIABLES
  time,
  mcTask,    \* tasks.status, updated_at, github_issue_number and _synced_at
  row,       \* the row the dispatcher holds of a task, if any: its issue number
  issue,     \* the issues at GitHub
  pushes,    \* the calls of pushTaskToGitHub under way
  pull,      \* the calls of pullFromGitHub
  lastSync,  \* last_synced_at of the latest row of github_syncs
  edits,     \* history: changes of tasks, and of issues by people
  orderly,   \* history: no push met another one, and no call failed
  origin,    \* history: whether the last change of a task was pushed or pulled
  raced,     \* history: issues that were pulled before their push knew of them
  pullsMet   \* history: a pull started while another one was under way

githubVars == <<time, mcTask, row, issue, pushes, pull, lastSync, edits, orderly, origin, raced, pullsMet>>

Times == 0..LastTime
Numbers == {0} \cup Issues

McTask == [exists : BOOLEAN, status : Statuses, updated : Times, number : Numbers, synced : Times]
Issue == [exists : BOOLEAN, closed : BOOLEAN, label : Statuses \cup {"none"}, updated : Times,
          author : {"person", "push"}]
Push == [task : TaskIds, status : Statuses, number : Numbers, now : Times,
         phase : {"update", "updated", "create", "created"}]
Pull == [phase : {"idle", "asked", "answered"}, now : Times, since : Times,
         seen : SUBSET [number : Issues, at : Issue]]
NoPull == [phase |-> "idle", now |-> 0, since |-> 0, seen |-> {}]

GithubTypeOK ==
  /\ time \in Times
  /\ mcTask \in [TaskIds -> McTask]
  /\ row \in [TaskIds -> SUBSET Numbers]
  /\ issue \in [Issues -> Issue]
  /\ pushes \subseteq Push
  /\ \A q \in Pullers : pull[q].phase \in {"idle", "asked", "answered"} /\ pull[q].now \in Times
  /\ lastSync \in Times
  /\ edits \in [{"tasks", "issues"} -> Nat]
  /\ orderly \in BOOLEAN /\ origin \in [TaskIds -> {"pushed", "pulled", "silent"}] /\ raced \subseteq Issues
  /\ pullsMet \in BOOLEAN

GithubInit ==
  /\ time = 1
  /\ mcTask = [t \in TaskIds |->
       [exists |-> FALSE, status |-> "inbox", updated |-> 0, number |-> 0, synced |-> 0]]
  /\ row = [t \in TaskIds |-> {}]
  /\ issue = [n \in Issues |->
       [exists |-> FALSE, closed |-> FALSE, label |-> "none", updated |-> 0, author |-> "person"]]
  /\ pushes = {}
  /\ pull = [q \in Pullers |-> NoPull]
  /\ lastSync = 0
  /\ edits = [k \in {"tasks", "issues"} |-> 0]
  /\ orderly = TRUE /\ origin = [t \in TaskIds |-> "pushed"] /\ raced = {} /\ pullsMet = FALSE

Abs(i, k) == IF i >= k THEN i - k ELSE k - i

Edit(kind) == edits[kind] < MaxWrites[kind] /\ edits' = [edits EXCEPT ![kind] = @ + 1]

-----------------------------------------------------------------------------
(* Writes of tasks and the pushes they start.                              *)

(* pushTaskToGitHub, up to its first await: without an issue number it     *)
(* creates an issue.                                                       *)
StartPush(t, status, number, inTurn) ==
  /\ Cardinality(pushes) < MaxPushes
  /\ pushes' = pushes \cup {[task |-> t, status |-> status, number |-> number, now |-> time,
                             phase |-> IF number = 0 THEN "create" ELSE "update"]}
  /\ orderly' = (orderly /\ inTurn /\ pushes = {})
  /\ origin' = [origin EXCEPT ![t] = "pushed"]

WriteTask(t, status) ==
  /\ mcTask[t].exists /\ Edit("tasks")
  /\ mcTask' = [mcTask EXCEPT ![t].status = status, ![t].updated = time]
  /\ UNCHANGED <<time, issue, pull, lastSync, raced, pullsMet>>

(* POST /api/tasks                                                         *)
CreateMcTask(t) ==
  /\ ~mcTask[t].exists /\ Edit("tasks")
  /\ mcTask' = [mcTask EXCEPT ![t].exists = TRUE, ![t].updated = time]
  /\ StartPush(t, "inbox", 0, TRUE)
  /\ UNCHANGED <<time, row, issue, pull, lastSync, raced, pullsMet>>

(* PUT: the row is read again after the write.                             *)
ApiWrites(t, status) ==
  /\ WriteTask(t, status)
  /\ StartPush(t, status, mcTask[t].number, TRUE)
  /\ UNCHANGED row

(* The dispatcher selects t.* and awaits an agent before it writes.        *)
DispatcherReads(t) ==
  /\ mcTask[t].exists /\ row[t] = {} /\ edits["tasks"] < MaxWrites["tasks"]
  /\ row' = [row EXCEPT ![t] = {mcTask[t].number}]
  /\ UNCHANGED <<time, mcTask, issue, pushes, pull, lastSync, edits, orderly, origin, raced, pullsMet>>

DispatcherWrites(t, status) ==
  /\ WriteTask(t, status)
  /\ \E number \in row[t] : StartPush(t, status, number, number = mcTask[t].number)
  /\ row' = [row EXCEPT ![t] = {}]

(* runAegisReviews selects project_id but no github_issue_number.          *)
ReviewWrites(t, status) ==
  /\ WriteTask(t, status)
  /\ StartPush(t, status, 0, TRUE)
  /\ UNCHANGED row

(* autoRouteInboxTasks and requeueStaleTasks do not select project_id, so  *)
(* syncTaskOutbound finds no project.                                      *)
OtherJobWrites(t, status) ==
  /\ WriteTask(t, status)
  /\ origin' = [origin EXCEPT ![t] = "silent"]
  /\ UNCHANGED <<row, pushes, orderly>>

-----------------------------------------------------------------------------
(* A push and GitHub.                                                      *)

NextIssue(n) == ~issue[n].exists /\ \A k \in Issues : k < n => issue[k].exists

MovePush(p, q) == pushes' = (pushes \ {p}) \cup {q}

(* Reading the issue first only keeps labels of others.                    *)
GithubUpdates(p) ==
  /\ p.phase = "update"
  /\ issue' = [issue EXCEPT ![p.number] =
       [exists |-> TRUE, closed |-> p.status = "done", label |-> p.status, updated |-> time,
        author |-> "push"]]
  /\ MovePush(p, [p EXCEPT !.phase = "updated"])
  /\ UNCHANGED <<time, mcTask, row, pull, lastSync, edits, orderly, origin, raced, pullsMet>>

GithubCreates(p, n) ==
  /\ p.phase = "create" /\ NextIssue(n)
  /\ issue' = [issue EXCEPT ![n] =
       [exists |-> TRUE, closed |-> FALSE, label |-> p.status, updated |-> time, author |-> "push"]]
  /\ MovePush(p, [p EXCEPT !.phase = "created", !.number = n])
  /\ UNCHANGED <<time, mcTask, row, pull, lastSync, edits, orderly, origin, raced, pullsMet>>

(* The answer arrives: the UPDATE after the await.                         *)
PushEnds_Unsynced(p) ==
  /\ p.phase \in {"updated", "created"}
  /\ mcTask' = [mcTask EXCEPT ![p.task].number = p.number]
  /\ pushes' = pushes \ {p}
  /\ UNCHANGED <<time, row, issue, pull, lastSync, edits, orderly, origin, raced, pullsMet>>
PushEnds(p) ==
  /\ p.phase \in {"updated", "created"}
  /\ mcTask' = [mcTask EXCEPT
       ![p.task].number = IF p.phase = "created" THEN p.number ELSE @,
       ![p.task].synced = p.now]
  /\ pushes' = pushes \ {p}
  /\ UNCHANGED <<time, row, issue, pull, lastSync, edits, orderly, origin, raced, pullsMet>>

(* GitHub cannot be reached, before or after it did what it was asked to.  *)
PushFails(p) ==
  /\ pushes' = pushes \ {p}
  /\ orderly' = FALSE
  /\ UNCHANGED <<time, mcTask, row, issue, pull, lastSync, edits, origin, raced, pullsMet>>

-----------------------------------------------------------------------------
(* pullFromGitHub                                                          *)

PullStarts(q) ==
  /\ pull[q] = NoPull
  /\ pull' = [pull EXCEPT ![q] = [phase |-> "asked", now |-> time, since |-> lastSync, seen |-> {}]]
  /\ pullsMet' = (pullsMet \/ \E r \in Pullers : pull[r] # NoPull)
  /\ UNCHANGED <<time, mcTask, row, issue, pushes, lastSync, edits, orderly, origin, raced>>

Changed_After(n, since) == issue[n].exists /\ issue[n].updated > since
ChangedSince(n, since) == issue[n].exists /\ issue[n].updated >= since

(* GitHub's answer is what it has now; at most 100 issues change between   *)
(* two pulls.                                                              *)
GithubAnswers(q) ==
  /\ pull[q].phase = "asked"
  /\ pull' = [pull EXCEPT ![q].phase = "answered",
       ![q].seen = {[number |-> n, at |-> issue[n]] :
                     n \in {k \in Issues : ChangedSince(k, pull[q].since)}}]
  /\ UNCHANGED <<time, mcTask, row, issue, pushes, lastSync, edits, orderly, origin, raced, pullsMet>>

TasksOf_Unfinished(n) ==
  {t \in TaskIds : mcTask[t].exists /\ mcTask[t].number = n /\ mcTask[t].status # "done"}
TasksOf(n) == {t \in TaskIds : mcTask[t].exists /\ mcTask[t].number = n}

StatusOf(i, default) ==
  CASE i.closed -> "done"
    [] ~i.closed /\ i.label # "none" -> i.label
    [] OTHER -> default

(* Not just pushed, and newer than the task.                               *)
Overwrites_Older(t, i) == mcTask[t].synced = 0 \/ Abs(mcTask[t].synced, i.updated) >= Window
Overwrites(t, i) ==
  /\ mcTask[t].synced = 0 \/ Abs(mcTask[t].synced, i.updated) >= Window
  /\ i.updated > mcTask[t].updated

Unknown(q) == {s \in pull[q].seen : TasksOf(s.number) = {}}

(* The loop over the issues awaits nothing.                                *)
PullApplies(q) ==
  LET p == pull[q]
      Hit(t) == {s \in p.seen : t \in TasksOf(s.number) /\ Overwrites(t, s.at)}
  IN /\ p.phase = "answered"
     /\ \E new \in [Unknown(q) -> {t \in TaskIds : ~mcTask[t].exists}] :
          /\ \A s, u \in Unknown(q) : new[s] = new[u] => s = u
          /\ mcTask' = [t \in TaskIds |->
               IF \E s \in Unknown(q) : new[s] = t
               THEN LET s == CHOOSE s \in Unknown(q) : new[s] = t
                    IN [exists |-> TRUE, status |-> StatusOf(s.at, "inbox"), updated |-> p.now,
                        number |-> s.number, synced |-> p.now]
               ELSE IF Hit(t) # {}
               THEN LET s == CHOOSE s \in Hit(t) : TRUE
                    IN [mcTask[t] EXCEPT !.status = StatusOf(s.at, @), !.updated = p.now,
                                         !.synced = p.now]
               ELSE mcTask[t]]
     /\ raced' = raced \cup {s.number : s \in {s \in Unknown(q) :
                           \E r \in pushes : r.phase = "created" /\ r.number = s.number}}
     /\ origin' = [t \in TaskIds |-> IF mcTask'[t] = mcTask[t] THEN origin[t] ELSE "pulled"]
     /\ lastSync' = p.now
     /\ pull' = [pull EXCEPT ![q] = NoPull]
     /\ UNCHANGED <<time, row, issue, pushes, edits, orderly, pullsMet>>

(* A failed fetch, too, is recorded as a sync.                             *)
PullFails(q) ==
  /\ pull[q].phase = "asked"
  /\ lastSync' = pull[q].now
  /\ pull' = [pull EXCEPT ![q] = NoPull]
  /\ orderly' = FALSE
  /\ UNCHANGED <<time, mcTask, row, issue, pushes, edits, origin, raced, pullsMet>>

-----------------------------------------------------------------------------
(* People at GitHub.                                                       *)
EditIssue(n, closed, label) ==
  /\ issue[n].exists \/ NextIssue(n)
  /\ Edit("issues")
  /\ issue' = [issue EXCEPT ![n] =
       [exists |-> TRUE, closed |-> closed, label |-> label, updated |-> time, author |-> "person"]]
  /\ UNCHANGED <<time, mcTask, row, pushes, pull, lastSync, orderly, origin, raced, pullsMet>>

TimePasses ==
  /\ time < LastTime
  /\ time' = time + 1
  /\ UNCHANGED <<mcTask, row, issue, pushes, pull, lastSync, edits, orderly, origin, raced, pullsMet>>

GithubNext ==
  \/ \E t \in TaskIds : CreateMcTask(t) \/ DispatcherReads(t)
  \/ \E t \in TaskIds, status \in Statuses :
       \/ ApiWrites(t, status) \/ DispatcherWrites(t, status)
       \/ ReviewWrites(t, status) \/ OtherJobWrites(t, status)
  \/ \E p \in pushes :
       \/ GithubUpdates(p) \/ PushEnds(p) \/ PushFails(p)
       \/ \E n \in Issues : GithubCreates(p, n)
  \/ \E q \in Pullers : PullStarts(q) \/ GithubAnswers(q) \/ PullApplies(q) \/ PullFails(q)
  \/ \E n \in Issues, closed \in BOOLEAN : EditIssue(n, closed, IF closed THEN "none" ELSE "inbox")
  \/ TimePasses

GithubSpec == GithubInit /\ [][GithubNext]_githubVars

-----------------------------------------------------------------------------
(* An issue becomes one task, however the poller and the requests to sync  *)
(* overlap: unless it was pulled between its creation by a push and the    *)
(* answer that tells the task its number.                                  *)
OneTaskPerIssue == \A n \in Issues \ raced : Cardinality(TasksOf(n)) <= 1

(* The pull does not bring back what the push sent: as long as the pushes  *)
(* do not overtake each other and the last change was pushed, the task of  *)
(* an issue takes over what a person changed at GitHub and no older status *)
(* of its own.                                                             *)
Echoes(t) ==
  /\ mcTask[t].number \notin raced /\ mcTask'[t].status # mcTask[t].status
  /\ \E q \in Pullers :
       /\ pull[q].phase = "answered" /\ pull'[q] = NoPull
       /\ \E s \in pull[q].seen : s.number = mcTask[t].number /\ s.at.author = "push"
NoEcho == [][orderly => \A t \in TaskIds : origin[t] = "pushed" => ~Echoes(t)]_githubVars

(* Once all calls ended, a task and its issue agree if a pull that started *)
(* after the last change of the issue came through. Left out is what the   *)
(* code gives up: changes of the issue within 10 s of the last sync or    *)
(* change of the task, writes of the jobs that push nothing, failed and    *)
(* overlapping calls.                                                      *)
Settles(t, i) == StatusOf(i, mcTask[t].status) = mcTask[t].status
Agreement ==
  orderly /\ ~pullsMet /\ pushes = {} /\ (\A q \in Pullers : pull[q] = NoPull) =>
    \A t \in TaskIds : origin[t] # "silent" /\ mcTask[t].number \notin {0} \cup raced =>
      LET i == issue[mcTask[t].number]
      IN \/ Settles(t, i)
         \/ lastSync <= i.updated
         \/ \E at \in {mcTask[t].synced, mcTask[t].updated} : Abs(i.updated, at) < Window

=============================================================================
