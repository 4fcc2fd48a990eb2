--------------------------- MODULE GithubSyncProofs ---------------------------
(* Tasks and issues, for any tasks, issues, requests to sync and bounds:   *)
(* an issue becomes one task, and the pull brings no older status back.    *)
EXTENDS GithubSync, FiniteSetTheorems, TLAPS

(* What a call to pull holds, and of which issue a push may be.            *)
GithubShape ==
  /\ GithubTypeOK
  /\ pull \in [Pullers -> Pull]
  /\ \A p \in pushes : p.phase # "create" => p.number \in Issues

-----------------------------------------------------------------------------
(* One task per issue.                                                     *)

(* Who has a number has it of an issue that is there.                      *)
Numbered ==
  /\ \A t \in TaskIds : mcTask[t].number # 0 => mcTask[t].exists /\ issue[mcTask[t].number].exists
  /\ \A p \in pushes : mcTask[p.task].exists /\ (p.phase = "created" => issue[p.number].exists)
  /\ \A q \in Pullers : \A s \in pull[q].seen : issue[s.number].exists

(* An answer of GitHub names an issue once.                                *)
SeenOnce == \A q \in Pullers : \A s, u \in pull[q].seen : s.number = u.number => s = u

(* The issue a push created is of no other push, and of no task yet unless *)
(* it was pulled in between.                                               *)
CreatedApart ==
  /\ \A p, r \in pushes : p.phase = "created" /\ r.phase = "created" /\ p.number = r.number => p = r
  /\ \A p \in pushes : p.phase = "created" /\ p.number \notin raced => TasksOf(p.number) = {}

TasksApart == \A n \in Issues \ raced : \A t, u \in TasksOf(n) : t = u

Apartness == Numbered /\ SeenOnce /\ CreatedApart /\ TasksApart

IssueInv == GithubShape /\ Apartness

-----------------------------------------------------------------------------
(* What was pushed.                                                        *)

(* Nothing is dated later than now.                                        *)
Dated ==
  /\ \A n \in Issues : issue[n].updated <= time
  /\ \A q \in Pullers : \A s \in pull[q].seen : s.at.updated <= time

(* A version of an issue that a push wrote after the task's last change    *)
(* has the status of the task.                                             *)
Fits(m, i) == i.author = "push" /\ i.updated > m.updated => StatusOf(i, m.status) = m.status

PushedFit ==
  \A t \in TaskIds : origin[t] = "pushed" /\ mcTask[t].number \notin {0} \cup raced =>
    /\ Fits(mcTask[t], issue[mcTask[t].number])
    /\ \A q \in Pullers : \A s \in pull[q].seen : s.number = mcTask[t].number => Fits(mcTask[t], s.at)

(* The one push under way sends what its task last was given.              *)
OnePush == \A p, r \in pushes : p = r
InTurn ==
  \A p \in pushes :
    /\ origin[p.task] = "pushed" => mcTask[p.task].status = p.status
    /\ p.phase \in {"update", "updated"} => mcTask[p.task].number = p.number

(* A version of a created issue that no person changed.                    *)
AsCreated(p, i) == i.author = "push" => ~i.closed /\ i.label = p.status

CreatedFit ==
  \A p \in pushes : p.phase = "created" /\ p.number \notin raced =>
    /\ AsCreated(p, issue[p.number])
    /\ \A q \in Pullers : \A s \in pull[q].seen : s.number = p.number => AsCreated(p, s.at)

(* Ids that are not taken have the status a task is created with.          *)
Blank == \A t \in TaskIds : ~mcTask[t].exists => mcTask[t].status = "inbox"

InStep == OnePush /\ InTurn /\ PushedFit /\ CreatedFit

EchoInv == IssueInv /\ Dated /\ Blank /\ (orderly => InStep)

-----------------------------------------------------------------------------
(* What a task and its issue agree by, as long as pulls take turns.        *)

OneAtATime == \A q, r \in Pullers : pull[q].phase # "idle" /\ pull[r].phase # "idle" => q = r

(* No task, sync or pull is dated later than now.                          *)
Clocked ==
  /\ lastSync <= time
  /\ \A t \in TaskIds : mcTask[t].updated <= time /\ mcTask[t].synced <= time
  /\ \A q \in Pullers : pull[q].now <= time
  /\ \A p \in pushes : p.now <= time

(* A pull asks for what changed since the sync that is the latest still.   *)
SinceLast == \A q \in Pullers : pull[q].phase # "idle" => pull[q].since = lastSync

(* What a pull holds is current, or was changed after the pull started.    *)
SeenNow ==
  \A q \in Pullers, n \in Issues :
    pull[q].phase = "answered" /\ issue[n].exists /\ issue[n].updated < pull[q].now =>
      \/ [number |-> n, at |-> issue[n]] \in pull[q].seen
      \/ issue[n].updated < pull[q].since /\ \A s \in pull[q].seen : s.number # n

(* The issue a push created is newer than the last sync and than the task. *)
CreatedLate ==
  \A p \in pushes : p.phase = "created" /\ p.number \notin raced =>
    /\ lastSync <= issue[p.number].updated
    /\ origin[p.task] # "silent" => mcTask[p.task].updated <= issue[p.number].updated

(* The dates of a task that is being pushed.                               *)
PushDated ==
  \A p \in pushes :
    /\ origin[p.task] = "pushed" => mcTask[p.task].updated = p.now /\ mcTask[p.task].synced <= p.now
    /\ origin[p.task] = "pulled" => mcTask[p.task].synced = mcTask[p.task].updated

(* Unless its push has yet to do its part, a task agrees with its issue or *)
(* a pull to come takes the issue over, or both changed too close.         *)
Awaited(t) == \E p \in pushes : p.task = t /\ p.phase # "updated"
Near(m, i) == Abs(i.updated, m.synced) < Window \/ Abs(i.updated, m.updated) < Window
Agrees(m, i, last) ==
  \/ StatusOf(i, m.status) = m.status
  \/ m.updated <= i.updated /\ (last <= i.updated \/ Near(m, i))
Agreed ==
  \A t \in TaskIds :
    origin[t] # "silent" /\ mcTask[t].number \notin {0} \cup raced /\ ~Awaited(t) =>
      Agrees(mcTask[t], issue[mcTask[t].number], lastSync)

(* What is kept, or started again, while the pushes take turns.            *)
Settling == CreatedLate /\ PushDated /\ Agreed

AgreeInv ==
  /\ EchoInv /\ Clocked /\ SeenNow
  /\ ~pullsMet => OneAtATime /\ SinceLast
  /\ orderly /\ ~pullsMet => Settling

-----------------------------------------------------------------------------
(* What the steps do to one task and one push.                             *)

(* A write of a task leaves its number and every other task alone.         *)
Written(t, status) ==
  /\ mcTask' \in [TaskIds -> McTask]
  /\ \A u \in TaskIds : u # t => mcTask'[u] = mcTask[u]
  /\ mcTask'[t].exists /\ mcTask'[t].status = status /\ mcTask'[t].updated = time
  /\ mcTask'[t].number = mcTask[t].number /\ mcTask'[t].synced = mcTask[t].synced

LEMMA TaskWritten ==
  ASSUME GithubShape, NEW t \in TaskIds, NEW status \in Statuses, WriteTask(t, status)
  PROVE Written(t, status)
  BY DEF GithubShape, GithubTypeOK, McTask, Written, WriteTask

LEMMA TaskCreated ==
  ASSUME GithubShape, NEW t \in TaskIds, CreateMcTask(t)
  PROVE Written(t, mcTask[t].status)
  BY DEF GithubShape, GithubTypeOK, McTask, Written, CreateMcTask

(* A push that starts has created nothing yet.                             *)
Started(t, status, number) ==
  \E p \in Push :
    /\ pushes' = pushes \cup {p}
    /\ p.task = t /\ p.status = status /\ p.number = number /\ p.phase \in {"create", "update"}
    /\ p.phase # "create" => p.number \in Issues
    /\ p.now = time

LEMMA PushStarted ==
  ASSUME GithubShape, NEW t \in TaskIds, NEW status \in Statuses, NEW number \in Numbers,
         NEW inTurn \in BOOLEAN, StartPush(t, status, number, inTurn)
  PROVE /\ Started(t, status, number)
        /\ origin' = [origin EXCEPT ![t] = "pushed"] /\ orderly' \in BOOLEAN
        /\ orderly' => orderly /\ inTurn /\ pushes = {}
  <1> DEFINE p == [task |-> t, status |-> status, number |-> number, now |-> time,
                   phase |-> IF number = 0 THEN "create" ELSE "update"]
  <1>1. p \in Push /\ (p.phase # "create" => p.number \in Issues)
    BY DEF Push, Numbers, GithubShape, GithubTypeOK
  <1>2. pushes' = pushes \cup {p}
    BY DEF StartPush
  <1>3. Started(t, status, number)
    BY <1>1, <1>2 DEF Started
  <1> QED BY <1>3 DEF StartPush, GithubShape, GithubTypeOK

(* A push that was answered tells its task the number of a new issue.      *)
LEMMA PushEnded ==
  ASSUME GithubShape, NEW p \in pushes, PushEnds(p)
  PROVE /\ mcTask' \in [TaskIds -> McTask]
        /\ \A u \in TaskIds : u # p.task => mcTask'[u] = mcTask[u]
        /\ mcTask'[p.task].exists = mcTask[p.task].exists
        /\ mcTask'[p.task].status = mcTask[p.task].status
        /\ mcTask'[p.task].updated = mcTask[p.task].updated
        /\ mcTask'[p.task].number = IF p.phase = "created" THEN p.number ELSE mcTask[p.task].number
        /\ mcTask'[p.task].synced = p.now
  <1>1. p \in Push
    BY DEF GithubShape, GithubTypeOK
  <1>2. p.task \in TaskIds /\ p.number \in Numbers /\ p.now \in Times
    BY <1>1 DEF Push
  <1> DEFINE number == IF p.phase = "created" THEN p.number ELSE mcTask[p.task].number
             written == [mcTask[p.task] EXCEPT !.number = number, !.synced = p.now]
  <1>3. mcTask[p.task] \in McTask
    BY <1>2 DEF GithubShape, GithubTypeOK
  <1>4. number \in Numbers
    BY <1>2, <1>3 DEF McTask
  <1>5. written \in McTask /\ written.number = number /\ written.exists = mcTask[p.task].exists
        /\ written.status = mcTask[p.task].status /\ written.updated = mcTask[p.task].updated
        /\ written.synced = p.now
    <2> HIDE DEF number
    <2> QED BY <1>2, <1>3, <1>4 DEF McTask
  <1>6. mcTask' = [mcTask EXCEPT ![p.task] = written]
    BY <1>2, <1>3 DEF PushEnds, McTask, GithubShape, GithubTypeOK
  <1> HIDE DEF written
  <1> QED BY <1>2, <1>5, <1>6 DEF GithubShape, GithubTypeOK

(* What a step of a push makes of it.                                      *)
LEMMA PushUpdated ==
  ASSUME GithubShape, NEW p \in pushes, GithubUpdates(p)
  PROVE \E r \in Push :
    /\ pushes' = (pushes \ {p}) \cup {r}
    /\ r.phase = "updated" /\ r.task = p.task /\ r.status = p.status /\ r.number = p.number
    /\ r.number \in Issues /\ r.now = p.now
  <1> DEFINE r == [p EXCEPT !.phase = "updated"]
  <1>1. p \in Push /\ p.number \in Issues
    BY DEF GithubShape, GithubTypeOK, GithubUpdates
  <1>2. /\ r \in Push /\ r.phase = "updated" /\ r.task = p.task /\ r.status = p.status
        /\ r.number = p.number /\ r.now = p.now
    BY <1>1 DEF Push
  <1>3. pushes' = (pushes \ {p}) \cup {r}
    BY DEF GithubUpdates, MovePush
  <1> QED BY <1>1, <1>2, <1>3

LEMMA PushCreated ==
  ASSUME GithubShape, NEW p \in pushes, NEW n \in Issues, GithubCreates(p, n)
  PROVE \E r \in Push :
    /\ pushes' = (pushes \ {p}) \cup {r}
    /\ r.phase = "created" /\ r.task = p.task /\ r.status = p.status /\ r.number = n /\ r.now = p.now
  <1> DEFINE r == [p EXCEPT !.phase = "created", !.number = n]
  <1>1. p \in Push
    BY DEF GithubShape, GithubTypeOK
  <1>2. /\ r \in Push /\ r.phase = "created" /\ r.task = p.task /\ r.status = p.status
        /\ r.number = n /\ r.now = p.now
    BY <1>1 DEF Push, Numbers
  <1>3. pushes' = (pushes \ {p}) \cup {r}
    BY DEF GithubCreates, MovePush
  <1> QED BY <1>2, <1>3

(* An answer of GitHub is of issues as they are.                           *)
LEMMA Answered ==
  ASSUME GithubShape, NEW q \in Pullers, GithubAnswers(q)
  PROVE /\ pull' \in [Pullers -> Pull]
        /\ \A r \in Pullers : r # q => pull'[r] = pull[r]
        /\ \A s \in pull'[q].seen :
             s.number \in Issues /\ issue[s.number].exists /\ s = [number |-> s.number, at |-> issue[s.number]]
        /\ \A n \in Issues :
             \/ [number |-> n, at |-> issue[n]] \in pull'[q].seen
             \/ ~ChangedSince(n, pull[q].since) /\ \A s \in pull'[q].seen : s.number # n
        /\ pull'[q].now = pull[q].now /\ pull'[q].since = pull[q].since /\ pull[q].phase = "asked"
  <1> DEFINE seen == {[number |-> n, at |-> issue[n]] : n \in {k \in Issues : ChangedSince(k, pull[q].since)}}
  <1>1. pull' = [pull EXCEPT ![q].phase = "answered", ![q].seen = seen]
    BY DEF GithubAnswers
  <1>2. \A s \in seen :
          s.number \in Issues /\ issue[s.number].exists /\ s = [number |-> s.number, at |-> issue[s.number]]
    BY DEF ChangedSince
  <1>3. \A n \in Issues :
          \/ [number |-> n, at |-> issue[n]] \in seen
          \/ ~ChangedSince(n, pull[q].since) /\ \A s \in seen : s.number # n
    OBVIOUS
  <1>4. seen \in SUBSET [number : Issues, at : Issue]
    BY DEF GithubShape, GithubTypeOK
  <1> HIDE DEF seen
  <1>5. pull[q] \in Pull
    BY DEF GithubShape
  <1>6. [pull[q] EXCEPT !.phase = "answered", !.seen = seen] \in Pull
    BY <1>4, <1>5 DEF Pull
  <1>7. pull' = [pull EXCEPT ![q] = [pull[q] EXCEPT !.phase = "answered", !.seen = seen]]
    BY <1>1, <1>5 DEF GithubShape, Pull
  <1>8. pull'[q].seen = seen /\ pull'[q].now = pull[q].now /\ pull'[q].since = pull[q].since
    BY <1>5, <1>7 DEF GithubShape, Pull
  <1>9. pull[q].phase = "asked"
    BY DEF GithubAnswers
  <1> QED BY <1>2, <1>3, <1>6, <1>7, <1>8, <1>9 DEF GithubShape

(* A status taken from an issue is one.                                    *)
LEMMA StatusTaken ==
  ASSUME NEW i \in Issue, NEW default \in Statuses
  PROVE StatusOf(i, default) \in Statuses
  BY GithubAssumption DEF StatusOf, Issue

(* A pull makes tasks of unknown issues, and overwrites tasks of others.   *)
NewTask(t, s, now) ==
  /\ mcTask'[t].exists /\ mcTask'[t].number = s.number /\ mcTask'[t].status = StatusOf(s.at, "inbox")
  /\ mcTask'[t].updated = now /\ mcTask'[t].synced = now
Overwritten(t, s, now) ==
  /\ mcTask[t].exists /\ s.number = mcTask[t].number /\ s.at.updated > mcTask[t].updated
  /\ mcTask'[t].exists /\ mcTask'[t].number = mcTask[t].number
  /\ mcTask'[t].status = StatusOf(s.at, mcTask[t].status)
  /\ mcTask'[t].updated = now /\ mcTask'[t].synced = now

LEMMA Pulled ==
  ASSUME GithubShape, NEW q \in Pullers, PullApplies(q)
  PROVE /\ mcTask' \in [TaskIds -> McTask]
        /\ \E new \in [Unknown(q) -> {t \in TaskIds : ~mcTask[t].exists}] :
             \A t \in TaskIds :
               \/ \E s \in Unknown(q) : t = new[s] /\ NewTask(t, s, pull[q].now)
               \/ \E s \in pull[q].seen : Overwritten(t, s, pull[q].now)
               \/ /\ mcTask'[t] = mcTask[t]
                  /\ \A s \in pull[q].seen : t \in TasksOf(s.number) => ~Overwrites(t, s.at)
  <1> DEFINE p == pull[q]
             Hit(t) == {s \in p.seen : t \in TasksOf(s.number) /\ Overwrites(t, s.at)}
             Made(new, t) == \E s \in Unknown(q) : new[s] = t
             Of(new, t) == CHOOSE s \in Unknown(q) : new[s] = t
             Fresh(s) == [exists |-> TRUE, status |-> StatusOf(s.at, "inbox"), updated |-> p.now,
                          number |-> s.number, synced |-> p.now]
             Best(t) == CHOOSE s \in Hit(t) : TRUE
             Taken(t, s) == [mcTask[t] EXCEPT !.status = StatusOf(s.at, @), !.updated = p.now,
                                              !.synced = p.now]
  <1>1. PICK new \in [Unknown(q) -> {t \in TaskIds : ~mcTask[t].exists}] :
          mcTask' = [t \in TaskIds |-> IF Made(new, t) THEN Fresh(Of(new, t))
                                       ELSE IF Hit(t) # {} THEN Taken(t, Best(t)) ELSE mcTask[t]]
    BY DEF PullApplies
  <1>2. p.now \in Times /\ p.seen \subseteq [number : Issues, at : Issue]
    BY DEF GithubShape, Pull
  <1>3. ASSUME NEW t \in TaskIds, Made(new, t)
        PROVE Of(new, t) \in Unknown(q) /\ new[Of(new, t)] = t
    BY <1>3
  <1>4. ASSUME NEW t \in TaskIds, Hit(t) # {}
        PROVE Best(t) \in Hit(t)
    BY <1>4
  <1>5. ASSUME NEW s \in p.seen
        PROVE /\ Fresh(s) \in McTask /\ Fresh(s).exists /\ Fresh(s).number = s.number
              /\ Fresh(s).status = StatusOf(s.at, "inbox") /\ Fresh(s).updated = p.now
              /\ Fresh(s).synced = p.now
    <2>1. s.at \in Issue /\ s.number \in Numbers
      BY <1>2, <1>5 DEF Numbers
    <2>2. StatusOf(s.at, "inbox") \in Statuses
      BY <2>1, StatusTaken, GithubAssumption
    <2> QED BY <1>2, <2>1, <2>2 DEF McTask
  <1>6. ASSUME NEW t \in TaskIds, NEW s \in Hit(t)
        PROVE /\ Taken(t, s) \in McTask /\ mcTask[t].exists /\ Taken(t, s).exists
              /\ s \in pull[q].seen /\ s.number = mcTask[t].number /\ s.at.updated > mcTask[t].updated
              /\ Taken(t, s).number = mcTask[t].number
              /\ Taken(t, s).status = StatusOf(s.at, mcTask[t].status)
              /\ Taken(t, s).updated = p.now /\ Taken(t, s).synced = p.now
    <2>1. mcTask[t] \in McTask /\ s.at \in Issue
      BY <1>2, <1>6 DEF GithubShape, GithubTypeOK
    <2>2. StatusOf(s.at, mcTask[t].status) \in Statuses
      BY <2>1, StatusTaken DEF McTask
    <2> QED BY <1>2, <1>6, <2>1, <2>2 DEF McTask, TasksOf, Overwrites
  <1>7. Unknown(q) \subseteq p.seen
    BY DEF Unknown
  <1>8. \A t \in TaskIds : mcTask[t] \in McTask
    BY DEF GithubShape, GithubTypeOK
  <1> HIDE DEF Made, Of, Hit, Best, Fresh, Taken
  <1>9. mcTask' \in [TaskIds -> McTask]
    BY <1>1, <1>3, <1>4, <1>5, <1>6, <1>7, <1>8
  <1>10. ASSUME NEW t \in TaskIds
         PROVE \/ \E s \in Unknown(q) : t = new[s] /\ NewTask(t, s, pull[q].now)
               \/ \E s \in pull[q].seen : Overwritten(t, s, pull[q].now)
               \/ /\ mcTask'[t] = mcTask[t]
                  /\ \A s \in pull[q].seen : t \in TasksOf(s.number) => ~Overwrites(t, s.at)
    <2>1. CASE Made(new, t)
      <3>1. mcTask'[t] = Fresh(Of(new, t))
        BY <1>1, <2>1
      <3> QED BY <1>3, <1>5, <1>7, <2>1, <3>1 DEF NewTask
    <2>2. CASE ~Made(new, t) /\ Hit(t) # {}
      <3>1. mcTask'[t] = Taken(t, Best(t))
        BY <1>1, <2>2
      <3> QED BY <1>4, <1>6, <2>2, <3>1 DEF Overwritten
    <2>3. CASE ~Made(new, t) /\ Hit(t) = {}
      <3>1. \A s \in p.seen : t \in TasksOf(s.number) => ~Overwrites(t, s.at)
        BY <2>3 DEF Hit
      <3> QED BY <1>1, <2>3, <3>1
    <2> QED BY <2>1, <2>2, <2>3
  <1> QED BY <1>9, <1>10

-----------------------------------------------------------------------------
(* Well-formed states.                                                     *)

LEMMA ShapeStarts == GithubInit => GithubShape
  <1> SUFFICES ASSUME GithubInit PROVE GithubShape
    OBVIOUS
  <1>1. 0 \in Times /\ 1 \in Times
    BY GithubAssumption DEF Times
  <1>2. mcTask \in [TaskIds -> McTask]
    BY <1>1, GithubAssumption DEF GithubInit, McTask, Numbers
  <1>3. issue \in [Issues -> Issue] /\ pull \in [Pullers -> Pull]
    BY <1>1 DEF GithubInit, Issue, Pull, NoPull
  <1> QED BY <1>1, <1>2, <1>3 DEF GithubInit, GithubShape, GithubTypeOK, NoPull

(* The counts of changes go up, and a new push is well formed.             *)
LEMMA Edited ==
  ASSUME GithubShape, NEW kind \in {"tasks", "issues"}, Edit(kind)
  PROVE edits' \in [{"tasks", "issues"} -> Nat]
  BY DEF GithubShape, GithubTypeOK, Edit

LEMMA ShapeStarted ==
  ASSUME GithubShape, NEW t \in TaskIds, NEW status \in Statuses, NEW number \in Numbers,
         NEW inTurn \in BOOLEAN, StartPush(t, status, number, inTurn)
  PROVE /\ pushes' \subseteq Push /\ (\A p \in pushes' : p.phase # "create" => p.number \in Issues)
        /\ orderly' \in BOOLEAN /\ origin' \in [TaskIds -> {"pushed", "pulled", "silent"}]
  BY PushStarted DEF Started, GithubShape, GithubTypeOK

LEMMA PullReset ==
  ASSUME GithubShape, NEW q \in Pullers
  PROVE /\ NoPull \in Pull /\ [pull EXCEPT ![q] = NoPull] \in [Pullers -> Pull]
        /\ pull[q].now \in Times /\ \A s \in pull[q].seen : s.number \in Issues /\ s.at \in Issue
  <1>1. NoPull \in Pull
    BY GithubAssumption DEF NoPull, Pull, Times
  <1>2. pull[q] \in Pull
    BY DEF GithubShape
  <1>3. pull[q].now \in Times /\ pull[q].seen \subseteq [number : Issues, at : Issue]
    BY <1>2 DEF Pull
  <1> QED BY <1>1, <1>3 DEF GithubShape

LEMMA ShapeStays == GithubShape /\ [GithubNext]_githubVars => GithubShape'
  <1> SUFFICES ASSUME GithubShape, [GithubNext]_githubVars PROVE GithubShape'
    OBVIOUS
  <1>1. ASSUME UNCHANGED githubVars PROVE GithubShape'
    BY <1>1 DEF githubVars, GithubShape, GithubTypeOK
  <1>2. ASSUME NEW t \in TaskIds, CreateMcTask(t) PROVE GithubShape'
    <2>1. mcTask' \in [TaskIds -> McTask]
      BY <1>2, TaskCreated DEF Written
    <2>2. edits' \in [{"tasks", "issues"} -> Nat]
      BY <1>2, Edited DEF CreateMcTask
    <2> QED BY <1>2, <2>1, <2>2, ShapeStarted, GithubAssumption
         DEF GithubShape, GithubTypeOK, CreateMcTask, Numbers
  <1>3. ASSUME NEW t \in TaskIds, DispatcherReads(t) PROVE GithubShape'
    BY <1>3 DEF DispatcherReads, GithubShape, GithubTypeOK, McTask
  <1>4. ASSUME NEW t \in TaskIds, NEW status \in Statuses, WriteTask(t, status)
        PROVE /\ mcTask' \in [TaskIds -> McTask] /\ edits' \in [{"tasks", "issues"} -> Nat]
              /\ time' \in Times /\ issue' \in [Issues -> Issue] /\ lastSync' \in Times
              /\ pull' = pull /\ raced' \subseteq Issues /\ pullsMet' \in BOOLEAN
    BY <1>4, TaskWritten, Edited DEF Written, WriteTask, GithubShape, GithubTypeOK
  <1>5. ASSUME NEW t \in TaskIds, NEW status \in Statuses, ApiWrites(t, status) PROVE GithubShape'
    <2>1. mcTask[t].number \in Numbers
      BY DEF GithubShape, GithubTypeOK, McTask
    <2> QED BY <1>4, <1>5, <2>1, ShapeStarted DEF ApiWrites, GithubShape, GithubTypeOK
  <1>6. ASSUME NEW t \in TaskIds, NEW status \in Statuses, DispatcherWrites(t, status) PROVE GithubShape'
    <2>1. row[t] \subseteq Numbers /\ row' \in [TaskIds -> SUBSET Numbers]
      BY <1>6 DEF DispatcherWrites, GithubShape, GithubTypeOK
    <2>2. PICK number \in row[t] : StartPush(t, status, number, number = mcTask[t].number)
      BY <1>6 DEF DispatcherWrites
    <2>3. /\ pushes' \subseteq Push /\ (\A p \in pushes' : p.phase # "create" => p.number \in Issues)
          /\ orderly' \in BOOLEAN /\ origin' \in [TaskIds -> {"pushed", "pulled", "silent"}]
      <3> DEFINE inTurn == number = mcTask[t].number
      <3>1. StartPush(t, status, number, inTurn) /\ inTurn \in BOOLEAN /\ number \in Numbers
        BY <2>1, <2>2
      <3> HIDE DEF inTurn
      <3> QED BY <3>1, ShapeStarted
    <2> QED BY <1>4, <1>6, <2>1, <2>3 DEF DispatcherWrites, GithubShape, GithubTypeOK
  <1>7. ASSUME NEW t \in TaskIds, NEW status \in Statuses, ReviewWrites(t, status) PROVE GithubShape'
    BY <1>4, <1>7, ShapeStarted DEF ReviewWrites, GithubShape, GithubTypeOK, Numbers
  <1>8. ASSUME NEW t \in TaskIds, NEW status \in Statuses, OtherJobWrites(t, status) PROVE GithubShape'
    BY <1>4, <1>8 DEF OtherJobWrites, GithubShape, GithubTypeOK
  <1>9. ASSUME NEW p \in pushes, GithubUpdates(p) PROVE GithubShape'
    <2>1. p \in Push
      BY DEF GithubShape, GithubTypeOK
    <2>2. issue' \in [Issues -> Issue]
      BY <1>9, <2>1 DEF GithubUpdates, GithubShape, GithubTypeOK, Issue, Push
    <2>3. pushes' \subseteq Push /\ \A r \in pushes' : r.phase # "create" => r.number \in Issues
      BY <1>9, PushUpdated DEF GithubShape, GithubTypeOK
    <2> QED BY <1>9, <2>2, <2>3 DEF GithubUpdates, GithubShape, GithubTypeOK
  <1>10. ASSUME NEW p \in pushes, NEW n \in Issues, GithubCreates(p, n) PROVE GithubShape'
    <2>1. p \in Push
      BY DEF GithubShape, GithubTypeOK
    <2>2. issue' \in [Issues -> Issue]
      BY <1>10, <2>1 DEF GithubCreates, GithubShape, GithubTypeOK, Issue, Push
    <2>3. pushes' \subseteq Push /\ \A r \in pushes' : r.phase # "create" => r.number \in Issues
      BY <1>10, PushCreated DEF GithubShape, GithubTypeOK
    <2> QED BY <1>10, <2>2, <2>3 DEF GithubCreates, GithubShape, GithubTypeOK
  <1>11. ASSUME NEW p \in pushes, PushEnds(p) PROVE GithubShape'
    <2>1. mcTask' \in [TaskIds -> McTask]
      BY <1>11, PushEnded
    <2> QED BY <1>11, <2>1 DEF PushEnds, GithubShape, GithubTypeOK
  <1>12. ASSUME NEW p \in pushes, PushFails(p) PROVE GithubShape'
    BY <1>12 DEF PushFails, GithubShape, GithubTypeOK
  <1>13. ASSUME NEW q \in Pullers, PullStarts(q) PROVE GithubShape'
    BY <1>13 DEF PullStarts, GithubShape, GithubTypeOK, Pull
  <1>14. ASSUME NEW q \in Pullers, GithubAnswers(q) PROVE GithubShape'
    <2>1. pull' \in [Pullers -> Pull]
      BY <1>14, Answered
    <2> QED BY <1>14, <2>1 DEF GithubAnswers, GithubShape, GithubTypeOK, Pull
  <1>15. ASSUME NEW q \in Pullers, PullApplies(q) PROVE GithubShape'
    <2>1. mcTask' \in [TaskIds -> McTask]
      BY <1>15, Pulled
    <2>2. pull' \in [Pullers -> Pull] /\ lastSync' \in Times
      BY <1>15, PullReset DEF PullApplies, GithubShape
    <2>3. raced' \subseteq Issues
      <3>1. \A s \in Unknown(q) : s.number \in Issues
        BY PullReset DEF Unknown
      <3>2. raced \subseteq Issues
        BY DEF GithubShape, GithubTypeOK
      <3> DEFINE met == {s \in Unknown(q) : \E r \in pushes : r.phase = "created" /\ r.number = s.number}
      <3>3. raced' = raced \cup {s.number : s \in met}
        BY <1>15 DEF PullApplies
      <3>4. \A s \in met : s.number \in Issues
        BY <3>1
      <3> HIDE DEF met
      <3>5. {s.number : s \in met} \subseteq Issues
        BY <3>4
      <3> QED BY <3>2, <3>3, <3>5
    <2>4. origin' \in [TaskIds -> {"pushed", "pulled", "silent"}]
      BY <1>15 DEF PullApplies, GithubShape, GithubTypeOK
    <2> QED BY <1>15, <2>1, <2>2, <2>3, <2>4 DEF PullApplies, GithubShape, GithubTypeOK, Pull
  <1>16. ASSUME NEW q \in Pullers, PullFails(q) PROVE GithubShape'
    <2>1. pull' \in [Pullers -> Pull] /\ lastSync' \in Times
      BY <1>16, PullReset DEF PullFails, GithubShape
    <2> QED BY <1>16, <2>1 DEF PullFails, GithubShape, GithubTypeOK, Pull
  <1>17. ASSUME NEW n \in Issues, NEW closed \in BOOLEAN,
                EditIssue(n, closed, IF closed THEN "none" ELSE "inbox")
         PROVE GithubShape'
    <2>1. issue' \in [Issues -> Issue]
      BY <1>17, GithubAssumption DEF EditIssue, GithubShape, GithubTypeOK, Issue
    <2>2. edits' \in [{"tasks", "issues"} -> Nat]
      BY <1>17, Edited DEF EditIssue
    <2> QED BY <1>17, <2>1, <2>2 DEF EditIssue, GithubShape, GithubTypeOK
  <1>18. ASSUME TimePasses PROVE GithubShape'
    <2>1. time' \in Times
      BY <1>18, GithubAssumption DEF TimePasses, Times, GithubShape, GithubTypeOK
    <2> QED BY <1>18, <2>1 DEF TimePasses, GithubShape, GithubTypeOK
  <1> QED BY <1>1, <1>2, <1>3, <1>5, <1>6, <1>7, <1>8, <1>9, <1>10, <1>11, <1>12, <1>13, <1>14,
             <1>15, <1>16, <1>17, <1>18 DEF GithubNext

-----------------------------------------------------------------------------
(* An issue becomes one task.                                              *)

(* Rows, issues and answers are records of those shapes.                   *)
LEMMA Shapes ==
  ASSUME GithubShape
  PROVE /\ \A t \in TaskIds : mcTask[t] \in McTask /\ mcTask[t].number \in Numbers
        /\ \A n \in Issues : issue[n] \in Issue /\ n # 0
        /\ \A p \in pushes : p.task \in TaskIds /\ p.number \in Numbers
        /\ \A q \in Pullers : \A s \in pull[q].seen : s.number \in Issues /\ s.at \in Issue
        /\ 0 \notin Issues
  <1>1. \A p \in pushes : p \in Push
    BY DEF GithubShape, GithubTypeOK
  <1>2. \A t \in TaskIds : mcTask[t] \in McTask
    BY DEF GithubShape, GithubTypeOK
  <1> QED BY <1>1, <1>2, PullReset, GithubAssumption DEF Push, McTask, GithubShape, GithubTypeOK

(* Who is of an issue changes by numbers only.                             *)
LEMMA SameTasks ==
  ASSUME GithubShape, Numbered,
         \A t \in TaskIds : mcTask'[t].number = mcTask[t].number /\ (mcTask[t].exists => mcTask'[t].exists)
  PROVE \A n \in Issues : TasksOf(n)' = TasksOf(n)
  BY Shapes DEF Numbered, TasksOf

LEMMA WriteApart ==
  ASSUME GithubShape, Apartness, NEW t \in TaskIds, NEW status, Written(t, status),
         \/ pushes' = pushes
         \/ \E p \in Push : pushes' = pushes \cup {p} /\ p.task = t /\ p.phase # "created",
         UNCHANGED <<issue, pull, raced>>
  PROVE Apartness'
  <1>1. \A u \in TaskIds : mcTask'[u].number = mcTask[u].number /\ (mcTask[u].exists => mcTask'[u].exists)
    BY DEF Written
  <1>2. \A n \in Issues : TasksOf(n)' = TasksOf(n)
    BY <1>1, SameTasks DEF Apartness
  <1>3. Numbered'
    BY <1>1, Shapes DEF Apartness, Numbered, Written
  <1>4. SeenOnce'
    BY DEF Apartness, SeenOnce
  <1>5. \A p \in pushes' : p.phase = "created" => p \in pushes
    OBVIOUS
  <1>6. CreatedApart'
    BY <1>2, <1>5 DEF Apartness, CreatedApart, GithubShape
  <1>7. TasksApart'
    BY <1>2 DEF Apartness, TasksApart
  <1> QED BY <1>3, <1>4, <1>6, <1>7 DEF Apartness

LEMMA UpdateApart ==
  ASSUME GithubShape, Apartness, NEW p \in pushes, GithubUpdates(p)
  PROVE Apartness'
  <1>1. PICK r \in Push :
          pushes' = (pushes \ {p}) \cup {r} /\ r.phase = "updated" /\ r.task = p.task
    BY PushUpdated
  <1>2. \A n \in Issues : issue[n].exists => issue'[n].exists
    BY Shapes DEF GithubUpdates, GithubShape, GithubTypeOK
  <1>3. UNCHANGED <<mcTask, pull, raced>>
    BY DEF GithubUpdates
  <1>4. Numbered'
    BY <1>1, <1>2, <1>3, Shapes DEF Apartness, Numbered, GithubShape, Numbers
  <1>5. CreatedApart'
    BY <1>1, <1>3 DEF Apartness, CreatedApart, TasksOf
  <1> QED BY <1>3, <1>4, <1>5 DEF Apartness, SeenOnce, TasksApart, TasksOf

LEMMA CreateApart ==
  ASSUME GithubShape, Apartness, NEW p \in pushes, NEW n \in Issues, GithubCreates(p, n)
  PROVE Apartness'
  <1>1. PICK r \in Push :
          pushes' = (pushes \ {p}) \cup {r} /\ r.phase = "created" /\ r.task = p.task /\ r.number = n
    BY PushCreated
  <1>2. \A k \in Issues : issue[k].exists => issue'[k].exists
    BY DEF GithubCreates, GithubShape, GithubTypeOK
  <1>3. UNCHANGED <<mcTask, pull, raced>> /\ ~issue[n].exists /\ issue'[n].exists
    BY DEF GithubCreates, NextIssue, GithubShape, GithubTypeOK
  <1>4. Numbered'
    BY <1>1, <1>2, <1>3, Shapes DEF Apartness, Numbered, GithubShape, Numbers
  <1>5. TasksOf(n) = {} /\ \A s \in pushes : s.phase = "created" => s.number # n
    BY <1>3, Shapes DEF Apartness, Numbered, TasksOf
  <1>6. CreatedApart'
    BY <1>1, <1>3, <1>5 DEF Apartness, CreatedApart, TasksOf
  <1> QED BY <1>3, <1>4, <1>6 DEF Apartness, SeenOnce, TasksApart, TasksOf

LEMMA EndApart ==
  ASSUME GithubShape, Apartness, NEW p \in pushes, PushEnds(p)
  PROVE Apartness'
  <1>1. p.phase \in {"updated", "created"} /\ pushes' = pushes \ {p} /\ UNCHANGED <<issue, pull, raced>>
    BY DEF PushEnds
  <1>2. /\ \A u \in TaskIds : u # p.task => mcTask'[u] = mcTask[u]
        /\ mcTask'[p.task].exists = mcTask[p.task].exists
        /\ mcTask'[p.task].number = IF p.phase = "created" THEN p.number ELSE mcTask[p.task].number
    BY PushEnded
  <1>3. p.phase = "created" => p.number \in Issues
    BY DEF GithubShape
  <1>4. \A t \in TaskIds : mcTask'[t].exists = mcTask[t].exists
    BY <1>2
  <1>5. Numbered'
    BY <1>1, <1>2, <1>3, <1>4, Shapes DEF Apartness, Numbered
  <1>6. \A n \in Issues : (p.phase = "created" /\ n = p.number) \/ TasksOf(n)' \subseteq TasksOf(n)
    BY <1>2, <1>4, Shapes DEF TasksOf
  <1>7. p.phase = "created" /\ p.number \notin raced => TasksOf(p.number)' \subseteq {p.task}
    BY <1>2, <1>3, <1>4, Shapes DEF TasksOf, Apartness, CreatedApart
  <1>8. CreatedApart'
    BY <1>1, <1>6 DEF Apartness, CreatedApart, GithubShape
  <1>9. TasksApart'
    BY <1>1, <1>6, <1>7 DEF Apartness, TasksApart
  <1> QED BY <1>1, <1>5, <1>8, <1>9 DEF Apartness, SeenOnce

LEMMA AnswerApart ==
  ASSUME GithubShape, Apartness, NEW q \in Pullers, GithubAnswers(q)
  PROVE Apartness'
  <1>1. UNCHANGED <<mcTask, issue, pushes, raced>>
    BY DEF GithubAnswers
  <1>2. Numbered'
    BY <1>1, Answered DEF Apartness, Numbered
  <1>3. SeenOnce'
    BY <1>1, Answered DEF Apartness, SeenOnce
  <1> QED BY <1>1, <1>2, <1>3 DEF Apartness, CreatedApart, TasksApart, TasksOf

(* What no pull, task or issue gains keeps them apart.                     *)
LEMMA LessApart ==
  ASSUME GithubShape, Apartness, UNCHANGED <<mcTask, raced>>, pushes' \subseteq pushes,
         \A n \in Issues : issue[n].exists => issue'[n].exists,
         \A q \in Pullers : pull'[q].seen \subseteq pull[q].seen
  PROVE Apartness'
  <1>1. Numbered'
    BY Shapes DEF Apartness, Numbered, GithubShape, Numbers
  <1>2. SeenOnce'
    BY DEF Apartness, SeenOnce
  <1> QED BY <1>1, <1>2 DEF Apartness, CreatedApart, TasksApart, TasksOf

(* A pull makes one task of an issue it finds unknown.                     *)
LEMMA PullApart ==
  ASSUME GithubShape, Apartness, NEW q \in Pullers, PullApplies(q)
  PROVE Apartness'
  <1>1. PICK new \in [Unknown(q) -> {t \in TaskIds : ~mcTask[t].exists}] :
          \A t \in TaskIds :
            \/ \E s \in Unknown(q) : t = new[s] /\ NewTask(t, s, pull[q].now)
            \/ \E s \in pull[q].seen : Overwritten(t, s, pull[q].now)
            \/ mcTask'[t] = mcTask[t]
    BY Pulled
  <1>2. UNCHANGED <<issue, pushes>> /\ raced \subseteq raced'
    BY DEF PullApplies
  <1>3. \A r \in Pullers : pull'[r].seen \subseteq pull[r].seen
    BY DEF PullApplies, NoPull, GithubShape
  <1>4. \A s \in Unknown(q) : s \in pull[q].seen /\ s.number \in Issues /\ TasksOf(s.number) = {}
    BY Shapes DEF Unknown
  <1>5. ASSUME NEW t \in TaskIds
        PROVE \/ mcTask'[t].number = mcTask[t].number /\ (mcTask'[t].exists <=> mcTask[t].exists)
              \/ \E s \in Unknown(q) : t = new[s] /\ NewTask(t, s, pull[q].now)
    BY <1>1 DEF Overwritten
  <1>6. \A t \in TaskIds : mcTask[t].exists => mcTask'[t].exists
    BY <1>5 DEF NewTask
  <1>7. Numbered'
    <2>1. \A t \in TaskIds : mcTask'[t].number # 0 => mcTask'[t].exists /\ issue'[mcTask'[t].number].exists
      BY <1>2, <1>4, <1>5 DEF Apartness, Numbered, NewTask
    <2> QED BY <1>2, <1>3, <1>6, <2>1, Shapes DEF Apartness, Numbered, GithubShape
  <1>8. SeenOnce'
    BY <1>3 DEF Apartness, SeenOnce
  <1>9. ASSUME NEW p \in pushes, p.phase = "created", p.number \notin raced'
        PROVE TasksOf(p.number)' = {}
    <2> DEFINE met == {s \in Unknown(q) : \E r \in pushes : r.phase = "created" /\ r.number = s.number}
    <2>1. \A s \in Unknown(q) : s.number # p.number
      <3>1. raced' = raced \cup {s.number : s \in met}
        BY DEF PullApplies
      <3>2. \A s \in Unknown(q) : s.number = p.number => s \in met
        BY <1>9
      <3> HIDE DEF met
      <3> QED BY <1>9, <3>1, <3>2
    <2>2. TasksOf(p.number) = {}
      BY <1>2, <1>9 DEF Apartness, CreatedApart
    <2> QED BY <1>5, <2>1, <2>2 DEF TasksOf, NewTask
  <1>10. CreatedApart'
    BY <1>2, <1>9 DEF Apartness, CreatedApart
  <1>11. ASSUME NEW n \in Issues, n \notin raced', NEW t \in TasksOf(n)', NEW u \in TasksOf(n)'
         PROVE t = u
    <2>1. /\ t \in TaskIds /\ mcTask'[t].exists /\ mcTask'[t].number = n
          /\ u \in TaskIds /\ mcTask'[u].exists /\ mcTask'[u].number = n
      BY <1>11 DEF TasksOf
    <2>2. CASE t \in TasksOf(n) /\ u \in TasksOf(n)
      BY <1>2, <1>11, <2>2 DEF Apartness, TasksApart
    <2>3. CASE TasksOf(n) = {}
      <3>1. PICK s \in Unknown(q) : t = new[s] /\ s.number = n
        BY <1>5, <2>1, <2>3 DEF TasksOf, NewTask
      <3>2. PICK v \in Unknown(q) : u = new[v] /\ v.number = n
        BY <1>5, <2>1, <2>3 DEF TasksOf, NewTask
      <3> QED BY <1>4, <3>1, <3>2 DEF Apartness, SeenOnce
    <2>4. CASE TasksOf(n) # {} /\ ~(t \in TasksOf(n) /\ u \in TasksOf(n))
      BY <1>4, <1>5, <2>1, <2>4 DEF TasksOf, NewTask
    <2> QED BY <2>2, <2>3, <2>4
  <1>12. TasksApart'
    BY <1>11 DEF TasksApart
  <1> QED BY <1>7, <1>8, <1>10, <1>12 DEF Apartness

LEMMA IssueStays == IssueInv /\ [GithubNext]_githubVars => IssueInv'
  <1> SUFFICES ASSUME GithubShape, Apartness, [GithubNext]_githubVars PROVE Apartness'
    BY ShapeStays DEF IssueInv
  <1>1. ASSUME UNCHANGED <<mcTask, issue, pushes, pull, raced>> PROVE Apartness'
    BY <1>1, LessApart
  <1>2. ASSUME NEW t \in TaskIds, CreateMcTask(t) PROVE Apartness'
    <2>1. Written(t, mcTask[t].status)
      BY <1>2, TaskCreated
    <2>2. \E p \in Push : pushes' = pushes \cup {p} /\ p.task = t /\ p.phase # "created"
      <3>1. StartPush(t, "inbox", 0, TRUE) /\ "inbox" \in Statuses /\ 0 \in Numbers
        BY <1>2, GithubAssumption DEF CreateMcTask, Numbers
      <3>2. Started(t, "inbox", 0)
        BY <3>1, PushStarted
      <3> QED BY <3>2 DEF Started
    <2> QED BY <1>2, <2>1, <2>2, WriteApart DEF CreateMcTask
  <1>3. ASSUME NEW t \in TaskIds, NEW status \in Statuses, WriteTask(t, status),
               \/ pushes' = pushes
               \/ \E number \in Numbers, inTurn \in BOOLEAN : StartPush(t, status, number, inTurn)
        PROVE Apartness'
    <2>1. Written(t, status) /\ UNCHANGED <<issue, pull, raced>>
      BY <1>3, TaskWritten DEF WriteTask
    <2>2. \/ pushes' = pushes
          \/ \E p \in Push : pushes' = pushes \cup {p} /\ p.task = t /\ p.phase # "created"
      BY <1>3, PushStarted DEF Started
    <2> QED BY <2>1, <2>2, WriteApart
  <1>4. ASSUME NEW t \in TaskIds, NEW status \in Statuses,
               \/ ApiWrites(t, status) \/ DispatcherWrites(t, status)
               \/ ReviewWrites(t, status) \/ OtherJobWrites(t, status)
        PROVE Apartness'
    <2>1. CASE ApiWrites(t, status)
      BY <1>3, <2>1, Shapes DEF ApiWrites
    <2>2. CASE DispatcherWrites(t, status)
      <3>1. PICK number \in row[t] : StartPush(t, status, number, number = mcTask[t].number)
        BY <2>2 DEF DispatcherWrites
      <3>2. number \in Numbers
        BY <3>1 DEF GithubShape, GithubTypeOK
      <3> DEFINE inTurn == number = mcTask[t].number
      <3>3. StartPush(t, status, number, inTurn) /\ inTurn \in BOOLEAN
        BY <3>1
      <3> HIDE DEF inTurn
      <3>4. \E k \in Numbers, b \in BOOLEAN : StartPush(t, status, k, b)
        BY <3>2, <3>3
      <3> QED BY <1>3, <2>2, <3>4 DEF DispatcherWrites
    <2>3. CASE ReviewWrites(t, status)
      BY <1>3, <2>3 DEF ReviewWrites, Numbers
    <2>4. CASE OtherJobWrites(t, status)
      BY <1>3, <2>4 DEF OtherJobWrites
    <2> QED BY <1>4, <2>1, <2>2, <2>3, <2>4
  <1>5. ASSUME NEW p \in pushes,
               \/ GithubUpdates(p) \/ PushEnds(p) \/ PushFails(p)
               \/ \E n \in Issues : GithubCreates(p, n)
        PROVE Apartness'
    <2>1. CASE PushFails(p)
      BY <2>1, LessApart DEF PushFails
    <2> QED BY <1>5, <2>1, UpdateApart, EndApart, CreateApart
  <1>6. ASSUME NEW q \in Pullers, PullStarts(q) \/ PullFails(q)
        PROVE Apartness'
    <2>1. \A r \in Pullers : pull'[r].seen \subseteq pull[r].seen
      BY <1>6 DEF PullStarts, PullFails, NoPull, GithubShape
    <2> QED BY <1>6, <2>1, LessApart DEF PullStarts, PullFails
  <1>7. ASSUME NEW q \in Pullers, GithubAnswers(q) \/ PullApplies(q)
        PROVE Apartness'
    BY <1>7, AnswerApart, PullApart
  <1>8. ASSUME NEW n \in Issues, NEW closed \in BOOLEAN,
               EditIssue(n, closed, IF closed THEN "none" ELSE "inbox")
        PROVE Apartness'
    <2>1. \A k \in Issues : issue[k].exists => issue'[k].exists
      BY <1>8 DEF EditIssue, GithubShape, GithubTypeOK
    <2> QED BY <1>8, <2>1, LessApart DEF EditIssue
  <1> QED BY <1>1, <1>2, <1>4, <1>5, <1>6, <1>7, <1>8
       DEF GithubNext, githubVars, DispatcherReads, TimePasses

LEMMA IssueStarts == GithubInit => IssueInv
  <1> SUFFICES ASSUME GithubInit PROVE Apartness
    BY ShapeStarts DEF IssueInv
  <1> QED BY GithubAssumption
       DEF GithubInit, NoPull, Apartness, Numbered, SeenOnce, CreatedApart, TasksApart, TasksOf

LEMMA IssueInductive == GithubSpec => []IssueInv
  BY IssueStarts, IssueStays, PTL DEF GithubSpec

(* Rows, issues, pushes and pulls stay well formed: a status taken from an *)
(* issue is one of a task, and no push updates an issue that is none.      *)
THEOREM GithubTypeCorrect == GithubSpec => []GithubTypeOK
  BY IssueInductive, PTL DEF IssueInv, GithubShape

(* However pushes, pulls and writes overlap, an issue has one task at most,*)
(* unless it was pulled before the answer to the push that created it.     *)
THEOREM OneTaskEach == GithubSpec => []OneTaskPerIssue
  <1>1. ASSUME IssueInv PROVE OneTaskPerIssue
    <2> SUFFICES ASSUME NEW n \in Issues \ raced PROVE Cardinality(TasksOf(n)) <= 1
      BY DEF OneTaskPerIssue
    <2>1. \A t, u \in TasksOf(n) : t = u
      BY <1>1 DEF IssueInv, Apartness, TasksApart
    <2>2. CASE TasksOf(n) = {}
      BY <2>2, FS_EmptySet
    <2>3. ASSUME NEW t \in TasksOf(n) PROVE Cardinality(TasksOf(n)) <= 1
      <3>1. TasksOf(n) = {t}
        BY <2>1, <2>3
      <3> QED BY <3>1, FS_Singleton
    <2> QED BY <2>2, <2>3
  <1> QED BY <1>1, IssueInductive, PTL

-----------------------------------------------------------------------------
(* The pull brings back nothing older.                                     *)

LEMMA DatedStays == GithubShape /\ Dated /\ [GithubNext]_githubVars => Dated'
  <1> SUFFICES ASSUME GithubShape, Dated, [GithubNext]_githubVars PROVE Dated'
    OBVIOUS
  <1>1. time \in Nat /\ \A n \in Issues : issue[n].updated \in Nat
    <2>1. \A n \in Issues : issue[n].updated \in Times
      BY Shapes DEF Issue
    <2> QED BY <2>1, GithubAssumption DEF GithubShape, GithubTypeOK, Times
  <1>2. \A q \in Pullers : \A s \in pull[q].seen : s.number \in Issues /\ s.at.updated \in Nat
    <2>1. \A q \in Pullers : \A s \in pull[q].seen : s.at.updated \in Times
      BY Shapes DEF Issue
    <2> QED BY <2>1, Shapes, GithubAssumption DEF Times
  <1>3. ASSUME UNCHANGED <<time, issue, pull>> PROVE Dated'
    BY <1>3 DEF Dated
  <1>4. ASSUME NEW n \in Issues, NEW i \in Issue, i.updated = time,
               issue' = [issue EXCEPT ![n] = i], UNCHANGED <<time, pull>>
        PROVE Dated'
    BY <1>1, <1>4 DEF Dated, GithubShape, GithubTypeOK
  <1>5. ASSUME NEW p \in pushes, GithubUpdates(p) PROVE Dated'
    <2>1. p \in Push /\ p.number \in Issues
      BY <1>5 DEF GithubUpdates, GithubShape, GithubTypeOK
    <2> QED BY <1>1, <1>5, <2>1 DEF Dated, GithubUpdates, GithubShape, GithubTypeOK
  <1>6. ASSUME NEW p \in pushes, NEW n \in Issues, GithubCreates(p, n) PROVE Dated'
    BY <1>1, <1>6 DEF Dated, GithubCreates, GithubShape, GithubTypeOK
  <1>7. ASSUME NEW q \in Pullers, PullStarts(q) PROVE Dated'
    BY <1>7 DEF Dated, PullStarts, GithubShape
  <1>8. ASSUME NEW q \in Pullers, GithubAnswers(q) PROVE Dated'
    <2>1. UNCHANGED <<time, issue>>
      BY <1>8 DEF GithubAnswers
    <2>2. \A s \in pull'[q].seen : s.number \in Issues /\ s.at = issue[s.number]
      BY <1>8, Answered
    <2>3. \A r \in Pullers : r # q => pull'[r] = pull[r]
      BY <1>8, Answered
    <2> QED BY <2>1, <2>2, <2>3 DEF Dated
  <1>9. ASSUME NEW q \in Pullers, PullApplies(q) \/ PullFails(q) PROVE Dated'
    <2>1. pull' = [pull EXCEPT ![q] = NoPull] /\ UNCHANGED <<time, issue>>
      BY <1>9 DEF PullApplies, PullFails
    <2> QED BY <2>1 DEF Dated, NoPull, GithubShape
  <1>10. ASSUME NEW n \in Issues, NEW closed \in BOOLEAN,
                EditIssue(n, closed, IF closed THEN "none" ELSE "inbox")
         PROVE Dated'
    BY <1>1, <1>10 DEF Dated, EditIssue, GithubShape, GithubTypeOK
  <1>11. ASSUME TimePasses PROVE Dated'
    BY <1>1, <1>2, <1>11 DEF Dated, TimePasses
  <1> QED BY <1>3, <1>5, <1>6, <1>7, <1>8, <1>9, <1>10, <1>11
       DEF GithubNext, githubVars, CreateMcTask, DispatcherReads, ApiWrites, DispatcherWrites,
           ReviewWrites, OtherJobWrites, WriteTask, PushEnds, PushFails

(* A write of a task starts the push of what it wrote.                     *)
PushedBy(t, status) ==
  \E p \in Push :
    /\ pushes = {} /\ pushes' = {p}
    /\ p.task = t /\ p.status = status /\ p.phase \in {"create", "update"}
    /\ p.phase = "update" => p.number = mcTask[t].number
    /\ p.now = time

LEMMA PushInTurn ==
  ASSUME GithubShape, NEW t \in TaskIds, NEW status \in Statuses, NEW number \in Numbers,
         NEW inTurn \in BOOLEAN, StartPush(t, status, number, inTurn), orderly',
         inTurn => number \in {0, mcTask[t].number}
  PROVE orderly /\ PushedBy(t, status) /\ origin' = [origin EXCEPT ![t] = "pushed"]
  <1>1. /\ Started(t, status, number) /\ orderly /\ pushes = {} /\ inTurn
        /\ origin' = [origin EXCEPT ![t] = "pushed"]
    BY PushStarted
  <1>2. PICK p \in Push :
          /\ pushes' = pushes \cup {p}
          /\ p.task = t /\ p.status = status /\ p.number = number /\ p.phase \in {"create", "update"}
          /\ p.phase # "create" => p.number \in Issues
          /\ p.now = time
    BY <1>1 DEF Started
  <1>3. p.phase = "update" => p.number = mcTask[t].number
    BY <1>1, <1>2, Shapes
  <1>4. pushes' = {p}
    BY <1>1, <1>2
  <1> QED BY <1>1, <1>2, <1>3, <1>4 DEF PushedBy

LEMMA WriteInStep ==
  ASSUME GithubShape, Dated, InStep, NEW t \in TaskIds, NEW status \in Statuses,
         Written(t, status), PushedBy(t, status), origin' = [origin EXCEPT ![t] = "pushed"],
         UNCHANGED <<time, issue, pull, raced>>
  PROVE InStep'
  <1>1. PICK p \in Push :
          /\ pushes' = {p} /\ p.task = t /\ p.status = status /\ p.phase \in {"create", "update"}
          /\ p.phase = "update" => p.number = mcTask[t].number
    BY DEF PushedBy
  <1>2. OnePush' /\ CreatedFit'
    BY <1>1 DEF OnePush, CreatedFit
  <1>3. InTurn'
    BY <1>1 DEF InTurn, Written
  <1>4. time \in Nat
    BY GithubAssumption DEF GithubShape, GithubTypeOK, Times
  <1>5. ASSUME NEW i \in Issue, i.updated <= time PROVE Fits(mcTask'[t], i)
    <2>1. mcTask'[t].updated = time
      BY DEF Written
    <2>2. i.updated \in Nat
      BY GithubAssumption DEF Issue, Times
    <2> QED BY <1>4, <1>5, <2>1, <2>2 DEF Fits
  <1>6. ASSUME NEW u \in TaskIds, origin'[u] = "pushed", mcTask'[u].number \notin {0} \cup raced
        PROVE /\ Fits(mcTask'[u], issue[mcTask'[u].number])
              /\ \A q \in Pullers : \A s \in pull[q].seen :
                   s.number = mcTask'[u].number => Fits(mcTask'[u], s.at)
    <2>1. CASE u = t
      <3>1. mcTask'[t].number \in Issues
        BY <1>6, <2>1, Shapes DEF Written, Numbers
      <3> QED BY <1>5, <2>1, <3>1, Shapes DEF Dated
    <2>2. CASE u # t
      <3>1. mcTask'[u] = mcTask[u] /\ origin[u] = "pushed"
        BY <1>6, <2>2 DEF Written, GithubShape, GithubTypeOK
      <3> QED BY <1>6, <3>1 DEF InStep, PushedFit, Fits
    <2> QED BY <2>1, <2>2
  <1>7. PushedFit'
    BY <1>6 DEF PushedFit
  <1> QED BY <1>2, <1>3, <1>7 DEF InStep

LEMMA SilentInStep ==
  ASSUME GithubShape, InStep, NEW t \in TaskIds, NEW status \in Statuses, OtherJobWrites(t, status)
  PROVE InStep'
  <1>1. Written(t, status) /\ UNCHANGED <<issue, pull, raced, pushes>>
    BY TaskWritten DEF OtherJobWrites, WriteTask
  <1>2. origin'[t] # "pushed" /\ \A u \in TaskIds : u # t => origin'[u] = origin[u]
    BY DEF OtherJobWrites, GithubShape, GithubTypeOK
  <1>3. InTurn'
    BY <1>1, <1>2, Shapes DEF InStep, InTurn, Written
  <1>4. PushedFit'
    <2> SUFFICES ASSUME NEW u \in TaskIds, origin'[u] = "pushed", mcTask'[u].number \notin {0} \cup raced
                 PROVE /\ Fits(mcTask'[u], issue[mcTask'[u].number])
                       /\ \A q \in Pullers : \A s \in pull[q].seen :
                            s.number = mcTask'[u].number => Fits(mcTask'[u], s.at)
      BY <1>1 DEF PushedFit
    <2>1. mcTask'[u] = mcTask[u] /\ origin[u] = "pushed"
      BY <1>1, <1>2 DEF Written
    <2> QED BY <1>1, <2>1 DEF InStep, PushedFit, Fits
  <1> QED BY <1>1, <1>3, <1>4 DEF InStep, OnePush, CreatedFit, AsCreated

LEMMA UpdateInStep ==
  ASSUME IssueInv, InStep, NEW p \in pushes, GithubUpdates(p)
  PROVE InStep'
  <1>1. PICK r \in Push :
          /\ pushes' = (pushes \ {p}) \cup {r}
          /\ r.phase = "updated" /\ r.task = p.task /\ r.status = p.status /\ r.number = p.number
          /\ r.number \in Issues
    BY PushUpdated DEF IssueInv
  <1>2. pushes' = {r}
    BY <1>1 DEF InStep, OnePush
  <1>3. UNCHANGED <<mcTask, origin, pull, raced>> /\ p.phase = "update"
    BY DEF GithubUpdates
  <1>4. InTurn' /\ OnePush' /\ CreatedFit'
    BY <1>1, <1>2, <1>3 DEF InStep, InTurn, OnePush, CreatedFit
  <1>5. \A n \in Issues : n # p.number => issue'[n] = issue[n]
    BY DEF GithubUpdates, IssueInv, GithubShape, GithubTypeOK
  <1>6. ASSUME NEW u \in TaskIds, origin[u] = "pushed", mcTask[u].number \notin {0} \cup raced,
               mcTask[u].number = p.number
        PROVE Fits(mcTask[u], issue'[p.number])
    <2>1. p.task \in TaskIds /\ mcTask[p.task].number = p.number
      BY <1>3, Shapes DEF InStep, InTurn, IssueInv
    <2>2. u \in TasksOf(p.number) /\ p.task \in TasksOf(p.number) /\ p.number \in Issues \ raced
      BY <1>1, <1>6, <2>1 DEF TasksOf, IssueInv, Apartness, Numbered
    <2>3. u = p.task
      BY <2>2 DEF IssueInv, Apartness, TasksApart
    <2>4. mcTask[u].status = p.status
      BY <1>6, <2>3 DEF InStep, InTurn
    <2>5. issue'[p.number].closed = (p.status = "done") /\ issue'[p.number].label = p.status
      BY <1>1 DEF GithubUpdates, IssueInv, GithubShape, GithubTypeOK
    <2> QED BY <2>4, <2>5 DEF Fits, StatusOf
  <1>7. PushedFit'
    <2> SUFFICES ASSUME NEW u \in TaskIds, origin[u] = "pushed", mcTask[u].number \notin {0} \cup raced
                 PROVE /\ Fits(mcTask[u], issue'[mcTask[u].number])
                       /\ \A q \in Pullers : \A s \in pull[q].seen :
                            s.number = mcTask[u].number => Fits(mcTask[u], s.at)
      BY <1>3 DEF PushedFit
    <2>1. mcTask[u].number \in Issues
      BY Shapes DEF IssueInv, Numbers
    <2> QED BY <1>5, <1>6, <2>1 DEF InStep, PushedFit
  <1> QED BY <1>4, <1>7 DEF InStep

LEMMA CreateInStep ==
  ASSUME IssueInv, InStep, NEW p \in pushes, NEW n \in Issues, GithubCreates(p, n)
  PROVE InStep'
  <1>1. PICK r \in Push :
          /\ pushes' = (pushes \ {p}) \cup {r}
          /\ r.phase = "created" /\ r.task = p.task /\ r.status = p.status /\ r.number = n
    BY PushCreated DEF IssueInv
  <1>2. pushes' = {r}
    BY <1>1 DEF InStep, OnePush
  <1>3. UNCHANGED <<mcTask, origin, pull, raced>> /\ ~issue[n].exists
    BY DEF GithubCreates, NextIssue
  <1>4. InTurn' /\ OnePush'
    BY <1>1, <1>2, <1>3 DEF InStep, InTurn, OnePush
  <1>5. /\ \A k \in Issues : k # n => issue'[k] = issue[k]
        /\ ~issue'[n].closed /\ issue'[n].label = p.status
    BY DEF GithubCreates, IssueInv, GithubShape, GithubTypeOK
  <1>6. CreatedFit'
    <2>1. \A q \in Pullers : \A s \in pull[q].seen : s.number # n
      BY <1>3 DEF IssueInv, Apartness, Numbered
    <2> QED BY <1>1, <1>2, <1>3, <1>5, <2>1 DEF CreatedFit, AsCreated
  <1>7. PushedFit'
    <2> SUFFICES ASSUME NEW u \in TaskIds, origin[u] = "pushed", mcTask[u].number \notin {0} \cup raced
                 PROVE /\ Fits(mcTask[u], issue'[mcTask[u].number])
                       /\ \A q \in Pullers : \A s \in pull[q].seen :
                            s.number = mcTask[u].number => Fits(mcTask[u], s.at)
      BY <1>3 DEF PushedFit
    <2>1. mcTask[u].number \in Issues \ {n}
      BY <1>3, Shapes DEF IssueInv, Apartness, Numbered, Numbers
    <2> QED BY <1>5, <2>1 DEF InStep, PushedFit
  <1> QED BY <1>4, <1>6, <1>7 DEF InStep

LEMMA EndInStep ==
  ASSUME IssueInv, InStep, NEW p \in pushes, PushEnds(p)
  PROVE InStep'
  <1>1. /\ p.phase \in {"updated", "created"} /\ UNCHANGED <<issue, pull, raced, origin>>
        /\ pushes' = pushes \ {p}
    BY DEF PushEnds
  <1>2. pushes' = {}
    BY <1>1 DEF InStep, OnePush
  <1>3. InTurn' /\ OnePush' /\ CreatedFit'
    BY <1>2 DEF InTurn, OnePush, CreatedFit
  <1>4. /\ \A u \in TaskIds : u # p.task => mcTask'[u] = mcTask[u]
        /\ mcTask'[p.task].status = mcTask[p.task].status
        /\ mcTask'[p.task].updated = mcTask[p.task].updated
        /\ mcTask'[p.task].number = IF p.phase = "created" THEN p.number ELSE mcTask[p.task].number
    BY PushEnded DEF IssueInv
  <1>5. PushedFit'
    <2> SUFFICES ASSUME NEW u \in TaskIds, origin[u] = "pushed", mcTask'[u].number \notin {0} \cup raced
                 PROVE /\ Fits(mcTask'[u], issue[mcTask'[u].number])
                       /\ \A q \in Pullers : \A s \in pull[q].seen :
                            s.number = mcTask'[u].number => Fits(mcTask'[u], s.at)
      BY <1>1 DEF PushedFit
    <2>1. CASE u # p.task \/ p.phase = "updated"
      <3>1. /\ mcTask'[u].number = mcTask[u].number /\ mcTask'[u].status = mcTask[u].status
            /\ mcTask'[u].updated = mcTask[u].updated
        BY <1>4, <2>1
      <3> QED BY <3>1 DEF InStep, PushedFit, Fits
    <2>2. CASE u = p.task /\ p.phase = "created"
      <3>1. mcTask'[u].number = p.number /\ mcTask'[u].status = p.status /\ p.number \notin raced
        BY <1>4, <2>2 DEF InStep, InTurn
      <3>2. ASSUME NEW i, AsCreated(p, i) PROVE Fits(mcTask'[u], i)
        BY <3>1, <3>2 DEF AsCreated, Fits, StatusOf
      <3> QED BY <2>2, <3>1, <3>2 DEF InStep, CreatedFit
    <2> QED BY <1>1, <2>1, <2>2
  <1> QED BY <1>3, <1>5 DEF InStep

LEMMA AnswerInStep ==
  ASSUME IssueInv, InStep, NEW q \in Pullers, GithubAnswers(q)
  PROVE InStep'
  <1>1. UNCHANGED <<mcTask, origin, issue, pushes, raced>>
    BY DEF GithubAnswers
  <1>2. /\ \A r \in Pullers : r # q => pull'[r] = pull[r]
        /\ \A s \in pull'[q].seen : s.number \in Issues /\ s.at = issue[s.number]
    BY Answered DEF IssueInv
  <1>3. PushedFit'
    BY <1>1, <1>2 DEF InStep, PushedFit
  <1>4. CreatedFit'
    BY <1>1, <1>2 DEF InStep, CreatedFit, AsCreated
  <1> QED BY <1>1, <1>3, <1>4 DEF InStep, OnePush, InTurn

LEMMA PullInStep ==
  ASSUME IssueInv, InStep, NEW q \in Pullers, PullApplies(q)
  PROVE InStep'
  <1>1. UNCHANGED <<issue, pushes>> /\ raced \subseteq raced'
    BY DEF PullApplies
  <1>2. \A t \in TaskIds : origin'[t] = "pushed" => mcTask'[t] = mcTask[t] /\ origin[t] = "pushed"
    BY DEF PullApplies
  <1>3. \A r \in Pullers : pull'[r].seen \subseteq pull[r].seen
    BY DEF PullApplies, NoPull, IssueInv, GithubShape
  <1>4. \A t \in TaskIds : mcTask[t].exists => mcTask'[t].number = mcTask[t].number
    BY Pulled DEF Overwritten, IssueInv
  <1>5. InTurn'
    BY <1>1, <1>2, <1>4, Shapes DEF InStep, InTurn, IssueInv, Apartness, Numbered
  <1>6. PushedFit'
    BY <1>1, <1>2, <1>3 DEF InStep, PushedFit
  <1>7. CreatedFit'
    BY <1>1, <1>3 DEF InStep, CreatedFit, AsCreated
  <1> QED BY <1>1, <1>5, <1>6, <1>7 DEF InStep, OnePush

LEMMA EditInStep ==
  ASSUME IssueInv, InStep, NEW n \in Issues, NEW closed, NEW label, EditIssue(n, closed, label)
  PROVE InStep'
  <1>1. UNCHANGED <<mcTask, origin, pull, pushes, raced>>
    BY DEF EditIssue
  <1>2. issue'[n].author # "push" /\ \A k \in Issues : k # n => issue'[k] = issue[k]
    BY DEF EditIssue, IssueInv, GithubShape, GithubTypeOK
  <1>3. ASSUME NEW u \in TaskIds, mcTask[u].number \notin {0} \cup raced
        PROVE mcTask[u].number \in Issues
    BY <1>3, Shapes DEF IssueInv, Numbers
  <1>4. PushedFit'
    BY <1>1, <1>2, <1>3 DEF InStep, PushedFit, Fits
  <1>5. CreatedFit'
    BY <1>1, <1>2 DEF InStep, CreatedFit, AsCreated, IssueInv, GithubShape
  <1> QED BY <1>1, <1>4, <1>5 DEF InStep, OnePush, InTurn

(* Nothing but tasks, issues, pushes and pulls matters, and a pull that    *)
(* has seen nothing says nothing.                                          *)
LEMMA SameInStep ==
  ASSUME IssueInv, InStep, UNCHANGED <<mcTask, origin, issue, pushes, raced>>,
         \A q \in Pullers : pull'[q].seen \subseteq pull[q].seen
  PROVE InStep'
  BY DEF InStep, OnePush, InTurn, PushedFit, CreatedFit, AsCreated

LEMMA BlankStays == IssueInv /\ Blank /\ [GithubNext]_githubVars => Blank'
  <1> SUFFICES ASSUME IssueInv, Blank, [GithubNext]_githubVars PROVE Blank'
    OBVIOUS
  <1>1. GithubShape
    BY DEF IssueInv
  <1>2. ASSUME NEW t \in TaskIds, NEW status, Written(t, status) PROVE Blank'
    BY <1>2 DEF Blank, Written
  <1>3. ASSUME UNCHANGED mcTask PROVE Blank'
    BY <1>3 DEF Blank
  <1>4. ASSUME NEW t \in TaskIds, CreateMcTask(t) PROVE Blank'
    BY <1>1, <1>2, <1>4, TaskCreated
  <1>5. ASSUME NEW t \in TaskIds, NEW status \in Statuses, WriteTask(t, status) PROVE Blank'
    BY <1>1, <1>2, <1>5, TaskWritten
  <1>6. ASSUME NEW p \in pushes, PushEnds(p) PROVE Blank'
    <2>1. \A u \in TaskIds : /\ u # p.task => mcTask'[u] = mcTask[u]
                             /\ mcTask'[p.task].exists = mcTask[p.task].exists
                             /\ mcTask'[p.task].status = mcTask[p.task].status
      BY <1>1, <1>6, PushEnded
    <2> QED BY <2>1 DEF Blank
  <1>7. ASSUME NEW q \in Pullers, PullApplies(q) PROVE Blank'
    BY <1>1, <1>7, Pulled DEF Blank, NewTask, Overwritten
  <1> QED BY <1>3, <1>4, <1>5, <1>6, <1>7
       DEF GithubNext, githubVars, DispatcherReads, ApiWrites, DispatcherWrites, ReviewWrites,
           OtherJobWrites, GithubUpdates, GithubCreates, PushFails, PullStarts, GithubAnswers,
           PullFails, EditIssue, TimePasses

LEMMA InStepStays ==
  ASSUME IssueInv, Dated, Blank, orderly => InStep, [GithubNext]_githubVars, orderly'
  PROVE InStep'
  <1>1. GithubShape
    BY DEF IssueInv
  <1>2. ASSUME orderly, UNCHANGED <<mcTask, origin, issue, pushes, pull, raced>> PROVE InStep'
    BY <1>2, SameInStep
  <1>3. ASSUME NEW t \in TaskIds, NEW status \in Statuses, NEW number \in Numbers, NEW inTurn \in BOOLEAN,
               StartPush(t, status, number, inTurn), Written(t, status),
               inTurn => number \in {0, mcTask[t].number}, UNCHANGED <<time, issue, pull, raced>>
        PROVE InStep'
    <2>1. orderly /\ PushedBy(t, status) /\ origin' = [origin EXCEPT ![t] = "pushed"]
      BY <1>1, <1>3, PushInTurn
    <2> QED BY <1>1, <1>3, <2>1, WriteInStep
  <1>4. ASSUME NEW t \in TaskIds, CreateMcTask(t) PROVE InStep'
    <2>1. Written(t, "inbox")
      <3>1. mcTask[t].status = "inbox"
        BY <1>4 DEF CreateMcTask, Blank
      <3> QED BY <1>1, <1>4, <3>1, TaskCreated
    <2>2. StartPush(t, "inbox", 0, TRUE) /\ UNCHANGED <<time, issue, pull, raced>>
      BY <1>4 DEF CreateMcTask
    <2>3. "inbox" \in Statuses /\ 0 \in Numbers
      BY GithubAssumption DEF Numbers
    <2> QED BY <1>3, <2>1, <2>2, <2>3
  <1>5. ASSUME NEW t \in TaskIds, NEW status \in Statuses, WriteTask(t, status)
        PROVE Written(t, status) /\ UNCHANGED <<time, issue, pull, raced>>
    BY <1>1, <1>5, TaskWritten DEF WriteTask
  <1>6. ASSUME NEW t \in TaskIds, NEW status \in Statuses, ApiWrites(t, status) PROVE InStep'
    <2>1. StartPush(t, status, mcTask[t].number, TRUE) /\ WriteTask(t, status)
      BY <1>6 DEF ApiWrites
    <2>2. mcTask[t].number \in Numbers
      BY <1>1, Shapes
    <2> QED BY <1>3, <1>5, <2>1, <2>2
  <1>7. ASSUME NEW t \in TaskIds, NEW status \in Statuses, DispatcherWrites(t, status) PROVE InStep'
    <2>1. WriteTask(t, status)
      BY <1>7 DEF DispatcherWrites
    <2>2. PICK number \in row[t] : StartPush(t, status, number, number = mcTask[t].number)
      BY <1>7 DEF DispatcherWrites
    <2>3. number \in Numbers
      BY <1>1, <2>2 DEF GithubShape, GithubTypeOK
    <2> DEFINE inTurn == number = mcTask[t].number
    <2>4. StartPush(t, status, number, inTurn) /\ inTurn \in BOOLEAN /\ (inTurn => number = mcTask[t].number)
      BY <2>2
    <2> HIDE DEF inTurn
    <2> QED BY <1>3, <1>5, <2>1, <2>3, <2>4
  <1>8. ASSUME NEW t \in TaskIds, NEW status \in Statuses, ReviewWrites(t, status) PROVE InStep'
    <2>1. StartPush(t, status, 0, TRUE) /\ WriteTask(t, status) /\ 0 \in Numbers
      BY <1>8 DEF ReviewWrites, Numbers
    <2> QED BY <1>3, <1>5, <2>1
  <1>9. ASSUME NEW t \in TaskIds, NEW status \in Statuses, OtherJobWrites(t, status) PROVE InStep'
    BY <1>1, <1>9, SilentInStep DEF OtherJobWrites
  <1>10. ASSUME NEW p \in pushes,
                \/ GithubUpdates(p) \/ PushEnds(p) \/ PushFails(p)
                \/ \E n \in Issues : GithubCreates(p, n)
         PROVE InStep'
    <2>1. ~PushFails(p)
      BY DEF PushFails
    <2>2. orderly
      BY <1>10, <2>1 DEF GithubUpdates, PushEnds, GithubCreates
    <2> QED BY <1>10, <2>1, <2>2, UpdateInStep, EndInStep, CreateInStep
  <1>11. ASSUME NEW q \in Pullers, PullStarts(q) PROVE InStep'
    <2>1. UNCHANGED <<orderly, mcTask, origin, issue, pushes, raced>>
      BY <1>11 DEF PullStarts
    <2>2. \A r \in Pullers : pull'[r].seen \subseteq pull[r].seen
      BY <1>1, <1>11 DEF PullStarts, GithubShape
    <2> QED BY <2>1, <2>2, SameInStep
  <1>12. ASSUME NEW q \in Pullers, GithubAnswers(q) \/ PullApplies(q) \/ PullFails(q) PROVE InStep'
    <2>1. ~PullFails(q)
      BY DEF PullFails
    <2>2. orderly
      BY <1>12, <2>1 DEF GithubAnswers, PullApplies
    <2> QED BY <1>12, <2>1, <2>2, AnswerInStep, PullInStep
  <1>13. ASSUME NEW n \in Issues, NEW closed \in BOOLEAN,
                EditIssue(n, closed, IF closed THEN "none" ELSE "inbox")
         PROVE InStep'
    <2>1. orderly
      BY <1>13 DEF EditIssue
    <2> QED BY <1>13, <2>1, EditInStep
  <1> QED BY <1>2, <1>4, <1>6, <1>7, <1>8, <1>9, <1>10, <1>11, <1>12, <1>13
       DEF GithubNext, githubVars, DispatcherReads, TimePasses

LEMMA EchoStarts == GithubInit => EchoInv
  <1> SUFFICES ASSUME GithubInit PROVE Dated /\ Blank /\ InStep
    BY IssueStarts DEF EchoInv
  <1> QED BY GithubAssumption
       DEF GithubInit, NoPull, Dated, Blank, InStep, OnePush, InTurn, PushedFit, CreatedFit

LEMMA EchoInductive == GithubSpec => []EchoInv
  <1>1. EchoInv /\ [GithubNext]_githubVars => EchoInv'
    BY IssueStays, DatedStays, BlankStays, InStepStays DEF EchoInv, IssueInv
  <1> QED BY <1>1, EchoStarts, PTL DEF GithubSpec

(* Only a pull that is applied ends one that was answered.                 *)
LEMMA OnlyPullEnds ==
  ASSUME GithubShape, [GithubNext]_githubVars, NEW q \in Pullers,
         pull[q].phase = "answered", pull'[q] = NoPull
  PROVE PullApplies(q)
  <1>1. pull[q] # NoPull /\ pull'[q] # pull[q]
    BY DEF NoPull
  <1>2. \E r \in Pullers : PullStarts(r) \/ GithubAnswers(r) \/ PullApplies(r) \/ PullFails(r)
    BY <1>1
       DEF GithubNext, githubVars, CreateMcTask, DispatcherReads, ApiWrites, DispatcherWrites,
           ReviewWrites, OtherJobWrites, WriteTask, GithubUpdates, GithubCreates, PushEnds, PushFails,
           EditIssue, TimePasses
  <1>3. PICK r \in Pullers : PullStarts(r) \/ GithubAnswers(r) \/ PullApplies(r) \/ PullFails(r)
    BY <1>2
  <1>4. r = q
    BY <1>1, <1>3 DEF PullStarts, GithubAnswers, PullApplies, PullFails, GithubShape
  <1>5. ~PullStarts(q) /\ ~PullFails(q)
    BY <1>1 DEF PullStarts, PullFails
  <1>6. ~GithubAnswers(q)
    BY DEF GithubAnswers
  <1> QED BY <1>3, <1>4, <1>5, <1>6

(* While pushes do not meet, a task whose last change was pushed takes     *)
(* over what a person changed, and no version that a push had written,     *)
(* whatever requests and pollers pull at the same time.                    *)
THEOREM NothingEchoes == GithubSpec => NoEcho
  <1> DEFINE Quiet == orderly => \A t \in TaskIds : origin[t] = "pushed" => ~Echoes(t)
  <1>1. ASSUME EchoInv, [GithubNext]_githubVars PROVE Quiet
    <2> SUFFICES ASSUME orderly, NEW t \in TaskIds, origin[t] = "pushed", Echoes(t) PROVE FALSE
      OBVIOUS
    <2>1. GithubShape /\ Numbered /\ SeenOnce /\ PushedFit
      BY <1>1 DEF EchoInv, IssueInv, Apartness, InStep
    <2>2. PICK q \in Pullers :
            /\ pull[q].phase = "answered" /\ pull'[q] = NoPull
            /\ \E s \in pull[q].seen : s.number = mcTask[t].number /\ s.at.author = "push"
      BY DEF Echoes
    <2>3. PICK s \in pull[q].seen :
            /\ pull[q].phase = "answered" /\ pull'[q] = NoPull
            /\ s.number = mcTask[t].number /\ s.at.author = "push"
      BY <2>2
    <2>4. PullApplies(q)
      BY <1>1, <2>1, <2>3, OnlyPullEnds
    <2>5. mcTask[t].number \in Issues /\ mcTask[t].number # 0 /\ mcTask[t].exists
      BY <2>1, <2>3, Shapes DEF Numbered
    <2>6. mcTask'[t] # mcTask[t] /\ mcTask'[t].status # mcTask[t].status /\ mcTask[t].number \notin raced
      BY DEF Echoes
    <2>7. PICK u \in pull[q].seen : Overwritten(t, u, pull[q].now)
      BY <2>1, <2>4, <2>5, <2>6, Pulled
    <2>8. u = s
      BY <2>1, <2>3, <2>7 DEF Overwritten, SeenOnce
    <2>9. Fits(mcTask[t], s.at)
      BY <2>1, <2>3, <2>5, <2>6 DEF PushedFit
    <2> QED BY <2>3, <2>6, <2>7, <2>8, <2>9 DEF Overwritten, Fits
  <1> QED BY <1>1, EchoInductive, PTL DEF GithubSpec, NoEcho

-----------------------------------------------------------------------------
(* With one caller that pulls, tasks and issues settle.                    *)

LEMMA Dates ==
  ASSUME GithubShape
  PROVE /\ time \in Nat /\ lastSync \in Nat /\ Window \in Nat \ {0}
        /\ \A t \in TaskIds : mcTask[t].updated \in Nat /\ mcTask[t].synced \in Nat
        /\ \A n \in Issues : issue[n].updated \in Nat
        /\ \A q \in Pullers : pull[q].now \in Nat /\ pull[q].since \in Nat
        /\ \A p \in pushes : p.now \in Nat
  <1>1. \A t \in TaskIds : mcTask[t] \in McTask
    BY Shapes
  <1>2. \A n \in Issues : issue[n] \in Issue
    BY Shapes
  <1>3. \A q \in Pullers : pull[q] \in Pull
    BY DEF GithubShape
  <1>4. \A p \in pushes : p \in Push
    BY DEF GithubShape, GithubTypeOK
  <1>5. Times \subseteq Nat /\ Window \in Nat \ {0} /\ time \in Times /\ lastSync \in Times
    BY GithubAssumption DEF Times, GithubShape, GithubTypeOK
  <1> QED BY <1>1, <1>2, <1>3, <1>4, <1>5 DEF McTask, Issue, Pull, Push

LEMMA ClockedStays == IssueInv /\ Clocked /\ [GithubNext]_githubVars => Clocked'
  <1> SUFFICES ASSUME IssueInv, Clocked, [GithubNext]_githubVars PROVE Clocked'
    OBVIOUS
  <1>1. GithubShape
    BY DEF IssueInv
  <1>2. ASSUME UNCHANGED <<time, lastSync, mcTask, pull, pushes>> PROVE Clocked'
    BY <1>2 DEF Clocked
  <1>3. ASSUME NEW t \in TaskIds, NEW status, Written(t, status), UNCHANGED <<time, lastSync, pull>>,
               \A p \in pushes' : p \in pushes \/ p.now = time
        PROVE Clocked'
    BY <1>1, <1>3, Dates DEF Clocked, Written
  <1>4. ASSUME NEW t \in TaskIds, NEW status \in Statuses, NEW number \in Numbers,
               NEW inTurn \in BOOLEAN, StartPush(t, status, number, inTurn)
        PROVE \A p \in pushes' : p \in pushes \/ p.now = time
    BY <1>1, <1>4, PushStarted DEF Started
  <1>5. ASSUME NEW t \in TaskIds, CreateMcTask(t) PROVE Clocked'
    <2>1. StartPush(t, "inbox", 0, TRUE) /\ "inbox" \in Statuses /\ 0 \in Numbers
      BY <1>5, GithubAssumption DEF CreateMcTask, Numbers
    <2>2. \A p \in pushes' : p \in pushes \/ p.now = time
      BY <1>4, <2>1
    <2>3. Written(t, mcTask[t].status)
      BY <1>1, <1>5, TaskCreated
    <2> QED BY <1>3, <1>5, <2>2, <2>3 DEF CreateMcTask
  <1>6. ASSUME NEW t \in TaskIds, NEW status \in Statuses,
               \/ ApiWrites(t, status) \/ DispatcherWrites(t, status)
               \/ ReviewWrites(t, status) \/ OtherJobWrites(t, status)
        PROVE Clocked'
    <2>1. WriteTask(t, status)
      BY <1>6 DEF ApiWrites, DispatcherWrites, ReviewWrites, OtherJobWrites
    <2>2. Written(t, status) /\ UNCHANGED <<time, lastSync, pull>>
      BY <1>1, <2>1, TaskWritten DEF WriteTask
    <2>3. \A p \in pushes' : p \in pushes \/ p.now = time
      <3>1. CASE ApiWrites(t, status)
        BY <1>1, <1>4, <3>1, Shapes DEF ApiWrites
      <3>2. CASE DispatcherWrites(t, status)
        <4>1. PICK number \in row[t] : StartPush(t, status, number, number = mcTask[t].number)
          BY <3>2 DEF DispatcherWrites
        <4>2. number \in Numbers
          BY <1>1, <4>1 DEF GithubShape, GithubTypeOK
        <4> DEFINE inTurn == number = mcTask[t].number
        <4>3. StartPush(t, status, number, inTurn) /\ inTurn \in BOOLEAN
          BY <4>1
        <4> HIDE DEF inTurn
        <4> QED BY <1>4, <4>2, <4>3
      <3>3. CASE ReviewWrites(t, status)
        BY <1>4, <3>3 DEF ReviewWrites, Numbers
      <3>4. CASE OtherJobWrites(t, status)
        BY <3>4 DEF OtherJobWrites
      <3> QED BY <1>6, <3>1, <3>2, <3>3, <3>4
    <2> QED BY <1>3, <2>2, <2>3
  <1>7. ASSUME NEW p \in pushes, GithubUpdates(p) PROVE Clocked'
    BY <1>1, <1>7, PushUpdated DEF Clocked, GithubUpdates
  <1>8. ASSUME NEW p \in pushes, NEW n \in Issues, GithubCreates(p, n) PROVE Clocked'
    <2>1. PICK r \in Push : pushes' = (pushes \ {p}) \cup {r} /\ r.now = p.now
      BY <1>1, <1>8, PushCreated
    <2>2. UNCHANGED <<time, lastSync, mcTask, pull>>
      BY <1>8 DEF GithubCreates
    <2> QED BY <2>1, <2>2 DEF Clocked
  <1>9. ASSUME NEW p \in pushes, PushEnds(p) PROVE Clocked'
    <2>1. \A u \in TaskIds : /\ u # p.task => mcTask'[u] = mcTask[u]
                             /\ mcTask'[p.task].updated = mcTask[p.task].updated
                             /\ mcTask'[p.task].synced = p.now
      BY <1>1, <1>9, PushEnded
    <2> QED BY <1>9, <2>1 DEF Clocked, PushEnds
  <1>10. ASSUME NEW p \in pushes, PushFails(p) PROVE Clocked'
    BY <1>10 DEF Clocked, PushFails
  <1>11. ASSUME NEW q \in Pullers, PullStarts(q) PROVE Clocked'
    BY <1>1, <1>11, Dates DEF Clocked, PullStarts, GithubShape
  <1>12. ASSUME NEW q \in Pullers, GithubAnswers(q) PROVE Clocked'
    <2>1. \A r \in Pullers : pull'[r].now = pull[r].now
      BY <1>1, <1>12, Answered
    <2> QED BY <1>12, <2>1 DEF Clocked, GithubAnswers
  <1>13. ASSUME NEW q \in Pullers, PullApplies(q) PROVE Clocked'
    <2>1. \A t \in TaskIds :
            \/ mcTask'[t].updated = pull[q].now /\ mcTask'[t].synced = pull[q].now
            \/ mcTask'[t] = mcTask[t]
      BY <1>1, <1>13, Pulled DEF NewTask, Overwritten
    <2>2. \A r \in Pullers : pull'[r].now \in {0, pull[r].now}
      BY <1>1, <1>13 DEF PullApplies, NoPull, GithubShape
    <2>3. UNCHANGED <<time, pushes>> /\ lastSync' = pull[q].now
      BY <1>13 DEF PullApplies
    <2>4. time \in Nat
      BY <1>1, Dates
    <2> QED BY <2>1, <2>2, <2>3, <2>4 DEF Clocked
  <1>14. ASSUME NEW q \in Pullers, PullFails(q) PROVE Clocked'
    <2>1. \A r \in Pullers : pull'[r].now \in {0, pull[r].now}
      BY <1>1, <1>14 DEF PullFails, NoPull, GithubShape
    <2> QED BY <1>1, <1>14, <2>1, Dates DEF Clocked, PullFails
  <1>15. ASSUME TimePasses PROVE Clocked'
    BY <1>1, <1>15, Dates DEF Clocked, TimePasses
  <1> QED BY <1>2, <1>5, <1>6, <1>7, <1>8, <1>9, <1>10, <1>11, <1>12, <1>13, <1>14, <1>15
       DEF GithubNext, githubVars, DispatcherReads, EditIssue

(* Once pulls met, that stays known.                                       *)
LEMMA MetForGood == pullsMet /\ [GithubNext]_githubVars => pullsMet'
  BY DEF GithubNext, githubVars, CreateMcTask, DispatcherReads, ApiWrites, DispatcherWrites, ReviewWrites,
         OtherJobWrites, WriteTask, GithubUpdates, GithubCreates, PushEnds, PushFails, PullStarts,
         GithubAnswers, PullApplies, PullFails, EditIssue, TimePasses

(* As long as pulls did not meet, one is under way at most, and it asks    *)
(* for what changed since the last sync.                                   *)
LEMMA AloneStays ==
  ASSUME GithubShape, OneAtATime, SinceLast, [GithubNext]_githubVars, ~pullsMet'
  PROVE OneAtATime' /\ SinceLast'
  <1>1. ASSUME UNCHANGED <<lastSync, pull>> PROVE OneAtATime' /\ SinceLast'
    BY <1>1 DEF OneAtATime, SinceLast
  <1>2. ASSUME NEW q \in Pullers, PullStarts(q) PROVE OneAtATime' /\ SinceLast'
    <2>1. \A r \in Pullers : pull[r].phase = "idle"
      <3>1. pullsMet' = (pullsMet \/ \E r \in Pullers : pull[r] # NoPull)
        BY <1>2 DEF PullStarts
      <3>2. \A r \in Pullers : pull[r] = NoPull
        BY <3>1, Zenon
      <3> QED BY <3>2 DEF NoPull
    <2>2. pull'[q].since = lastSync' /\ \A r \in Pullers \ {q} : pull'[r] = pull[r]
      BY <1>2 DEF PullStarts, GithubShape
    <2> QED BY <2>1, <2>2 DEF OneAtATime, SinceLast
  <1>3. ASSUME NEW q \in Pullers, GithubAnswers(q) PROVE OneAtATime' /\ SinceLast'
    <2>1. \A r \in Pullers \ {q} : pull'[r] = pull[r]
      BY <1>3, Answered
    <2>2. pull'[q].since = pull[q].since /\ pull[q].phase = "asked" /\ lastSync' = lastSync
      BY <1>3, Answered DEF GithubAnswers
    <2> QED BY <2>1, <2>2 DEF OneAtATime, SinceLast
  <1>4. ASSUME NEW q \in Pullers, PullApplies(q) \/ PullFails(q) PROVE OneAtATime' /\ SinceLast'
    <2>1. pull[q].phase # "idle"
      BY <1>4 DEF PullApplies, PullFails
    <2>2. pull' = [pull EXCEPT ![q] = NoPull]
      BY <1>4 DEF PullApplies, PullFails
    <2>3. \A r \in Pullers : pull'[r].phase = "idle"
      BY <2>1, <2>2 DEF OneAtATime, NoPull, GithubShape
    <2> QED BY <2>3 DEF OneAtATime, SinceLast
  <1> QED BY <1>1, <1>2, <1>3, <1>4
       DEF GithubNext, githubVars, CreateMcTask, DispatcherReads, ApiWrites, DispatcherWrites, ReviewWrites,
           OtherJobWrites, WriteTask, GithubUpdates, GithubCreates, PushEnds, PushFails, EditIssue, TimePasses

LEMMA SeenNowStays ==
  ASSUME GithubShape, Clocked, SeenNow, [GithubNext]_githubVars
  PROVE SeenNow'
  <1>1. ASSUME UNCHANGED <<issue, pull>> PROVE SeenNow'
    BY <1>1 DEF SeenNow
  <1>2. ASSUME NEW n \in Issues, issue'[n].updated = time, UNCHANGED pull,
               \A k \in Issues : k # n => issue'[k] = issue[k]
        PROVE SeenNow'
    <2>1. \A q \in Pullers : ~(issue'[n].updated < pull[q].now)
      BY <1>2, Dates DEF Clocked
    <2> QED BY <1>2, <2>1 DEF SeenNow
  <1>3. ASSUME NEW p \in pushes, GithubUpdates(p) PROVE SeenNow'
    <2>1. p.number \in Issues
      BY <1>3 DEF GithubUpdates, GithubShape
    <2> QED BY <1>2, <1>3, <2>1 DEF GithubUpdates, GithubShape, GithubTypeOK
  <1>4. ASSUME NEW p \in pushes, NEW n \in Issues, GithubCreates(p, n) PROVE SeenNow'
    BY <1>2, <1>4 DEF GithubCreates, GithubShape, GithubTypeOK
  <1>5. ASSUME NEW n \in Issues, NEW closed, NEW label, EditIssue(n, closed, label) PROVE SeenNow'
    BY <1>2, <1>5 DEF EditIssue, GithubShape, GithubTypeOK
  <1>6. ASSUME NEW q \in Pullers, PullStarts(q) PROVE SeenNow'
    BY <1>6 DEF SeenNow, PullStarts, GithubShape
  <1>7. ASSUME NEW q \in Pullers, PullApplies(q) \/ PullFails(q) PROVE SeenNow'
    <2>1. UNCHANGED issue /\ pull' = [pull EXCEPT ![q] = NoPull]
      BY <1>7 DEF PullApplies, PullFails
    <2>2. \A r \in Pullers : pull'[r] = pull[r] \/ pull'[r].phase = "idle"
      BY <2>1 DEF NoPull, GithubShape
    <2> QED BY <2>1, <2>2 DEF SeenNow
  <1>8. ASSUME NEW q \in Pullers, GithubAnswers(q) PROVE SeenNow'
    <2> SUFFICES ASSUME NEW r \in Pullers, NEW n \in Issues, pull'[r].phase = "answered",
                        issue[n].exists, issue[n].updated < pull'[r].now
                 PROVE \/ [number |-> n, at |-> issue[n]] \in pull'[r].seen
                       \/ issue[n].updated < pull'[r].since /\ \A s \in pull'[r].seen : s.number # n
      BY <1>8 DEF SeenNow, GithubAnswers
    <2>1. CASE r # q
      <3>1. pull'[r] = pull[r]
        BY <1>8, <2>1, Answered
      <3> QED BY <3>1 DEF SeenNow
    <2>2. CASE r = q
      <3>1. \/ [number |-> n, at |-> issue[n]] \in pull'[q].seen
            \/ ~ChangedSince(n, pull[q].since) /\ \A s \in pull'[q].seen : s.number # n
        BY <1>8, Answered
      <3>2. pull'[q].since = pull[q].since
        BY <1>8, Answered
      <3> QED BY <2>2, <3>1, <3>2, Dates DEF ChangedSince
    <2> QED BY <2>1, <2>2
  <1> QED BY <1>1, <1>3, <1>4, <1>5, <1>6, <1>7, <1>8
       DEF GithubNext, githubVars, CreateMcTask, DispatcherReads, ApiWrites, DispatcherWrites, ReviewWrites,
           OtherJobWrites, WriteTask, PushEnds, PushFails, TimePasses

(* All that a step may rely on.                                            *)
AgreeContext == IssueInv /\ InStep /\ Clocked /\ Settling

LEMMA WriteSettles ==
  ASSUME AgreeContext, NEW t \in TaskIds, NEW status \in Statuses,
         Written(t, status), PushedBy(t, status), origin' = [origin EXCEPT ![t] = "pushed"],
         UNCHANGED <<time, issue, pull, lastSync, raced>>
  PROVE Settling'
  <1>1. GithubShape
    BY DEF AgreeContext, IssueInv
  <1>2. PICK p \in Push :
          /\ pushes = {} /\ pushes' = {p}
          /\ p.task = t /\ p.phase \in {"create", "update"} /\ p.now = time
    BY DEF PushedBy
  <1>3. CreatedLate'
    BY <1>2 DEF CreatedLate
  <1>4. PushDated'
    BY <1>1, <1>2 DEF PushDated, Written, AgreeContext, Clocked, GithubShape, GithubTypeOK
  <1>5. Agreed'
    <2> SUFFICES ASSUME NEW u \in TaskIds, origin'[u] # "silent", mcTask'[u].number \notin {0} \cup raced,
                        ~Awaited(u)'
                 PROVE Agrees(mcTask'[u], issue[mcTask'[u].number], lastSync)
      BY DEF Agreed
    <2>1. u # t
      BY <1>2 DEF Awaited
    <2>2. mcTask'[u] = mcTask[u] /\ origin'[u] = origin[u] /\ ~Awaited(u)
      BY <1>1, <1>2, <2>1 DEF Written, Awaited, GithubShape, GithubTypeOK
    <2> QED BY <2>2 DEF AgreeContext, Settling, Agreed
  <1> QED BY <1>3, <1>4, <1>5 DEF Settling

LEMMA SilentSettles ==
  ASSUME AgreeContext, NEW t \in TaskIds, NEW status \in Statuses, OtherJobWrites(t, status)
  PROVE Settling'
  <1>1. GithubShape
    BY DEF AgreeContext, IssueInv
  <1>2. Written(t, status) /\ UNCHANGED <<issue, pull, lastSync, raced, pushes>>
    BY <1>1, TaskWritten DEF OtherJobWrites, WriteTask
  <1>3. origin'[t] = "silent" /\ \A u \in TaskIds : u # t => origin'[u] = origin[u] /\ mcTask'[u] = mcTask[u]
    BY <1>1, <1>2 DEF OtherJobWrites, Written, GithubShape, GithubTypeOK
  <1>4. \A p \in pushes : p.task \in TaskIds
    BY <1>1, Shapes
  <1>5. CreatedLate' /\ PushDated'
    BY <1>2, <1>3, <1>4 DEF CreatedLate, PushDated, AgreeContext, Settling
  <1>6. Agreed'
    BY <1>2, <1>3 DEF Agreed, Awaited, AgreeContext, Settling
  <1> QED BY <1>5, <1>6 DEF Settling

(* An issue written now is newer than what its task and the last sync are. *)
LEMMA NewerAgrees ==
  ASSUME GithubShape, Clocked, NEW t \in TaskIds, NEW i, i.updated = time
  PROVE lastSync <= i.updated /\ mcTask[t].updated <= i.updated /\ Agrees(mcTask[t], i, lastSync)
  BY Dates DEF Clocked, Agrees

LEMMA UpdateSettles ==
  ASSUME AgreeContext, NEW p \in pushes, GithubUpdates(p)
  PROVE Settling'
  <1>1. GithubShape
    BY DEF AgreeContext, IssueInv
  <1>2. PICK r \in Push :
          /\ pushes' = (pushes \ {p}) \cup {r}
          /\ r.phase = "updated" /\ r.task = p.task /\ r.number \in Issues /\ r.number = p.number
          /\ r.now = p.now
    BY <1>1, PushUpdated
  <1>3. pushes' = {r} /\ pushes = {p}
    BY <1>2 DEF AgreeContext, InStep, OnePush
  <1>4. UNCHANGED <<mcTask, origin, lastSync, raced>>
    BY DEF GithubUpdates
  <1>5. CreatedLate' /\ PushDated'
    BY <1>2, <1>3, <1>4 DEF CreatedLate, PushDated, AgreeContext, Settling
  <1>6. issue'[p.number].updated = time /\ \A n \in Issues : n # p.number => issue'[n] = issue[n]
    BY <1>1, <1>2 DEF GithubUpdates, GithubShape, GithubTypeOK
  <1>7. Agreed'
    <2> SUFFICES ASSUME NEW u \in TaskIds, origin[u] # "silent", mcTask[u].number \notin {0} \cup raced
                 PROVE Agrees(mcTask[u], issue'[mcTask[u].number], lastSync)
      BY <1>4 DEF Agreed
    <2>1. mcTask[u].number \in Issues
      BY <1>1, Shapes DEF Numbers
    <2>2. CASE mcTask[u].number = p.number
      BY <1>1, <1>6, <2>2, NewerAgrees DEF AgreeContext
    <2>3. CASE mcTask[u].number # p.number
      <3>1. p.phase = "update"
        BY DEF GithubUpdates
      <3>2. u # p.task
        BY <2>3, <3>1 DEF AgreeContext, InStep, InTurn
      <3>3. ~Awaited(u)
        BY <1>3, <3>2 DEF Awaited
      <3> QED BY <1>6, <2>1, <2>3, <3>3 DEF AgreeContext, Settling, Agreed
    <2> QED BY <2>2, <2>3
  <1> QED BY <1>5, <1>7 DEF Settling

LEMMA CreateSettles ==
  ASSUME AgreeContext, NEW p \in pushes, NEW n \in Issues, GithubCreates(p, n)
  PROVE Settling'
  <1>1. GithubShape /\ p.task \in TaskIds
    BY Shapes DEF AgreeContext, IssueInv
  <1>2. PICK r \in Push :
          /\ pushes' = (pushes \ {p}) \cup {r}
          /\ r.phase = "created" /\ r.task = p.task /\ r.number = n /\ r.now = p.now
    BY <1>1, PushCreated
  <1>3. pushes' = {r} /\ pushes = {p}
    BY <1>2 DEF AgreeContext, InStep, OnePush
  <1>4. UNCHANGED <<mcTask, origin, lastSync, raced>> /\ ~issue[n].exists
    BY DEF GithubCreates, NextIssue
  <1>5. PushDated'
    BY <1>2, <1>3, <1>4 DEF PushDated, AgreeContext, Settling
  <1>6. issue'[n].updated = time /\ \A k \in Issues : k # n => issue'[k] = issue[k]
    BY <1>1 DEF GithubCreates, GithubShape, GithubTypeOK
  <1>7. CreatedLate'
    <2>1. lastSync <= issue'[n].updated /\ mcTask[p.task].updated <= issue'[n].updated
      BY <1>1, <1>6, NewerAgrees DEF AgreeContext
    <2> QED BY <1>2, <1>3, <1>4, <2>1 DEF CreatedLate
  <1>8. Agreed'
    <2> SUFFICES ASSUME NEW u \in TaskIds, origin[u] # "silent", mcTask[u].number \notin {0} \cup raced,
                        ~Awaited(u)'
                 PROVE Agrees(mcTask[u], issue'[mcTask[u].number], lastSync)
      BY <1>4 DEF Agreed
    <2>1. mcTask[u].number \in Issues \ {n}
      BY <1>1, <1>4, Shapes DEF Numbers, AgreeContext, IssueInv, Apartness, Numbered
    <2>2. u # p.task
      BY <1>2, <1>3 DEF Awaited
    <2>3. ~Awaited(u)
      BY <1>3, <2>2 DEF Awaited
    <2> QED BY <1>6, <2>1, <2>3 DEF AgreeContext, Settling, Agreed
  <1> QED BY <1>5, <1>7, <1>8 DEF Settling

LEMMA EndSettles ==
  ASSUME AgreeContext, NEW p \in pushes, PushEnds(p)
  PROVE Settling'
  <1>1. GithubShape /\ p.task \in TaskIds
    BY Shapes DEF AgreeContext, IssueInv
  <1>2. /\ p.phase \in {"updated", "created"} /\ UNCHANGED <<issue, lastSync, raced, origin>>
        /\ pushes' = pushes \ {p}
    BY DEF PushEnds
  <1>3. pushes = {p} /\ pushes' = {}
    BY <1>2 DEF AgreeContext, InStep, OnePush
  <1>4. CreatedLate' /\ PushDated'
    BY <1>3 DEF CreatedLate, PushDated
  <1>5. /\ \A u \in TaskIds : u # p.task => mcTask'[u] = mcTask[u]
        /\ mcTask'[p.task].status = mcTask[p.task].status
        /\ mcTask'[p.task].updated = mcTask[p.task].updated
        /\ mcTask'[p.task].number = IF p.phase = "created" THEN p.number ELSE mcTask[p.task].number
        /\ mcTask'[p.task].synced = p.now
    BY <1>1, PushEnded
  <1>6. Agreed'
    <2> SUFFICES ASSUME NEW u \in TaskIds, origin[u] # "silent", mcTask'[u].number \notin {0} \cup raced
                 PROVE Agrees(mcTask'[u], issue[mcTask'[u].number], lastSync)
      BY <1>2 DEF Agreed
    <2>1. CASE u # p.task
      <3>1. mcTask'[u] = mcTask[u] /\ ~Awaited(u)
        BY <1>3, <1>5, <2>1 DEF Awaited
      <3> QED BY <3>1 DEF AgreeContext, Settling, Agreed
    <2>2. CASE u = p.task /\ p.phase = "created"
      <3>1. mcTask'[u].number = p.number /\ mcTask'[u].updated = mcTask[u].updated
        BY <1>5, <2>2
      <3>2. lastSync <= issue[p.number].updated /\ mcTask[u].updated <= issue[p.number].updated
        BY <2>2, <3>1 DEF AgreeContext, Settling, CreatedLate
      <3> QED BY <3>1, <3>2 DEF Agrees
    <2>3. CASE u = p.task /\ p.phase = "updated"
      <3> DEFINE m == mcTask[u]
                 n == mcTask'[u]
                 i == issue[m.number]
      <3>1. n.number = m.number /\ n.status = m.status /\ n.updated = m.updated /\ n.synced = p.now
        BY <1>5, <2>3
      <3>2. ~Awaited(u)
        BY <1>3, <2>3 DEF Awaited
      <3>3. Agrees(m, i, lastSync)
        BY <3>1, <3>2 DEF AgreeContext, Settling, Agreed
      <3>4. m.number \in Issues /\ i.updated \in Nat
        BY <1>1, <3>1, Shapes, Dates DEF Numbers
      <3>5. m.updated \in Nat /\ m.synced \in Nat /\ p.now \in Nat /\ Window \in Nat
        BY <1>1, Dates
      <3>6. \/ m.updated = p.now /\ m.synced <= p.now
            \/ m.synced = m.updated
        BY <1>1, <2>3 DEF AgreeContext, Settling, PushDated, GithubShape, GithubTypeOK
      <3>7. m.updated <= i.updated /\ Near(m, i) => Near(n, i)
        BY <3>1, <3>4, <3>5, <3>6 DEF Near, Abs
      <3> QED BY <3>1, <3>3, <3>7 DEF Agrees
    <2> QED BY <1>2, <2>1, <2>2, <2>3
  <1> QED BY <1>4, <1>6 DEF Settling

LEMMA EditSettles ==
  ASSUME AgreeContext, NEW n \in Issues, NEW closed, NEW label, EditIssue(n, closed, label)
  PROVE Settling'
  <1>1. GithubShape
    BY DEF AgreeContext, IssueInv
  <1>2. UNCHANGED <<mcTask, origin, pushes, lastSync, raced>>
    BY DEF EditIssue
  <1>3. issue'[n].updated = time /\ \A k \in Issues : k # n => issue'[k] = issue[k]
    BY <1>1 DEF EditIssue, GithubShape, GithubTypeOK
  <1>4. \A t \in TaskIds : /\ lastSync <= issue'[n].updated /\ mcTask[t].updated <= issue'[n].updated
                           /\ Agrees(mcTask[t], issue'[n], lastSync)
    BY <1>1, <1>3, NewerAgrees DEF AgreeContext
  <1>5. CreatedLate'
    <2> SUFFICES ASSUME NEW p \in pushes, p.phase = "created", p.number \notin raced
                 PROVE /\ lastSync <= issue'[p.number].updated
                       /\ origin[p.task] # "silent" => mcTask[p.task].updated <= issue'[p.number].updated
      BY <1>2 DEF CreatedLate
    <2>1. p.number \in Issues /\ p.task \in TaskIds
      BY <1>1, Shapes DEF GithubShape
    <2> QED BY <1>3, <1>4, <2>1 DEF AgreeContext, Settling, CreatedLate
  <1>6. Agreed'
    <2> SUFFICES ASSUME NEW u \in TaskIds, origin[u] # "silent", mcTask[u].number \notin {0} \cup raced,
                        ~Awaited(u)
                 PROVE Agrees(mcTask[u], issue'[mcTask[u].number], lastSync)
      BY <1>2 DEF Agreed, Awaited
    <2>1. mcTask[u].number \in Issues
      BY <1>1, Shapes DEF Numbers
    <2> QED BY <1>3, <1>4, <2>1 DEF AgreeContext, Settling, Agreed
  <1> QED BY <1>2, <1>5, <1>6 DEF Settling, PushDated, AgreeContext

LEMMA SameSettles ==
  ASSUME Settling, UNCHANGED <<mcTask, origin, issue, pushes, lastSync, raced>>
  PROVE Settling'
  BY DEF Settling, CreatedLate, PushDated, Agreed, Awaited

(* What a task is taken from, it agrees with.                              *)
LEMMA TakenSettles ==
  ASSUME NEW i \in Issue, NEW default
  PROVE StatusOf(i, StatusOf(i, default)) = StatusOf(i, default)
  BY DEF StatusOf, Issue

LEMMA PullSettles ==
  ASSUME AgreeContext, SinceLast, SeenNow, NEW q \in Pullers, PullApplies(q)
  PROVE Settling'
  <1> DEFINE now == pull[q].now
  <1>1. GithubShape /\ Numbered /\ SeenOnce /\ CreatedApart
    BY DEF AgreeContext, IssueInv, Apartness
  <1>2. /\ UNCHANGED <<issue, pushes>> /\ raced \subseteq raced' /\ lastSync' = now
        /\ pull[q].phase = "answered"
        /\ origin' = [t \in TaskIds |-> IF mcTask'[t] = mcTask[t] THEN origin[t] ELSE "pulled"]
    BY DEF PullApplies
  <1>3. pull[q].since = lastSync
    BY <1>2 DEF SinceLast
  <1>4. PICK new \in [Unknown(q) -> {t \in TaskIds : ~mcTask[t].exists}] :
          \A t \in TaskIds :
            \/ \E s \in Unknown(q) : t = new[s] /\ NewTask(t, s, now)
            \/ \E s \in pull[q].seen : Overwritten(t, s, now)
            \/ /\ mcTask'[t] = mcTask[t]
               /\ \A s \in pull[q].seen : t \in TasksOf(s.number) => ~Overwrites(t, s.at)
    BY <1>1, Pulled
  <1>5. ASSUME NEW t \in TaskIds, mcTask[t].exists, mcTask'[t] # mcTask[t]
        PROVE mcTask'[t].updated = now /\ mcTask'[t].synced = now
    BY <1>4, <1>5 DEF Overwritten
  <1>6. \A p \in pushes : p.task \in TaskIds /\ mcTask[p.task].exists
    BY <1>1, Shapes DEF Numbered
  <1>7. PushDated'
    <2> SUFFICES ASSUME NEW p \in pushes
                 PROVE /\ origin'[p.task] = "pushed" =>
                            mcTask'[p.task].updated = p.now /\ mcTask'[p.task].synced <= p.now
                       /\ origin'[p.task] = "pulled" => mcTask'[p.task].synced = mcTask'[p.task].updated
      BY <1>2 DEF PushDated
    <2>1. CASE mcTask'[p.task] = mcTask[p.task]
      BY <1>2, <1>6, <2>1 DEF AgreeContext, Settling, PushDated
    <2>2. CASE mcTask'[p.task] # mcTask[p.task]
      BY <1>2, <1>5, <1>6, <2>2
    <2> QED BY <2>1, <2>2
  <1>8. ASSUME NEW n \in Issues, issue[n].exists
        PROVE \/ now <= issue[n].updated
              \/ [number |-> n, at |-> issue[n]] \in pull[q].seen
              \/ issue[n].updated < lastSync /\ \A s \in pull[q].seen : s.number # n
    <2>1. issue[n].updated \in Nat /\ now \in Nat
      BY <1>1, Dates
    <2> QED BY <1>2, <1>3, <1>8, <2>1 DEF SeenNow
  <1>9. CreatedLate'
    <2> SUFFICES ASSUME NEW p \in pushes, p.phase = "created", p.number \notin raced'
                 PROVE /\ now <= issue[p.number].updated
                       /\ origin'[p.task] # "silent" => mcTask'[p.task].updated <= issue[p.number].updated
      BY <1>2 DEF CreatedLate
    <2>1. p.number \in Issues /\ issue[p.number].exists /\ TasksOf(p.number) = {} /\ p.number \notin raced
      BY <1>1, <1>2 DEF GithubShape, Numbered, CreatedApart
    <2>2. \A s \in pull[q].seen : s.number # p.number
      <3> DEFINE met == {s \in Unknown(q) : \E r \in pushes : r.phase = "created" /\ r.number = s.number}
      <3>1. raced' = raced \cup {s.number : s \in met}
        BY DEF PullApplies
      <3>2. \A s \in pull[q].seen : s.number = p.number => s \in met
        BY <2>1 DEF Unknown
      <3> HIDE DEF met
      <3> QED BY <3>1, <3>2
    <2>3. /\ lastSync <= issue[p.number].updated
          /\ origin[p.task] # "silent" => mcTask[p.task].updated <= issue[p.number].updated
      BY <2>1 DEF AgreeContext, Settling, CreatedLate
    <2>4. issue[p.number].updated \in Nat /\ lastSync \in Nat /\ now \in Nat
      BY <1>1, <2>1, Dates
    <2>5. now <= issue[p.number].updated
      <3>1. [number |-> p.number, at |-> issue[p.number]] \notin pull[q].seen
        BY <2>2
      <3> QED BY <1>8, <2>1, <2>3, <2>4, <3>1
    <2>6. CASE mcTask'[p.task] = mcTask[p.task]
      BY <1>2, <1>6, <2>3, <2>5, <2>6
    <2>7. CASE mcTask'[p.task] # mcTask[p.task]
      BY <1>5, <1>6, <2>5, <2>7
    <2> QED BY <2>6, <2>7
  <1>10. ASSUME NEW t \in TaskIds, origin'[t] # "silent", mcTask'[t].number \notin {0} \cup raced',
                ~Awaited(t)
         PROVE Agrees(mcTask'[t], issue[mcTask'[t].number], now)
    <2> DEFINE n == mcTask'[t].number
               i == issue[n]
               record == [number |-> n, at |-> i]
    <2>1. \A s \in pull[q].seen : s.number \in Issues /\ s.at \in Issue /\ issue[s.number].exists
      BY <1>1, Shapes DEF Numbered
    <2>2. n \in Issues /\ i \in Issue /\ i.exists
      <3>1. CASE \E s \in Unknown(q) : NewTask(t, s, now)
        BY <1>1, <2>1, <3>1, Shapes DEF NewTask, Unknown
      <3>2. CASE mcTask'[t].number = mcTask[t].number
        BY <1>1, <1>10, <3>2, Shapes DEF Numbered, Numbers
      <3> QED BY <1>4, <3>1, <3>2 DEF Overwritten
    <2>3. i.updated \in Nat /\ now \in Nat /\ lastSync \in Nat /\ Window \in Nat \ {0}
      BY <1>1, <2>2, Dates
    <2>4. ASSUME NEW s \in pull[q].seen, NEW default, s.number = n, mcTask'[t].status = StatusOf(s.at, default),
                 mcTask'[t].updated = now
          PROVE Agrees(mcTask'[t], i, now)
      <3>1. CASE now <= i.updated
        BY <2>4, <3>1 DEF Agrees
      <3>2. CASE record \in pull[q].seen
        <4>1. s.at = i
          BY <1>1, <2>4, <3>2 DEF SeenOnce
        <4> QED BY <2>2, <2>4, <4>1, TakenSettles DEF Agrees
      <3> QED BY <1>8, <2>2, <2>4, <3>1, <3>2
    <2>5. CASE \E s \in Unknown(q) : NewTask(t, s, now)
      BY <2>4, <2>5 DEF NewTask, Unknown
    <2>6. CASE \E s \in pull[q].seen : Overwritten(t, s, now)
      BY <2>4, <2>6 DEF Overwritten
    <2>7. CASE /\ mcTask'[t] = mcTask[t]
               /\ \A s \in pull[q].seen : t \in TasksOf(s.number) => ~Overwrites(t, s.at)
      <3> DEFINE m == mcTask[t]
      <3>1. Agrees(m, i, lastSync)
        BY <1>2, <1>10, <2>7 DEF AgreeContext, Settling, Agreed
      <3>2. CASE StatusOf(i, m.status) = m.status
        BY <2>7, <3>2 DEF Agrees
      <3>3. CASE m.updated <= i.updated /\ (lastSync <= i.updated \/ Near(m, i))
        <4>1. CASE now <= i.updated \/ Near(m, i)
          BY <2>7, <3>3, <4>1 DEF Agrees
        <4>2. CASE record \in pull[q].seen
          <5>1. t \in TasksOf(n)
            BY <1>1, <2>2, <2>7, Shapes DEF TasksOf, Numbered
          <5>2. ~Overwrites(t, i)
            BY <2>7, <4>2, <5>1
          <5>3. m.updated \in Nat /\ m.synced \in Nat
            BY <1>1, Dates
          <5>4. Near(m, i)
            BY <2>3, <3>3, <5>2, <5>3 DEF Overwrites, Near, Abs
          <5> QED BY <4>1, <5>4
        <4>3. CASE i.updated < lastSync
          BY <2>3, <3>3, <4>1, <4>3
        <4> QED BY <1>8, <2>2, <4>1, <4>2, <4>3
      <3> QED BY <3>1, <3>2, <3>3 DEF Agrees
    <2> QED BY <1>4, <2>5, <2>6, <2>7
  <1>11. Agreed'
    BY <1>2, <1>10 DEF Agreed, Awaited
  <1> QED BY <1>7, <1>9, <1>11 DEF Settling

LEMMA SettlingStays ==
  ASSUME AgreeInv, [GithubNext]_githubVars, orderly', ~pullsMet'
  PROVE Settling'
  <1>1. GithubShape /\ Blank /\ SinceLast /\ SeenNow /\ ~pullsMet
    BY MetForGood DEF AgreeInv, EchoInv, IssueInv
  <1>2. orderly => AgreeContext
    BY <1>1 DEF AgreeInv, EchoInv, AgreeContext
  <1>3. ASSUME orderly, UNCHANGED <<mcTask, origin, issue, pushes, lastSync, raced>> PROVE Settling'
    BY <1>2, <1>3, SameSettles DEF AgreeContext
  <1>4. ASSUME NEW t \in TaskIds, NEW status \in Statuses, NEW number \in Numbers, NEW inTurn \in BOOLEAN,
               StartPush(t, status, number, inTurn), Written(t, status),
               inTurn => number \in {0, mcTask[t].number}, UNCHANGED <<time, issue, pull, lastSync, raced>>
        PROVE Settling'
    <2>1. orderly /\ PushedBy(t, status) /\ origin' = [origin EXCEPT ![t] = "pushed"]
      BY <1>1, <1>4, PushInTurn
    <2> QED BY <1>2, <1>4, <2>1, WriteSettles
  <1>5. ASSUME NEW t \in TaskIds, CreateMcTask(t) PROVE Settling'
    <2>1. Written(t, "inbox")
      <3>1. mcTask[t].status = "inbox"
        BY <1>1, <1>5 DEF CreateMcTask, Blank
      <3> QED BY <1>1, <1>5, <3>1, TaskCreated
    <2>2. StartPush(t, "inbox", 0, TRUE) /\ UNCHANGED <<time, issue, pull, lastSync, raced>>
      BY <1>5 DEF CreateMcTask
    <2>3. "inbox" \in Statuses /\ 0 \in Numbers
      BY GithubAssumption DEF Numbers
    <2> QED BY <1>4, <2>1, <2>2, <2>3
  <1>6. ASSUME NEW t \in TaskIds, NEW status \in Statuses, WriteTask(t, status)
        PROVE Written(t, status) /\ UNCHANGED <<time, issue, pull, lastSync, raced>>
    BY <1>1, <1>6, TaskWritten DEF WriteTask
  <1>7. ASSUME NEW t \in TaskIds, NEW status \in Statuses, ApiWrites(t, status) PROVE Settling'
    <2>1. StartPush(t, status, mcTask[t].number, TRUE) /\ WriteTask(t, status)
      BY <1>7 DEF ApiWrites
    <2>2. mcTask[t].number \in Numbers
      BY <1>1, Shapes
    <2> QED BY <1>4, <1>6, <2>1, <2>2
  <1>8. ASSUME NEW t \in TaskIds, NEW status \in Statuses, DispatcherWrites(t, status) PROVE Settling'
    <2>1. WriteTask(t, status)
      BY <1>8 DEF DispatcherWrites
    <2>2. PICK number \in row[t] : StartPush(t, status, number, number = mcTask[t].number)
      BY <1>8 DEF DispatcherWrites
    <2>3. number \in Numbers
      BY <1>1, <2>2 DEF GithubShape, GithubTypeOK
    <2> DEFINE inTurn == number = mcTask[t].number
    <2>4. StartPush(t, status, number, inTurn) /\ inTurn \in BOOLEAN /\ (inTurn => number = mcTask[t].number)
      BY <2>2
    <2> HIDE DEF inTurn
    <2> QED BY <1>4, <1>6, <2>1, <2>3, <2>4
  <1>9. ASSUME NEW t \in TaskIds, NEW status \in Statuses, ReviewWrites(t, status) PROVE Settling'
    <2>1. StartPush(t, status, 0, TRUE) /\ WriteTask(t, status) /\ 0 \in Numbers
      BY <1>9 DEF ReviewWrites, Numbers
    <2> QED BY <1>4, <1>6, <2>1
  <1>10. ASSUME NEW t \in TaskIds, NEW status \in Statuses, OtherJobWrites(t, status) PROVE Settling'
    BY <1>2, <1>10, SilentSettles DEF OtherJobWrites
  <1>11. ASSUME NEW p \in pushes,
                \/ GithubUpdates(p) \/ PushEnds(p) \/ PushFails(p)
                \/ \E n \in Issues : GithubCreates(p, n)
         PROVE Settling'
    <2>1. ~PushFails(p)
      BY DEF PushFails
    <2>2. orderly
      BY <1>11, <2>1 DEF GithubUpdates, PushEnds, GithubCreates
    <2> QED BY <1>2, <1>11, <2>1, <2>2, UpdateSettles, EndSettles, CreateSettles
  <1>12. ASSUME NEW q \in Pullers, PullStarts(q) \/ GithubAnswers(q) PROVE Settling'
    BY <1>3, <1>12 DEF PullStarts, GithubAnswers
  <1>13. ASSUME NEW q \in Pullers, PullApplies(q) \/ PullFails(q) PROVE Settling'
    <2>1. ~PullFails(q)
      BY DEF PullFails
    <2>2. orderly
      BY <1>13, <2>1 DEF PullApplies
    <2> QED BY <1>1, <1>2, <1>13, <2>1, <2>2, PullSettles
  <1>14. ASSUME NEW n \in Issues, NEW closed \in BOOLEAN,
                EditIssue(n, closed, IF closed THEN "none" ELSE "inbox")
         PROVE Settling'
    <2>1. orderly
      BY <1>14 DEF EditIssue
    <2> QED BY <1>2, <1>14, <2>1, EditSettles
  <1> QED BY <1>3, <1>5, <1>7, <1>8, <1>9, <1>10, <1>11, <1>12, <1>13, <1>14
       DEF GithubNext, githubVars, DispatcherReads, TimePasses

LEMMA AgreeStarts == GithubInit => AgreeInv
  <1> SUFFICES ASSUME GithubInit PROVE Clocked /\ OneAtATime /\ SinceLast /\ SeenNow /\ Settling
    BY EchoStarts DEF AgreeInv
  <1> QED BY GithubAssumption
       DEF GithubInit, NoPull, Clocked, OneAtATime, SinceLast, SeenNow, Settling, CreatedLate, PushDated, Agreed

(* As long as pushes and pulls took turns: once the calls ended and a pull *)
(* that had started after the last change of an issue came through, the    *)
(* task and the issue agree, but for what the window of ten seconds skips: *)
(* no change gets lost between the answer of a push and that of a pull.    *)
THEOREM TasksSettle == GithubSpec => []Agreement
  <1>1. AgreeInv /\ [GithubNext]_githubVars => EchoInv'
    BY IssueStays, DatedStays, BlankStays, InStepStays DEF AgreeInv, EchoInv, IssueInv
  <1>2. AgreeInv /\ [GithubNext]_githubVars => AgreeInv'
    BY <1>1, ClockedStays, MetForGood, AloneStays, SeenNowStays, SettlingStays
       DEF AgreeInv, EchoInv, IssueInv
  <1>3. AgreeInv => Agreement
    <2> SUFFICES ASSUME AgreeInv, orderly, ~pullsMet, pushes = {}, NEW t \in TaskIds, origin[t] # "silent",
                        mcTask[t].number \notin {0} \cup raced
                 PROVE LET i == issue[mcTask[t].number]
                       IN \/ Settles(t, i)
                          \/ lastSync <= i.updated
                          \/ \E at \in {mcTask[t].synced, mcTask[t].updated} : Abs(i.updated, at) < Window
      BY DEF Agreement
    <2>1. Agrees(mcTask[t], issue[mcTask[t].number], lastSync)
      BY DEF AgreeInv, Settling, Agreed, Awaited
    <2> QED BY <2>1 DEF Agrees, Near, Settles
  <1> QED BY <1>2, <1>3, AgreeStarts, PTL DEF GithubSpec

=============================================================================
