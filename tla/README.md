# Mission Control in TLA+

A verification project for Mission Control (a Next.js application over one
SQLite database): TLA+ modules translated from the code, the TLC runs that
check them on small instances, and theorems that TLAPS proves for every value
of the constants. Paths are those of the repository; `task-dispatch.ts:1767`
means `src/lib/task-dispatch.ts`, line 1767.

    tlc -workers 2 -config TaskRaces.cfg MCTaskDispatch.tla
    tlc -workers 2 -config Server.cfg MCServer.tla
    tlapm TaskDispatchProofs.tla

Which module each configuration belongs to is said in the table of runs.

## The system

Everything lives in one Node process. Database calls (better-sqlite3) are
synchronous, so the code between two `await`s is one atomic step; whatever else
runs in the process runs while somebody awaits a gateway, a model provider, a
child process, a file, GitHub or a webhook. The hard part of nearly every
component is the same: something is read, something is awaited, and something is
written from what was read before.

| Component | State | Operations | Hard behaviour | What makes it correct |
|---|---|---|---|---|
| Task loop `lib/task-dispatch.ts` | `tasks`, `quality_reviews`, `comments` | route inbox, reconcile deferred runs, dispatch, requeue stale, review | overlapping activations, unguarded updates after awaits, three writers of one counter, restarts | no double handout, bounded retries, each task settles, a review sees the latest answer |
| Task API `app/api/tasks/**`, `quality-review` | the same rows | create, move, assign, mention, bulk move, delete, review, poll the queue | people, agents and the pull from GitHub write under the jobs | done only with an approval, but for three writers that ask for none |
| Scheduler `lib/scheduler.ts` | job table in memory | tick, manual trigger, switch | ticks overlap, await beyond their minute, come late or short; triggers ignore `running` | one activation of a job by ticks, none starved |
| Recurring tasks `lib/recurring-tasks.ts`, `schedule-parser.ts` | metadata of templates, `tasks` | spawn | overlapping spawns, minutes that are skipped, metadata overwritten | one child per matching minute, none missed |
| Agents `lib/agent-sync.ts`, `app/api/agents/**` | `agents`, `openclaw.json` | create, update, delete, sync; register, heartbeat | two stores written one after the other without a lock, one replaced and one merged | an entry has what its row says |
| Skills `lib/skill-sync.ts`, `skill-registry.ts`, `app/api/skills/**` | `skills`, directories | write, install, delete, sync | the row is written after the file, the disk changes behind it | the list is what is on disk |
| Webhooks `lib/webhooks.ts` | `webhooks`, `webhook_deliveries` | fire, deliver, retry, trip the breaker, prune | delivery awaited between read and write, pruning of rows that are due, restart | one chain of retries per event, bounded, lost to pruning only after as many newer rows as it keeps; a dead endpoint disabled |
| Notifications `api/notifications/**` | `notifications` | create, deliver, mark, delete | overlapping deliveries, batches of the oldest | none lost, none starved |
| Provisioning `lib/super-admin.ts` | `tenants`, `provision_jobs` | create, approve, reject, cancel, execute | two jobs on one tenant, failure in a step, restart | two people for a live job, tenant status tells the truth |
| Pipelines `app/api/pipelines/run` | `pipeline_runs` | start, advance, cancel | advance awaits a spawn between read and write | steps in order, a settled run stays so |
| GitHub sync `lib/github-sync-engine.ts` | `tasks.github_*`, `github_syncs` | push, pull | both directions race, no overlap guard | one task per issue, no echo, agreement in the end |
| Exec approvals `api/exec-approvals` | `exec-approvals.json` | load, save | compare and write under awaits | a save is kept |
| Rate limiter `lib/rate-limit.ts` | windows in memory | check, evict, clean up | windows that meet, capacity | bounded requests per time |
| File lock `lib/atomic-file.ts` | lock directory | acquire, release, break a dead lock | process death | no change lost, no lock for ever |
| Terminals `lib/pty-manager.ts`, `pty-websocket.ts` | PTYs in memory | start, attach, detach, exit, idle timeout | ends in any order | no process without a watcher |
| Browser: board `task-board-panel.tsx`, `use-server-events.ts`, `use-smart-poll.ts` | tasks in the store | events, polls, fetches of a page, drops | answers and events overtake each other; a drop shows before the server agrees and may be taken back | tasks on the board follow the table |
| Browser: gateway `lib/websocket.ts` | socket, timers | connect, reconnect, heartbeat | late handlers, timers that nobody holds | one live socket, a lost one is tried again |
| Runs ledger, GNAP sync, sessions, authentication, database and migrations, memory and tracing, scanners, panels, CLI | rows, files, views | record, mirror, parse, show | little protocol of their own | see "Not modelled" |

## Modules

| Module | Models |
|---|---|
| `TaskDispatch` | task loop and task API |
| `HandoutLedger` | what the task loop promises about handouts; `TaskDispatch` implements it (`Contract`, `LedgerIsKept`) |
| `Scheduler`, `RecurringTasks` | ticks and jobs; spawning of templates |
| `Schedules` | their composition: the scheduler runs the job that spawns |
| `WebhookDelivery` | deliveries, retries and circuit breaker of a webhook |
| `FileLock` | the lock of openclaw.json and its replacement |
| `GithubSync` | tasks and issues, pushes and pulls |
| `AllowList`, `RateLimiter`, `Notifications`, `PipelineRun`, `Provisioning` | one component each |
| `AgentConfig`, `SkillMirror` | rows of agents and openclaw.json; rows of skills and the disk |
| `LiveBoard`, `GatewaySocket`, `Terminals` | the browser's board, its connection to the gateway; terminals |
| `MCTaskDispatch`, `MCSchedules`, `MCGithubSync` | instances: symmetry, calendars, bounds |
| `MCServer`, `MCCopies` | components side by side, for one run each |
| `TaskDispatchProofs`, `WebhookDeliveryProofs`, `FileLockProofs`, `SchedulerProofs` (of `Schedules` as well), `GithubSyncProofs`, `ProvisioningProofs` | theorems of one component each |
| `ServerProofs`, `CopiesProofs` | theorems of the components of `MCServer` and `MCCopies`, and of their composition |

`MCServer` and `MCCopies` put components side by side that share no state: the
variable `part` names the one that runs, chosen in the initial state, and the
others rest. The behaviours are those of each component for itself, so a
property of one is checked in all of its behaviours and no product of states is
built. Components that do interact are composed for real: the task loop and the
API that writes its rows in one module, `Scheduler` and `RecurringTasks` in
`Schedules`.

### TaskDispatch

*State.* The columns of a task the loop looks at (`status`, `assignee`,
`attempts` for `dispatch_attempts`, `answer` for `resolution`, `pendingRun` for
the run named in the metadata while `async_state` is `pending`, `aegis` for the
newest review by Aegis), the agents' statuses, whether a gateway is available,
and what each running activation holds in its local variables: `job` (batch and
awaited call of a dispatcher), `review` (batch and awaited task of a reviewer),
`waits` (the rows a reconciler read). `handouts`, `rejections` and `edits` are
history: no action of the code reads them (an `edits` bound and a `rejections`
bound close the model).

*Steps.* One action per stretch of code between awaits: `RouteInbox` runs the
whole `autoRouteInboxTasks` and the query of the reconcile pass;
`PromoteDeferred` and `KeepWaiting` are what follows `agent.wait`;
`SelectAssigned` is the dispatch query and the first claim, `DispatchNext` each
further claim or skip; `CompleteSync`, `AcceptDeferred` and `FailDispatch` end
the awaited call; `RequeueStale` is the whole requeue job, which awaits nothing;
`StartReviews`, `NextReview`, `Approve`, `Reject`, `ReviewFails` are the review
job. The API routes are one action each. `PullIssue` is what the pull from
GitHub does to a task of the loop: it writes the status of the issue, 'done' too,
and asks for no approval. `Restart` forgets everything that is not in the database.

*Abstractions.* Scores and priorities choose which matching rows come first: any
may. Time is left out: a task may be stale at any moment and any call may time
out. Texts are left out except the one comment whose wording decides whether the
dispatcher finds a rejection. Titles, tags, costs, projects, workspaces,
activities and events do not feed back into the loop. `online` stands for every
status of an agent other than `offline` and `error`.

*Refinement.* `HandoutLedger` knows of a task only whether it may be given to an
agent, and counts grants, failures and writes. A task may be given away again
only after a counted failure below the limit or a write from outside. `Contract`
maps `open` to "in a status that is claimed", the counters to `handouts`,
`attempts` and `edits`; every step of the loop is a step of the ledger for each
task.

### Scheduler, RecurringTasks, Schedules

*State.* The clock and the minute the timer fired in last, the entries of the job
map (`running`, `nextRun`, `lastRun`, the setting), the ticks that await a job with
the time they were fired at, the metadata of each template and the titles of its
children.

*Steps.* `MinutePasses` moves the clock, whatever is awaited. `Fire` is a tick up to
its first await: it goes through the order, runs the jobs that await nothing, skips
those that are not due, switched off or running, and stops at the first it awaits;
`JobEnds` writes the entry with the time of the tick and goes on from there,
perhaps minutes later. A tick that is `short` was fired some milliseconds less than
an interval after the last one, so that a job it ran then is not due yet.
`SpawnRecurringTasks` is the whole job: the fields of the cron expression that
`isCronDue` reads, the check of `last_spawned_at`, the suffix of the title, the
check for a child of that name. In `Schedules` it happens when the scheduler starts
the job, with the clock of that moment and not the time of the tick, or when a
person triggers it.

*Abstractions.* Time is counted in minutes; days, weeks and years are short. What
other jobs do is left to other modules. A trigger of a job that awaits is part of
`TaskDispatch`, where two activations overlap. Children are neither renamed nor
deleted.

### WebhookDelivery

*State.* The webhook's row (`hook`), its `webhook_deliveries` (`rows`; `due` is
`next_retry_at IS NOT NULL`, `auto` is `allowRetry`), the deliveries that await
the endpoint (`inFlight`), and the rows an activation of the retry job selected
and has yet to deliver (`batch`). `posts`, `writes`, `restarts` and `answered`
are history.

*Steps.* `Fire` is `fireWebhooksAsync` up to the request; `Finish` is all of the
bookkeeping after the await: the row, the counter, the retry or the breaker, the
pruning. `StartRetries` is `processWebhookRetries` up to its first await,
`NextRetry` each further row. `Switch`, `ResetCircuit`, `DeleteWebhook`,
`RetryByHand` and `SendTest` are the routes of an admin.

*Abstractions.* One webhook: webhooks share only the batch of the retry job. A
retry may come due at any moment. URL, signature and payload are left out.

### FileLock

*State.* The lock directory (`dir`, who made it) and its owner file (`owner`, who
created it and whether the pid is in it), the configuration as the set of changes
in it, and what each process does next.

*Steps.* The code is synchronous, so the requests of one process do not
interleave; processes do, between system calls, and a step is a system call.
`rmSync` of the directory is two of them, for its content and for itself.
`ReplaceConfig` is `atomicReplaceFileSync`: of its temporary file others see the
rename only. A request that fails is followed by another, as page loads
and gateway connections repeat `registerMcAsDashboard`.

### GithubSync

*State.* Tasks and issues with their statuses and times of change, the row the
caller of a push holds, the pushes and pulls under way with what GitHub told
them, and the time of the last recorded sync.

*Steps.* A write of a task, by a route or a job, starts a push or does not;
`GithubCreates` and `GithubUpdates` are what GitHub does with it, `PushEnds` is
the update of the row afterwards. A pull asks for what changed since the last
sync (`PullStarts`), is answered (`GithubAnswers`) and goes through the issues
(`PullApplies`): new ones become tasks, known ones change the task unless it was
written later or within the window of ten seconds.

*Abstractions.* Title, body, labels and assignee are carried by the status.

### The components of MCServer

`AllowList`: a save reads the file and compares hashes, unless it sends none or
there is no file, and writes after another await, which empties the file first;
OpenClaw writes whenever it likes, and the file may be removed.
`RateLimiter`: one clock, the map from clients to windows, eviction of the window
that ends first. `Notifications`: a call of the delivery route holds a batch of
the oldest undelivered rows and awaits one command after the other; the command
may succeed, fail, or reach the agent and still be taken for a failure.
`PipelineRun`: a request reads the row, awaits the agent of the next step and
writes status, step number and snapshot from what it read. `Provisioning`: jobs
and tenants; an execution is a request with the command it awaits and the status
of the tenant it remembered. `GatewaySocket`: the module variables and refs of
`websocket.ts`, every socket there ever was, the timer that is held and those nobody
holds; an address may be one the constructor of WebSocket throws for. `Terminals`:
the socket, the process, the pool, the client map and the idle timer of each
connection.

### The components of MCCopies

`AgentConfig`. *State*: the rows of agents, the list in openclaw.json and whether
the file can be parsed, and the requests and syncs under way (`call`) with the
row and the list they read. *Steps*: each request up to its first await;
OpenClaw's command, which writes the file itself; `ReadConfig`, `EmptyConfig`
and `WriteConfig` are `readFile` and the two halves of `writeFile`;
`CallSucceeds` and `CallFails` what follows, with the update that takes the row
back; `SyncApplies` is the transaction of a sync. The three routes make an id of
a name with three different expressions, which are the constants `PostId`,
`PutId` and `DeleteId`. *Abstractions*: of the configuration one field is modelled
that all routes write, `model` say, with the fields inside it. A PUT replaces it in
the row (`{...existing, ...gateway_config}`), and `writeAgentToConfig` merges it into
the entry (`Merged`, which is `deepMerge`), so the entry may keep what the row no
longer has. A field that only one of the stores has (role, soul, the fields
`getWriteBackPayload` does not name) has no second half to agree with and is left
out. None of these requests takes the lock of `FileLock`.

`SkillMirror`. The content of each SKILL.md, the row of each skill, and the
requests that wrote the one and have yet to write the other. `SyncSkills` is the
whole job, which awaits nothing; it looks at the directories of an agent only
while there is a skill in them, and leaves rows from a registry alone.

`LiveBoard`. *State*: the table, the board as the number of entries and the column
of each task, the project that is chosen, the stream with the events on their way,
the fetches with their answers, and the drags and drops of `handleDrop` that are not
settled. *Steps*: `CreateRow`, `UpdateRow` and `DeleteRow` are writes of the table
with their broadcast, `WriteSilently` those of jobs that broadcast nothing.
`ServerAnswers` is the query of `GET /api/tasks`: the newest `PageLimit` tasks (50 in
the code, as the panel sends no limit) of the project asked for. `FetchEnds` replaces
the board by it, however old it is by then. `HandlerRegistered` puts the handler on
the bus, `StreamOpens` is what the browser hears of it later; events from between
are delivered. `DropTask` moves the entry ahead of the server, or asks for the
approval first (`ApprovalFound`); `ServerMoves` is the bulk PUT, whose answer may be
lost, `ServerRefuses` its errors, `MoveReverts` the `catch` that puts back the column
the drag began in. *Abstractions*: of a task its status counts; the columns
computed from other fields (`detectAwaitingOwner`) are layout. The reconcile pass
before the query is a write of the table like any other.

## Runs

| Run (module) | Instance | Shows |
|---|---|---|
| `TaskRaces` (`MCTaskDispatch`) | 1 task, 2 agents, 2 dispatchers, 1 reader, 1 poller, both gateway modes, restarts, 1 write by the API or the pull | `HandoutsArePaid`: a handout is paid for by creation, a counted failure or a write; `DoneCarriesApproval`, but for the writers that ask for none; `LedgerIsKept`: the loop implements `HandoutLedger` |
| `TaskDirect` (`MCTaskDispatch`) | direct mode, 2 tasks, 2 dispatchers, 1 review activation, no writes | `WorkersOwnTheirTasks`: updates after awaits hit tasks where the job left them; `AnswerIsLatest`: reviews see the latest answer |
| `TaskSettles` (`MCTaskDispatch`) | gateway mode, limits 5 and 3 of the code, agent offline for good, fairness | `AssignedSettles`, `ReviewEnds`: tasks come to an end, offline work is freed, reviews end; `UnattendedHandoutBound`: five handouts at most |
| `WebhookRetries` (`WebhookDelivery`) | 2 events, 2 activations of the retry job, 1 request by hand, 2 admin writes, 1 restart, fairness | `OneChain`, `PostsBounded`, `DeadEndpointDisabled`, `RetriesEnd`; `NoRetryLost`: only a restart, the webhook's deletion or as many newer rows as the table keeps loses a retry |
| `LockUpdates` (`FileLock`) | 3 processes, 2 of them mortal, fairness | `NoChangeLost` while no live lock is stolen; `LockIsFreed`: locks are given up, dead owners removed |
| `Schedules` (`MCSchedules`) | 4 jobs, 6 minutes in days of two, 1 template with three schedules, 1 write of its metadata, ticks that are skipped, late or short and await across minutes, restarts | `OneTickPerJob`; `HungJobsDelayOnce`: a job that hangs delays a later one by one tick; `OnceAMinute`; `NoOccurrenceMissed` of each minute whose tick reaches the spawning job in it |
| `GithubSync` (`MCGithubSync`) | 2 tasks, 2 issues, 2 pushes, a poller and a request, 2 writes of tasks and 1 at GitHub | `OneTaskPerIssue`; `NoEcho`: a pull does not bring back what was pushed; `Agreement` once calls ended |
| `Server` (`MCServer`) | see the head of `Server.cfg`; fairness of the delivery | `TypeOK` of its components; `SavesAreKept` (allow lists); `TwiceAtMost` (rate limiter); `EachIsDelivered` (notifications); `SpawnsInOrder`, `SerialRunIsConsistent`, `SettledRunRests` (pipelines); `TwoPersonRule`, `TransientWhileExecuted` (provisioning); `OneLiveSocket`, `ShownIsGuarded`, `LostIsRetried` (gateway); `PtyIsWatched` (terminals) |
| `Copies` (`MCCopies`) | see the head of `Copies.cfg`; fairness of polls and syncs | `SaveIsUnified`, `FileIsMirrored` (agents); `SkillsMirrored`; `FollowsTable`: events keep right what an answer was right about; `PollRepairs`: with the stream down the board becomes the newest tasks of the project (board) |
| `FindingFeedback` (`MCTaskDispatch`) | 1 task | the feedback of a rejection never reaches the agent: the text written differs from the text looked for |
| `FindingInboxDirect` (`MCTaskDispatch`) | direct mode, agents without heartbeat, fairness | an inbox task is never routed |
| `FindingMonthly` (`MCSchedules`) | 1 template with a monthly schedule | it is spawned on other days, too |

Each module states its type invariant, which is a theorem of its specification;
`Server` checks those of its components together.

*Bounds.* `MaxEdits` bounds the writes through the API to one task,
`MaxRejections` the rejections; the attempts are bounded by the code itself
except where API writes reset a failed task. One task is enough for the ledger
and the limits, since no job relates two tasks except through batches and an
agent's load; two tasks make batches of two and loads matter (`TaskDirect`). Two
dispatchers are a tick and a manual trigger, the overlap the code permits.
`WebhookRetries` has MAX_RETRIES 3 (first, middle and last attempt differ), a
batch of both events and two rows kept, so that pruning meets scheduled retries and
does delete some. A batch that leaves a row behind needs more events than the run
has: the theorems hold for any batch, `RetriesEnd` is checked for this one.
`MaxWrites` bounds what admins do and `MaxRestarts` the restarts. `LockUpdates`
has no bound but the processes: a recoverer, its rival and the maker of the lock
they fight about.

`Schedules`: `LastMinute` bounds the clock. Three jobs that hang stand before the
one that spawns, so that it is passed by as often as it can be; six minutes hold two occurrences of a daily and
one of a weekly schedule, and a year of two days brings the same title again.
`GithubSync`: the two writes and two pushes make a push overtake the other; the
clock has the length of the skip window as its step, so that changes within,
at and beyond it occur. `ShortOnceDisorderly` cuts off behaviours in which pushes
or pulls overlapped after time 1: `Agreement` says nothing there, and what can
break the other two under pulls that overlap happens earlier (for any time it is
proved).

`Server`: two editors and OpenClaw are what can overtake a save; three sockets are
a late one, a current one and the next; three terminals share nothing but the pool; three
notifications with two for a dead agent fill a batch of two, one does not; a
pipeline of three steps has a first, a middle and a last one, two requests are
the overlap; two jobs of one tenant and two administrators; two clients in a map
with room for one evict each other. `Copies`: two agents of which one has a dot
at the end of its name, so that the three expressions for ids differ, and a field of
two fields of which a value may leave one out; two calls that overlap, two wishes and
one failure are a write and what meets it; three skills of which two share the
directory of an agent, that vanishes with the second. The board has a task and one
still to be created, pages of one task, so that the new one pushes the other out,
and a project of the first; two fetches overtake each other; `MaxChanges` bounds
writes, drags and choices of a project together, `MaxDrops` what fails. The bulk PUT
of a drop is not counted, so that two writes meet one drop. The inductive
invariant of the board was checked with `MaxChanges` 3, and `Copies` passed
with `MaxSkillEdits` 3, which takes longer.

*Fairness.* Tasks (`FairSpec`): the scheduler's interval starts every job again
and again, and each awaited call has a timeout, so the steps of an activation are
weakly fair. The requeue job is weakly fair for each task. That Aegis gives a
verdict in the end is an assumption (strong fairness of a verdict): a review that
fails is repeated without limit. Nothing is assumed of people, agents, or the
environment. For webhooks a delivery ends (ten seconds for the headers, the limit
of `fetch` for the body) and the scheduler comes back to the retry job. For the
lock a process that lives goes on with its request, and requests repeat.
`NotificationFairness`: the daemon calls the route again and again, and a command
ends within 30 s. `BoardFairness`: the interval of a mounted board fires while it
may, and its fetches are answered. `AgentFairness` and `SkillFairness`: the two
syncs are jobs of every minute, and awaited commands, reads and writes end.
`RestartScheduler` and the other restarts are never required.

*What the properties leave out.* Several hold only up to an event the code does
not guard against, which they name as a history variable:

* `NoChangeLost` and `LockIsFreed` hold until a living process loses a lock it
  held (`stolen`): an owner file that is still empty is taken for a dead one. A
  process that dies between `mkdir` and its owner file leaves a lock for good.
* A new handout in gateway mode can be completed with the answer of an earlier
  run, hence `AnswerIsLatest` in direct mode. Edits during an await are
  overwritten and overlapping activations of the review job review a task twice,
  hence neither in `WorkersOwnTheirTasks`. A restart during a review leaves the task
  in `quality_review`, hence `ReviewEnds` without restarts.
* `DoneCarriesApproval`: three writers ask for no approval and are named by
  `waived`: the pull of a closed issue (`github-sync-engine.ts:182`), a review that
  is posted in another name than Aegis', and the creation of a task that is done.
  An approval of an earlier round counts (`app/api/tasks/[id]/route.ts:58`).
* `NoRetryLost`: a restart forgets what a retry job holds, and pruning asks of no
  row whether it is due: after as many newer deliveries as the table keeps the
  retry is gone.
* `SerialRunIsConsistent`: requests that overlap spawn a step twice (`serial`).
* `TransientWhileExecuted`: jobs of one tenant that overlap overwrite the status
  each other remembered (`overlapped`), and no request leads out of 'running' after
  a restart (`forgotten`).
* `OneTaskPerIssue`, `NoEcho`, `Agreement`: two pushes of one task create two
  issues, an issue pulled before its push knows of it becomes a second task
  (`raced`), a failed fetch is recorded as a sync (`orderly`). A pull that was
  answered early and is applied after a later one sets the dates of tasks anew,
  after the later one skipped what had changed: `Agreement` is about pulls that
  did not meet (`pullsMet`), the other two hold of those as well.
* `SavesAreKept`: saves that overlap can both succeed (`apart`), since nothing holds
  the file between comparison and write. A save without a hash, or the removal of
  the file, overrules what was there, and is meant to.
* `TwiceAtMost`: not for clients that were evicted. `admitted` counts what a
  client was let through up to each moment.
* `EachIsDelivered`: not for those behind a full batch of notifications that can
  never be delivered. That one is sent twice is possible in several ways.
* `SaveIsUnified`: calls that overlap lose updates of each other, and a failing
  PUT takes back a later one (`single`). It is about names of which the three
  expressions make the same id; "neo." created by POST gets a second entry by PUT.
  It says that the entry has what the row says of the field, not that it has no
  more.
* `FileIsMirrored`: a failed or overlapping `writeFile` can leave the file
  unreadable, after which every sync fails; it never removes rows.
* `SkillsMirrored`: rows from a registry, and those of an agent without any skill
  left, stay without a file.
* `FollowsTable` is about tasks that are followed: an answer was right about them
  while no event of theirs was on its way. The stream that breaks unfollows all; so
  do an answer that does not have the task where it is (an old one, a full page,
  another project), a silent write of it, and a failed drop that puts back a column
  the task has left meanwhile. While the stream is open nothing repairs those.
* `PollRepairs`: the board becomes the newest tasks of the project, not the table.
* `ShownIsGuarded`: until the handlers of two sockets cross (`crossed`).
  `PtyIsWatched`: not for connections that closed while their process was started
  (`early`).
* `NoOccurrenceMissed` is about the minutes in `calm`: a tick that fires in it, not
  short, with the job switched on, and reaches the job before the minute ends. The
  code catches nothing up: a tick that awaits an earlier job beyond the minute, or
  fires short of `nextRun`, misses the occurrence.

## Proofs

Every invariant and every action property that a passing run checks is also a
theorem, for every value of the constants that the named assumptions of the
modules allow. The assumptions say what the code's configuration says: counts are
natural numbers, some are not zero, ids belong to names. What is needed beyond that
is stated with the theorem: `DirectSetting` (below) and the interval of one minute
in `NothingMissed`.

`TaskDispatchProofs` proves, for any finite or infinite sets of tasks, agents and
workers and from `ConstantsAssumption` and `RetryLimitsAssumption` alone:

* `TypeCorrect`: `Spec => []TypeOK`.
* `HandoutsPaid`, `BelowLimit`, `HandoutBound`. All rest on one ledger per task.
  `HandoutsArePaid` compares the handouts of a task with what pays for them.
  It is inductive because a task becomes claimable again only by a counted
  failure or by a write of the API or of the pull from GitHub, and each claim takes
  it out of the claimable statuses. `UnattendedHandoutBound` is not inductive alone:
  a claim needs to know that the task was below the limit, which is `UnattendedBelowLimit`, and that
  needs the attempts of tasks not yet claimable. Together with types the three
  are. `MoveEntry`, `FailureEntry`, `HandoutEntry` and `EditEntry` say what each
  kind of step does to one entry; `NextEntry` shows that each action is one of
  them.
* `KeepsLedger`: the task loop implements `HandoutLedger`. The same four kinds of
  entries are the four steps of the ledger (`LedgerStep`).
* `DoneApproved`: a done task carries Aegis' approval unless one of the three writers
  that ask for none made it done (`waived`). `NextGated` goes through the actions:
  each guarded write either leaves a row with its verdict, or writes both, or moves
  it elsewhere, and no verdict takes the approval from a task that stays done.

Its last section proves `AwaitedTasksStay` and `ReviewsLatestAnswer` for any
number of dispatchers, tasks, agents and polling agents, with restarts, in
`DirectSetting`: no gateway, every call answered within itself, one
activation of the review job and no writes from outside except creation, deletion
and polling. `WorkersOwnTheirTasks` is not inductive. A dispatcher has to
know that no other awaits its task and that its call is for the latest handout
(`CallsOwned`), the reviewer that the rest of its batch still is in 'review'
(`ReviewsOwned`), and tasks that go to review must have kept their latest answer
(`AnswersKept`). `NoDeferred` says that the setting lasts.

`WebhookDeliveryProofs` proves, for any events, activations and limits and from
`ConstantsAssumption`:

* `TypeCorrect`, `ChainIsOne` and `AtMostMaxRetries`. The invariant `ChainOK` of
  an event says where the one end of its chain of attempts is (awaited, held by a
  retry job, or scheduled) and that this end knows the number of posts; without
  that number the bound is not inductive. `OnlyEventsRetried` keeps tests out of
  the chains.
* `RetriesAreKept` (`NoRetryLost`): an event with attempts left is awaited, held or
  scheduled, or its newest attempt succeeded, or so many newer deliveries were
  recorded that pruning took its row, or the process was restarted. `RowsInOrder`:
  rows are numbered, no two automatic rows of an event are of the same attempt, and
  none is as late as the post that awaits the endpoint; so an answer that comes in
  never counts for another. `LastIsDue`: a row that is scheduled is the newest of
  its event; `PrunedIsOld` what pruning may take, counted over the rows by their
  numbers.
* `BreakerTrips` (`DeadEndpointDisabled`). `FailuresCounted`: before the first
  success and the first admin, the counter is at least the attempts each chain has
  had, however chains interleave.

`FileLockProofs` proves `TypeCorrect`, `AtMostOneWriter` and `ChangesAreKept` for
any processes, any of them mortal. `HoldersMadeDir` says that a holder is the
maker of the directory, `ReadersAreFresh` that what it read is still the
configuration; with `NoChangeLost` they are inductive.

`SchedulerProofs` proves, for any order of jobs, intervals and number of ticks and
from `SchedulerAssumption`:

* `TypeCorrect`, `OneTick` and `Advance` (the times of a job's runs go forward by
  its interval at least). `Matches` says that a flag is set exactly while one tick
  stands at its job; `Timed` that no tick awaits a job before it is due and a job
  is due again an interval after its last run.
* `DelayedOnce` (`HungJobsDelayOnce`). `Patience`: a job was passed by
  no more often than there are ticks on their way to it that find it due, and with
  `Matches` each of those stands at another earlier job.

and of `Schedules`, where one of the jobs spawns templates:

* `StillTheScheduler`: its steps are steps of the scheduler, so that the theorems
  above hold of it. `SchedulesTypeCorrect`.
* `OneChildAMinute` (`OnceAMinute`). `LastKnown`: `last_spawned_at` or a title
  knows of every child, unless a write of the metadata took that away, and
  `RoomForChildren` counts what such writes allow.
* `NothingMissed` (`NoOccurrenceMissed`), while time passes under the ticks,
  if the job is due every minute, as it is registered (`src/lib/scheduler.ts`). `Punctual`: for each minute in `calm` every
  template that is due in it was met (`Met`), or it is the minute of the clock and its
  tick has yet to come to the job (`Coming`). `WithinTheMinute` is the step that
  needs the clock: a tick that comes to the job in the minute it was fired in reads
  that minute.

`GithubSyncProofs` proves, for any tasks, issues, pushes, pulls and windows and
from `GithubAssumption`:

* `GithubTypeCorrect` and `OneTaskEach`. `Apartness`: the issue a push created is
  of no other push and of no task until the answer, or `raced`; an answer names an
  issue once; so of two pulls that overlap the second finds the task of the first.
* `NothingEchoes` (`NoEcho`), with any overlap of pulls. `PushedFit`: each version
  of an issue that a push wrote after the task's last change, at GitHub or in an
  answer on its way, has the status the task has. `InTurn` and `CreatedFit` say
  the same of what pushes carry.
* `TasksSettle` (`Agreement`), while neither pushes nor pulls met. `Agreed` is its
  form with calls under way: a task agrees with its issue, or its push has yet to
  do its part, or the issue is not older than the last sync, so that the next pull
  takes it over (`SinceLast`, `SeenNow`), or both changed within one window.

`ProvisioningProofs` proves `ProvisioningTypeCorrect`, `TwoPersonsAlways`, `StatusIsTrue`,
`TransientIsTrue` and `OnlyLiveJobsSuspend` for any jobs, tenants, administrators
and lengths of plans. `ProvisioningInv` joins the two-person rule with `JobsMatch`
(an execution and its job know of each other), `TenantsExist`, and
`StatusRemembered` (unless the tenant's jobs overlapped, one of them at most is
executed, and a transient status, of the tenant or remembered, comes from a live
one): the rule is checked once, and only `JobsMatch` shows that nobody changes the
approver of a job that runs.

`ServerProofs`:

* Pipelines: `PipelineTypeCorrect`, `StepsInOrder`, `SettledRests`,
  `SerialConsistent`. `OrderInv`, with `Untouched` and `Ordered` for the row and for
  each snapshot that a request holds, gives `StepsInOrder` for any number of
  overlapping requests; `SettledRests` is a property of the steps themselves.
  `SerialInv` says, as long as requests do not overlap, where the row stands
  (`RowSaysWhere`), that one request at most awaits (`OneRequest`), that each step
  was started once (`StartedOnce`) and what that request will write (`WritesNext`).
* Rate limiter: `TwiceAnyTime` (`TwiceAtMost`), for any window and maximum. The
  bound is of any stretch of time, so the invariant `Limited` relates the whole
  past of a client to its window: with a window of its own it got no more than the
  window counts, and no more than a maximum in the time before it (`MayCount`);
  without one no more than a maximum in the time of the last (`MayOpen`).
* Allow lists: `KeptSaves` (`SavesAreKept`). `Apart`: what an editor with a hash read
  before it awaited has every save that is to be kept, and the file is empty only
  under the hands of the editor that is about to write.
* Gateway: `OneSocketLives`, `GuardedWhileShown`, `RetriedWhenLost`, inductive
  together with `UrlKnown`: handlers act on the current socket because there is no
  other live one.
* Terminals: `WatchedPty` (`PtyIsWatched`). `Consistent` lists what socket, process
  and timer of a connection may be at the same time.
* `PartsOfServer`: a behaviour of `MCServer` is one of each component, so that the
  theorems of all, provisioning included, hold of it; `ServerTypeCorrect` is the
  first of them.

`CopiesProofs`:

* Agents: `UnifiedSaves` (`SaveIsUnified`): once a save has returned and no other met
  it, the entry has every field the row has, with that value, though the row is
  replaced and the entry merged. `Single` says by kind and phase what the only call
  under way may rely on (`UnderWay`): the row it found is the row still, the list it
  made is that of the file with its own change; a PUT that fails puts back a row
  the entry still covers. `Merging`: a merge covers what was merged in, and
  merging twice changes nothing, so that what was written has the change
  (`NewListTwice`). `AgentTypeCorrect` needs `Counted`: a deletion was wished for
  after the row it found was born. `SyncAdopts` is the step on which
  `FileIsMirrored` rests: a sync that applies the file as it still is leaves no
  entry without its row, from any reachable state.
* Skills: `SyncMirrors`, the steps of `SkillsMirrored`: a sync makes the list what
  is on disk, and it stays so until the disk changes or a request writes a row.
* Board: `BoardFollows` (`FollowsTable`), for any size of the page, and
  `BoardTypeCorrect`. `BoardInv` says of each task that is followed (`Sound`) how its
  row, its entry and the events about it that are on their way (`Heard`) fit together:
  an event of its creation comes before all others, one of its deletion after them,
  drops excepted, the last event says where the row is, and with none on its way the
  entry is there already, or ahead of the server by a drop. `OwnHeard` is a write that
  adds an event, `FirstHeard` an arrival that takes one, `EntrySet` a drop or a
  revert that changes the entry without any; `OthersHeard`: they do nothing to
  other tasks.
* `PartsOfCopies`, as `PartsOfServer`.

Theorems whose statement no run lists: the type invariants other than those of
`Server`; `BelowLimit`, `Advance`, `StatusIsTrue`,
`OnlyLiveJobsSuspend` and `AtMostOneWriter`, whose formulas were checked by TLC on
the instances above before they were proved; `StillTheScheduler`, `SyncAdopts`,
`SyncMirrors` and the two `PartsOf...`.

Only model-checked: liveness, which rests on fairness and ENABLED and is beyond
the prover: `AssignedSettles`, `ReviewEnds`, `RetriesEnd`, `LockIsFreed`,
`EachIsDelivered`, `FileIsMirrored`, `SkillsMirrored` and `PollRepairs`. Nothing is
proved by induction over data either; no module declares a recursive operator or
function.

## Not modelled

`PROJECT.json` gives a reason for each component left out. GNAP sync drives a git
working tree by child processes. The runs ledger and most of the remaining routes
write one row from the body of a request. Authentication, roles and workspaces
are decided within a request. Sessions, memory, tracing and scanners parse files
or forward to other services; the one call of a session that the task loop awaits
is part of `TaskDispatch`. The database is synchronous and its statements are the
atomic steps of every model. Panels are views: where one keeps a copy of server
state that can go wrong, it is modelled (`LiveBoard`, `GatewaySocket`,
`AllowList`). They make up the larger part of the code by lines.

Of the modelled components these operations are left out: registration,
heartbeats and the sync of local agents; comments and label set-up of GitHub;
creation of pipelines and templates; decisions on single exec approvals; fetching
from skill registries; parsing of schedules in natural language; what backup,
cleanup and the scans do. Across all modules: wording, logs, costs, time as a
number where only its order matters, workspaces other than one, and a process
that dies between two synchronous statements of one step (`FileLock` has such
deaths, the other components restart between steps).

## Plan

Done: the task loop with its abstract ledger, webhooks and the lock; scheduler
and recurring tasks; provisioning, pipelines, notifications, allow lists, rate
limiter; GitHub sync; agents and skills; the browser's board, sockets, terminals.

Left:

1. `AgentConfig` under the lock of `FileLock`, which shows what taking it would
   give: `SaveIsUnified` without `single`.
2. Heartbeats and the sync of local agents, which write the statuses `TaskDispatch`
   takes as given.
3. Rounds of approval in `TaskDispatch`, to state which approval `done` needs.
