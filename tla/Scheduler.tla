------------------------------- MODULE Scheduler -------------------------------
(***************************************************************************)
(* The background jobs of the process (src/lib/scheduler.ts): a timer      *)
(* fires a tick every minute, and each tick goes through the jobs in their *)
(* order and awaits those that are due. A tick that awaits stops neither   *)
(* the clock nor the timer: several ticks may be under way, each with the  *)
(* time it was fired at, and the later jobs of a tick start when the       *)
(* earlier ones let them. Times are minutes; the milliseconds by which the *)
(* timer may fire before a job is due are the tick's flag short.           *)
(***************************************************************************)
EXTENDS Naturals, Sequences, FiniteSetsExt

CONSTANTS
  JobOrder,   \* the jobs in the order in which they were registered
  Interval,   \* the interval of each job, in minutes
  Prompt,     \* the jobs that await nothing: they end before anything else runs
  Switched,   \* the jobs whose setting is changed
  LastMinute  \* bound: the last minute of the clock

Names == {JobOrder[i] : i \in 1..Len(JobOrder)}

ASSUME SchedulerAssumption ==
  /\ JobOrder \in Seq(Names)
  /\ \A i, k \in 1..Len(JobOrder) : JobOrder[i] = JobOrder[k] => i = k
  /\ Interval \in [Names -> Nat \ {0}]
  /\ Prompt \subseteq Names /\ Switched \subseteq Names
  /\ LastMinute \in Nat \ {0}

VARIABLES
  clock,   \* the minute it is
  fired,   \* the minute in which the timer fired last, or was set
  job,     \* the entries of the map tasks, and the settings that switch them
  ticks,   \* the ticks that await a job: when they were fired, and its place
  waited   \* history: the ticks that passed a job by while it was due

schedulerVars == <<clock, fired, job, ticks, waited>>

(* lastRun: 0 stands for null.                                             *)
Entry == [running : BOOLEAN, enabled : BOOLEAN, nextRun : Nat, lastRun : Nat]
Tick == [now : Nat, short : BOOLEAN, at : 1..Len(JobOrder)]

SchedulerTypeOK ==
  /\ clock \in 1..LastMinute /\ fired \in 1..clock
  /\ job \in [Names -> Entry]
  /\ ticks \subseteq Tick
  /\ waited \in [Names -> Nat]

Registered(enabled) ==
  [j \in Names |-> [running |-> FALSE, enabled |-> enabled[j],
                    nextRun |-> clock + Interval[j], lastRun |-> 0]]

SchedulerInit ==
  /\ clock = 1 /\ fired = 1
  /\ job = Registered([j \in Names |-> TRUE])
  /\ ticks = {}
  /\ waited = [j \in Names |-> 0]

-----------------------------------------------------------------------------
(* One tick.                                                               *)

(* now >= task.nextRun, in milliseconds.                                   *)
Reached(entry, t) == entry.nextRun < t.now \/ (entry.nextRun = t.now /\ ~t.short)

Eligible_Running(entry, t) == entry.enabled /\ Reached(entry, t)
Eligible(entry, t) == entry.enabled /\ ~entry.running /\ Reached(entry, t)

(* The first job from a place on that is due.                              *)
NextEligible_StopsAtRunning(jobs, t, from) ==
  {i \in from..Len(JobOrder) :
     /\ Eligible(jobs[JobOrder[i]], t)
     /\ \A k \in from..(i - 1) :
          ~Eligible(jobs[JobOrder[k]], t) /\ ~jobs[JobOrder[k]].running}
NextEligible(jobs, t, from) ==
  {i \in from..Len(JobOrder) :
     /\ Eligible(jobs[JobOrder[i]], t)
     /\ \A k \in from..(i - 1) : ~Eligible(jobs[JobOrder[k]], t)}

(* The loop of tick(), from one place to the next await or to its end.     *)
GoThrough(jobs, t, from, others) ==
  \/ /\ NextEligible(jobs, t, from) = {}
     /\ job' = jobs
     /\ ticks' = others
  \/ \E i \in NextEligible(jobs, t, from) :
       /\ job' = [jobs EXCEPT ![JobOrder[i]].running = TRUE]
       /\ ticks' = others \cup {[t EXCEPT !.at = i]}

Waiting(j) == job[j].enabled /\ ~job[j].running /\ clock >= job[j].nextRun

(* The jobs of the set were due to a tick that awaits another one now.     *)
PassedBy(due) ==
  waited' = [j \in Names |-> IF ~Waiting(j)' THEN 0
                             ELSE IF j \in due THEN waited[j] + 1 ELSE waited[j]]

(* Nothing of the process runs before the job that awaits nothing ended.   *)
Quiet == \A t \in ticks : JobOrder[t.at] \notin Prompt

MinutePasses ==
  /\ Quiet
  /\ clock < LastMinute
  /\ clock' = clock + 1
  /\ UNCHANGED <<fired, job, ticks>>
  /\ PassedBy({})

(* The timer fires about once a minute: it may skip one of the clock.      *)
Fire(short) ==
  LET t == [now |-> clock, short |-> short, at |-> 1]
  IN /\ Quiet
     /\ fired < clock
     /\ fired' = clock /\ UNCHANGED clock
     /\ GoThrough(job, t, 1, ticks)
     /\ PassedBy({j \in Names : Eligible(job[j], t)})

Ended_AsOfNow(entry, j, now) ==
  [entry EXCEPT !.running = FALSE, !.lastRun = now, !.nextRun = now + Interval[j] + 1]
Ended(entry, j, now) ==
  [entry EXCEPT !.running = FALSE, !.lastRun = now, !.nextRun = now + Interval[j]]

(* The awaited job returned or threw: its entry gets the time of the tick, *)
(* and the tick goes on from there.                                        *)
JobEnds(t) ==
  LET j == JobOrder[t.at]
  IN /\ Quiet \/ j \in Prompt
     /\ GoThrough([job EXCEPT ![j] = Ended(@, j, t.now)], t, t.at + 1, ticks \ {t})
     /\ UNCHANGED <<clock, fired>>
     /\ PassedBy({})

-----------------------------------------------------------------------------
(* The settings are read anew for every job.                               *)
SwitchJob(j) ==
  /\ Quiet
  /\ job' = [job EXCEPT ![j].enabled = ~@]
  /\ UNCHANGED <<clock, fired, ticks>>
  /\ PassedBy({})

(* initScheduler in a new process, whose timer fires in a minute.          *)
RestartScheduler ==
  /\ job' = Registered([j \in Names |-> job[j].enabled])
  /\ ticks' = {}
  /\ fired' = clock
  /\ waited' = [j \in Names |-> 0]
  /\ UNCHANGED clock

SchedulerNext ==
  \/ MinutePasses
  \/ \E short \in BOOLEAN : Fire(short)
  \/ \E t \in ticks : JobEnds(t)
  \/ \E j \in Switched : SwitchJob(j)
  \/ RestartScheduler

SchedulerSpec == SchedulerInit /\ [][SchedulerNext]_schedulerVars

-----------------------------------------------------------------------------
(* Ticks that overlap never run a job twice at a time, and the flag of a   *)
(* job is set exactly while one of them awaits it: a flag that stayed set  *)
(* would stop the job for good.                                            *)
OneTickPerJob ==
  /\ \A s, t \in ticks : s.at = t.at => s = t
  /\ \A j \in Names : job[j].running <=> \E t \in ticks : JobOrder[t.at] = j

(* The times of a job's runs go forward by at least its interval, although *)
(* each tick writes the time it was fired at, however late it comes to it. *)
RunsAdvance ==
  [][\A j \in Names :
       \/ job'[j].lastRun \in {0, job[j].lastRun}
       \/ job[j].lastRun = 0
       \/ job'[j].lastRun >= job[j].lastRun + Interval[j]]_schedulerVars

(* A job that hangs delays a later one by one tick and never stops it: a   *)
(* job is passed by while it is due at most once for every earlier job     *)
(* that is being awaited.                                                  *)
HungJobsDelayOnce ==
  \A i \in 1..Len(JobOrder) :
    waited[JobOrder[i]] <= Cardinality({k \in 1..(i - 1) : job[JobOrder[k]].running})

=============================================================================
