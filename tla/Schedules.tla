------------------------------- MODULE Schedules -------------------------------
(***************************************************************************)
(* The scheduler runs the job that spawns recurring tasks. A cron          *)
(* expression is compared with the minute in which that job starts, and no *)
(* occurrence is caught up later: when the job starts, and when it does    *)
(* not, decides which children there are.                                  *)
(***************************************************************************)
EXTENDS Scheduler, RecurringTasks

ASSUME SchedulesAssumption == "recurring_task_spawn" \in Names \cap Prompt /\ LastSpawn = LastMinute

VARIABLE calm  \* history: the minutes whose tick came in time for the spawning job

schedulesVars == <<schedulerVars, recurringVars, calm>>

SchedulesInit == SchedulerInit /\ RecurringInit /\ calm = {}

(* The job reads the clock when it starts, not the time of its tick.       *)
SpawnJobStarts == ~job["recurring_task_spawn"].running /\ job'["recurring_task_spawn"].running

SchedulesStep(step) ==
  /\ step
  /\ IF SpawnJobStarts THEN SpawnRecurringTasks(clock') ELSE UNCHANGED recurringVars

(* A tick of this minute that has not come to the spawning job.            *)
OnItsWay ==
  \E t \in ticks : t.now = clock /\ \E i \in (t.at + 1)..Len(JobOrder) :
                                     JobOrder[i] = "recurring_task_spawn"

TimerFires(short) ==
  /\ SchedulesStep(Fire(short))
  /\ calm' = IF ~short /\ job["recurring_task_spawn"].enabled THEN calm \cup {clock} ELSE calm

MinuteEnds ==
  /\ MinutePasses /\ UNCHANGED recurringVars
  /\ calm' = IF OnItsWay THEN calm \ {clock} ELSE calm

AwaitedJobEnds == (\E t \in ticks : SchedulesStep(JobEnds(t))) /\ UNCHANGED calm
Switching ==
  \E j \in Switched : SwitchJob(j) /\ UNCHANGED recurringVars /\
                   calm' = IF j = "recurring_task_spawn" THEN calm \ {clock} ELSE calm
Restarting == RestartScheduler /\ UNCHANGED recurringVars /\ calm' = calm \ {clock}

(* POST /api/scheduler: triggerTask runs the job whatever its flag says.   *)
TriggerSpawn ==
  /\ Quiet /\ SpawnRecurringTasks(clock)
  /\ UNCHANGED <<schedulerVars, calm>>

WriteRecurrence ==
  /\ Quiet
  /\ \E t \in Templates, cron \in Crons, enabled \in BOOLEAN :
       \E last \in {0, recurrence[t].last} : OverwriteRecurrence(t, cron, enabled, last)
  /\ UNCHANGED <<schedulerVars, calm>>

SchedulesNext ==
  (\E short \in BOOLEAN : TimerFires(short)) \/ MinuteEnds \/ AwaitedJobEnds \/ Switching \/
  Restarting \/ TriggerSpawn \/ WriteRecurrence

SchedulesSpec == SchedulesInit /\ [][SchedulesNext]_schedulesVars

-----------------------------------------------------------------------------
(* The map of jobs, the ticks and the templates stay well formed.          *)
TypeOK == SchedulerTypeOK /\ RecurringTypeOK /\ calm \subseteq 1..clock

(* A minute that a cron expression matches has its child if the timer      *)
(* fires in it, not short of the minute since the last tick, while the job *)
(* is switched on, and the jobs that this tick awaits before it let it     *)
(* start in that same minute: also twice a day, whatever earlier ticks     *)
(* still hang, however late, short or skipped other ticks are, whatever    *)
(* restarts there were in other minutes and whatever is triggered by hand. *)
(* The exception is a daily schedule a year later, whose title is taken.   *)
NoOccurrenceMissed ==
  \A t \in Templates : \A m \in calm \ {clock} :
    overwrites[t] = 0 /\ MatchesFields(recurrence[t].cron, m) =>
      \/ spawns[t][m] = 1
      \/ t \in InProject /\ \E k \in 1..(m - 1) :
           spawns[t][k] > 0 /\ Suffix(recurrence[t].cron, k) = Suffix(recurrence[t].cron, m)

=============================================================================
