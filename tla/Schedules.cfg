\* Six minutes, days of two minutes; a heartbeat every second minute, other jobs every
\* minute; ticks may overlap, come late, be restarted. The bounds end it.
SPECIFICATION SchedulesSpec
CONSTANTS
  JobOrder <- MCJobOrder
  Interval <- MCInterval
  Prompt = {"agent_heartbeat", "recurring_task_spawn"}
  LastMinute = 5
  Switched = {"recurring_task_spawn"}
  Templates = {t1}
  InProject = {t1}
  Crons <- MCCrons
  MinutesPerDay = 2
  DaysPerWeek = 2
  DaysPerYear = 2
  LastSpawn = 5
  MaxOverwrites = 1
INVARIANTS
  OneTickPerJob
  HungJobsDelayOnce
  OnceAMinute
  NoOccurrenceMissed
CHECK_DEADLOCK FALSE
