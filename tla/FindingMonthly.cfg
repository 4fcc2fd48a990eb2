\* A template with a monthly schedule, and ticks that come on time.
SPECIFICATION SchedulesSpec
CONSTANTS
  JobOrder <- MCJobOrder
  Interval <- MCInterval
  Prompt = {"agent_heartbeat", "recurring_task_spawn"}
  LastMinute = 5
  Switched = {"recurring_task_spawn"}
  Templates = {t1}
  InProject = {t1}
  Crons <- MCMonthly
  MinutesPerDay = 2
  DaysPerWeek = 2
  DaysPerYear = 2
  LastSpawn = 5
  MaxOverwrites = 0
INVARIANTS
  SpawnsOnItsDays
CHECK_DEADLOCK FALSE
