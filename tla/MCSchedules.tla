------------------------------ MODULE MCSchedules ------------------------------
(***************************************************************************)
(* Four of the scheduler's jobs, the one that spawns recurring tasks among *)
(* them, and the cron expressions templates may have: every minute, once a *)
(* day, once a week. FirstDayOnly is a monthly one.                        *)
(***************************************************************************)
EXTENDS Schedules

MCJobOrder == <<"agent_heartbeat", "task_dispatch", "aegis_review", "recurring_task_spawn">>
MCInterval == [j \in Names |-> IF j = "agent_heartbeat" THEN 2 ELSE 1]

EveryMinute == [minutes |-> {0, 1}, weekdays |-> {0, 1}, dates |-> {0, 1}]
Daily == [minutes |-> {1}, weekdays |-> {0, 1}, dates |-> {0, 1}]
Weekly == [minutes |-> {0}, weekdays |-> {1}, dates |-> {0, 1}]
FirstDayOnly == [minutes |-> {0}, weekdays |-> {0, 1}, dates |-> {0}]

MCCrons == {EveryMinute, Daily, Weekly}
MCMonthly == {FirstDayOnly}

=============================================================================
