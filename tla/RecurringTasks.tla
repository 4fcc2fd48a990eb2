----------------------------- MODULE RecurringTasks -----------------------------
(***************************************************************************)
(* Tasks with a schedule (src/lib/recurring-tasks.ts and isCronDue in      *)
(* src/lib/schedule-parser.ts): in a minute that its cron expression       *)
(* matches, a template is cloned into a child whose title is the           *)
(* template's with the date. Two things keep a minute from being spawned   *)
(* twice: last_spawned_at in the template's metadata, which any PUT of the *)
(* metadata overwrites, and the title of the child.                        *)
(***************************************************************************)
EXTENDS Naturals, FiniteSets

CONSTANTS
  Templates,      \* tasks with recurrence metadata
  InProject,      \* those of them with a project_id
  Crons,          \* the cron expressions they may have
  MinutesPerDay,
  DaysPerWeek,
  DaysPerYear,    \* a title names the day and the month, but no year
  LastSpawn,      \* bound: the last minute of the clock
  MaxOverwrites   \* bound: writes of a template's metadata

Minutes == 0..LastSpawn
MinuteOf(m) == m % MinutesPerDay
Weekday(m) == (m \div MinutesPerDay) % DaysPerWeek
Date(m) == (m \div MinutesPerDay) % DaysPerYear

(* minutes stands for the fields minute and hour, dates for day of month   *)
(* and month.                                                              *)
Cron == [minutes : SUBSET (0..(MinutesPerDay - 1)), weekdays : SUBSET (0..(DaysPerWeek - 1)),
         dates : SUBSET (0..(DaysPerYear - 1))]

ASSUME RecurringAssumption ==
  /\ InProject \subseteq Templates
  /\ Crons \subseteq Cron
  /\ {MinutesPerDay, DaysPerWeek, DaysPerYear} \subseteq Nat \ {0}
  /\ LastSpawn \in Nat /\ MaxOverwrites \in Nat

VARIABLES
  recurrence,  \* metadata.recurrence of each template; last = 0 stands for null
  titles,      \* the children's titles: template and suffix
  spawns,      \* history: how many children a template got in each minute
  overwrites,  \* history: writes of a template's metadata
  regrained    \* history: templates that became daily or ceased to be

recurringVars == <<recurrence, titles, spawns, overwrites, regrained>>

(* isSubDailyCron and formatDateSuffix.                                    *)
SubDaily(cron) == Cardinality(cron.minutes) # 1

Suffix(cron, m) == IF SubDaily(cron) THEN <<Date(m), MinuteOf(m)>> ELSE <<Date(m)>>

Suffixes == {<<d>> : d \in 0..(DaysPerYear - 1)} \cup
            ((0..(DaysPerYear - 1)) \X (0..(MinutesPerDay - 1)))

RecurringTypeOK ==
  /\ recurrence \in [Templates -> [cron : Crons, enabled : BOOLEAN, last : Minutes]]
  /\ titles \subseteq Templates \X Suffixes
  /\ spawns \in [Templates -> [Minutes -> 0..(MaxOverwrites + 1)]]
  /\ overwrites \in [Templates -> 0..MaxOverwrites]
  /\ regrained \subseteq Templates

RecurringInit ==
  /\ recurrence \in [Templates -> [cron : Crons, enabled : {TRUE}, last : {0}]]
  /\ titles = {}
  /\ spawns = [t \in Templates |-> [m \in Minutes |-> 0]]
  /\ overwrites = [t \in Templates |-> 0]
  /\ regrained = {}

-----------------------------------------------------------------------------
(* isCronDue: the fields day of month and month are not looked at.         *)
MatchesFields(cron, m) == MinuteOf(m) \in cron.minutes /\ Weekday(m) \in cron.weekdays

IsCronDue(cron, m, last) == MatchesFields(cron, m) /\ last # m

(* The title of a child is looked up in the template's project; for a      *)
(* template without one, "project_id = NULL" finds nothing.                *)
Existing_Never(t, m) == FALSE
Existing(t, m) == t \in InProject /\ <<t, Suffix(recurrence[t].cron, m)>> \in titles

Spawned(m) ==
  {t \in Templates :
     /\ recurrence[t].enabled
     /\ IsCronDue(recurrence[t].cron, m, recurrence[t].last)
     /\ ~Existing(t, m)}

(* spawnRecurringTasks in minute m.                                        *)
SpawnRecurringTasks(m) ==
  /\ titles' = titles \cup {<<t, Suffix(recurrence[t].cron, m)>> : t \in Spawned(m)}
  /\ recurrence' = [t \in Templates |->
       IF t \in Spawned(m) THEN [recurrence[t] EXCEPT !.last = m] ELSE recurrence[t]]
  /\ spawns' = [t \in Templates |->
       IF t \in Spawned(m) THEN [spawns[t] EXCEPT ![m] = @ + 1] ELSE spawns[t]]
  /\ UNCHANGED <<overwrites, regrained>>

(* A PUT of a template, or a job that read it earlier, replaces its whole  *)
(* metadata, with the last_spawned_at its sender knows.                    *)
OverwriteRecurrence(t, cron, enabled, last) ==
  /\ overwrites[t] < MaxOverwrites
  /\ overwrites' = [overwrites EXCEPT ![t] = @ + 1]
  /\ regrained' = IF SubDaily(cron) = SubDaily(recurrence[t].cron) THEN regrained
                  ELSE regrained \cup {t}
  /\ recurrence' = [recurrence EXCEPT ![t] = [cron |-> cron, enabled |-> enabled, last |-> last]]
  /\ UNCHANGED <<titles, spawns>>

-----------------------------------------------------------------------------
(* A template gets one child per minute at most. Its metadata is enough    *)
(* for that while no one else writes it; in a project the title of the     *)
(* child keeps it so even when last_spawned_at is overwritten, as long as  *)
(* the titles go on naming the minute, or go on without it.                *)
OnceAMinute ==
  \A t \in Templates : \A m \in Minutes :
    overwrites[t] = 0 \/ (t \in InProject /\ t \notin regrained) => spawns[t][m] <= 1

(* recurring-tasks.ts:39 counts monthly expressions among the schedules,   *)
(* and cron-occurrences.ts:87 shows a user the days they match: a template *)
(* whose expression leaves the day of the week open is spawned on its      *)
(* dates only.                                                             *)
SpawnsOnItsDays ==
  \A t \in Templates : \A m \in Minutes :
    LET cron == recurrence[t].cron
    IN overwrites[t] = 0 /\ spawns[t][m] > 0 /\ cron.weekdays = 0..(DaysPerWeek - 1) =>
         Date(m) \in cron.dates

=============================================================================
