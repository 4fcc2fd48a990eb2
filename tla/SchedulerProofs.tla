---------------------------- MODULE SchedulerProofs ----------------------------
(* The ticks of the scheduler, for any jobs, intervals and number of ticks *)
(* under way: no job is run by two of them at a time, the times of its     *)
(* runs go forward by its interval, and a job that hangs delays a later    *)
(* one by one tick. With the job that spawns templates: one task a minute, *)
(* and none is missed.                                                     *)
EXTENDS Schedules, FunctionTheorems, FiniteSetTheorems, WellFoundedInduction, TLAPS

(* The running flags of a map of jobs are those of a set of ticks.         *)
Matches(jobs, under) ==
  /\ \A s, t \in under : s.at = t.at => s = t
  /\ \A j \in Names : jobs[j].running <=> \E t \in under : JobOrder[t.at] = j

(* No tick awaits a job before it is due, and a job is due again an        *)
(* interval after its last run.                                            *)
Timed(jobs, under) ==
  /\ \A t \in under : t.now >= jobs[JobOrder[t.at]].nextRun
  /\ \A j \in Names : jobs[j].lastRun # 0 => jobs[j].nextRun >= jobs[j].lastRun + Interval[j]

SchedulerInv == SchedulerTypeOK /\ Matches(job, ticks) /\ Timed(job, ticks)

-----------------------------------------------------------------------------
(* The places of the order are those of the names, one each.               *)
LEMMA Places ==
  /\ \A i \in 1..Len(JobOrder) : JobOrder[i] \in Names
  /\ \A i, k \in 1..Len(JobOrder) : JobOrder[i] = JobOrder[k] => i = k
  /\ Interval \in [Names -> Nat \ {0}]
  BY SchedulerAssumption DEF Names

(* What a tick does from one place of the order to its next await.         *)
LEMMA GoThroughKeeps ==
  ASSUME NEW jobs \in [Names -> Entry], NEW by \in Tick, NEW from \in Nat \ {0},
         NEW others \in SUBSET Tick, Matches(jobs, others), Timed(jobs, others),
         GoThrough(jobs, by, from, others)
  PROVE  /\ job' \in [Names -> Entry] /\ ticks' \in SUBSET Tick
         /\ Matches(job, ticks)' /\ Timed(job, ticks)'
         /\ \A j \in Names : job'[j].lastRun = jobs[j].lastRun
  <1>1. CASE NextEligible(jobs, by, from) = {} /\ job' = jobs /\ ticks' = others
    BY <1>1 DEF Matches, Timed
  <1>2. ASSUME NEW i \in NextEligible(jobs, by, from),
               job' = [jobs EXCEPT ![JobOrder[i]].running = TRUE],
               ticks' = others \cup {[by EXCEPT !.at = i]}
        PROVE  /\ job' \in [Names -> Entry] /\ ticks' \in SUBSET Tick
               /\ Matches(job, ticks)' /\ Timed(job, ticks)'
               /\ \A j \in Names : job'[j].lastRun = jobs[j].lastRun
    <2> DEFINE n == JobOrder[i]
               new == [by EXCEPT !.at = i]
    <2>1. i \in 1..Len(JobOrder) /\ ~jobs[n].running /\ Reached(jobs[n], by)
      BY DEF NextEligible, Eligible
    <2>2. n \in Names
      BY <2>1, Places
    <2>3. new \in Tick /\ new.now = by.now /\ new.at = i
      BY <2>1 DEF Tick
    <2>11. jobs[n] \in Entry /\ new.now >= jobs[n].nextRun
      BY <2>1, <2>2, <2>3 DEF Reached, Entry, Tick
    <2> HIDE DEF new
    <2>4. job' \in [Names -> Entry]
      BY <1>2, <2>2 DEF Entry
    <2>5. /\ job'[n].running /\ job'[n].nextRun = jobs[n].nextRun
          /\ job'[n].lastRun = jobs[n].lastRun
      BY <1>2, <2>2 DEF Entry
    <2>6. \A j \in Names \ {n} : job'[j] = jobs[j]
      BY <1>2, <2>2
    <2>7. \A t \in others : JobOrder[t.at] # n
      BY <2>1, <2>2 DEF Matches
    <2>8. \A t \in others : JobOrder[t.at] \in Names
      BY Places DEF Tick
    <2>9. Matches(job, ticks)'
      <3>1. \A s, t \in ticks' : s.at = t.at => s = t
        <4>1. ticks' = others \cup {new}
          BY <1>2 DEF new
        <4> QED BY <4>1, <2>3, <2>7 DEF Matches
      <3>2. ASSUME NEW j \in Names
            PROVE  job'[j].running <=> \E t \in ticks' : JobOrder[t.at] = j
        <4>1. CASE j = n
          <5>1. new \in ticks' /\ JobOrder[new.at] = j
            BY <4>1, <1>2, <2>3 DEF new
          <5> QED BY <4>1, <5>1, <2>5
        <4>2. CASE j # n
          <5>1. ticks' = others \cup {new} /\ JobOrder[new.at] # j
            BY <4>2, <1>2, <2>3 DEF new
          <5> QED BY <4>2, <5>1, <2>6 DEF Matches
        <4> QED BY <4>1, <4>2
      <3> QED BY <3>1, <3>2 DEF Matches
    <2>10. Timed(job, ticks)'
      <3>1. ASSUME NEW t \in ticks' PROVE t.now >= job'[JobOrder[t.at]].nextRun
        <4>1. CASE t = new
          BY <4>1, <2>3, <2>5, <2>11
        <4>2. CASE t \in others
          BY <4>2, <2>6, <2>7, <2>8 DEF Timed
        <4> QED BY <4>1, <4>2, <1>2 DEF new
      <3>2. ASSUME NEW j \in Names, job'[j].lastRun # 0
            PROVE  job'[j].nextRun >= job'[j].lastRun + Interval[j]
        BY <3>2, <2>5, <2>6 DEF Timed
      <3> QED BY <3>1, <3>2 DEF Timed
    <2>12. ticks' \in SUBSET Tick
      BY <1>2, <2>3 DEF new
    <2> QED BY <2>4, <2>5, <2>6, <2>9, <2>10, <2>12
  <1> QED BY <1>1, <1>2 DEF GoThrough

(* The entry of a job whose run ended.                                     *)
LEMMA EndedEntry ==
  ASSUME NEW e \in Entry, NEW j \in Names, NEW now \in Nat
  PROVE  /\ Ended(e, j, now) \in Entry
         /\ ~Ended(e, j, now).running
         /\ Ended(e, j, now).lastRun = now /\ Ended(e, j, now).nextRun = now + Interval[j]
  <1> DEFINE x == Ended(e, j, now)
  <1>1. now + Interval[j] \in Nat
    BY Places
  <1>2. x = [e EXCEPT !.running = FALSE, !.lastRun = now, !.nextRun = now + Interval[j]]
    BY DEF Ended
  <1>3. x \in Entry
    BY <1>1, <1>2 DEF Entry
  <1>4. ~x.running
    BY <1>2 DEF Entry
  <1>5. x.lastRun = now
    BY <1>2 DEF Entry
  <1>6. x.nextRun = now + Interval[j]
    BY <1>2 DEF Entry
  <1> QED BY <1>3, <1>4, <1>5, <1>6

(* The map and the ticks once an awaited job is done.                      *)
LEMMA EndedKeeps ==
  ASSUME SchedulerInv, NEW t \in ticks
  PROVE  LET j == JobOrder[t.at]
             jobs == [job EXCEPT ![j] = Ended(@, j, t.now)]
         IN /\ jobs \in [Names -> Entry]
            /\ Matches(jobs, ticks \ {t}) /\ Timed(jobs, ticks \ {t})
            /\ \A k \in Names : \/ jobs[k].lastRun = job[k].lastRun
                                \/ job[k].lastRun = 0
                                \/ jobs[k].lastRun >= job[k].lastRun + Interval[k]
  <1> DEFINE j == JobOrder[t.at]
             jobs == [job EXCEPT ![j] = Ended(@, j, t.now)]
  <1>1. /\ job \in [Names -> Entry] /\ ticks \subseteq Tick
        /\ t.now \in Nat /\ t.at \in 1..Len(JobOrder)
    BY DEF SchedulerInv, SchedulerTypeOK, Tick
  <1>2. j \in Names /\ Interval[j] \in Nat
    BY <1>1, Places
  <1>3. job[j] \in Entry
    BY <1>1, <1>2
  <1>4. jobs[j] = Ended(job[j], j, t.now) /\ \A k \in Names \ {j} : jobs[k] = job[k]
    BY <1>1, <1>2
  <1>5. /\ ~jobs[j].running /\ jobs[j].lastRun = t.now
        /\ jobs[j].nextRun = t.now + Interval[j]
    <2>1. /\ ~Ended(job[j], j, t.now).running
          /\ Ended(job[j], j, t.now).lastRun = t.now
          /\ Ended(job[j], j, t.now).nextRun = t.now + Interval[j]
      <3>1. job[j] \in Entry /\ j \in Names /\ t.now \in Nat
        BY <1>1, <1>2, <1>3
      <3> HIDE DEF j
      <3> QED BY <3>1, EndedEntry, Zenon
    <2>2. jobs[j] = Ended(job[j], j, t.now)
      BY <1>4
    <2> HIDE DEF jobs
    <2> QED BY <2>1, <2>2
  <1>6. Ended(job[j], j, t.now) \in Entry
    BY <1>1, <1>2, <1>3, EndedEntry
  <1>7. jobs \in [Names -> Entry]
    BY <1>1, <1>6
  <1>8. \A s \in ticks \ {t} : JobOrder[s.at] \in Names \ {j}
    <2> SUFFICES ASSUME NEW s \in ticks \ {t} PROVE JobOrder[s.at] \in Names \ {j}
      OBVIOUS
    <2>1. s.at \in 1..Len(JobOrder)
      BY <1>1 DEF Tick
    <2>2. s.at # t.at
      BY DEF SchedulerInv, Matches
    <2> QED BY <2>1, <2>2, <1>1, Places
  <1>9. Matches(jobs, ticks \ {t})
    <2>1. \A r, s \in ticks \ {t} : r.at = s.at => r = s
      BY DEF SchedulerInv, Matches
    <2>2. ASSUME NEW k \in Names
          PROVE  jobs[k].running <=> \E s \in ticks \ {t} : JobOrder[s.at] = k
      <3>1. CASE k = j
        BY <3>1, <1>5, <1>8
      <3>2. CASE k # j
        BY <3>2, <1>4 DEF SchedulerInv, Matches
      <3> QED BY <3>1, <3>2
    <2> QED BY <2>1, <2>2 DEF Matches
  <1>10. Timed(jobs, ticks \ {t})
    <2>1. \A s \in ticks \ {t} : s.now >= jobs[JobOrder[s.at]].nextRun
      BY <1>4, <1>8 DEF SchedulerInv, Timed
    <2>2. ASSUME NEW k \in Names, jobs[k].lastRun # 0
          PROVE  jobs[k].nextRun >= jobs[k].lastRun + Interval[k]
      <3>1. CASE k = j
        BY <3>1, <1>1, <1>2, <1>5
      <3>2. CASE k # j
        BY <3>2, <2>2, <1>4 DEF SchedulerInv, Timed
      <3> QED BY <3>1, <3>2
    <2> QED BY <2>1, <2>2 DEF Timed
  <1>11. \/ job[j].lastRun = 0
         \/ jobs[j].lastRun >= job[j].lastRun + Interval[j]
    <2>1. t.now >= job[j].nextRun
      BY DEF SchedulerInv, Timed
    <2>2. job[j].lastRun # 0 => job[j].nextRun >= job[j].lastRun + Interval[j]
      BY <1>2 DEF SchedulerInv, Timed
    <2>3. job[j].nextRun \in Nat /\ job[j].lastRun \in Nat
      BY <1>3 DEF Entry
    <2> QED BY <2>1, <2>2, <2>3, <1>1, <1>2, <1>5
  <1> QED BY <1>4, <1>7, <1>9, <1>10, <1>11

(* The history of a step.                                                  *)
LEMMA PassedByType ==
  ASSUME SchedulerTypeOK, NEW due, PassedBy(due)
  PROVE  waited' \in [Names -> Nat]
  BY DEF SchedulerTypeOK, PassedBy

-----------------------------------------------------------------------------
(* What one step does to the last runs.                                    *)
Advances ==
  \A j \in Names :
    \/ job'[j].lastRun \in {0, job[j].lastRun}
    \/ job[j].lastRun = 0
    \/ job'[j].lastRun >= job[j].lastRun + Interval[j]

LEMMA MinuteStep ==
  ASSUME SchedulerInv, MinutePasses
  PROVE  SchedulerInv' /\ Advances
  <1>1. clock' \in 1..LastMinute /\ fired' \in 1..clock'
    BY SchedulerAssumption DEF SchedulerInv, SchedulerTypeOK, MinutePasses
  <1>2. waited' \in [Names -> Nat]
    BY PassedByType DEF SchedulerInv, MinutePasses
  <1> QED BY <1>1, <1>2
          DEF SchedulerInv, SchedulerTypeOK, Matches, Timed, Advances, MinutePasses

LEMMA FireStep ==
  ASSUME SchedulerInv, NEW short \in BOOLEAN, Fire(short)
  PROVE  SchedulerInv' /\ Advances
  <1> DEFINE t == [now |-> clock, short |-> short, at |-> 1]
  <1>1. /\ job \in [Names -> Entry] /\ ticks \in SUBSET Tick
        /\ Matches(job, ticks) /\ Timed(job, ticks)
    BY DEF SchedulerInv, SchedulerTypeOK
  <1>2. clock' = clock /\ clock \in 1..LastMinute /\ clock \in Nat \ {0} /\ fired' \in 1..clock'
    BY SchedulerAssumption DEF SchedulerInv, SchedulerTypeOK, Fire
  <1>3. GoThrough(job, t, 1, ticks)
    BY DEF Fire
  <1>4. /\ job' \in [Names -> Entry] /\ ticks' \in SUBSET Tick
        /\ Matches(job, ticks)' /\ Timed(job, ticks)'
        /\ \A j \in Names : job'[j].lastRun = job[j].lastRun
    <2>1. CASE Len(JobOrder) >= 1
      <3>1. t \in Tick
        BY <1>2, <2>1, SchedulerAssumption DEF Tick
      <3> HIDE DEF t
      <3> QED BY <1>1, <1>3, <3>1, GoThroughKeeps
    <2>2. CASE ~(Len(JobOrder) >= 1)
      <3>1. NextEligible(job, t, 1) = {}
        BY <2>2, SchedulerAssumption DEF NextEligible
      <3>2. job' = job /\ ticks' = ticks
        BY <1>3, <3>1 DEF GoThrough
      <3> QED BY <1>1, <3>2 DEF Matches, Timed
    <2> QED BY <2>1, <2>2
  <1>5. waited' \in [Names -> Nat]
    BY PassedByType DEF SchedulerInv, Fire
  <1> QED BY <1>2, <1>4, <1>5 DEF SchedulerInv, SchedulerTypeOK, Advances

LEMMA JobEndsStep ==
  ASSUME SchedulerInv, NEW t \in ticks, JobEnds(t)
  PROVE  SchedulerInv' /\ Advances
  <1> DEFINE j == JobOrder[t.at]
             jobs == [job EXCEPT ![j] = Ended(@, j, t.now)]
  <1>1. /\ jobs \in [Names -> Entry]
        /\ Matches(jobs, ticks \ {t}) /\ Timed(jobs, ticks \ {t})
        /\ \A k \in Names : \/ jobs[k].lastRun = job[k].lastRun
                            \/ job[k].lastRun = 0
                            \/ jobs[k].lastRun >= job[k].lastRun + Interval[k]
    BY EndedKeeps
  <1>2. ticks \subseteq Tick /\ t \in Tick /\ t.now \in Nat /\ t.at \in Nat
    BY DEF SchedulerInv, SchedulerTypeOK, Tick
  <1>3. t.at + 1 \in Nat \ {0} /\ ticks \ {t} \in SUBSET Tick
    BY <1>2
  <1>4. GoThrough(jobs, t, t.at + 1, ticks \ {t})
    BY DEF JobEnds
  <1> HIDE DEF jobs
  <1>5. /\ job' \in [Names -> Entry] /\ ticks' \in SUBSET Tick
        /\ Matches(job, ticks)' /\ Timed(job, ticks)'
        /\ \A k \in Names : job'[k].lastRun = jobs[k].lastRun
    BY <1>1, <1>2, <1>3, <1>4, GoThroughKeeps
  <1>6. waited' \in [Names -> Nat]
    BY PassedByType DEF SchedulerInv, JobEnds
  <1>7. clock' \in 1..LastMinute /\ fired' \in 1..clock'
    BY DEF JobEnds, SchedulerInv, SchedulerTypeOK
  <1> QED BY <1>1, <1>5, <1>6, <1>7 DEF SchedulerInv, SchedulerTypeOK, Advances

LEMMA SwitchStep ==
  ASSUME SchedulerInv, NEW j \in Switched, SwitchJob(j)
  PROVE  SchedulerInv' /\ Advances
  <1>1. job \in [Names -> Entry] /\ j \in Names
    BY SchedulerAssumption DEF SchedulerInv, SchedulerTypeOK
  <1>2. /\ job' = [job EXCEPT ![j].enabled = ~@] /\ ticks' = ticks
        /\ clock' = clock /\ fired' = fired
    BY DEF SwitchJob
  <1>3. job' \in [Names -> Entry]
    BY <1>1, <1>2 DEF Entry
  <1>4. \A k \in Names : /\ job'[k].running = job[k].running
                         /\ job'[k].lastRun = job[k].lastRun
                         /\ job'[k].nextRun = job[k].nextRun
    BY <1>1, <1>2 DEF Entry
  <1>5. Matches(job, ticks)'
    BY <1>2, <1>4 DEF SchedulerInv, Matches
  <1>6. \A t \in ticks : JobOrder[t.at] \in Names
    BY Places DEF SchedulerInv, SchedulerTypeOK, Tick
  <1>7. Timed(job, ticks)'
    BY <1>2, <1>4, <1>6 DEF SchedulerInv, Timed
  <1>8. waited' \in [Names -> Nat]
    BY PassedByType DEF SchedulerInv, SwitchJob
  <1> QED BY <1>2, <1>3, <1>4, <1>5, <1>7, <1>8 DEF SchedulerInv, SchedulerTypeOK, Advances

(* The jobs as initScheduler registers them.                               *)
LEMMA RegisteredKeeps ==
  ASSUME NEW enabled \in [Names -> BOOLEAN], clock \in Nat
  PROVE  /\ Registered(enabled) \in [Names -> Entry]
         /\ \A j \in Names : Registered(enabled)[j].lastRun = 0
         /\ Matches(Registered(enabled), {}) /\ Timed(Registered(enabled), {})
  <1>1. Registered(enabled) \in [Names -> Entry]
    BY Places DEF Registered, Entry
  <1> QED BY <1>1 DEF Registered, Matches, Timed

LEMMA RestartStep ==
  ASSUME SchedulerInv, RestartScheduler
  PROVE  SchedulerInv' /\ Advances
  <1> DEFINE enabled == [j \in Names |-> job[j].enabled]
  <1>1. clock \in Nat /\ enabled \in [Names -> BOOLEAN]
    BY SchedulerAssumption DEF SchedulerInv, SchedulerTypeOK, Entry
  <1>2. job' = Registered(enabled) /\ ticks' = {} /\ clock' = clock /\ fired' \in 1..clock'
    BY <1>1 DEF RestartScheduler, SchedulerInv, SchedulerTypeOK
  <1>3. waited' \in [Names -> Nat]
    BY DEF RestartScheduler
  <1> HIDE DEF enabled
  <1>4. /\ job' \in [Names -> Entry] /\ \A j \in Names : job'[j].lastRun = 0
        /\ Matches(job, ticks)' /\ Timed(job, ticks)'
    BY <1>1, <1>2, RegisteredKeeps
  <1> QED BY <1>2, <1>3, <1>4 DEF SchedulerInv, SchedulerTypeOK, Advances

LEMMA InitHolds == SchedulerInit => SchedulerInv
  <1> SUFFICES ASSUME SchedulerInit PROVE SchedulerInv
    OBVIOUS
  <1> DEFINE enabled == [j \in Names |-> TRUE]
  <1>1. /\ clock \in 1..LastMinute /\ fired \in 1..clock /\ clock \in Nat
        /\ enabled \in [Names -> BOOLEAN]
    BY SchedulerAssumption DEF SchedulerInit
  <1>2. job = Registered(enabled) /\ ticks = {} /\ waited \in [Names -> Nat]
    BY DEF SchedulerInit
  <1> HIDE DEF enabled
  <1>3. job \in [Names -> Entry] /\ Matches(job, ticks) /\ Timed(job, ticks)
    BY <1>1, <1>2, RegisteredKeeps
  <1> QED BY <1>1, <1>2, <1>3 DEF SchedulerInv, SchedulerTypeOK

LEMMA StepKeeps == SchedulerInv /\ [SchedulerNext]_schedulerVars => SchedulerInv' /\ Advances
  <1> SUFFICES ASSUME SchedulerInv, [SchedulerNext]_schedulerVars PROVE SchedulerInv' /\ Advances
    OBVIOUS
  <1>1. CASE MinutePasses
    BY <1>1, MinuteStep
  <1>2. CASE \E short \in BOOLEAN : Fire(short)
    BY <1>2, FireStep
  <1>3. CASE \E t \in ticks : JobEnds(t)
    BY <1>3, JobEndsStep
  <1>4. CASE \E j \in Switched : SwitchJob(j)
    BY <1>4, SwitchStep
  <1>5. CASE RestartScheduler
    BY <1>5, RestartStep
  <1>6. CASE UNCHANGED schedulerVars
    BY <1>6 DEF schedulerVars, SchedulerInv, SchedulerTypeOK, Matches, Timed, Advances
  <1> QED BY <1>1, <1>2, <1>3, <1>4, <1>5, <1>6 DEF SchedulerNext

THEOREM Inductive == SchedulerSpec => []SchedulerInv
  BY InitHolds, StepKeeps, PTL DEF SchedulerSpec

(* Every reachable state of the scheduler is well typed: no count of       *)
(* minutes goes below zero and no tick stands outside the order of jobs.   *)
THEOREM TypeCorrect == SchedulerSpec => []SchedulerTypeOK
  BY Inductive, PTL DEF SchedulerInv

(* Ticks that overlap never run a job twice, and no flag stays set, for    *)
(* any jobs and any number of ticks that hang.                             *)
THEOREM OneTick == SchedulerSpec => []OneTickPerJob
  <1>1. SchedulerInv => OneTickPerJob
    BY DEF SchedulerInv, Matches, OneTickPerJob
  <1> QED BY <1>1, Inductive, PTL

(* The runs of a job are its interval apart, although each tick writes the *)
(* time it was fired at.                                                   *)
THEOREM Advance == SchedulerSpec => RunsAdvance
  <1>1. SchedulerInv /\ [SchedulerNext]_schedulerVars => [Advances]_schedulerVars
    BY StepKeeps
  <1>2. SchedulerSpec => [][Advances]_schedulerVars
    BY <1>1, Inductive, PTL DEF SchedulerSpec
  <1> QED BY <1>2 DEF RunsAdvance, Advances

-----------------------------------------------------------------------------
(* How long a job that is due waits.                                       *)

(* The ticks on their way to the job at place i that find it due.          *)
Ahead(i) == {t \in ticks : t.at < i /\ Reached(job[JobOrder[i]], t)}

(* Each tick that passed by a job and counted is still on its way to it.   *)
Patience ==
  /\ IsFiniteSet(ticks)
  /\ \A i \in 1..Len(JobOrder) : waited[JobOrder[i]] <= Cardinality(Ahead(i))
  /\ \A j \in Names : ~Waiting(j) => waited[j] = 0

(* A tick changes nothing of a job but that it runs.                       *)
LEMMA GoThroughEntry ==
  ASSUME NEW jobs \in [Names -> Entry], NEW by, NEW from \in Nat \ {0}, NEW others,
         GoThrough(jobs, by, from, others), NEW j \in Names
  PROVE  /\ job'[j].enabled = jobs[j].enabled /\ job'[j].nextRun = jobs[j].nextRun
         /\ jobs[j].running => job'[j].running
         /\ ~job'[j].running => job'[j] = jobs[j]
  <1>1. CASE job' = jobs
    BY <1>1
  <1>2. ASSUME NEW i \in NextEligible(jobs, by, from),
               job' = [jobs EXCEPT ![JobOrder[i]].running = TRUE]
        PROVE  /\ job'[j].enabled = jobs[j].enabled /\ job'[j].nextRun = jobs[j].nextRun
               /\ jobs[j].running => job'[j].running
               /\ ~job'[j].running => job'[j] = jobs[j]
    <2>1. JobOrder[i] \in Names
      BY Places DEF NextEligible
    <2>2. CASE j = JobOrder[i]
      <3>1. job'[j] = [jobs[j] EXCEPT !.running = TRUE]
        BY <1>2, <2>1, <2>2
      <3> QED BY <3>1 DEF Entry
    <2>3. CASE j # JobOrder[i]
      BY <1>2, <2>1, <2>3
    <2> QED BY <2>2, <2>3
  <1> QED BY <1>1, <1>2 DEF GoThrough

(* Every set of naturals that has a member has a least one.                *)
LEMMA Least ==
  ASSUME NEW S, S \subseteq Nat, S # {}
  PROVE  \E m \in S : \A k \in S : m <= k
  <1> DEFINE R == OpToRel(<, Nat)
  <1>1. IsWellFoundedOn(R, Nat)
    BY NatLessThanWellFounded
  <1>2. \A i, k \in Nat : i < k => <<i, k>> \in R
    BY DEF OpToRel
  <1> HIDE DEF R
  <1>3. PICK m \in S : \A k \in S : <<k, m>> \notin R
    BY <1>1, WFMin
  <1>4. ASSUME NEW k \in S PROVE m <= k
    <2>1. k \in Nat /\ m \in Nat
      OBVIOUS
    <2>2. ~(k < m)
      BY <1>2, <1>3, <2>1, Zenon
    <2> QED BY <2>1, <2>2
  <1> QED BY <1>4

(* A tick passes by a job that is due only to await an earlier one.        *)
LEMMA PassesToEarlier ==
  ASSUME NEW jobs \in [Names -> Entry], NEW by \in Tick, NEW from \in Nat \ {0},
         NEW others \in SUBSET Tick, Matches(jobs, others),
         GoThrough(jobs, by, from, others),
         NEW i \in from..Len(JobOrder), Eligible(jobs[JobOrder[i]], by),
         ~job'[JobOrder[i]].running
  PROVE  \E k \in from..(i - 1) :
           /\ ticks' = others \cup {[by EXCEPT !.at = k]}
           /\ [by EXCEPT !.at = k] \notin others
           /\ k \in NextEligible(jobs, by, from)
  <1>1. Len(JobOrder) \in Nat
    BY SchedulerAssumption
  <1>2. NextEligible(jobs, by, from) # {}
    <2> DEFINE S == {k \in from..Len(JobOrder) : Eligible(jobs[JobOrder[k]], by)}
    <2>1. S \subseteq Nat /\ S # {}
      BY <1>1
    <2>2. PICK k \in S : \A m \in S : k <= m
      BY <2>1, Least
    <2>3. \A m \in from..(k - 1) : m \notin S /\ m \in from..Len(JobOrder)
      BY <1>1, <2>2
    <2> QED BY <2>2, <2>3 DEF NextEligible
  <1>3. PICK k \in NextEligible(jobs, by, from) :
          /\ job' = [jobs EXCEPT ![JobOrder[k]].running = TRUE]
          /\ ticks' = others \cup {[by EXCEPT !.at = k]}
    BY <1>2 DEF GoThrough
  <1>4. k \in from..Len(JobOrder) /\ ~jobs[JobOrder[k]].running /\ JobOrder[k] \in Names
    BY Places DEF NextEligible, Eligible
  <1>5. job'[JobOrder[k]].running
    BY <1>3, <1>4 DEF Entry
  <1>6. k # i
    BY <1>5
  <1>7. ~(i < k)
    BY <1>1, <1>4 DEF NextEligible
  <1>8. k \in from..(i - 1)
    BY <1>1, <1>4, <1>6, <1>7
  <1>9. [by EXCEPT !.at = k] \notin others
    <2>1. [by EXCEPT !.at = k].at = k
      BY DEF Tick
    <2> QED BY <2>1, <1>4 DEF Matches
  <1> QED BY <1>3, <1>8, <1>9

LEMMA FirePatience ==
  ASSUME SchedulerInv, Patience, NEW short \in BOOLEAN, Fire(short)
  PROVE  Patience'
  <1> DEFINE t == [now |-> clock, short |-> short, at |-> 1]
             due == {j \in Names : Eligible(job[j], t)}
  <1>1. /\ job \in [Names -> Entry] /\ ticks \in SUBSET Tick /\ Matches(job, ticks)
        /\ waited \in [Names -> Nat]
    BY DEF SchedulerInv, SchedulerTypeOK
  <1>2. clock \in Nat
    BY SchedulerAssumption DEF SchedulerInv, SchedulerTypeOK
  <1>3. GoThrough(job, t, 1, ticks) /\ PassedBy(due)
    BY DEF Fire
  <1> HIDE DEF due
  <1>4. IsFiniteSet(ticks')
    <2>1. IsFiniteSet(ticks)
      BY DEF Patience
    <2>2. \A x : IsFiniteSet(ticks \cup {x})
      BY <2>1, FS_AddElement
    <2> QED BY <1>3, <2>1, <2>2 DEF GoThrough
  <1>5. ASSUME NEW i \in 1..Len(JobOrder)
        PROVE  waited'[JobOrder[i]] <= Cardinality(Ahead(i)')
    <2> DEFINE j == JobOrder[i]
    <2>1. j \in Names
      BY Places
    <2>2. IsFiniteSet(Ahead(i)) /\ IsFiniteSet(Ahead(i)')
      BY <1>4, FS_Subset DEF Ahead, Patience
    <2>3. Cardinality(Ahead(i)) \in Nat /\ Cardinality(Ahead(i)') \in Nat
      BY <2>2, FS_CardinalityType
    <2>4. waited'[j] = IF ~Waiting(j)' THEN 0 ELSE IF j \in due THEN waited[j] + 1 ELSE waited[j]
      BY <1>3, <2>1 DEF PassedBy
    <2>9. t \in Tick
      BY <1>2, SchedulerAssumption DEF Tick
    <2> HIDE DEF t
    <2>7. waited[j] <= Cardinality(Ahead(i)) /\ waited[j] \in Nat
      BY <1>1, <2>1 DEF Patience
    <2>5. CASE ~Waiting(j)'
      BY <2>3, <2>4, <2>5
    <2>10. CASE Waiting(j)'
      <3>1. job'[j] = job[j] /\ ~job'[j].running
        BY <1>1, <1>3, <2>1, <2>10, GoThroughEntry DEF Waiting
      <3>2. CASE j \notin due
        <4>1. ticks \subseteq ticks'
          BY <1>3 DEF GoThrough
        <4>2. Ahead(i) \subseteq Ahead(i)'
          BY <3>1, <4>1 DEF Ahead
        <4>3. Cardinality(Ahead(i)) <= Cardinality(Ahead(i)')
          BY <2>2, <4>2, FS_Subset
        <4> QED BY <2>3, <2>4, <2>7, <2>10, <3>2, <4>3
      <3>3. CASE j \in due
        <4>1. Eligible(job[JobOrder[i]], t)
          BY <3>3 DEF due
        <4>2. PICK k \in 1..(i - 1) :
                /\ ticks' = ticks \cup {[t EXCEPT !.at = k]}
                /\ [t EXCEPT !.at = k] \notin ticks
          <5>1. 1 \in Nat \ {0} /\ ~job'[JobOrder[i]].running
            BY <3>1
          <5> QED BY <1>1, <1>3, <2>9, <4>1, <5>1, PassesToEarlier, Zenon
        <4> DEFINE new == [t EXCEPT !.at = k]
        <4>3. new.at < i /\ Reached(job'[j], new)
          BY <2>9, <3>1, <4>1 DEF Eligible, Reached, Tick
        <4>4. Ahead(i)' = Ahead(i) \cup {new} /\ new \notin Ahead(i)
          BY <3>1, <4>2, <4>3 DEF Ahead
        <4> HIDE DEF new
        <4>5. Cardinality(Ahead(i)') = Cardinality(Ahead(i)) + 1
          BY <2>2, <4>4, FS_AddElement
        <4> QED BY <2>3, <2>4, <2>7, <2>10, <3>3, <4>5
      <3> QED BY <3>2, <3>3
    <2> QED BY <2>5, <2>10
  <1>6. \A j \in Names : ~Waiting(j)' => waited'[j] = 0
    BY <1>3 DEF PassedBy
  <1> QED BY <1>4, <1>5, <1>6 DEF Patience

(* The tick that ends one job goes on, and stays ahead of what it had been *)
(* ahead of, or starts it.                                                 *)
LEMMA JobEndsPatience ==
  ASSUME SchedulerInv, Patience, NEW t \in ticks, JobEnds(t)
  PROVE  Patience'
  <1> DEFINE n == JobOrder[t.at]
             jobs == [job EXCEPT ![n] = Ended(@, n, t.now)]
  <1>1. jobs \in [Names -> Entry] /\ Matches(jobs, ticks \ {t})
    BY EndedKeeps
  <1>2. /\ ticks \ {t} \in SUBSET Tick /\ t \in Tick /\ t.now \in Nat /\ t.at \in 1..Len(JobOrder)
        /\ t.at + 1 \in Nat \ {0} /\ waited \in [Names -> Nat] /\ job \in [Names -> Entry]
    BY DEF SchedulerInv, SchedulerTypeOK, Tick
  <1>3. GoThrough(jobs, t, t.at + 1, ticks \ {t}) /\ PassedBy({}) /\ clock' = clock
    BY DEF JobEnds
  <1>4. \A j \in Names \ {n} : jobs[j] = job[j]
    BY <1>2
  <1>5. n \in Names /\ job[n].running
    BY <1>2, Places DEF SchedulerInv, Matches
  <1> HIDE DEF jobs
  <1>6. IsFiniteSet(ticks')
    <2>1. IsFiniteSet(ticks \ {t})
      BY FS_RemoveElement DEF Patience
    <2>2. \A x : IsFiniteSet((ticks \ {t}) \cup {x})
      BY <2>1, FS_AddElement
    <2> QED BY <1>3, <2>1, <2>2 DEF GoThrough
  <1>7. ASSUME NEW i \in 1..Len(JobOrder)
        PROVE  waited'[JobOrder[i]] <= Cardinality(Ahead(i)')
    <2> DEFINE j == JobOrder[i]
    <2>1. j \in Names
      BY Places
    <2>2. IsFiniteSet(Ahead(i)) /\ IsFiniteSet(Ahead(i)')
      BY <1>6, FS_Subset DEF Ahead, Patience
    <2>3. Cardinality(Ahead(i)) \in Nat /\ Cardinality(Ahead(i)') \in Nat
      BY <2>2, FS_CardinalityType
    <2>4. waited'[j] = IF Waiting(j)' THEN waited[j] ELSE 0
      BY <1>2, <1>3, <2>1 DEF PassedBy
    <2>5. waited[j] <= Cardinality(Ahead(i)) /\ waited[j] \in Nat
      BY <1>2, <2>1 DEF Patience
    <2>6. CASE ~Waiting(j)'
      BY <2>3, <2>4, <2>6
    <2>7. CASE j = n
      <3>1. waited[j] = 0
        BY <1>5, <2>7 DEF Patience, Waiting
      <3> QED BY <2>3, <2>4, <3>1
    <2>8. CASE Waiting(j)' /\ j # n
      <3>1. /\ ~job'[j].running /\ job'[j] = jobs[j] /\ job'[j] = job[j]
            /\ job'[j].enabled
        BY <1>1, <1>2, <1>3, <1>4, <2>1, <2>8, GoThroughEntry DEF Waiting
      <3>2. ticks \ {t} \subseteq ticks'
        BY <1>3 DEF GoThrough
      <3>3. CASE t \notin Ahead(i)
        <4>1. Ahead(i) \subseteq Ahead(i)'
          BY <3>1, <3>2, <3>3 DEF Ahead
        <4>2. Cardinality(Ahead(i)) <= Cardinality(Ahead(i)')
          BY <2>2, <4>1, FS_Subset
        <4> QED BY <2>3, <2>4, <2>5, <2>8, <4>2
      <3>4. CASE t \in Ahead(i)
        <4>1. t.at < i /\ Reached(job[j], t)
          BY <3>4 DEF Ahead
        <4>2. Eligible(jobs[JobOrder[i]], t)
          BY <3>1, <4>1 DEF Eligible
        <4>3. i \in (t.at + 1)..Len(JobOrder)
          BY <1>2, <4>1
        <4>4. PICK k \in (t.at + 1)..(i - 1) :
                /\ ticks' = (ticks \ {t}) \cup {[t EXCEPT !.at = k]}
                /\ [t EXCEPT !.at = k] \notin ticks \ {t}
          BY <1>1, <1>2, <1>3, <3>1, <4>2, <4>3, PassesToEarlier
        <4> DEFINE new == [t EXCEPT !.at = k]
        <4>5. new.at < i /\ Reached(job'[j], new)
          BY <1>2, <3>1, <4>1 DEF Reached, Tick
        <4>6. Ahead(i)' = (Ahead(i) \ {t}) \cup {new} /\ new \notin Ahead(i) \ {t}
          BY <3>1, <4>4, <4>5 DEF Ahead
        <4> HIDE DEF new
        <4>7. IsFiniteSet(Ahead(i) \ {t}) /\ Cardinality(Ahead(i) \ {t}) = Cardinality(Ahead(i)) - 1
          BY <2>2, <3>4, FS_RemoveElement
        <4>8. Cardinality(Ahead(i)') = Cardinality(Ahead(i) \ {t}) + 1
          BY <4>6, <4>7, FS_AddElement
        <4> QED BY <2>3, <2>4, <2>5, <2>8, <4>7, <4>8
      <3> QED BY <3>3, <3>4
    <2> QED BY <2>6, <2>7, <2>8
  <1>8. \A j \in Names : ~Waiting(j)' => waited'[j] = 0
    BY <1>3 DEF PassedBy
  <1> QED BY <1>6, <1>7, <1>8 DEF Patience

LEMMA SwitchPatience ==
  ASSUME SchedulerInv, Patience, NEW j \in Switched, SwitchJob(j)
  PROVE  Patience'
  <1>1. j \in Names /\ job \in [Names -> Entry] /\ waited \in [Names -> Nat]
    BY SchedulerAssumption DEF SchedulerInv, SchedulerTypeOK
  <1>2. \A k \in Names : job'[k].nextRun = job[k].nextRun
    BY <1>1 DEF SwitchJob, Entry
  <1>3. \A k \in Names : waited'[k] = IF Waiting(k)' THEN waited[k] ELSE 0
    BY <1>1 DEF SwitchJob, PassedBy
  <1>4. ASSUME NEW i \in 1..Len(JobOrder)
        PROVE  waited'[JobOrder[i]] <= Cardinality(Ahead(i)')
    <2>1. JobOrder[i] \in Names
      BY Places
    <2>2. Ahead(i)' = Ahead(i)
      BY <1>2, <2>1 DEF Ahead, Reached, SwitchJob
    <2>3. IsFiniteSet(Ahead(i))
      BY FS_Subset DEF Ahead, Patience
    <2>4. Cardinality(Ahead(i)) \in Nat
      BY <2>3, FS_CardinalityType
    <2>5. waited[JobOrder[i]] <= Cardinality(Ahead(i))
      BY DEF Patience
    <2> QED BY <1>3, <2>1, <2>2, <2>4, <2>5
  <1> QED BY <1>3, <1>4 DEF Patience, SwitchJob

LEMMA MinutePatience ==
  ASSUME SchedulerInv, Patience, MinutePasses
  PROVE  Patience'
  <1>1. waited \in [Names -> Nat] /\ job' = job /\ ticks' = ticks
    BY DEF SchedulerInv, SchedulerTypeOK, MinutePasses
  <1>2. \A k \in Names : waited'[k] = IF Waiting(k)' THEN waited[k] ELSE 0
    BY <1>1 DEF MinutePasses, PassedBy
  <1>3. ASSUME NEW i \in 1..Len(JobOrder)
        PROVE  waited'[JobOrder[i]] <= Cardinality(Ahead(i)')
    <2>1. JobOrder[i] \in Names
      BY Places
    <2>2. Ahead(i)' = Ahead(i)
      BY <1>1 DEF Ahead
    <2>3. IsFiniteSet(Ahead(i))
      BY FS_Subset DEF Ahead, Patience
    <2>4. Cardinality(Ahead(i)) \in Nat
      BY <2>3, FS_CardinalityType
    <2>5. waited[JobOrder[i]] <= Cardinality(Ahead(i))
      BY DEF Patience
    <2> QED BY <1>2, <2>1, <2>2, <2>4, <2>5
  <1> QED BY <1>1, <1>2, <1>3 DEF Patience

(* No one has waited when all start anew.                                  *)
LEMMA NoneWaited ==
  ASSUME ticks = {}, waited = [j \in Names |-> 0]
  PROVE  Patience
  <1>1. \A i \in 1..Len(JobOrder) : Ahead(i) = {} /\ waited[JobOrder[i]] = 0
    BY Places DEF Ahead
  <1>2. IsFiniteSet(ticks) /\ 0 <= Cardinality({})
    BY FS_EmptySet
  <1> QED BY <1>1, <1>2 DEF Patience

LEMMA PatienceNext == SchedulerInv /\ Patience /\ [SchedulerNext]_schedulerVars => Patience'
  <1> SUFFICES ASSUME SchedulerInv, Patience, [SchedulerNext]_schedulerVars PROVE Patience'
    OBVIOUS
  <1>1. CASE MinutePasses
    BY <1>1, MinutePatience
  <1>2. CASE \E short \in BOOLEAN : Fire(short)
    BY <1>2, FirePatience
  <1>3. CASE \E t \in ticks : JobEnds(t)
    BY <1>3, JobEndsPatience
  <1>4. CASE \E j \in Switched : SwitchJob(j)
    BY <1>4, SwitchPatience
  <1>5. CASE RestartScheduler
    <2>1. ticks' = {} /\ waited' = [j \in Names |-> 0]
      BY <1>5 DEF RestartScheduler
    <2>2. \A i \in 1..Len(JobOrder) : Ahead(i)' = {} /\ waited'[JobOrder[i]] = 0
      BY <2>1, Places DEF Ahead
    <2>3. IsFiniteSet(ticks') /\ 0 <= Cardinality({})
      BY <2>1, FS_EmptySet
    <2> QED BY <2>1, <2>2, <2>3 DEF Patience
  <1>6. CASE UNCHANGED schedulerVars
    BY <1>6 DEF schedulerVars, Patience, Ahead, Waiting
  <1> QED BY <1>1, <1>2, <1>3, <1>4, <1>5, <1>6 DEF SchedulerNext

(* The ticks ahead of a job await different earlier jobs.                  *)
LEMMA AheadRun ==
  ASSUME SchedulerInv, NEW i \in 1..Len(JobOrder)
  PROVE  Cardinality(Ahead(i)) <= Cardinality({k \in 1..(i - 1) : job[JobOrder[k]].running})
  <1> DEFINE K == {k \in 1..(i - 1) : job[JobOrder[k]].running}
             f == [t \in Ahead(i) |-> t.at]
  <1>1. IsFiniteSet(K)
    <2>1. IsFiniteSet(1..(i - 1))
      BY FS_Interval
    <2> QED BY <2>1, FS_Subset
  <1>2. ASSUME NEW t \in Ahead(i) PROVE t.at \in K
    <2>1. t \in ticks /\ t.at \in 1..(i - 1) /\ JobOrder[t.at] \in Names
      BY Places DEF Ahead, SchedulerInv, SchedulerTypeOK, Tick
    <2>2. job[JobOrder[t.at]].running
      BY <2>1 DEF SchedulerInv, Matches
    <2> QED BY <2>1, <2>2
  <1>3. \A s, t \in Ahead(i) : s.at = t.at => s = t
    BY DEF Ahead, SchedulerInv, Matches
  <1>4. f \in Injection(Ahead(i), K)
    BY <1>2, <1>3, Zenon DEF Injection, IsInjective
  <1> QED BY <1>1, <1>4, FS_Injection

(* A job that hangs delays a later one by one tick and never stops it: of  *)
(* the ticks that pass a job by while it is due, each awaits another of    *)
(* the earlier jobs.                                                       *)
THEOREM DelayedOnce == SchedulerSpec => []HungJobsDelayOnce
  <1>1. SchedulerInit => Patience
    BY NoneWaited DEF SchedulerInit
  <1>2. SchedulerInv /\ Patience => HungJobsDelayOnce
    <2> SUFFICES ASSUME SchedulerInv, Patience, NEW i \in 1..Len(JobOrder)
                 PROVE  waited[JobOrder[i]] <= Cardinality({k \in 1..(i - 1) : job[JobOrder[k]].running})
      BY DEF HungJobsDelayOnce
    <2> DEFINE K == {k \in 1..(i - 1) : job[JobOrder[k]].running}
    <2>1. Cardinality(Ahead(i)) <= Cardinality(K)
      BY AheadRun
    <2>2. IsFiniteSet(Ahead(i)) /\ IsFiniteSet(1..(i - 1))
      BY FS_Subset, FS_Interval DEF Ahead, Patience
    <2>3. IsFiniteSet(K)
      BY <2>2, FS_Subset
    <2>4. Cardinality(Ahead(i)) \in Nat /\ Cardinality(K) \in Nat
      BY <2>2, <2>3, FS_CardinalityType
    <2>5. waited[JobOrder[i]] \in Nat
      BY Places DEF SchedulerInv, SchedulerTypeOK
    <2> HIDE DEF K
    <2>6. waited[JobOrder[i]] <= Cardinality(K)
      BY <2>1, <2>4, <2>5 DEF Patience
    <2> QED BY <2>6 DEF K
  <1> QED BY <1>1, <1>2, Inductive, PatienceNext, PTL DEF SchedulerSpec

-----------------------------------------------------------------------------
(* The children of recurring tasks.                                        *)

(* last_spawned_at and the titles know of every child, unless a write of   *)
(* the metadata took that away.                                            *)
LastKnown ==
  \A t \in Templates :
    /\ recurrence[t].last <= clock
    /\ \A m \in Minutes : spawns[t][m] > 0 =>
         /\ m <= clock
         /\ overwrites[t] = 0 => m <= recurrence[t].last
         /\ t \in InProject \ regrained => <<t, Suffix(recurrence[t].cron, m)>> \in titles

(* Only a write of the metadata makes room for another child of a minute.  *)
RoomForChildren ==
  \A t \in Templates : \A m \in Minutes :
    /\ spawns[t][m] <= overwrites[t] + 1
    /\ m = clock /\ recurrence[t].last # m => spawns[t][m] <= overwrites[t]

(* What last_spawned_at and the titles say of a template whose metadata no *)
(* one wrote is true.                                                      *)
Untouched ==
  \A t \in Templates : overwrites[t] = 0 =>
    /\ recurrence[t].enabled
    /\ recurrence[t].last # 0 => spawns[t][recurrence[t].last] > 0
    /\ \A suffix \in Suffixes : <<t, suffix>> \in titles =>
         \E k \in 1..clock : spawns[t][k] > 0 /\ suffix = Suffix(recurrence[t].cron, k)

ChildrenInv ==
  RecurringTypeOK /\ LastKnown /\ RoomForChildren /\ Untouched /\ OnceAMinute

LEMMA SuffixType ==
  ASSUME NEW cron \in Cron, NEW m \in Nat
  PROVE  Suffix(cron, m) \in Suffixes
  <1>1. MinutesPerDay \in Nat \ {0} /\ DaysPerYear \in Nat \ {0}
    BY RecurringAssumption
  <1>2. m \div MinutesPerDay \in Nat
    BY <1>1
  <1>3. MinuteOf(m) \in 0..(MinutesPerDay - 1) /\ Date(m) \in 0..(DaysPerYear - 1)
    BY <1>1, <1>2 DEF MinuteOf, Date
  <1> QED BY <1>3, Zenon DEF Suffix, Suffixes

(* What is known of one child, and of a template.                          *)
LEMMA ChildKnown ==
  ASSUME LastKnown, NEW t \in Templates, NEW m \in Minutes, spawns[t][m] > 0
  PROVE  /\ m <= clock
         /\ overwrites[t] = 0 => m <= recurrence[t].last
         /\ t \in InProject \ regrained => <<t, Suffix(recurrence[t].cron, m)>> \in titles
  BY Zenon DEF LastKnown

LEMMA LastPast ==
  ASSUME LastKnown, NEW t \in Templates
  PROVE  recurrence[t].last <= clock
  BY Zenon DEF LastKnown

(* The job spawns no second child in a minute.                             *)
LEMMA SpawnsOnce ==
  ASSUME ChildrenInv, clock \in Nat, NEW m \in Minutes, clock <= m, NEW t \in Spawned(m)
  PROVE  /\ spawns[t][m] <= overwrites[t]
         /\ overwrites[t] = 0 \/ t \in InProject \ regrained => spawns[t][m] = 0
  <1>1. /\ t \in Templates /\ recurrence[t].last # m /\ ~Existing(t, m) /\ m \in Nat
        /\ recurrence[t].last \in Nat /\ spawns[t][m] \in Nat /\ overwrites[t] \in Nat
    BY RecurringAssumption DEF Spawned, IsCronDue, ChildrenInv, RecurringTypeOK, Minutes
  <1>2. spawns[t][m] <= overwrites[t]
    <2>1. CASE m = clock
      BY <1>1, <2>1 DEF ChildrenInv, RoomForChildren
    <2>2. CASE clock < m
      <3>1. ASSUME spawns[t][m] > 0 PROVE FALSE
        <4>1. m <= clock
          BY <1>1, <3>1, ChildKnown, Zenon DEF ChildrenInv
        <4> QED BY <1>1, <2>2, <4>1
      <3> QED BY <1>1, <3>1
    <2> QED BY <1>1, <2>1, <2>2
  <1>3. ASSUME t \in InProject \ regrained, spawns[t][m] > 0 PROVE FALSE
    BY <1>1, <1>3 DEF ChildrenInv, LastKnown, Existing
  <1> QED BY <1>1, <1>2, <1>3

(* One run of the job, in minute clock'.                                   *)
LEMMA SpawnKeeps ==
  ASSUME ChildrenInv, clock \in Nat, clock' \in Minutes \ {0}, clock <= clock',
         SpawnRecurringTasks(clock')
  PROVE  ChildrenInv'
  <1> DEFINE m == clock'
  <1>1. /\ recurrence \in [Templates -> [cron : Crons, enabled : BOOLEAN, last : Minutes]]
        /\ titles \subseteq Templates \X Suffixes
        /\ spawns \in [Templates -> [Minutes -> Nat]]
        /\ overwrites \in [Templates -> 0..MaxOverwrites]
        /\ regrained \subseteq Templates
    <2>1. 0..(MaxOverwrites + 1) \subseteq Nat
      OBVIOUS
    <2> QED BY <2>1 DEF ChildrenInv, RecurringTypeOK
  <1>2. m \in Nat /\ m \in Minutes /\ Minutes \subseteq Nat /\ MaxOverwrites \in Nat /\ Crons \subseteq Cron
    BY RecurringAssumption DEF Minutes
  <1>3. /\ overwrites' = overwrites /\ regrained' = regrained
        /\ titles' = titles \cup {<<t, Suffix(recurrence[t].cron, m)>> : t \in Spawned(m)}
        /\ recurrence' = [t \in Templates |->
             IF t \in Spawned(m) THEN [recurrence[t] EXCEPT !.last = m] ELSE recurrence[t]]
        /\ spawns' = [t \in Templates |->
             IF t \in Spawned(m) THEN [spawns[t] EXCEPT ![m] = @ + 1] ELSE spawns[t]]
    BY DEF SpawnRecurringTasks
  <1>4. \A t \in Templates \ Spawned(m) : recurrence'[t] = recurrence[t] /\ spawns'[t] = spawns[t]
    BY <1>3
  <1>5. \A t \in Spawned(m) :
          /\ t \in Templates /\ recurrence'[t] = [recurrence[t] EXCEPT !.last = m]
          /\ spawns'[t] = [spawns[t] EXCEPT ![m] = @ + 1]
          /\ <<t, Suffix(recurrence[t].cron, m)>> \in titles'
    BY <1>3 DEF Spawned
  <1> HIDE DEF m
  <1>6. ASSUME NEW t \in Spawned(m)
        PROVE  /\ recurrence'[t].last = m /\ recurrence'[t].cron = recurrence[t].cron
               /\ recurrence'[t].enabled = recurrence[t].enabled
               /\ recurrence'[t] \in [cron : Crons, enabled : BOOLEAN, last : Minutes]
    <2>1. recurrence[t] \in [cron : Crons, enabled : BOOLEAN, last : Minutes]
      BY <1>1, <1>5
    <2>2. recurrence'[t] = [recurrence[t] EXCEPT !.last = m]
      BY <1>5
    <2> QED BY <1>2, <2>1, <2>2
  <1>7. ASSUME NEW t \in Spawned(m)
        PROVE  /\ spawns'[t] \in [Minutes -> Nat] /\ spawns'[t][m] = spawns[t][m] + 1
               /\ \A k \in Minutes \ {m} : spawns'[t][k] = spawns[t][k]
    <2>1. spawns[t] \in [Minutes -> Nat]
      BY <1>1, <1>5
    <2>2. spawns'[t] = [spawns[t] EXCEPT ![m] = @ + 1]
      BY <1>5
    <2> QED BY <1>2, <2>1, <2>2
  <1>8. /\ recurrence' \in [Templates -> [cron : Crons, enabled : BOOLEAN, last : Minutes]]
        /\ spawns' \in [Templates -> [Minutes -> Nat]]
    <2>1. \A t \in Templates : recurrence'[t] \in [cron : Crons, enabled : BOOLEAN, last : Minutes]
      BY <1>1, <1>4, <1>6
    <2>2. \A t \in Templates : spawns'[t] \in [Minutes -> Nat]
      BY <1>1, <1>4, <1>7
    <2> QED BY <1>3, <2>1, <2>2
  <1>9. \A t \in Templates : recurrence'[t].cron = recurrence[t].cron
    BY <1>4, <1>6
  <1>10. \A t \in Templates : recurrence[t].cron \in Cron
    BY <1>1, <1>2
  <1>11. titles' \subseteq Templates \X Suffixes
    <2>1. \A t \in Spawned(m) : t \in Templates /\ Suffix(recurrence[t].cron, m) \in Suffixes
      BY <1>2, <1>5, <1>10, SuffixType
    <2> QED BY <1>1, <1>3, <2>1 DEF m
  <1>12. ASSUME NEW t \in Templates, NEW k \in Minutes
         PROVE  spawns[t][k] \in Nat /\ spawns'[t][k] \in Nat /\ spawns[t][k] <= spawns'[t][k]
    <2>1. spawns[t][k] \in Nat /\ spawns'[t][k] \in Nat
      BY <1>1, <1>8
    <2>2. spawns'[t][k] = spawns[t][k] \/ spawns'[t][k] = spawns[t][k] + 1
      BY <1>4, <1>7
    <2> QED BY <2>1, <2>2
  <1>13. ASSUME NEW t \in Templates
         PROVE  /\ recurrence[t].last \in Nat /\ overwrites[t] \in Nat
                /\ recurrence[t].last <= clock
    <2>1. recurrence[t].last <= clock
      BY LastPast, Zenon DEF ChildrenInv
    <2>2. recurrence[t].last \in Minutes /\ overwrites[t] \in 0..MaxOverwrites
      BY <1>1
    <2>3. 0..MaxOverwrites \subseteq Nat
      OBVIOUS
    <2> QED BY <1>2, <2>1, <2>2, <2>3
  <1>14. \A t \in Spawned(m) :
           /\ spawns[t][m] <= overwrites[t]
           /\ overwrites[t] = 0 \/ t \in InProject \ regrained => spawns[t][m] = 0
    BY <1>2, SpawnsOnce DEF m
  <1>15. LastKnown'
    <2>1. ASSUME NEW t \in Templates PROVE recurrence'[t].last <= clock'
      BY <1>2, <1>4, <1>6, <1>13 DEF m
    <2>2. ASSUME NEW t \in Templates, NEW k \in Minutes, spawns'[t][k] > 0
          PROVE  /\ k <= clock'
                 /\ overwrites'[t] = 0 => k <= recurrence'[t].last
                 /\ t \in InProject \ regrained' => <<t, Suffix(recurrence'[t].cron, k)>> \in titles'
      <3>1. CASE t \in Spawned(m) /\ k = m
        <4>1. recurrence'[t].last = m /\ recurrence'[t].cron = recurrence[t].cron
          BY <3>1, <1>6
        <4>2. <<t, Suffix(recurrence[t].cron, m)>> \in titles'
          BY <3>1, <1>5
        <4>3. k = clock' /\ k \in Nat
          BY <3>1, <1>2 DEF m
        <4>4. k <= clock' /\ k <= recurrence'[t].last
          BY <3>1, <4>1, <4>3
        <4> QED BY <3>1, <4>1, <4>2, <4>4
      <3>2. CASE ~(t \in Spawned(m) /\ k = m)
        <4>1. spawns[t][k] > 0
          BY <2>2, <3>2, <1>4, <1>7
        <4>2. /\ k <= clock
              /\ overwrites[t] = 0 => k <= recurrence[t].last
              /\ t \in InProject \ regrained => <<t, Suffix(recurrence[t].cron, k)>> \in titles
          BY <4>1, ChildKnown DEF ChildrenInv
        <4>3. k <= clock' /\ k \in Nat
          BY <4>2, <1>2 DEF m
        <4>4. recurrence'[t].last = m \/ recurrence'[t].last = recurrence[t].last
          BY <1>4, <1>6
        <4>5. overwrites'[t] = 0 => k <= recurrence'[t].last
          BY <1>3, <4>2, <4>3, <4>4 DEF m
        <4>6. t \in InProject \ regrained' => <<t, Suffix(recurrence'[t].cron, k)>> \in titles'
          BY <1>3, <1>9, <4>2
        <4> QED BY <4>3, <4>5, <4>6
      <3> QED BY <3>1, <3>2
    <2> QED BY <2>1, <2>2 DEF LastKnown
  <1>16. RoomForChildren'
    <2> SUFFICES ASSUME NEW t \in Templates, NEW k \in Minutes
                 PROVE  /\ spawns'[t][k] <= overwrites'[t] + 1
                        /\ k = clock' /\ recurrence'[t].last # k => spawns'[t][k] <= overwrites'[t]
      BY DEF RoomForChildren
    <2>1. spawns[t][k] <= overwrites[t] + 1
      BY DEF ChildrenInv, RoomForChildren
    <2>2. CASE t \in Spawned(m) /\ k = m
      <3>1. recurrence'[t].last = k /\ spawns'[t][k] = spawns[t][k] + 1 /\ spawns[t][k] <= overwrites[t]
        BY <2>2, <1>6, <1>7, <1>14
      <3> QED BY <3>1, <1>3, <1>12, <1>13
    <2>3. CASE ~(t \in Spawned(m) /\ k = m)
      <3>1. spawns'[t][k] = spawns[t][k]
        BY <2>3, <1>4, <1>7
      <3>2. ASSUME k = clock', recurrence'[t].last # k PROVE spawns[t][k] <= overwrites[t]
        <4>1. recurrence[t].last # k
          BY <3>2, <2>3, <1>4 DEF m
        <4>2. CASE k = clock
          BY <4>1, <4>2 DEF ChildrenInv, RoomForChildren
        <4>3. CASE k # clock
          <5>1. ~(k <= clock)
            BY <4>3, <3>2, <1>2 DEF m
          <5>2. ~(spawns[t][k] > 0)
            BY <5>1, ChildKnown DEF ChildrenInv
          <5> QED BY <5>2, <1>12, <1>13
        <4> QED BY <4>2, <4>3
      <3> QED BY <2>1, <3>1, <3>2, <1>3
    <2> QED BY <2>2, <2>3
  <1>17. Untouched'
    <2> SUFFICES ASSUME NEW t \in Templates, overwrites'[t] = 0
                 PROVE  /\ recurrence'[t].enabled
                        /\ recurrence'[t].last # 0 => spawns'[t][recurrence'[t].last] > 0
                        /\ \A suffix \in Suffixes : <<t, suffix>> \in titles' =>
                             \E k \in 1..clock' :
                               spawns'[t][k] > 0 /\ suffix = Suffix(recurrence'[t].cron, k)
      BY DEF Untouched
    <2>1. /\ overwrites[t] = 0 /\ recurrence[t].enabled
          /\ recurrence[t].last # 0 => spawns[t][recurrence[t].last] > 0
          /\ \A suffix \in Suffixes : <<t, suffix>> \in titles =>
               \E k \in 1..clock : spawns[t][k] > 0 /\ suffix = Suffix(recurrence[t].cron, k)
      BY <1>3 DEF ChildrenInv, Untouched
    <2>2. recurrence'[t].enabled
      BY <2>1, <1>4, <1>6
    <2>3. ASSUME recurrence'[t].last # 0 PROVE spawns'[t][recurrence'[t].last] > 0
      <3>1. CASE t \in Spawned(m)
        BY <3>1, <1>2, <1>6, <1>7, <1>12
      <3>2. CASE t \notin Spawned(m)
        BY <3>2, <2>1, <2>3, <1>4
      <3> QED BY <3>1, <3>2
    <2>4. ASSUME NEW suffix \in Suffixes, <<t, suffix>> \in titles'
          PROVE  \E k \in 1..clock' : spawns'[t][k] > 0 /\ suffix = Suffix(recurrence'[t].cron, k)
      <3>1. CASE <<t, suffix>> \in titles
        <4>1. PICK k \in 1..clock : spawns[t][k] > 0 /\ suffix = Suffix(recurrence[t].cron, k)
          BY <2>1, <3>1
        <4>2. k \in Minutes /\ k \in 1..clock'
          <5>1. LastSpawn \in Nat /\ clock' <= LastSpawn
            BY RecurringAssumption DEF Minutes
          <5> QED BY <1>2, <5>1 DEF m, Minutes
        <4>3. spawns'[t][k] > 0
          BY <4>1, <4>2, <1>12
        <4> QED BY <4>1, <4>2, <4>3, <1>9
      <3>2. CASE <<t, suffix>> \notin titles
        <4>1. t \in Spawned(m) /\ suffix = Suffix(recurrence[t].cron, m)
          BY <2>4, <3>2 DEF SpawnRecurringTasks, m
        <4>2. spawns'[t][m] > 0
          BY <4>1, <1>2, <1>7, <1>12
        <4>3. m \in 1..clock'
          BY <1>2 DEF m
        <4> QED BY <4>1, <4>2, <4>3, <1>9
      <3> QED BY <3>1, <3>2
    <2> QED BY <2>2, <2>3, <2>4
  <1>18. OnceAMinute'
    <2> SUFFICES ASSUME NEW t \in Templates, NEW k \in Minutes,
                        overwrites'[t] = 0 \/ (t \in InProject /\ t \notin regrained')
                 PROVE  spawns'[t][k] <= 1
      BY DEF OnceAMinute
    <2>1. CASE t \in Spawned(m) /\ k = m
      <3>1. spawns[t][k] = 0 /\ spawns'[t][k] = spawns[t][k] + 1
        BY <2>1, <1>3, <1>7, <1>14
      <3> QED BY <3>1
    <2>2. CASE ~(t \in Spawned(m) /\ k = m)
      BY <2>2, <1>3, <1>4, <1>7 DEF ChildrenInv, OnceAMinute
    <2> QED BY <2>1, <2>2
  <1>19. spawns' \in [Templates -> [Minutes -> 0..(MaxOverwrites + 1)]]
    <2>1. ASSUME NEW t \in Templates, NEW k \in Minutes
          PROVE  spawns'[t][k] \in 0..(MaxOverwrites + 1)
      <3>1. spawns'[t][k] <= overwrites[t] + 1 /\ spawns'[t][k] \in Nat
        BY <1>3, <1>8, <1>16 DEF RoomForChildren
      <3>2. overwrites[t] \in Nat /\ overwrites[t] <= MaxOverwrites
        BY <1>1, <1>2
      <3> QED BY <1>2, <3>1, <3>2
    <2> QED BY <1>8, <2>1
  <1> QED BY <1>1, <1>3, <1>8, <1>11, <1>15, <1>16, <1>17, <1>18, <1>19
          DEF ChildrenInv, RecurringTypeOK

(* The clock goes on.                                                      *)
LEMMA ChildrenRest ==
  ASSUME ChildrenInv, clock \in Nat, clock' \in Nat, clock <= clock', UNCHANGED recurringVars
  PROVE  ChildrenInv'
  <1>1. UNCHANGED <<recurrence, titles, spawns, overwrites, regrained>>
    BY DEF recurringVars
  <1>2. Minutes \subseteq Nat
    BY RecurringAssumption DEF Minutes
  <1>3. RecurringTypeOK' /\ OnceAMinute'
    BY <1>1 DEF ChildrenInv, RecurringTypeOK, OnceAMinute
  <1>4. ASSUME NEW t \in Templates
        PROVE  /\ recurrence[t].last \in Nat /\ overwrites[t] \in Nat
               /\ \A m \in Minutes : spawns[t][m] \in Nat
    <2>1. 0..MaxOverwrites \subseteq Nat /\ 0..(MaxOverwrites + 1) \subseteq Nat
      OBVIOUS
    <2> QED BY <1>2, <2>1 DEF ChildrenInv, RecurringTypeOK
  <1>5. LastKnown'
    <2>1. ASSUME NEW t \in Templates PROVE recurrence[t].last <= clock'
      <3>1. recurrence[t].last <= clock
        BY LastPast, Zenon DEF ChildrenInv
      <3> QED BY <1>4, <3>1
    <2>2. ASSUME NEW t \in Templates, NEW m \in Minutes, spawns[t][m] > 0
          PROVE  /\ m <= clock'
                 /\ overwrites[t] = 0 => m <= recurrence[t].last
                 /\ t \in InProject \ regrained => <<t, Suffix(recurrence[t].cron, m)>> \in titles
      <3>1. /\ m <= clock
            /\ overwrites[t] = 0 => m <= recurrence[t].last
            /\ t \in InProject \ regrained => <<t, Suffix(recurrence[t].cron, m)>> \in titles
        BY <2>2, ChildKnown, Zenon DEF ChildrenInv
      <3>2. m <= clock'
        BY <1>2, <3>1
      <3> QED BY <3>1, <3>2
    <2> QED BY <1>1, <2>1, <2>2 DEF LastKnown
  <1>6. RoomForChildren'
    <2> SUFFICES ASSUME NEW t \in Templates, NEW m \in Minutes
                 PROVE  /\ spawns[t][m] <= overwrites[t] + 1
                        /\ m = clock' /\ recurrence[t].last # m => spawns[t][m] <= overwrites[t]
      BY <1>1 DEF RoomForChildren
    <2>1. /\ spawns[t][m] <= overwrites[t] + 1
          /\ m = clock /\ recurrence[t].last # m => spawns[t][m] <= overwrites[t]
      BY Zenon DEF ChildrenInv, RoomForChildren
    <2>2. ASSUME m = clock', m # clock PROVE spawns[t][m] <= overwrites[t]
      <3>1. ASSUME spawns[t][m] > 0 PROVE FALSE
        <4>1. m <= clock
          BY <3>1, ChildKnown, Zenon DEF ChildrenInv
        <4> QED BY <2>2, <4>1
      <3> QED BY <1>4, <3>1
    <2> QED BY <2>1, <2>2
  <1>7. Untouched'
    <2> SUFFICES ASSUME NEW t \in Templates, overwrites[t] = 0
                 PROVE  /\ recurrence[t].enabled
                        /\ recurrence[t].last # 0 => spawns[t][recurrence[t].last] > 0
                        /\ \A suffix \in Suffixes : <<t, suffix>> \in titles =>
                             \E k \in 1..clock' :
                               spawns[t][k] > 0 /\ suffix = Suffix(recurrence[t].cron, k)
      BY <1>1 DEF Untouched
    <2>1. 1..clock \subseteq 1..clock'
      OBVIOUS
    <2> QED BY <2>1, Zenon DEF ChildrenInv, Untouched
  <1> QED BY <1>3, <1>5, <1>6, <1>7 DEF ChildrenInv

(* A write of the metadata.                                                *)
LEMMA OverwriteKeeps ==
  ASSUME ChildrenInv, clock \in Nat, clock' = clock, NEW t \in Templates, NEW cron \in Crons,
         NEW enabled \in BOOLEAN, NEW last \in {0, recurrence[t].last},
         OverwriteRecurrence(t, cron, enabled, last)
  PROVE  ChildrenInv'
  <1> DEFINE entry == [cron |-> cron, enabled |-> enabled, last |-> last]
  <1>1. /\ recurrence \in [Templates -> [cron : Crons, enabled : BOOLEAN, last : Minutes]]
        /\ overwrites \in [Templates -> 0..MaxOverwrites] /\ regrained \subseteq Templates
        /\ spawns \in [Templates -> [Minutes -> 0..(MaxOverwrites + 1)]]
    BY DEF ChildrenInv, RecurringTypeOK
  <1>2. LastSpawn \in Nat /\ MaxOverwrites \in Nat /\ Minutes \subseteq Nat /\ 0 \in Minutes
    BY RecurringAssumption DEF Minutes
  <1>3. /\ overwrites[t] < MaxOverwrites /\ overwrites' = [overwrites EXCEPT ![t] = @ + 1]
        /\ recurrence' = [recurrence EXCEPT ![t] = entry]
        /\ titles' = titles /\ spawns' = spawns
        /\ regrained' = IF SubDaily(cron) = SubDaily(recurrence[t].cron) THEN regrained
                        ELSE regrained \cup {t}
    BY DEF OverwriteRecurrence
  <1>4. last \in Minutes
    BY <1>1, <1>2
  <1>5. entry \in [cron : Crons, enabled : BOOLEAN, last : Minutes]
    BY <1>4
  <1>6. overwrites[t] \in 0..MaxOverwrites /\ overwrites[t] + 1 \in 0..MaxOverwrites
    BY <1>1, <1>2, <1>3
  <1>7. RecurringTypeOK'
    <2>1. recurrence' \in [Templates -> [cron : Crons, enabled : BOOLEAN, last : Minutes]]
      BY <1>1, <1>3, <1>5
    <2>2. overwrites' \in [Templates -> 0..MaxOverwrites]
      BY <1>1, <1>3, <1>6
    <2>3. regrained' \subseteq Templates
      BY <1>1, <1>3
    <2> QED BY <1>3, <2>1, <2>2, <2>3 DEF ChildrenInv, RecurringTypeOK
  <1>8. /\ recurrence'[t] = entry /\ overwrites'[t] = overwrites[t] + 1 /\ overwrites'[t] # 0
        /\ \A u \in Templates \ {t} : recurrence'[u] = recurrence[u] /\ overwrites'[u] = overwrites[u]
        /\ \A u \in Templates \ {t} : u \in regrained' <=> u \in regrained
        /\ t \notin regrained' => t \notin regrained /\ SubDaily(cron) = SubDaily(recurrence[t].cron)
    BY <1>1, <1>2, <1>3, <1>6
  <1>9. recurrence'[t].last = last /\ recurrence'[t].cron = cron
    BY <1>8
  <1>10. LastKnown'
    <2>1. ASSUME NEW u \in Templates PROVE recurrence'[u].last <= clock
      <3>1. recurrence[u].last <= clock /\ recurrence[t].last <= clock
        BY LastPast, Zenon DEF ChildrenInv
      <3>2. 0 <= clock
        OBVIOUS
      <3>3. recurrence'[u].last \in {0, recurrence[t].last, recurrence[u].last}
        BY <1>8, <1>9
      <3> QED BY <3>1, <3>2, <3>3
    <2>2. ASSUME NEW u \in Templates, NEW m \in Minutes, spawns[u][m] > 0
          PROVE  /\ m <= clock
                 /\ overwrites'[u] = 0 => m <= recurrence'[u].last
                 /\ u \in InProject \ regrained' => <<u, Suffix(recurrence'[u].cron, m)>> \in titles
      <3>1. /\ m <= clock
            /\ overwrites[u] = 0 => m <= recurrence[u].last
            /\ u \in InProject \ regrained => <<u, Suffix(recurrence[u].cron, m)>> \in titles
        BY <2>2, ChildKnown, Zenon DEF ChildrenInv
      <3>2. CASE u = t
        <4>1. ASSUME u \in InProject \ regrained'
              PROVE  <<u, Suffix(recurrence'[u].cron, m)>> \in titles
          <5>1. u \in InProject \ regrained /\ SubDaily(cron) = SubDaily(recurrence[t].cron)
            BY <1>8, <3>2, <4>1
          <5>2. Suffix(cron, m) = Suffix(recurrence[t].cron, m)
            BY <5>1 DEF Suffix
          <5> QED BY <1>9, <3>1, <3>2, <5>1, <5>2
        <4> QED BY <1>8, <3>1, <3>2, <4>1
      <3>3. CASE u # t
        <4>1. /\ recurrence'[u] = recurrence[u] /\ overwrites'[u] = overwrites[u]
              /\ (u \in regrained' <=> u \in regrained)
          BY <1>8, <3>3
        <4> QED BY <3>1, <4>1, Zenon
      <3> QED BY <3>2, <3>3
    <2> QED BY <1>3, <2>1, <2>2 DEF LastKnown
  <1>11. RoomForChildren'
    <2> SUFFICES ASSUME NEW u \in Templates, NEW m \in Minutes
                 PROVE  /\ spawns[u][m] <= overwrites'[u] + 1
                        /\ m = clock /\ recurrence'[u].last # m => spawns[u][m] <= overwrites'[u]
      BY <1>3 DEF RoomForChildren
    <2>1. /\ spawns[u][m] <= overwrites[u] + 1
          /\ m = clock /\ recurrence[u].last # m => spawns[u][m] <= overwrites[u]
      BY Zenon DEF ChildrenInv, RoomForChildren
    <2>2. CASE u = t
      <3>1. spawns[u][m] \in 0..(MaxOverwrites + 1)
        BY <1>1
      <3> QED BY <1>2, <1>6, <1>8, <2>1, <2>2, <3>1
    <2>3. CASE u # t
      BY <1>8, <2>1, <2>3
    <2> QED BY <2>2, <2>3
  <1>12. Untouched'
    <2> SUFFICES ASSUME NEW u \in Templates, overwrites'[u] = 0
                 PROVE  /\ recurrence'[u].enabled
                        /\ recurrence'[u].last # 0 => spawns[u][recurrence'[u].last] > 0
                        /\ \A suffix \in Suffixes : <<u, suffix>> \in titles =>
                             \E k \in 1..clock :
                               spawns[u][k] > 0 /\ suffix = Suffix(recurrence'[u].cron, k)
      BY <1>3 DEF Untouched
    <2>1. u # t /\ overwrites[u] = 0 /\ recurrence'[u] = recurrence[u]
      BY <1>8
    <2>2. /\ recurrence[u].enabled
          /\ recurrence[u].last # 0 => spawns[u][recurrence[u].last] > 0
          /\ \A suffix \in Suffixes : <<u, suffix>> \in titles =>
               \E k \in 1..clock :
                 spawns[u][k] > 0 /\ suffix = Suffix(recurrence[u].cron, k)
      BY <2>1, Zenon DEF ChildrenInv, Untouched
    <2> QED BY <2>1, <2>2
  <1>13. OnceAMinute'
    <2> SUFFICES ASSUME NEW u \in Templates, NEW m \in Minutes,
                        overwrites'[u] = 0 \/ (u \in InProject /\ u \notin regrained')
                 PROVE  spawns[u][m] <= 1
      BY <1>3 DEF OnceAMinute
    <2>1. overwrites[u] = 0 \/ (u \in InProject /\ u \notin regrained)
      BY <1>8
    <2> QED BY <2>1, Zenon DEF ChildrenInv, OnceAMinute
  <1> QED BY <1>7, <1>10, <1>11, <1>12, <1>13 DEF ChildrenInv

-----------------------------------------------------------------------------
(* The scheduler and the recurring tasks together.                         *)

LEMMA SchedulesSchedule == [SchedulesNext]_schedulesVars => [SchedulerNext]_schedulerVars
  BY DEF SchedulesNext, schedulesVars, SchedulerNext, TimerFires, MinuteEnds, AwaitedJobEnds,
         Switching, Restarting, TriggerSpawn, WriteRecurrence, SchedulesStep

(* What the scheduler runs does not touch its map of jobs: with recurring  *)
(* tasks it is the scheduler still, and all of the above holds of it.      *)
THEOREM StillTheScheduler == SchedulesSpec => SchedulerSpec
  BY SchedulesSchedule, PTL DEF SchedulesSpec, SchedulesInit, SchedulerSpec

LEMMA ClockRuns ==
  ASSUME SchedulerInv, [SchedulerNext]_schedulerVars
  PROVE  /\ clock \in Nat \ {0} /\ clock' \in Nat \ {0} /\ clock <= clock'
         /\ clock \in Minutes /\ clock' \in Minutes
  <1>1. clock \in 1..LastMinute /\ clock' \in 1..LastMinute
    BY StepKeeps DEF SchedulerInv, SchedulerTypeOK
  <1>2. LastMinute \in Nat /\ LastSpawn = LastMinute
    BY SchedulerAssumption, SchedulesAssumption
  <1>3. clock' = clock \/ clock' = clock + 1
    BY DEF SchedulerNext, schedulerVars, MinutePasses, Fire, JobEnds, SwitchJob, RestartScheduler
  <1> QED BY <1>1, <1>2, <1>3 DEF Minutes

LEMMA ChildrenInit == SchedulesInit => ChildrenInv
  <1> SUFFICES ASSUME SchedulesInit PROVE ChildrenInv
    OBVIOUS
  <1>1. /\ recurrence \in [Templates -> [cron : Crons, enabled : {TRUE}, last : {0}]]
        /\ titles = {} /\ clock = 1 /\ regrained = {}
        /\ spawns = [t \in Templates |-> [m \in Minutes |-> 0]]
        /\ overwrites = [t \in Templates |-> 0]
    BY DEF SchedulesInit, RecurringInit, SchedulerInit
  <1>2. MaxOverwrites \in Nat /\ LastSpawn \in Nat /\ 0 \in Minutes /\ Minutes \subseteq Nat
    BY RecurringAssumption DEF Minutes
  <1>3. RecurringTypeOK
    <2>1. recurrence \in [Templates -> [cron : Crons, enabled : BOOLEAN, last : Minutes]]
      BY <1>1, <1>2
    <2>2. 0 \in 0..(MaxOverwrites + 1) /\ 0 \in 0..MaxOverwrites
      BY <1>2
    <2> QED BY <1>1, <2>1, <2>2 DEF RecurringTypeOK
  <1>4. \A t \in Templates : recurrence[t].last = 0 /\ recurrence[t].enabled /\ overwrites[t] = 0
    BY <1>1
  <1>5. \A t \in Templates, m \in Minutes : spawns[t][m] = 0
    BY <1>1
  <1>6. LastKnown
    BY <1>1, <1>4, <1>5 DEF LastKnown
  <1>7. RoomForChildren /\ OnceAMinute
    BY <1>4, <1>5 DEF RoomForChildren, OnceAMinute
  <1>8. Untouched
    BY <1>1, <1>4 DEF Untouched
  <1> QED BY <1>3, <1>6, <1>7, <1>8 DEF ChildrenInv

LEMMA ChildrenNext ==
  SchedulerInv /\ ChildrenInv /\ [SchedulesNext]_schedulesVars => ChildrenInv'
  <1> SUFFICES ASSUME SchedulerInv, ChildrenInv, [SchedulesNext]_schedulesVars PROVE ChildrenInv'
    OBVIOUS
  <1>1. /\ clock \in Nat \ {0} /\ clock' \in Nat \ {0} /\ clock <= clock'
        /\ clock' \in Minutes
    BY SchedulesSchedule, ClockRuns
  <1>2. CASE UNCHANGED recurringVars
    BY <1>1, <1>2, ChildrenRest
  <1>3. CASE SpawnRecurringTasks(clock')
    BY <1>1, <1>3, SpawnKeeps
  <1>4. CASE WriteRecurrence
    <2>1. clock' = clock
      BY <1>4 DEF WriteRecurrence, schedulerVars
    <2>2. PICK t \in Templates, cron \in Crons, enabled \in BOOLEAN :
            \E last \in {0, recurrence[t].last} : OverwriteRecurrence(t, cron, enabled, last)
      BY <1>4 DEF WriteRecurrence
    <2> QED BY <1>1, <2>1, <2>2, OverwriteKeeps
  <1>5. CASE TriggerSpawn
    BY <1>3, <1>5 DEF TriggerSpawn, schedulerVars
  <1> QED BY <1>2, <1>3, <1>4, <1>5
          DEF SchedulesNext, schedulesVars, TimerFires, MinuteEnds, AwaitedJobEnds, Switching,
              Restarting, SchedulesStep

LEMMA SchedulesInductive == SchedulesSpec => [](SchedulerInv /\ ChildrenInv)
  BY StillTheScheduler, Inductive, ChildrenInit, ChildrenNext, PTL DEF SchedulesSpec

(* The map of jobs, the ticks, the templates and the titles stay well      *)
(* formed: no template gets more children in a minute than writes of its   *)
(* metadata make room for.                                                 *)
THEOREM SchedulesTypeCorrect == SchedulesSpec => []TypeOK
  <1>1. SchedulesInit => calm \subseteq 1..clock
    BY DEF SchedulesInit
  <1>2. /\ SchedulerInv /\ calm \subseteq 1..clock /\ [SchedulesNext]_schedulesVars
        => (calm \subseteq 1..clock)'
    <2> SUFFICES ASSUME SchedulerInv, calm \subseteq 1..clock, [SchedulesNext]_schedulesVars
                 PROVE  calm' \subseteq 1..clock'
      OBVIOUS
    <2>1. clock \in Nat \ {0} /\ clock' \in Nat \ {0} /\ clock <= clock'
      BY SchedulesSchedule, ClockRuns
    <2>2. calm' \subseteq calm \cup {clock}
      BY DEF SchedulesNext, schedulesVars, TimerFires, MinuteEnds, AwaitedJobEnds, Switching,
             Restarting, TriggerSpawn, WriteRecurrence
    <2> QED BY <2>1, <2>2
  <1>3. SchedulerInv /\ ChildrenInv /\ calm \subseteq 1..clock => TypeOK
    BY DEF SchedulerInv, ChildrenInv, TypeOK
  <1> QED BY <1>1, <1>2, <1>3, SchedulesInductive, PTL DEF SchedulesSpec

(* A template gets one child per minute at most, whatever ticks overlap    *)
(* and however often the job is triggered by hand, while no one else       *)
(* writes its metadata; in a project also when someone does.               *)
THEOREM OneChildAMinute == SchedulesSpec => []OnceAMinute
  BY SchedulesInductive, PTL DEF ChildrenInv

-----------------------------------------------------------------------------
(* No occurrence is missed.                                                *)

SpawnJob == "recurring_task_spawn"

(* Template t has its child of minute m, or the title is taken.            *)
Met(t, m) ==
  overwrites[t] = 0 /\ MatchesFields(recurrence[t].cron, m) =>
    \/ spawns[t][m] > 0
    \/ t \in InProject /\ \E k \in 1..(m - 1) :
         spawns[t][k] > 0 /\ Suffix(recurrence[t].cron, k) = Suffix(recurrence[t].cron, m)

(* The tick of this minute has yet to come to the job, and finds it due.   *)
Coming ==
  /\ job[SpawnJob].enabled /\ ~job[SpawnJob].running /\ job[SpawnJob].nextRun <= clock
  /\ \E t \in ticks : \E i \in (t.at + 1)..Len(JobOrder) :
       t.now = clock /\ ~t.short /\ JobOrder[i] = SpawnJob

(* The job is due again a minute after the last firing at the latest, and  *)
(* the tick of a minute that is calm so far is still to come to it, or the *)
(* minute has its children.                                                *)
Punctual ==
  /\ calm \subseteq 1..fired
  /\ job[SpawnJob].nextRun <= fired + 1
  /\ \A t \in ticks : t.now <= fired
  /\ \A m \in calm \ {clock} : \A t \in Templates : Met(t, m)
  /\ clock \in calm => Coming \/ \A t \in Templates : Met(t, clock)

(* What a step does to the templates: children stay, and only a counted    *)
(* write changes an expression.                                            *)
ChildrenStay ==
  \A t \in Templates :
    /\ overwrites'[t] = 0 => overwrites[t] = 0 /\ recurrence'[t].cron = recurrence[t].cron
    /\ \A k \in Minutes : spawns[t][k] > 0 => spawns'[t][k] > 0

LEMMA SpawnStays ==
  ASSUME RecurringTypeOK, NEW m \in Minutes, SpawnRecurringTasks(m)
  PROVE  ChildrenStay /\ \A t \in Spawned(m) : spawns'[t][m] > 0
  <1>1. /\ recurrence \in [Templates -> [cron : Crons, enabled : BOOLEAN, last : Minutes]]
        /\ spawns \in [Templates -> [Minutes -> Nat]]
    <2>1. 0..(MaxOverwrites + 1) \subseteq Nat
      OBVIOUS
    <2> QED BY <2>1 DEF RecurringTypeOK
  <1>2. ASSUME NEW t \in Templates
        PROVE  /\ recurrence'[t].cron = recurrence[t].cron
               /\ \A k \in Minutes : spawns[t][k] > 0 => spawns'[t][k] > 0
               /\ t \in Spawned(m) => spawns'[t][m] > 0
    <2>1. CASE t \in Spawned(m)
      <3>1. /\ recurrence'[t] = [recurrence[t] EXCEPT !.last = m]
            /\ spawns'[t] = [spawns[t] EXCEPT ![m] = @ + 1]
        BY <2>1 DEF SpawnRecurringTasks
      <3>2. recurrence[t] \in [cron : Crons, enabled : BOOLEAN, last : Minutes]
        BY <1>1
      <3>3. recurrence'[t].cron = recurrence[t].cron
        BY <3>1, <3>2
      <3>4. spawns[t] \in [Minutes -> Nat]
        BY <1>1
      <3>5. spawns'[t][m] = spawns[t][m] + 1 /\ \A k \in Minutes \ {m} : spawns'[t][k] = spawns[t][k]
        BY <3>1, <3>4
      <3>6. spawns'[t][m] > 0
        BY <3>4, <3>5
      <3> QED BY <3>3, <3>5, <3>6
    <2>2. CASE t \notin Spawned(m)
      BY <2>2 DEF SpawnRecurringTasks
    <2> QED BY <2>1, <2>2
  <1>3. overwrites' = overwrites /\ Spawned(m) \subseteq Templates
    BY DEF SpawnRecurringTasks, Spawned
  <1> QED BY <1>2, <1>3 DEF ChildrenStay

LEMMA StepStays ==
  ASSUME SchedulerInv, ChildrenInv, [SchedulesNext]_schedulesVars
  PROVE  ChildrenStay
  <1>1. clock' \in Minutes
    BY SchedulesSchedule, ClockRuns
  <1>2. CASE UNCHANGED recurringVars
    BY <1>2 DEF recurringVars, ChildrenStay
  <1>3. CASE SpawnRecurringTasks(clock')
    BY <1>1, <1>3, SpawnStays DEF ChildrenInv
  <1>4. CASE WriteRecurrence
    <2>1. PICK t \in Templates, cron \in Crons, enabled \in BOOLEAN :
            \E last \in {0, recurrence[t].last} : OverwriteRecurrence(t, cron, enabled, last)
      BY <1>4 DEF WriteRecurrence
    <2>2. PICK last : OverwriteRecurrence(t, cron, enabled, last)
      BY <2>1
    <2>3. /\ overwrites' = [overwrites EXCEPT ![t] = @ + 1] /\ spawns' = spawns
          /\ recurrence' = [recurrence EXCEPT ![t] = [cron |-> cron, enabled |-> enabled, last |-> last]]
      BY <2>2 DEF OverwriteRecurrence
    <2>4. overwrites \in [Templates -> 0..MaxOverwrites] /\ DOMAIN recurrence = Templates
      BY DEF ChildrenInv, RecurringTypeOK
    <2>5. overwrites'[t] # 0
      BY <2>3, <2>4
    <2>6. \A u \in Templates \ {t} : overwrites'[u] = overwrites[u] /\ recurrence'[u] = recurrence[u]
      BY <2>3, <2>4
    <2> QED BY <2>3, <2>5, <2>6 DEF ChildrenStay
  <1>5. CASE TriggerSpawn
    BY <1>3, <1>5 DEF TriggerSpawn, schedulerVars
  <1> QED BY <1>2, <1>3, <1>4, <1>5
          DEF SchedulesNext, schedulesVars, TimerFires, MinuteEnds, AwaitedJobEnds, Switching,
              Restarting, SchedulesStep

LEMMA MetStays ==
  ASSUME ChildrenStay, NEW t \in Templates, NEW m \in Minutes, Met(t, m)
  PROVE  Met(t, m)'
  <1>1. 1..(m - 1) \subseteq Minutes
    BY RecurringAssumption DEF Minutes
  <1>2. /\ overwrites'[t] = 0 => overwrites[t] = 0 /\ recurrence'[t].cron = recurrence[t].cron
        /\ \A k \in Minutes : spawns[t][k] > 0 => spawns'[t][k] > 0
    BY DEF ChildrenStay
  <1> SUFFICES ASSUME overwrites'[t] = 0, MatchesFields(recurrence'[t].cron, m)
               PROVE  \/ spawns'[t][m] > 0
                      \/ t \in InProject /\ \E k \in 1..(m - 1) :
                           spawns'[t][k] > 0 /\ Suffix(recurrence'[t].cron, k) = Suffix(recurrence'[t].cron, m)
    BY DEF Met
  <1>3. overwrites[t] = 0 /\ recurrence'[t].cron = recurrence[t].cron
    BY <1>2
  <1>4. \/ spawns[t][m] > 0
        \/ t \in InProject /\ \E k \in 1..(m - 1) :
             spawns[t][k] > 0 /\ Suffix(recurrence[t].cron, k) = Suffix(recurrence[t].cron, m)
    BY <1>3, Zenon DEF Met
  <1> QED BY <1>1, <1>2, <1>3, <1>4

(* A run of the job leaves nothing of its minute to do.                    *)
LEMMA SpawnMeets ==
  ASSUME ChildrenInv, clock \in Nat, clock' \in Minutes \ {0}, clock <= clock',
         SpawnRecurringTasks(clock'), NEW t \in Templates
  PROVE  Met(t, clock)'
  <1> DEFINE m == clock'
  <1>1. ChildrenStay /\ \A u \in Spawned(m) : spawns'[u][m] > 0
    BY SpawnStays DEF ChildrenInv
  <1> SUFFICES ASSUME t \notin Spawned(m), overwrites'[t] = 0, MatchesFields(recurrence'[t].cron, m)
               PROVE  \/ spawns'[t][m] > 0
                      \/ t \in InProject /\ \E k \in 1..(m - 1) :
                           spawns'[t][k] > 0 /\ Suffix(recurrence'[t].cron, k) = Suffix(recurrence'[t].cron, m)
    BY <1>1, Zenon DEF Met
  <1>2. /\ overwrites[t] = 0 /\ recurrence'[t].cron = recurrence[t].cron
        /\ \A k \in Minutes : spawns[t][k] > 0 => spawns'[t][k] > 0
    BY <1>1 DEF ChildrenStay
  <1>3. /\ recurrence[t].enabled
        /\ recurrence[t].last # 0 => spawns[t][recurrence[t].last] > 0
        /\ \A suffix \in Suffixes : <<t, suffix>> \in titles =>
             \E k \in 1..clock : spawns[t][k] > 0 /\ suffix = Suffix(recurrence[t].cron, k)
    BY <1>2, Zenon DEF ChildrenInv, Untouched
  <1>4. m \in Nat \ {0} /\ m \in Minutes /\ LastSpawn \in Nat
    BY RecurringAssumption DEF Minutes
  <1>5. recurrence[t].last = m \/ Existing(t, m)
    BY <1>2, <1>3, Zenon DEF Spawned, IsCronDue
  <1>6. CASE recurrence[t].last = m
    BY <1>2, <1>3, <1>4, <1>6
  <1>7. CASE Existing(t, m)
    <2>1. t \in InProject /\ <<t, Suffix(recurrence[t].cron, m)>> \in titles
      BY <1>7 DEF Existing
    <2>2. Suffix(recurrence[t].cron, m) \in Suffixes
      BY <2>1 DEF ChildrenInv, RecurringTypeOK
    <2>3. PICK k \in 1..clock :
            spawns[t][k] > 0 /\ Suffix(recurrence[t].cron, m) = Suffix(recurrence[t].cron, k)
      BY <1>3, <2>1, <2>2, Zenon
    <2>4. k \in Minutes /\ (k = m \/ k \in 1..(m - 1))
      <3>1. m <= LastSpawn
        BY <1>4 DEF Minutes
      <3>2. k \in Nat \ {0} /\ k <= m
        BY <1>4
      <3> HIDE DEF m
      <3> QED BY <1>4, <3>1, <3>2 DEF Minutes
    <2>5. spawns'[t][k] > 0
      BY <1>2, <2>3, <2>4
    <2> QED BY <1>2, <2>1, <2>3, <2>4, <2>5
  <1> QED BY <1>5, <1>6, <1>7

(* A tick before the job that finds it due starts it or awaits another on  *)
(* its way.                                                                *)
LEMMA ComesOrStarts ==
  ASSUME NEW jobs \in [Names -> Entry], NEW by \in Tick, NEW from \in Nat \ {0},
         NEW others \in SUBSET Tick, Matches(jobs, others), GoThrough(jobs, by, from, others),
         clock' = by.now, ~by.short, jobs[SpawnJob].enabled, ~jobs[SpawnJob].running,
         jobs[SpawnJob].nextRun <= by.now,
         NEW i \in from..Len(JobOrder), JobOrder[i] = SpawnJob
  PROVE  job'[SpawnJob].running \/ Coming'
  <1> SUFFICES ASSUME ~job'[SpawnJob].running PROVE Coming'
    OBVIOUS
  <1>1. SpawnJob \in Names
    BY SchedulesAssumption DEF SpawnJob
  <1>2. job'[SpawnJob].nextRun <= by.now /\ job'[SpawnJob].enabled
    BY <1>1, GoThroughEntry
  <1>3. Eligible(jobs[JobOrder[i]], by) /\ ~job'[JobOrder[i]].running
    <2>1. jobs[SpawnJob].nextRun \in Nat /\ by.now \in Nat
      BY <1>1 DEF Entry, Tick
    <2> QED BY <2>1 DEF Eligible, Reached
  <1>4. PICK k \in from..(i - 1) :
          /\ ticks' = others \cup {[by EXCEPT !.at = k]}
          /\ [by EXCEPT !.at = k] \notin others
          /\ k \in NextEligible(jobs, by, from)
    BY <1>3, PassesToEarlier
  <1> DEFINE new == [by EXCEPT !.at = k]
  <1>5. new.at = k /\ new.now = by.now /\ new.short = by.short /\ new \in ticks'
    BY <1>4 DEF Tick
  <1>6. i \in (new.at + 1)..Len(JobOrder)
    BY <1>5, SchedulerAssumption
  <1> HIDE DEF new
  <1> QED BY <1>2, <1>5, <1>6, Zenon DEF Coming

SchedulesInv == SchedulerInv /\ ChildrenInv /\ Punctual

(* A step within the minute.                                               *)
LEMMA WithinTheMinute ==
  ASSUME SchedulesInv, ChildrenStay, clock' = clock,
         calm' \subseteq 1..fired', job'[SpawnJob].nextRun <= fired' + 1,
         \A t \in ticks' : t.now <= fired', calm' \subseteq calm \cup {clock},
         clock \in calm' => \/ clock \in calm /\ \A t \in Templates : Met(t, clock)
                            \/ Coming' \/ \A t \in Templates : Met(t, clock)'
  PROVE  Punctual'
  <1>1. clock \in Minutes /\ clock \in Nat /\ fired \in 1..clock /\ 1..clock \subseteq Minutes
    BY SchedulerAssumption, SchedulesAssumption
       DEF SchedulesInv, SchedulerInv, SchedulerTypeOK, Minutes
  <1>2. \A m \in Minutes, t \in Templates : Met(t, m) => Met(t, m)'
    BY MetStays
  <1>3. ASSUME NEW m \in calm' \ {clock'}, NEW t \in Templates PROVE Met(t, m)'
    <2>1. m \in calm \ {clock} /\ m \in Minutes
      <3>1. calm \subseteq 1..fired
        BY DEF SchedulesInv, Punctual
      <3> QED BY <1>1, <3>1
    <2>2. Met(t, m)
      BY <2>1 DEF SchedulesInv, Punctual
    <2> QED BY <1>2, <2>1, <2>2
  <1>4. clock \in calm' => Coming' \/ \A t \in Templates : Met(t, clock)'
    <2>1. CASE \A t \in Templates : Met(t, clock)
      <3>1. ASSUME NEW t \in Templates PROVE Met(t, clock)'
        BY <1>1, <1>2, <2>1, Zenon
      <3> QED BY <3>1
    <2> QED BY <2>1
  <1> QED BY <1>3, <1>4, Zenon DEF Punctual

LEMMA FirePunctual ==
  ASSUME SchedulesInv, NEW short \in BOOLEAN, TimerFires(short), [SchedulesNext]_schedulesVars
  PROVE  Punctual'
  <1> DEFINE t == [now |-> clock, short |-> short, at |-> 1]
  <1>1. /\ Quiet /\ fired < clock /\ fired' = clock /\ clock' = clock
        /\ GoThrough(job, t, 1, ticks)
        /\ calm' = IF ~short /\ job[SpawnJob].enabled THEN calm \cup {clock} ELSE calm
    BY DEF TimerFires, SchedulesStep, Fire, SpawnJob
  <1>2. /\ SpawnJob \in Names /\ job \in [Names -> Entry] /\ Matches(job, ticks)
        /\ ticks \in SUBSET Tick
    BY SchedulesAssumption DEF SpawnJob, SchedulesInv, SchedulerInv, SchedulerTypeOK
  <1>3. PICK i \in 1..Len(JobOrder) : JobOrder[i] = SpawnJob
    BY <1>2 DEF Names
  <1>4. /\ clock \in Nat \ {0} /\ clock \in Minutes \ {0} /\ fired \in Nat
        /\ clock' \in Minutes \ {0} /\ clock <= clock'
    BY <1>1, SchedulesSchedule, ClockRuns DEF SchedulesInv, SchedulerInv, SchedulerTypeOK
  <1>5. t \in Tick /\ t.now = clock /\ t.short = short
    BY <1>3, <1>4, SchedulerAssumption DEF Tick
  <1> HIDE DEF t
  <1>6. ~job[SpawnJob].running
    BY <1>1, <1>2, SchedulesAssumption DEF Quiet, Matches, SpawnJob
  <1>7. /\ calm \subseteq 1..fired /\ job[SpawnJob].nextRun <= fired + 1
        /\ \A u \in ticks : u.now <= fired
    BY DEF SchedulesInv, Punctual
  <1>8. job[SpawnJob].nextRun <= clock /\ job[SpawnJob].nextRun \in Nat
    BY <1>1, <1>2, <1>4, <1>7 DEF Entry
  <1>9. job'[SpawnJob].nextRun = job[SpawnJob].nextRun
    <2>1. 1 \in Nat \ {0}
      OBVIOUS
    <2> QED BY <1>1, <1>2, <2>1, GoThroughEntry, Zenon
  <1>10. \A u \in ticks' : u.now <= fired'
    <2>1. \A u \in ticks : u.now <= clock
      BY <1>1, <1>2, <1>4, <1>7 DEF Tick
    <2>2. \A k : [t EXCEPT !.at = k].now = clock
      BY <1>5 DEF Tick
    <2>3. ASSUME NEW u \in ticks' PROVE u \in ticks \/ \E k : u = [t EXCEPT !.at = k]
      BY <1>1 DEF GoThrough
    <2> QED BY <1>1, <1>4, <2>1, <2>2, <2>3
  <1>11. clock \notin calm
    BY <1>1, <1>4, <1>7
  <1>12. clock \in calm' => Coming' \/ \A u \in Templates : Met(u, clock)'
    <2> SUFFICES ASSUME clock \in calm' PROVE Coming' \/ \A u \in Templates : Met(u, clock)'
      OBVIOUS
    <2>1. ~short /\ job[SpawnJob].enabled
      BY <1>1, <1>11
    <2>2. job'[SpawnJob].running \/ Coming'
      <3>1. 1 \in Nat \ {0} /\ clock' = t.now /\ ~t.short /\ job[SpawnJob].nextRun <= t.now
        BY <1>1, <1>5, <1>8, <2>1
      <3> QED BY <1>1, <1>2, <1>3, <1>5, <1>6, <2>1, <3>1, ComesOrStarts, Zenon
    <2>3. CASE job'[SpawnJob].running
      <3>1. SpawnRecurringTasks(clock')
        BY <1>6, <2>3 DEF TimerFires, SchedulesStep, SpawnJobStarts, SpawnJob
      <3>2. \A u \in Templates : Met(u, clock)'
        BY <1>4, <3>1, SpawnMeets DEF SchedulesInv
      <3> QED BY <3>2
    <2> QED BY <2>2, <2>3
  <1>13. calm' \subseteq 1..fired' /\ calm' \subseteq calm \cup {clock}
    BY <1>1, <1>4, <1>7
  <1>14. job'[SpawnJob].nextRun <= fired' + 1
    BY <1>1, <1>4, <1>8, <1>9
  <1>15. ChildrenStay
    BY StepStays DEF SchedulesInv
  <1> QED BY <1>1, <1>10, <1>12, <1>13, <1>14, <1>15, WithinTheMinute

LEMMA JobEndsPunctual ==
  ASSUME SchedulesInv, Interval[SpawnJob] = 1, [SchedulesNext]_schedulesVars, AwaitedJobEnds
  PROVE  Punctual'
  <1>1. SchedulerInv /\ ChildrenInv /\ Punctual /\ calm' = calm
    BY DEF AwaitedJobEnds, SchedulesInv
  <1>2. PICK t \in ticks : SchedulesStep(JobEnds(t))
    BY DEF AwaitedJobEnds
  <1> DEFINE j == JobOrder[t.at]
             jobs == [job EXCEPT ![j] = Ended(@, j, t.now)]
             others == ticks \ {t}
  <1>3. clock' = clock /\ fired' = fired /\ GoThrough(jobs, t, t.at + 1, others)
    BY <1>2, Zenon DEF SchedulesStep, JobEnds
  <1>4. /\ job \in [Names -> Entry] /\ ticks \in SUBSET Tick /\ Matches(job, ticks)
        /\ t \in Tick /\ t.now \in Nat /\ t.at \in 1..Len(JobOrder) /\ t.at + 1 \in Nat \ {0}
        /\ fired \in Nat
    BY <1>1 DEF SchedulerInv, SchedulerTypeOK, Tick
  <1>5. jobs \in [Names -> Entry] /\ Matches(jobs, others)
    BY <1>1, EndedKeeps
  <1>6. SpawnJob \in Names /\ j \in Names
    BY <1>4, SchedulesAssumption DEF SpawnJob, Names
  <1>7. /\ clock \in Nat \ {0} /\ clock \in Minutes /\ clock' \in Minutes \ {0}
        /\ clock <= clock'
    BY <1>1, <1>3, SchedulesSchedule, ClockRuns
  <1>8. ChildrenStay
    BY <1>1, StepStays
  <1>9. /\ j = SpawnJob => jobs[SpawnJob].nextRun = t.now + 1
        /\ j # SpawnJob => jobs[SpawnJob] = job[SpawnJob]
    <2>1. CASE j = SpawnJob
      <3>1. jobs[SpawnJob] = Ended(job[SpawnJob], SpawnJob, t.now) /\ job[SpawnJob] \in Entry
        BY <1>4, <1>6, <2>1
      <3> HIDE DEF jobs
      <3> QED BY <2>1, <3>1 DEF Ended, Entry
    <2>2. CASE j # SpawnJob
      BY <1>4, <1>6, <2>2
    <2> QED BY <2>1, <2>2
  <1> HIDE DEF jobs
  <1>10. /\ job'[SpawnJob].enabled = jobs[SpawnJob].enabled
         /\ job'[SpawnJob].nextRun = jobs[SpawnJob].nextRun
         /\ ~job'[SpawnJob].running => job'[SpawnJob] = jobs[SpawnJob]
    <2>1. \A from \in Nat \ {0} : GoThrough(jobs, t, from, others) =>
            /\ job'[SpawnJob].enabled = jobs[SpawnJob].enabled
            /\ job'[SpawnJob].nextRun = jobs[SpawnJob].nextRun
            /\ ~job'[SpawnJob].running => job'[SpawnJob] = jobs[SpawnJob]
      BY <1>5, <1>6, GoThroughEntry
    <2> QED BY <1>3, <1>4, <2>1, Zenon
  <1>11. /\ calm \subseteq 1..fired /\ job[SpawnJob].nextRun <= fired + 1
         /\ \A u \in ticks : u.now <= fired
    BY <1>1 DEF Punctual
  <1>12. /\ others \subseteq ticks'
         /\ ticks' = others \/ \E i \in NextEligible(jobs, t, t.at + 1) :
                                  ticks' = others \cup {[t EXCEPT !.at = i]}
    BY <1>3 DEF GoThrough
  <1>13. \A u \in ticks' : u.now <= fired'
    <2>1. \A k : [t EXCEPT !.at = k].now = t.now
      BY <1>4 DEF Tick
    <2> QED BY <1>3, <1>11, <1>12, <2>1
  <1>14. Coming => Coming' \/ \A u \in Templates : Met(u, clock)'
    <2> SUFFICES ASSUME Coming PROVE Coming' \/ \A u \in Templates : Met(u, clock)'
      OBVIOUS
    <2>1. job[SpawnJob].enabled /\ ~job[SpawnJob].running /\ job[SpawnJob].nextRun <= clock
      BY DEF Coming
    <2>2. PICK u \in ticks : \E i \in (u.at + 1)..Len(JobOrder) :
                               u.now = clock /\ ~u.short /\ JobOrder[i] = SpawnJob
      BY DEF Coming
    <2>3. PICK i \in (u.at + 1)..Len(JobOrder) : u.now = clock /\ ~u.short /\ JobOrder[i] = SpawnJob
      BY <2>2
    <2>4. j # SpawnJob
      BY <1>4, <1>6, <2>1 DEF Matches
    <2>5. jobs[SpawnJob] = job[SpawnJob]
      BY <1>9, <2>4
    <2>6. CASE job'[SpawnJob].running
      <3>1. SpawnRecurringTasks(clock')
        BY <1>2, <2>1, <2>6 DEF SchedulesStep, SpawnJobStarts, SpawnJob
      <3>2. clock \in Nat
        BY <1>7
      <3> QED BY <1>1, <1>7, <3>1, <3>2, SpawnMeets
    <2>7. CASE ~job'[SpawnJob].running
      <3>1. CASE u # t
        <4>1. u \in ticks' /\ job'[SpawnJob] = job[SpawnJob] /\ clock' = clock
          BY <1>3, <1>10, <1>12, <2>5, <2>7, <3>1
        <4> QED BY <2>1, <2>3, <4>1, Zenon DEF Coming
      <3>2. CASE u = t
        <4>1. i \in (t.at + 1)..Len(JobOrder) /\ clock' = t.now /\ ~t.short
          BY <1>3, <2>3, <3>2
        <4>2. others \in SUBSET Tick
          BY <1>4
        <4> HIDE DEF others
        <4>3. jobs[SpawnJob].enabled /\ ~jobs[SpawnJob].running /\ jobs[SpawnJob].nextRun <= t.now
          BY <2>1, <2>3, <2>5, <3>2
        <4> QED BY <1>3, <1>4, <1>5, <2>3, <2>7, <4>1, <4>2, <4>3, ComesOrStarts, Zenon
      <3> QED BY <3>1, <3>2
    <2> QED BY <2>6, <2>7
  <1>15. job'[SpawnJob].nextRun <= fired' + 1
    BY <1>3, <1>4, <1>9, <1>10, <1>11
  <1>16. clock \in calm => Coming \/ \A u \in Templates : Met(u, clock)
    BY <1>1 DEF Punctual
  <1>17. calm' \subseteq 1..fired' /\ calm' \subseteq calm \cup {clock}
    BY <1>1, <1>3, <1>11
  <1>18. clock \in calm' => \/ clock \in calm /\ \A u \in Templates : Met(u, clock)
                            \/ Coming' \/ \A u \in Templates : Met(u, clock)'
    BY <1>1, <1>14, <1>16, Zenon
  <1> QED BY <1>3, <1>8, <1>13, <1>15, <1>17, <1>18, WithinTheMinute

(* A minute that ends calm has its children, for its tick is not to come.  *)
LEMMA MinutePunctual ==
  ASSUME SchedulesInv, MinuteEnds, [SchedulesNext]_schedulesVars
  PROVE  Punctual'
  <1>1. /\ clock' = clock + 1 /\ UNCHANGED <<fired, job, ticks>>
        /\ calm' = IF OnItsWay THEN calm \ {clock} ELSE calm
    BY DEF MinuteEnds, MinutePasses
  <1>2. /\ clock \in Nat /\ fired \in 1..clock /\ 1..clock \subseteq Minutes
    BY SchedulerAssumption, SchedulesAssumption
       DEF SchedulesInv, SchedulerInv, SchedulerTypeOK, Minutes
  <1>3. /\ calm \subseteq 1..fired /\ job[SpawnJob].nextRun <= fired + 1
        /\ \A t \in ticks : t.now <= fired
        /\ \A m \in calm \ {clock} : \A t \in Templates : Met(t, m)
        /\ clock \in calm => Coming \/ \A t \in Templates : Met(t, clock)
    BY DEF SchedulesInv, Punctual
  <1>4. Coming => OnItsWay
    BY DEF Coming, OnItsWay, SpawnJob
  <1>5. ChildrenStay
    BY StepStays DEF SchedulesInv
  <1>6. ASSUME NEW m \in calm', NEW t \in Templates PROVE Met(t, m)'
    <2>1. m \in calm /\ m \in Minutes
      BY <1>1, <1>2, <1>3
    <2>2. Met(t, m)
      <3>1. CASE m = clock
        <4>1. ~OnItsWay
          BY <1>1, <3>1
        <4> QED BY <1>3, <1>4, <2>1, <3>1, <4>1, Zenon
      <3>2. CASE m # clock
        BY <1>3, <2>1, <3>2, Zenon
      <3> QED BY <3>1, <3>2
    <2> QED BY <1>5, <2>1, <2>2, MetStays
  <1>7. clock' \notin calm' /\ calm' \subseteq 1..fired'
    BY <1>1, <1>2, <1>3
  <1>8. job'[SpawnJob].nextRun <= fired' + 1 /\ \A t \in ticks' : t.now <= fired'
    BY <1>1, <1>3
  <1> QED BY <1>6, <1>7, <1>8, Zenon DEF Punctual

LEMMA PunctualNext ==
  ASSUME SchedulesInv, Interval[SpawnJob] = 1, [SchedulesNext]_schedulesVars
  PROVE  Punctual'
  <1>1. ChildrenStay
    BY StepStays DEF SchedulesInv
  <1>2. /\ calm \subseteq 1..fired /\ job[SpawnJob].nextRun <= fired + 1
        /\ \A t \in ticks : t.now <= fired
        /\ clock \in calm => Coming \/ \A t \in Templates : Met(t, clock)
    BY DEF SchedulesInv, Punctual
  <1>3. /\ SpawnJob \in Names /\ job \in [Names -> Entry] /\ clock \in Nat
        /\ fired \in Nat /\ fired \in 1..clock
    BY SchedulesAssumption DEF SpawnJob, SchedulesInv, SchedulerInv, SchedulerTypeOK
  <1>4. CASE \E short \in BOOLEAN : TimerFires(short)
    BY <1>4, FirePunctual
  <1>5. CASE MinuteEnds
    BY <1>5, MinutePunctual
  <1>6. CASE AwaitedJobEnds
    BY <1>6, JobEndsPunctual
  <1>7. CASE Switching
    <2>1. PICK j \in Switched :
            /\ SwitchJob(j)
            /\ calm' = IF j = SpawnJob THEN calm \ {clock} ELSE calm
      BY <1>7 DEF Switching, SpawnJob
    <2>2. job' = [job EXCEPT ![j].enabled = ~@] /\ UNCHANGED <<clock, fired, ticks>>
      BY <2>1 DEF SwitchJob
    <2>3. job'[SpawnJob].nextRun = job[SpawnJob].nextRun
      BY <1>3, <2>2 DEF Entry
    <2>4. calm' \subseteq calm
      BY <2>1
    <2>5. clock \in calm' => \/ clock \in calm /\ \A t \in Templates : Met(t, clock)
                             \/ Coming' \/ \A t \in Templates : Met(t, clock)'
      <3> SUFFICES ASSUME clock \in calm'
                   PROVE  clock \in calm /\ (Coming' \/ \A t \in Templates : Met(t, clock))
        BY Zenon
      <3>1. j # SpawnJob
        BY <2>1
      <3>2. job'[SpawnJob] = job[SpawnJob]
        BY <1>3, <2>2, <3>1
      <3>3. Coming => Coming'
        BY <2>2, <3>2 DEF Coming
      <3> QED BY <1>2, <2>4, <3>3, Zenon
    <2>6. calm' \subseteq 1..fired' /\ calm' \subseteq calm \cup {clock}
      BY <1>2, <2>2, <2>4
    <2> QED BY <1>1, <1>2, <2>2, <2>3, <2>5, <2>6, WithinTheMinute
  <1>8. CASE Restarting
    <2>1. /\ job' = Registered([j \in Names |-> job[j].enabled]) /\ ticks' = {}
          /\ fired' = clock /\ clock' = clock /\ calm' = calm \ {clock}
      BY <1>8 DEF Restarting, RestartScheduler
    <2>2. job'[SpawnJob].nextRun = clock + 1
      BY <1>3, <2>1 DEF Registered, SpawnJob
    <2>3. calm' \subseteq 1..fired' /\ clock \notin calm' /\ calm' \subseteq calm \cup {clock}
      BY <1>2, <1>3, <2>1
    <2>4. job'[SpawnJob].nextRun <= fired' + 1
      BY <1>3, <2>1, <2>2
    <2> QED BY <1>1, <2>1, <2>3, <2>4, WithinTheMinute
  <1>9. CASE TriggerSpawn \/ WriteRecurrence \/ UNCHANGED schedulesVars
    <2>1. UNCHANGED <<clock, fired, job, ticks, calm>>
      BY <1>9 DEF TriggerSpawn, WriteRecurrence, schedulesVars, schedulerVars
    <2>2. Coming => Coming'
      BY <2>1 DEF Coming
    <2>3. clock \in calm' => \/ clock \in calm /\ \A t \in Templates : Met(t, clock)
                             \/ Coming' \/ \A t \in Templates : Met(t, clock)'
      BY <1>2, <2>1, <2>2, Zenon
    <2> QED BY <1>1, <1>2, <2>1, <2>3, WithinTheMinute
  <1> QED BY <1>4, <1>5, <1>6, <1>7, <1>8, <1>9 DEF SchedulesNext

LEMMA PunctualInit ==
  ASSUME SchedulesInit, Interval[SpawnJob] = 1
  PROVE  Punctual
  <1>1. clock = 1 /\ fired = 1 /\ ticks = {} /\ calm = {} /\ job[SpawnJob].nextRun = 2
    BY SchedulesAssumption DEF SchedulesInit, SchedulerInit, Registered, SpawnJob
  <1> QED BY <1>1 DEF Punctual

(* A minute that an expression matches has its child if the timer fires in *)
(* it, not short of a minute after the last tick, and that tick comes to   *)
(* the spawning job within it: for any jobs, any number of earlier ticks   *)
(* that hang, and whatever became of the other minutes, given that the     *)
(* job that spawns them has the interval of one minute.                    *)
THEOREM NothingMissed ==
  ASSUME Interval["recurring_task_spawn"] = 1
  PROVE  SchedulesSpec => []NoOccurrenceMissed
  <1>1. Interval[SpawnJob] = 1
    BY DEF SpawnJob
  <1>2. SchedulesInit => Punctual
    BY <1>1, PunctualInit
  <1>3. /\ SchedulerInv /\ ChildrenInv /\ Punctual /\ [SchedulesNext]_schedulesVars => Punctual'
    BY <1>1, PunctualNext DEF SchedulesInv
  <1>4. SchedulerInv /\ ChildrenInv /\ Punctual => NoOccurrenceMissed
    <2> SUFFICES ASSUME SchedulerInv, ChildrenInv, Punctual, NEW t \in Templates,
                        NEW m \in calm \ {clock},
                        overwrites[t] = 0, MatchesFields(recurrence[t].cron, m)
                 PROVE  \/ spawns[t][m] = 1
                        \/ t \in InProject /\ \E k \in 1..(m - 1) :
                             spawns[t][k] > 0 /\ Suffix(recurrence[t].cron, k) = Suffix(recurrence[t].cron, m)
      BY DEF NoOccurrenceMissed
    <2>1. Met(t, m)
      BY Zenon DEF Punctual
    <2>2. CASE spawns[t][m] > 0
      <3>1. DOMAIN spawns = Templates /\ spawns[t] \in [Minutes -> 0..(MaxOverwrites + 1)]
        BY DEF ChildrenInv, RecurringTypeOK
      <3>2. m \in Minutes
        BY SchedulerAssumption, SchedulesAssumption
           DEF SchedulerInv, SchedulerTypeOK, Minutes, Punctual
      <3>3. spawns[t][m] <= 1 /\ spawns[t][m] \in Nat
        BY <3>1, <3>2, RecurringAssumption DEF ChildrenInv, OnceAMinute
      <3> QED BY <2>2, <3>3
    <2> QED BY <2>1, <2>2, Zenon DEF Met
  <1> QED BY <1>2, <1>3, <1>4, SchedulesInductive, PTL DEF SchedulesSpec

=============================================================================
