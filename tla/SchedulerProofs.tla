-------------------------- MODULE SchedulerProofs --------------------------
(***************************************************************************)
(* Proofs about Scheduler for every set of schedules, any session limit,   *)
(* any limit of a timer and any number of faults and restarts.             *)
(***************************************************************************)
EXTENDS Scheduler, TLAPS

-----------------------------------------------------------------------------
(* Lemmas about the helpers. *)

\* The session counter in memory stays within its limit.
LEMMA CountInRange ==
  ASSUME NEW n \in 0 .. MaxSessionExecutions
  PROVE  NextCount(n) \in 0 .. MaxSessionExecutions
BY SchedulerAssumption DEF NextCount

\* A job is due at some time or there is none.
LEMMA DueTyped ==
  ASSUME SchedTypeOK, NEW s \in Schedule, NEW at \in Nat
  PROVE  JobDue(s, at) \in Nat \cup {NoJob}
BY DEF JobDue, SchedTypeOK

\* The same for the job after a request.
LEMMA AfterTyped ==
  ASSUME SchedTypeOK, NEW s \in Schedule, NEW at \in Nat, NEW status, NEW bad
  PROVE  JobAfter(s, status, at, bad) \in Nat \cup {NoJob}
BY DueTyped DEF JobAfter

\* A job that is started is due in time, and there is none for a time that is over.
LEMMA DueWhenArmed ==
  ASSUME SchedTypeOK, NEW s \in OneTime, NEW at \in Nat, JobDue(s, at) # NoJob
  PROVE  /\ JobDue(s, at) >= clock /\ at > clock
         /\ JobDue(s, at) = at \/ at - JobDue(s, at) > TimerLimit
BY SchedulerAssumption DEF JobDue, SchedTypeOK

\* Only a time that is over gets no job.
LEMMA DueUnlessOver ==
  ASSUME SchedTypeOK, NEW s \in Schedule, NEW at \in Nat, JobDue(s, at) = NoJob
  PROVE  s \in OneTime /\ at <= clock
BY DEF JobDue, SchedTypeOK, NoJob

\* When a request leaves a schedule with a job, and when it leaves an active one
\* without.
LEMMA AfterMeans ==
  ASSUME SchedTypeOK, NEW s \in Schedule, NEW at \in Nat, NEW status, NEW bad
  PROVE  /\ JobAfter(s, status, at, bad) # NoJob
              => phase = "running" /\ status = "active" /\ s \notin bad
         /\ phase = "running" /\ status = "active" /\ JobAfter(s, status, at, bad) = NoJob
              => (s \in OneTime /\ at <= clock) \/ s \in bad
BY DueUnlessOver DEF JobAfter

-----------------------------------------------------------------------------
(* Types. *)

\* The limit that the faults so far let the stored counts reach.
CountLimit == MaxSessionExecutions + schedFaults

\* A stored count stays within the limit, or passes it by one with a fault.
LEMMA StoredCountInRange ==
  ASSUME NEW n \in Nat
  PROVE  /\ NextCount(n) \in Nat
         /\ NextCount(n) <= MaxSessionExecutions
         /\ \A k \in CountAfterFailure(n) : k \in Nat /\ (k <= n + 1 \/ k <= 1)
BY SchedulerAssumption DEF NextCount, CountAfterFailure

\* A step keeps the stored counts within what the limit and the faults allow.
LEMMA SessionsCounted ==
  ASSUME SchedTypeOK, [SchedNext]_schedVars
  PROVE  /\ schedFaults' \in Nat /\ schedFaults' >= schedFaults
         /\ sessionCount' \in [Schedule -> Nat]
         /\ \A s \in Schedule : sessionCount'[s] <= CountLimit'
<1> USE DEF schedMemory, schedTables, schedHistory, schedCounts
<1>0. /\ schedFaults \in Nat /\ MaxSessionExecutions \in Nat \ {0}
      /\ sessionCount \in [Schedule -> Nat]
      /\ \A s \in Schedule : sessionCount[s] <= CountLimit
  BY SchedulerAssumption DEF SchedTypeOK, CountLimit
<1>1. ASSUME UNCHANGED sessionCount, schedFaults' = schedFaults \/ SchedFault
      PROVE  /\ schedFaults' \in Nat /\ schedFaults' >= schedFaults
             /\ sessionCount' \in [Schedule -> Nat]
             /\ \A s \in Schedule : sessionCount'[s] <= CountLimit'
  <2>1. schedFaults' \in Nat /\ schedFaults' >= schedFaults
    BY <1>0, <1>1 DEF SchedFault
  <2>2. ASSUME NEW s \in Schedule PROVE sessionCount'[s] <= CountLimit'
    <3>1. sessionCount'[s] = sessionCount[s] /\ sessionCount[s] \in Nat
          /\ sessionCount[s] <= CountLimit
      BY <1>0, <1>1
    <3> QED BY <1>0, <2>1, <3>1 DEF CountLimit
  <2> QED BY <1>0, <1>1, <2>1, <2>2
<1>2. ASSUME NEW s \in Schedule, NEW succeeds \in BOOLEAN, Execute(s, succeeds)
      PROVE  /\ schedFaults' \in Nat /\ schedFaults' >= schedFaults
             /\ sessionCount' \in [Schedule -> Nat]
             /\ \A u \in Schedule : sessionCount'[u] <= CountLimit'
  <2>1. PICK n \in Nat :
          /\ sessionCount' = [sessionCount EXCEPT ![s] = n]
          /\ schedFaults' \in Nat /\ schedFaults' >= schedFaults
          /\ n <= CountLimit'
    <3>0. sessionCount[s] \in Nat /\ sessionCount[s] <= CountLimit
      BY <1>0
    <3>1. CASE /\ sessionCount' = [sessionCount EXCEPT ![s] = NextCount(@)]
               /\ schedFaults' = schedFaults
      <4>1. NextCount(sessionCount[s]) \in Nat /\ NextCount(sessionCount[s]) <= CountLimit'
        BY <1>0, <3>0, <3>1, StoredCountInRange DEF CountLimit
      <4> DEFINE n == NextCount(sessionCount[s])
      <4>2. n \in Nat /\ n <= CountLimit'
        BY <4>1
      <4>3. sessionCount' = [sessionCount EXCEPT ![s] = n]
        BY <3>1
      <4>4. schedFaults' \in Nat /\ schedFaults' >= schedFaults
        BY <1>0, <3>1
      <4> HIDE DEF n
      <4> QED BY <4>2, <4>3, <4>4
    <3>2. CASE /\ SchedFault
               /\ \E n \in CountAfterFailure(sessionCount[s]) :
                    sessionCount' = [sessionCount EXCEPT ![s] = n]
      <4>1. PICK n \in CountAfterFailure(sessionCount[s]) :
              sessionCount' = [sessionCount EXCEPT ![s] = n]
        BY <3>2
      <4>2. n \in Nat /\ (n <= sessionCount[s] + 1 \/ n <= 1)
        BY <3>0, <4>1, StoredCountInRange
      <4>3. schedFaults' = schedFaults + 1
        BY <3>2 DEF SchedFault
      <4>4. n <= CountLimit'
        BY <1>0, <3>0, <4>2, <4>3 DEF CountLimit
      <4>5. n \in Nat
        BY <3>0, <4>2, <4>1 DEF CountAfterFailure
      <4>6. schedFaults' \in Nat /\ schedFaults' >= schedFaults
        BY <1>0, <4>3
      <4> QED BY <4>1, <4>4, <4>5, <4>6
    <3> QED BY <1>2, <3>1, <3>2 DEF Execute
  <2>2. ASSUME NEW u \in Schedule PROVE sessionCount'[u] <= CountLimit'
    <3>1. sessionCount[u] \in Nat /\ sessionCount[u] <= CountLimit
      BY <1>0
    <3>2. CASE u = s
      BY <1>0, <2>1, <3>2
    <3>3. CASE u # s
      BY <1>0, <2>1, <3>1, <3>3 DEF CountLimit
    <3> QED BY <3>2, <3>3
  <2> QED BY <1>0, <2>1, <2>2
<1>3. CASE UNCHANGED schedVars
  BY <1>1, <1>3 DEF schedVars
<1>4. CASE SchedNext
  BY <1>1, <1>2, <1>4 DEF SchedNext, CreateSchedule, GetSchedule, UpdateSchedule,
     PutExpression, UpdateThrows, DeleteSchedule, Tick, StopScheduler, ProcessEnds,
     StartScheduler
<1> QED BY <1>3, <1>4

\* A step of the scheduler keeps the types.
LEMMA SchedTypesKept ==
  ASSUME SchedTypeOK, [SchedNext]_schedVars PROVE SchedTypeOK'
<1> USE DEF schedMemory, schedTables, schedHistory, schedCounts, SStatus
<1>0. /\ schedFaults' \in Nat
      /\ sessionCount' \in [Schedule -> Nat]
      /\ \A s \in Schedule : sessionCount'[s] <= MaxSessionExecutions + schedFaults'
  BY SessionsCounted DEF CountLimit
<1>1. ASSUME NEW s \in Schedule, NEW status \in {"active", "inactive"},
             NEW at \in 0 .. MaxTime, CreateSchedule(s, status, at)
      PROVE  SchedTypeOK'
  <2>1. at \in Nat
    BY SchedulerAssumption
  <2>2. JobAfter(s, status, at, badExpression) \in Nat \cup {NoJob}
    BY <2>1, AfterTyped
  <2> QED BY <1>0, <1>1, <2>1, <2>2 DEF SchedTypeOK, CreateSchedule
<1>2. ASSUME NEW s \in Schedule, GetSchedule(s) PROVE SchedTypeOK'
  BY <1>0, <1>2 DEF SchedTypeOK, GetSchedule
<1>3. ASSUME NEW s \in Schedule, NEW status \in {"active", "inactive"},
             UpdateSchedule(s, status)
      PROVE  SchedTypeOK'
  <2>1. JobAfter(s, status, executeAt[s], badExpression) \in Nat \cup {NoJob}
    BY AfterTyped DEF SchedTypeOK
  <2> QED BY <1>0, <1>3, <2>1 DEF SchedTypeOK, UpdateSchedule
<1>4. ASSUME NEW s \in Schedule, NEW good \in BOOLEAN, PutExpression(s, good)
      PROVE  SchedTypeOK'
  <2>1. JobAfter(s, schedules[s], executeAt[s], badExpression') \in Nat \cup {NoJob}
    BY AfterTyped DEF SchedTypeOK
  <2>2. cronJobs' = [cronJobs EXCEPT ![s] =
                       JobAfter(s, schedules[s], executeAt[s], badExpression')]
    BY <1>0, <1>4 DEF PutExpression
  <2> QED BY <1>0, <1>4, <2>1, <2>2 DEF SchedTypeOK, PutExpression
<1>5. ASSUME NEW s \in Schedule, UpdateThrows(s) PROVE SchedTypeOK'
  BY <1>0, <1>5 DEF SchedTypeOK, UpdateThrows
<1>6. ASSUME NEW s \in Schedule, DeleteSchedule(s) PROVE SchedTypeOK'
  BY <1>0, <1>6 DEF SchedTypeOK, DeleteSchedule
<1>7. ASSUME NEW s \in Schedule, NEW succeeds \in BOOLEAN, Execute(s, succeeds)
      PROVE  SchedTypeOK'
  <2>1. NextCount(sessionExecutionCounts[s]) \in 0 .. MaxSessionExecutions
    BY CountInRange DEF SchedTypeOK
  <2> QED BY <1>0, <1>7, <2>1 DEF SchedTypeOK, Execute
<1>8. ASSUME Tick PROVE SchedTypeOK'
  BY <1>0, <1>8 DEF SchedTypeOK, Tick
<1>9. ASSUME StopScheduler PROVE SchedTypeOK'
  BY <1>0, <1>9 DEF SchedTypeOK, StopScheduler
<1>10. ASSUME ProcessEnds PROVE SchedTypeOK'
  BY <1>0, <1>10, SchedulerAssumption DEF SchedTypeOK, ProcessEnds
<1>11. ASSUME StartScheduler PROVE SchedTypeOK'
  <2>1. \A s \in Schedule : JobDue(s, executeAt[s]) \in Nat \cup {NoJob}
    BY DueTyped DEF SchedTypeOK
  <2> QED BY <1>0, <1>11, <2>1 DEF SchedTypeOK, StartScheduler
<1>12. CASE UNCHANGED schedVars
  BY <1>0, <1>12 DEF SchedTypeOK, schedVars
<1> QED BY <1>1, <1>2, <1>3, <1>4, <1>5, <1>6, <1>7, <1>8, <1>9, <1>10, <1>11, <1>12
        DEF SchedNext

\* The tables, the memory and the counters keep their shapes; the stored
\* session count passes the limit after which a new agent session is started by no
\* more than the executions of which a statement failed, the one in memory never.
THEOREM SchedulerTyped == SchedSpec => []SchedTypeOK
<1>1. SchedInit => SchedTypeOK
  BY SchedulerAssumption DEF SchedInit, SchedTypeOK, SStatus
<1>2. SchedTypeOK /\ [SchedNext]_schedVars => SchedTypeOK'
  BY SchedTypesKept
<1> QED BY <1>1, <1>2, PTL DEF SchedSpec

-----------------------------------------------------------------------------
(* Jobs of active schedules. *)

\* A process that is not there has nothing in memory.
DownIsEmpty == phase = "down" => \A s \in Schedule : schedules[s] = "none"

JobInv == SchedTypeOK /\ DownIsEmpty /\ JobIffActive

\* A step of the scheduler keeps the jobs and the map in agreement.
LEMMA JobsKept ==
  ASSUME JobInv, [SchedNext]_schedVars PROVE DownIsEmpty' /\ JobIffActive'
<1> USE DEF schedMemory, schedTables, schedHistory, schedCounts, JobInv
<1>1. ASSUME NEW s \in Schedule, NEW status \in {"active", "inactive"},
             NEW at \in 0 .. MaxTime, CreateSchedule(s, status, at)
      PROVE  DownIsEmpty' /\ JobIffActive'
  <2>1. at \in Nat
    BY SchedulerAssumption DEF SchedTypeOK
  <2>2. cronJobs' = [cronJobs EXCEPT ![s] = JobAfter(s, status, at, badExpression)]
    BY <1>1 DEF CreateSchedule
  <2>3. DownIsEmpty'
    BY <1>1 DEF DownIsEmpty, CreateSchedule
  <2>4. JobIffActive'
    BY <1>1, <2>1, <2>2, AfterMeans DEF SchedTypeOK, JobIffActive, CreateSchedule
  <2> QED BY <2>3, <2>4
<1>2. ASSUME NEW s \in Schedule, GetSchedule(s) PROVE DownIsEmpty' /\ JobIffActive'
  BY <1>2 DEF SchedTypeOK, DownIsEmpty, JobIffActive, GetSchedule
<1>3. ASSUME NEW s \in Schedule, NEW status \in {"active", "inactive"},
             UpdateSchedule(s, status)
      PROVE  DownIsEmpty' /\ JobIffActive'
  <2>1. executeAt[s] \in Nat
    BY SchedulerAssumption DEF SchedTypeOK
  <2>2. cronJobs' = [cronJobs EXCEPT ![s] = JobAfter(s, status, executeAt[s], badExpression)]
    BY <1>3 DEF UpdateSchedule
  <2>3. DownIsEmpty'
    BY <1>3 DEF DownIsEmpty, UpdateSchedule
  <2>4. JobIffActive'
    BY <1>3, <2>1, <2>2, AfterMeans DEF SchedTypeOK, JobIffActive, UpdateSchedule
  <2> QED BY <2>3, <2>4
<1>4. ASSUME NEW s \in Schedule, NEW good \in BOOLEAN, PutExpression(s, good)
      PROVE  DownIsEmpty' /\ JobIffActive'
  <2>1. executeAt[s] \in Nat
    BY SchedulerAssumption DEF SchedTypeOK
  <2>2. cronJobs' = [cronJobs EXCEPT ![s] = JobAfter(s, schedules[s], executeAt[s], badExpression')]
    BY <1>4 DEF PutExpression
  <2>3. DownIsEmpty'
    BY <1>4 DEF DownIsEmpty, PutExpression
  <2>4. JobIffActive'
    BY <1>4, <2>1, <2>2, AfterMeans DEF SchedTypeOK, JobIffActive, PutExpression
  <2> QED BY <2>3, <2>4
<1>5. ASSUME NEW s \in Schedule, UpdateThrows(s) PROVE DownIsEmpty' /\ JobIffActive'
  BY <1>5 DEF SchedTypeOK, DownIsEmpty, JobIffActive, UpdateThrows
<1>6. ASSUME NEW s \in Schedule, DeleteSchedule(s) PROVE DownIsEmpty' /\ JobIffActive'
  BY <1>6 DEF SchedTypeOK, DownIsEmpty, JobIffActive, DeleteSchedule
<1>7. ASSUME NEW s \in Schedule, NEW succeeds \in BOOLEAN, Execute(s, succeeds)
      PROVE  DownIsEmpty' /\ JobIffActive'
  BY <1>7 DEF SchedTypeOK, DownIsEmpty, JobIffActive, Execute
<1>8. ASSUME Tick PROVE DownIsEmpty' /\ JobIffActive'
  BY <1>8 DEF SchedTypeOK, DownIsEmpty, JobIffActive, Tick
<1>9. ASSUME StopScheduler PROVE DownIsEmpty' /\ JobIffActive'
  BY <1>9 DEF SchedTypeOK, DownIsEmpty, JobIffActive, StopScheduler
<1>10. ASSUME ProcessEnds PROVE DownIsEmpty' /\ JobIffActive'
  BY <1>10 DEF SchedTypeOK, DownIsEmpty, JobIffActive, ProcessEnds
<1>11. ASSUME StartScheduler PROVE DownIsEmpty' /\ JobIffActive'
  <2>1. \A s \in Schedule : JobDue(s, executeAt[s]) = NoJob
                              => s \in OneTime /\ executeAt[s] <= clock
    BY DueUnlessOver DEF SchedTypeOK
  <2> QED BY <1>11, <2>1 DEF SchedTypeOK, DownIsEmpty, JobIffActive, StartScheduler
<1>12. CASE UNCHANGED schedVars
  BY <1>12 DEF DownIsEmpty, JobIffActive, schedVars
<1> QED BY <1>1, <1>2, <1>3, <1>4, <1>5, <1>6, <1>7, <1>8, <1>9, <1>10, <1>11, <1>12
        DEF SchedNext

\* The schedules of the map and the jobs agree over all requests, failed ones,
\* executions and restarts.
THEOREM JobsFollowSchedules == SchedSpec => []JobIffActive
<1>1. SchedInit => JobInv
  BY SchedulerAssumption DEF SchedInit, JobInv, SchedTypeOK, SStatus, DownIsEmpty,
                             JobIffActive
<1>2. JobInv /\ [SchedNext]_schedVars => JobInv'
  BY JobsKept, SchedTypesKept DEF JobInv
<1>3. JobInv => JobIffActive
  BY DEF JobInv
<1> QED BY <1>1, <1>2, <1>3, PTL DEF SchedSpec

-----------------------------------------------------------------------------
(* One-time schedules. *)

\* Whatever is executed, in memory or in the table has been created.
Created ==
  \A s \in Schedule :
    /\ executions[s] > 0 => s \in createdIds
    /\ schedules[s] # "none" \/ scheduleRow[s] # "none" => s \in createdIds

\* The job of a one-time schedule is due at its time or, if that was out of reach
\* of a timer, now.
DueInTime ==
  \A s \in OneTime : cronJobs[s] # NoJob =>
    /\ cronJobs[s] >= clock
    /\ cronJobs[s] = executeAt[s] \/ executeAt[s] - cronJobs[s] > TimerLimit

\* What was executed was executed before now; within the reach of a timer there is
\* no job for it any more.
RanAndOver ==
  \A s \in OneTime :
    /\ executions[s] > 0 => lastRun[s] \in 0 .. clock
    /\ executions[s] > 0 /\ executeAt[s] <= TimerLimit => cronJobs[s] = NoJob

OnceInv == JobInv /\ Created /\ DueInTime /\ RanAndOver /\ OnceOnTime

\* A step that leaves the clock and the executions alone, and the job of every
\* one-time schedule alone, away or started anew, keeps what holds of them.
LEMMA DueWhenRearmed ==
  ASSUME OnceInv, UNCHANGED <<clock, executions, lastRun, executeAt>>,
         \A s \in OneTime : cronJobs'[s] \in {cronJobs[s], NoJob, JobDue(s, executeAt[s])}
  PROVE  DueInTime' /\ RanAndOver' /\ OnceOnTime'
<1>1. \A s \in OneTime : s \in Schedule /\ executeAt[s] \in Nat /\ executions[s] \in Nat
  BY SchedulerAssumption DEF OnceInv, JobInv, SchedTypeOK
<1>2. SchedTypeOK
  BY DEF OnceInv, JobInv
<1>3. DueInTime'
  BY <1>1, <1>2, DueWhenArmed DEF OnceInv, DueInTime
<1>4. RanAndOver'
  <2> SUFFICES ASSUME NEW s \in OneTime, executions[s] > 0, executeAt[s] <= TimerLimit
               PROVE cronJobs'[s] = NoJob
    BY DEF OnceInv, RanAndOver
  <2>1. lastRun[s] \in 0 .. clock /\ cronJobs[s] = NoJob
    BY DEF OnceInv, RanAndOver
  <2>2. executeAt[s] <= clock
    BY <1>1, <1>2, <2>1, SchedulerAssumption DEF OnceInv, OnceOnTime, SchedTypeOK
  <2>3. JobDue(s, executeAt[s]) = NoJob
    BY <1>1, <1>2, <2>2, DueWhenArmed DEF SchedTypeOK
  <2> QED BY <2>1, <2>3
<1>5. OnceOnTime'
  BY DEF OnceInv, OnceOnTime
<1> QED BY <1>3, <1>4, <1>5

\* A step of the scheduler keeps the one-time schedules in time.
LEMMA OnceKept ==
  ASSUME OnceInv, [SchedNext]_schedVars
  PROVE  Created' /\ DueInTime' /\ RanAndOver' /\ OnceOnTime'
<1> USE DEF schedMemory, schedTables, schedHistory, schedCounts
<1>0. OneTime \subseteq Schedule /\ TimerLimit \in Nat /\ SchedTypeOK
  BY SchedulerAssumption DEF OnceInv, JobInv
<1>1. ASSUME NEW s \in Schedule, NEW status \in {"active", "inactive"},
             NEW at \in 0 .. MaxTime, CreateSchedule(s, status, at)
      PROVE  Created' /\ DueInTime' /\ RanAndOver' /\ OnceOnTime'
  <2>1. executions[s] = 0 /\ at \in Nat
    BY <1>0, <1>1, SchedulerAssumption DEF CreateSchedule, OnceInv, Created, SchedTypeOK
  <2>2. cronJobs' = [cronJobs EXCEPT ![s] = JobAfter(s, status, at, badExpression)]
    BY <1>1 DEF CreateSchedule
  <2>3. JobAfter(s, status, at, badExpression) \in {NoJob, JobDue(s, at)}
    BY DEF JobAfter
  <2>4. Created'
    BY <1>1, <2>1 DEF OnceInv, Created, CreateSchedule, SchedTypeOK
  <2>5. DueInTime'
    BY <1>0, <1>1, <2>1, <2>2, <2>3, DueWhenArmed
       DEF OnceInv, DueInTime, CreateSchedule, SchedTypeOK
  <2>6. RanAndOver' /\ OnceOnTime'
    BY <1>0, <1>1, <2>1, <2>2 DEF OnceInv, RanAndOver, OnceOnTime, CreateSchedule, SchedTypeOK
  <2> QED BY <2>4, <2>5, <2>6
<1>2. ASSUME NEW s \in Schedule,
             \/ GetSchedule(s)
             \/ \E status \in {"active", "inactive"} : UpdateSchedule(s, status)
             \/ \E good \in BOOLEAN : PutExpression(s, good)
             \/ UpdateThrows(s) \/ DeleteSchedule(s)
      PROVE  Created' /\ DueInTime' /\ RanAndOver' /\ OnceOnTime'
  <2>1. UNCHANGED <<clock, executions, lastRun, executeAt>>
    BY <1>2 DEF GetSchedule, UpdateSchedule, PutExpression, UpdateThrows, DeleteSchedule
  <2>2. \A u \in OneTime : cronJobs'[u] \in {cronJobs[u], NoJob, JobDue(u, executeAt[u])}
    BY <1>0, <1>2 DEF GetSchedule, UpdateSchedule, PutExpression, UpdateThrows,
                      DeleteSchedule, JobAfter, SchedTypeOK
  <2>3. Created'
    BY <1>0, <1>2 DEF OnceInv, Created, GetSchedule, UpdateSchedule, PutExpression,
                      UpdateThrows, DeleteSchedule, SchedTypeOK
  <2> QED BY <2>1, <2>2, <2>3, DueWhenRearmed
<1>3. ASSUME NEW s \in Schedule, NEW succeeds \in BOOLEAN, Execute(s, succeeds)
      PROVE  Created' /\ DueInTime' /\ RanAndOver' /\ OnceOnTime'
  <2>1. Created'
    BY <1>0, <1>3 DEF OnceInv, Created, Execute, SchedTypeOK
  <2>2. /\ executions' = [executions EXCEPT ![s] = @ + 1]
        /\ lastRun' = [lastRun EXCEPT ![s] = clock]
        /\ UNCHANGED <<clock, executeAt>>
        /\ cronJobs[s] # NoJob /\ clock >= cronJobs[s]
        /\ cronJobs' = IF s \in OneTime THEN [cronJobs EXCEPT ![s] = NoJob] ELSE cronJobs
    BY <1>3 DEF Execute
  <2>3. CASE s \in OneTime
    <3>1. cronJobs[s] = clock
      BY <1>0, <2>2, <2>3 DEF OnceInv, DueInTime, SchedTypeOK
    <3>2. clock = executeAt[s] \/ executeAt[s] - clock > TimerLimit
      BY <2>2, <2>3, <3>1 DEF OnceInv, DueInTime
    <3>3. executeAt[s] <= TimerLimit => executions[s] = 0
      BY <1>0, <2>2, <2>3 DEF OnceInv, RanAndOver, SchedTypeOK
    <3>4. DueInTime'
      BY <1>0, <2>2, <2>3 DEF OnceInv, DueInTime, SchedTypeOK
    <3>5. RanAndOver'
      BY <1>0, <2>2, <2>3 DEF OnceInv, RanAndOver, SchedTypeOK
    <3>6. OnceOnTime'
      BY <1>0, <2>2, <2>3, <3>2, <3>3 DEF OnceInv, OnceOnTime, SchedTypeOK
    <3> QED BY <2>1, <3>4, <3>5, <3>6
  <2>4. CASE s \notin OneTime
    <3>1. cronJobs' = cronJobs
      BY <2>2, <2>4
    <3>2. \A u \in OneTime : executions'[u] = executions[u] /\ lastRun'[u] = lastRun[u]
      BY <1>0, <2>2, <2>4 DEF SchedTypeOK
    <3> QED BY <2>1, <2>2, <3>1, <3>2 DEF OnceInv, DueInTime, RanAndOver, OnceOnTime
  <2> QED BY <2>3, <2>4
<1>4. ASSUME Tick PROVE Created' /\ DueInTime' /\ RanAndOver' /\ OnceOnTime'
  BY <1>0, <1>4 DEF Tick, OnceInv, Created, DueInTime, RanAndOver, OnceOnTime, SchedTypeOK
<1>5. ASSUME StopScheduler \/ ProcessEnds \/ StartScheduler
      PROVE  Created' /\ DueInTime' /\ RanAndOver' /\ OnceOnTime'
  <2>1. UNCHANGED <<clock, executions, lastRun, executeAt>>
    BY <1>5 DEF StopScheduler, ProcessEnds, StartScheduler
  <2>2. \A u \in OneTime : cronJobs'[u] \in {cronJobs[u], NoJob, JobDue(u, executeAt[u])}
    BY <1>0, <1>5 DEF StopScheduler, ProcessEnds, StartScheduler
  <2>3. Created'
    BY <1>0, <1>5 DEF OnceInv, Created, StopScheduler, ProcessEnds, StartScheduler,
                      SchedTypeOK
  <2> QED BY <2>1, <2>2, <2>3, DueWhenRearmed
<1>6. CASE UNCHANGED schedVars
  BY <1>6 DEF OnceInv, Created, DueInTime, RanAndOver, OnceOnTime, schedVars
<1> QED BY <1>1, <1>2, <1>3, <1>4, <1>5, <1>6 DEF SchedNext

\* A one-time schedule within reach of a timer runs once and at its time, whatever
\* is requested, fails or restarts; one out of reach runs early.
THEOREM OnceAtItsTime == SchedSpec => []OnceOnTime
<1>1. SchedInit => OnceInv
  BY SchedulerAssumption DEF SchedInit, OnceInv, JobInv, SchedTypeOK, SStatus, DownIsEmpty,
     JobIffActive, Created, DueInTime, RanAndOver, OnceOnTime
<1>2. OnceInv /\ [SchedNext]_schedVars => OnceInv'
  BY OnceKept, JobsKept, SchedTypesKept DEF OnceInv, JobInv
<1>3. OnceInv => OnceOnTime
  BY DEF OnceInv
<1> QED BY <1>1, <1>2, <1>3, PTL DEF SchedSpec
=============================================================================
