----------------------------- MODULE Scheduler -----------------------------
(***************************************************************************)
(* The scheduler (services/scheduler-service.ts) with its tables           *)
(* (repositories/schedule-repository.ts), the handler that submits the     *)
(* task (server/setup/scheduler.ts) and its routes (routes/schedules.ts).  *)
(*                                                                         *)
(* better-sqlite3 is synchronous, so the awaits of these functions yield   *)
(* to nothing but their own continuations: a request, a timer and the      *)
(* start of the process are one step each.                                 *)
(***************************************************************************)
EXTENDS Integers

CONSTANTS
  Schedule,             \* the ids randomUUID may hand out
  OneTime,              \* those of type "once"; the others are of type "cron"
  MaxTime,              \* bound on the clock
  TimerLimit,           \* 2^31 - 1 ms: setTimeout fires a longer delay at once
  MaxSessionExecutions, \* options.sdk.maxSessionExecutions
  MaxExecutions,        \* bound on the executions of a schedule
  MaxBoots,             \* bound on starts of the process
  MaxSchedFaults        \* bound on statements that fail

NoJob   == -1
Never   == -1
SStatus == {"active", "inactive", "completed", "failed"}

ASSUME SchedulerAssumption ==
  /\ OneTime \subseteq Schedule
  /\ MaxTime \in Nat /\ TimerLimit \in Nat
  /\ MaxSessionExecutions \in Nat \ {0}
  /\ MaxExecutions \in Nat /\ MaxBoots \in Nat /\ MaxSchedFaults \in Nat

VARIABLES
  phase,         \* "running", "stopping" (stop() was called) or "down"
  clock,
  schedules,     \* the map in memory: status, "none" if absent
  cronJobs,      \* the time the job of s is due, NoJob if there is none
  sessionExecutionCounts,  \* the handler's counter, in memory
  scheduleRow,   \* column status, "none" if there is no row
  executeAt,     \* column execute_at
  badExpression, \* schedules whose cron_expression does not parse
  sessionCount,  \* schedule_session_state.execution_count
  createdIds, executions, lastRun,
  unarmed,       \* schedules whose last request failed half-way or was a reload
  boots, schedFaults

schedMemory  == <<schedules, cronJobs, sessionExecutionCounts>>
schedTables  == <<scheduleRow, executeAt, badExpression, sessionCount>>
schedHistory == <<createdIds, executions, lastRun, unarmed>>
schedCounts  == <<boots, schedFaults>>
schedVars    == <<phase, clock, schedMemory, schedTables, schedHistory, schedCounts>>

-----------------------------------------------------------------------------
SchedInit ==
  /\ phase = "running" /\ clock = 0
  /\ schedules = [s \in Schedule |-> "none"]
  /\ cronJobs = [s \in Schedule |-> NoJob]
  /\ sessionExecutionCounts = [s \in Schedule |-> 0]
  /\ scheduleRow = [s \in Schedule |-> "none"]
  /\ executeAt = [s \in Schedule |-> 0]
  /\ badExpression = {}
  /\ sessionCount = [s \in Schedule |-> 0]
  /\ createdIds = {}
  /\ executions = [s \in Schedule |-> 0]
  /\ lastRun = [s \in Schedule |-> Never]
  /\ unarmed = {}
  /\ boots = 1 /\ schedFaults = 0

SchedFault == schedFaults < MaxSchedFaults /\ schedFaults' = schedFaults + 1

\* Fault: the delay is not compared with zero.
JobOverdue(s, at) ==
  IF s \notin OneTime THEN 0
  ELSE IF at - clock > TimerLimit THEN clock ELSE at

\* startScheduleJob: when the job is due.  A cron job (0) may fire at any time;
\* a time that is not in the future gets none.
JobDue(s, at) ==
  IF s \notin OneTime THEN 0
  ELSE IF at <= clock THEN NoJob
  ELSE IF at - clock > TimerLimit THEN clock ELSE at

\* Fault: the job is started whether or not the scheduler is running.
JobAlways(s, status, at, bad) ==
  IF status = "active" /\ s \notin bad THEN JobDue(s, at) ELSE NoJob

\* The job a schedule has after it was stored with this status; the constructor
\* of CronJob throws on a bad expression.
JobAfter(s, status, at, bad) ==
  IF phase = "running" /\ status = "active" /\ s \notin bad
  THEN JobDue(s, at) ELSE NoJob

\* POST /api/schedules.  executeAt is compared with the current time.
CreateSchedule(s, status, at) ==
  /\ phase # "down"
  /\ s \notin createdIds
  /\ at >= clock
  /\ createdIds' = createdIds \cup {s}
  /\ executeAt' = [executeAt EXCEPT ![s] = at]
  /\ scheduleRow' = [scheduleRow EXCEPT ![s] = status]
  /\ schedules' = [schedules EXCEPT ![s] = status]
  /\ cronJobs' = [cronJobs EXCEPT ![s] = JobAfter(s, status, at, badExpression)]
  /\ UNCHANGED <<phase, clock, sessionExecutionCounts, badExpression, sessionCount,
                 executions, lastRun, unarmed, schedCounts>>

\* GET /api/schedules/:id: a schedule that is only in the table is taken into
\* the map, without a job.
GetSchedule(s) ==
  /\ phase # "down"
  /\ schedules[s] = "none" /\ scheduleRow[s] # "none"
  /\ schedules' = [schedules EXCEPT ![s] = scheduleRow[s]]
  /\ unarmed' = unarmed \cup {s}
  /\ UNCHANGED <<phase, clock, cronJobs, sessionExecutionCounts, schedTables,
                 createdIds, executions, lastRun, schedCounts>>

\* PUT with a status, enable and disable: stop the job, write the row (no row,
\* no effect), replace the entry, start the job.
UpdateSchedule(s, status) ==
  /\ phase # "down"
  /\ schedules[s] # "none"
  /\ scheduleRow' = IF scheduleRow[s] = "none" THEN scheduleRow
                    ELSE [scheduleRow EXCEPT ![s] = status]
  /\ schedules' = [schedules EXCEPT ![s] = status]
  /\ cronJobs' = [cronJobs EXCEPT ![s] =
                    JobAfter(s, status, executeAt[s], badExpression)]
  /\ unarmed' = IF phase = "running" THEN unarmed \ {s} ELSE unarmed \cup {s}
  /\ UNCHANGED <<phase, clock, sessionExecutionCounts, executeAt, badExpression,
                 sessionCount, createdIds, executions, lastRun, schedCounts>>

\* PUT with an expression, which is stored without being parsed: a bad one makes
\* CronJob throw after the row and the map were changed.
PutExpression(s, good) ==
  LET bad == IF good THEN badExpression \ {s} ELSE badExpression \cup {s} IN
  /\ phase # "down"
  /\ s \notin OneTime
  /\ schedules[s] # "none"
  /\ badExpression' = bad
  /\ scheduleRow' = IF scheduleRow[s] = "none" THEN scheduleRow
                    ELSE [scheduleRow EXCEPT ![s] = schedules[s]]
  /\ cronJobs' = [cronJobs EXCEPT ![s] = JobAfter(s, schedules[s], executeAt[s], bad)]
  /\ unarmed' = IF phase = "running" THEN unarmed \ {s} ELSE unarmed \cup {s}
  /\ UNCHANGED <<phase, clock, schedules, sessionExecutionCounts, executeAt,
                 sessionCount, createdIds, executions, lastRun, schedCounts>>

\* A PUT that throws between stopScheduleJob and the write: the row cannot be
\* written, or the body has an executeAt, a string without toISOString.
UpdateThrows(s) ==
  /\ phase # "down"
  /\ schedules[s] # "none"
  /\ \/ s \in OneTime /\ UNCHANGED schedFaults
     \/ SchedFault
  /\ cronJobs' = [cronJobs EXCEPT ![s] = NoJob]
  /\ unarmed' = unarmed \cup {s}
  /\ UNCHANGED <<phase, clock, schedules, sessionExecutionCounts, schedTables,
                 createdIds, executions, lastRun, boots>>

\* DELETE: the job and the entry go before the row, whose deletion may fail.
DeleteSchedule(s) ==
  /\ phase # "down"
  /\ schedules[s] # "none"
  /\ cronJobs' = [cronJobs EXCEPT ![s] = NoJob]
  /\ schedules' = [schedules EXCEPT ![s] = "none"]
  /\ \/ scheduleRow' = [scheduleRow EXCEPT ![s] = "none"] /\ UNCHANGED schedFaults
     \/ SchedFault /\ UNCHANGED scheduleRow
  /\ UNCHANGED <<phase, clock, sessionExecutionCounts, executeAt, badExpression,
                 sessionCount, schedHistory, boots>>

\* Fault: the session is renewed one execution late.
NextCountLate(n) == IF n > MaxSessionExecutions THEN 1 ELSE n + 1

\* The handler's counter after an execution; 1 starts a new agent session.
NextCount(n) == IF n >= MaxSessionExecutions THEN 1 ELSE n + 1

\* What the column may say of n executions when statements of the next one failed: its
\* reading or its reset, its increment, or all of them.  A count that is not reset
\* is incremented all the same.
CountAfterFailure(n) == {n, n + 1} \cup {k \in {0, 1} : n >= MaxSessionExecutions}

\* A job is due: the handler counts, continues or renews the agent session and
\* adds the task, or throws; the outcome is written to the history, to the
\* session state and to the row.  Each of these statements may fail, which is logged;
\* a process that dies among them leaves what such failures leave.
Execute(s, succeeds) ==
  LET status == IF s \notin OneTime THEN "active"
                ELSE IF succeeds THEN "completed" ELSE "failed" IN
  /\ cronJobs[s] # NoJob /\ clock >= cronJobs[s]
  /\ schedules[s] = "active"
  /\ executions[s] < MaxExecutions
  /\ executions' = [executions EXCEPT ![s] = @ + 1]
  /\ lastRun' = [lastRun EXCEPT ![s] = clock]
  /\ sessionExecutionCounts' = [sessionExecutionCounts EXCEPT ![s] = NextCount(@)]
  /\ schedules' = [schedules EXCEPT ![s] = status]
  /\ cronJobs' = IF s \in OneTime THEN [cronJobs EXCEPT ![s] = NoJob] ELSE cronJobs
  /\ \/ /\ sessionCount' = [sessionCount EXCEPT ![s] = NextCount(@)]
        /\ scheduleRow' = IF scheduleRow[s] = "none" THEN scheduleRow
                          ELSE [scheduleRow EXCEPT ![s] = status]
        /\ UNCHANGED schedFaults
     \/ /\ SchedFault
        /\ \E n \in CountAfterFailure(sessionCount[s]) :
             sessionCount' = [sessionCount EXCEPT ![s] = n]
        /\ \/ UNCHANGED scheduleRow
           \/ scheduleRow[s] # "none" /\ scheduleRow' = [scheduleRow EXCEPT ![s] = status]
  /\ UNCHANGED <<phase, clock, executeAt, badExpression, createdIds, unarmed, boots>>

\* Timers fire before time goes on.
Tick ==
  /\ clock < MaxTime
  /\ \A s \in OneTime : cronJobs[s] # NoJob => cronJobs[s] > clock
  /\ clock' = clock + 1
  /\ UNCHANGED <<phase, schedMemory, schedTables, schedHistory, schedCounts>>

\* stop() at shutdown; requests are served until the process exits.
StopScheduler ==
  /\ phase = "running"
  /\ phase' = "stopping"
  /\ cronJobs' = [s \in Schedule |-> NoJob]
  /\ unarmed' = Schedule
  /\ UNCHANGED <<clock, schedules, sessionExecutionCounts, schedTables, createdIds,
                 executions, lastRun, schedCounts>>

\* The process exits, or dies at any point.
ProcessEnds ==
  /\ phase # "down"
  /\ phase' = "down"
  /\ schedules' = [s \in Schedule |-> "none"]
  /\ cronJobs' = [s \in Schedule |-> NoJob]
  /\ sessionExecutionCounts' = [s \in Schedule |-> 0]
  /\ UNCHANGED <<clock, schedTables, schedHistory, schedCounts>>

\* start() takes the rows into the map and starts a job for every active one; if
\* they cannot be read it goes on without.  A bad expression among the active
\* ones makes it throw in a promise nobody handles, which ends the process
\* before it listens: then this step does not happen.
StartScheduler ==
  /\ phase = "down" /\ boots < MaxBoots
  /\ boots' = boots + 1
  /\ phase' = "running"
  /\ \/ /\ \A s \in badExpression : scheduleRow[s] # "active"
        /\ schedules' = scheduleRow
        /\ cronJobs' = [s \in Schedule |-> IF scheduleRow[s] = "active"
                                           THEN JobDue(s, executeAt[s]) ELSE NoJob]
        /\ UNCHANGED schedFaults
     \/ SchedFault /\ UNCHANGED <<schedules, cronJobs>>
  /\ unarmed' = {}
  /\ UNCHANGED <<clock, sessionExecutionCounts, schedTables, createdIds, executions,
                 lastRun>>

SchedNext ==
  \/ \E s \in Schedule :
       \/ \E status \in {"active", "inactive"}, at \in 0 .. MaxTime :
            CreateSchedule(s, status, at)
       \/ GetSchedule(s)
       \/ \E status \in {"active", "inactive"} : UpdateSchedule(s, status)
       \/ \E good \in BOOLEAN : PutExpression(s, good)
       \/ UpdateThrows(s)
       \/ DeleteSchedule(s)
       \/ \E succeeds \in BOOLEAN : Execute(s, succeeds)
  \/ Tick \/ StopScheduler \/ ProcessEnds \/ StartScheduler

SchedSpec == SchedInit /\ [][SchedNext]_schedVars

-----------------------------------------------------------------------------
\* The shapes of the scheduler's state.  The stored count of a session passes its limit
\* by one for every execution of which a statement failed; the one in memory never does.
SchedTypeOK ==
  /\ phase \in {"running", "stopping", "down"}
  /\ clock \in Nat
  /\ schedules \in [Schedule -> SStatus \cup {"none"}]
  /\ cronJobs \in [Schedule -> Nat \cup {NoJob}]
  /\ sessionExecutionCounts \in [Schedule -> 0 .. MaxSessionExecutions]
  /\ scheduleRow \in [Schedule -> SStatus \cup {"none"}]
  /\ executeAt \in [Schedule -> Nat]
  /\ badExpression \subseteq Schedule \ OneTime
  /\ sessionCount \in [Schedule -> Nat]
  /\ \A s \in Schedule : sessionCount[s] <= MaxSessionExecutions + schedFaults
  /\ createdIds \subseteq Schedule /\ unarmed \subseteq Schedule
  /\ executions \in [Schedule -> Nat]
  /\ lastRun \in [Schedule -> Nat \cup {Never}]
  /\ boots \in Nat /\ schedFaults \in Nat

\* Only active schedules have jobs, and only while the scheduler runs; and one
\* that the API shows as active has its job, unless its time is over, its
\* expression is bad, or the last request for it failed or re-read it (the code
\* then leaves it active and never runs it).
JobIffActive ==
  \A s \in Schedule :
    /\ cronJobs[s] # NoJob
         => phase = "running" /\ schedules[s] = "active" /\ s \notin badExpression
    /\ phase = "running" /\ schedules[s] = "active" /\ cronJobs[s] = NoJob
         => \/ s \in OneTime /\ executeAt[s] <= clock
            \/ s \in badExpression \cup unarmed

\* A one-time schedule within reach of a timer runs once and at its time, however
\* often it is disabled, enabled and reloaded, and although the write that marks
\* it completed may fail.  One that was further away than TimerLimit when armed
\* runs too early.
OnceOnTime ==
  \A s \in OneTime : executions[s] > 0 =>
    /\ lastRun[s] = executeAt[s] \/ executeAt[s] - lastRun[s] > TimerLimit
    /\ executeAt[s] <= TimerLimit => executions[s] = 1
=============================================================================
