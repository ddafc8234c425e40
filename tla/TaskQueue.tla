----------------------------- MODULE TaskQueue -----------------------------
(***************************************************************************)
(* The in-process task queue of the backend (queue/task-queue.ts) together *)
(* with the three things it shares state with: the tasks table (through    *)
(* repositories/task-repository-adapter.ts), the executor's registry of    *)
(* running tasks (claude/executor.ts) and the p-queue worker pool.         *)
(*                                                                         *)
(* Node runs one turn of the event loop at a time, so an action is the     *)
(* code between two awaits that really yield to the loop.  p-queue starts  *)
(* waiting jobs inside the turn that makes them startable; that is         *)
(* expressed by Settled: while a job can be started nothing but Start      *)
(* happens.                                                                *)
(***************************************************************************)
EXTENDS Naturals, FiniteSets

CONSTANTS
  Task,            \* the task ids that uuid may hand out
  Slot,            \* the worker slots p-queue can use at most
  Idle,            \* the content of a slot that runs nothing
  Priority,        \* Priority[t]: the priority t is submitted with
  MaxRetries,      \* MaxRetries[t]: options.retry.maxRetries in effect for t
  JsonOutput,      \* the Claude tasks that ask for outputFormat "json"
  InitConcurrency, \* the concurrency the process is configured with
  AutoStart,       \* QueueOptions.autoStart
  CleanupEnabled,  \* config.queue.cleanupEnabled
  Env,             \* the operator requests and faults that may happen
  MaxCrashes,      \* bound on process crashes
  MaxUnsaved       \* bound on the tasks for which writes to the table fail

Live     == {"pending", "running"}
Terminal == {"completed", "failed", "cancelled"}
Status   == {"none"} \cup Live \cup Terminal

Job   == [task : Task, kind : {"first", "retry"}]
Phase == {"starting", "executing", "succeeded", "failed", "unwatching"}
Run   == [task : Task, phase : Phase]

ASSUME QueueAssumption ==
  /\ Priority \in [Task -> Nat]
  /\ MaxRetries \in [Task -> Nat]
  /\ JsonOutput \subseteq Task
  /\ IsFiniteSet(Slot)
  /\ InitConcurrency \in 1 .. Cardinality(Slot)
  /\ AutoStart \in BOOLEAN
  /\ CleanupEnabled \in BOOLEAN
  /\ Env \subseteq {"cancel", "clear", "pause", "reconfigure"}
  /\ MaxCrashes \in Nat /\ MaxUnsaved \in Nat
  /\ Idle \notin Run

VARIABLES
  \* the QueuedTask objects and the containers of TaskQueueImpl
  mem,            \* task.status of the object ("none": no such object)
  attempt,        \* task.retryMetadata.currentAttempt of the object
  tasks,          \* keys of the tasks map
  waiting,        \* the jobs p-queue holds
  slot,           \* what each worker slot is executing
  retryTimer,     \* tasks with a pending retry setTimeout
  cleanupTimer,   \* tasks with a pending cleanup setTimeout
  completedCount, failedCount,
  paused, concurrency,
  \* the executor
  runningTasks,   \* keys of the executor's runningTasks map
  \* the tasks table, which survives a crash
  row,            \* column status ("none": no row)
  rowAttempt,     \* column retry_metadata.currentAttempt
  \* history
  issued,         \* ids uuid has handed out
  execs,          \* executions of the task started so far, in all processes
  lostWrite,      \* tasks for which a write to the table has failed
  crashes

memory == <<mem, attempt, tasks, waiting, slot, retryTimer, cleanupTimer,
            completedCount, failedCount, paused, concurrency>>
table   == <<row, rowAttempt>>
history == <<issued, execs, lostWrite, crashes>>
vars    == <<memory, runningTasks, table, history>>

-----------------------------------------------------------------------------
Busy == {s \in Slot : slot[s] # Idle}

\* p-queue has started every job it may start.
Settled == paused \/ waiting = {} \/ Cardinality(Busy) >= concurrency

\* One write for t fails.
Unsaved(t) ==
  /\ lostWrite' = lostWrite \cup {t}
  /\ Cardinality(lostWrite') <= MaxUnsaved

\* A write to the row of t that throws; the caller logs the error and goes on.
LoseWrite(t) ==
  /\ Unsaved(t)
  /\ UNCHANGED table

\* UPDATE tasks SET ... WHERE id = t: no row, no effect.
SetRow(t, s, n) ==
  /\ row' = IF row[t] = "none" THEN row ELSE [row EXCEPT ![t] = s]
  /\ rowAttempt' = IF row[t] = "none" THEN rowAttempt ELSE [rowAttempt EXCEPT ![t] = n]
  /\ UNCHANGED lostWrite

\* Fault: the UPDATE refuses to touch a row that is already terminal.
PersistIfLive(t, s) ==
  SetRow(t, IF row[t] \in Live THEN s ELSE row[t], rowAttempt[t]) \/ LoseWrite(t)

Persist(t, s) == SetRow(t, s, rowAttempt[t]) \/ LoseWrite(t)

\* Fault: off by one.
MayRetryOnceMore(t) == attempt[t] <= MaxRetries[t]

\* shouldRetry, for an error that is retryable.
MayRetry(t) == attempt[t] < MaxRetries[t]

\* Fault: only tasks that ran are cleaned up.
ArmCleanupIfRan(t) ==
  cleanupTimer' = IF CleanupEnabled /\ mem[t] = "running"
                  THEN cleanupTimer \cup {t} ELSE cleanupTimer

\* scheduleTaskCleanup.
ArmCleanup(t) ==
  cleanupTimer' = IF CleanupEnabled THEN cleanupTimer \cup {t} ELSE cleanupTimer

\* The slot s runs a task in phase p.
At(s, p) == slot[s] # Idle /\ slot[s].phase = p

Release(s) == slot' = [slot EXCEPT ![s] = Idle]

\* Fault: the retry job is dropped when the queue happens to be paused.
RequeueUnlessPaused(t) ==
  waiting' = IF paused THEN waiting ELSE waiting \cup {[task |-> t, kind |-> "retry"]}

Requeue(t) == waiting' = waiting \cup {[task |-> t, kind |-> "retry"]}

\* Fault: the retry is queued at once and again after the delay.
ArmRetryAndRequeue(t) == retryTimer' = retryTimer \cup {t} /\ Requeue(t)

ArmRetry(t) == retryTimer' = retryTimer \cup {t} /\ UNCHANGED waiting

\* Fault: the entry is left behind.
DeregisterForgotten(t) == runningTasks' = runningTasks

Deregister(t) == runningTasks' = runningTasks \ {t}

-----------------------------------------------------------------------------
Init ==
  /\ mem = [t \in Task |-> "none"]
  /\ attempt = [t \in Task |-> 0]
  /\ tasks = {}
  /\ waiting = {}
  /\ slot = [s \in Slot |-> Idle]
  /\ retryTimer = {} /\ cleanupTimer = {}
  /\ completedCount = 0 /\ failedCount = 0
  /\ paused = ~AutoStart
  /\ concurrency = InitConcurrency
  /\ runningTasks = {}
  /\ row = [t \in Task |-> "none"]
  /\ rowAttempt = [t \in Task |-> 0]
  /\ issued = {}
  /\ execs = [t \in Task |-> 0]
  /\ lostWrite = {}
  /\ crashes = 0

\* A failed INSERT is only logged: the task then has no row.
Add(t) ==
  /\ Settled
  /\ t \notin issued
  /\ issued' = issued \cup {t}
  /\ mem' = [mem EXCEPT ![t] = "pending"]
  /\ tasks' = tasks \cup {t}
  /\ \/ row' = [row EXCEPT ![t] = "pending"] /\ UNCHANGED <<rowAttempt, lostWrite>>
     \/ LoseWrite(t)
  /\ waiting' = waiting \cup {[task |-> t, kind |-> "first"]}
  /\ UNCHANGED <<attempt, slot, retryTimer, cleanupTimer, completedCount,
                 failedCount, paused, concurrency, runningTasks, execs, crashes>>

\* executeTask up to its first await.  A task with a working directory, or one
\* for the lazily loaded codex and gemini executors, awaits before it reaches
\* the executor ("starting"); any other enters it, and its runningTasks, at once.
Start(s, j) ==
  /\ ~Settled
  /\ slot[s] = Idle
  /\ j \in waiting
  /\ \A k \in waiting : Priority[k.task] <= Priority[j.task]
  /\ waiting' = waiting \ {j}
  /\ mem' = [mem EXCEPT ![j.task] = "running"]
  /\ Persist(j.task, "running")
  /\ \/ /\ slot' = [slot EXCEPT ![s] = [task |-> j.task, phase |-> "starting"]]
        /\ UNCHANGED runningTasks
     \/ /\ slot' = [slot EXCEPT ![s] = [task |-> j.task, phase |-> "executing"]]
        /\ runningTasks' = runningTasks \cup {j.task}
  /\ execs' = [execs EXCEPT ![j.task] = @ + 1]
  /\ UNCHANGED <<attempt, tasks, retryTimer, cleanupTimer, completedCount,
                 failedCount, paused, concurrency, issued, crashes>>

\* The awaits before executor.execute are over; executeCore registers the task.
Register(s) ==
  /\ Settled
  /\ At(s, "starting")
  /\ slot' = [slot EXCEPT ![s].phase = "executing"]
  /\ runningTasks' = runningTasks \cup {slot[s].task}
  /\ UNCHANGED <<mem, attempt, tasks, waiting, retryTimer, cleanupTimer,
                 completedCount, failedCount, paused, concurrency, table, history>>

\* What every path that ends in FAILED does.
MarkFailed(t) ==
  /\ mem' = [mem EXCEPT ![t] = "failed"]
  /\ failedCount' = failedCount + 1
  /\ Persist(t, "failed")
  /\ ArmCleanup(t)

\* executeTask's try block ends in an error: before the executor runs, or because
\* a JSON result has no output to log.  A PathValidationError frees the slot, as
\* does the catch block without a working directory; with one, unwatchRepository
\* is awaited first.
UnexpectedError(s) ==
  /\ Settled
  /\ \/ At(s, "starting")
     \/ At(s, "succeeded") /\ slot[s].task \in JsonOutput
  /\ MarkFailed(slot[s].task)
  /\ \/ Release(s)
     \/ slot' = [slot EXCEPT ![s].phase = "unwatching"]
  /\ UNCHANGED <<attempt, tasks, waiting, retryTimer, completedCount, paused,
                 concurrency, runningTasks, issued, execs, crashes>>

\* Fault: the failure is counted before and after the unwatch.
UnwatchedCounting(s) ==
  /\ Settled
  /\ At(s, "unwatching")
  /\ Release(s)
  /\ failedCount' = failedCount + 1
  /\ UNCHANGED <<mem, attempt, tasks, waiting, retryTimer, cleanupTimer,
                 completedCount, paused, concurrency, runningTasks, table, history>>

Unwatched(s) ==
  /\ Settled
  /\ At(s, "unwatching")
  /\ Release(s)
  /\ UNCHANGED <<mem, attempt, tasks, waiting, retryTimer, cleanupTimer,
                 completedCount, failedCount, paused, concurrency, runningTasks,
                 table, history>>

\* The agent ends: with a result, an error, a timeout or an abort.  executeCore
\* takes the task out of runningTasks and only then awaits its own clean-up.  It
\* never throws: an abort is a result with success = false like any other error,
\* and one that comes after the agent's last message is not noticed at all.
ExecEnd(s) ==
  /\ Settled
  /\ At(s, "executing")
  /\ \E p \in {"succeeded", "failed"} : slot' = [slot EXCEPT ![s].phase = p]
  /\ Deregister(slot[s].task)
  /\ UNCHANGED <<mem, attempt, tasks, waiting, retryTimer, cleanupTimer,
                 completedCount, failedCount, paused, concurrency, table, history>>

\* executeTask resumes with result.success.
Complete(s) ==
  /\ Settled
  /\ At(s, "succeeded")
  /\ slot[s].task \notin JsonOutput
  /\ mem' = [mem EXCEPT ![slot[s].task] = "completed"]
  /\ completedCount' = completedCount + 1
  /\ Persist(slot[s].task, "completed")
  /\ ArmCleanup(slot[s].task)
  /\ Release(s)
  /\ UNCHANGED <<attempt, tasks, waiting, retryTimer, failedCount, paused,
                 concurrency, runningTasks, issued, execs, crashes>>

\* updateRetryMetadata succeeds and resetTaskForRetry throws.
SaveAttemptOnly(t) ==
  /\ row[t] # "none"
  /\ rowAttempt' = [rowAttempt EXCEPT ![t] = attempt[t] + 1]
  /\ Unsaved(t)
  /\ UNCHANGED row

\* It resumes with an error and shouldRetry: the status in memory stays as it is,
\* the row goes back to pending.  The two UPDATEs share one try block.
ScheduleRetry(s) ==
  LET t == slot[s].task IN
  /\ Settled
  /\ At(s, "failed")
  /\ MayRetry(t)
  /\ attempt' = [attempt EXCEPT ![t] = @ + 1]
  /\ \/ SetRow(t, "pending", attempt[t] + 1)
     \/ LoseWrite(t)
     \/ SaveAttemptOnly(t)
  /\ ArmRetry(t)
  /\ Release(s)
  /\ UNCHANGED <<mem, tasks, cleanupTimer, completedCount, failedCount,
                 paused, concurrency, runningTasks, issued, execs, crashes>>

\* It resumes with an error that is not retried: not retryable, or the last attempt.
Fail(s) ==
  /\ Settled
  /\ At(s, "failed")
  /\ MarkFailed(slot[s].task)
  /\ Release(s)
  /\ UNCHANGED <<attempt, tasks, waiting, retryTimer, completedCount, paused,
                 concurrency, runningTasks, issued, execs, crashes>>

\* The retry delay is over: a new job for the same QueuedTask object.
RetryFires(t) ==
  /\ Settled
  /\ t \in retryTimer
  /\ retryTimer' = retryTimer \ {t}
  /\ Requeue(t)
  /\ UNCHANGED <<mem, attempt, tasks, slot, cleanupTimer, completedCount,
                 failedCount, paused, concurrency, runningTasks, table, history>>

\* The retention time is over: the task leaves the map if it is terminal by now.
CleanupFires(t) ==
  /\ Settled
  /\ t \in cleanupTimer
  /\ cleanupTimer' = cleanupTimer \ {t}
  /\ tasks' = IF mem[t] \in Terminal THEN tasks \ {t} ELSE tasks
  /\ UNCHANGED <<mem, attempt, waiting, slot, retryTimer, completedCount,
                 failedCount, paused, concurrency, runningTasks, table, history>>

-----------------------------------------------------------------------------
\* cancelTask.  executor.cancel aborts and deregisters the task if it is
\* registered.  The job of a pending task stays in p-queue, a retry timer and a
\* run that is not registered are left alone.
Cancel(t) ==
  /\ Settled
  /\ "cancel" \in Env
  /\ t \in tasks
  /\ mem[t] \in Live
  /\ runningTasks' = IF mem[t] = "running" THEN runningTasks \ {t} ELSE runningTasks
  /\ mem' = [mem EXCEPT ![t] = "cancelled"]
  /\ Persist(t, "cancelled")
  /\ ArmCleanup(t)
  /\ UNCHANGED <<attempt, tasks, waiting, slot, retryTimer, completedCount,
                 failedCount, paused, concurrency, issued, execs, crashes>>

\* clear: the waiting jobs, the map and the counters go; the table, the retry
\* timers and what runs stay.
Clear ==
  /\ Settled
  /\ "clear" \in Env
  /\ waiting' = {}
  /\ mem' = [t \in Task |-> IF t \in tasks /\ mem[t] = "pending"
                            THEN "cancelled" ELSE mem[t]]
  /\ tasks' = {}
  /\ cleanupTimer' = {}
  /\ completedCount' = 0 /\ failedCount' = 0
  /\ UNCHANGED <<attempt, slot, retryTimer, paused, concurrency, runningTasks,
                 table, history>>

Pause ==
  /\ Settled
  /\ "pause" \in Env
  /\ ~paused /\ paused' = TRUE
  /\ UNCHANGED <<mem, attempt, tasks, waiting, slot, retryTimer, cleanupTimer,
                 completedCount, failedCount, concurrency, runningTasks, table,
                 history>>

Resume ==
  /\ Settled
  /\ paused /\ paused' = FALSE
  /\ UNCHANGED <<mem, attempt, tasks, waiting, slot, retryTimer, cleanupTimer,
                 completedCount, failedCount, concurrency, runningTasks, table,
                 history>>

\* PUT /queue/concurrency, which may also lower it below what runs.
SetConcurrency(n) ==
  /\ Settled
  /\ "reconfigure" \in Env
  /\ n # concurrency
  /\ concurrency' = n
  /\ UNCHANGED <<mem, attempt, tasks, waiting, slot, retryTimer, cleanupTimer,
                 completedCount, failedCount, paused, runningTasks, table, history>>

\* Fault: getPendingTasks also returns the failed rows.
RestorableOrFailed == {t \in Task : row[t] \in Live \cup {"failed"}}

\* Fault: getPendingTasks leaves the running rows out.
RestorablePending == {t \in Task : row[t] = "pending"}

Restorable == {t \in Task : row[t] \in Live}

\* The process dies at any point and starts again: restorePendingTasks makes a
\* new object and a new job for every row that is pending or running.
CrashRestart ==
  LET restored == Restorable IN
  /\ crashes < MaxCrashes
  /\ crashes' = crashes + 1
  /\ mem' = [t \in Task |-> IF t \in restored THEN "pending" ELSE "none"]
  /\ attempt' = [t \in Task |-> IF t \in restored THEN rowAttempt[t] ELSE 0]
  /\ tasks' = restored
  /\ waiting' = {[task |-> t, kind |-> "first"] : t \in restored}
  /\ slot' = [s \in Slot |-> Idle]
  /\ retryTimer' = {} /\ cleanupTimer' = {} /\ runningTasks' = {}
  /\ completedCount' = 0 /\ failedCount' = 0
  /\ paused' = ~AutoStart
  /\ concurrency' = InitConcurrency
  /\ UNCHANGED <<table, issued, execs, lostWrite>>

-----------------------------------------------------------------------------
StartAny == \E s \in Slot, j \in waiting : Start(s, j)

\* One step of whatever slot s is running.
Advance(s) ==
  \/ Register(s) \/ UnexpectedError(s) \/ Unwatched(s) \/ ExecEnd(s)
  \/ Complete(s) \/ ScheduleRetry(s) \/ Fail(s)

Next ==
  \/ \E t \in Task : Add(t) \/ RetryFires(t) \/ CleanupFires(t) \/ Cancel(t)
  \/ StartAny
  \/ \E s \in Slot : Advance(s)
  \/ Clear \/ Pause \/ Resume
  \/ \E n \in 1 .. Cardinality(Slot) : SetConcurrency(n)
  \/ CrashRestart

Spec == Init /\ [][Next]_vars

\* p-queue starts jobs in the turn that enables them, timers fire, the awaited
\* I/O ends, and TimeoutManager ends an agent that does not end by itself.
\* Nothing obliges a client to add, cancel, clear, pause or resume.
Fairness ==
  /\ WF_vars(StartAny)
  /\ \A s \in Slot : WF_vars(Advance(s))
  /\ \A t \in Task : WF_vars(RetryFires(t)) /\ WF_vars(CleanupFires(t))

FairSpec == Spec /\ Fairness

-----------------------------------------------------------------------------
(* Safety. *)

\* The shapes of the queue's state.  A task never has more retries behind it
\* than its options allow, in memory (task.retryMetadata) or in its row.
TypeOK ==
  /\ mem \in [Task -> Status]
  /\ attempt \in [Task -> Nat] /\ rowAttempt \in [Task -> Nat]
  /\ \A t \in Task : attempt[t] <= MaxRetries[t] /\ rowAttempt[t] <= MaxRetries[t]
  /\ tasks \subseteq Task /\ issued \subseteq Task /\ lostWrite \subseteq Task
  /\ waiting \subseteq Job
  /\ slot \in [Slot -> Run \cup {Idle}]
  /\ retryTimer \subseteq Task /\ cleanupTimer \subseteq Task
  /\ completedCount \in Nat /\ failedCount \in Nat
  /\ paused \in BOOLEAN
  /\ concurrency \in 1 .. Cardinality(Slot)
  /\ runningTasks \subseteq Task
  /\ row \in [Task -> Status]
  /\ execs \in [Task -> Nat]
  /\ crashes \in 0 .. MaxCrashes

Queued(t)  == \E j \in waiting : j.task = t
Holds(s, t) == slot[s] # Idle /\ slot[s].task = t

\* Something will continue t (the slot of a run that only unwatches will not).
Carried(t) ==
  Queued(t) \/ t \in retryTimer \/ \E s \in Slot : Holds(s, t) /\ ~At(s, "unwatching")

\* At most one thing will ever continue a task: one job in p-queue, one run in
\* a slot or one retry timer, whatever was cancelled, cleared or restarted in
\* between.  Otherwise two agents work in the same directory under one task id.
SingleExecution ==
  /\ \A j, k \in waiting : j.task = k.task => j = k
  /\ \A r, s \in Slot, t \in Task : Holds(r, t) /\ Holds(s, t) => r = s
  /\ \A s \in Slot, t \in Task : Holds(s, t) => ~Queued(t) /\ t \notin retryTimer
  /\ \A t \in retryTimer : ~Queued(t)

\* A task the API shows as pending or running has something that will continue
\* it; retries wait outside p-queue, and cancel, clear and restart each rebuild
\* part of that state.
NoLostTask == \A t \in tasks : mem[t] \in Live => Carried(t)

\* executeCore tells a cancellation from a timeout by asking whether the task is
\* still in runningTasks.  That is sound: a run that has left the map while its
\* agent works was cancelled, and the map holds nothing but such runs.
AbortMeansCancelled ==
  /\ \A t \in runningTasks : \E s \in Slot : At(s, "executing") /\ slot[s].task = t
  /\ \A s \in Slot : At(s, "executing") /\ slot[s].task \notin runningTasks
                       => mem[slot[s].task] = "cancelled"

\* With cleanup enabled no finished task stays in memory for ever: it is in the
\* map only while a cleanup timer is pending for it, even when it was cancelled,
\* ran all the same and finished again.
CleanupArmed ==
  CleanupEnabled => \A t \in tasks : mem[t] \in Terminal => t \in cleanupTimer

\* Unless a write was lost, the table agrees with memory on every task of the
\* map, except while it waits for a retry (which the code also schedules for a
\* task that was cancelled) or for its first run after a restart: so no task that
\* completed or failed is run again by the next process, and none is missed.
RowAgrees ==
  \A t \in tasks \ lostWrite :
    \/ row[t] = mem[t]
    \/ mem[t] \in {"running", "cancelled"} /\ row[t] = "pending"
         /\ (t \in retryTimer \/ Queued(t))
    \/ mem[t] = "pending" /\ row[t] = "running" /\ Queued(t)

\* An end is counted once: completedCount and failedCount of getStats together
\* never exceed the tasks of this process that nothing will continue.
CountedOnce ==
  completedCount + failedCount
    <= Cardinality({t \in Task : mem[t] # "none" /\ ~Carried(t)})

\* The agent is started at most once per attempt and once more per crash.
ExecutionsBounded ==
  \A t \in Task \ lostWrite : execs[t] <= 1 + MaxRetries[t] + crashes

(* Action properties. *)

\* A task cancelled during its run, whose agent then reports the abort, stays
\* cancelled for as long as the queue has it: tests/unit/cancellation.test.ts:182
\* expects this once the cancellation has propagated.  The code does not do it.
CancelIsFinal ==
  [][\A s \in Slot :
       LET t == slot[s].task IN
       At(s, "failed") /\ mem[t] = "cancelled" /\ t \in tasks'
         => mem'[t] = "cancelled"]_vars

\* A run that the executor reports as successful completes its task, with any
\* outputFormat the routes accept (agents/types.ts:126 says the Claude executor
\* supports them).  A JSON result breaks this: the queue logs an output that the
\* SDK client never returns, and the TypeError makes the task fail.
SuccessCompletes ==
  [][\A s \in Slot :
       At(s, "succeeded") /\ ~At(s, "succeeded")' /\ UNCHANGED crashes
         => mem'[slot[s].task] = "completed"]_vars

(* Refinement. *)

\* Without cancellation and lost writes the rows of the table behave as
\* TaskLifecycle promises, across clear, pause and crashes.
Lifecycle == INSTANCE TaskLifecycle WITH state <- row, tries <- rowAttempt
ImplementsLifecycle == Lifecycle!Spec

(* Liveness. *)

\* Every row that is pending or running ends in a terminal status and keeps it,
\* with cancellations (however often they are overwritten) and crashes.
SettlesForGood == \A t \in Task : row[t] \in Live ~> [](row[t] \in Terminal)
=============================================================================
