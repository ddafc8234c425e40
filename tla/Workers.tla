------------------------------ MODULE Workers ------------------------------
(***************************************************************************)
(* The managed mode: the server forks worker processes, restarts the ones  *)
(* that exit and stops them at shutdown (worker/worker-manager.ts,         *)
(* routes/workers.ts, setup/worker-mode.ts, setup/graceful-shutdown.ts); a *)
(* worker is a queue over the shared tasks table with a poll for failed    *)
(* tasks (worker/task-worker.ts, worker/retry-worker.ts).                  *)
(*                                                                         *)
(* A queue takes the live rows when it is constructed and never again, so  *)
(* a task submitted later waits for the next start of a worker.            *)
(***************************************************************************)
EXTENDS Integers, FiniteSets, Functions

CONSTANTS
  Worker,       \* worker ids
  Managed,      \* those started with the server
  Job,          \* task ids
  MaxRestarts,  \* options.maxRestarts
  MaxStarts,    \* bound on POST /api/workers per id
  MaxExits,     \* bound on crashes of workers
  MaxPolls      \* the number of poll timers from which they are no longer counted

NoEntry == -1
JobRow  == {"none", "pending", "running", "failed", "ended"}

ASSUME WorkersAssumption ==
  /\ IsFiniteSet(Worker) /\ Managed \subseteq Worker
  /\ MaxRestarts \in Nat \ {0} /\ MaxStarts \in Nat /\ MaxExits \in Nat
  /\ MaxPolls \in Nat \ {0}

VARIABLES
  manager,       \* "up", "stopping" (isShuttingDown) or "exited"
  workers,       \* the map: restartCount of the entry, or NoEntry
  process,       \* "none", "up" or "draining" (SIGTERM received)
  restartTimer,  \* how many restart timers carry the count n
  killTimer,     \* workers a stopWorker waits for with a 30 s timer
  awaited,       \* those among them the shutdown waits for
  jobRow,        \* tasks.status; "failed" has attempts left, "ended" has not
  waiting, busy, \* tasks in the queue of a worker process
  polls,         \* poll timers of its RetryWorker
  starts, forks, \* requested starts, and processes forked
  lateForks,     \* workers forked after the shutdown had begun
  exits

wmManager == <<manager, workers, restartTimer, killTimer, awaited>>
wmQueues  == <<jobRow, waiting, busy, polls>>
wmCounts  == <<starts, forks, lateForks, exits>>
wmVars    == <<wmManager, process, wmQueues, wmCounts>>

LiveRows(rows) == {j \in Job : rows[j] \in {"pending", "running"}}

WorkersInit ==
  /\ manager = "up"
  /\ workers = [w \in Worker |-> IF w \in Managed THEN 0 ELSE NoEntry]
  /\ process = [w \in Worker |-> IF w \in Managed THEN "up" ELSE "none"]
  /\ restartTimer = [w \in Worker |-> [n \in 1 .. MaxRestarts |-> 0]]
  /\ killTimer = {} /\ awaited = {}
  /\ jobRow \in [Job -> {"none", "pending"}]
  /\ waiting = [w \in Worker |-> IF w \in Managed THEN LiveRows(jobRow) ELSE {}]
  /\ busy = [w \in Worker |-> {}]
  /\ polls = [w \in Worker |-> IF w \in Managed THEN 1 ELSE 0]
  /\ starts = [w \in Worker |-> IF w \in Managed THEN 1 ELSE 0]
  /\ forks = starts
  /\ lateForks = {} /\ exits = 0

-----------------------------------------------------------------------------
(* WorkerManager *)

\* startWorker: fork unless the id is in the map; also during a shutdown.  The
\* new process restores the live rows.  The fork may fail with an error event,
\* which leaves the entry without a process.
Fork(w, count, spawned) ==
  /\ workers' = [workers EXCEPT ![w] = count]
  /\ forks' = [forks EXCEPT ![w] = @ + 1]
  /\ lateForks' = IF manager = "stopping" THEN lateForks \cup {w} ELSE lateForks
  /\ process' = [process EXCEPT ![w] = IF spawned THEN "up" ELSE "none"]
  /\ waiting' = [waiting EXCEPT ![w] = IF spawned THEN LiveRows(jobRow) ELSE {}]
  /\ polls' = [polls EXCEPT ![w] = IF spawned THEN 1 ELSE 0]

\* POST /api/workers.
StartWorker(w, spawned) ==
  /\ manager # "exited"
  /\ workers[w] = NoEntry
  /\ starts[w] < MaxStarts
  /\ starts' = [starts EXCEPT ![w] = @ + 1]
  /\ Fork(w, 0, spawned)
  /\ UNCHANGED <<manager, restartTimer, killTimer, awaited, jobRow, busy, exits>>

\* Fault: no timer for a worker that gets no SIGTERM.
TimedIfUp(ws) == killTimer \cup {w \in ws : process[w] = "up"}

\* The SIGKILL timers once ws are stopped, also of entries without a process.
Timed(ws) == killTimer \cup ws

\* DELETE /api/workers/:id, and what shutdown does with every id: SIGTERM, and
\* SIGKILL after 30 s.
SigTerm(ws) ==
  /\ process' = [w \in Worker |-> IF w \in ws /\ process[w] = "up" THEN "draining"
                                  ELSE process[w]]
  /\ killTimer' = Timed(ws)

StopWorker(w) ==
  /\ manager # "exited"
  /\ workers[w] # NoEntry
  /\ SigTerm({w})
  /\ UNCHANGED <<manager, workers, restartTimer, awaited, wmQueues, wmCounts>>

\* Fault: a restarted worker counts as a fresh one.
CountOf(w) == 1

\* The count the restart after an exit of w carries.
NextRestart(w) == workers[w] + 1

\* The exit handler: without an entry nothing; the next start is armed unless
\* the limit is reached or the shutdown began.  An exit on request counts too.
ArmRestart(w) ==
  IF manager = "up" /\ workers[w] < MaxRestarts
  THEN [restartTimer EXCEPT ![w][NextRestart(w)] = @ + 1]
  ELSE restartTimer

Gone(w) ==
  /\ process' = [process EXCEPT ![w] = "none"]
  /\ waiting' = [waiting EXCEPT ![w] = {}]
  /\ busy' = [busy EXCEPT ![w] = {}]
  /\ polls' = [polls EXCEPT ![w] = 0]
  /\ IF manager = "exited" THEN UNCHANGED wmManager
     ELSE /\ restartTimer' = ArmRestart(w)
          /\ workers' = [workers EXCEPT ![w] = NoEntry]
          /\ killTimer' = killTimer \ {w} /\ awaited' = awaited \ {w}
          /\ UNCHANGED manager

\* A worker dies, or ends its drain: when its queue is idle, or after 60 s, with
\* the jobs that wait or run given up and their rows as they are.
WorkerExits(w) ==
  /\ process[w] # "none"
  /\ \/ process[w] = "draining" /\ UNCHANGED exits
     \/ process[w] = "up" /\ exits < MaxExits /\ exits' = exits + 1
  /\ Gone(w)
  /\ UNCHANGED <<jobRow, starts, forks, lateForks>>

\* The 30 s of stopWorker are over.
KillFires(w) ==
  /\ manager # "exited"
  /\ w \in killTimer
  /\ IF process[w] # "none" THEN Gone(w)
     ELSE /\ killTimer' = killTimer \ {w} /\ awaited' = awaited \ {w}
          /\ UNCHANGED <<manager, workers, restartTimer, process, waiting, busy, polls>>
  /\ UNCHANGED <<jobRow, wmCounts>>

\* A restart timer fires, also during a shutdown: startWorker, then the count of
\* whatever entry there is is overwritten.
RestartFires(w, n, spawned) ==
  /\ manager # "exited"
  /\ restartTimer[w][n] > 0
  /\ restartTimer' = [restartTimer EXCEPT ![w][n] = @ - 1]
  /\ IF workers[w] = NoEntry THEN Fork(w, n, spawned)
     ELSE /\ workers' = [workers EXCEPT ![w] = n]
          /\ UNCHANGED <<process, waiting, polls, forks, lateForks>>
  /\ UNCHANGED <<manager, killTimer, awaited, jobRow, busy, starts, exits>>

\* Fault: only the workers started with the server are stopped.
ManagedInMap == {w \in Managed : workers[w] # NoEntry}

\* stopAllWorkers: the ids in the map.
InMap == {w \in Worker : workers[w] # NoEntry}

\* gracefulShutdown on SIGTERM or SIGINT.
BeginShutdown ==
  /\ manager = "up"
  /\ manager' = "stopping"
  /\ SigTerm(InMap)
  /\ awaited' = InMap
  /\ UNCHANGED <<workers, restartTimer, wmQueues, wmCounts>>

\* The server exits once every stop it waits for is done, or on a second signal,
\* whose shutdown returns at once.
ServerExits(signalled) ==
  /\ manager = "stopping"
  /\ signalled \/ awaited = {}
  /\ manager' = "exited"
  /\ UNCHANGED <<workers, restartTimer, killTimer, awaited, process, wmQueues, wmCounts>>

-----------------------------------------------------------------------------
(* TaskWorker and RetryWorker *)

\* POST /api/tasks: the row, and the paused queue of the server.
SubmitJob(j) ==
  /\ manager # "exited"
  /\ jobRow[j] = "none"
  /\ jobRow' = [jobRow EXCEPT ![j] = "pending"]
  /\ UNCHANGED <<wmManager, process, waiting, busy, polls, wmCounts>>

StartJob(w, j) ==
  /\ process[w] = "up"
  /\ j \in waiting[w]
  /\ waiting' = [waiting EXCEPT ![w] = @ \ {j}]
  /\ busy' = [busy EXCEPT ![w] = @ \cup {j}]
  /\ jobRow' = [jobRow EXCEPT ![j] = "running"]
  /\ UNCHANGED <<wmManager, process, polls, wmCounts>>

EndJob(w, j, status) ==
  /\ j \in busy[w]
  /\ busy' = [busy EXCEPT ![w] = @ \ {j}]
  /\ jobRow' = [jobRow EXCEPT ![j] = status]
  /\ UNCHANGED <<wmManager, process, waiting, polls, wmCounts>>

\* Fault: the next poll is scheduled by empty polls only.
PollsAfterOnlyEmpty(n, empty) == IF empty THEN n + 1 ELSE n - 1

\* The timers after one of n fired: an empty poll schedules the next in its body
\* and again in its finally block.
PollsAfter(n, empty) ==
  IF empty /\ n < MaxPolls THEN n + 1 ELSE n

\* pollForRetryableTasks: every failed task is added again under a new id and its
\* own row goes back to pending, with nobody to run it.
Poll(w) ==
  LET failed == {j \in Job : jobRow[j] = "failed"} IN
  /\ process[w] = "up" /\ polls[w] > 0
  /\ \E id \in Injection(failed, {j \in Job : jobRow[j] = "none"}) :
       LET new == {id[j] : j \in failed} IN
       /\ jobRow' = [j \in Job |-> IF j \in failed \cup new THEN "pending" ELSE jobRow[j]]
       /\ waiting' = [waiting EXCEPT ![w] = @ \cup new]
  /\ polls' = [polls EXCEPT ![w] = PollsAfter(@, failed = {})]
  /\ UNCHANGED <<wmManager, process, busy, wmCounts>>

WorkersNext ==
  \/ \E w \in Worker :
       \/ \E spawned \in BOOLEAN : StartWorker(w, spawned)
       \/ StopWorker(w) \/ WorkerExits(w) \/ KillFires(w) \/ Poll(w)
       \/ \E n \in 1 .. MaxRestarts, spawned \in BOOLEAN : RestartFires(w, n, spawned)
       \/ \E j \in Job :
            \/ StartJob(w, j)
            \/ \E status \in {"ended", "failed"} : EndJob(w, j, status)
  \/ \E j \in Job : SubmitJob(j)
  \/ BeginShutdown
  \/ \E signalled \in BOOLEAN : ServerExits(signalled)

WorkersSpec == WorkersInit /\ [][WorkersNext]_wmVars

\* Timers fire; nothing is assumed of the agents nor of a worker told to stop.
WorkersFairness ==
  /\ \A w \in Worker : WF_wmVars(KillFires(w))
  /\ WF_wmVars(ServerExits(FALSE))

-----------------------------------------------------------------------------
\* The shapes of the manager's and the workers' state.
WorkersTypeOK ==
  /\ manager \in {"up", "stopping", "exited"}
  /\ workers \in [Worker -> {NoEntry} \cup 0 .. MaxRestarts]
  /\ process \in [Worker -> {"none", "up", "draining"}]
  /\ restartTimer \in [Worker -> [1 .. MaxRestarts -> Nat]]
  /\ killTimer \subseteq Worker /\ awaited \subseteq Worker
  /\ jobRow \in [Job -> JobRow]
  /\ waiting \in [Worker -> SUBSET Job] /\ busy \in [Worker -> SUBSET Job]
  /\ polls \in [Worker -> Nat]
  /\ starts \in [Worker -> Nat] /\ forks \in [Worker -> Nat]
  /\ lateForks \subseteq Worker /\ exits \in Nat

\* A worker that keeps exiting is restarted at most maxRestarts times per start
\* that was asked for, although a restart timer outlives its worker, meets a
\* process started by hand and overwrites its count.
RestartsBounded ==
  \A w \in Worker : forks[w] <= starts[w] * (MaxRestarts + 1)

\* Once the server exited, the worker processes left are on their way out, but
\* for those forked after the shutdown had begun (by a restart timer or a
\* request), which nobody stops.
ShutdownStopsWorkers ==
  manager = "exited" =>
    \A w \in Worker : process[w] = "up" => w \in lateForks

\* A process that is up or draining while the server lives is in the map, so
\* that it can be seen and stopped; and a worker at work has a poll ahead.
WorkersReachable ==
  \A w \in Worker : process[w] # "none" =>
    /\ manager # "exited" => workers[w] # NoEntry
    /\ process[w] = "up" => polls[w] > 0

\* No worker process is out of reach, while the server lives or after it, but for
\* those forked too late.
NoWorkerEscapes == WorkersReachable /\ ShutdownStopsWorkers

\* The shutdown of the server ends, whatever the workers do with their SIGTERM
\* and although workers are stopped and started meanwhile.
ShutdownEnds == manager = "stopping" ~> manager = "exited"
=============================================================================
