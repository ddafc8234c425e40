# Verification of cc-anywhere

TLA+ models, TLC checks and TLAPS proofs for the backend of cc-anywhere
(`src/backend/src`, TypeScript on Node): a server that accepts coding tasks over
HTTP, runs agents (Claude, codex, gemini) on them, retries, cancels, groups,
schedules and compares them, and keeps their state in SQLite. Paths below are
relative to `src/backend/src`.

## The system

| component | state it keeps | operations | talks to |
|---|---|---|---|
| task queue `queue/task-queue.ts` | `tasks` map, p-queue, retry and cleanup timers, counters | `add`, `executeTask`, `cancelTask`, `clear`, `start`, `pause`, concurrency setter, `restorePendingTasks` | executors, table, event bus |
| tasks table `repositories/task-repository-adapter.ts` | one row per task: status, retry metadata, result | `create`, `updateStatus`, `updateRetryMetadata`, `resetTaskForRetry`, `getPendingTasks` | every queue of every process |
| Claude executor `claude/executor.ts` | `runningTasks`: task id to AbortController | `execute`, `cancel` | SDK client, `services/timeout-manager.ts`, worktrees |
| codex and gemini executors `agents/*-task-executor-adapter.ts`, `agents/*-agent-executor.ts` | a registry each, created lazily; the imported SDKs | `execute`, `cancel`, the loops over events and turns | SDK of the agent |
| strategies `claude/strategies/*.ts`, chat client `chat/chat-sdk-client.ts`, `utils/cwd-mutex.ts` | `process.env`, `process.cwd()`, the chain of callbacks | run a query, switch the mode | SDK |
| retry service `services/retry-service.ts` | none | `shouldRetry`, delays, metadata | queue |
| retry worker, task worker `worker/*.ts` | poll timer, a queue of its own | poll, re-add, drain and stop | table, queue |
| worker manager, worker mode `worker/worker-manager.ts`, `server/setup/worker-mode.ts` | child processes, restart timers | start, restart, shut down | child processes |
| task groups `services/task-group-executor.ts`, `task-group-store.ts`, `repositories/task-group-history-repository.ts` | results of running groups, the records clients see, the tables `task_groups` and `task_group_tasks` | validate, plan, execute stages, cancel, clean up, reload | Claude executor |
| scheduler `services/scheduler-service.ts` | schedules in memory and in the table, cron jobs | create, update, delete, start, stop, execute | queue |
| compare `services/compare/compare-service.ts` | comparison rows | create, cancel, update from task events, clean up | queue, worktrees, event bus |
| worktrees `services/worktree/*.ts` | git worktrees and a metadata file | create, remove, list, clean up | git, file system |
| log stream `websocket/websocket-server.ts`, frontend `stores/websocket-enhanced.svelte.ts` and its hook | clients and subscriptions; on the page a queue, a status and a reconnect timer | connect, authenticate, subscribe, heartbeat, reconnect | queue and file watcher |
| chats `server/routes/chat.ts`, `session/*.ts`, frontend `utils/websocket-chat.ts` | chat rows, the pool of agent sessions, fork tokens; on the page the message under way | send, repeat, resume, detach, terminate, evict, fork | SDK |
| file watching `services/file-watcher.service.ts`, `file-cache.service.ts` | a watcher per repository, the cache of contents | watch, unwatch, tell, evict | file system, websocket server |
| repository explorer, frontend `components/repository-explorer/` and its stores | on the page the tree, the file shown, the files on record as deleted | open, select, reload, close | file watching, its routes |
| timeouts `services/timeout-manager.ts` | the clocks of a run and of its phase | transition, warn, abort, dispose | Claude executor |
| shutdown `server/setup/graceful-shutdown.ts` | none | drain with a timeout, then clear | queue, scheduler, workers |

What is hard: everything runs on one event loop, so the interleavings are those
of the code between awaits, timers and callbacks; the tasks table outlives the
process and is trusted by the next one; writes to it may fail and are only
logged; runs, retries and cancellations of one task overlap. What makes each part correct:

- queue: one execution of a task at a time, no accepted task forgotten, memory
  and table agree, a task ends once and for good, bounded re-execution;
- executor: cancellation and timeout are told apart;
- task groups: what cannot be ordered is refused, a task runs after all it depends
  on, a session is handed down, the final status follows from the tasks', the tables
  agree with what clients saw;
- scheduler: a job for every active schedule and none for another, a one-time task once
  and at its time;
- compare: how far the limit can be passed, a derived status that is true, no worktree
  without a comparison, an end of every comparison;
- worktrees: how far the limit can be passed, none left behind, a file that lists them;
- workers: bounded restarts, none out of reach, none forgotten by the shutdown, which ends;
- timeouts: no run outlives its limits and none is stopped within them;
- chats: one conversation per chat and one chat per agent session, a pool that finds its
  sessions, a turn that is shown to an end;
- execution: a session starts with the credentials and in the directory of its own run, an
  aborted run stops soon and does not succeed, the registries list what runs;
- file watching and explorer: the cache is counted and current, the last word on a file is true, what
  a page shows is present or marked;
- log stream: a page gets the logs of the task it shows, and of no other, again after
  every loss; abandoned connections go.

`PROJECT.json` lists the hazards line by line, with the properties that cover them.

## Modules

| module | what it is |
|---|---|
| `TaskQueue` | the queue with the part of the table, of the executor and of p-queue it shares state with |
| `TaskLifecycle` | the abstract life of a task that nobody cancels, as `GET /tasks/:id` shows it |
| `MCTaskQueue` | instances for TLC; the `TaskQueue*.cfg` files are its runs |
| `TaskQueueProofs` | its types, every safety invariant and the implementation of `TaskLifecycle` |
| `TaskGroup` | task groups: plan, stages, the store and its tables |
| `MCTaskGroup` | instances for TLC; the `TaskGroup*.cfg` files are its runs |
| `TaskGroupProofs` | types, plan, order and end of a group, the sessions it hands down, and its history |
| `Scheduler` | the scheduler, its tables, its routes and the handler that adds the task |
| `Compare` | comparisons: creation, derived status, cancel, clean-up |
| `Worktrees` | the worktrees of the Claude executor and their metadata file |
| `Workers` | the worker manager, the worker processes and the retry poll |
| `Timeouts` | the two clocks of a run |
| `ChatSessions` | a chat: page, connection, pool of agent sessions, fork tokens |
| `LogStream` | the log stream: page, network, server |
| `MCServer` | instances of these seven; `Server*.cfg` and `CompareCancel.cfg` are its runs |
| `ProcessEnv` | the environment and the working directory that Claude's sessions are started through |
| `AgentRuns` | codex and gemini: adapters, registries, loops, cancellation |
| `FileCache` | the cache of file contents and the events about files |
| `Explorer` | the repository explorer's pages and the watcher they share |
| `MCHost` | instances of these four; `HostSafety.cfg` is its run |
| `SchedulerProofs`, `CompareProofs`, `WorkersProofs`, `ChatSessionsProofs` | type correctness and the safety properties of the four |
| `ServerProofs` | the same for `Timeouts`, `Worktrees` and `LogStream`; the composition of the seven |
| `HostProofs` | the same for `ProcessEnv`, `AgentRuns`, `Explorer` and `FileCache`; the composition of the four |

### TaskQueue: state and actions

`mem` and `attempt` are `status` and `retryMetadata.currentAttempt` of the
`QueuedTask` object; the object outlives its entry in `tasks`, because a closure
in p-queue or a retry timer holds it. `waiting` and `slot` are p-queue's queue
and its running jobs; `retryTimer` and `cleanupTimer` the pending `setTimeout`s;
`runningTasks` the executor's registry; `row` and `rowAttempt` the table.
`issued`, `execs`, `lostWrite` and `crashes` are history that only properties
and bounds use.

An action is the code between two points where control returns to the event
loop. An await of a promise that is resolved already is a microtask: no
request and no timer gets in between, so the database error handler's await is
not a boundary. `executeTask` is cut where it really waits:

| phase of a slot | where `executeTask` is | left by |
|---|---|---|
| `starting` | path validation, watcher, lazy import (250-316) | `Register`, `UnexpectedError` |
| `executing` | inside the agent, registered | `ExecEnd` |
| `succeeded`, `failed` | the agent has ended and `executeCore` has deregistered the task, its own clean-up is still awaited | `Complete`, `UnexpectedError`; `ScheduleRetry`, `Fail` |
| `unwatching` | `unwatchRepository` in the catch block | `Unwatched` |

p-queue starts a job inside the turn that makes it startable. `Settled` says
that no job can be started, and every other action but a crash waits for it. The
order among equal priorities is left open. The highest waiting priority goes first.

A write may fail at any of its places: the error is logged and the program goes
on (`LoseWrite`). The two UPDATEs of a retry share one try block, so the first may
succeed alone (`SaveAttemptOnly`). `CrashRestart` kills the process at any point,
between a write to memory and one to the table included in so far as the code
yields there, and builds the state the constructor builds from the rows.

Modelled by choice: which errors are retryable, the agent's outcome, whether an
abort was noticed (an agent that sends its last message first ends in success).
`JsonOutput` names the Claude tasks that ask for a JSON result.

Not modelled: progress data, results, events and their handlers (the queue calls
them inside try blocks or ignores their promise); the codex and gemini adapters'
own registries and the await of their first import inside `cancelTask`, which are
`AgentRuns`'; the retry delays; `RetryHandler`, which retries when `executeCore` throws, which it
never does; the branch of the queue for the error "Task was cancelled", for the
same reason.

### TaskGroup: state and actions

A client sends a group of tasks with dependencies between them. `execute()` stores
and saves it, validates it, cuts it into stages and runs the stages one after
the other, the tasks of a stage at a time.

`done`, `stage`, `stageNo`, `sessionId` are the local variables of `execute()`
(`buildExecutionPlan` computes all stages beforehand; a stage depends only on those
before it, so the model computes it when it starts). `status`, `task`,
`completedTasks` are the result object, which the store's record shares: what
`GET /task-groups/:id` shows. `active` is the entry of `activeGroups`, a shallow
copy while the group runs. `groupRow` and `taskRow` are the tables; the key of
the latter is the client's task id alone. `where` says whether this process executes
the group, has executed it, or has only its rows. `returned`, `resumed` and `erred`
record what agents answered, for the properties.

| action | code |
|---|---|
| `Execute` | `POST /task-groups/execute`: store, save, validate; a refused group fails at once |
| `StartStage` | the loop over the stages with the first half of `executeTask` for each task |
| `TaskEnd` | the second half of `executeTask`: the agent returned |
| `FailGroup`, `CompleteGroup` | the `catch` block and the end of the `try` block |
| `Cancel`, `Cleanup` | `DELETE /task-groups/:id`, `POST /task-groups/cleanup` |
| `Restart` | the process dies anywhere; `loadRecentHistory` |

Between two agents `execute()` waits for nothing, so all it does there is one turn of
the event loop; `Settled` makes the other actions wait, a crash excepted.
`executeCore` never rejects, so the only task that fails is one whose
instruction is blank (whitespace passes the route's `minLength`); a failed agent
counts as completed (see the violation below).

`HasCycle` is the depth-first search of `hasCircularDependencies`. A `Mark` is a loop of it under
way: the ids it has still to visit, the visited set and the recursion stack; `Visit` does one id
and leaves the rest to the recursive function. It is checked and proved against the definition
(`Orderable`), and the stages against the depth of the tasks.

`Cancel` changes nothing but the shallow copy: the group runs on, the next step
replaces the copy, and the record clients read never says cancelled. It is
an action so that everything is checked with it. A restored group that was running
stays so for ever: nothing resumes or closes it.

Left out: `result.sessionId` and percentages, log lines and broadcasts, `delete` and
`clear` of the store (no caller), the 24 hours and 100 groups `loadRecentHistory` is
limited to. Task ids are unique in a request (two of the same make the plan throw).
`maxParallel` and `mode` are stored and shown but decide nothing in the code.

The store writes its tables in the turn in which `execute()` moves on, by statements that
commit one by one; a failure of any is only logged (`services/task-group-store.ts:151`, 185, 268, 313).
So each of them may be lost: `Save` (the transaction, or the UPDATE of the status after it), `Finish`,
and in `Progress` the status of any task and the progress of the group, which
is written once per task that starts or ends (`RowProgress`). A process that dies in the middle of
a turn loses the rest of its statements, which is such a turn followed by `Restart`.
`lostGroup` and `lostTask` record what a row misses. `HistoryAgrees` says that a row that misses
nothing is what clients are shown, and that what was lost leaves the tables behind the records of the process and
never ahead of them (`RowsAreBehind`).

### The other parts of the server

better-sqlite3 is synchronous: a function whose only awaits are repository calls yields to
nothing but its own continuation and is one action. Where the code awaits git, a child
process, a socket or an agent, the action ends.

**Scheduler.** `schedules` and `cronJobs` are the two maps, `scheduleRow`, `executeAt`,
`badExpression` and `sessionCount` the tables. A statement may fail (`SchedFault`); the
action says what the code had done by then. When the reading or the reset of a session's count fails
and its increment does not, the count passes `maxSessionExecutions` (`CountAfterFailure`,
`services/scheduler-service.ts:397-420`, 481): by one for every execution of which a statement failed, as
`SchedTypeOK` says. `JobAfter` and `JobDue` are `startScheduleJob`:
no job for a time that has passed, and a delay beyond what `setTimeout` holds fires at once.
`unarmed` names the schedules whose last request failed half-way or only re-read the row:
the code shows them as active and never runs them. A bad cron expression is stored before
it is parsed, and the next start of the process then fails: `StartScheduler` is not enabled.
The handler's session counter is lost with the process while its column is not.

**Compare.** `request` is where `createCompareTask` waits; `child`, `childRow`, `job`,
`working` are the queue as the comparison sees it (a task's status in memory and in the
table, its job, its agent). `RowAfter` is `updateCompareTaskStatus`. The clean-up and the
rollback go through `toRemove`, one git call at a time. Every write may fail: the queue only logs it
for a task (`unwritten`), and so does `server/routes/compare.ts:71` for the row of the comparison
(`torn`). `ClearQueue` is `POST /api/queue/clear`, which drops tasks and tells no comparison
(`cleared`). The retention timer of a cancelled task does not look whether its job or run is
left. `RestartCompare` dies between two steps or in the middle of one: of the end or the
removal of a task (`EndCut`, `RemovalCut`: its row is written and that of the comparison is not), of a
cancel (`CancelCut`, between the UPDATEs at `compare-service.ts:346` and 365), of a creation
(`CreationCut`). Nothing derives the status again afterwards: a comparison whose row missed the
end of its last task, whose queue was cleared, or one of whose tasks never ends in the table,
stays running and counts for ever; so does one that stopped at `cancelling`. `leftover` are
the worktrees nobody will remove: their removal failed, the process died before it or during the creation, or the INSERT of
the comparison failed (211), which throws after the tasks were added.

**Worktrees.** `wtPc` is where the task is between the awaits of `createWorktree` and
`removeWorktree`; `wtSnapshot` what it read of the file. `OpenMetadata` and `WriteMetadata`
are the truncation and the writing of the file, between which another task may read
nonsense (`Garbled`), which the code takes for an empty file.

**Workers.** `workers` is the map with the restart count, `restartTimer` and `killTimer` its
timers, `process` the operating system's view. `waiting`, `busy`, `polls` are a worker's
queue and its polls: what it restored at its start and what its poll re-added. A submitted
task waits until a worker starts (the queue of the server is paused in this mode, and a
worker reads the rows once), although `server/setup/worker-mode.ts:35` logs that tasks "will be
queued for external workers". An empty poll schedules the next one twice, so their number
grows; beyond `MaxPolls` it is no longer counted. A failed task that the poll re-adds goes
back to pending under its own id too, and a task that is running in one worker is restored
by another that starts: no text of the repository promises otherwise. `DELETE
/api/workers/:id` stops a worker that is then restarted like a crashed one.

**Timeouts.** `timers` holds the names with the times they are due; `TimerFires` may be late,
and a transition may come first. The total timeout is not armed again by a transition that
comes when it is due and has not fired (`spent`).

**ChatSessions.** A connection carries one message; `socket` is its life between page and
server, `copy` the agent session the handler read when it opened, `managed` the session
object it made. `pool` is indexed by the agent's id; a resumed session enters over what is
there, and `detach` removes whatever is there. The id of a new session is written to the row twice: when
the stream shows it, in a `try` whose `catch` is empty (`session/v2-session-runtime.ts:91-99`), and at the
end of the turn if the connection's copy is another one (`server/routes/chat.ts:1018`). Either may fail
(`WriteId`); when both do, the row names no session and the next turn is a first one again. A turn
has no timeout; one that waits for a directory that cannot be had is `stuck` (`ReceiveStuck`, see
`ProcessEnv`). After `detach` the pool no longer knows a
session, so that eviction (which `routes/sessions-v2.ts:145-149` announces) rarely meets one.

**LogStream.** `current`, `connected`, `isAuthenticated`, `messageQueue`, `shown` are the
page; `pageEnd`, `serverEnd`, `toServer`, `successes`, `dead` the connections, each used
once; `clients`, `authenticated`, `subscriptions`, `authTimeout` the server. That a teardown
of a Svelte effect reads the values from before the change is an assumption about the
framework (`HookTornDown`). `connect()` calls `disconnect()`, which resets the attempts:
the limit and the growing delay never apply. A `connect()` while another one is under way
orphans the first, which the authentication timer ends. After a clean close the page does
not reconnect (`gaveUp`). The list's subscription to all tasks is made once and lost with
its connection.

`MCServer` composes the seven. They share no state with each other (what a comparison or a
worker sees of the queue is its own abstraction of it), so a behaviour takes one part
through its steps and leaves the others at rest: the product would add states and no
interleaving that could matter. Two parts are split where two bounds would multiply:
one schedule with all faults and restarts, and several in one process; one comparison with a removal or
a fault and a restart, and three that compete for the limit; several idle workers, and one with tasks;
three connections of one chat, and two beside forks.

### The ways an agent is run, and its files

**ProcessEnv.** `env` is `process.env` as far as the strategies and the chat client write it
(`KEY` is `CLAUDE_API_KEY`, `BEDROCK` is `CLAUDE_CODE_USE_BEDROCK`; the AWS variables go the
way of the latter), `saved` what a run or turn found, `given` what its session was constructed
with. `Begin` is the code up to `withCwd`, `Construct` the callback at the head of the chain,
`Finish` the end of the stream with the `finally` block. `PutBack` keeps a difference of the
code: the strategy for a key does not remove `BEDROCK` when it found none. A strategy copies the
environment before it waits for the directory and a turn in the callback, so a turn may start
with what a run has set in between; nothing promises otherwise, and `SessionsAsAsked` speaks of
runs. Runs that overlap may put back what another had set, so that the environment is left
changed when all are over. `RestoredUnlessMixed` says when it is not: if none overlapped, or if a key
was configured and Bedrock's strategy never used. Two overlapping turns without a configured key
suffice to leave one behind: the second finds the text "undefined" that the first assigned. If the server's
directory is gone (`ConstructThrows`), either `process.cwd()` throws, which is called outside the `try`, or, as
Node may remember its value, the change back does, in the `try` and again in the `catch` (`utils/cwd-mutex.ts:18`, 21),
which leaves the process in the directory of a run, with the session made or not. The
chain stays rejected (`broken`) and its promises never settle; a run that asks for no directory goes past it and starts
where the process is. The rejection is handled by nobody: Node's default ends a server over it, a worker's
handler shuts it down (`worker/task-worker.ts:83`), and where the default is changed the process lives
on; the model lets it live on, which includes all that happens before an end. A constructor that fails without a directory is
left out; it ends as a failing callback does.

**AgentRuns.** `run` is where the run of a task is: `preparing` and `importing` in the queue, then
in an adapter (`home`). `kept` is the adapter the queue has, `registry` the `runningTasks` of all
adapters, `stopping` the signals. Every task that awaited the first import creates an adapter of
its own in place of the last, and so does a cancellation (`CancelImported`): runs that entered
before are out of reach (`crowded`). So are those of tasks that were cancelled after the run began and before
it was in an adapter (`early`): no adapter was told, the run enters one all the same, and
`cancelTask` refuses a task that is cancelled (`queue/task-queue.ts:811`). `OutOfReachIsKnown` says that there
are no others. A rejected import of an SDK is kept for good. `CodexEvent`
and `CodexChecked` are the two halves of the loop body, as the signal is looked at after the event
was forwarded; a `turn.failed` ends the loop like `turn.completed`, and the run succeeds. One
cancellation of a task awaits an import at a time. `late` counts what a run did after its abort.
No timeout reads a codex stream, so one that stays silent holds its slot and hears of no
cancellation; an end of codex runs is therefore not claimed.

**FileCache.** A content is the number of its version on `disk`; `seen` is what the watcher
noticed last. `Notices`, `StatDone`, `ReadDone` cut the handler of an added or changed file at its
awaits, after which it tells (`Tells`); `NoticesRemoval` is one turn. `crossed` names the files
with an event while an earlier one was being handled, `evictedTwice` that an eviction met the entry
being replaced, after which the count is too small and the cache may pass its limit; the
properties name these cases as their only exceptions. Entries of one millisecond are evicted in the
order they were written.

**Explorer.** `watch` and `reported` are the server's watcher, `unscanned` what it has not
looked at yet, `asked`, `loads`, `fileLoads`,
`events` what is under way, the other variables the page: the tree, whether it is expanded, the
file in the viewer and its marks, the store of deleted files. Requests of a page overtake each
other, and so do events, as the content of a file that is there is read before it is told
(`FileCache`). The watch is not counted: closing one viewer ends it for the tree beside
it and for other pages, a task that fails with an unexpected error ends the watch of its directory
for everybody (`TaskUnwatches`, `queue/task-queue.ts:711`), and a tree that arrives after its explorer was left asks for it
again, as does a task that starts (`TaskWatches`, 262). The first scan of a watcher goes from file to file and reports nothing
(`ignoreInitial`): what changed before a file was scanned is told to nobody (`Scan`). `IgnoredFile`
are the files the watcher leaves out (`data/`, `.git/`, `node_modules/`, ..., below depth 10) and the tree shows.
`broadcastToAll` reaches open, authenticated connections only; as those of a page come and go at any
time, a page may miss any event (`EventMissed`). `gap` records for each tree and viewer the changes
that had been made when one last passed it by: no watcher told it, the page missed it, the tree was collapsed, or the
event was one that the viewer takes no notice of. `overtaken` records an answer that was overtaken. The
properties speak of watched files and name these cases. A record of a
deleted file goes only by its age (`clearDeletedFile` has no caller), so a file that is back is
shown as deleted for an hour. One repository is enough: repositories share nothing. Left out:
`initialFile`, the URL and collapsing, errors other than a missing file, errors of the
watcher itself (it only logs them), and that each event is broadcast a second time by a listener of the queue
(`queue/task-queue.ts:872`), which changes nothing but the number of reloads. A tree is read at one moment.

`MCHost` composes the four as `MCServer` does its seven. The two kinds of agents are parts of
their own, as they share only the queue. Where two bounds would multiply it lets one at a time
grow: at most three of the runs and turns begin (`AnyThree`), one file goes through all its versions
beside one that is written once (`CachesOne`), and the
explorer has one page with several files (`ExploresFiles`) or several pages with one file
(`ExploresPages`).

## Runs

The runs of `TaskQueue` have two tasks and two slots. `t1` has the higher priority and one retry,
`t2` none and a JSON result; the concurrency starts at 1 and may be changed to 2
and back. That is the smallest instance with a waiting and a running job, a
retry that overtakes a waiting job, two runs at once, and a limit below
the number of runs. `MaxCrashes` bounds crashes, `MaxUnsaved` the tasks whose
writes may fail (any number of them), `Env` the requests an operator may make.
`Task` bounds the ids and so `add`.

| run | question | bounds | result |
|---|---|---|---|
| `safety` | is the state consistent under every request, one crash and lost writes | 1 crash, 1 task with lost writes, slots symmetric | 8 invariants hold, 0.7 million states |
| `lifecycle` | do the rows live the life the API promises | no cancel, 1 crash | `TaskLifecycle` is implemented |
| `liveness` | does every accepted task end for good | cancel and reconfigure, 1 crash | `SettlesForGood` holds |
| `cancel` | is a cancellation final, as the tests expect | cancel and reconfigure | violated |
| `output` | does a successful run complete its task | cancel and reconfigure | violated |
| `group_runs` | is exactly what cannot be ordered refused; order, end and history of groups side by side | all 512 graphs on 3 tasks and 2 with a dangling dependency, each by itself; 28 requests with blank instructions and continueOnError beside a second group with its own or a shared id, 1 restart; lost statements in 1 turn of a join or a chain by itself | 6 invariants hold and `GroupEnds`, 0.26 million states |
| `group_failure` | does a failed task stop a group without continueOnError | 2 groups, no restart | violated |
| `group_history` | is every executed group saved | 2 groups, one id shared | violated |
| `server_safety` | do the seven other parts keep what they promise | below | 12 invariants and `ConversationKept` hold, 0.9 million states |
| `server_liveness` | do comparisons, shutdown, chats and log streams come to their end | below, smaller | 4 properties hold, 0.24 million states |
| `host_safety` | do sessions get what they asked for; do cancellations arrive; is what is told and shown of files true | below | 6 invariants hold, 1.5 million states |
| `compare_cancel` | does cancelling a comparison stop its agents | 1 comparison, 2 agents | violated |

Three tasks are the fewest with a chain, a fork, a join, a cycle of two beside an
innocent task and a cycle of three; a dependency on a task two stages back needs no
more. Two groups are the fewest that can share an id. `MaxRestarts` bounds restarts, `MaxFailures` the
turns in which statements fail, any of them; one is enough to leave every row behind, and a group by
itself is enough, as statements are lost for one group at a time.

The bounds of `server_safety`: schedules run over times 0 to 3 with timers that reach 2, so that
one can be out of reach, three starts of the process and one failing statement. Three
comparisons of two agents, one allowed and two requests served at a time, are the fewest that pass the limit;
one removal or one handler with failing statements or calls (`MaxDisturbed`), one restart and any number of clearings of the queue. Three worktrees, one of another
repository and one kept, one allowed and two slots, with a failing git call and a restart. Two workers, one
started by hand, two restarts, two tasks. Two budgets of time and three divisions among the
phases, up to time 7, past every limit. Three connections carry a message, its repeat and another one; three chats and two agent
sessions are the fewest for a fork and a fork of it, beside which two connections are used. Two connections of the log stream, two tasks to show, one loss,
late timer or restart of the server. `MaxReconnectAttempts` and
`MaxQueueSize` are the code's. `server_liveness` takes the four parts that owe an end,
with one restart per worker, a task to show, one chat and either a removal or a fault of the comparison
(`MaxDisturbed`).

The bounds of `host_safety`: two runs and two chat turns of which any three begin (two, when the directory of the server is removed), two directories,
one of them for all turns, and one change of the mode: the fewest with an overlap of both strategies
and a turn, of two turns and a run, and of runs in two directories. Two tasks of a kind race for the
import of the adapter; a third event or turn would add nothing to two (`MaxTurns` stands for the
code's 20), two attempts are a run and its retry, one import of an SDK fails. Three versions of a
file, sizes 1 to 3, in a cache of 3 are the fewest with a replacement that evicts, and one size is
above the limit of a file. One edit of two files, one of which the watcher ignores, on one page with four clicks opens, expands,
selects and closes or leaves, while tasks start and end the watch at any time; two edits remove a file and bring it back
before two pages, with three clicks among them.

Some properties are conjunctions of parts that are stated, and argued for, separately:
`PlanSound` (`RefusedIffUnorderable`, `StageIsDepth`), `HistorySound` (`SavedWhole`,
`HistoryAgrees`), `NoWorkerEscapes` (`WorkersReachable`, `ShutdownStopsWorkers`), `SessionsSound`
(`PoolSound`, `ForkOwned`), `WorktreesSound` (`WorktreeLimit`, `WorktreesAccounted`),
`StreamSettles` (`PageFollows`, `AbandonedEnd`), `EnvironmentKept` (`SessionsAsAsked`,
`DirectoryKept`, `RestoredUnlessMixed`), `CancelFinds` (`RegistryExact`, `OutOfReachIsKnown`), `AbortHeeded`
(`AbortIsSwift`, `AbortedGeminiFails`), `CacheSound` (`CacheIsCurrent`, `LastEventTrue`,
`CountedUnlessEvictedTwice`) and `PageTrue` (`TreeTrue`, `ViewerTrue`).

`liveness` leaves `clear` and `pause` out: `clear` drops jobs whose rows stay
pending until the next restart, and a paused queue may stay paused; neither is
obliged to end well. Symmetry is used for invariants only.

Fairness: `StartAny` because p-queue starts jobs in the turn that
enables them; `Advance(s)` because awaited I/O ends and the total timeout, which
the Claude executor always sets (`config.tasks.defaultTimeout`), aborts an agent that
does not; the two timers because Node fires them. No fairness for clients,
operators, crashes. In `TaskGroup` the two conjuncts of `Fairness` say that a turn of
`execute()` is carried out and that every agent ends: each task of a group has a total
timeout, 60 s by default. For codex and gemini the same is an assumption on the agent.
`CompareFairness`: p-queue starts jobs, an agent ends or is timed out, git calls return;
`ComparisonSettles` names what no fairness remedies: a row that missed the end of a task, a task
whose own row did, and a cleared queue.
`WorkersFairness`: the timers fire and the server exits when nothing is awaited; nothing is assumed
of a worker that was told to stop. `ChatFairness`: a connection is accepted or lost, its
message arrives, be it to wait for a directory for ever. No turn is owed an end, as nothing in the
code limits its time: `TurnShown` says that a page that shows a turn for ever has a connection open on which
one never ends. `LogStreamFairness`: timers fire, messages and closes
arrive; no step that spends a fault is owed. Nothing live is claimed of the parts of `MCHost`,
and no fairness stated. `Spare` and `StreamSteps` keep a connection for every
attempt the page may make, so that no liveness property fails or holds because of a bound.

### What the five violations show

- `cancel`: `cancelTask` marks the task cancelled and aborts the agent. The
  executor reports the abort as a result with `success: false`, and `executeTask`
  treats that as any other failure: the task becomes failed and is counted, or is
  scheduled for another attempt. `tests/unit/cancellation.test.ts:182` expects cancelled;
  its mocked executor rejects, which the real ones never do.
- `output`: with `outputFormat: "json"` the output of a successful run is
  undefined, and a log statement between the assignment of `completed` and its
  persistence throws on it; the task fails.
- `group_failure`: `executeTask` logs `result.success` and does not look at it, so the
  dependents of a failed task start and the group ends as completed. The tests of
  `continueOnError` use an executor that rejects.
- `group_history`: `task_group_tasks.id` is a primary key, but holds ids that are only
  unique in their group, and the frontend numbers them from `task-1`. The
  second such group runs without being saved, and its progress overwrites
  the rows of the first. `HistoryAgrees` therefore speaks of groups that share no id.
- `compare_cancel`: `cancelCompareTask` calls `taskQueue.cancel`, a method the queue does not have
  (it is `cancelTask`; the field is typed `any`). The error is logged, the
  comparison is stored as cancelled, its worktrees are removed, and the agents run on in
  them; when the last ends, the status is rewritten. The test's mock has the method.

## Proofs

### TaskQueue

The assumptions are `QueueAssumption`: priorities and retry limits are natural
numbers, slots are finite and at least one, the configured concurrency is one of
1 .. |Slot|. Tasks may be infinitely many. The theorems are about `Spec`, with all
requests, crashes and lost writes, unless stated.

1. `TypeCorrect`. `TypeOK` is inductive: a retry is only scheduled while
   `attempt < MaxRetries`, the row only takes values memory had, and a restart copies
   them back.
2. `OneExecution`. `SingleExecution` is not inductive, because `Add` makes a job
   for an id and nothing in it says that the id is new to the slots, the timers and
   the table. `SingleInv` adds that everything the state mentions was issued, and
   that a process has an object for it. Two lemmas carry the proof: a phase
   change keeps the holder of a slot, and a release frees exactly one.
3. `NothingLost`, `AbortRecognised`, `FinishedIsCleanedUp`, `TableAgrees`. One
   induction (`LinkInv`), because they depend on each other: a task of the map has an object;
   whoever drives a task decides what memory and row may say.
   A run keeps the status running or has been cancelled.
4. `StartsAreBounded`. `ExecInv` bounds the starts by what the row has used up and
   by what is still ahead (`Budget`), per task whose writes were not lost.
5. `EndsAreCountedOnce`. `CountInv` adds that finitely many tasks were issued: each action that
   counts an end takes a task that something carried until then, and no other stops being carried
   or carried on; the finite-set lemmas say what one more does to the number.
6. `TableImplementsLifecycle`, for `Undisturbed` instances (no cancel, no lost
   write). `TableInv` relates the row to the job, run or timer that drives the
   task; then every step changes at most one row, and by a step of `TaskLifecycle`,
   or stutters.

### TaskGroup

The assumptions are `GroupAssumption`: finitely many task ids, requests
as the route accepts them, and the three "no value" constants different from values.
Groups and requests may be infinitely many.

1. `Typing`, with `Known`: a group has a request from the moment it is executed.
2. `DependenciesComeFirst`, `GroupsEndQuiet`. `DependenciesFirst` is not inductive: that a
   dependency ended follows from the stage it was in. `Ordered` says where every task is
   (`Placed`: over, in the current stage, or pending, with the dependencies of the first
   two over), and how `execute()` is left (`Concluded`). It is one group's affair:
   `SameView` disposes of the steps of the others. The cycle check is not opened here;
   a stage contains only tasks whose dependencies are in earlier ones, whatever
   was validated.
3. `PlansAreSound`. What the search computes is an induction over `Work`: a call visits one task more,
   the next turn of a loop has one less to do. So there is a function that does what
   `hasCircularDependencies` does (`SearchExists`; without it the recursive definition would say
   nothing) and it is the only one (`SearchAnswers`). If `rank` orders the tasks, the stack is always above
   what is still to visit, and no cycle is met (`NoCycleMet`); if none is met, the visited tasks
   that are off the stack can be ordered, by one more rank for each that leaves it
   (`OrderFound`). Hence `ValidIsOrderable`. The depth exists by the same argument over the ranks
   (`DepthIs`), and the next stage is the next depth and not empty (`NextDepth`), because the
   shallowest task that is left has all its dependencies behind it.
4. `StagesResumeTheLatest`. `Carries` says of `sessionId`, the local variable, what the property
   says of the tasks started with it; that stages are depths makes the current one the latest.
   Both are parts of `Planned`, for which `SamePlan` disposes of the other groups.
5. `GroupsSavedWhole`, `HistoryFaithful`, and both as `HistoryIsSound`, for any statements that fail. Each
   of `GroupRowAgrees`, `TaskRowsAgree` and `RowsAreBehind` is followed through the writes of a turn:
   what a row misses is in `lostGroup` or `lostTask` until a later statement makes up for it, and
   `ExecutingRuns` (a group that executes is shown as running) gives that a row that lost its last
   status still says running. A step of another group must not
   touch the rows of a group that shares no id with it (`Untouched`); `RowsOwned` (a row belongs to a
   group that asked for it) and `OwnTasks` make that inductive, and `Ordered` gives that
   a group only moves tasks of its own.

### Scheduler, Compare, Workers, ChatSessions

Each theorem is about the component's own specification (`SchedSpec`, `CompareSpec`,
`WorkersSpec`, `ChatSpec`), for any sets of schedules, agents, workers, chats and connections and
any bounds on faults; the assumptions are the `...Assumption` of the module (finite sets where
something is counted, limits that are natural numbers).

1. `SchedulerTyped`, `JobsFollowSchedules` (`JobInv`; it needs `DownIsEmpty`, that a process
   that is down has no map), `OnceAtItsTime`: `OnceInv` adds that what runs was
   created (`Created`), that a job is due at the schedule's time or at once when it was out
   of reach (`DueInTime`), and that a schedule that ran has its time behind it
   (`RanAndOver`), which is why enabling it again gives it no job.
2. `CompareTyped`. `LimitIsNearlyKept`: `LimitInv` adds that at most `MaxCreators` requests
   are served; then counting, by the finite-set lemmas. The proof is where the term for
   cancels that failed half-way or were cut short comes from. `RowsAreTruthful`: `RowInv` says of every task how
   its status in memory, in the table, its job and its agent go together (`Recorded`, `QueueHolds`) and what
   the row says of it (`Told`), but for the tasks whose writes failed and the comparisons whose queue was
   cleared; a task whose comparison is over has a job only if it was removed or restored by mistake.
   `WorktreesAreThoseOfComparisons`: `TreesInv` adds that a comparison with a row has been created to the end, and
   that what waits for its removal belongs to one that has been created and does not run.
3. `WorkersTyped`; `NoWorkerLost` and `ShutdownReachesAll` (together `NobodyEscapes`) from one invariant
   (`StoppedUnlessLate`: while stopping, a process that is up was told to stop or is late);
   `RestartsAreBounded`: the count of an entry can be overwritten by a late restart timer, so
   the property is not inductive by itself. `Budget` bounds the forks by what the requested starts
   allow less what entry and timers may still use.
4. `ChatTyped` with `Turns` (a connection's session is the copy it took);
   `SessionsAreOwned` with `Ids` (who may hold an id: a chat, a connection of it or a token, never two);
   `PoolIsSound` with `Unclosed`; both are `SessionsAreSound`; `ConversationsAreKept` with `OneFirstTurn` (a chat that never
   raced has at most one connection that may still give it its first session) and `Followed` (what a connection
   knows of the session is what the row says).

### Timeouts, Worktrees, LogStream

The theorems of `ServerProofs` are about `TimeoutsSpec`, `WorktreesSpec` and `LogStreamSpec`.

1. `TimeoutsTyped`, `TimeoutsAreSound`, for any limits that are natural numbers. `TimersInv` adds that a
   name has one timer, that a warning that fired has none, and that a timeout is due when the
   limit of the phase the run is in, or of the run, is reached.
2. `WorktreesTyped`, `WorktreesAreSound`, for finitely many tasks. `WtLimitInv` counts for every
   task those that passed the check of the limit beside it: at most one less than the limit and
   the slots of the queue. `AccountInv` says, while nothing failed and nobody raced, that one task at most has the
   metadata file in hand (`FileTrue`) and that the file, or what that task read of it, is what is on the disk.
3. `LogStreamTyped`, `SubscriptionsSettle`, `LongQueuesHaveRoom`. `LinksInv` says which connection is the page's and
   that the others carry nothing; `QueueInv`, that of the messages waiting for the connection the last word on
   every other task is to unsubscribe; `FollowInv`, that the connection carries, or has
   brought about, what the page shows. The theorem assumes `QueueHasRoom`: a full queue
   (`maxQueueSize`, 100) drops messages, after which the last word may be missing.
   `LongQueuesHaveRoom` says when none does: by `RoomInv` the messages queued, with those the page
   may still queue before it opens or shows something again (`Owed`), are at most two for every
   connection opened and two for every task shown. A queue longer than that, as in the runs, never
   fills up, and `SubscriptionsSettleWithRoom` needs no such assumption.

`ServerImplementsParts`: a behaviour of the composition is one of each part, so that all that is
proved of a part holds in it; `AllPartsTyped` are the types of all seven.

### ProcessEnv, AgentRuns, Explorer, FileCache

The theorems of `HostProofs` are about `EnvSpec`, `AgentsSpec`, `ExplorerSpec` and `CacheSpec`, for any sets of runs, turns,
directories, tasks, pages and files and any bounds, from `ProcessEnvAssumption` (a run is no turn, the
home directory is none that runs ask for), `AgentRunsAssumption` (finitely many tasks, positive
limits), `ExplorerAssumption` and `FileCacheAssumption` (sizes are positive, a file that may be cached fits:
10 MB and 100 MB in the code).

1. `EnvironmentTyped`, `EnvironmentIsKept`. `EnvInv` adds to `SessionsAsAsked` and `DirectoryKept` (home between
   callbacks, unless a change back failed) that the chain holds each waiting user once (`ChainSound`),
   that a run has a strategy of its own (`UsedSound`); and for `RestoredUnlessMixed`, what the
   environment and the copies are while nobody has overlapped (`AloneSound`) and while a key is
   configured and Bedrock unused (`KeySound`): whoever is to put `BEDROCK` back is still active.
2. `AgentsTyped` with `AttemptsLeft`: what is queued has attempts left.
3. `CancelsFind` from `RegistryInv`: a run that is in another adapter than the queue's, or in one
   while somebody still awaits an import that will replace it, entered it while others awaited
   (`Strays`). `CancelledInv` adds that a run which goes on for a cancelled task was told to stop, had
   been cancelled before it entered, or is a stray. That the first adapter of a kind ends the waiting of newcomers makes it inductive.
4. `AbortsAreHeeded` from `AbortInv`: a run that went on after its abort is where its next step
   looks at the signal, and only a run that is over has an outcome.
5. `ExplorerTyped`, `PagesAreTrue` from `ExplorerInv`. A page's tree is that of some moment (`TreeFollows`): from
   there, a change of a watched file is still to be noticed, among the events or the loads
   under way, in any order, or not later than the tree's gap. The same of the content a page shows (`ViewerHolds`), of which
   one load alone is its own. A file whose state the watcher knows was scanned (`WatcherTells`), and an event that is
   missed only widens the gaps (`MissKeepsViewer`).
6. `CacheTyped`, `CacheIsSound` from `CacheInv`. `Followed` says of a file that no two calls crossed on
   that one call at most is under way, that the last word told of it is true unless
   a call will tell more, and that a file that is gone has no entry. The count is a sum over the
   entries: `SumsExist` shows that the recursive sum is what it says, `SizeOfConcat` and `SizeOfParts` what adding,
   removing and evicting do to it.

`HostImplementsParts` and `HostTyped` are the composition again.

Sums, the search and the depth are recursive functions. Induction over the numbers is proved in the
form the provers can use, of a set of numbers instead of a predicate (`AllNumbers`), from the
library's well-founded order on the natural numbers.

### What is only model-checked

The liveness properties `GroupEnds`, `SettlesForGood`, `ComparisonSettles`, `ShutdownEnds`,
`TurnShown` and `StreamSettles`: liveness under fairness is out of the prover's reach.
And of course the five violations. Every other property of a run is a theorem.

## Not modelled

- Batch service, presets, configuration, authentication, tunnel, migrations, the
  messages of Claude's SDK in `claude/claude-code-client.ts`, the tools of gemini and the
  conversion of the agents' events: I/O, formatting and loops of calls whose state is modelled
  elsewhere.
- Progress and the watchers of single tasks: output only. The explorer's watchers are modelled.
- `services/compare/cleanup-job.ts` is never instantiated; `extendPhaseTimeout` and
  `extendTotalTimeout` of the timeout manager have no caller.
- `cleanupOrphanedWorktrees` (no caller) and the retry delays of the queue.
- The frontend's forms and views, most of its lines, which show what the API reports.

## Plan

Done: `TaskQueue` with `TaskLifecycle`, `TaskGroup`, `Scheduler`, `Compare`, `Worktrees`,
`Workers`, `Timeouts`, `ChatSessions`, `LogStream`, `ProcessEnv`, `AgentRuns`, `FileCache`,
`Explorer`, and the proofs above. What would come next:

1. `Compare` over `TaskLifecycle`: the comparison's view of a task as an instance of the
   abstract life cycle, with the refinement checked.
2. The safety part of what is only model-checked: that a step of each of the components that owe an end
   brings it nearer or is one of the faults that are counted.
