----------------------------- MODULE TaskGroup -----------------------------
(***************************************************************************)
(* Task groups: TaskGroupExecutor (services/task-group-executor.ts), which *)
(* orders the tasks of a group into stages and runs them, the state of it  *)
(* that TaskGroupStore serves to clients, and the history tables that the  *)
(* store writes and reloads when the process starts.                       *)
(*                                                                         *)
(* execute() waits only for the agents.  What it does between two agents,  *)
(* over the end of a stage and the start of the next, is one turn of the   *)
(* event loop: Settled holds everything else back until it is done.        *)
(*                                                                         *)
(* The tables are written in that turn, by statements that commit one by   *)
(* one and whose failures are only logged: any of them may be lost.  A     *)
(* process that dies in the middle of a turn loses the rest of them, which *)
(* is such a turn followed by Restart.                                     *)
(***************************************************************************)
EXTENDS Naturals, FiniteSets, FiniteSetsExt

CONSTANTS
  Group,       \* the group ids a process may generate
  TaskId,      \* task ids, which the clients choose
  Offered,     \* Offered[g]: the requests a client may make for group g
  NoRequest, NoSession, NoRow,
  MaxRestarts, \* bound on restarts of the process
  MaxFailures  \* bound on the turns in which a statement fails

\* deps[t]: the ids t depends on; blank: the tasks whose instruction is blank.
Request == [tasks : SUBSET TaskId, deps : [TaskId -> SUBSET TaskId],
            blank : SUBSET TaskId, continueOnError : BOOLEAN]

TaskStatus  == {"none", "pending", "running", "completed", "failed"}
GroupStatus == {"none", "running", "completed", "failed"}

ASSUME GroupAssumption ==
  /\ IsFiniteSet(TaskId)
  /\ Offered \in [Group -> SUBSET {r \in Request : r.tasks # {}}]
  /\ NoRequest \notin Request
  /\ NoSession \notin TaskId
  /\ NoRow \notin [group : Group, status : TaskStatus]
  /\ NoRow \notin [status : GroupStatus, progress : Nat]
  /\ MaxRestarts \in Nat
  /\ MaxFailures \in Nat

VARIABLES
  request,        \* the group as submitted
  where,          \* "executing" and "ended" by this process, or "restored"
  \* the local variables of execute()
  done,           \* the tasks of the stages that are over
  stage,          \* the tasks of the current stage
  stageNo,        \* stageIndex + 1
  sessionId,
  returned,       \* the sdkSessionId each task of the group came back with
  \* the result object, which the record in the store shares
  status, task, completedTasks,
  \* what activeGroups holds: nothing, a copy that says running or cancelled,
  \* or the result object itself
  active,
  \* the tables task_groups and task_group_tasks
  groupRow, taskRow,
  \* history
  resumed,        \* the session each task was started with
  erred,          \* groups in which an agent ended with success = false
  restarts,
  lostGroup,      \* groups whose row misses the latest status or progress
  lostTask,       \* tasks whose row misses the latest status
  failures

execution == <<where, done, stage, stageNo, sessionId, returned>>
shown     == <<status, task, completedTasks>>
rows      == <<groupRow, taskRow>>
history   == <<resumed, erred, restarts>>
losses    == <<lostGroup, lostTask, failures>>
vars      == <<request, execution, shown, active, rows, history, losses>>

-----------------------------------------------------------------------------
(* The plan. *)

\* The depth-first search of hasCircularDependencies: the ids its innermost loop has
\* still to visit, its visited set, its recursion stack, and whether it met a cycle.
Mark == [todo : SUBSET TaskId, visited : SUBSET TaskId, stack : SUBSET TaskId, cycle : BOOLEAN]

\* The call for a task that was not visited, and the loop that goes on after it.
Entered(r, m, id) == [todo |-> r.deps[id], visited |-> m.visited \cup {id},
                      stack |-> m.stack \cup {id}, cycle |-> FALSE]
Back(m, left, id) == [left EXCEPT !.todo = m.todo \ {id}, !.stack = @ \ {id}]

\* The rest of a loop, given what searches do.
Visit(search, r, m) ==
  IF m.todo = {} \/ m.cycle THEN m
  ELSE LET id == CHOOSE id \in m.todo : TRUE
           left == search[Entered(r, m, id)]
       IN  IF id \in m.stack THEN [m EXCEPT !.cycle = TRUE]
           ELSE IF id \in m.visited THEN search[[m EXCEPT !.todo = @ \ {id}]]
           ELSE IF left.cycle THEN left ELSE search[Back(m, left, id)]

HasCycle(r) ==
  LET search[m \in Mark] == Visit(search, r, m)
  IN  search[[todo |-> r.tasks, visited |-> {}, stack |-> {}, cycle |-> FALSE]].cycle

\* Fault: the dependencies are followed but the stack is never looked at.
OnlyDangling(r) == \A t \in r.tasks : r.deps[t] \subseteq r.tasks

\* validateDependencies.
Valid(r) == (\A t \in r.tasks : r.deps[t] \subseteq r.tasks) /\ ~HasCycle(r)

\* Fault: one finished dependency is enough.
ExecutableSome(r, d) ==
  {t \in r.tasks \ d : r.deps[t] = {} \/ r.deps[t] \cap d # {}}

\* Fault: a stage takes one task, as the mode "sequential" would have it.
ExecutableOne(r, d) ==
  {t \in r.tasks \ d : r.deps[t] \subseteq d
     /\ t = CHOOSE u \in r.tasks \ d : r.deps[u] \subseteq d}

\* buildExecutionPlan: the stage that follows those whose tasks are d.
Executable(r, d) == {t \in r.tasks \ d : r.deps[t] \subseteq d}

-----------------------------------------------------------------------------
(* The store and its tables. *)

EndedIn(s) == {t \in TaskId : s[t] \in {"completed", "failed"}}

\* lost: some statements of the turn fail, and their .catch logs it.
Failing(lost) ==
  IF lost THEN failures < MaxFailures /\ failures' = failures + 1 ELSE UNCHANGED failures

\* What the row of a group may say of its progress when the statements of a turn are
\* through, one for each task that starts or ends in it.
RowProgress(g, now) ==
  IF groupRow[g] = NoRow THEN {0}
  ELSE {groupRow[g].progress} \cup (Cardinality(EndedIn(task[g])) .. Cardinality(EndedIn(now)))

\* updateTaskProgress, and updateTaskResult when a task ends, for the tasks in DOMAIN
\* new.  The rows of tasks are found by the task's id alone.  lost: the tasks whose
\* last status is not written; half: those that fail at once and of which "running"
\* was written.
Progress(g, new) ==
  LET now == [t \in TaskId |-> IF t \in DOMAIN new THEN new[t] ELSE task[g][t]] IN
  \E lost \in SUBSET {t \in DOMAIN new : taskRow[t] # NoRow} :
  \E half \in SUBSET {t \in lost : new[t] = "failed"} :
  \E p \in RowProgress(g, now) :
    LET missed == groupRow[g] # NoRow /\ p # Cardinality(EndedIn(now)) IN
    /\ task' = [task EXCEPT ![g] = now]
    /\ taskRow' = [t \in TaskId |->
                     IF t \notin DOMAIN new \/ taskRow[t] = NoRow \/ t \in lost \ half
                     THEN taskRow[t]
                     ELSE [taskRow[t] EXCEPT !.status = IF t \in half THEN "running" ELSE new[t]]]
    /\ groupRow' = IF groupRow[g] = NoRow THEN groupRow
                   ELSE [groupRow EXCEPT ![g].progress = p]
    /\ lostTask' = (lostTask \ DOMAIN new) \cup lost
    /\ lostGroup' = IF groupRow[g] = NoRow THEN lostGroup
                    ELSE (lostGroup \ {g}) \cup {h \in {g} : missed}
    /\ Failing(missed \/ lost # {})

\* Fault: the status is changed in memory only.
FinishUnsaved(g, s) ==
  /\ status' = [status EXCEPT ![g] = s]
  /\ UNCHANGED <<groupRow, lostGroup, failures>>

\* updateStatus.
Finish(g, s) ==
  /\ status' = [status EXCEPT ![g] = s]
  /\ \/ /\ groupRow' = IF groupRow[g] = NoRow THEN groupRow
                        ELSE [groupRow EXCEPT ![g].status = s]
        /\ UNCHANGED <<lostGroup, failures>>
     \/ /\ lostGroup' = lostGroup \cup {g}
        /\ Failing(TRUE)
        /\ UNCHANGED groupRow

\* Fault: a task that is known already is skipped, the others are saved.
SaveSome(g, r, s) ==
  /\ groupRow' = [groupRow EXCEPT ![g] = [status |-> s, progress |-> 0]]
  /\ taskRow' = [t \in TaskId |->
                   IF t \in r.tasks /\ taskRow[t] = NoRow
                   THEN [group |-> g, status |-> "pending"] ELSE taskRow[t]]
  /\ UNCHANGED <<lostGroup, failures>>

\* The transaction, after which the row says q.
Saved(g, r, q) ==
  /\ groupRow' = [groupRow EXCEPT ![g] = [status |-> q, progress |-> 0]]
  /\ taskRow' = [t \in TaskId |-> IF t \in r.tasks
                                  THEN [group |-> g, status |-> "pending"]
                                  ELSE taskRow[t]]

\* Fault: a group is saved with the status of a task.
SavePending(g, r, s) == Saved(g, r, "pending") /\ UNCHANGED <<lostGroup, failures>>

\* saveTaskGroup: one transaction, undone if a task's id is in the table already or
\* if anything else fails.  It says "running"; s is what the row says at the end of
\* the turn, unless updateStatus then fails.
Save(g, r, s) ==
  \/ /\ \A t \in r.tasks : taskRow[t] = NoRow
     /\ \E q \in {s, "running"} :
          /\ Saved(g, r, q)
          /\ lostGroup' = lostGroup \cup {h \in {g} : q # s}
          /\ Failing(q # s)
  \/ /\ lostGroup' = lostGroup \cup {g}
     /\ Failing(\A t \in r.tasks : taskRow[t] = NoRow)
     /\ UNCHANGED rows

-----------------------------------------------------------------------------
Init ==
  /\ request = [g \in Group |-> NoRequest]
  /\ where = [g \in Group |-> "new"]
  /\ done = [g \in Group |-> {}]
  /\ stage = [g \in Group |-> {}]
  /\ stageNo = [g \in Group |-> 0]
  /\ sessionId = [g \in Group |-> NoSession]
  /\ returned = [g \in Group |-> [t \in TaskId |-> NoSession]]
  /\ status = [g \in Group |-> "none"]
  /\ task = [g \in Group |-> [t \in TaskId |-> "none"]]
  /\ completedTasks = [g \in Group |-> 0]
  /\ active = [g \in Group |-> "none"]
  /\ groupRow = [g \in Group |-> NoRow]
  /\ taskRow = [t \in TaskId |-> NoRow]
  /\ resumed = [g \in Group |-> [t \in TaskId |-> NoSession]]
  /\ erred = {}
  /\ restarts = 0
  /\ lostGroup = {} /\ lostTask = {}
  /\ failures = 0

Running(g) == {t \in stage[g] : task[g][t] = "running"}

\* The current stage of g is over (or the first is still to come).
StageOver(g) == where[g] = "executing" /\ Running(g) = {}

Settled == \A g \in Group : ~StageOver(g)

\* POST /task-groups/execute: the group is stored and saved before it is validated.
Execute(g, r) ==
  /\ Settled
  /\ where[g] = "new"
  /\ request' = [request EXCEPT ![g] = r]
  /\ task' = [task EXCEPT ![g] = [t \in TaskId |-> IF t \in r.tasks THEN "pending" ELSE "none"]]
  /\ LET s == IF Valid(r) THEN "running" ELSE "failed" IN
     /\ status' = [status EXCEPT ![g] = s]
     /\ Save(g, r, s)
     /\ where' = [where EXCEPT ![g] = IF s = "running" THEN "executing" ELSE "ended"]
     /\ active' = [active EXCEPT ![g] = "result"]
  /\ UNCHANGED <<done, stage, stageNo, sessionId, returned, completedTasks, history,
                 lostTask>>

\* Fault: the sessions of a stage of several tasks are not looked at.
LastSessionOfOne(g) ==
  LET sessions == {returned[g][t] : t \in stage[g]} \ {NoSession} IN
  IF sessions = {} \/ Cardinality(stage[g]) > 1 THEN {sessionId[g]} ELSE sessions

\* The session the next stage resumes: that of the first task of this stage, in
\* the order of the request, that came back with one.
NextSession(g) ==
  LET sessions == {returned[g][t] : t \in stage[g]} \ {NoSession} IN
  IF sessions = {} THEN {sessionId[g]} ELSE sessions

Failures(g) == {t \in stage[g] : task[g][t] = "failed"}

\* A failure ends the group, but for a stage of several tasks under continueOnError.
Stops(g) ==
  Failures(g) # {} /\ (Cardinality(stage[g]) = 1 \/ ~request[g].continueOnError)

Left(g) == request[g].tasks \ (done[g] \cup stage[g])

\* The tasks of the next stage start together.  One with a blank instruction
\* throws at once, the others call the agent.
StartStage(g) ==
  LET next == Executable(request[g], done[g] \cup stage[g]) IN
  /\ StageOver(g) /\ ~Stops(g) /\ Left(g) # {}
  /\ done' = [done EXCEPT ![g] = @ \cup stage[g]]
  /\ stage' = [stage EXCEPT ![g] = next]
  /\ stageNo' = [stageNo EXCEPT ![g] = @ + 1]
  /\ \E s \in NextSession(g) :
       /\ sessionId' = [sessionId EXCEPT ![g] = s]
       /\ resumed' = [resumed EXCEPT ![g] = [t \in TaskId |-> IF t \in next THEN s ELSE @[t]]]
  /\ Progress(g, [t \in next |-> IF t \in request[g].blank THEN "failed" ELSE "running"])
  /\ active' = [active EXCEPT ![g] = "copy"]
  /\ UNCHANGED <<request, where, returned, status, completedTasks, erred, restarts>>

\* An agent ends.  execute() of the Claude executor does not throw: whether it
\* succeeded is in result.success, which executeTask does not look at.
TaskEnd(g, t) ==
  /\ Settled
  /\ where[g] = "executing" /\ t \in Running(g)
  /\ \E s \in {NoSession, t, resumed[g][t]} : returned' = [returned EXCEPT ![g][t] = s]
  /\ \/ UNCHANGED erred
     \/ erred' = erred \cup {g}
  /\ completedTasks' = [completedTasks EXCEPT ![g] = @ + 1]
  /\ Progress(g, [u \in {t} |-> "completed"])
  /\ active' = [active EXCEPT ![g] = "copy"]
  /\ UNCHANGED <<request, where, done, stage, stageNo, sessionId, status, resumed, restarts>>

\* Fault: Promise.all instead of Promise.allSettled: the first failure of a stage
\* ends the group while the other agents work.
StopsEarly(g) == where[g] = "executing" /\ Stops(g)

\* Fault: the failures of Promise.allSettled are not looked at, and nothing goes on.
StopsOfOne(g) == StageOver(g) /\ Stops(g) /\ Cardinality(stage[g]) = 1

StopsNow(g) == StageOver(g) /\ Stops(g)

FailGroup(g) ==
  /\ StopsNow(g)
  /\ Finish(g, "failed")
  /\ where' = [where EXCEPT ![g] = "ended"]
  /\ active' = [active EXCEPT ![g] = "result"]
  /\ UNCHANGED <<request, done, stage, stageNo, sessionId, returned, task,
                 completedTasks, taskRow, history, lostTask>>

CompleteGroup(g) ==
  /\ StageOver(g) /\ ~Stops(g) /\ Left(g) = {}
  /\ Finish(g, "completed")
  /\ where' = [where EXCEPT ![g] = "ended"]
  /\ \E s \in NextSession(g) : sessionId' = [sessionId EXCEPT ![g] = s]
  /\ active' = [active EXCEPT ![g] = "result"]
  /\ UNCHANGED <<request, done, stage, stageNo, returned, task, completedTasks,
                 taskRow, history, lostTask>>

\* DELETE /task-groups/:id marks the copy, which the next step of the group replaces.
Cancel(g) ==
  /\ Settled
  /\ active[g] = "copy"
  /\ active' = [active EXCEPT ![g] = "cancelled"]
  /\ UNCHANGED <<request, execution, shown, rows, history, losses>>

\* POST /task-groups/cleanup.
Cleanup ==
  /\ Settled
  /\ active' = [g \in Group |-> IF active[g] = "copy" THEN "copy" ELSE "none"]
  /\ UNCHANGED <<request, execution, shown, rows, history, losses>>

\* The process dies and starts again: loadRecentHistory makes records of the rows.
\* Nothing takes up the execution of a group that was running.
Restart ==
  /\ restarts < MaxRestarts
  /\ restarts' = restarts + 1
  /\ where' = [g \in Group |-> IF where[g] = "new" THEN "new" ELSE "restored"]
  /\ done' = [g \in Group |-> {}]
  /\ stage' = [g \in Group |-> {}]
  /\ stageNo' = [g \in Group |-> 0]
  /\ sessionId' = [g \in Group |-> NoSession]
  /\ returned' = [g \in Group |-> [t \in TaskId |-> NoSession]]
  /\ status' = [g \in Group |-> IF groupRow[g] = NoRow THEN "none" ELSE groupRow[g].status]
  /\ task' = [g \in Group |-> [t \in TaskId |->
                IF taskRow[t] # NoRow /\ taskRow[t].group = g
                THEN taskRow[t].status ELSE "none"]]
  /\ completedTasks' = [g \in Group |-> IF groupRow[g] = NoRow THEN 0 ELSE groupRow[g].progress]
  /\ active' = [g \in Group |-> "none"]
  /\ UNCHANGED <<request, rows, resumed, erred, losses>>

Advance(g) == StartStage(g) \/ FailGroup(g) \/ CompleteGroup(g)

Next ==
  \/ \E g \in Group :
       \/ \E r \in Offered[g] : Execute(g, r)
       \/ \E t \in TaskId : TaskEnd(g, t)
       \/ StartStage(g) \/ FailGroup(g) \/ CompleteGroup(g)
       \/ Cancel(g)
  \/ Cleanup
  \/ Restart

Spec == Init /\ [][Next]_vars

\* What a turn of the event loop has begun it ends, and every agent ends: each task
\* of a group has a total timeout (60 s unless the group sets one).
Fairness ==
  \A g \in Group :
    /\ WF_vars(Advance(g))
    /\ \A t \in TaskId : WF_vars(TaskEnd(g, t))

FairSpec == Spec /\ Fairness

-----------------------------------------------------------------------------
(* Properties.  Those of the records in memory speak of the groups this        *)
(* process has executed; what a restored group shows is the tables'.           *)

Executed(g) == where[g] \in {"executing", "ended"}

\* Every variable holds what the code can put there: of the statuses the tables and
\* the API allow, "pending" never is a group's and "cancelled" never a stored one.
TypeOK ==
  /\ request \in [Group -> Request \cup {NoRequest}]
  /\ where \in [Group -> {"new", "executing", "ended", "restored"}]
  /\ done \in [Group -> SUBSET TaskId]
  /\ stage \in [Group -> SUBSET TaskId]
  /\ stageNo \in [Group -> Nat]
  /\ sessionId \in [Group -> TaskId \cup {NoSession}]
  /\ returned \in [Group -> [TaskId -> TaskId \cup {NoSession}]]
  /\ status \in [Group -> GroupStatus]
  /\ task \in [Group -> [TaskId -> TaskStatus]]
  /\ completedTasks \in [Group -> Nat]
  /\ active \in [Group -> {"none", "copy", "cancelled", "result"}]
  /\ groupRow \in [Group -> [status : GroupStatus, progress : Nat] \cup {NoRow}]
  /\ taskRow \in [TaskId -> [group : Group, status : TaskStatus] \cup {NoRow}]
  /\ resumed \in [Group -> [TaskId -> TaskId \cup {NoSession}]]
  /\ erred \subseteq Group
  /\ restarts \in Nat
  /\ lostGroup \subseteq Group
  /\ lostTask \subseteq TaskId
  /\ failures \in Nat

\* The reference definition of a request that can be ordered: no dependency leaves
\* the group, and some numbering puts every task after its dependencies.
Orderable(r) ==
  /\ \A t \in r.tasks : r.deps[t] \subseteq r.tasks
  /\ \E rank \in [r.tasks -> 1..Cardinality(r.tasks)] :
       \A t \in r.tasks : \A d \in r.deps[t] : rank[d] < rank[t]

\* Exactly the requests that cannot be ordered are refused before a task starts:
\* the depth-first search of validateDependencies agrees with the definition.
RefusedIffUnorderable ==
  \A g \in Group :
    Executed(g) => ((where[g] = "ended" /\ stageNo[g] = 0) <=> ~Orderable(request[g]))

\* depth[t]: the tasks on the longest chain of dependencies that ends in t.
Depth(r) ==
  LET depth[t \in r.tasks] ==
        IF r.deps[t] = {} THEN 1 ELSE 1 + Max({depth[d] : d \in r.deps[t]})
  IN depth

\* The stages of buildExecutionPlan run each task as early as its dependencies
\* allow, and no stage is empty: the error "Unable to resolve task dependencies"
\* is never raised for a group that passed the validation.
StageIsDepth ==
  \A g \in Group : (Executed(g) /\ stageNo[g] > 0) =>
    LET depth == Depth(request[g]) IN
    /\ stage[g] # {}
    /\ stage[g] = {t \in request[g].tasks : depth[t] = stageNo[g]}
    /\ done[g] = {t \in request[g].tasks : depth[t] < stageNo[g]}

\* The plan of a group: it is refused exactly when its tasks cannot be ordered, and
\* otherwise runs each of them as early as they can be.
PlanSound == RefusedIffUnorderable /\ StageIsDepth

\* A task that has left "pending" has all its dependencies behind it, and one of
\* them failed only if the group continues on errors.
DependenciesFirst ==
  \A g \in Group : Executed(g) =>
    \A t \in request[g].tasks : task[g][t] # "pending" =>
      \A d \in request[g].deps[t] :
        \/ task[g][d] = "completed"
        \/ task[g][d] = "failed" /\ request[g].continueOnError

\* A group that execute() has left runs no task, is "completed" only if every task
\* ended and the failed ones were to be ignored, and is "failed" only because a task
\* of its last stage failed or the request was refused.
EndsQuiet ==
  \A g \in Group : where[g] = "ended" =>
    /\ \A t \in request[g].tasks : task[g][t] # "running"
    /\ status[g] = "completed" =>
         \A t \in request[g].tasks :
           \/ task[g][t] = "completed"
           \/ task[g][t] = "failed" /\ request[g].continueOnError
    /\ status[g] = "failed" => stageNo[g] = 0 \/ Failures(g) # {}
    /\ status[g] \in {"completed", "failed"}

\* The context of a group is handed down: a task resumes a session that a task of
\* the latest earlier stage to return one came back with, and starts afresh only
\* if no earlier stage returned any.
ResumesLatest ==
  \A g \in Group : where[g] = "executing" =>
    LET depth   == Depth(request[g])
        with    == {d \in done[g] : returned[g][d] # NoSession}
        latest  == {d \in with : \A e \in with : depth[e] <= depth[d]}
    IN \A t \in stage[g] : resumed[g][t] \in
         IF with = {} THEN {NoSession} ELSE {returned[g][d] : d \in latest}

\* A group in the history has all its tasks there: saveTaskGroup is a transaction.
SavedWhole ==
  \A g \in Group : groupRow[g] # NoRow =>
    \A t \in request[g].tasks : taskRow[t] # NoRow /\ taskRow[t].group = g

Alone(g) ==
  \A h \in Group \ {g} : request[h] # NoRequest => request[h].tasks \cap request[g].tasks = {}

\* The statuses a row of a task may still have when the task is at s.
Earlier(s) ==
  CASE s = "none"    -> {"none"}
    [] s = "pending" -> {"pending"}
    [] s = "running" -> {"pending", "running"}
    [] OTHER         -> {"pending", "running", s}

\* The row of a group says what clients are shown of it, unless a statement on it was
\* lost; the progress of a restored group may count a task whose own row was not
\* written.
GroupRowAgrees(g) ==
  g \notin lostGroup =>
    /\ groupRow[g] # NoRow
    /\ groupRow[g].status = status[g]
    /\ \/ groupRow[g].progress = Cardinality(EndedIn(task[g]))
       \/ where[g] = "restored" /\ request[g].tasks \cap lostTask # {}

\* So do the rows of its tasks.
TaskRowsAgree(g) ==
  groupRow[g] # NoRow =>
    \A t \in request[g].tasks :
      /\ taskRow[t] # NoRow /\ taskRow[t].group = g
      /\ t \notin lostTask => taskRow[t].status = task[g][t]

\* What was lost leaves the tables behind the records of the process that executed
\* the group, never ahead of them.
RowsAreBehind(g) ==
  (Executed(g) /\ groupRow[g] # NoRow) =>
    /\ groupRow[g].status \in {status[g], "running"}
    /\ groupRow[g].progress <= Cardinality(EndedIn(task[g]))
    /\ \A t \in request[g].tasks : taskRow[t].status \in Earlier(task[g][t])

\* The history of a group whose task ids no other group used says what its clients
\* are shown, before and after a restart, but for what failed statements left out of
\* it; it never is ahead of what was done.
HistoryAgrees ==
  \A g \in Group : (request[g] # NoRequest /\ Alone(g)) =>
    GroupRowAgrees(g) /\ TaskRowsAgree(g) /\ RowsAreBehind(g)

\* The history is of whole groups and true of those that share no task id, but for
\* the statements that failed: what a restarted server knows of its groups.
HistorySound == SavedWhole /\ HistoryAgrees

\* execute() returns, or the process dies.
GroupEnds == \A g \in Group : where[g] = "executing" ~> where[g] # "executing"

-----------------------------------------------------------------------------
(* What the repository says and the code does not do. *)

\* types/task-groups.ts: continueOnError is "Continue even if a task fails", so a
\* group without it starts no further stage once a task has failed.
FailureStops ==
  [][\A g \in Group :
       (g \in erred /\ where'[g] = "executing" /\ ~request[g].continueOnError)
         => stage'[g] = stage[g]]_vars

\* task-group-history-repository.ts: "Save a complete task group with all its tasks
\* in a transaction": every group that was executed is in the history.
HistoryKept ==
  \A g \in Group : Executed(g) => groupRow[g] # NoRow
=============================================================================
