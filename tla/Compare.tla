------------------------------ MODULE Compare ------------------------------
(***************************************************************************)
(* The comparison of several agents on one instruction                     *)
(* (services/compare/compare-service.ts, repositories/                     *)
(* compare-task-repository.ts, routes/compare.ts): the creation with its   *)
(* awaits on git, one worktree and one task of the queue per agent, the    *)
(* status derived from the tasks' events, and cancel.                      *)
(*                                                                         *)
(* The queue is seen as it is used: TaskQueue has its detail.              *)
(***************************************************************************)
EXTENDS Integers, FiniteSets

CONSTANTS
  Comparison,       \* the ids handed out, one per request
  Agent,            \* claude, codex and gemini
  MaxComparisons,   \* config.maxConcurrentCompareTasks
  MaxCreators,      \* bound on the requests being served at a time
  MaxRemovals,      \* bound on DELETE /api/tasks/:id for a child
  MaxCompareFaults, \* bound on handlers and git calls of which a part fails
  MaxCrashes        \* bound on restarts of the process

ASSUME CompareAssumption ==
  /\ IsFiniteSet(Comparison) /\ IsFiniteSet(Agent)
  /\ MaxComparisons \in Nat \ {0} /\ MaxCreators \in Nat \ {0}
  /\ MaxRemovals \in Nat /\ MaxCompareFaults \in Nat /\ MaxCrashes \in Nat

LiveChild  == {"pending", "running"}
EndedChild == {"completed", "failed", "cancelled"}
RowStatus  == {"running", "cancelling", "completed", "failed", "cancelled",
               "partial_success"}

VARIABLES
  request,   \* where createCompareTask is for c
  row,       \* compare_tasks.status, "none" if there is no row
  child,     \* status of the task of an agent in the queue, "none" if it is not there
  childRow,  \* tasks.status of it
  job,       \* tasks that wait in p-queue, cancelled ones included
  working,   \* tasks whose agent is running
  worktree,  \* worktrees on the disk
  toRemove,  \* worktrees a rollback or a clean-up has still to visit
  cancelled, \* comparisons for which cancel answered
  removed,   \* tasks cancelled on their own, by DELETE /api/tasks/:id
  forgotten, \* comparisons a task of which left the memory of the queue
  cleared,   \* those of them a task of which the clearing of the queue took out
  unwritten, \* tasks a status of which could not be written
  torn,      \* comparisons whose row missed the outcome of a task: its statement
             \* failed, or the process died before it
  leftover,  \* worktrees nobody will remove: their removal failed, the process died
             \* before it or during the creation, or the comparison has no row
  removals, compareFaults, crashes

cmpQueue   == <<child, childRow, job, working>>
cmpTrees   == <<worktree, toRemove, leftover>>
cmpHistory == <<cancelled, removed, forgotten, cleared, unwritten, torn>>
cmpCounts  == <<removals, compareFaults, crashes>>
cmpVars    == <<request, row, cmpQueue, cmpTrees, cmpHistory, cmpCounts>>

Task == Comparison \X Agent

CompareInit ==
  /\ request = [c \in Comparison |-> "none"]
  /\ row = [c \in Comparison |-> "none"]
  /\ child = [t \in Task |-> "none"]
  /\ childRow = [t \in Task |-> "none"]
  /\ job = {} /\ working = {}
  /\ worktree = {} /\ toRemove = {} /\ leftover = {}
  /\ cancelled = {} /\ removed = {} /\ forgotten = {} /\ cleared = {}
  /\ unwritten = {} /\ torn = {}
  /\ removals = 0 /\ compareFaults = 0 /\ crashes = 0

CompareFault == compareFaults < MaxCompareFaults /\ compareFaults' = compareFaults + 1

\* A step that is a fault unless all goes well.
Unless(well) == IF well THEN UNCHANGED compareFaults ELSE CompareFault

TasksOf(c) == {c} \X Agent

-----------------------------------------------------------------------------
(* createCompareTask *)

Creating == {c \in Comparison : request[c] = "creating"}
Counted  == {c \in Comparison : row[c] \in {"running", "cancelling"}}

\* Fault: the limit itself is let through.
RoomForOneMore == Cardinality(Counted) <= MaxComparisons

\* countRunningTasks against the limit; requests that are creating do not count.
Room == Cardinality(Counted) < MaxComparisons

\* POST /api/compare, up to the await of isGitRepository.
AskComparison(c) ==
  /\ request[c] = "none"
  /\ Cardinality({d \in Comparison : request[d] \in {"asked", "creating"}}) < MaxCreators
  /\ request' = [request EXCEPT ![c] = "asked"]
  /\ UNCHANGED <<row, cmpQueue, cmpTrees, cmpHistory, cmpCounts>>

\* The limit is checked, then come the awaits on df and git.
CheckLimit(c) ==
  /\ request[c] = "asked"
  /\ request' = [request EXCEPT ![c] = IF Room THEN "creating" ELSE "over"]
  /\ UNCHANGED <<row, cmpQueue, cmpTrees, cmpHistory, cmpCounts>>

\* createCompareWorktrees, one worktree.
AddWorktree(t) ==
  /\ request[t[1]] = "creating"
  /\ t \notin worktree
  /\ worktree' = worktree \cup {t}
  /\ UNCHANGED <<request, row, cmpQueue, toRemove, leftover, cmpHistory, cmpCounts>>

\* Fault: no rollback.
RollBackNothing(c) == toRemove

\* The worktrees of a creation that fails are to be removed.
RollBack(c) == toRemove \cup (TasksOf(c) \cap worktree)

\* A git call of the creation fails.
CreationFails(c) ==
  /\ request[c] = "creating"
  /\ TasksOf(c) \ worktree # {}
  /\ request' = [request EXCEPT ![c] = "over"]
  /\ toRemove' = RollBack(c)
  /\ UNCHANGED <<row, cmpQueue, worktree, leftover, cmpHistory, cmpCounts>>

\* The tasks are added to the queue, which only logs that a row of theirs could not
\* be written; then the row of the comparison is written, or that throws.
CreateTasks(c) ==
  /\ request[c] = "creating"
  /\ TasksOf(c) \subseteq worktree
  /\ request' = [request EXCEPT ![c] = "over"]
  /\ child' = [t \in Task |-> IF t \in TasksOf(c) THEN "pending" ELSE child[t]]
  /\ job' = job \cup TasksOf(c)
  /\ \E lost \in SUBSET TasksOf(c), stored \in BOOLEAN :
       /\ Unless(lost = {} /\ stored)
       /\ childRow' = [t \in Task |-> IF t \in TasksOf(c) \ lost THEN "pending"
                                     ELSE childRow[t]]
       /\ unwritten' = unwritten \cup lost
       /\ row' = IF stored THEN [row EXCEPT ![c] = "running"] ELSE row
       /\ leftover' = IF stored THEN leftover ELSE leftover \cup TasksOf(c)
  /\ UNCHANGED <<working, worktree, toRemove, cancelled, removed, forgotten, cleared, torn,
                 removals, crashes>>

-----------------------------------------------------------------------------
(* The tasks and the status derived from them *)

\* Fault: tasks that failed are left out of the total.
RowAfterWithoutFailed(c, ch) ==
  LET known == {t \in TasksOf(c) : ch[t] \notin {"none", "failed"}}
      all(s) == \A t \in known : ch[t] = s
  IN IF row[c] = "none" \/ \E t \in known : ch[t] \notin EndedChild THEN row[c]
     ELSE CASE all("completed") -> "completed"
            [] all("cancelled") -> "cancelled"
            [] OTHER -> "partial_success"

\* updateCompareTaskStatus: the row once the tasks are ch.  Tasks the queue no
\* longer knows do not count, and the row's own status is not looked at.
RowAfter(c, ch) ==
  LET known == {t \in TasksOf(c) : ch[t] # "none"}
      all(s) == \A t \in known : ch[t] = s
  IN IF row[c] = "none" \/ \E t \in known : ch[t] \notin EndedChild THEN row[c]
     ELSE CASE all("completed") -> "completed"
            [] all("failed")    -> "failed"
            [] all("cancelled") -> "cancelled"
            [] OTHER -> "partial_success"

\* The status of a task in the map of the queue, if it is there, ...
InQueue(t, status) == IF child[t] = "none" THEN child ELSE [child EXCEPT ![t] = status]

\* ... in its row; a write that fails is only logged, ...
WriteChild(t, status, written) ==
  /\ childRow' = IF written /\ childRow[t] # "none" THEN [childRow EXCEPT ![t] = status]
                 ELSE childRow
  /\ unwritten' = IF written THEN unwritten ELSE unwritten \cup {t}

\* ... and what its event makes of the row of its comparison, likewise.
WriteRow(c, ch, stored) ==
  /\ row' = IF stored THEN [row EXCEPT ![c] = RowAfter(c, ch)] ELSE row
  /\ torn' = IF stored \/ RowAfter(c, ch) = row[c] THEN torn ELSE torn \cup {c}

\* A slot is free for a waiting job, cancelled or not.
StartChild(t) ==
  /\ t \in job
  /\ job' = job \ {t}
  /\ working' = working \cup {t}
  /\ child' = InQueue(t, "running")
  /\ \E written \in BOOLEAN : Unless(written) /\ WriteChild(t, "running", written)
  /\ UNCHANGED <<request, row, cmpTrees, cancelled, removed, forgotten, cleared, torn,
                 removals, crashes>>

\* An agent ends; an aborted one has failed.  The event updates the row.
EndChild(t, status) ==
  /\ t \in working
  /\ child[t] = "cancelled" => status = "failed"
  /\ working' = working \ {t}
  /\ child' = InQueue(t, status)
  /\ \E written, stored \in BOOLEAN :
       /\ Unless(written /\ stored)
       /\ WriteChild(t, status, written)
       /\ WriteRow(t[1], child', stored)
  /\ UNCHANGED <<request, job, cmpTrees, cancelled, removed, forgotten, cleared, removals,
                 crashes>>

\* DELETE /api/tasks/:id: the agent is told to stop, a waiting job stays.
CancelChild(t) ==
  /\ child[t] \in LiveChild
  /\ removals < MaxRemovals
  /\ removals' = removals + 1
  /\ removed' = removed \cup {t}
  /\ child' = InQueue(t, "cancelled")
  /\ \E written, stored \in BOOLEAN :
       /\ Unless(written /\ stored)
       /\ WriteChild(t, "cancelled", written)
       /\ WriteRow(t[1], child', stored)
  /\ UNCHANGED <<request, job, working, cmpTrees, cancelled, forgotten, cleared, crashes>>

\* The retention timer of an ended task; it does not look whether a job or a run of a
\* cancelled one is left.
ForgetChild(t) ==
  /\ child[t] \in EndedChild
  /\ child' = [child EXCEPT ![t] = "none"]
  /\ forgotten' = forgotten \cup {t[1]}
  /\ UNCHANGED <<request, row, childRow, job, working, cmpTrees, cancelled, removed,
                 cleared, unwritten, torn, cmpCounts>>

Known == {t \in Task : child[t] # "none"}

\* POST /api/queue/clear: the waiting jobs and the whole map are dropped; the rows are not
\* touched, what runs goes on, and no event tells the comparisons.
ClearQueue ==
  /\ Known # {}
  /\ job' = {}
  /\ child' = [t \in Task |-> "none"]
  /\ forgotten' = forgotten \cup {t[1] : t \in Known}
  /\ cleared' = cleared \cup {t[1] : t \in Known}
  /\ UNCHANGED <<request, row, childRow, working, cmpTrees, cancelled, removed, unwritten,
                 torn, cmpCounts>>

-----------------------------------------------------------------------------
\* DELETE /api/compare/:id, whatever the status.  taskQueue.cancel is not a
\* method of TaskQueueImpl: its TypeError is logged and the tasks go on.  The
\* second UPDATE may fail.  The clean-up starts in the background.
CancelComparison(c) ==
  /\ row[c] # "none"
  /\ \/ /\ row' = [row EXCEPT ![c] = "cancelled"]
        /\ cancelled' = cancelled \cup {c}
        /\ toRemove' = toRemove \cup TasksOf(c)
        /\ UNCHANGED compareFaults
     \/ /\ CompareFault
        /\ row' = [row EXCEPT ![c] = "cancelling"]
        /\ UNCHANGED <<cancelled, toRemove>>
  /\ UNCHANGED <<request, cmpQueue, worktree, leftover, removed, forgotten, cleared,
                 unwritten, torn, removals, crashes>>

\* cleanupCompareWorktrees or a rollback, one worktree; a git call that fails is
\* not noticed.
RemoveWorktree(t) ==
  /\ t \in toRemove
  /\ toRemove' = toRemove \ {t}
  /\ \/ /\ worktree' = worktree \ {t} /\ leftover' = leftover \ {t}
        /\ UNCHANGED compareFaults
     \/ /\ t \in worktree
        /\ CompareFault /\ leftover' = leftover \cup {t}
        /\ UNCHANGED worktree
  /\ UNCHANGED <<request, row, cmpQueue, cmpHistory, removals, crashes>>

\* Fault: tasks that were running are not restored.
RestoredPending(rows) == {t \in Task : rows[t] = "pending"}

\* restorePendingTasks: the tasks put back into the queue.
RestoredTasks(rows) == {t \in Task : rows[t] \in LiveChild}

\* What a process that dies between two statements has written of a handler: of the
\* end of a task its row and not that of the comparison, ...
EndCut ==
  \E t \in working, status \in {"completed", "failed"} :
    /\ WriteChild(t, status, TRUE)
    /\ torn' = torn \cup {t[1]}
    /\ UNCHANGED <<row, removed, removals>>

\* ... the same of its removal, ...
RemovalCut ==
  \E t \in Task :
    /\ child[t] \in LiveChild
    /\ removals < MaxRemovals /\ removals' = removals + 1
    /\ removed' = removed \cup {t}
    /\ WriteChild(t, "cancelled", TRUE)
    /\ torn' = torn \cup {t[1]}
    /\ UNCHANGED row

\* ... of a cancel its first UPDATE ...
CancelCut ==
  \E c \in Comparison :
    /\ row[c] # "none"
    /\ row' = [row EXCEPT ![c] = "cancelling"]
    /\ UNCHANGED <<childRow, unwritten, removed, torn, removals>>

\* ... and of a creation the rows of some tasks.
CreationCut ==
  \E c \in Creating : \E added \in SUBSET TasksOf(c) :
    /\ TasksOf(c) \subseteq worktree
    /\ childRow' = [t \in Task |-> IF t \in added THEN "pending" ELSE childRow[t]]
    /\ UNCHANGED <<row, unwritten, removed, torn, removals>>

\* The process dies, between two steps or in one, and a new one starts.
RestartCompare ==
  /\ crashes < MaxCrashes
  /\ crashes' = crashes + 1
  /\ \/ UNCHANGED <<row, childRow, unwritten, removed, torn, removals>>
     \/ EndCut \/ RemovalCut \/ CancelCut \/ CreationCut
  /\ job' = RestoredTasks(childRow')
  /\ child' = [t \in Task |-> IF t \in job' THEN "pending" ELSE "none"]
  /\ working' = {} /\ toRemove' = {}
  /\ request' = [c \in Comparison |-> IF request[c] = "none" THEN "none" ELSE "over"]
  /\ leftover' = leftover \cup {t \in worktree : t \in toRemove \/ t[1] \in Creating}
  /\ forgotten' = forgotten \cup {t[1] : t \in Known \ job'}
  /\ UNCHANGED <<worktree, cancelled, cleared, compareFaults>>

CompareNext ==
  \/ \E c \in Comparison :
       \/ AskComparison(c) \/ CheckLimit(c) \/ CreationFails(c) \/ CreateTasks(c)
       \/ CancelComparison(c)
  \/ \E t \in Task :
       \/ AddWorktree(t) \/ RemoveWorktree(t)
       \/ StartChild(t) \/ CancelChild(t) \/ ForgetChild(t)
       \/ \E status \in {"completed", "failed"} : EndChild(t, status)
  \/ ClearQueue \/ RestartCompare

CompareSpec == CompareInit /\ [][CompareNext]_cmpVars

\* p-queue starts what waits, an agent ends or is timed out, git calls return.
CompareFairness ==
  /\ \A t \in Task : /\ WF_cmpVars(StartChild(t))
                     /\ WF_cmpVars(\E status \in {"completed", "failed"} : EndChild(t, status))
                     /\ WF_cmpVars(RemoveWorktree(t))

-----------------------------------------------------------------------------
\* The shapes of the comparison's state.
CompareTypeOK ==
  /\ request \in [Comparison -> {"none", "asked", "creating", "over"}]
  /\ row \in [Comparison -> RowStatus \cup {"none"}]
  /\ child \in [Task -> LiveChild \cup EndedChild \cup {"none"}]
  /\ childRow \in [Task -> LiveChild \cup EndedChild \cup {"none"}]
  /\ job \subseteq Task /\ working \subseteq Task
  /\ worktree \subseteq Task /\ toRemove \subseteq Task /\ leftover \subseteq Task
  /\ cancelled \subseteq Comparison /\ removed \subseteq Task
  /\ forgotten \subseteq Comparison /\ cleared \subseteq Comparison
  /\ unwritten \subseteq Task /\ torn \subseteq Comparison
  /\ removals \in Nat /\ compareFaults \in Nat /\ crashes \in Nat

\* The limit is checked before awaits and the row that counts is written after
\* them, so it may be passed; but by no more than the other requests under way,
\* and the finished comparisons that count again because a cancel of them failed
\* half-way or was cut short by the end of the process.
LimitOvershoot ==
  Cardinality(Counted) + Cardinality(Creating)
    <= MaxComparisons - 1 + MaxCreators + compareFaults + crashes

\* A row that says the comparison is over is right: no task of it waits in the queue
\* or runs, but for one cancelled on its own, one that a restart took back because its
\* end was not written, and those of a queue that was cleared; and "completed" means
\* that every agent succeeded, but for tasks the queue forgot or could not write.
RowTruthful ==
  \A c \in Comparison :
    /\ row[c] \in {"completed", "failed", "partial_success"} /\ c \notin cleared
         => \A t \in TasksOf(c) : t \in job \cup working => t \in removed \cup unwritten
    /\ row[c] = "completed" /\ c \notin forgotten
         => \A t \in TasksOf(c) : childRow[t] = "completed" \/ t \in unwritten

\* A running comparison has the worktrees its agents work in, and every worktree on
\* the disk is one of a running, finished or forthcoming comparison, or about to be
\* removed, or left over by a removal that failed, a row that could not be written or
\* a process that died.
WorktreesMatch ==
  /\ \A t \in Task : row[t[1]] = "running" => t \in worktree
  /\ \A t \in worktree :
       \/ t \in toRemove \cup leftover
       \/ request[t[1]] = "creating"
       \/ row[t[1]] # "none" /\ t[1] \notin cancelled

\* Cancel stops the agents: none of a comparison whose cancel was answered waits
\* or runs.  (tests/unit/services/compare/compare-service.test.ts:221)
CancelStopsAgents ==
  \A c \in cancelled : \A t \in TasksOf(c) : child[t] \notin LiveChild

\* Every comparison leaves the status running, so that it stops counting against
\* the limit, unless its row missed the end of a task, the queue was cleared under it
\* or a status of a task of it could not be written.
ComparisonSettles ==
  \A c \in Comparison :
    (row[c] = "running")
      ~> \/ row[c] # "running"
         \/ c \in torn \cup cleared
         \/ TasksOf(c) \cap unwritten # {}
=============================================================================
