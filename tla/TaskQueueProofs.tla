-------------------------- MODULE TaskQueueProofs --------------------------
(***************************************************************************)
(* Theorems about TaskQueue for every set of tasks, number of slots, retry *)
(* budget and combination of operator requests, crashes and lost writes.   *)
(***************************************************************************)
EXTENDS TaskQueue, FiniteSetTheorems, TLAPS

-----------------------------------------------------------------------------
(* Lemmas about the helpers, which the step proofs cite instead of the     *)
(* definitions.                                                            *)

\* Every write to the table leaves well-typed columns, and counts no retry that
\* the budget of the task does not cover.
LEMMA SetRowTyped ==
  ASSUME TypeOK, NEW t \in Task, NEW s \in Status, NEW n \in Nat, n <= MaxRetries[t],
         SetRow(t, s, n) \/ LoseWrite(t)
  PROVE  /\ row' \in [Task -> Status] /\ rowAttempt' \in [Task -> Nat]
         /\ \A u \in Task : rowAttempt'[u] <= MaxRetries[u]
         /\ lostWrite' \subseteq Task
<1>1. CASE SetRow(t, s, n)  BY <1>1 DEF SetRow, TypeOK
<1>2. CASE LoseWrite(t)  BY <1>2 DEF LoseWrite, Unsaved, table, TypeOK
<1>. QED  BY <1>1, <1>2

LEMMA PersistTyped ==
  ASSUME TypeOK, NEW t \in Task, NEW s \in Status, Persist(t, s)
  PROVE  /\ row' \in [Task -> Status] /\ rowAttempt' \in [Task -> Nat]
         /\ \A u \in Task : rowAttempt'[u] <= MaxRetries[u]
         /\ lostWrite' \subseteq Task
BY SetRowTyped DEF Persist, TypeOK

-----------------------------------------------------------------------------
LEMMA InitTypeOK == Init => TypeOK
BY QueueAssumption DEF Init, TypeOK, Status

LEMMA StepTypeOK == TypeOK /\ [Next]_vars => TypeOK'
<1>. SUFFICES ASSUME TypeOK, [Next]_vars PROVE TypeOK'
  OBVIOUS
<1>. USE QueueAssumption
<1>1. ASSUME NEW t \in Task, Add(t) PROVE TypeOK'
  BY <1>1 DEF Add, LoseWrite, Unsaved, table, TypeOK, Status, Live, Job
<1>2. ASSUME NEW s \in Slot, NEW j \in waiting, Start(s, j) PROVE TypeOK'
  <2>1. j.task \in Task  BY DEF TypeOK, Job
  <2>2. "running" \in Status  BY DEF Status, Live
  <2>3. slot' \in [Slot -> Run \cup {Idle}] /\ runningTasks' \subseteq Task
    BY <1>2, <2>1 DEF Start, TypeOK, Run, Phase
  <2>. QED  BY <1>2, <2>1, <2>2, <2>3, PersistTyped DEF Start, TypeOK
<1>3. ASSUME NEW s \in Slot, Register(s) PROVE TypeOK'
  BY <1>3 DEF Register, At, TypeOK, Run, Phase, table, history
<1>4. ASSUME NEW s \in Slot, UnexpectedError(s) PROVE TypeOK'
  <2>1. slot[s] \in Run  BY <1>4 DEF UnexpectedError, At, TypeOK
  <2>2. slot[s].task \in Task /\ "failed" \in Status
    BY <2>1 DEF Run, Status, Terminal
  <2>3. slot' \in [Slot -> Run \cup {Idle}]
    BY <1>4, <2>1 DEF UnexpectedError, Release, TypeOK, Run, Phase
  <2>. QED  BY <1>4, <2>2, <2>3, PersistTyped DEF UnexpectedError, MarkFailed, ArmCleanup, TypeOK
<1>5. ASSUME NEW s \in Slot, Unwatched(s) PROVE TypeOK'
  BY <1>5 DEF Unwatched, At, Release, TypeOK, table, history
<1>6. ASSUME NEW s \in Slot, ExecEnd(s) PROVE TypeOK'
  BY <1>6 DEF ExecEnd, Deregister, At, TypeOK, Run, Phase, table, history
<1>7. ASSUME NEW s \in Slot, Complete(s) PROVE TypeOK'
  <2>1. slot[s].task \in Task /\ "completed" \in Status
    BY <1>7 DEF Complete, At, TypeOK, Run, Status, Terminal
  <2>. QED  BY <1>7, <2>1, PersistTyped DEF Complete, Release, ArmCleanup, TypeOK
<1>8. ASSUME NEW s \in Slot, ScheduleRetry(s) PROVE TypeOK'
  <2>. DEFINE t == slot[s].task
  <2>1. t \in Task /\ "pending" \in Status
    BY <1>8 DEF ScheduleRetry, At, TypeOK, Run, Status, Live
  <2>2. attempt[t] + 1 \in Nat /\ attempt[t] + 1 <= MaxRetries[t]
    BY <1>8, <2>1 DEF ScheduleRetry, MayRetry, TypeOK
  <2>3. /\ row' \in [Task -> Status] /\ rowAttempt' \in [Task -> Nat]
        /\ \A u \in Task : rowAttempt'[u] <= MaxRetries[u]
        /\ lostWrite' \subseteq Task
    <3>1. CASE SetRow(t, "pending", attempt[t] + 1) \/ LoseWrite(t)
      BY <3>1, <2>1, <2>2, SetRowTyped
    <3>2. CASE SaveAttemptOnly(t)
      BY <3>2, <2>1, <2>2 DEF SaveAttemptOnly, Unsaved, TypeOK
    <3>. QED  BY <1>8, <3>1, <3>2 DEF ScheduleRetry
  <2>. QED  BY <1>8, <2>1, <2>2, <2>3 DEF ScheduleRetry, ArmRetry, Release, TypeOK
<1>9. ASSUME NEW s \in Slot, Fail(s) PROVE TypeOK'
  <2>1. slot[s].task \in Task /\ "failed" \in Status
    BY <1>9 DEF Fail, At, TypeOK, Run, Status, Terminal
  <2>. QED  BY <1>9, <2>1, PersistTyped DEF Fail, MarkFailed, Release, ArmCleanup, TypeOK
<1>10. ASSUME NEW t \in Task, RetryFires(t) PROVE TypeOK'
  BY <1>10 DEF RetryFires, Requeue, TypeOK, Job, table, history
<1>11. ASSUME NEW t \in Task, CleanupFires(t) PROVE TypeOK'
  BY <1>11 DEF CleanupFires, TypeOK, table, history
<1>12. ASSUME NEW t \in Task, Cancel(t) PROVE TypeOK'
  <2>1. "cancelled" \in Status  BY DEF Status, Terminal
  <2>. QED  BY <1>12, <2>1, PersistTyped DEF Cancel, ArmCleanup, TypeOK
<1>13. CASE Clear
  BY <1>13 DEF Clear, TypeOK, Status, Terminal, table, history
<1>14. CASE Pause \/ Resume
  BY <1>14 DEF Pause, Resume, TypeOK, table, history
<1>15. ASSUME NEW n \in 1 .. Cardinality(Slot), SetConcurrency(n) PROVE TypeOK'
  BY <1>15 DEF SetConcurrency, TypeOK, table, history
<1>16. CASE CrashRestart
  BY <1>16 DEF CrashRestart, Restorable, TypeOK, Status, Live, Job, table
<1>17. CASE UNCHANGED vars
  BY <1>17 DEF vars, memory, table, history, TypeOK
<1>. QED
  BY <1>1, <1>2, <1>3, <1>4, <1>5, <1>6, <1>7, <1>8, <1>9, <1>10, <1>11, <1>12,
     <1>13, <1>14, <1>15, <1>16, <1>17 DEF Next, StartAny, Advance

\* The queue's state is well typed, and no task uses more retries than it was
\* submitted with: for every retry budget and however often the process crashes
\* between the two writes that record a retry.
THEOREM TypeCorrect == Spec => []TypeOK
<1>. QED  BY InitTypeOK, StepTypeOK, PTL DEF Spec

-----------------------------------------------------------------------------
(* A task is carried by one thing at a time.                               *)

\* A slot that moves to another phase keeps its task.
LEMMA PhaseKeepsHolder ==
  ASSUME TypeOK, NEW s \in Slot, slot[s] # Idle, NEW p \in Phase,
         slot' = [slot EXCEPT ![s].phase = p]
  PROVE  \A r \in Slot, t \in Task : Holds(r, t)' <=> Holds(r, t)
<1>1. slot[s] \in Run  BY DEF TypeOK
<1>2. slot'[s] \in Run /\ slot'[s].task = slot[s].task
  BY <1>1 DEF TypeOK, Run
<1>3. \A r \in Slot \ {s} : slot'[r] = slot[r]  BY DEF TypeOK
<1>. QED  BY <1>1, <1>2, <1>3, QueueAssumption DEF Holds

\* A slot that is released holds no task any more.
LEMMA ReleaseFrees ==
  ASSUME TypeOK, NEW s \in Slot, Release(s)
  PROVE  \A r \in Slot, t \in Task : Holds(r, t)' <=> (r # s /\ Holds(r, t))
BY DEF Release, Holds, TypeOK

\* Adding a job queues its task and no other.
LEMMA JobQueues ==
  ASSUME NEW t \in Task, NEW j, j.task = t, waiting' = waiting \cup {j}
  PROVE  \A u \in Task : Queued(u)' <=> (u = t \/ Queued(u))
BY DEF Queued

\* Nothing in the process or the table knows t.
Unused(t) ==
  /\ mem[t] = "none" /\ row[t] = "none"
  /\ t \notin tasks /\ t \notin retryTimer /\ t \notin runningTasks
  /\ ~Queued(t)
  /\ \A s \in Slot : ~Holds(s, t)

Fresh == \A t \in Task \ issued : Unused(t)

\* SingleExecution is inductive once it is known that an id is unused until uuid
\* hands it out.
SingleInv == TypeOK /\ Fresh /\ SingleExecution

LEMMA InitSingle == Init => SingleInv
<1>. SUFFICES ASSUME Init PROVE SingleInv
  OBVIOUS
<1>1. TypeOK  BY InitTypeOK
<1>2. Fresh  BY DEF Init, Fresh, Unused, Queued, Holds
<1>3. SingleExecution  BY DEF Init, SingleExecution, Queued, Holds
<1>. QED  BY <1>1, <1>2, <1>3 DEF SingleInv

\* An action that moves no task between p-queue, the slots and the retry timers.
LEMMA SingleKept ==
  ASSUME SingleInv, UNCHANGED <<waiting, retryTimer, issued>>,
         \A r \in Slot, t \in Task : Holds(r, t)' => Holds(r, t),
         \A t \in Task \ issued :
           /\ mem'[t] = mem[t] /\ row'[t] = row[t]
           /\ t \in tasks' => t \in tasks
           /\ t \in runningTasks' => t \in runningTasks
  PROVE  Fresh' /\ SingleExecution'
<1>1. \A t \in Task : Queued(t)' <=> Queued(t)  BY DEF Queued
<1>2. Fresh'  BY <1>1 DEF SingleInv, Fresh, Unused
<1>3. SingleExecution'  BY <1>1 DEF SingleInv, SingleExecution, TypeOK
<1>. QED  BY <1>2, <1>3

\* Whatever the process holds for a task shows that its id was handed out.
LEMMA HeldIsIssued ==
  ASSUME SingleInv
  PROVE  /\ \A s \in Slot : slot[s] # Idle =>
              slot[s] \in Run /\ slot[s].task \in Task /\ slot[s].task \in issued
                /\ Holds(s, slot[s].task)
         /\ \A j \in waiting : j.task \in Task /\ j.task \in issued /\ Queued(j.task)
         /\ retryTimer \subseteq issued /\ tasks \subseteq issued
         /\ \A t \in Task : row[t] # "none" => t \in issued
BY DEF SingleInv, TypeOK, Fresh, Unused, Run, Job, Holds, Queued

\* A write to the row of t leaves the other rows alone.
LEMMA WriteTouchesOne ==
  ASSUME TypeOK, NEW t \in Task, NEW s, Persist(t, s)
  PROVE  /\ \A u \in Task \ {t} : row'[u] = row[u] /\ rowAttempt'[u] = rowAttempt[u]
         /\ row'[t] \in {row[t], s} /\ rowAttempt'[t] = rowAttempt[t]
         /\ row[t] = "none" => row'[t] = "none"
         /\ t \notin lostWrite' => row[t] = "none" \/ row'[t] = s
         /\ lostWrite \subseteq lostWrite' /\ lostWrite' \subseteq lostWrite \cup {t}
BY DEF Persist, SetRow, LoseWrite, Unsaved, table, TypeOK

LEMMA StepSingle == SingleInv /\ [Next]_vars => SingleInv'
<1>. SUFFICES ASSUME SingleInv, [Next]_vars PROVE SingleInv'
  OBVIOUS
<1>. USE QueueAssumption
<1>0. TypeOK /\ TypeOK'  BY StepTypeOK DEF SingleInv
<1>h. SUFFICES Fresh' /\ SingleExecution'
  BY <1>0 DEF SingleInv
<1>1. ASSUME NEW t \in Task, Add(t) PROVE Fresh' /\ SingleExecution'
  <2>1. Unused(t)  BY <1>1 DEF Add, SingleInv, Fresh
  <2>2. \A u \in Task : Queued(u)' <=> (u = t \/ Queued(u))
    BY <1>1, JobQueues DEF Add
  <2>3. \A s \in Slot, u \in Task : Holds(s, u)' <=> Holds(s, u)
    BY <1>1 DEF Add, Holds
  <2>4. Fresh'
    BY <1>0, <1>1, <2>2, <2>3 DEF Add, LoseWrite, table, SingleInv, Fresh, Unused, TypeOK
  <2>5. SingleExecution'
    <3>1. \A j \in waiting : j.task # t  BY <2>1 DEF Unused, Queued
    <3>2. \A j, k \in waiting' : j.task = k.task => j = k
      BY <1>1, <3>1 DEF Add, SingleInv, SingleExecution
    <3>. QED
      BY <1>0, <1>1, <2>1, <2>2, <2>3, <3>2 DEF Add, SingleInv, SingleExecution, Unused, TypeOK
  <2>. QED  BY <2>4, <2>5
<1>2. ASSUME NEW s \in Slot, NEW j \in waiting, Start(s, j) PROVE Fresh' /\ SingleExecution'
  <2>1. j.task \in Task /\ j.task \in issued /\ Queued(j.task)  BY HeldIsIssued
  <2>2. \A u \in Task : Queued(u)' <=> (u # j.task /\ Queued(u))
    BY <1>2 DEF Start, Queued, SingleInv, SingleExecution
  <2>3. \A r \in Slot, u \in Task :
          Holds(r, u)' <=> ((r = s /\ u = j.task) \/ (r # s /\ Holds(r, u)))
    <3>1. \E p \in Phase : slot' = [slot EXCEPT ![s] = [task |-> j.task, phase |-> p]]
      BY <1>2 DEF Start, Phase
    <3>2. \A p \in Phase : [task |-> j.task, phase |-> p] # Idle
      BY <2>1 DEF Run
    <3>. QED  BY <1>0, <3>1, <3>2 DEF Holds, TypeOK
  <2>4. \A u \in Task \ {j.task} : row'[u] = row[u] /\ mem'[u] = mem[u]
    BY <1>0, <1>2, <2>1, WriteTouchesOne DEF Start, TypeOK
  <2>5. Fresh'
    BY <1>2, <2>1, <2>2, <2>3, <2>4 DEF Start, SingleInv, Fresh, Unused
  <2>6. SingleExecution'
    BY <1>0, <1>2, <2>1, <2>2, <2>3 DEF Start, SingleInv, SingleExecution, TypeOK
  <2>. QED  BY <2>5, <2>6
<1>3. ASSUME NEW s \in Slot, Register(s) PROVE Fresh' /\ SingleExecution'
  <2>1. \A r \in Slot, u \in Task : Holds(r, u)' <=> Holds(r, u)
    BY <1>0, <1>3, PhaseKeepsHolder DEF Register, At, Phase
  <2>. QED
    BY <1>3, <2>1, HeldIsIssued, SingleKept DEF Register, At, table, history
<1>4. ASSUME NEW s \in Slot, UnexpectedError(s) PROVE Fresh' /\ SingleExecution'
  <2>1. slot[s].task \in issued /\ slot[s].task \in Task
    BY <1>4, HeldIsIssued DEF UnexpectedError, At
  <2>2. \A r \in Slot, u \in Task : Holds(r, u)' => Holds(r, u)
    BY <1>0, <1>4, PhaseKeepsHolder, ReleaseFrees DEF UnexpectedError, At, Phase
  <2>3. \A u \in Task \ issued : row'[u] = row[u] /\ mem'[u] = mem[u]
    BY <1>0, <1>4, <2>1, WriteTouchesOne DEF UnexpectedError, MarkFailed, TypeOK
  <2>. QED  BY <1>4, <2>2, <2>3, SingleKept DEF UnexpectedError
<1>5. ASSUME NEW s \in Slot, Unwatched(s) PROVE Fresh' /\ SingleExecution'
  <2>1. \A r \in Slot, u \in Task : Holds(r, u)' => Holds(r, u)
    BY <1>0, <1>5, ReleaseFrees DEF Unwatched
  <2>. QED  BY <1>5, <2>1, SingleKept DEF Unwatched, table, history
<1>6. ASSUME NEW s \in Slot, ExecEnd(s) PROVE Fresh' /\ SingleExecution'
  <2>1. \A r \in Slot, u \in Task : Holds(r, u)' => Holds(r, u)
    BY <1>0, <1>6, PhaseKeepsHolder DEF ExecEnd, At, Phase
  <2>. QED  BY <1>6, <2>1, SingleKept DEF ExecEnd, Deregister, table, history
<1>7. ASSUME NEW s \in Slot, Complete(s) PROVE Fresh' /\ SingleExecution'
  <2>1. slot[s].task \in issued /\ slot[s].task \in Task
    BY <1>7, HeldIsIssued DEF Complete, At
  <2>2. \A r \in Slot, u \in Task : Holds(r, u)' => Holds(r, u)
    BY <1>0, <1>7, ReleaseFrees DEF Complete
  <2>3. \A u \in Task \ issued : row'[u] = row[u] /\ mem'[u] = mem[u]
    BY <1>0, <1>7, <2>1, WriteTouchesOne DEF Complete, TypeOK
  <2>. QED  BY <1>7, <2>2, <2>3, SingleKept DEF Complete
<1>8. ASSUME NEW s \in Slot, ScheduleRetry(s) PROVE Fresh' /\ SingleExecution'
  <2>. DEFINE t == slot[s].task
  <2>1. t \in issued /\ t \in Task /\ Holds(s, t)
    BY <1>8, HeldIsIssued DEF ScheduleRetry, At
  <2>2. \A r \in Slot, u \in Task : Holds(r, u)' <=> (r # s /\ Holds(r, u))
    BY <1>0, <1>8, ReleaseFrees DEF ScheduleRetry
  <2>3. \A u \in Task : Queued(u)' <=> Queued(u)
    BY <1>8 DEF ScheduleRetry, ArmRetry, Queued
  <2>4. \A u \in Task \ issued : row'[u] = row[u]
    BY <1>0, <1>8, <2>1
       DEF ScheduleRetry, SetRow, LoseWrite, SaveAttemptOnly, table, TypeOK
  <2>5. retryTimer' = retryTimer \cup {t}
    BY <1>8 DEF ScheduleRetry, ArmRetry
  <2>6. Fresh'
    BY <1>8, <2>1, <2>2, <2>3, <2>4, <2>5 DEF ScheduleRetry, SingleInv, Fresh, Unused
  <2>7. SingleExecution'
    <3>1. waiting' = waiting  BY <1>8 DEF ScheduleRetry, ArmRetry
    <3>. QED
      BY <1>0, <2>1, <2>2, <2>3, <2>5, <3>1 DEF SingleInv, SingleExecution, TypeOK
  <2>. QED  BY <2>6, <2>7
<1>9. ASSUME NEW s \in Slot, Fail(s) PROVE Fresh' /\ SingleExecution'
  <2>1. slot[s].task \in issued /\ slot[s].task \in Task
    BY <1>9, HeldIsIssued DEF Fail, At
  <2>2. \A r \in Slot, u \in Task : Holds(r, u)' => Holds(r, u)
    BY <1>0, <1>9, ReleaseFrees DEF Fail
  <2>3. \A u \in Task \ issued : row'[u] = row[u] /\ mem'[u] = mem[u]
    BY <1>0, <1>9, <2>1, WriteTouchesOne DEF Fail, MarkFailed, TypeOK
  <2>. QED  BY <1>9, <2>2, <2>3, SingleKept DEF Fail
<1>10. ASSUME NEW t \in Task, RetryFires(t) PROVE Fresh' /\ SingleExecution'
  <2>1. t \in issued /\ ~Queued(t) /\ \A s \in Slot : ~Holds(s, t)
    BY <1>10, HeldIsIssued DEF RetryFires, SingleInv, SingleExecution
  <2>2. \A u \in Task : Queued(u)' <=> (u = t \/ Queued(u))
    BY <1>10, JobQueues DEF RetryFires, Requeue
  <2>3. \A s \in Slot, u \in Task : Holds(s, u)' <=> Holds(s, u)
    BY <1>10 DEF RetryFires, Holds
  <2>4. Fresh'
    BY <1>10, <2>1, <2>2, <2>3 DEF RetryFires, SingleInv, Fresh, Unused, table, history
  <2>5. \A j, k \in waiting' : j.task = k.task => j = k
    <3>1. \A j \in waiting : j.task # t  BY <2>1 DEF Queued
    <3>. QED  BY <1>10, <3>1 DEF RetryFires, Requeue, SingleInv, SingleExecution
  <2>6. SingleExecution'
    BY <1>0, <1>10, <2>1, <2>2, <2>3, <2>5 DEF RetryFires, SingleInv, SingleExecution, TypeOK
  <2>. QED  BY <2>4, <2>6
<1>11. ASSUME NEW t \in Task, CleanupFires(t) PROVE Fresh' /\ SingleExecution'
  <2>1. \A s \in Slot, u \in Task : Holds(s, u)' <=> Holds(s, u)
    BY <1>11 DEF CleanupFires, Holds
  <2>. QED  BY <1>11, <2>1, SingleKept DEF CleanupFires, table, history
<1>12. ASSUME NEW t \in Task, Cancel(t) PROVE Fresh' /\ SingleExecution'
  <2>1. t \in issued  BY <1>12, HeldIsIssued DEF Cancel
  <2>2. \A s \in Slot, u \in Task : Holds(s, u)' <=> Holds(s, u)
    BY <1>12 DEF Cancel, Holds
  <2>3. \A u \in Task \ issued : row'[u] = row[u] /\ mem'[u] = mem[u]
    BY <1>0, <1>12, <2>1, WriteTouchesOne DEF Cancel, TypeOK
  <2>. QED  BY <1>12, <2>2, <2>3, SingleKept DEF Cancel
<1>13. CASE Clear
  <2>1. \A u \in Task : ~Queued(u)'  BY <1>13 DEF Clear, Queued
  <2>2. \A s \in Slot, u \in Task : Holds(s, u)' <=> Holds(s, u)
    BY <1>13 DEF Clear, Holds
  <2>3. Fresh'
    BY <1>13, <2>1, <2>2 DEF Clear, SingleInv, Fresh, Unused, table, history
  <2>4. SingleExecution'
    BY <1>0, <1>13, <2>1, <2>2 DEF Clear, SingleInv, SingleExecution, TypeOK
  <2>. QED  BY <2>3, <2>4
<1>14. ASSUME UNCHANGED <<mem, tasks, waiting, slot, retryTimer, runningTasks, table, history>>
       PROVE  Fresh' /\ SingleExecution'
  <2>1. \A s \in Slot, u \in Task : Holds(s, u)' <=> Holds(s, u)
    BY <1>14 DEF Holds
  <2>. QED  BY <1>14, <2>1, SingleKept DEF table, history
<1>15. CASE CrashRestart
  <2>1. \A u \in Task : Queued(u)' <=> u \in Restorable
    <3>. DEFINE job(t) == [task |-> t, kind |-> "first"]
    <3>1. \A t : job(t).task = t  OBVIOUS
    <3>2. waiting' = {job(t) : t \in Restorable}  BY <1>15 DEF CrashRestart
    <3>3. \A u \in Task : u \in Restorable =>
            job(u) \in {job(t) : t \in Restorable} /\ job(u).task = u
      BY <3>1
    <3>4. \A j \in {job(t) : t \in Restorable} : \E t \in Restorable : j = job(t)
      OBVIOUS
    <3>. HIDE DEF job
    <3>. QED  BY <3>1, <3>2, <3>3, <3>4 DEF Queued
  <2>2. \A s \in Slot, u \in Task : ~Holds(s, u)'
    BY <1>15 DEF CrashRestart, Holds
  <2>3. Fresh'
    BY <1>0, <1>15, <2>1, <2>2, HeldIsIssued
       DEF CrashRestart, Restorable, Live, SingleInv, Fresh, Unused, table
  <2>4. SingleExecution'
    BY <1>15, <2>1, <2>2 DEF CrashRestart, SingleExecution
  <2>. QED  BY <2>3, <2>4
<1>. QED
  BY <1>1, <1>2, <1>3, <1>4, <1>5, <1>6, <1>7, <1>8, <1>9, <1>10, <1>11, <1>12,
     <1>13, <1>14, <1>15
     DEF Next, StartAny, Advance, Pause, Resume, SetConcurrency, vars, memory

\* However requests, retries, crashes and lost writes interleave, p-queue, the
\* slots and the retry timers never hold two continuations of one task.
THEOREM OneExecution == Spec => []SingleExecution
<1>1. SingleInv => SingleExecution  BY DEF SingleInv
<1>. QED  BY <1>1, InitSingle, StepSingle, PTL DEF Spec

-----------------------------------------------------------------------------
(* How the parts of the state are linked: the map, the p-queue jobs, the   *)
(* executor's registry, the cleanup timers and the table.                  *)

\* A task of the map has an object.
MapHasObject == \A t \in tasks : mem[t] # "none"

\* Slot s will decide how t goes on.
Drives(s, t) == Holds(s, t) /\ ~At(s, "unwatching")

\* While a run is under way only a cancellation changes the task's status.
RunKeepsStatus ==
  \A s \in Slot, t \in Task : Drives(s, t) => mem[t] \in {"running", "cancelled"}

\* The last two parts make RowAgrees inductive; the other three are inductive
\* next to SingleInv.
LinkInv ==
  /\ NoLostTask
  /\ AbortMeansCancelled
  /\ CleanupArmed
  /\ RowAgrees
  /\ MapHasObject
  /\ RunKeepsStatus

-----------------------------------------------------------------------------
(* What an action does to the slots.                                       *)

LEMMA PhaseEffect ==
  ASSUME TypeOK, NEW s \in Slot, slot[s] # Idle, NEW p \in Phase,
         slot' = [slot EXCEPT ![s].phase = p]
  PROVE  /\ slot'[s] # Idle /\ slot'[s].task = slot[s].task /\ slot'[s].phase = p
         /\ \A r \in Slot \ {s} : slot'[r] = slot[r]
<1>1. slot[s] \in Run  BY DEF TypeOK
<1>2. slot'[s] \in Run /\ slot'[s].task = slot[s].task /\ slot'[s].phase = p
  BY <1>1 DEF TypeOK, Run
<1>. QED  BY <1>2, QueueAssumption DEF TypeOK

LEMMA ReleaseEffect ==
  ASSUME TypeOK, NEW s \in Slot, Release(s)
  PROVE  slot'[s] = Idle /\ \A r \in Slot \ {s} : slot'[r] = slot[r]
BY DEF Release, TypeOK

\* No other slot holds the task of slot s, and nothing else carries it.
LEMMA HolderIsAlone ==
  ASSUME SingleInv, NEW s \in Slot, slot[s] # Idle
  PROVE  /\ slot[s].task \in Task
         /\ ~Queued(slot[s].task) /\ slot[s].task \notin retryTimer
         /\ \A r \in Slot \ {s} : ~Holds(r, slot[s].task)
BY HeldIsIssued DEF SingleInv, SingleExecution

LEMMA InitLink == Init => LinkInv
BY DEF Init, LinkInv, NoLostTask, AbortMeansCancelled, CleanupArmed, RowAgrees,
       MapHasObject, RunKeepsStatus, Drives, Holds, At

-----------------------------------------------------------------------------
(* Three kinds of steps that several actions share.                        *)

\* The task t of slot s gets the terminal status st, and the slot is released or
\* goes on to unwatch.
LEMMA EndKeepsLink ==
  ASSUME SingleInv, LinkInv, NEW s \in Slot, slot[s] # Idle,
         NEW st \in Terminal,
         mem' = [mem EXCEPT ![slot[s].task] = st],
         Persist(slot[s].task, st), ArmCleanup(slot[s].task),
         ~At(s, "executing"),
         Release(s) \/ slot' = [slot EXCEPT ![s].phase = "unwatching"],
         UNCHANGED <<tasks, waiting, retryTimer, runningTasks>>
  PROVE  LinkInv'
<1>. DEFINE t == slot[s].task
<1>0. TypeOK  BY DEF SingleInv
<1>1. /\ t \in Task /\ ~Queued(t) /\ t \notin retryTimer
      /\ \A r \in Slot \ {s} : ~Holds(r, t)
  BY HolderIsAlone
<1>2. \A u \in Task : Queued(u)' <=> Queued(u)  BY DEF Queued
<1>3. /\ \A r \in Slot \ {s} : slot'[r] = slot[r]
      /\ slot'[s] = Idle \/ (slot'[s] # Idle /\ slot'[s].task = t /\ slot'[s].phase = "unwatching")
  BY <1>0, ReleaseEffect, PhaseEffect DEF Phase
<1>4. mem'[t] = st /\ \A u \in Task \ {t} : mem'[u] = mem[u]
  BY <1>0, <1>1 DEF TypeOK
<1>5. /\ \A u \in Task \ {t} : row'[u] = row[u]
      /\ t \notin lostWrite' => row[t] = "none" \/ row'[t] = st
      /\ lostWrite \subseteq lostWrite'
  BY <1>0, <1>1, WriteTouchesOne
<1>6. \A r \in Slot, u \in Task : Drives(r, u)' <=> (r # s /\ Drives(r, u))
  BY <1>3 DEF Drives, Holds, At
<1>7. st \notin Live /\ st # "none"  BY DEF Live, Terminal
<1>8. NoLostTask'
  <2>1. \A u \in Task \ {t} : Carried(u) => Carried(u)'
    BY <1>2, <1>6 DEF Carried, Drives, Holds
  <2>. QED  BY <1>0, <1>4, <1>7, <2>1 DEF LinkInv, NoLostTask, TypeOK
<1>9. AbortMeansCancelled'
  BY <1>0, <1>1, <1>3, <1>4 DEF LinkInv, AbortMeansCancelled, At, Holds, TypeOK, Run
<1>10. CleanupArmed'
  BY <1>0, <1>4 DEF LinkInv, CleanupArmed, ArmCleanup, TypeOK
<1>11. RowAgrees' /\ MapHasObject'
  <2>1. \A u \in tasks' \ lostWrite' : u # t => u \in tasks \ lostWrite /\ u \in Task
    BY <1>0, <1>5 DEF TypeOK
  <2>2. t \in tasks' \ lostWrite' => row'[t] = mem'[t]
    <3>1. t \in tasks \ lostWrite => row[t] # "none"
      BY DEF LinkInv, RowAgrees, MapHasObject
    <3>. QED  BY <1>4, <1>5, <3>1
  <2>. QED
    BY <1>0, <1>2, <1>4, <1>5, <1>7, <2>1, <2>2 DEF LinkInv, RowAgrees, MapHasObject, TypeOK
<1>12. RunKeepsStatus'
  BY <1>1, <1>4, <1>6 DEF LinkInv, RunKeepsStatus, Drives
<1>. QED  BY <1>8, <1>9, <1>10, <1>11, <1>12 DEF LinkInv

\* A step that moves no task between slots, jobs and timers and ends none: the
\* registry may lose tasks whose run is over or cancelled, slots may change phase.
LEMMA QuietKeepsLink ==
  ASSUME SingleInv, LinkInv, NEW s \in Slot, NEW p \in Phase \ {"unwatching"},
         slot[s] # Idle, ~At(s, "unwatching"),
         slot' = [slot EXCEPT ![s].phase = p],
         runningTasks' = IF p = "executing" THEN runningTasks \cup {slot[s].task}
                                            ELSE runningTasks \ {slot[s].task},
         UNCHANGED <<mem, tasks, waiting, retryTimer, cleanupTimer, row, lostWrite>>
  PROVE  LinkInv'
<1>. DEFINE t == slot[s].task
<1>0. TypeOK  BY DEF SingleInv
<1>1. t \in Task /\ \A r \in Slot \ {s} : ~Holds(r, t)
  BY HolderIsAlone
<1>2. \A u \in Task : Queued(u)' <=> Queued(u)  BY DEF Queued
<1>3. /\ \A r \in Slot \ {s} : slot'[r] = slot[r]
      /\ slot'[s] # Idle /\ slot'[s].task = t /\ slot'[s].phase = p
  BY <1>0, PhaseEffect
<1>4. \A r \in Slot, u \in Task : Drives(r, u)' <=> Drives(r, u)
  BY <1>3 DEF Drives, Holds, At
<1>5. NoLostTask'
  BY <1>0, <1>2, <1>4 DEF LinkInv, NoLostTask, Carried, Drives, TypeOK
<1>6. AbortMeansCancelled'
  <2>1. \A u \in runningTasks \ {t} : \E r \in Slot : At(r, "executing")' /\ slot'[r].task = u
    BY <1>3 DEF LinkInv, AbortMeansCancelled, At
  <2>2. \A r \in Slot \ {s} : At(r, "executing")' /\ slot'[r].task \notin runningTasks'
          => mem'[slot'[r].task] = "cancelled"
    BY <1>1, <1>3 DEF LinkInv, AbortMeansCancelled, At, Holds
  <2>3. CASE p = "executing"
    BY <1>3, <2>1, <2>2, <2>3 DEF AbortMeansCancelled, At
  <2>4. CASE p # "executing"
    BY <1>3, <2>1, <2>2, <2>4 DEF AbortMeansCancelled, At
  <2>. QED  BY <2>3, <2>4
<1>7. CleanupArmed' /\ MapHasObject'
  BY DEF LinkInv, CleanupArmed, MapHasObject
<1>8. RowAgrees'
  BY <1>0, <1>2 DEF LinkInv, RowAgrees, TypeOK
<1>9. RunKeepsStatus'
  BY <1>4 DEF LinkInv, RunKeepsStatus
<1>. QED  BY <1>5, <1>6, <1>7, <1>8, <1>9 DEF LinkInv

\* A step that leaves all of this alone but for tasks that drop out of the map.
LEMMA StillKeepsLink ==
  ASSUME SingleInv, LinkInv,
         UNCHANGED <<mem, waiting, slot, retryTimer, runningTasks, row, lostWrite>>,
         tasks' \subseteq tasks,
         \A t \in tasks' : mem[t] \in Terminal /\ t \in cleanupTimer => t \in cleanupTimer'
  PROVE  LinkInv'
<1>0. TypeOK  BY DEF SingleInv
<1>1. \A u \in Task : Queued(u)' <=> Queued(u)  BY DEF Queued
<1>2. \A r \in Slot, u \in Task : /\ Holds(r, u)' <=> Holds(r, u)
                                  /\ Drives(r, u)' <=> Drives(r, u)
                                  /\ At(r, "unwatching")' <=> At(r, "unwatching")
                                  /\ At(r, "executing")' <=> At(r, "executing")
  BY DEF Holds, Drives, At
<1>3. NoLostTask'
  BY <1>0, <1>1, <1>2 DEF LinkInv, NoLostTask, Carried, TypeOK
<1>4. AbortMeansCancelled'
  BY DEF LinkInv, AbortMeansCancelled, At
<1>5. CleanupArmed' /\ MapHasObject'
  BY DEF LinkInv, CleanupArmed, MapHasObject
<1>6. RowAgrees'
  BY <1>0, <1>1 DEF LinkInv, RowAgrees, TypeOK
<1>7. RunKeepsStatus'
  BY <1>2 DEF LinkInv, RunKeepsStatus
<1>. QED  BY <1>3, <1>4, <1>5, <1>6, <1>7 DEF LinkInv

-----------------------------------------------------------------------------
(* The other steps, one lemma each.                                        *)

LEMMA AddKeepsLink == SingleInv /\ LinkInv /\ (\E t \in Task : Add(t)) => LinkInv'
<1>. SUFFICES ASSUME SingleInv, LinkInv, NEW t \in Task, Add(t) PROVE LinkInv'
  OBVIOUS
<1>0. TypeOK  BY DEF SingleInv
<1>1. Unused(t)  BY DEF Add, SingleInv, Fresh
<1>2. \A u \in Task : Queued(u)' <=> (u = t \/ Queued(u))
  BY JobQueues DEF Add
<1>3. \A r \in Slot, u \in Task : /\ Holds(r, u)' <=> Holds(r, u)
                                  /\ Drives(r, u)' <=> Drives(r, u)
                                  /\ At(r, "unwatching")' <=> At(r, "unwatching")
  BY DEF Add, Holds, Drives, At
<1>4. mem'[t] = "pending" /\ \A u \in Task \ {t} : mem'[u] = mem[u]
  BY <1>0 DEF Add, TypeOK
<1>5. /\ \A u \in Task \ {t} : row'[u] = row[u]
      /\ t \notin lostWrite' => row'[t] = "pending"
      /\ lostWrite \subseteq lostWrite'
  BY <1>0 DEF Add, LoseWrite, Unsaved, table, TypeOK
<1>6. NoLostTask'
  BY <1>0, <1>2, <1>3, <1>4 DEF Add, LinkInv, NoLostTask, Carried, TypeOK
<1>7. AbortMeansCancelled'
  <2>1. \A r \in Slot : slot[r] # Idle => slot[r].task # t /\ slot[r].task \in Task
    BY <1>1, HeldIsIssued DEF Unused
  <2>. QED  BY <1>0, <1>4, <2>1 DEF Add, LinkInv, AbortMeansCancelled, At
<1>8. CleanupArmed' /\ MapHasObject'
  BY <1>0, <1>4 DEF Add, LinkInv, CleanupArmed, MapHasObject, Terminal, TypeOK
<1>9. RowAgrees'
  <2>1. \A u \in tasks' \ lostWrite' : u # t => u \in tasks \ lostWrite /\ u \in Task
    BY <1>0, <1>5 DEF Add, TypeOK
  <2>2. UNCHANGED retryTimer  BY DEF Add
  <2>. QED  BY <1>2, <1>4, <1>5, <2>1, <2>2 DEF LinkInv, RowAgrees
<1>10. RunKeepsStatus'
  BY <1>1, <1>3, <1>4 DEF LinkInv, RunKeepsStatus, Unused, Drives
<1>. QED  BY <1>6, <1>7, <1>8, <1>9, <1>10 DEF LinkInv

LEMMA StartKeepsLink == SingleInv /\ LinkInv /\ StartAny => LinkInv'
<1>. SUFFICES ASSUME SingleInv, LinkInv, NEW s \in Slot, NEW j \in waiting, Start(s, j)
              PROVE  LinkInv'
  BY DEF StartAny
<1>. DEFINE t == j.task
<1>0. TypeOK  BY DEF SingleInv
<1>1. /\ t \in Task /\ Queued(t) /\ t \notin retryTimer
      /\ \A r \in Slot : ~Holds(r, t)
  BY HeldIsIssued DEF SingleInv, SingleExecution
<1>2. \A u \in Task : Queued(u)' <=> (u # t /\ Queued(u))
  BY DEF Start, Queued, SingleInv, SingleExecution
<1>3. /\ slot[s] = Idle /\ \A r \in Slot \ {s} : slot'[r] = slot[r]
      /\ slot'[s] # Idle /\ slot'[s].task = t
      /\ \/ slot'[s].phase = "starting" /\ runningTasks' = runningTasks
         \/ slot'[s].phase = "executing" /\ runningTasks' = runningTasks \cup {t}
  <2>1. \A p \in Phase : [task |-> t, phase |-> p] # Idle
    BY <1>1, QueueAssumption DEF Run
  <2>. QED  BY <1>0, <2>1 DEF Start, TypeOK, Phase
<1>4. mem'[t] = "running" /\ \A u \in Task \ {t} : mem'[u] = mem[u]
  BY <1>0, <1>1 DEF Start, TypeOK
<1>5. /\ \A u \in Task \ {t} : row'[u] = row[u]
      /\ t \notin lostWrite' => row[t] = "none" \/ row'[t] = "running"
      /\ lostWrite \subseteq lostWrite'
  BY <1>0, <1>1, WriteTouchesOne DEF Start
<1>6. \A r \in Slot, u \in Task :
        Drives(r, u)' <=> ((r = s /\ u = t) \/ (r # s /\ Drives(r, u)))
  BY <1>3 DEF Drives, Holds, At
<1>7. NoLostTask'
  <2>1. Carried(t)'  BY <1>1, <1>6 DEF Carried, Drives
  <2>2. \A u \in Task \ {t} : Carried(u) => Carried(u)'
    BY <1>2, <1>3, <1>6 DEF Start, Carried, Drives, Holds
  <2>. QED  BY <1>0, <1>4, <2>1, <2>2 DEF Start, LinkInv, NoLostTask, TypeOK
<1>8. AbortMeansCancelled'
  <2>1. \A u \in runningTasks : \E r \in Slot : At(r, "executing")' /\ slot'[r].task = u
    BY <1>3 DEF LinkInv, AbortMeansCancelled, At
  <2>2. \A r \in Slot \ {s} : At(r, "executing")' /\ slot'[r].task \notin runningTasks'
          => mem'[slot'[r].task] = "cancelled"
    <3>1. \A r \in Slot : slot[r] # Idle => slot[r].task # t /\ slot[r].task \in Task
      BY <1>1, HeldIsIssued DEF Holds
    <3>. QED  BY <1>3, <1>4, <3>1 DEF LinkInv, AbortMeansCancelled, At
  <2>. QED  BY <1>3, <2>1, <2>2 DEF AbortMeansCancelled, At
<1>9. CleanupArmed' /\ MapHasObject'
  BY <1>0, <1>4 DEF Start, LinkInv, CleanupArmed, MapHasObject, Terminal, TypeOK
<1>10. RowAgrees'
  <2>1. t \in tasks \ lostWrite => row[t] # "none"
    BY DEF LinkInv, RowAgrees, MapHasObject
  <2>2. UNCHANGED <<tasks, retryTimer>>  BY DEF Start
  <2>. QED
    BY <1>0, <1>2, <1>4, <1>5, <2>1, <2>2 DEF LinkInv, RowAgrees, TypeOK
<1>11. RunKeepsStatus'
  BY <1>1, <1>4, <1>6 DEF LinkInv, RunKeepsStatus, Drives
<1>. QED  BY <1>7, <1>8, <1>9, <1>10, <1>11 DEF LinkInv

LEMMA ScheduleRetryKeepsLink ==
  SingleInv /\ LinkInv /\ (\E s \in Slot : ScheduleRetry(s)) => LinkInv'
<1>. SUFFICES ASSUME SingleInv, LinkInv, NEW s \in Slot, ScheduleRetry(s) PROVE LinkInv'
  OBVIOUS
<1>. DEFINE t == slot[s].task
<1>0. TypeOK  BY DEF SingleInv
<1>1. /\ slot[s] # Idle /\ slot[s].phase = "failed" /\ t \in Task
      /\ \A r \in Slot \ {s} : ~Holds(r, t)
  BY HolderIsAlone DEF ScheduleRetry, At
<1>2. \A u \in Task : Queued(u)' <=> Queued(u)
  BY DEF ScheduleRetry, ArmRetry, Queued
<1>3. /\ slot'[s] = Idle /\ \A r \in Slot \ {s} : slot'[r] = slot[r]
      /\ retryTimer' = retryTimer \cup {t}
      /\ UNCHANGED <<mem, tasks, runningTasks, cleanupTimer>>
  BY <1>0, ReleaseEffect DEF ScheduleRetry, ArmRetry
<1>4. /\ \A u \in Task \ {t} : row'[u] = row[u]
      /\ t \notin lostWrite' => row[t] = "none" \/ row'[t] = "pending"
      /\ lostWrite \subseteq lostWrite'
  BY <1>0, <1>1
     DEF ScheduleRetry, SetRow, LoseWrite, SaveAttemptOnly, Unsaved, table, TypeOK
<1>5. \A r \in Slot, u \in Task : Drives(r, u)' <=> (r # s /\ Drives(r, u))
  BY <1>3 DEF Drives, Holds, At
<1>6. mem[t] \in {"running", "cancelled"}
  BY <1>1 DEF LinkInv, RunKeepsStatus, Drives, Holds, At
<1>7. NoLostTask'
  <2>1. \A u \in Task : Carried(u) => Carried(u)'
    BY <1>2, <1>3, <1>5 DEF Carried, Drives, Holds
  <2>. QED  BY <1>0, <1>3, <2>1 DEF LinkInv, NoLostTask, TypeOK
<1>8. AbortMeansCancelled'
  BY <1>1, <1>3 DEF LinkInv, AbortMeansCancelled, At
<1>9. CleanupArmed' /\ MapHasObject'
  BY <1>3 DEF LinkInv, CleanupArmed, MapHasObject
<1>10. RowAgrees'
  <2>1. t \in tasks \ lostWrite => row[t] # "none"
    BY DEF LinkInv, RowAgrees, MapHasObject
  <2>. QED
    BY <1>0, <1>2, <1>3, <1>4, <1>6, <2>1 DEF LinkInv, RowAgrees, TypeOK
<1>11. RunKeepsStatus'
  BY <1>3, <1>5 DEF LinkInv, RunKeepsStatus
<1>. QED  BY <1>7, <1>8, <1>9, <1>10, <1>11 DEF LinkInv

LEMMA RetryFiresKeepsLink ==
  SingleInv /\ LinkInv /\ (\E t \in Task : RetryFires(t)) => LinkInv'
<1>. SUFFICES ASSUME SingleInv, LinkInv, NEW t \in Task, RetryFires(t) PROVE LinkInv'
  OBVIOUS
<1>0. TypeOK  BY DEF SingleInv
<1>1. \A u \in Task : Queued(u)' <=> (u = t \/ Queued(u))
  BY JobQueues DEF RetryFires, Requeue
<1>2. /\ retryTimer' = retryTimer \ {t}
      /\ UNCHANGED <<mem, slot, tasks, runningTasks, cleanupTimer, row, lostWrite>>
  BY DEF RetryFires, table, history
<1>3. \A r \in Slot, u \in Task : /\ Holds(r, u)' <=> Holds(r, u)
                                  /\ Drives(r, u)' <=> Drives(r, u)
                                  /\ At(r, "unwatching")' <=> At(r, "unwatching")
  BY <1>2 DEF Holds, Drives, At
<1>4. NoLostTask'
  BY <1>0, <1>1, <1>2, <1>3 DEF LinkInv, NoLostTask, Carried, TypeOK
<1>5. AbortMeansCancelled' /\ CleanupArmed' /\ MapHasObject'
  BY <1>2 DEF LinkInv, AbortMeansCancelled, CleanupArmed, MapHasObject, At
<1>6. RowAgrees'
  BY <1>0, <1>1, <1>2 DEF LinkInv, RowAgrees, TypeOK
<1>7. RunKeepsStatus'
  BY <1>2, <1>3 DEF LinkInv, RunKeepsStatus
<1>. QED  BY <1>4, <1>5, <1>6, <1>7 DEF LinkInv

LEMMA CancelKeepsLink ==
  SingleInv /\ LinkInv /\ (\E t \in Task : Cancel(t)) => LinkInv'
<1>. SUFFICES ASSUME SingleInv, LinkInv, NEW t \in Task, Cancel(t) PROVE LinkInv'
  OBVIOUS
<1>0. TypeOK  BY DEF SingleInv
<1>1. /\ runningTasks \ {t} \subseteq runningTasks' /\ runningTasks' \subseteq runningTasks
      /\ UNCHANGED <<slot, tasks, waiting, retryTimer>>
  BY DEF Cancel
<1>2. mem'[t] = "cancelled" /\ \A u \in Task \ {t} : mem'[u] = mem[u]
  BY <1>0 DEF Cancel, TypeOK
<1>3. /\ \A u \in Task \ {t} : row'[u] = row[u]
      /\ t \notin lostWrite' => row[t] = "none" \/ row'[t] = "cancelled"
      /\ lostWrite \subseteq lostWrite'
  BY <1>0, WriteTouchesOne DEF Cancel
<1>4. \A r \in Slot, u \in Task : /\ Queued(u)' <=> Queued(u)
                                  /\ Holds(r, u)' <=> Holds(r, u)
                                  /\ Drives(r, u)' <=> Drives(r, u)
                                  /\ At(r, "unwatching")' <=> At(r, "unwatching")
                                  /\ At(r, "executing")' <=> At(r, "executing")
  BY <1>1 DEF Queued, Holds, Drives, At
<1>5. NoLostTask'
  <2>1. \A u \in Task : Carried(u) => Carried(u)'
    BY <1>1, <1>4 DEF Carried, Queued
  <2>. QED  BY <1>0, <1>1, <1>2, <2>1 DEF LinkInv, NoLostTask, Live, TypeOK
<1>6. AbortMeansCancelled'
  <2>1. \A r \in Slot : slot[r] # Idle => slot[r].task \in Task  BY HeldIsIssued
  <2>. QED  BY <1>1, <1>2, <2>1 DEF LinkInv, AbortMeansCancelled, At
<1>7. CleanupArmed' /\ MapHasObject'
  BY <1>0, <1>2 DEF Cancel, ArmCleanup, LinkInv, CleanupArmed, MapHasObject, TypeOK
<1>8. RowAgrees'
  <2>1. t \in tasks \ lostWrite => row[t] # "none"
    BY DEF LinkInv, RowAgrees, MapHasObject
  <2>2. \A u \in Task : Queued(u)' <=> Queued(u)  BY <1>1 DEF Queued
  <2>. QED  BY <1>0, <1>1, <1>2, <1>3, <2>1, <2>2 DEF LinkInv, RowAgrees, TypeOK
<1>9. RunKeepsStatus'
  BY <1>2, <1>4 DEF LinkInv, RunKeepsStatus
<1>. QED  BY <1>5, <1>6, <1>7, <1>8, <1>9 DEF LinkInv

LEMMA ClearKeepsLink == SingleInv /\ LinkInv /\ Clear => LinkInv'
<1>. SUFFICES ASSUME SingleInv, LinkInv, Clear PROVE LinkInv'
  OBVIOUS
<1>0. TypeOK  BY DEF SingleInv
<1>1. tasks' = {} /\ UNCHANGED <<slot, runningTasks>>  BY DEF Clear
<1>2. \A u \in Task : mem[u] \in {"running", "cancelled"} => mem'[u] = mem[u]
  BY <1>0 DEF Clear, TypeOK
<1>3. NoLostTask' /\ CleanupArmed' /\ RowAgrees' /\ MapHasObject'
  BY <1>1 DEF NoLostTask, CleanupArmed, RowAgrees, MapHasObject
<1>4. AbortMeansCancelled'
  <2>1. \A r \in Slot : slot[r] # Idle => slot[r].task \in Task  BY HeldIsIssued
  <2>. QED  BY <1>1, <1>2, <2>1 DEF LinkInv, AbortMeansCancelled, At
<1>5. RunKeepsStatus'
  BY <1>1, <1>2 DEF LinkInv, RunKeepsStatus, Drives, Holds, At
<1>. QED  BY <1>3, <1>4, <1>5 DEF LinkInv

LEMMA CrashKeepsLink == SingleInv /\ CrashRestart => LinkInv'
<1>. SUFFICES ASSUME SingleInv, CrashRestart PROVE LinkInv'
  OBVIOUS
<1>0. TypeOK  BY DEF SingleInv
<1>1. \A r \in Slot : slot'[r] = Idle  BY DEF CrashRestart
<1>2. \A u \in tasks' : u \in Task /\ mem'[u] = "pending" /\ row'[u] \in Live /\ Queued(u)'
  <2>1. \A u \in Restorable : Queued(u)'
    <3>1. \A u \in Restorable : [task |-> u, kind |-> "first"] \in waiting'
      BY DEF CrashRestart
    <3>. QED  BY <3>1 DEF Queued
  <2>. QED  BY <2>1 DEF CrashRestart, Restorable, table
<1>3. NoLostTask' /\ CleanupArmed' /\ RowAgrees' /\ MapHasObject'
  BY <1>2 DEF NoLostTask, Carried, CleanupArmed, RowAgrees, MapHasObject, Live, Terminal
<1>4. AbortMeansCancelled' /\ RunKeepsStatus'
  BY <1>1 DEF CrashRestart, AbortMeansCancelled, RunKeepsStatus, Drives, Holds, At
<1>. QED  BY <1>3, <1>4 DEF LinkInv

-----------------------------------------------------------------------------
LEMMA StepLink == SingleInv /\ LinkInv /\ [Next]_vars => LinkInv'
<1>. SUFFICES ASSUME SingleInv, LinkInv, [Next]_vars PROVE LinkInv'
  OBVIOUS
<1>1. ASSUME NEW s \in Slot, Register(s) PROVE LinkInv'
  BY <1>1, QuietKeepsLink DEF Register, At, Phase, table, history
<1>2. ASSUME NEW s \in Slot, ExecEnd(s) PROVE LinkInv'
  BY <1>2, QuietKeepsLink DEF ExecEnd, Deregister, At, Phase, table, history
<1>3. ASSUME NEW s \in Slot, UnexpectedError(s) \/ Fail(s) PROVE LinkInv'
  BY <1>3, EndKeepsLink DEF UnexpectedError, Fail, MarkFailed, At, Terminal
<1>4. ASSUME NEW s \in Slot, Complete(s) PROVE LinkInv'
  BY <1>4, EndKeepsLink DEF Complete, At, Terminal
<1>5. ASSUME NEW s \in Slot, Unwatched(s) PROVE LinkInv'
  <2>0. TypeOK  BY DEF SingleInv
  <2>1. slot'[s] = Idle /\ \A r \in Slot \ {s} : slot'[r] = slot[r]
    BY <1>5, <2>0, ReleaseEffect DEF Unwatched
  <2>2. UNCHANGED <<mem, tasks, waiting, retryTimer, cleanupTimer, runningTasks, row, lostWrite>>
    BY <1>5 DEF Unwatched, table, history
  <2>3. \A r \in Slot, u \in Task : Drives(r, u)' <=> Drives(r, u)
    BY <1>5, <2>1 DEF Unwatched, Drives, Holds, At
  <2>4. \A u \in Task : Queued(u)' <=> Queued(u)  BY <2>2 DEF Queued
  <2>5. NoLostTask'
    BY <2>0, <2>2, <2>3, <2>4 DEF LinkInv, NoLostTask, Carried, Drives, TypeOK
  <2>6. AbortMeansCancelled'
    BY <1>5, <2>1, <2>2 DEF Unwatched, LinkInv, AbortMeansCancelled, At
  <2>7. CleanupArmed' /\ MapHasObject' /\ RowAgrees' /\ RunKeepsStatus'
    BY <2>0, <2>2, <2>3, <2>4
       DEF LinkInv, CleanupArmed, MapHasObject, RowAgrees, RunKeepsStatus, TypeOK
  <2>. QED  BY <2>5, <2>6, <2>7 DEF LinkInv
<1>6. ASSUME NEW t \in Task, CleanupFires(t) PROVE LinkInv'
  <2>1. tasks' \subseteq tasks
        /\ \A u \in tasks' : mem[u] \in Terminal /\ u \in cleanupTimer => u \in cleanupTimer'
    BY <1>6 DEF CleanupFires
  <2>. QED  BY <1>6, <2>1, StillKeepsLink DEF CleanupFires, table, history
<1>7. CASE Pause \/ Resume
  BY <1>7, StillKeepsLink DEF Pause, Resume, table, history
<1>8. ASSUME NEW n \in 1 .. Cardinality(Slot), SetConcurrency(n) PROVE LinkInv'
  BY <1>8, StillKeepsLink DEF SetConcurrency, table, history
<1>9. CASE UNCHANGED vars
  BY <1>9, StillKeepsLink DEF vars, memory, table, history
<1>. QED
  BY <1>1, <1>2, <1>3, <1>4, <1>5, <1>6, <1>7, <1>8, <1>9, AddKeepsLink, StartKeepsLink,
     ScheduleRetryKeepsLink, RetryFiresKeepsLink, CancelKeepsLink, ClearKeepsLink,
     CrashKeepsLink
     DEF Next, Advance

LEMMA LinkAlways == Spec => []LinkInv
BY InitSingle, StepSingle, InitLink, StepLink, PTL DEF Spec

\* A task the API shows as pending or running always has a job, a run or a retry
\* timer that continues it.
THEOREM NothingLost == Spec => []NoLostTask
<1>1. LinkInv => NoLostTask  BY DEF LinkInv
<1>. QED  BY <1>1, LinkAlways, PTL

\* The executor is right to take an aborted run that left runningTasks for a
\* cancelled one, for any number of slots and whatever else the queue does.
THEOREM AbortRecognised == Spec => []AbortMeansCancelled
<1>1. LinkInv => AbortMeansCancelled  BY DEF LinkInv
<1>. QED  BY <1>1, LinkAlways, PTL

\* Every finished task that is still in the map has a pending cleanup timer, so
\* the map cannot grow for ever.
THEOREM FinishedIsCleanedUp == Spec => []CleanupArmed
<1>1. LinkInv => CleanupArmed  BY DEF LinkInv
<1>. QED  BY <1>1, LinkAlways, PTL

\* For a task none of whose writes was lost, the table says what memory says,
\* except while a job or a timer is going to start the task.
THEOREM TableAgrees == Spec => []RowAgrees
<1>1. LinkInv => RowAgrees  BY DEF LinkInv
<1>. QED  BY <1>1, LinkAlways, PTL

-----------------------------------------------------------------------------
(* How often an agent is started.                                          *)

\* A job or a timer is going to start t.
Ready(t) == Queued(t) \/ t \in retryTimer

ReadyHasObject == \A t \in Task : Ready(t) => mem[t] # "none"

\* The starts of t, counted against the attempts in memory while the process
\* lives and against the row for the process that may follow.
Budget(t) ==
  /\ t \notin issued => execs[t] = 0 /\ attempt[t] = 0 /\ rowAttempt[t] = 0
  /\ mem[t] # "none" /\ row[t] # "none" => rowAttempt[t] = attempt[t]
  /\ Ready(t) => execs[t] <= attempt[t] + crashes
  /\ \A s \in Slot : Drives(s, t) => execs[t] <= 1 + attempt[t] + crashes
  /\ row[t] \in Live => execs[t] <= 1 + rowAttempt[t] + crashes
  /\ execs[t] <= 1 + MaxRetries[t] + crashes

ExecInv == ReadyHasObject /\ \A t \in Task \ lostWrite : Budget(t)

LEMMA InitExec == Init => ExecInv
BY QueueAssumption
   DEF Init, ExecInv, ReadyHasObject, Budget, Ready, Queued, Drives, Holds, Live

\* A step that starts no agent, arms no retry and keeps the counters.
LEMMA BudgetKept ==
  ASSUME TypeOK, ExecInv, UNCHANGED <<attempt, issued, execs, crashes, rowAttempt>>,
         lostWrite \subseteq lostWrite',
         \A t \in Task :
           /\ mem'[t] # "none" <=> mem[t] # "none"
           /\ row'[t] # "none" => row[t] # "none"
           /\ row'[t] \in Live => row[t] \in Live
           /\ Ready(t)' => Ready(t)
           /\ \A s \in Slot : Drives(s, t)' => Drives(s, t)
  PROVE  ExecInv'
BY DEF ExecInv, ReadyHasObject, Budget

LEMMA StepExec == SingleInv /\ LinkInv /\ ExecInv /\ [Next]_vars => ExecInv'
<1>. SUFFICES ASSUME SingleInv, LinkInv, ExecInv, [Next]_vars PROVE ExecInv'
  OBVIOUS
<1>. USE QueueAssumption
<1>0. TypeOK /\ TypeOK'  BY StepTypeOK DEF SingleInv
<1>1. ASSUME NEW t \in Task, Add(t) PROVE ExecInv'
  <2>1. \A u \in Task : Ready(u)' <=> (u = t \/ Ready(u))
    BY <1>1, JobQueues DEF Add, Ready
  <2>2. \A s \in Slot, u \in Task : Drives(s, u)' <=> Drives(s, u)
    BY <1>1 DEF Add, Drives, Holds, At
  <2>3. mem'[t] = "pending" /\ \A u \in Task \ {t} : mem'[u] = mem[u] /\ row'[u] = row[u]
    BY <1>0, <1>1 DEF Add, LoseWrite, table, TypeOK
  <2>4. /\ lostWrite \subseteq lostWrite' /\ issued' = issued \cup {t} /\ t \notin issued
        /\ UNCHANGED <<attempt, rowAttempt, execs, crashes>>
    BY <1>1 DEF Add, LoseWrite, Unsaved, table
  <2>5. \A s \in Slot : ~Drives(s, t)
    BY <2>4 DEF SingleInv, Fresh, Unused, Drives
  <2>6. t \notin lostWrite' => Budget(t)'
    BY <1>0, <2>2, <2>4, <2>5 DEF ExecInv, Budget, TypeOK
  <2>7. \A u \in Task \ lostWrite' : u # t => Budget(u)'
    BY <2>1, <2>2, <2>3, <2>4 DEF ExecInv, Budget
  <2>8. ReadyHasObject'
    BY <2>1, <2>3 DEF ExecInv, ReadyHasObject
  <2>. QED  BY <2>6, <2>7, <2>8 DEF ExecInv
<1>2. ASSUME NEW s \in Slot, NEW j \in waiting, Start(s, j) PROVE ExecInv'
  <2>. DEFINE t == j.task
  <2>1. t \in Task /\ t \in issued /\ Ready(t) /\ t \notin retryTimer
    BY HeldIsIssued DEF Ready, SingleInv, SingleExecution
  <2>2. \A u \in Task : Ready(u)' <=> (u # t /\ Ready(u))
    <3>1. \A u \in Task : Queued(u)' <=> (u # t /\ Queued(u))
      BY <1>2 DEF Start, Queued, SingleInv, SingleExecution
    <3>. QED  BY <1>2, <2>1, <3>1 DEF Start, Ready
  <2>3. \A r \in Slot, u \in Task : u # t => (Drives(r, u)' => Drives(r, u))
    <3>1. \A p \in Phase : [task |-> t, phase |-> p].task = t
      OBVIOUS
    <3>2. \A r \in Slot \ {s} : slot'[r] = slot[r]
      BY <1>0, <1>2 DEF Start, TypeOK
    <3>3. slot'[s].task = t
      BY <1>0, <1>2 DEF Start, TypeOK
    <3>. QED  BY <3>2, <3>3 DEF Drives, Holds, At
  <2>4. mem'[t] = "running" /\ \A u \in Task \ {t} : mem'[u] = mem[u]
    BY <1>0, <1>2, <2>1 DEF Start, TypeOK
  <2>5. /\ \A u \in Task : (u # t => row'[u] = row[u]) /\ rowAttempt'[u] = rowAttempt[u]
        /\ row'[t] # "none" => row[t] # "none"
        /\ lostWrite \subseteq lostWrite'
    BY <1>0, <1>2, <2>1, WriteTouchesOne DEF Start
  <2>6. /\ execs'[t] = execs[t] + 1 /\ \A u \in Task \ {t} : execs'[u] = execs[u]
        /\ UNCHANGED <<attempt, issued, crashes>>
    BY <1>0, <1>2, <2>1 DEF Start, TypeOK
  <2>7. t \notin lostWrite' => Budget(t)'
    <3>. SUFFICES ASSUME t \notin lostWrite' PROVE Budget(t)'
      OBVIOUS
    <3>1. mem[t] # "none" /\ Budget(t)
      BY <2>1, <2>5 DEF ExecInv, ReadyHasObject
    <3>2. execs'[t] <= 1 + attempt[t] + crashes /\ attempt[t] <= MaxRetries[t]
      BY <1>0, <2>1, <2>6, <3>1 DEF Budget, TypeOK
    <3>3. attempt[t] \in Nat /\ MaxRetries[t] \in Nat /\ crashes \in Nat /\ execs'[t] \in Nat
      BY <1>0, <2>1 DEF TypeOK
    <3>4. execs'[t] <= 1 + MaxRetries[t] + crashes
      BY <3>2, <3>3
    <3>5. row'[t] # "none" => rowAttempt'[t] = attempt[t]
      BY <2>1, <2>5, <3>1 DEF Budget
    <3>6. row'[t] \in Live => row'[t] # "none"
      BY DEF Live
    <3>. QED  BY <2>1, <2>2, <2>6, <3>2, <3>4, <3>5, <3>6 DEF Budget
  <2>8. \A u \in Task \ lostWrite' : u # t => Budget(u)'
    BY <2>2, <2>3, <2>4, <2>5, <2>6 DEF ExecInv, Budget
  <2>9. ReadyHasObject'
    BY <2>2, <2>4 DEF ExecInv, ReadyHasObject
  <2>. QED  BY <2>7, <2>8, <2>9 DEF ExecInv
<1>3. ASSUME NEW s \in Slot, ScheduleRetry(s) PROVE ExecInv'
  <2>0. PICK t \in Task : t = slot[s].task
    BY <1>3, HeldIsIssued DEF ScheduleRetry, At
  <2>1. t \in issued /\ Drives(s, t) /\ mem[t] # "none"
    BY <1>3, <2>0, HeldIsIssued DEF ScheduleRetry, At, LinkInv, RunKeepsStatus, Drives
  <2>2. \A u \in Task : Ready(u)' <=> (u = t \/ Ready(u))
    BY <1>3, <2>0 DEF ScheduleRetry, ArmRetry, Ready, Queued
  <2>3. \A r \in Slot, u \in Task : Drives(r, u)' => Drives(r, u) /\ u # t
    <3>1. slot'[s] = Idle /\ \A r \in Slot \ {s} : slot'[r] = slot[r]
      BY <1>0, <1>3, ReleaseEffect DEF ScheduleRetry
    <3>2. \A r \in Slot \ {s} : ~Holds(r, t)
      BY <1>3, <2>0, HolderIsAlone DEF ScheduleRetry, At
    <3>. QED  BY <3>1, <3>2 DEF Drives, Holds, At
  <2>4. /\ attempt'[t] = attempt[t] + 1 /\ \A u \in Task \ {t} : attempt'[u] = attempt[u]
        /\ attempt[t] < MaxRetries[t]
        /\ UNCHANGED <<mem, issued, execs, crashes>>
    BY <1>0, <1>3, <2>0 DEF ScheduleRetry, MayRetry, TypeOK
  <2>5. /\ \A u \in Task \ {t} : row'[u] = row[u] /\ rowAttempt'[u] = rowAttempt[u]
        /\ t \notin lostWrite' =>
             IF row[t] = "none" THEN row'[t] = "none" ELSE rowAttempt'[t] = attempt[t] + 1
        /\ lostWrite \subseteq lostWrite'
    BY <1>0, <1>3, <2>0
       DEF ScheduleRetry, SetRow, LoseWrite, SaveAttemptOnly, Unsaved, table, TypeOK
  <2>6. t \notin lostWrite' => Budget(t)'
    <3>. SUFFICES ASSUME t \notin lostWrite' PROVE Budget(t)'
      OBVIOUS
    <3>1. Budget(t) /\ execs[t] <= 1 + attempt[t] + crashes
      BY <2>1, <2>5 DEF ExecInv, Budget
    <3>2. attempt[t] \in Nat /\ MaxRetries[t] \in Nat /\ crashes \in Nat /\ execs[t] \in Nat
      BY <1>0, <2>1 DEF TypeOK
    <3>3. execs'[t] <= attempt'[t] + crashes'
      BY <2>4, <3>1, <3>2
    <3>4. row'[t] # "none" => rowAttempt'[t] = attempt'[t]
      BY <2>4, <2>5
    <3>5. row'[t] \in Live => execs'[t] <= 1 + rowAttempt'[t] + crashes'
      BY <2>4, <3>1, <3>2, <3>4 DEF Live
    <3>. QED  BY <2>1, <2>3, <2>4, <3>1, <3>3, <3>4, <3>5 DEF Budget
  <2>7. \A u \in Task \ lostWrite' : u # t => Budget(u)'
    BY <2>2, <2>3, <2>4, <2>5 DEF ExecInv, Budget
  <2>8. ReadyHasObject'
    BY <2>1, <2>2, <2>4 DEF ExecInv, ReadyHasObject
  <2>. QED  BY <2>6, <2>7, <2>8 DEF ExecInv
<1>4. CASE CrashRestart
  <2>1. \A u \in Task : Ready(u)' => u \in Restorable
    BY <1>4 DEF CrashRestart, Ready, Queued
  <2>2. \A s \in Slot, u \in Task : ~Drives(s, u)'
    BY <1>4 DEF CrashRestart, Drives, Holds
  <2>3. \A u \in Task \ lostWrite' : Budget(u)'
    <3>. SUFFICES ASSUME NEW u \in Task \ lostWrite' PROVE Budget(u)'
      OBVIOUS
    <3>1. Budget(u) /\ crashes' = crashes + 1
          /\ UNCHANGED <<row, rowAttempt, issued, execs>>
      BY <1>4 DEF CrashRestart, ExecInv, table
    <3>2. /\ execs[u] \in Nat /\ rowAttempt[u] \in Nat /\ crashes \in Nat /\ MaxRetries[u] \in Nat
      BY <1>0 DEF TypeOK
    <3>3. attempt'[u] = IF u \in Restorable THEN rowAttempt[u] ELSE 0
      BY <1>4 DEF CrashRestart
    <3>4. mem'[u] # "none" => u \in Restorable
      BY <1>4 DEF CrashRestart
    <3>5. u \in Restorable <=> row[u] \in Live
      BY DEF Restorable
    <3>6. u \notin issued' => execs'[u] = 0 /\ attempt'[u] = 0 /\ rowAttempt'[u] = 0
      BY <3>1, <3>3 DEF Budget
    <3>7. /\ u \in Restorable => execs'[u] <= attempt'[u] + crashes'
          /\ row'[u] \in Live => execs'[u] <= 1 + rowAttempt'[u] + crashes'
          /\ execs'[u] <= 1 + MaxRetries[u] + crashes'
      BY <3>1, <3>2, <3>3, <3>5 DEF Budget
    <3>. QED  BY <2>1, <2>2, <3>1, <3>3, <3>4, <3>6, <3>7 DEF Budget
  <2>4. ReadyHasObject'
    BY <1>4, <2>1 DEF CrashRestart, ReadyHasObject
  <2>. QED  BY <2>3, <2>4 DEF ExecInv
<1>5. ASSUME UNCHANGED <<waiting, retryTimer>> PROVE \A t \in Task : Ready(t)' => Ready(t)
  BY <1>5 DEF Ready, Queued
<1>6. ASSUME NEW s \in Slot, slot[s] # Idle, NEW p \in Phase, ~At(s, "unwatching"),
             Release(s) \/ slot' = [slot EXCEPT ![s].phase = p]
      PROVE  \A r \in Slot, t \in Task : Drives(r, t)' => Drives(r, t)
  BY <1>0, <1>6, ReleaseEffect, PhaseEffect DEF Drives, Holds, At
<1>7. ASSUME NEW s \in Slot, Register(s) \/ ExecEnd(s) PROVE ExecInv'
  <2>1. \A r \in Slot, t \in Task : Drives(r, t)' => Drives(r, t)
    BY <1>6, <1>7 DEF Register, ExecEnd, At, Phase
  <2>. QED  BY <1>0, <1>5, <1>7, <2>1, BudgetKept DEF Register, ExecEnd, table, history
<1>8. ASSUME NEW s \in Slot, NEW st \in Terminal, slot[s] # Idle,
             mem' = [mem EXCEPT ![slot[s].task] = st], Persist(slot[s].task, st),
             ~At(s, "unwatching"),
             Release(s) \/ slot' = [slot EXCEPT ![s].phase = "unwatching"],
             UNCHANGED <<attempt, waiting, retryTimer, issued, execs, crashes>>
      PROVE  ExecInv'
  <2>. DEFINE t == slot[s].task
  <2>1. t \in Task /\ mem[t] # "none"
    BY <1>8, HeldIsIssued DEF At, LinkInv, RunKeepsStatus, Drives
  <2>2. \A r \in Slot, u \in Task : Drives(r, u)' => Drives(r, u)
    BY <1>6, <1>8 DEF Phase
  <2>3. /\ \A u \in Task : rowAttempt'[u] = rowAttempt[u] /\ (u # t => row'[u] = row[u])
        /\ row'[t] \in {row[t], st} /\ (row[t] = "none" => row'[t] = "none")
        /\ lostWrite \subseteq lostWrite'
    BY <1>0, <1>8, <2>1, WriteTouchesOne
  <2>4. st \notin Live /\ st # "none"  BY DEF Live, Terminal
  <2>5. rowAttempt' = rowAttempt  BY <1>0, <2>3 DEF TypeOK
  <2>6. \A u \in Task : mem'[u] # "none" <=> mem[u] # "none"
    BY <1>0, <1>8, <2>1, <2>4 DEF TypeOK
  <2>. QED  BY <1>0, <1>5, <1>8, <2>2, <2>3, <2>4, <2>5, <2>6, BudgetKept
<1>9. ASSUME NEW s \in Slot, UnexpectedError(s) \/ Fail(s) \/ Complete(s) PROVE ExecInv'
  BY <1>8, <1>9 DEF UnexpectedError, Fail, Complete, MarkFailed, At, Terminal
<1>10. ASSUME NEW s \in Slot, Unwatched(s) PROVE ExecInv'
  <2>1. \A r \in Slot, t \in Task : Drives(r, t)' => Drives(r, t)
    BY <1>0, <1>10, ReleaseEffect DEF Unwatched, Drives, Holds, At
  <2>. QED  BY <1>0, <1>5, <1>10, <2>1, BudgetKept DEF Unwatched, table, history
<1>11. ASSUME NEW t \in Task, RetryFires(t) PROVE ExecInv'
  <2>1. \A u \in Task : Ready(u)' => Ready(u)
    BY <1>11, JobQueues DEF RetryFires, Requeue, Ready
  <2>2. \A s \in Slot, u \in Task : Drives(s, u)' => Drives(s, u)
    BY <1>11 DEF RetryFires, Drives, Holds, At
  <2>. QED  BY <1>0, <1>11, <2>1, <2>2, BudgetKept DEF RetryFires, table, history
<1>12. ASSUME NEW t \in Task, Cancel(t) PROVE ExecInv'
  <2>1. \A s \in Slot, u \in Task : Drives(s, u)' => Drives(s, u)
    BY <1>12 DEF Cancel, Drives, Holds, At
  <2>2. /\ \A u \in Task : rowAttempt'[u] = rowAttempt[u] /\ (u # t => row'[u] = row[u])
        /\ row'[t] \in {row[t], "cancelled"} /\ (row[t] = "none" => row'[t] = "none")
        /\ lostWrite \subseteq lostWrite'
    BY <1>0, <1>12, WriteTouchesOne DEF Cancel
  <2>3. rowAttempt' = rowAttempt  BY <1>0, <2>2 DEF TypeOK
  <2>4. \A u \in Task : mem'[u] # "none" <=> mem[u] # "none"
    BY <1>0, <1>12 DEF Cancel, Live, TypeOK
  <2>. QED
    BY <1>0, <1>5, <1>12, <2>1, <2>2, <2>3, <2>4, BudgetKept DEF Cancel, Live
<1>13. CASE Clear
  <2>1. \A u \in Task : ~Queued(u)'  BY <1>13 DEF Clear, Queued
  <2>2. \A s \in Slot, u \in Task : Drives(s, u)' => Drives(s, u)
    BY <1>13 DEF Clear, Drives, Holds, At
  <2>3. \A u \in Task : mem'[u] # "none" <=> mem[u] # "none"
    BY <1>0, <1>13 DEF Clear, TypeOK
  <2>. QED  BY <1>0, <1>13, <2>1, <2>2, <2>3, BudgetKept DEF Clear, Ready, table, history
<1>14. ASSUME UNCHANGED <<mem, attempt, waiting, slot, retryTimer, table, history>>
       PROVE  ExecInv'
  <2>1. \A s \in Slot, u \in Task : Drives(s, u)' => Drives(s, u)
    BY <1>14 DEF Drives, Holds, At
  <2>. QED  BY <1>0, <1>5, <1>14, <2>1, BudgetKept DEF table, history
<1>. QED
  BY <1>1, <1>2, <1>3, <1>4, <1>7, <1>9, <1>10, <1>11, <1>12, <1>13, <1>14
     DEF Next, StartAny, Advance, CleanupFires, Pause, Resume, SetConcurrency, vars, memory

\* One start per attempt and one more per crash is a bound for every retry budget
\* and any number of crashes, unless a write was lost.
THEOREM StartsAreBounded == Spec => []ExecutionsBounded
<1>2. ExecInv => ExecutionsBounded  BY DEF ExecInv, Budget, ExecutionsBounded
<1>3. Spec => []SingleInv  BY InitSingle, StepSingle, PTL DEF Spec
<1>. QED  BY <1>2, <1>3, LinkAlways, InitExec, StepExec, PTL DEF Spec

-----------------------------------------------------------------------------
(* The table implements TaskLifecycle.                                     *)

\* No task is cancelled and no write fails; everything else may happen.
Undisturbed == "cancel" \notin Env /\ MaxUnsaved = 0

\* What a job, a timer or a run finds in the row of its task.
RowReady ==
  /\ lostWrite = {}
  /\ \A t \in Task : Ready(t) => row[t] \in Live
  /\ \A s \in Slot, t \in Task : Drives(s, t) => row[t] = "running"

\* With MaxUnsaved = 0 no write can fail.
LEMMA NoWriteFails ==
  ASSUME MaxUnsaved = 0, lostWrite = {}, NEW t PROVE ~Unsaved(t)
<1>1. Cardinality({t}) = 1  BY FS_Singleton
<1>. QED  BY <1>1 DEF Unsaved

LEMMA WriteSucceeds ==
  ASSUME TypeOK, MaxUnsaved = 0, lostWrite = {}, NEW t \in Task, NEW st, Persist(t, st),
         row[t] # "none"
  PROVE  row' = [row EXCEPT ![t] = st] /\ rowAttempt' = rowAttempt /\ lostWrite' = {}
BY NoWriteFails DEF Persist, SetRow, LoseWrite, TypeOK

LEMMA InitRowReady == Init => RowReady
BY DEF Init, RowReady, Ready, Queued, Drives, Holds

\* The states whose steps are compared with TaskLifecycle.
TableInv == SingleInv /\ LinkInv /\ ExecInv /\ RowReady

\* Every step keeps RowReady and is a step of TaskLifecycle or changes no row.
LEMMA StepTable ==
  ASSUME Undisturbed, TableInv, [Next]_vars
  PROVE  RowReady' /\ [Lifecycle!Next]_(Lifecycle!lifecycleVars)
<1>. USE QueueAssumption DEF Undisturbed
<1>0. TypeOK /\ SingleInv /\ LinkInv /\ ExecInv /\ RowReady /\ lostWrite = {}
  BY DEF TableInv, SingleInv, RowReady
<1>r. ASSUME UNCHANGED <<waiting, retryTimer>> PROVE \A t \in Task : Ready(t)' <=> Ready(t)
  BY <1>r DEF Ready, Queued
<1>s. ASSUME UNCHANGED table, UNCHANGED lostWrite,
             \A t \in Task : Ready(t)' => Ready(t),
             \A s \in Slot, t \in Task : Drives(s, t)' => Drives(s, t)
      PROVE  RowReady' /\ [Lifecycle!Next]_(Lifecycle!lifecycleVars)
  BY <1>0, <1>s DEF RowReady, table, Lifecycle!lifecycleVars
<1>1. ASSUME NEW t \in Task, Add(t)
      PROVE  RowReady' /\ [Lifecycle!Next]_(Lifecycle!lifecycleVars)
  <2>1. Unused(t)  BY <1>0, <1>1 DEF Add, SingleInv, Fresh
  <2>2. \A u \in Task : Ready(u)' <=> (u = t \/ Ready(u))
    BY <1>1, JobQueues DEF Add, Ready
  <2>3. \A s \in Slot, u \in Task : Drives(s, u)' <=> Drives(s, u)
    BY <1>1 DEF Add, Drives, Holds, At
  <2>4. row' = [row EXCEPT ![t] = "pending"] /\ rowAttempt' = rowAttempt /\ lostWrite' = {}
    BY <1>0, <1>1, NoWriteFails DEF Add, LoseWrite
  <2>5. RowReady'
    BY <1>0, <2>1, <2>2, <2>3, <2>4 DEF RowReady, Unused, Drives, Live, TypeOK
  <2>6. Lifecycle!Submit(t)
    BY <2>1, <2>4 DEF Unused, Lifecycle!Submit
  <2>. QED  BY <2>5, <2>6 DEF Lifecycle!Next
<1>2. ASSUME NEW s \in Slot, NEW j \in waiting, Start(s, j)
      PROVE  RowReady' /\ [Lifecycle!Next]_(Lifecycle!lifecycleVars)
  <2>1. j.task \in Task /\ Ready(j.task) /\ j.task \notin retryTimer
    BY <1>0, HeldIsIssued DEF Ready, SingleInv, SingleExecution
  <2>2. row[j.task] \in Live  BY <1>0, <2>1 DEF RowReady
  <2>3. row' = [row EXCEPT ![j.task] = "running"] /\ rowAttempt' = rowAttempt /\ lostWrite' = {}
    BY <1>0, <1>2, <2>1, <2>2, WriteSucceeds DEF Start, Live
  <2>4. \A u \in Task : Ready(u)' => Ready(u)
    BY <1>2 DEF Start, Ready, Queued
  <2>5. \A r \in Slot, u \in Task : u # j.task => (Drives(r, u)' => Drives(r, u))
    <3>1. (\A r \in Slot \ {s} : slot'[r] = slot[r]) /\ slot'[s].task = j.task
      BY <1>0, <1>2 DEF Start, TypeOK
    <3>. QED  BY <3>1 DEF Drives, Holds, At
  <2>6. RowReady'
    BY <1>0, <2>1, <2>3, <2>4, <2>5 DEF RowReady, Live, TypeOK
  <2>7. CASE row[j.task] = "pending"
    <3>1. Lifecycle!Begin(j.task)  BY <2>3, <2>7 DEF Lifecycle!Begin
    <3>. QED  BY <2>1, <2>6, <3>1 DEF Lifecycle!Next
  <2>8. CASE row[j.task] = "running"
    <3>1. row' = row  BY <1>0, <2>1, <2>3, <2>8 DEF TypeOK
    <3>. QED  BY <2>3, <2>6, <3>1 DEF Lifecycle!lifecycleVars
  <2>. QED  BY <2>2, <2>7, <2>8 DEF Live
<1>3. ASSUME NEW s \in Slot, slot[s] # Idle, NEW p \in Phase, ~At(s, "unwatching"),
             Release(s) \/ slot' = [slot EXCEPT ![s].phase = p]
      PROVE  \A r \in Slot, t \in Task :
               Drives(r, t)' => Drives(r, t) /\ (p = "unwatching" => t # slot[s].task)
  BY <1>0, <1>3, ReleaseEffect, PhaseEffect, HolderIsAlone DEF Drives, Holds, At
<1>4. ASSUME NEW s \in Slot, Register(s) \/ ExecEnd(s)
      PROVE  RowReady' /\ [Lifecycle!Next]_(Lifecycle!lifecycleVars)
  <2>1. \A r \in Slot, t \in Task : Drives(r, t)' => Drives(r, t)
    BY <1>3, <1>4 DEF Register, ExecEnd, At, Phase
  <2>. QED  BY <1>4, <1>r, <1>s, <2>1 DEF Register, ExecEnd, history
<1>5. ASSUME NEW s \in Slot, NEW st \in {"completed", "failed"}, slot[s] # Idle,
             Persist(slot[s].task, st), ~At(s, "unwatching"),
             Release(s) \/ slot' = [slot EXCEPT ![s].phase = "unwatching"],
             UNCHANGED <<waiting, retryTimer>>
      PROVE  RowReady' /\ [Lifecycle!Next]_(Lifecycle!lifecycleVars)
  <2>0. PICK t \in Task : t = slot[s].task
    BY <1>0, <1>5, HeldIsIssued
  <2>1. /\ Drives(s, t) /\ ~Ready(t)
    BY <1>0, <1>5, <2>0, HolderIsAlone DEF Drives, Holds, Ready
  <2>2. row[t] = "running"  BY <1>0, <2>1 DEF RowReady
  <2>3. row' = [row EXCEPT ![t] = st] /\ rowAttempt' = rowAttempt /\ lostWrite' = {}
    BY <1>0, <1>5, <2>0, <2>2, WriteSucceeds
  <2>4. \A r \in Slot, u \in Task : Drives(r, u)' => Drives(r, u) /\ u # t
    BY <1>3, <1>5, <2>0 DEF Phase
  <2>5. RowReady'
    BY <1>0, <1>5, <1>r, <2>1, <2>3, <2>4 DEF RowReady, TypeOK
  <2>6. Lifecycle!End(t)  BY <2>2, <2>3 DEF Lifecycle!End
  <2>. QED  BY <2>5, <2>6 DEF Lifecycle!Next
<1>6. ASSUME NEW s \in Slot, UnexpectedError(s) \/ Fail(s) \/ Complete(s)
      PROVE  RowReady' /\ [Lifecycle!Next]_(Lifecycle!lifecycleVars)
  BY <1>5, <1>6 DEF UnexpectedError, Fail, Complete, MarkFailed, At
<1>7. ASSUME NEW s \in Slot, Unwatched(s)
      PROVE  RowReady' /\ [Lifecycle!Next]_(Lifecycle!lifecycleVars)
  <2>1. \A r \in Slot, t \in Task : Drives(r, t)' => Drives(r, t)
    BY <1>0, <1>7, ReleaseEffect DEF Unwatched, Drives, Holds, At
  <2>. QED  BY <1>7, <1>r, <1>s, <2>1 DEF Unwatched, history
<1>8. ASSUME NEW s \in Slot, ScheduleRetry(s)
      PROVE  RowReady' /\ [Lifecycle!Next]_(Lifecycle!lifecycleVars)
  <2>0. PICK t \in Task : t = slot[s].task
    BY <1>0, <1>8, HeldIsIssued DEF ScheduleRetry, At
  <2>1. Drives(s, t) /\ row[t] = "running" /\ mem[t] # "none"
    BY <1>0, <1>8, <2>0, HeldIsIssued
       DEF ScheduleRetry, At, Drives, LinkInv, RunKeepsStatus, RowReady
  <2>2. rowAttempt[t] = attempt[t] /\ attempt[t] < MaxRetries[t]
    BY <1>0, <1>8, <2>0, <2>1 DEF ExecInv, Budget, ScheduleRetry, MayRetry
  <2>3. /\ row' = [row EXCEPT ![t] = "pending"]
        /\ rowAttempt' = [rowAttempt EXCEPT ![t] = attempt[t] + 1]
        /\ lostWrite' = {}
    BY <1>0, <1>8, <2>0, <2>1, NoWriteFails
       DEF ScheduleRetry, SetRow, LoseWrite, SaveAttemptOnly
  <2>4. \A u \in Task : Ready(u)' <=> (u = t \/ Ready(u))
    BY <1>8, <2>0 DEF ScheduleRetry, ArmRetry, Ready, Queued
  <2>5. \A r \in Slot, u \in Task : Drives(r, u)' => Drives(r, u) /\ u # t
    <3>1. slot'[s] = Idle /\ \A r \in Slot \ {s} : slot'[r] = slot[r]
      BY <1>0, <1>8, ReleaseEffect DEF ScheduleRetry
    <3>2. \A r \in Slot \ {s} : ~Holds(r, t)
      BY <1>0, <1>8, <2>0, HolderIsAlone DEF ScheduleRetry, At
    <3>. QED  BY <3>1, <3>2 DEF Drives, Holds, At
  <2>6. RowReady'
    BY <1>0, <2>3, <2>4, <2>5 DEF RowReady, Live, TypeOK
  <2>7. Lifecycle!Retry(t)
    BY <1>0, <2>1, <2>2, <2>3 DEF Lifecycle!Retry, TypeOK
  <2>. QED  BY <2>6, <2>7 DEF Lifecycle!Next
<1>9. ASSUME NEW t \in Task, RetryFires(t)
      PROVE  RowReady' /\ [Lifecycle!Next]_(Lifecycle!lifecycleVars)
  <2>1. \A u \in Task : Ready(u)' => Ready(u)
    BY <1>9, JobQueues DEF RetryFires, Requeue, Ready
  <2>2. \A s \in Slot, u \in Task : Drives(s, u)' => Drives(s, u)
    BY <1>9 DEF RetryFires, Drives, Holds, At
  <2>. QED  BY <1>9, <1>s, <2>1, <2>2 DEF RetryFires, history
<1>10. CASE Clear
  <2>1. \A u \in Task : Ready(u)' => Ready(u)
    BY <1>10 DEF Clear, Ready, Queued
  <2>2. \A s \in Slot, u \in Task : Drives(s, u)' => Drives(s, u)
    BY <1>10 DEF Clear, Drives, Holds, At
  <2>. QED  BY <1>10, <1>s, <2>1, <2>2 DEF Clear, history
<1>11. CASE CrashRestart
  <2>1. \A u \in Task : Ready(u)' => u \in Restorable
    BY <1>11 DEF CrashRestart, Ready, Queued
  <2>2. \A s \in Slot, u \in Task : ~Drives(s, u)'
    BY <1>11 DEF CrashRestart, Drives, Holds
  <2>. QED
    BY <1>0, <1>11, <2>1, <2>2
       DEF CrashRestart, Restorable, RowReady, table, Lifecycle!lifecycleVars
<1>12. ASSUME UNCHANGED <<waiting, slot, retryTimer, table, history>>
       PROVE  RowReady' /\ [Lifecycle!Next]_(Lifecycle!lifecycleVars)
  <2>1. \A s \in Slot, u \in Task : Drives(s, u)' => Drives(s, u)
    BY <1>12 DEF Drives, Holds, At
  <2>. QED  BY <1>12, <1>r, <1>s, <2>1 DEF history
<1>13. ASSUME NEW t \in Task, Cancel(t) PROVE FALSE
  BY <1>13 DEF Cancel
<1>. QED
  BY <1>1, <1>2, <1>4, <1>6, <1>7, <1>8, <1>9, <1>10, <1>11, <1>12, <1>13
     DEF Next, StartAny, Advance, CleanupFires, Pause, Resume, SetConcurrency, vars, memory

\* As long as nobody cancels and no write fails, the table keeps TaskLifecycle's
\* promise to the client for any number of tasks, slots, retries and crashes:
\* clear, pause, restarts and lost retry timers do not break it.
THEOREM TableImplementsLifecycle ==
  ASSUME Undisturbed PROVE Spec => ImplementsLifecycle
<1>1. Init => Lifecycle!Init
  BY DEF Init, Lifecycle!Init
<1>2. Init => TableInv
  BY InitSingle, InitLink, InitExec, InitRowReady DEF TableInv
<1>3. TableInv /\ [Next]_vars => TableInv' /\ [Lifecycle!Next]_(Lifecycle!lifecycleVars)
  BY StepSingle, StepLink, StepExec, StepTable DEF TableInv
<1>. QED  BY <1>1, <1>2, <1>3, PTL DEF Spec, ImplementsLifecycle, Lifecycle!Spec

-----------------------------------------------------------------------------
(* Every end is counted once.                                              *)

\* The tasks of this process that nothing will continue.
Ended == {t \in Task : mem[t] # "none" /\ ~Carried(t)}

\* An end counts a task that was carried until then: what has ended stays so, but for
\* a restart, and there are finitely many tasks that may have.
CountInv == SingleInv /\ IsFiniteSet(issued) /\ CountedOnce

Works(s, t) == Holds(s, t) /\ ~At(s, "unwatching")

LEMMA EndedIsFinite ==
  ASSUME SingleInv, IsFiniteSet(issued)
  PROVE  IsFiniteSet(Ended) /\ Cardinality(Ended) \in Nat
<1>1. Ended \in SUBSET issued
  BY DEF Ended, SingleInv, Fresh, Unused
<1>2. IsFiniteSet(Ended)  BY <1>1, FS_Subset
<1>. QED  BY <1>2, FS_CardinalityType

LEMMA EndedIsFiniteNext ==
  ASSUME SingleInv', IsFiniteSet(issued')
  PROVE  IsFiniteSet(Ended') /\ Cardinality(Ended') \in Nat
<1>1. Ended' \in SUBSET issued'
  BY DEF Ended, SingleInv, Fresh, Unused
<1>2. IsFiniteSet(Ended')  BY <1>1, FS_Subset
<1>. QED  BY <1>2, FS_CardinalityType

\* A step that carries no task that was not carried, and counts nothing, ...
LEMMA NothingCounted ==
  ASSUME CountInv, SingleInv', IsFiniteSet(issued'),
         UNCHANGED <<completedCount, failedCount>>,
         \A u \in Task : /\ Carried(u)' => Carried(u) \/ mem[u] = "none"
                         /\ mem[u] # "none" => mem'[u] # "none"
  PROVE  CountedOnce'
<1>1. Ended \subseteq Ended'  BY DEF Ended
<1>2. /\ IsFiniteSet(Ended') /\ Cardinality(Ended') \in Nat
      /\ Cardinality(Ended) \in Nat
  BY EndedIsFinite, EndedIsFiniteNext DEF CountInv
<1>3. Cardinality(Ended) <= Cardinality(Ended')
  <2>1. Ended \in SUBSET Ended'  BY <1>1
  <2>. QED  BY <1>2, <2>1, FS_Subset
<1>4. completedCount + failedCount <= Cardinality(Ended)
  BY DEF CountInv, CountedOnce, Ended
<1>5. completedCount \in Nat /\ failedCount \in Nat
  BY DEF CountInv, SingleInv, TypeOK
<1>6. completedCount' + failedCount' <= Cardinality(Ended')
  BY <1>2, <1>3, <1>4, <1>5
<1>. QED  BY <1>6 DEF CountedOnce, Ended

\* ... or one that counts the end of the task in a slot, which nothing continues then.
LEMMA OneCounted ==
  ASSUME CountInv, SingleInv', UNCHANGED issued,
         completedCount' + failedCount' = completedCount + failedCount + 1,
         NEW t \in Task, Carried(t), ~Carried(t)', mem'[t] # "none",
         \A u \in Task : /\ Carried(u)' => Carried(u)
                         /\ mem[u] # "none" => mem'[u] # "none"
  PROVE  CountedOnce'
<1>1. Ended \cup {t} \subseteq Ended' /\ t \notin Ended  BY DEF Ended
<1>2. /\ IsFiniteSet(Ended') /\ Cardinality(Ended') \in Nat
      /\ IsFiniteSet(Ended) /\ Cardinality(Ended) \in Nat
      /\ IsFiniteSet(issued')
  BY EndedIsFinite, EndedIsFiniteNext DEF CountInv
<1>3. Cardinality(Ended) + 1 <= Cardinality(Ended')
  <2>1. Ended \cup {t} \in SUBSET Ended'  BY <1>1
  <2>2. Cardinality(Ended \cup {t}) <= Cardinality(Ended')  BY <1>2, <2>1, FS_Subset
  <2>3. Cardinality(Ended \cup {t}) = Cardinality(Ended) + 1
    BY <1>1, <1>2, FS_AddElement
  <2>. QED  BY <2>2, <2>3
<1>4. completedCount + failedCount <= Cardinality(Ended)
  BY DEF CountInv, CountedOnce, Ended
<1>5. completedCount \in Nat /\ failedCount \in Nat
  BY DEF CountInv, SingleInv, TypeOK
<1>6. completedCount' + failedCount' <= Cardinality(Ended')
  BY <1>2, <1>3, <1>4, <1>5
<1>. QED  BY <1>6 DEF CountedOnce, Ended

\* The run in slot s ends: nothing else continues its task.
LEMMA EndUncarries ==
  ASSUME SingleInv, NEW s \in Slot, NEW t \in Task, Works(s, t),
         UNCHANGED <<waiting, retryTimer>>,
         Release(s) \/ slot' = [slot EXCEPT ![s].phase = "unwatching"]
  PROVE  /\ Carried(t) /\ ~Carried(t)'
         /\ \A u \in Task : Carried(u)' => Carried(u)
<1>1. slot[s] \in Run /\ slot \in [Slot -> Run \cup {Idle}]
  BY HeldIsIssued DEF SingleInv, TypeOK, Works, Holds
<1>2. /\ ~Queued(t) /\ t \notin retryTimer
      /\ \A r \in Slot : Works(r, t) => r = s
  BY DEF SingleInv, SingleExecution, Works
<1>3. /\ \A r \in Slot \ {s} : slot'[r] = slot[r]
      /\ slot'[s] = Idle \/ slot'[s].phase = "unwatching"
  BY <1>1 DEF Release, Run
<1>4. \A r \in Slot, u \in Task : Works(r, u)' => r # s /\ Works(r, u)
  BY <1>3 DEF Works, Holds, At
<1>5. \A u \in Task : Carried(u) <=> Queued(u) \/ u \in retryTimer \/ \E r \in Slot : Works(r, u)
  BY DEF Carried, Works
<1>6. \A u \in Task : Carried(u)' => Queued(u) \/ u \in retryTimer \/ \E r \in Slot : Works(r, u)'
  BY DEF Carried, Works, Queued
<1>. QED  BY <1>2, <1>4, <1>5, <1>6

LEMMA StepCounted == CountInv /\ [Next]_vars => CountInv'
<1>. SUFFICES ASSUME CountInv, [Next]_vars PROVE CountInv'
  OBVIOUS
<1>. USE QueueAssumption
<1>0. /\ SingleInv /\ SingleInv' /\ TypeOK /\ IsFiniteSet(issued)
      /\ slot \in [Slot -> Run \cup {Idle}] /\ mem \in [Task -> Status]
      /\ completedCount \in Nat /\ failedCount \in Nat
      /\ \A u \in Task :
           Carried(u) <=> Queued(u) \/ u \in retryTimer \/ \E r \in Slot : Works(r, u)
  BY StepSingle DEF CountInv, SingleInv, TypeOK, Carried, Works
<1>a. UNCHANGED issued => IsFiniteSet(issued')  BY <1>0
<1>h. SUFFICES CountedOnce' /\ IsFiniteSet(issued')
  BY <1>0 DEF CountInv
\* Steps that leave what carries the tasks and the counters alone, or take from it.
<1>b. ASSUME UNCHANGED <<issued, completedCount, failedCount>>,
             \A u \in Task : Queued(u)' => Carried(u),
             \A u \in Task : u \in retryTimer' => Carried(u),
             \A u \in Task, r \in Slot : Works(r, u)' => Carried(u),
             \A u \in Task : mem[u] # "none" => mem'[u] # "none"
      PROVE  CountedOnce' /\ IsFiniteSet(issued')
  <2>1. \A u \in Task : Carried(u)' => Carried(u)
    BY <1>b DEF Carried, Works
  <2>. QED  BY <1>0, <1>a, <1>b, <2>1, NothingCounted
<1>c. /\ UNCHANGED waiting => \A u \in Task : Queued(u)' => Carried(u)
      /\ retryTimer' \subseteq retryTimer => \A u \in Task : u \in retryTimer' => Carried(u)
      /\ UNCHANGED slot => \A u \in Task, r \in Slot : Works(r, u)' => Carried(u)
      /\ UNCHANGED mem => \A u \in Task : mem[u] # "none" => mem'[u] # "none"
  BY <1>0 DEF Queued, Works, Holds, At
<1>1. ASSUME NEW t \in Task, Add(t) PROVE CountedOnce' /\ IsFiniteSet(issued')
  <2>1. Unused(t)  BY <1>0, <1>1 DEF Add, SingleInv, Fresh
  <2>2. \A u \in Task : Queued(u)' <=> (u = t \/ Queued(u))
    BY <1>1, JobQueues DEF Add
  <2>3. UNCHANGED <<slot, retryTimer, completedCount, failedCount>> /\ issued' = issued \cup {t}
    BY <1>1 DEF Add
  <2>4. \A u \in Task : Carried(u)' => Carried(u) \/ mem[u] = "none"
    BY <2>1, <2>2, <2>3 DEF Carried, Works, Unused, Holds, At
  <2>5. \A u \in Task : mem[u] # "none" => mem'[u] # "none"
    BY <1>0, <1>1 DEF Add
  <2>6. IsFiniteSet(issued')  BY <1>0, <2>3, FS_AddElement
  <2>. QED  BY <1>0, <2>3, <2>4, <2>5, <2>6, NothingCounted
<1>2. ASSUME NEW s \in Slot, NEW j \in waiting, Start(s, j)
      PROVE  CountedOnce' /\ IsFiniteSet(issued')
  <2>1. j.task \in Task /\ Queued(j.task)  BY <1>0, HeldIsIssued
  <2>2. \A u \in Task : Queued(u)' => Queued(u)  BY <1>2 DEF Start, Queued
  <2>3. \A r \in Slot, u \in Task : Works(r, u)' => u = j.task \/ Works(r, u)
    <3>1. \A r \in Slot \ {s} : slot'[r] = slot[r]  BY <1>0, <1>2 DEF Start
    <3>2. slot'[s].task = j.task  BY <1>0, <1>2 DEF Start
    <3>. QED  BY <3>1, <3>2 DEF Works, Holds, At
  <2>4. \A u \in Task : mem[u] # "none" => mem'[u] # "none"
    BY <1>0, <1>2, <2>1 DEF Start
  <2>. QED  BY <1>0, <1>2, <1>b, <2>1, <2>2, <2>3, <2>4 DEF Start
<1>3. ASSUME NEW s \in Slot, Register(s) \/ ExecEnd(s)
      PROVE  CountedOnce' /\ IsFiniteSet(issued')
  <2>1. /\ slot[s] # Idle /\ ~At(s, "unwatching")
        /\ \E p \in Phase : slot' = [slot EXCEPT ![s].phase = p]
        /\ UNCHANGED <<waiting, retryTimer, mem, issued, completedCount, failedCount>>
    BY <1>3 DEF Register, ExecEnd, At, Phase, history
  <2>2. \A r \in Slot, u \in Task : Works(r, u)' => Works(r, u)
    <3>1. \A r \in Slot, u \in Task : Holds(r, u)' <=> Holds(r, u)
      BY <1>0, <2>1, PhaseKeepsHolder
    <3>2. \A r \in Slot \ {s} : slot'[r] = slot[r]  BY <1>0, <2>1
    <3>. QED  BY <2>1, <3>1, <3>2 DEF Works, At
  <2>. QED  BY <1>0, <1>b, <1>c, <2>1, <2>2
<1>4. ASSUME NEW s \in Slot, UnexpectedError(s) \/ Complete(s) \/ Fail(s)
      PROVE  CountedOnce' /\ IsFiniteSet(issued')
  <2>0. PICK t \in Task : t = slot[s].task /\ Works(s, t)
    BY <1>0, <1>4, HeldIsIssued DEF UnexpectedError, Complete, Fail, At, Works
  <2>1. /\ Release(s) \/ slot' = [slot EXCEPT ![s].phase = "unwatching"]
        /\ UNCHANGED <<waiting, retryTimer, issued>>
        /\ mem' \in {[mem EXCEPT ![t] = "failed"], [mem EXCEPT ![t] = "completed"]}
    BY <1>4, <2>0 DEF UnexpectedError, Complete, Fail, MarkFailed
  <2>2. completedCount' + failedCount' = completedCount + failedCount + 1
    BY <1>0, <1>4 DEF UnexpectedError, Complete, Fail, MarkFailed
  <2>3. /\ Carried(t) /\ ~Carried(t)'
        /\ \A u \in Task : Carried(u)' => Carried(u)
    BY <1>0, <2>0, <2>1, EndUncarries
  <2>4. mem'[t] # "none" /\ \A u \in Task : mem[u] # "none" => mem'[u] # "none"
    BY <1>0, <2>1, <2>3
  <2>. QED  BY <1>0, <2>1, <2>2, <2>3, <2>4, <1>a, OneCounted
<1>5. ASSUME NEW s \in Slot, Unwatched(s) PROVE CountedOnce' /\ IsFiniteSet(issued')
  <2>1. \A r \in Slot, u \in Task : Works(r, u)' => Works(r, u)
    BY <1>0, <1>5 DEF Unwatched, Release, Works, Holds, At
  <2>. QED  BY <1>0, <1>5, <1>b, <1>c, <2>1 DEF Unwatched, history
<1>6. ASSUME NEW s \in Slot, ScheduleRetry(s) PROVE CountedOnce' /\ IsFiniteSet(issued')
  <2>1. slot[s].task \in Task /\ Works(s, slot[s].task)
    BY <1>0, <1>6, HeldIsIssued DEF ScheduleRetry, At, Works
  <2>2. \A r \in Slot, u \in Task : Works(r, u)' => Works(r, u)
    BY <1>0, <1>6 DEF ScheduleRetry, Release, Works, Holds, At
  <2>3. UNCHANGED waiting /\ retryTimer' = retryTimer \cup {slot[s].task}
    BY <1>6 DEF ScheduleRetry, ArmRetry
  <2>4. \A u \in Task : u \in retryTimer' => Carried(u)  BY <1>0, <2>1, <2>3
  <2>. QED  BY <1>0, <1>6, <1>b, <1>c, <2>2, <2>3, <2>4 DEF ScheduleRetry
<1>7. ASSUME NEW t \in Task, RetryFires(t) PROVE CountedOnce' /\ IsFiniteSet(issued')
  <2>1. \A u \in Task : Queued(u)' <=> (u = t \/ Queued(u))
    BY <1>7, JobQueues DEF RetryFires, Requeue
  <2>2. t \in retryTimer /\ retryTimer' \subseteq retryTimer  BY <1>7 DEF RetryFires
  <2>3. \A u \in Task : Queued(u)' => Carried(u)  BY <1>0, <2>1, <2>2
  <2>. QED  BY <1>7, <1>b, <1>c, <2>2, <2>3 DEF RetryFires, history
<1>8. ASSUME NEW t \in Task, CleanupFires(t) PROVE CountedOnce' /\ IsFiniteSet(issued')
  BY <1>8, <1>b, <1>c DEF CleanupFires, history
<1>9. ASSUME NEW t \in Task, Cancel(t) PROVE CountedOnce' /\ IsFiniteSet(issued')
  <2>1. \A u \in Task : mem[u] # "none" => mem'[u] # "none"
    BY <1>0, <1>9 DEF Cancel
  <2>. QED  BY <1>9, <1>b, <1>c, <2>1 DEF Cancel
<1>10. ASSUME completedCount' = 0, failedCount' = 0, UNCHANGED issued
       PROVE  CountedOnce' /\ IsFiniteSet(issued')
  <2>1. Cardinality(Ended') \in Nat
    BY <1>0, <1>a, <1>10, EndedIsFiniteNext
  <2>. QED  BY <1>a, <1>10, <2>1 DEF CountedOnce, Ended
<1>11. CASE Clear \/ CrashRestart
  BY <1>10, <1>11 DEF Clear, CrashRestart, history
<1>12. ASSUME UNCHANGED <<mem, waiting, slot, retryTimer, completedCount, failedCount, issued>>
       PROVE  CountedOnce' /\ IsFiniteSet(issued')
  BY <1>12, <1>b, <1>c
<1>13. ASSUME NEW n \in 1 .. Cardinality(Slot), SetConcurrency(n)
       PROVE  CountedOnce' /\ IsFiniteSet(issued')
  BY <1>12, <1>13 DEF SetConcurrency, history
<1>14. CASE Pause \/ Resume
  BY <1>12, <1>14 DEF Pause, Resume, history
<1>15. CASE UNCHANGED vars
  BY <1>12, <1>15 DEF vars, memory, history
<1>. QED
  BY <1>1, <1>2, <1>3, <1>4, <1>5, <1>6, <1>7, <1>8, <1>9, <1>11, <1>13, <1>14, <1>15
     DEF Next, StartAny, Advance

\* However cancellations, retries, failures of the log and clears interleave, getStats
\* counts no task as completed or failed that something still continues, and none twice.
THEOREM EndsAreCountedOnce == Spec => []CountedOnce
<1>1. Init => CountInv
  <2>. SUFFICES ASSUME Init PROVE CountInv
    OBVIOUS
  <2>1. SingleInv /\ IsFiniteSet(issued)  BY InitSingle, FS_EmptySet DEF Init
  <2>2. Cardinality(Ended) \in Nat  BY <2>1, EndedIsFinite
  <2>. QED  BY <2>1, <2>2 DEF CountInv, CountedOnce, Ended, Init
<1>2. CountInv => CountedOnce  BY DEF CountInv
<1>. QED  BY <1>1, <1>2, StepCounted, PTL DEF Spec
=============================================================================
