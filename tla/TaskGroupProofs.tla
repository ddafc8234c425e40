-------------------------- MODULE TaskGroupProofs --------------------------
(***************************************************************************)
(* Proofs about TaskGroup for every set of groups, every finite set of     *)
(* task ids, all requests and any number of restarts.                      *)
(***************************************************************************)
EXTENDS TaskGroup, FiniteSetTheorems, WellFoundedInduction, TLAPS

-----------------------------------------------------------------------------
(* Lemmas about the helpers. *)

\* The number of tasks that ended is a natural number.
LEMMA EndedCounted ==
  ASSUME NEW f PROVE Cardinality(EndedIn(f)) \in Nat
<1>1. EndedIn(f) \subseteq TaskId
  BY DEF EndedIn
<1>2. IsFiniteSet(EndedIn(f))
  BY <1>1, GroupAssumption, FS_Subset
<1> QED BY <1>2, FS_CardinalityType

\* What a stage hands on is a session.
LEMMA SessionsTyped ==
  ASSUME TypeOK, NEW g \in Group PROVE NextSession(g) \subseteq TaskId \cup {NoSession}
<1>1. sessionId[g] \in TaskId \cup {NoSession}
  BY DEF TypeOK
<1>2. \A t \in stage[g] : returned[g][t] \in TaskId \cup {NoSession}
  BY DEF TypeOK
<1> QED BY <1>1, <1>2 DEF NextSession

\* What updateTaskProgress does to the records and to the tables, whichever of its
\* statements fail.
LEMMA ProgressRows ==
  ASSUME TypeOK, NEW g \in Group, NEW new, DOMAIN new \subseteq TaskId,
         \A t \in DOMAIN new : new[t] \in TaskStatus, Progress(g, new)
  PROVE  /\ task' \in [Group -> [TaskId -> TaskStatus]]
         /\ \A h \in Group : h # g => task'[h] = task[h]
         /\ \A t \in TaskId : task'[g][t] = IF t \in DOMAIN new THEN new[t] ELSE task[g][t]
         /\ taskRow' \in [TaskId -> [group : Group, status : TaskStatus] \cup {NoRow}]
         /\ \A t \in TaskId : t \notin DOMAIN new =>
              taskRow'[t] = taskRow[t] /\ (t \in lostTask' <=> t \in lostTask)
         /\ \A t \in TaskId : taskRow[t] = NoRow => taskRow'[t] = NoRow
         /\ \A t \in TaskId : taskRow[t] # NoRow =>
              /\ taskRow'[t] # NoRow /\ taskRow'[t].group = taskRow[t].group
              /\ t \in DOMAIN new =>
                   /\ taskRow'[t].status \in {new[t], taskRow[t].status}
                                              \cup {s \in {"running"} : new[t] = "failed"}
                   /\ t \notin lostTask' => taskRow'[t].status = new[t]
         /\ groupRow' \in [Group -> [status : GroupStatus, progress : Nat] \cup {NoRow}]
         /\ \A h \in Group : h # g =>
              groupRow'[h] = groupRow[h] /\ (h \in lostGroup' <=> h \in lostGroup)
         /\ groupRow[g] = NoRow => groupRow'[g] = NoRow /\ lostGroup' = lostGroup
         /\ groupRow[g] # NoRow =>
              /\ groupRow'[g] # NoRow /\ groupRow'[g].status = groupRow[g].status
              /\ \/ groupRow'[g].progress = groupRow[g].progress
                 \/ groupRow'[g].progress <= Cardinality(EndedIn(task'[g]))
              /\ g \notin lostGroup' => groupRow'[g].progress = Cardinality(EndedIn(task'[g]))
         /\ lostGroup' \subseteq Group /\ lostTask' \subseteq TaskId /\ failures' \in Nat
<1> DEFINE now == [t \in TaskId |-> IF t \in DOMAIN new THEN new[t] ELSE task[g][t]]
<1>1. now \in [TaskId -> TaskStatus]
  BY DEF TypeOK
<1>2. task' = [task EXCEPT ![g] = now]
  BY DEF Progress
<1>3. \A t \in TaskId : now[t] = IF t \in DOMAIN new THEN new[t] ELSE task[g][t]
  OBVIOUS
<1>4. PICK lost \in SUBSET DOMAIN new, half \in SUBSET DOMAIN new, p \in RowProgress(g, now) :
        LET missed == groupRow[g] # NoRow /\ p # Cardinality(EndedIn(now)) IN
        /\ half \subseteq lost /\ \A t \in half : new[t] = "failed"
        /\ taskRow' = [t \in TaskId |->
                         IF t \notin DOMAIN new \/ taskRow[t] = NoRow \/ t \in lost \ half
                         THEN taskRow[t]
                         ELSE [taskRow[t] EXCEPT !.status = IF t \in half THEN "running" ELSE new[t]]]
        /\ groupRow' = IF groupRow[g] = NoRow THEN groupRow
                       ELSE [groupRow EXCEPT ![g].progress = p]
        /\ lostTask' = (lostTask \ DOMAIN new) \cup lost
        /\ lostGroup' = IF groupRow[g] = NoRow THEN lostGroup
                        ELSE (lostGroup \ {g}) \cup {h \in {g} : missed}
        /\ Failing(missed \/ lost # {})
  BY DEF Progress
<1> HIDE DEF now
<1>5. /\ task' \in [Group -> [TaskId -> TaskStatus]]
      /\ task'[g] = now /\ \A h \in Group : h # g => task'[h] = task[h]
  BY <1>1, <1>2 DEF TypeOK
<1>6. Cardinality(EndedIn(now)) \in Nat /\ Cardinality(EndedIn(task[g])) \in Nat
  BY EndedCounted
<1>7. p \in Nat /\ (groupRow[g] # NoRow =>
        p = groupRow[g].progress \/ p <= Cardinality(EndedIn(now)))
  BY <1>4, <1>6 DEF RowProgress, TypeOK
<1>8. \A t \in TaskId : taskRow[t] # NoRow =>
        taskRow[t] \in [group : Group, status : TaskStatus]
  BY DEF TypeOK
<1>9. ASSUME NEW t \in TaskId, taskRow[t] # NoRow
      PROVE  /\ taskRow'[t] \in [group : Group, status : TaskStatus]
             /\ taskRow'[t] # NoRow /\ taskRow'[t].group = taskRow[t].group
             /\ t \in DOMAIN new =>
                  /\ taskRow'[t].status \in {new[t], taskRow[t].status}
                                              \cup {s \in {"running"} : new[t] = "failed"}
                  /\ t \notin lostTask' => taskRow'[t].status = new[t]
  <2>1. CASE t \notin DOMAIN new \/ t \in lost \ half
    <3>1. taskRow'[t] = taskRow[t]
      BY <1>4, <2>1
    <3> QED BY <1>4, <1>8, <1>9, <2>1, <3>1
  <2>2. CASE t \in DOMAIN new /\ t \in half
    <3>1. new[t] = "failed" /\ t \in lost
      BY <1>4, <2>2
    <3>2. taskRow'[t] = [taskRow[t] EXCEPT !.status = "running"]
      BY <1>4, <1>9, <2>2
    <3>3. /\ taskRow'[t] \in [group : Group, status : TaskStatus]
          /\ taskRow'[t].group = taskRow[t].group /\ taskRow'[t].status = "running"
      BY <1>8, <1>9, <3>2 DEF TaskStatus
    <3>4. t \in lostTask'
      BY <1>4, <3>1
    <3> QED BY <3>1, <3>3, <3>4, GroupAssumption
  <2>3. CASE t \in DOMAIN new /\ t \notin lost
    <3>1. t \notin half
      BY <1>4, <2>3
    <3>2. taskRow'[t] = [taskRow[t] EXCEPT !.status = new[t]]
      BY <1>4, <1>9, <2>3, <3>1
    <3>3. new[t] \in TaskStatus
      BY <2>3
    <3>4. /\ taskRow'[t] \in [group : Group, status : TaskStatus]
          /\ taskRow'[t].group = taskRow[t].group /\ taskRow'[t].status = new[t]
      BY <1>8, <1>9, <3>2, <3>3
    <3> QED BY <3>4, GroupAssumption
  <2> QED BY <2>1, <2>2, <2>3
<1>10. \A t \in TaskId : taskRow[t] = NoRow => taskRow'[t] = NoRow
  BY <1>4
<1>11. taskRow' \in [TaskId -> [group : Group, status : TaskStatus] \cup {NoRow}]
  <2>1. \A t \in TaskId : taskRow'[t] \in [group : Group, status : TaskStatus] \cup {NoRow}
    BY <1>9, <1>10
  <2>2. taskRow' = [t \in TaskId |-> taskRow'[t]]
    BY <1>4
  <2> QED BY <2>1, <2>2
<1>12. \A t \in TaskId : t \notin DOMAIN new =>
         taskRow'[t] = taskRow[t] /\ (t \in lostTask' <=> t \in lostTask)
  BY <1>4
<1>13. /\ \A h \in Group : h # g => groupRow'[h] = groupRow[h]
       /\ IF groupRow[g] = NoRow THEN groupRow'[g] = NoRow
          ELSE groupRow'[g] = [groupRow[g] EXCEPT !.progress = p]
  BY <1>4 DEF TypeOK
<1>14. groupRow[g] # NoRow =>
         /\ groupRow'[g] \in [status : GroupStatus, progress : Nat]
         /\ groupRow'[g].status = groupRow[g].status /\ groupRow'[g].progress = p
  <2>1. groupRow[g] # NoRow => groupRow[g] \in [status : GroupStatus, progress : Nat]
    BY DEF TypeOK
  <2> QED BY <1>7, <1>13, <2>1
<1>15. groupRow[g] # NoRow => groupRow'[g] # NoRow
  BY <1>14, GroupAssumption
<1>16. groupRow' \in [Group -> [status : GroupStatus, progress : Nat] \cup {NoRow}]
  <2>1. \A h \in Group : groupRow'[h] \in [status : GroupStatus, progress : Nat] \cup {NoRow}
    BY <1>13, <1>14 DEF TypeOK
  <2>2. groupRow' = [h \in Group |-> groupRow'[h]]
    BY <1>4 DEF TypeOK
  <2> QED BY <2>1, <2>2
<1>17. /\ \A h \in Group : h # g => (h \in lostGroup' <=> h \in lostGroup)
       /\ groupRow[g] = NoRow => lostGroup' = lostGroup
       /\ groupRow[g] # NoRow /\ g \notin lostGroup' => p = Cardinality(EndedIn(now))
       /\ lostGroup' \subseteq Group /\ lostTask' \subseteq TaskId
  BY <1>4 DEF TypeOK
<1>18. failures' \in Nat
  BY <1>4 DEF Failing, TypeOK
<1>19. groupRow[g] # NoRow =>
         /\ \/ groupRow'[g].progress = groupRow[g].progress
            \/ groupRow'[g].progress <= Cardinality(EndedIn(task'[g]))
         /\ g \notin lostGroup' => groupRow'[g].progress = Cardinality(EndedIn(task'[g]))
  BY <1>5, <1>7, <1>14, <1>17
<1> QED BY <1>3, <1>5, <1>9, <1>10, <1>11, <1>12, <1>13, <1>14, <1>15, <1>16, <1>17, <1>18, <1>19

-----------------------------------------------------------------------------
(* Types. *)

\* A group has a request from the moment it is executed.
Known == \A g \in Group : request[g] = NoRequest <=> where[g] = "new"

\* updateStatus keeps them too.
LEMMA FinishTyped ==
  ASSUME TypeOK, NEW g \in Group, NEW s \in GroupStatus, Finish(g, s)
  PROVE  /\ status' \in [Group -> GroupStatus]
         /\ groupRow' \in [Group -> [status : GroupStatus, progress : Nat] \cup {NoRow}]
         /\ lostGroup' \subseteq Group /\ failures' \in Nat
<1>1. status' \in [Group -> GroupStatus]
  BY DEF TypeOK, Finish
<1>2. lostGroup' \subseteq Group /\ failures' \in Nat
  BY DEF TypeOK, Finish, Failing
<1>3. CASE groupRow' = groupRow
  BY <1>1, <1>2, <1>3 DEF TypeOK
<1>4. CASE groupRow[g] # NoRow /\ groupRow' = [groupRow EXCEPT ![g].status = s]
  BY <1>1, <1>2, <1>4 DEF TypeOK
<1> QED BY <1>3, <1>4 DEF Finish

\* A step of the system keeps the types.
LEMMA TypesKept ==
  ASSUME TypeOK, Known, [Next]_vars PROVE TypeOK'
<1>1. ASSUME NEW g \in Group, NEW r \in Offered[g], Execute(g, r) PROVE TypeOK'
  <2> DEFINE s == IF Valid(r) THEN "running" ELSE "failed"
  <2>1. s \in {"running", "failed"}
    OBVIOUS
  <2>2. /\ status' = [status EXCEPT ![g] = s]
        /\ Save(g, r, s)
        /\ where' = [where EXCEPT ![g] = IF s = "running" THEN "executing" ELSE "ended"]
    BY <1>1 DEF Execute
  <2> HIDE DEF s
  <2>3. groupRow' \in [Group -> [status : GroupStatus, progress : Nat] \cup {NoRow}]
    <3>1. CASE UNCHANGED rows
      BY <3>1 DEF TypeOK, rows
    <3>2. ASSUME NEW q \in {s, "running"}, Saved(g, r, q)
          PROVE groupRow' \in [Group -> [status : GroupStatus, progress : Nat] \cup {NoRow}]
      <4> DEFINE row == [status |-> q, progress |-> 0]
      <4>1. row \in [status : GroupStatus, progress : Nat]
        BY <2>1 DEF GroupStatus
      <4>2. groupRow' = [groupRow EXCEPT ![g] = row]
        BY <3>2 DEF Saved
      <4> HIDE DEF row
      <4> QED BY <4>1, <4>2 DEF TypeOK
    <3> QED BY <2>2, <3>1, <3>2 DEF Save
  <2>4. taskRow' \in [TaskId -> [group : Group, status : TaskStatus] \cup {NoRow}]
    <3>1. CASE UNCHANGED rows
      BY <3>1 DEF TypeOK, rows
    <3>2. ASSUME NEW q \in {s, "running"}, Saved(g, r, q)
          PROVE taskRow' \in [TaskId -> [group : Group, status : TaskStatus] \cup {NoRow}]
      BY <3>2 DEF TypeOK, Saved, TaskStatus
    <3> QED BY <2>2, <3>1, <3>2 DEF Save
  <2>5. /\ status' \in [Group -> GroupStatus]
        /\ where' \in [Group -> {"new", "executing", "ended", "restored"}]
    BY <2>1, <2>2 DEF TypeOK, GroupStatus
  <2>6. task' \in [Group -> [TaskId -> TaskStatus]]
    BY <1>1 DEF TypeOK, Execute, TaskStatus
  <2>7. request' \in [Group -> Request \cup {NoRequest}]
    BY <1>1, GroupAssumption DEF TypeOK, Execute
  <2>8. active' \in [Group -> {"none", "copy", "cancelled", "result"}]
    BY <1>1 DEF TypeOK, Execute
  <2>9. lostGroup' \subseteq Group /\ failures' \in Nat
    BY <2>2 DEF TypeOK, Save, Failing
  <2> QED BY <1>1, <2>3, <2>4, <2>5, <2>6, <2>7, <2>8, <2>9 DEF TypeOK, Execute, history
<1>2. ASSUME NEW g \in Group, NEW t \in TaskId, TaskEnd(g, t) PROVE TypeOK'
  <2>1. Progress(g, [u \in {t} |-> "completed"])
    BY <1>2 DEF TaskEnd
  <2>2. /\ task' \in [Group -> [TaskId -> TaskStatus]]
        /\ groupRow' \in [Group -> [status : GroupStatus, progress : Nat] \cup {NoRow}]
        /\ taskRow' \in [TaskId -> [group : Group, status : TaskStatus] \cup {NoRow}]
        /\ lostGroup' \subseteq Group /\ lostTask' \subseteq TaskId /\ failures' \in Nat
    BY <2>1, ProgressRows DEF TaskStatus
  <2>3. returned' \in [Group -> [TaskId -> TaskId \cup {NoSession}]]
    BY <1>2 DEF TypeOK, TaskEnd
  <2>4. /\ completedTasks' \in [Group -> Nat]
        /\ active' \in [Group -> {"none", "copy", "cancelled", "result"}]
        /\ erred' \subseteq Group
    BY <1>2 DEF TypeOK, TaskEnd
  <2> QED BY <1>2, <2>2, <2>3, <2>4 DEF TypeOK, TaskEnd
<1>3. ASSUME NEW g \in Group, StartStage(g) PROVE TypeOK'
  <2> DEFINE next == Executable(request[g], done[g] \cup stage[g])
             new  == [t \in next |-> IF t \in request[g].blank THEN "failed" ELSE "running"]
  <2>1. request[g] \in Request
    BY <1>3, GroupAssumption DEF TypeOK, Known, StartStage, StageOver
  <2>2. next \subseteq TaskId
    BY <2>1 DEF Executable, Request
  <2>3. Progress(g, new)
    BY <1>3 DEF StartStage
  <2>4. /\ task' \in [Group -> [TaskId -> TaskStatus]]
        /\ groupRow' \in [Group -> [status : GroupStatus, progress : Nat] \cup {NoRow}]
        /\ taskRow' \in [TaskId -> [group : Group, status : TaskStatus] \cup {NoRow}]
        /\ lostGroup' \subseteq Group /\ lostTask' \subseteq TaskId /\ failures' \in Nat
    BY <2>2, <2>3, ProgressRows DEF TaskStatus
  <2>5. /\ sessionId' \in [Group -> TaskId \cup {NoSession}]
        /\ resumed' \in [Group -> [TaskId -> TaskId \cup {NoSession}]]
    <3>1. PICK s \in NextSession(g) :
            /\ sessionId' = [sessionId EXCEPT ![g] = s]
            /\ resumed' = [resumed EXCEPT ![g] =
                             [t \in TaskId |-> IF t \in next THEN s ELSE @[t]]]
      BY <1>3 DEF StartStage
    <3>2. s \in TaskId \cup {NoSession}
      BY SessionsTyped
    <3> QED BY <3>1, <3>2 DEF TypeOK
  <2>6. /\ done' \in [Group -> SUBSET TaskId]
        /\ stage' \in [Group -> SUBSET TaskId]
        /\ stageNo' \in [Group -> Nat]
        /\ active' \in [Group -> {"none", "copy", "cancelled", "result"}]
    <3>1. /\ done' = [done EXCEPT ![g] = @ \cup stage[g]]
          /\ stage' = [stage EXCEPT ![g] = next]
          /\ stageNo' = [stageNo EXCEPT ![g] = @ + 1]
          /\ active' = [active EXCEPT ![g] = "copy"]
      BY <1>3 DEF StartStage
    <3> HIDE DEF next
    <3> QED BY <2>2, <3>1 DEF TypeOK
  <2> QED BY <1>3, <2>4, <2>5, <2>6 DEF TypeOK, StartStage
<1>4. ASSUME NEW g \in Group, FailGroup(g) PROVE TypeOK'
  <2>1. "failed" \in GroupStatus
    BY DEF GroupStatus
  <2>2. Finish(g, "failed")
    BY <1>4 DEF FailGroup
  <2> QED BY <1>4, <2>1, <2>2, FinishTyped DEF TypeOK, FailGroup, history
<1>5. ASSUME NEW g \in Group, CompleteGroup(g) PROVE TypeOK'
  <2>1. sessionId' \in [Group -> TaskId \cup {NoSession}]
    BY <1>5, SessionsTyped DEF TypeOK, CompleteGroup
  <2>2. "completed" \in GroupStatus
    BY DEF GroupStatus
  <2>3. Finish(g, "completed")
    BY <1>5 DEF CompleteGroup
  <2> QED BY <1>5, <2>1, <2>2, <2>3, FinishTyped DEF TypeOK, CompleteGroup, history
<1>6. ASSUME NEW g \in Group, Cancel(g) PROVE TypeOK'
  BY <1>6 DEF TypeOK, Cancel, execution, shown, rows, history, losses
<1>7. CASE Cleanup
  BY <1>7 DEF TypeOK, Cleanup, execution, shown, rows, history, losses
<1>8. CASE Restart
  <2>1. \A g \in Group : groupRow[g] # NoRow =>
          groupRow[g].status \in GroupStatus /\ groupRow[g].progress \in Nat
    BY DEF TypeOK
  <2>2. \A t \in TaskId : taskRow[t] # NoRow => taskRow[t].status \in TaskStatus
    BY DEF TypeOK
  <2>3. status' \in [Group -> GroupStatus] /\ completedTasks' \in [Group -> Nat]
    BY <1>8, <2>1 DEF Restart, GroupStatus
  <2>4. task' \in [Group -> [TaskId -> TaskStatus]]
    BY <1>8, <2>2 DEF Restart, TaskStatus
  <2>5. /\ where' \in [Group -> {"new", "executing", "ended", "restored"}]
        /\ done' \in [Group -> SUBSET TaskId]
        /\ stage' \in [Group -> SUBSET TaskId]
        /\ stageNo' \in [Group -> Nat]
        /\ sessionId' \in [Group -> TaskId \cup {NoSession}]
        /\ returned' \in [Group -> [TaskId -> TaskId \cup {NoSession}]]
        /\ active' \in [Group -> {"none", "copy", "cancelled", "result"}]
    BY <1>8 DEF Restart
  <2> QED BY <1>8, <2>3, <2>4, <2>5 DEF TypeOK, Restart, rows, losses
<1>9. CASE UNCHANGED vars
  BY <1>9 DEF TypeOK, vars, execution, shown, rows, history, losses
<1> QED BY <1>1, <1>2, <1>3, <1>4, <1>5, <1>6, <1>7, <1>8, <1>9 DEF Next

\* A step of the system gives no group a request but the one it executes.
LEMMA KnownKept ==
  ASSUME TypeOK, Known, [Next]_vars PROVE Known'
<1>1. ASSUME NEW g \in Group, NEW r \in Offered[g], Execute(g, r) PROVE Known'
  <2>1. r # NoRequest
    BY GroupAssumption
  <2>2. request' = [request EXCEPT ![g] = r]
    BY <1>1 DEF Execute
  <2>3. \A h \in Group : where'[h] = IF h # g THEN where[h]
                                    ELSE IF Valid(r) THEN "executing" ELSE "ended"
    BY <1>1 DEF Execute, TypeOK
  <2>4. DOMAIN request = Group
    BY DEF TypeOK
  <2> QED BY <2>1, <2>2, <2>3, <2>4 DEF Known
<1>2. ASSUME NEW g \in Group,
             StartStage(g) \/ FailGroup(g) \/ CompleteGroup(g) \/ Cancel(g)
               \/ \E t \in TaskId : TaskEnd(g, t)
      PROVE Known'
  <2>1. CASE FailGroup(g) \/ CompleteGroup(g)
    BY <2>1 DEF FailGroup, CompleteGroup, StopsNow, StageOver, TypeOK, Known
  <2>2. CASE StartStage(g) \/ Cancel(g) \/ \E t \in TaskId : TaskEnd(g, t)
    BY <2>2 DEF StartStage, Cancel, TaskEnd, Known, execution
  <2> QED BY <1>2, <2>1, <2>2
<1>3. CASE Cleanup
  BY <1>3 DEF Cleanup, Known, execution
<1>4. CASE Restart
  BY <1>4 DEF Restart, Known
<1>5. CASE UNCHANGED vars
  BY <1>5 DEF vars, execution, Known
<1> QED BY <1>1, <1>2, <1>3, <1>4, <1>5 DEF Next

LEMMA TypedAndKnown == Spec => [](TypeOK /\ Known)
<1>1. Init => TypeOK /\ Known
  BY DEF Init, TypeOK, Known, GroupStatus, TaskStatus
<1>2. TypeOK /\ Known /\ [Next]_vars => (TypeOK /\ Known)'
  BY TypesKept, KnownKept
<1> QED BY <1>1, <1>2, PTL DEF Spec

\* The type invariant holds in every state.
THEOREM Typing == Spec => []TypeOK
BY TypedAndKnown, PTL

-----------------------------------------------------------------------------
(* The order of the stages. *)

Over(g, t) ==
  \/ task[g][t] = "completed"
  \/ task[g][t] = "failed" /\ request[g].continueOnError

\* Every task of an executed group is in a stage that is over, in the current one, or
\* pending, and the dependencies of the first two are over.
Placed(g) ==
  Executed(g) =>
    /\ done[g] \cup stage[g] \subseteq request[g].tasks
    /\ \A t \in done[g] \cup stage[g] : request[g].deps[t] \subseteq done[g]
    /\ \A t \in request[g].tasks \ (done[g] \cup stage[g]) : task[g][t] = "pending"
    /\ \A t \in done[g] : Over(g, t)
    /\ \A t \in stage[g] : task[g][t] \in {"running", "completed", "failed"}

\* No stage has been formed before the first.
Unstarted(g) ==
  /\ where[g] = "new" => stageNo[g] = 0
  /\ stageNo[g] = 0 => done[g] = {} /\ stage[g] = {}

\* How execute() is left.
Concluded(g) ==
  where[g] = "ended" =>
    /\ Running(g) = {}
    /\ \/ status[g] = "failed" /\ (stageNo[g] = 0 \/ Failures(g) # {})
       \/ status[g] = "completed" /\ \A t \in request[g].tasks : Over(g, t)

Ordered(g) == Placed(g) /\ Unstarted(g) /\ Concluded(g)

View(g) ==
  <<request[g], where[g], done[g], stage[g], stageNo[g], status[g], task[g]>>

\* The order of a group depends on nothing but its own part of the state.
LEMMA SameView ==
  ASSUME NEW h \in Group, Ordered(h), View(h)' = View(h) PROVE Ordered(h)'
BY DEF View, Ordered, Placed, Unstarted, Concluded, Executed, Over, Running, Failures

LEMMA OrderedInitially == Init => \A g \in Group : Ordered(g)
BY DEF Init, Ordered, Placed, Unstarted, Concluded, Executed

LEMMA OrderedExecute ==
  ASSUME TypeOK, Known, NEW g \in Group, NEW r \in Offered[g], Execute(g, r), Ordered(g)
  PROVE Ordered(g)'
<1> DEFINE s == IF Valid(r) THEN "running" ELSE "failed"
<1>1. /\ request'[g] = r
      /\ \A t \in r.tasks : task'[g][t] = "pending"
      /\ status'[g] = s
      /\ where'[g] = IF s = "running" THEN "executing" ELSE "ended"
      /\ done'[g] = {} /\ stage'[g] = {}
  <2>1. done[g] = {} /\ stage[g] = {}
    BY DEF Execute, Ordered, Unstarted
  <2>2. r \in Request
    BY GroupAssumption
  <2> QED BY <2>1, <2>2 DEF Execute, TypeOK, Request
<1>2. stageNo'[g] = stageNo[g] /\ stageNo[g] = 0
  <2>1. where[g] = "new"
    BY DEF Execute
  <2> QED BY <2>1 DEF Execute, Ordered, Unstarted
<1> QED BY <1>1, <1>2 DEF Ordered, Placed, Unstarted, Concluded, Executed, Running

LEMMA OrderedTaskEnd ==
  ASSUME TypeOK, Known, NEW g \in Group, NEW t \in TaskId, TaskEnd(g, t), Ordered(g)
  PROVE Ordered(g)'
<1>1. /\ where[g] = "executing" /\ t \in stage[g] /\ task[g][t] = "running"
      /\ UNCHANGED <<request, where, done, stage, stageNo, status>>
  BY DEF TaskEnd, Running
<1>2. \A u \in TaskId : task'[g][u] = IF u = t THEN "completed" ELSE task[g][u]
  <2>1. Progress(g, [u \in {t} |-> "completed"])
    BY DEF TaskEnd
  <2> QED BY <2>1 DEF Progress, TypeOK
<1>3. request[g].tasks \subseteq TaskId
  BY <1>1, GroupAssumption DEF TypeOK, Known, Request
<1>4. Placed(g)'
  BY <1>1, <1>2, <1>3 DEF Ordered, Placed, Executed, Over
<1> QED BY <1>1, <1>4 DEF Ordered, Unstarted, Concluded

LEMMA OrderedStartStage ==
  ASSUME TypeOK, Known, NEW g \in Group, StartStage(g), Ordered(g)
  PROVE Ordered(g)'
<1> DEFINE next == Executable(request[g], done[g] \cup stage[g])
<1>1. /\ where[g] = "executing" /\ Running(g) = {} /\ ~Stops(g)
      /\ UNCHANGED <<request, where, status>>
      /\ done'[g] = done[g] \cup stage[g]
      /\ stage'[g] = next
      /\ stageNo'[g] = stageNo[g] + 1
  BY DEF StartStage, StageOver, TypeOK
<1>2. request[g] \in Request
  BY <1>1, GroupAssumption DEF TypeOK, Known
<1>3. \A t \in TaskId : task'[g][t] =
        IF t \in next THEN (IF t \in request[g].blank THEN "failed" ELSE "running")
        ELSE task[g][t]
  <2>1. Progress(g, [t \in next |-> IF t \in request[g].blank THEN "failed" ELSE "running"])
    BY DEF StartStage
  <2> QED BY <2>1 DEF Progress, TypeOK
<1>4. /\ next \subseteq request[g].tasks \ (done[g] \cup stage[g])
      /\ \A t \in next : request[g].deps[t] \subseteq done[g] \cup stage[g]
      /\ request[g].tasks \subseteq TaskId
  BY <1>2 DEF Executable, Request
<1> HIDE DEF next
<1>5. \A t \in stage[g] : Over(g, t)
  BY <1>1 DEF Ordered, Placed, Executed, Over, Running, Stops, Failures
<1>6. Placed(g)'
  <2>1. Placed(g)
    BY DEF Ordered
  <2>2. \A t \in done[g] \cup stage[g] : Over(g, t)'
    BY <1>1, <1>3, <1>4, <1>5, <2>1 DEF Placed, Executed, Over
  <2> QED BY <1>1, <1>3, <1>4, <2>1, <2>2 DEF Placed, Executed
<1>7. Unstarted(g)'
  BY <1>1 DEF Unstarted, TypeOK
<1>8. Concluded(g)'
  BY <1>1 DEF Concluded
<1> QED BY <1>6, <1>7, <1>8 DEF Ordered

LEMMA OrderedEnd ==
  ASSUME TypeOK, Known, NEW g \in Group, FailGroup(g) \/ CompleteGroup(g), Ordered(g)
  PROVE Ordered(g)'
<1>1. /\ where[g] = "executing" /\ where'[g] = "ended" /\ Running(g) = {}
      /\ UNCHANGED <<request, done, stage, stageNo, task>>
  BY DEF FailGroup, StopsNow, CompleteGroup, StageOver, TypeOK
<1>2. Placed(g)' /\ Unstarted(g)'
  BY <1>1 DEF Ordered, Placed, Unstarted, Executed, Over
<1>3. CASE FailGroup(g)
  <2>1. status'[g] = "failed" /\ Failures(g) # {}
    BY <1>3 DEF FailGroup, Finish, StopsNow, Stops, TypeOK
  <2> QED BY <1>1, <1>2, <2>1 DEF Ordered, Concluded, Running, Failures
<1>4. CASE CompleteGroup(g)
  <2>1. status'[g] = "completed" /\ ~Stops(g) /\ Left(g) = {}
    BY <1>4 DEF CompleteGroup, Finish, TypeOK
  <2>2. \A t \in stage[g] : Over(g, t)
    BY <1>1, <2>1 DEF Ordered, Placed, Executed, Over, Running, Stops, Failures
  <2>3. \A t \in request[g].tasks : Over(g, t)
    BY <1>1, <2>1, <2>2 DEF Ordered, Placed, Executed, Left
  <2> QED BY <1>1, <1>2, <2>1, <2>3 DEF Ordered, Concluded, Running, Over
<1> QED BY <1>3, <1>4

LEMMA OrderedRestart ==
  ASSUME NEW g \in Group, Restart PROVE Ordered(g)'
BY DEF Restart, Ordered, Placed, Unstarted, Concluded, Executed

\* Every step keeps the order of every group.
LEMMA OrderedKept ==
  ASSUME TypeOK, Known, \A g \in Group : Ordered(g), [Next]_vars
  PROVE (\A g \in Group : Ordered(g))'
<1> SUFFICES ASSUME NEW h \in Group PROVE Ordered(h)'
  OBVIOUS
<1>1. ASSUME NEW g \in Group, NEW r \in Offered[g], Execute(g, r) PROVE Ordered(h)'
  <2>1. CASE h = g
    BY <1>1, <2>1, OrderedExecute
  <2>2. CASE h # g
    BY <1>1, <2>2, SameView DEF Execute, View, TypeOK
  <2> QED BY <2>1, <2>2
<1>2. ASSUME NEW g \in Group, NEW t \in TaskId, TaskEnd(g, t) PROVE Ordered(h)'
  <2>1. CASE h = g
    BY <1>2, <2>1, OrderedTaskEnd
  <2>2. CASE h # g
    BY <1>2, <2>2, SameView DEF TaskEnd, Progress, View, TypeOK
  <2> QED BY <2>1, <2>2
<1>3. ASSUME NEW g \in Group, StartStage(g) PROVE Ordered(h)'
  <2>1. CASE h = g
    BY <1>3, <2>1, OrderedStartStage
  <2>2. CASE h # g
    BY <1>3, <2>2, SameView DEF StartStage, Progress, View, TypeOK
  <2> QED BY <2>1, <2>2
<1>4. ASSUME NEW g \in Group, FailGroup(g) \/ CompleteGroup(g) PROVE Ordered(h)'
  <2>1. CASE h = g
    BY <1>4, <2>1, OrderedEnd
  <2>2. CASE h # g
    BY <1>4, <2>2, SameView DEF FailGroup, CompleteGroup, Finish, View, TypeOK
  <2> QED BY <2>1, <2>2
<1>5. CASE Cleanup \/ (\E g \in Group : Cancel(g)) \/ UNCHANGED vars
  BY <1>5, SameView DEF Cleanup, Cancel, vars, execution, shown, View
<1>6. CASE Restart
  BY <1>6, OrderedRestart
<1> QED BY <1>1, <1>2, <1>3, <1>4, <1>5, <1>6 DEF Next

LEMMA OrderHolds == Spec => [](TypeOK /\ Known /\ \A g \in Group : Ordered(g))
<1>1. Init => \A g \in Group : Ordered(g)
  BY OrderedInitially
<1>2. TypeOK /\ Known /\ (\A g \in Group : Ordered(g)) /\ [Next]_vars
        => (\A g \in Group : Ordered(g))'
  BY OrderedKept
<1> QED BY <1>1, <1>2, TypedAndKnown, PTL DEF Spec

\* In every group a task starts only after all it depends on has ended, and after a
\* failure only if the group continues on errors.
THEOREM DependenciesComeFirst == Spec => []DependenciesFirst
<1>1. ASSUME \A g \in Group : Ordered(g) PROVE DependenciesFirst
  <2> SUFFICES ASSUME NEW g \in Group, Executed(g),
                      NEW t \in request[g].tasks, task[g][t] # "pending",
                      NEW d \in request[g].deps[t]
               PROVE Over(g, d)
    BY DEF DependenciesFirst, Over
  <2> QED BY <1>1 DEF Ordered, Placed
<1> QED BY <1>1, OrderHolds, PTL

\* When execute() returns, the group is quiet and its status follows its tasks.
THEOREM GroupsEndQuiet == Spec => []EndsQuiet
<1>1. ASSUME \A g \in Group : Ordered(g) PROVE EndsQuiet
  <2> SUFFICES ASSUME NEW g \in Group, where[g] = "ended"
               PROVE  /\ \A t \in request[g].tasks : task[g][t] # "running"
                      /\ status[g] = "completed" => \A t \in request[g].tasks : Over(g, t)
                      /\ status[g] = "failed" => stageNo[g] = 0 \/ Failures(g) # {}
                      /\ status[g] \in {"completed", "failed"}
    BY DEF EndsQuiet, Over
  <2>1. Placed(g) /\ Concluded(g) /\ Executed(g)
    BY <1>1 DEF Ordered, Executed
  <2>2. \A t \in request[g].tasks : task[g][t] # "running"
    BY <2>1 DEF Placed, Concluded, Running, Over
  <2> QED BY <2>1, <2>2 DEF Concluded
<1> QED BY <1>1, OrderHolds, PTL

-----------------------------------------------------------------------------
(* Numbers. *)

\* A set that has 0 and with every number its successor has them all.
LEMMA AllNumbers ==
  ASSUME NEW T, 0 \in T, \A n \in Nat : n \in T => n + 1 \in T
  PROVE  \A n \in Nat : n \in T
<1> DEFINE L == OpToRel(<, Nat)
           U == {n \in Nat : n \notin T}
<1>1. IsWellFoundedOn(L, Nat)
  BY NatLessThanWellFounded
<1>2. \A x \in Nat, y \in Nat : y < x => <<y, x>> \in L
  BY DEF OpToRel
<1> HIDE DEF L
<1>3. ASSUME U # {} PROVE FALSE
  <2>1. PICK x \in U : \A y \in U : ~ (<<y, x>> \in L)
    BY <1>1, <1>3, WFMin
  <2>2. x # 0 /\ x - 1 \in Nat /\ x - 1 < x
    BY <2>1
  <2>3. x - 1 \in T
    BY <1>2, <2>1, <2>2
  <2>4. (x - 1) + 1 \in T /\ (x - 1) + 1 = x
    BY <2>2, <2>3
  <2> QED BY <2>1, <2>4
<1> QED BY <1>3

\* Of the numbers in a set one is the least.
LEMMA LeastNumber ==
  ASSUME NEW T \in SUBSET Nat, T # {}
  PROVE  \E x \in T : \A y \in T : x <= y
<1> DEFINE L == OpToRel(<, Nat)
<1>1. IsWellFoundedOn(L, Nat)
  BY NatLessThanWellFounded
<1>2. \A x \in Nat, y \in Nat : y < x => <<y, x>> \in L
  BY DEF OpToRel
<1> HIDE DEF L
<1>3. PICK x \in T : \A y \in T : ~ (<<y, x>> \in L)
  BY <1>1, WFMin
<1>4. ASSUME NEW y \in T PROVE x <= y
  <2>1. x \in Nat /\ y \in Nat /\ ~ (y < x)
    BY <1>2, <1>3
  <2> QED BY <2>1
<1> QED BY <1>4

-----------------------------------------------------------------------------
(* The depth-first search of the dependencies. *)

\* A request as the search takes it.
Followable(r) == r.tasks \subseteq TaskId /\ r.deps \in [TaskId -> SUBSET TaskId]

\* The bound on the calls a mark leaves to make: a call visits one task more, the
\* next turn of a loop leaves one task less to do.
Work(m) ==
  Cardinality(TaskId \ m.visited) * (Cardinality(TaskId) + 1) + Cardinality(m.todo)

LEMMA Falls ==
  ASSUME NEW n \in Nat, NEW a \in Nat, NEW b \in Nat, NEW c \in Nat, NEW d \in Nat,
         \/ a < b /\ c <= n
         \/ a <= b /\ c < d
  PROVE  a * (n + 1) + c < b * (n + 1) + d
<1>1. CASE a < b /\ c <= n
  <2>1. PICK k \in Nat : b = a + 1 + k
    <3>1. b - (a + 1) \in Nat /\ b = a + 1 + (b - (a + 1))
      BY <1>1
    <3> QED BY <3>1
  <2>2. b * (n + 1) = a * (n + 1) + (n + 1) + k * (n + 1)
    BY <2>1
  <2>3. k * (n + 1) \in Nat /\ a * (n + 1) \in Nat /\ b * (n + 1) \in Nat
    OBVIOUS
  <2> HIDE <2>1
  <2> QED BY <1>1, <2>2, <2>3
<1>2. CASE a <= b /\ c < d
  <2>1. PICK k \in Nat : b = a + k
    <3>1. b - a \in Nat /\ b = a + (b - a)
      BY <1>2
    <3> QED BY <3>1
  <2>2. b * (n + 1) = a * (n + 1) + k * (n + 1)
    BY <2>1
  <2>3. k * (n + 1) \in Nat /\ a * (n + 1) \in Nat /\ b * (n + 1) \in Nat
    OBVIOUS
  <2> QED BY <1>2, <2>2, <2>3
<1> QED BY <1>1, <1>2

LEMMA OneLess ==
  ASSUME NEW S, IsFiniteSet(S), NEW x \in S, NEW T, T = S \ {x}
  PROVE  Cardinality(T) = Cardinality(S) - 1
BY FS_RemoveElement

LEMMA MarkCounts ==
  ASSUME NEW m \in Mark
  PROVE  /\ Cardinality(TaskId) \in Nat
         /\ Cardinality(TaskId \ m.visited) \in Nat
         /\ Cardinality(m.todo) \in Nat
         /\ Cardinality(m.todo) <= Cardinality(TaskId)
         /\ IsFiniteSet(m.todo) /\ IsFiniteSet(TaskId \ m.visited)
<1>1. m.todo \subseteq TaskId /\ TaskId \ m.visited \subseteq TaskId /\ IsFiniteSet(TaskId)
  BY GroupAssumption DEF Mark
<1>2. IsFiniteSet(m.todo) /\ IsFiniteSet(TaskId \ m.visited)
  BY <1>1, FS_Subset
<1>3. Cardinality(m.todo) <= Cardinality(TaskId)
  BY <1>1, FS_Subset
<1> QED BY <1>1, <1>2, <1>3, FS_CardinalityType

LEMMA WorkTyped == ASSUME NEW m \in Mark PROVE Work(m) \in Nat
BY MarkCounts DEF Work

\* The call for a task leaves less to do than the loop that makes it.
LEMMA CallFalls ==
  ASSUME NEW r, Followable(r), NEW m \in Mark, NEW id \in m.todo, id \notin m.visited
  PROVE  Entered(r, m, id) \in Mark /\ Work(Entered(r, m, id)) < Work(m)
<1> DEFINE e == Entered(r, m, id)
<1>1. id \in TaskId
  BY DEF Mark
<1>2. e \in Mark /\ e.visited = m.visited \cup {id}
  BY <1>1 DEF Mark, Entered, Followable
<1> HIDE DEF e
<1>3. TaskId \ e.visited = (TaskId \ m.visited) \ {id} /\ id \in TaskId \ m.visited
  BY <1>1, <1>2
<1>4. Cardinality(TaskId \ e.visited) = Cardinality(TaskId \ m.visited) - 1
  <2>1. IsFiniteSet(TaskId \ m.visited)
    BY MarkCounts
  <2> QED BY ONLY <1>3, <2>1, OneLess
<1>5. Cardinality(TaskId \ e.visited) < Cardinality(TaskId \ m.visited)
  BY <1>2, <1>4, MarkCounts
<1>6. Work(e) < Work(m)
  <2>1. /\ Cardinality(TaskId) \in Nat
        /\ Cardinality(TaskId \ e.visited) \in Nat /\ Cardinality(TaskId \ m.visited) \in Nat
        /\ Cardinality(e.todo) \in Nat /\ Cardinality(m.todo) \in Nat
        /\ Cardinality(e.todo) <= Cardinality(TaskId)
    BY <1>2, MarkCounts
  <2> QED BY <1>5, <2>1, Falls DEF Work
<1> QED BY <1>2, <1>6 DEF e

\* The next turn of a loop leaves less to do, whatever was visited in between.
LEMMA TurnFalls ==
  ASSUME NEW m \in Mark, NEW e \in Mark, NEW id \in m.todo,
         e.todo = m.todo \ {id}, m.visited \subseteq e.visited
  PROVE  Work(e) < Work(m)
<1>1. Cardinality(e.todo) < Cardinality(m.todo)
  <2>1. Cardinality(e.todo) = Cardinality(m.todo) - 1
    <3>1. IsFiniteSet(m.todo)
      BY MarkCounts
    <3> QED BY <3>1, FS_RemoveElement
  <2>2. Cardinality(m.todo) \in Nat
    BY MarkCounts
  <2> QED BY <2>1, <2>2
<1>2. Cardinality(TaskId \ e.visited) <= Cardinality(TaskId \ m.visited)
  <2>1. TaskId \ e.visited \subseteq TaskId \ m.visited
    OBVIOUS
  <2> QED BY <2>1, MarkCounts, FS_Subset
<1>3. /\ Cardinality(TaskId) \in Nat
      /\ Cardinality(TaskId \ e.visited) \in Nat /\ Cardinality(TaskId \ m.visited) \in Nat
      /\ Cardinality(e.todo) \in Nat /\ Cardinality(m.todo) \in Nat
  BY MarkCounts
<1> QED BY <1>1, <1>2, <1>3, Falls DEF Work

\* The task a loop takes next.
First(m) == CHOOSE id \in m.todo : TRUE

\* The four ways a turn of a loop goes: the loop is over, the task is on the stack,
\* it was visited, or it is called.  f is what searches do with less work.
Ends(f, r, m) == (m.todo = {} \/ m.cycle) /\ Visit(f, r, m) = m

Meets(f, r, m) ==
  /\ ~m.cycle /\ First(m) \in m.todo /\ First(m) \in m.stack
  /\ Visit(f, r, m) = [m EXCEPT !.cycle = TRUE]

Skips(f, r, m) ==
  /\ ~m.cycle /\ First(m) \in m.todo /\ First(m) \notin m.stack /\ First(m) \in m.visited
  /\ \E e \in Mark :
       /\ e = [m EXCEPT !.todo = @ \ {First(m)}]
       /\ Work(e) < Work(m)
       /\ Visit(f, r, m) = f[e]

Calls(f, r, m) ==
  /\ ~m.cycle /\ First(m) \in m.todo /\ First(m) \notin m.stack /\ First(m) \notin m.visited
  /\ \E e \in Mark, b \in Mark :
       /\ e = Entered(r, m, First(m)) /\ Work(e) < Work(m)
       /\ m.visited \cup {First(m)} \subseteq f[e].visited
       /\ b = Back(m, f[e], First(m)) /\ Work(b) < Work(m)
       /\ Visit(f, r, m) = IF f[e].cycle THEN f[e] ELSE f[b]

LEMMA VisitCases ==
  ASSUME NEW r, Followable(r), NEW m \in Mark, NEW f \in [Mark -> Mark],
         \A e \in Mark : Work(e) < Work(m) => e.visited \subseteq f[e].visited
  PROVE  Ends(f, r, m) \/ Meets(f, r, m) \/ Skips(f, r, m) \/ Calls(f, r, m)
<1> DEFINE id == First(m)
           left == f[Entered(r, m, id)]
           turn == [m EXCEPT !.todo = @ \ {id}]
           back == Back(m, left, id)
<1>1. CASE m.todo = {} \/ m.cycle
  BY <1>1 DEF Visit, Ends
<1>2. CASE m.todo # {} /\ ~m.cycle
  <2>1. id \in m.todo
    BY <1>2 DEF First
  <2>2. Visit(f, r, m) = IF id \in m.stack THEN [m EXCEPT !.cycle = TRUE]
                         ELSE IF id \in m.visited THEN f[turn]
                         ELSE IF left.cycle THEN left ELSE f[back]
    BY <1>2 DEF Visit, First
  <2>3. CASE id \in m.stack
    BY <1>2, <2>1, <2>2, <2>3 DEF Meets
  <2>4. CASE id \notin m.stack /\ id \in m.visited
    <3>1. turn \in Mark /\ turn.todo = m.todo \ {id} /\ turn.visited = m.visited
      BY DEF Mark
    <3>2. Work(turn) < Work(m)
      <4> HIDE DEF turn, id
      <4> QED BY <2>1, <3>1, TurnFalls
    <3>3. Visit(f, r, m) = f[turn]
      BY <2>2, <2>4
    <3> QED BY <1>2, <2>1, <2>4, <3>1, <3>2, <3>3 DEF Skips
  <2>5. CASE id \notin m.stack /\ id \notin m.visited
    <3> HIDE DEF id
    <3>1. Entered(r, m, id) \in Mark /\ Work(Entered(r, m, id)) < Work(m)
      BY <2>1, <2>5, CallFalls
    <3>2. Entered(r, m, id).visited = m.visited \cup {id}
      BY DEF Entered
    <3>3. left \in Mark /\ m.visited \cup {id} \subseteq left.visited
      BY <3>1, <3>2
    <3>4. back \in Mark /\ back.todo = m.todo \ {id} /\ back.visited = left.visited
      <4> HIDE DEF left
      <4> QED BY <3>3 DEF Mark, Back
    <3>5. Work(back) < Work(m)
      <4> HIDE DEF back, left
      <4> QED BY <2>1, <3>3, <3>4, TurnFalls
    <3>6. Visit(f, r, m) = IF left.cycle THEN left ELSE f[back]
      BY <2>2, <2>5
    <3>7. ~m.cycle
      BY <1>2
    <3> HIDE DEF back
    <3> DEFINE e == Entered(r, m, id)
    <3> HIDE DEF e
    <3>8. \E x \in Mark, y \in Mark :
            /\ x = Entered(r, m, id) /\ Work(x) < Work(m)
            /\ m.visited \cup {id} \subseteq f[x].visited
            /\ y = Back(m, f[x], id) /\ Work(y) < Work(m)
            /\ Visit(f, r, m) = IF f[x].cycle THEN f[x] ELSE f[y]
      <4>1. /\ e \in Mark /\ back \in Mark
            /\ e = Entered(r, m, id) /\ Work(e) < Work(m)
            /\ m.visited \cup {id} \subseteq f[e].visited
            /\ back = Back(m, f[e], id) /\ Work(back) < Work(m)
            /\ Visit(f, r, m) = IF f[e].cycle THEN f[e] ELSE f[back]
        BY <3>1, <3>3, <3>4, <3>5, <3>6 DEF e, back
      <4> QED BY <4>1
    <3> QED BY <2>1, <2>5, <3>7, <3>8 DEF Calls, id
  <2> QED BY <1>2, <2>3, <2>4, <2>5
<1>3. m.cycle \in BOOLEAN
  BY DEF Mark
<1> QED BY <1>1, <1>2, <1>3

\* What the recursive search is: a function that does one turn and leaves the rest
\* to itself.  It forgets no task that was visited.
Searches(f, r) ==
  /\ f \in [Mark -> Mark]
  /\ \A m \in Mark : f[m] = Visit(f, r, m) /\ m.visited \subseteq f[m].visited

\* The same up to a bound on the work.
SearchesBelow(f, r, n) ==
  /\ f \in [Mark -> Mark]
  /\ \A m \in Mark : Work(m) < n => f[m] = Visit(f, r, m) /\ m.visited \subseteq f[m].visited

\* A turn does nothing that the rest of the search does not.
LEMMA VisitAgrees ==
  ASSUME NEW r, Followable(r), NEW m \in Mark, NEW f \in [Mark -> Mark], NEW h,
         \A e \in Mark : Work(e) < Work(m) => e.visited \subseteq f[e].visited /\ h[e] = f[e]
  PROVE  /\ Visit(h, r, m) = Visit(f, r, m)
         /\ Visit(f, r, m) \in Mark /\ m.visited \subseteq Visit(f, r, m).visited
<1>1. CASE Ends(f, r, m)
  BY <1>1 DEF Visit, Ends
<1>2. CASE Meets(f, r, m)
  <2>1. Visit(f, r, m) = [m EXCEPT !.cycle = TRUE] /\ Visit(h, r, m) = [m EXCEPT !.cycle = TRUE]
    BY <1>2 DEF Visit, First, Meets
  <2>2. [m EXCEPT !.cycle = TRUE] \in Mark /\ [m EXCEPT !.cycle = TRUE].visited = m.visited
    BY DEF Mark
  <2> QED BY <2>1, <2>2
<1>3. CASE Skips(f, r, m)
  <2>1. PICK e \in Mark : /\ e = [m EXCEPT !.todo = @ \ {First(m)}]
                          /\ Work(e) < Work(m)
                          /\ Visit(f, r, m) = f[e]
    BY <1>3 DEF Skips
  <2>2. e.visited = m.visited
    BY <2>1 DEF Mark
  <2>3. Visit(h, r, m) = h[e]
    BY <1>3, <2>1 DEF Visit, First, Skips
  <2> QED BY <2>1, <2>2, <2>3
<1>4. CASE Calls(f, r, m)
  <2>1. PICK e \in Mark, b \in Mark :
          /\ e = Entered(r, m, First(m)) /\ Work(e) < Work(m)
          /\ m.visited \cup {First(m)} \subseteq f[e].visited
          /\ b = Back(m, f[e], First(m)) /\ Work(b) < Work(m)
          /\ Visit(f, r, m) = IF f[e].cycle THEN f[e] ELSE f[b]
    BY <1>4 DEF Calls
  <2>2. Visit(h, r, m) = IF h[e].cycle THEN h[e] ELSE h[Back(m, h[e], First(m))]
    BY <1>4, <2>1 DEF Visit, First, Calls
  <2>3. h[e] = f[e] /\ f[e] \in Mark
    BY <2>1
  <2>4. b.visited = f[e].visited
    BY <2>1, <2>3 DEF Mark, Back
  <2>5. h[b] = f[b] /\ b.visited \subseteq f[b].visited /\ f[b] \in Mark
    BY <2>1
  <2>6. Visit(h, r, m) = IF f[e].cycle THEN f[e] ELSE f[b]
    BY <2>1, <2>2, <2>3, <2>5
  <2> QED BY <2>1, <2>3, <2>4, <2>5, <2>6
<1>5. Ends(f, r, m) \/ Meets(f, r, m) \/ Skips(f, r, m) \/ Calls(f, r, m)
  <2>1. \A e \in Mark : Work(e) < Work(m) => e.visited \subseteq f[e].visited
    OBVIOUS
  <2> QED BY <2>1, VisitCases
<1> QED BY <1>1, <1>2, <1>3, <1>4, <1>5

LEMMA SearchesFurther ==
  ASSUME NEW r, Followable(r), NEW n \in Nat, NEW f, SearchesBelow(f, r, n)
  PROVE  \E h : SearchesBelow(h, r, n + 1)
<1> DEFINE h == [m \in Mark |-> IF Work(m) < n THEN f[m] ELSE
                                IF Work(m) = n THEN Visit(f, r, m) ELSE m]
<1>1. ASSUME NEW m \in Mark, Work(m) < n + 1
      PROVE  /\ h[m] = Visit(f, r, m) /\ Visit(f, r, m) \in Mark
             /\ m.visited \subseteq h[m].visited
  <2>1. f \in [Mark -> Mark]
    BY DEF SearchesBelow
  <2>2. Work(m) \in Nat
    BY WorkTyped
  <2>3. \A e \in Mark : Work(e) < Work(m) => Work(e) \in Nat /\ Work(e) < n
    BY <1>1, <2>2, WorkTyped
  <2>4. \A e \in Mark : Work(e) < Work(m) => e.visited \subseteq f[e].visited /\ f[e] = f[e]
    BY <2>3 DEF SearchesBelow
  <2>5. Visit(f, r, m) \in Mark /\ m.visited \subseteq Visit(f, r, m).visited
    BY <2>1, <2>4, VisitAgrees
  <2>6. h[m] = Visit(f, r, m)
    BY <1>1, <2>2 DEF SearchesBelow
  <2> QED BY <2>5, <2>6
<1>2. h \in [Mark -> Mark]
  <2>1. ASSUME NEW m \in Mark PROVE h[m] \in Mark
    <3>1. f[m] \in Mark /\ Work(m) \in Nat
      BY WorkTyped DEF SearchesBelow
    <3> QED BY <1>1, <3>1
  <2> QED BY <2>1
<1>3. ASSUME NEW m \in Mark, Work(m) < n + 1
      PROVE  h[m] = Visit(h, r, m) /\ m.visited \subseteq h[m].visited
  <2>1. f \in [Mark -> Mark]
    BY DEF SearchesBelow
  <2>2. ASSUME NEW e \in Mark, Work(e) < Work(m)
        PROVE  e.visited \subseteq f[e].visited /\ h[e] = f[e]
    <3>1. Work(e) < n
      BY <1>3, <2>2, WorkTyped
    <3> QED BY <3>1 DEF SearchesBelow
  <2> HIDE DEF h
  <2>3. Visit(h, r, m) = Visit(f, r, m)
    BY <1>2, <2>1, <2>2, VisitAgrees
  <2> QED BY <1>1, <1>3, <2>3
<1> HIDE DEF h
<1>4. SearchesBelow(h, r, n + 1)
  BY <1>2, <1>3 DEF SearchesBelow
<1> QED BY <1>4

\* There is a search for every request.
LEMMA SearchExists ==
  ASSUME NEW r, Followable(r) PROVE \E f : Searches(f, r)
<1> DEFINE T == {n \in Nat : \E f : SearchesBelow(f, r, n)}
<1>1. 0 \in T
  <2> DEFINE f == [m \in Mark |-> m]
  <2>1. f \in [Mark -> Mark]
    OBVIOUS
  <2>2. \A m \in Mark : ~ (Work(m) < 0)
    BY WorkTyped
  <2> HIDE DEF f
  <2>3. SearchesBelow(f, r, 0)
    BY <2>1, <2>2 DEF SearchesBelow
  <2> QED BY <2>3
<1>2. \A n \in Nat : n \in T => n + 1 \in T
  BY SearchesFurther
<1> HIDE DEF T
<1>3. \A n \in Nat : n \in T
  BY <1>1, <1>2, AllNumbers
<1>4. PICK n \in Nat : \A m \in Mark : Work(m) < n
  <2> DEFINE c == Cardinality(TaskId)
             n == (c + 1) * (c + 1) + c + 1
  <2>1. c \in Nat
    BY GroupAssumption, FS_CardinalityType
  <2>2. ASSUME NEW m \in Mark PROVE Work(m) < n
    <3> DEFINE a == Cardinality(TaskId \ m.visited)
               b == Cardinality(m.todo)
    <3>1. a \in Nat /\ b \in Nat /\ b <= c
      BY MarkCounts
    <3>2. a <= c
      <4>1. TaskId \ m.visited \subseteq TaskId
        OBVIOUS
      <4> QED BY <4>1, GroupAssumption, FS_Subset
    <3>3. a < c + 1 /\ b <= c
      BY <2>1, <3>1, <3>2
    <3>4. Work(m) = a * (c + 1) + b
      BY DEF Work
    <3> HIDE DEF a, b, c
    <3>5. a * (c + 1) + b < (c + 1) * (c + 1) + 0
      BY <2>1, <3>1, <3>3, Falls
    <3>6. (c + 1) * (c + 1) \in Nat /\ a * (c + 1) \in Nat
      BY <2>1, <3>1
    <3> QED BY <2>1, <3>1, <3>4, <3>5, <3>6
  <2>3. n \in Nat
    BY <2>1
  <2> QED BY <2>2, <2>3
<1>5. PICK f : SearchesBelow(f, r, n)
  BY <1>3 DEF T
<1> QED BY <1>4, <1>5 DEF Searches, SearchesBelow

\* The mark the search starts from.
Start(r) == [todo |-> r.tasks, visited |-> {}, stack |-> {}, cycle |-> FALSE]

\* hasCircularDependencies answers what some search does.
LEMMA SearchAnswers ==
  ASSUME NEW r, Followable(r)
  PROVE  \E f : Searches(f, r) /\ HasCycle(r) = f[Start(r)].cycle
<1> DEFINE Rec(f) == f = [m \in Mark |-> Visit(f, r, m)]
           s == CHOOSE f : Rec(f)
<1>1. PICK f : Searches(f, r)
  BY SearchExists
<1>2. f = [m \in Mark |-> Visit(f, r, m)]
  BY <1>1 DEF Searches
<1>3. Rec(s)
  BY <1>2
<1>4. HasCycle(r) = s[Start(r)].cycle
  BY DEF HasCycle, Start
<1> HIDE DEF s
<1>5. \A m \in Mark : s[m] = Visit(s, r, m)
  <2>1. s = [m \in Mark |-> Visit(s, r, m)]
    BY <1>3
  <2> QED BY <2>1
<1>6. ASSUME NEW n \in Nat, \A m \in Mark : Work(m) < n => s[m] = f[m]
      PROVE  \A m \in Mark : Work(m) < n + 1 => s[m] = f[m]
  <2> SUFFICES ASSUME NEW m \in Mark, Work(m) < n + 1 PROVE s[m] = f[m]
    OBVIOUS
  <2>1. f \in [Mark -> Mark] /\ \A e \in Mark : e.visited \subseteq f[e].visited
    BY <1>1 DEF Searches
  <2>2. \A e \in Mark : Work(e) < Work(m) => e.visited \subseteq f[e].visited /\ s[e] = f[e]
    BY <1>6, <2>1, WorkTyped
  <2>3. Visit(s, r, m) = Visit(f, r, m)
    BY <2>1, <2>2, VisitAgrees
  <2> QED BY <1>2, <1>5, <2>3
<1> DEFINE T == {n \in Nat : \A m \in Mark : Work(m) < n => s[m] = f[m]}
<1>7. 0 \in T
  BY WorkTyped
<1>8. \A n \in Nat : n \in T => n + 1 \in T
  BY <1>6
<1>9. \A n \in Nat : n \in T
  <2> HIDE DEF T
  <2> QED BY <1>7, <1>8, AllNumbers
<1>10. Start(r) \in Mark
  BY DEF Start, Mark, Followable
<1>11. s[Start(r)] = f[Start(r)]
  <2>1. Work(Start(r)) \in Nat /\ Work(Start(r)) + 1 \in Nat /\ Work(Start(r)) < Work(Start(r)) + 1
    BY <1>10, WorkTyped
  <2> QED BY <1>9, <1>10, <2>1
<1> QED BY <1>1, <1>4, <1>11

-----------------------------------------------------------------------------
(* What the search finds out. *)

\* rank puts every task of r after its dependencies.
Ranks(rank, r, n) ==
  /\ rank \in [r.tasks -> 1 .. n]
  /\ \A t \in r.tasks : \A d \in r.deps[t] : rank[d] < rank[t]

\* The tasks on the stack come after those the loop is about to visit.
Descends(m, r, rank) ==
  /\ ~m.cycle /\ m.todo \subseteq r.tasks /\ m.stack \subseteq r.tasks
  /\ \A y \in m.stack : \A x \in m.todo : rank[x] < rank[y]

\* A search of tasks that can be ordered meets no cycle and leaves its stack alone.
LEMMA NoCycleMet ==
  ASSUME NEW r, Followable(r), \A t \in r.tasks : r.deps[t] \subseteq r.tasks,
         NEW n \in Nat, NEW rank, Ranks(rank, r, n),
         NEW f, Searches(f, r), NEW m \in Mark, Descends(m, r, rank)
  PROVE  ~f[m].cycle /\ f[m].stack = m.stack
<1> DEFINE Good(e) == ~f[e].cycle /\ f[e].stack = e.stack
           T == {k \in Nat : \A e \in Mark : Work(e) < k /\ Descends(e, r, rank) => Good(e)}
<1>1. 0 \in T
  BY WorkTyped
<1>2. ASSUME NEW k \in Nat, k \in T PROVE k + 1 \in T
  <2> SUFFICES ASSUME NEW e \in Mark, Work(e) < k + 1, Descends(e, r, rank) PROVE Good(e)
    OBVIOUS
  <2>1. f \in [Mark -> Mark] /\ f[e] = Visit(f, r, e)
        /\ \A x \in Mark : Work(x) < Work(e) => x.visited \subseteq f[x].visited
    BY DEF Searches
  <2>2. \A x \in Mark : Work(x) < Work(e) /\ Descends(x, r, rank) => Good(x)
    BY <1>2, WorkTyped
  <2> HIDE DEF Good, T
  <2>3. CASE Ends(f, r, e)
    BY <2>1, <2>3 DEF Ends, Descends, Good
  <2>4. CASE Meets(f, r, e)
    <3>1. First(e) \in r.tasks /\ rank[First(e)] < rank[First(e)]
      BY <2>4 DEF Meets, Descends
    <3>2. rank[First(e)] \in Nat
      BY <3>1 DEF Ranks
    <3> QED BY <3>1, <3>2
  <2>5. CASE Skips(f, r, e)
    <3>1. PICK x \in Mark : /\ x = [e EXCEPT !.todo = @ \ {First(e)}]
                            /\ Work(x) < Work(e)
                            /\ Visit(f, r, e) = f[x]
      BY <2>5 DEF Skips
    <3>2. x.todo = e.todo \ {First(e)} /\ x.stack = e.stack /\ x.cycle = e.cycle
      BY <3>1 DEF Mark
    <3>3. Descends(x, r, rank)
      BY <3>2 DEF Descends
    <3>4. Good(x)
      BY <2>2, <3>1, <3>3
    <3> QED BY <2>1, <3>1, <3>2, <3>4 DEF Good
  <2>6. CASE Calls(f, r, e)
    <3>1. PICK x \in Mark, b \in Mark :
            /\ x = Entered(r, e, First(e)) /\ Work(x) < Work(e)
            /\ e.visited \cup {First(e)} \subseteq f[x].visited
            /\ b = Back(e, f[x], First(e)) /\ Work(b) < Work(e)
            /\ Visit(f, r, e) = IF f[x].cycle THEN f[x] ELSE f[b]
      BY <2>6 DEF Calls
    <3> DEFINE id == First(e)
    <3>2. id \in e.todo /\ id \in r.tasks /\ id \in TaskId /\ id \notin e.stack
      BY <2>6 DEF Calls, Descends, Followable
    <3>3. /\ x.todo = r.deps[id] /\ x.stack = e.stack \cup {id} /\ ~x.cycle
      BY <3>1 DEF Entered
    <3> HIDE DEF id
    <3>4. \A y \in x.stack : \A z \in x.todo : rank[z] < rank[y]
      <4> SUFFICES ASSUME NEW y \in x.stack, NEW z \in x.todo PROVE rank[z] < rank[y]
        OBVIOUS
      <4>1. y \in r.tasks /\ z \in r.tasks /\ rank[z] < rank[id]
        BY <3>2, <3>3 DEF Descends, Ranks
      <4>2. CASE y = id
        BY <4>1, <4>2
      <4>3. CASE y \in e.stack
        <5>1. rank[id] < rank[y]
          BY <3>2, <4>3 DEF Descends
        <5>2. rank[y] \in Nat /\ rank[z] \in Nat /\ rank[id] \in Nat
          BY <3>2, <4>1 DEF Ranks
        <5> QED BY <4>1, <5>1, <5>2
      <4> QED BY <3>3, <4>2, <4>3
    <3>5. Descends(x, r, rank)
      BY <3>2, <3>3, <3>4 DEF Descends
    <3>6. Good(x) /\ f[x] \in Mark
      BY <2>1, <2>2, <3>1, <3>5
    <3>7. b.todo = e.todo \ {id} /\ b.stack = f[x].stack \ {id} /\ b.cycle = f[x].cycle
      BY <3>1, <3>6 DEF Back, Mark, id
    <3>8. b.stack = e.stack /\ ~b.cycle /\ ~f[x].cycle
      BY <3>2, <3>3, <3>6, <3>7 DEF Good
    <3>9. Descends(b, r, rank)
      BY <3>7, <3>8 DEF Descends
    <3>10. Good(b)
      BY <2>2, <3>1, <3>9
    <3> QED BY <2>1, <3>1, <3>8, <3>10 DEF Good
  <2> QED BY <2>1, <2>3, <2>4, <2>5, <2>6, VisitCases
<1>3. \A k \in Nat : k \in T
  <2>1. \A k \in Nat : k \in T => k + 1 \in T
    BY <1>2
  <2> HIDE DEF T
  <2> QED BY <1>1, <2>1, AllNumbers
<1>4. Work(m) \in Nat /\ Work(m) + 1 \in Nat /\ Work(m) < Work(m) + 1
  BY WorkTyped
<1> QED BY <1>3, <1>4

\* The tasks of F depend on one another only, and can be ordered.
Ranked(r, F) ==
  /\ F \subseteq r.tasks
  /\ \E rank \in [F -> 1 .. Cardinality(F)] :
       \A t \in F : \A d \in r.deps[t] : d \in F /\ rank[d] < rank[t]

LEMMA RankedFurther ==
  ASSUME NEW r, Followable(r), NEW F, Ranked(r, F), NEW id \in r.tasks, id \notin F,
         r.deps[id] \subseteq F
  PROVE  Ranked(r, F \cup {id})
<1>1. F \subseteq TaskId /\ IsFiniteSet(F)
  BY GroupAssumption, FS_Subset DEF Followable, Ranked
<1> DEFINE c == Cardinality(F)
<1>2. c \in Nat /\ Cardinality(F \cup {id}) = c + 1
  BY <1>1, FS_CardinalityType, FS_AddElement
<1>3. PICK rank \in [F -> 1 .. c] :
        \A t \in F : \A d \in r.deps[t] : d \in F /\ rank[d] < rank[t]
  BY DEF Ranked
<1> HIDE DEF c
<1> DEFINE next == [t \in F \cup {id} |-> IF t = id THEN c + 1 ELSE rank[t]]
<1>4. next \in [F \cup {id} -> 1 .. c + 1]
  <2> SUFFICES ASSUME NEW t \in F \cup {id} PROVE next[t] \in 1 .. c + 1
    OBVIOUS
  <2>1. CASE t = id
    BY <1>2, <2>1
  <2>2. CASE t # id
    <3>1. rank[t] \in 1 .. c
      BY <1>3, <2>2
    <3> QED BY <1>2, <2>2, <3>1
  <2> QED BY <2>1, <2>2
<1>5. ASSUME NEW t \in F \cup {id}, NEW d \in r.deps[t]
      PROVE  d \in F \cup {id} /\ next[d] < next[t]
  <2>1. CASE t = id
    <3>1. d \in F /\ d # id
      BY <2>1
    <3>2. next[d] = rank[d] /\ rank[d] \in 1 .. c /\ next[t] = c + 1
      BY <1>3, <2>1, <3>1
    <3> QED BY <1>2, <3>1, <3>2
  <2>2. CASE t # id
    <3>1. t \in F /\ d \in F /\ rank[d] < rank[t] /\ d # id
      BY <1>3, <2>2
    <3> QED BY <2>2, <3>1
  <2> QED BY <2>1, <2>2
<1> HIDE DEF next
<1> QED BY <1>2, <1>4, <1>5 DEF Ranked

\* What a search has left behind it is ordered.
Behind(m, r) ==
  /\ m.todo \subseteq r.tasks /\ m.visited \subseteq r.tasks /\ m.stack \subseteq m.visited
  /\ Ranked(r, m.visited \ m.stack)

Leaves(m, left, r) ==
  /\ left.stack = m.stack
  /\ left.visited \subseteq r.tasks
  /\ m.todo \subseteq left.visited \ left.stack
  /\ Ranked(r, left.visited \ left.stack)

\* A search that meets no cycle has ordered all it was to visit.
LEMMA OrderFound ==
  ASSUME NEW r, Followable(r), \A t \in r.tasks : r.deps[t] \subseteq r.tasks,
         NEW f, Searches(f, r), NEW m \in Mark, Behind(m, r), ~f[m].cycle
  PROVE  Leaves(m, f[m], r)
<1> DEFINE Good(e) == Behind(e, r) /\ ~f[e].cycle => Leaves(e, f[e], r)
           T == {k \in Nat : \A e \in Mark : Work(e) < k => Good(e)}
<1>1. 0 \in T
  BY WorkTyped
<1>2. ASSUME NEW k \in Nat, k \in T PROVE k + 1 \in T
  <2> SUFFICES ASSUME NEW e \in Mark, Work(e) < k + 1, Behind(e, r), ~f[e].cycle
               PROVE  Leaves(e, f[e], r)
    OBVIOUS
  <2>1. f \in [Mark -> Mark] /\ f[e] = Visit(f, r, e)
        /\ \A x \in Mark : x.visited \subseteq f[x].visited
    BY DEF Searches
  <2>2. \A x \in Mark : Work(x) < Work(e) => Good(x)
    BY <1>2, WorkTyped
  <2> HIDE DEF T
  <2>3. CASE Ends(f, r, e)
    <3>1. f[e] = e /\ e.todo = {}
      BY <2>1, <2>3 DEF Ends
    <3> QED BY <3>1 DEF Leaves, Behind
  <2>4. CASE Meets(f, r, e)
    <3>1. f[e] = [e EXCEPT !.cycle = TRUE]
      BY <2>1, <2>4 DEF Meets
    <3>2. f[e].cycle
      BY <3>1 DEF Mark
    <3> QED BY <3>2
  <2>5. CASE Skips(f, r, e)
    <3>1. PICK x \in Mark : /\ x = [e EXCEPT !.todo = @ \ {First(e)}]
                            /\ Work(x) < Work(e)
                            /\ Visit(f, r, e) = f[x]
      BY <2>5 DEF Skips
    <3>2. x.todo = e.todo \ {First(e)} /\ x.stack = e.stack /\ x.visited = e.visited
      BY <3>1 DEF Mark
    <3>3. Behind(x, r) /\ ~f[x].cycle
      BY <2>1, <3>1, <3>2 DEF Behind
    <3>4. Leaves(x, f[x], r)
      BY <2>2, <3>1, <3>3
    <3>5. First(e) \in f[x].visited /\ First(e) \notin f[x].stack
      BY <2>1, <2>5, <3>2, <3>4 DEF Skips, Leaves
    <3> QED BY <2>1, <3>1, <3>2, <3>4, <3>5 DEF Leaves
  <2>6. CASE Calls(f, r, e)
    <3>1. PICK x \in Mark, b \in Mark :
            /\ x = Entered(r, e, First(e)) /\ Work(x) < Work(e)
            /\ e.visited \cup {First(e)} \subseteq f[x].visited
            /\ b = Back(e, f[x], First(e)) /\ Work(b) < Work(e)
            /\ Visit(f, r, e) = IF f[x].cycle THEN f[x] ELSE f[b]
      BY <2>6 DEF Calls
    <3> DEFINE id == First(e)
    <3>2. /\ id \in e.todo /\ id \in r.tasks /\ id \in TaskId
          /\ id \notin e.stack /\ id \notin e.visited
      BY <2>6 DEF Calls, Behind, Followable
    <3>3. /\ x.todo = r.deps[id] /\ x.stack = e.stack \cup {id}
          /\ x.visited = e.visited \cup {id}
      BY <3>1 DEF Entered
    <3>4. ~f[x].cycle /\ f[e] = f[b] /\ f[x] \in Mark
      BY <2>1, <3>1
    <3>5. /\ b.todo = e.todo \ {id} /\ b.stack = f[x].stack \ {id}
          /\ b.visited = f[x].visited
      BY <3>1, <3>4 DEF Back, Mark
    <3>6. id \in f[x].visited
      BY <3>1
    <3>7. Good(x) /\ Good(b) /\ b.visited \subseteq f[b].visited
      BY <2>1, <2>2, <3>1
    <3> HIDE DEF id
    <3>8. Behind(x, r)
      <4>1. x.visited \ x.stack = e.visited \ e.stack
        BY <3>2, <3>3
      <4> QED BY <3>2, <3>3, <4>1 DEF Behind
    <3>9. Leaves(x, f[x], r)
      BY <3>4, <3>7, <3>8
    <3>10. b.stack = e.stack
      BY <3>2, <3>3, <3>5, <3>9 DEF Leaves
    <3>11. Ranked(r, b.visited \ b.stack)
      <4> DEFINE F == f[x].visited \ f[x].stack
      <4>1. id \notin F /\ r.deps[id] \subseteq F /\ Ranked(r, F)
        BY <3>3, <3>9 DEF Leaves
      <4>2. b.visited \ b.stack = F \cup {id}
        BY <3>2, <3>3, <3>5, <3>6, <3>9, <3>10 DEF Leaves
      <4> HIDE DEF F
      <4> QED BY <3>2, <4>1, <4>2, RankedFurther
    <3>12. Behind(b, r)
      <4>1. b.stack \subseteq b.visited
        BY <3>1, <3>5, <3>10 DEF Behind
      <4>2. b.todo \subseteq r.tasks /\ b.visited \subseteq r.tasks
        BY <3>5, <3>9 DEF Behind, Leaves
      <4> QED BY <3>11, <4>1, <4>2 DEF Behind
    <3>13. Leaves(b, f[b], r)
      BY <3>4, <3>7, <3>12
    <3>14. id \in f[b].visited \ f[b].stack
      BY <3>2, <3>5, <3>6, <3>7, <3>10, <3>13 DEF Leaves
    <3> QED BY <3>4, <3>5, <3>10, <3>13, <3>14 DEF Leaves
  <2> QED BY <2>1, <2>3, <2>4, <2>5, <2>6, VisitCases
<1>3. \A k \in Nat : k \in T
  <2>1. \A k \in Nat : k \in T => k + 1 \in T
    BY <1>2
  <2> HIDE DEF T
  <2> QED BY <1>1, <2>1, AllNumbers
<1>4. Work(m) \in Nat /\ Work(m) + 1 \in Nat /\ Work(m) < Work(m) + 1
  BY WorkTyped
<1> QED BY <1>3, <1>4

\* validateDependencies accepts exactly the requests whose tasks can be ordered.
LEMMA ValidIsOrderable ==
  ASSUME NEW r \in Request PROVE Valid(r) <=> Orderable(r)
<1>1. Followable(r)
  BY DEF Request, Followable
<1>2. PICK f : Searches(f, r) /\ HasCycle(r) = f[Start(r)].cycle
  BY <1>1, SearchAnswers
<1>3. Start(r) \in Mark
  BY <1>1 DEF Start, Mark, Followable
<1>4. IsFiniteSet(r.tasks) /\ Cardinality(r.tasks) \in Nat
  BY <1>1, GroupAssumption, FS_Subset, FS_CardinalityType DEF Followable
<1>5. ASSUME \A t \in r.tasks : r.deps[t] \subseteq r.tasks, Orderable(r)
      PROVE  ~HasCycle(r)
  <2>1. PICK rank : Ranks(rank, r, Cardinality(r.tasks))
    BY <1>5 DEF Orderable, Ranks
  <2>2. Descends(Start(r), r, rank)
    BY DEF Start, Descends
  <2> QED BY <1>1, <1>2, <1>3, <1>4, <1>5, <2>1, <2>2, NoCycleMet
<1>6. ASSUME \A t \in r.tasks : r.deps[t] \subseteq r.tasks, ~HasCycle(r)
      PROVE  Orderable(r)
  <2>1. Behind(Start(r), r)
    <3>1. Ranked(r, {})
      <4> DEFINE none == [t \in {} |-> 1]
      <4>1. none \in [{} -> 1 .. Cardinality({})]
        OBVIOUS
      <4> HIDE DEF none
      <4> QED BY <4>1 DEF Ranked
    <3>2. Start(r).visited \ Start(r).stack = {}
      BY DEF Start
    <3> QED BY <3>1, <3>2 DEF Behind, Start
  <2>2. Leaves(Start(r), f[Start(r)], r)
    BY <1>1, <1>2, <1>3, <1>6, <2>1, OrderFound
  <2>3. Ranked(r, r.tasks)
    <3>1. f[Start(r)].visited \ f[Start(r)].stack = r.tasks
      BY <2>2 DEF Leaves, Start
    <3> QED BY <2>2, <3>1 DEF Leaves
  <2> QED BY <1>6, <2>3 DEF Ranked, Orderable
<1> QED BY <1>5, <1>6 DEF Valid, Orderable

-----------------------------------------------------------------------------
(* The depths of the tasks. *)

\* A bounded set of numbers has a maximum.
LEMMA MaxOf ==
  ASSUME NEW S \in SUBSET Nat, S # {}, NEW b \in Nat, \A x \in S : x <= b
  PROVE  Max(S) \in S /\ \A x \in S : x <= Max(S)
<1> DEFINE Bounds == {y \in Nat : \A x \in S : x <= y}
<1>1. PICK y \in Bounds : \A z \in Bounds : y <= z
  <2>1. b \in Bounds
    OBVIOUS
  <2> HIDE DEF Bounds
  <2>2. Bounds \in SUBSET Nat
    BY DEF Bounds
  <2> QED BY <2>1, <2>2, LeastNumber
<1>2. y \in S
  <2> SUFFICES ASSUME y \notin S PROVE FALSE
    OBVIOUS
  <2>1. PICK x \in S : TRUE
    OBVIOUS
  <2>2. \A z \in S : z < y
    <3> SUFFICES ASSUME NEW z \in S PROVE z < y
      OBVIOUS
    <3>1. z \in Nat /\ y \in Nat /\ z <= y /\ z # y
      BY <1>1
    <3> QED BY <3>1
  <2>3. y - 1 \in Nat /\ \A z \in S : z <= y - 1
    <3>1. y \in Nat /\ x \in Nat /\ x < y
      BY <1>1, <2>2
    <3>2. ASSUME NEW z \in S PROVE z <= y - 1
      <4>1. z \in Nat /\ z < y
        BY <2>2
      <4> QED BY <3>1, <4>1
    <3> QED BY <3>1, <3>2
  <2>4. y - 1 \in Bounds
    BY <2>3
  <2>5. y <= y - 1 /\ y \in Nat
    BY <1>1, <2>4
  <2> QED BY <2>5
<1>3. \A x \in S : y >= x
  BY <1>1
<1>4. Max(S) \in S /\ \A x \in S : Max(S) >= x
  BY <1>2, <1>3 DEF Max
<1>5. ASSUME NEW x \in S PROVE x <= Max(S)
  <2>1. Max(S) \in Nat /\ x \in Nat /\ Max(S) >= x
    BY <1>4
  <2> QED BY <2>1
<1> QED BY <1>4, <1>5

\* The depth of a task, given those of the tasks it depends on.
Rise(f, r, t) == IF r.deps[t] = {} THEN 1 ELSE 1 + Max({f[d] : d \in r.deps[t]})

\* A request whose tasks rank orders, up to n.
Sorted(r, rank, n) ==
  /\ \A t \in r.tasks : r.deps[t] \subseteq r.tasks
  /\ Ranks(rank, r, n)

\* f is the depth of the tasks whose rank is at most k.
DeepTo(f, r, rank, k) ==
  /\ f \in [r.tasks -> Nat]
  /\ \A t \in r.tasks : rank[t] <= k => f[t] = Rise(f, r, t) /\ f[t] \in 1 .. rank[t]

\* What a depth is, if those of the dependencies are known.
LEMMA RiseIs ==
  ASSUME NEW r, NEW t \in r.tasks, NEW f, NEW b \in Nat,
         \A d \in r.deps[t] : f[d] \in 1 .. b
  PROVE  /\ Rise(f, r, t) \in 1 .. b + 1
         /\ \A d \in r.deps[t] : f[d] < Rise(f, r, t)
         /\ Rise(f, r, t) = 1 \/ \E d \in r.deps[t] : Rise(f, r, t) = f[d] + 1
<1> DEFINE S == {f[d] : d \in r.deps[t]}
<1>1. CASE r.deps[t] = {}
  BY <1>1 DEF Rise
<1>2. CASE r.deps[t] # {}
  <2>1. S \in SUBSET Nat /\ S # {} /\ \A x \in S : x <= b
    BY <1>2
  <2>2. Rise(f, r, t) = 1 + Max(S)
    BY <1>2 DEF Rise
  <2>3. \A d \in r.deps[t] : f[d] \in S
    OBVIOUS
  <2>4. \A x \in S : x \in 1 .. b /\ \E d \in r.deps[t] : x = f[d]
    OBVIOUS
  <2> HIDE DEF S
  <2>5. Max(S) \in S /\ \A x \in S : x <= Max(S)
    BY <2>1, MaxOf
  <2>6. Max(S) \in 1 .. b /\ Max(S) \in Nat
    BY <2>4, <2>5
  <2>7. \A d \in r.deps[t] : f[d] < Rise(f, r, t)
    BY <2>2, <2>3, <2>5, <2>6
  <2>8. \E d \in r.deps[t] : Rise(f, r, t) = f[d] + 1
    BY <2>2, <2>4, <2>5, <2>6
  <2> QED BY <2>2, <2>6, <2>7, <2>8
<1> QED BY <1>1, <1>2

\* The depth of a task depends on those of its dependencies only.
LEMMA RiseAgrees ==
  ASSUME NEW r, NEW t \in r.tasks, NEW f, NEW h, \A d \in r.deps[t] : h[d] = f[d]
  PROVE  Rise(h, r, t) = Rise(f, r, t)
<1>1. {h[d] : d \in r.deps[t]} = {f[d] : d \in r.deps[t]}
  OBVIOUS
<1> QED BY <1>1 DEF Rise

LEMMA DepthsFurther ==
  ASSUME NEW r, NEW n \in Nat, NEW rank, Sorted(r, rank, n), NEW k \in Nat,
         NEW f, DeepTo(f, r, rank, k)
  PROVE  \E h : DeepTo(h, r, rank, k + 1)
<1> DEFINE h == [t \in r.tasks |-> IF rank[t] <= k THEN f[t] ELSE
                                   IF rank[t] = k + 1 THEN Rise(f, r, t) ELSE 0]
<1>1. ASSUME NEW t \in r.tasks, rank[t] <= k + 1
      PROVE  /\ h[t] = Rise(f, r, t) /\ h[t] \in 1 .. rank[t]
             /\ \A d \in r.deps[t] : h[d] = f[d]
  <2>1. rank[t] \in Nat /\ rank[t] >= 1
    BY DEF Sorted, Ranks
  <2>2. ASSUME NEW d \in r.deps[t]
        PROVE  f[d] \in 1 .. rank[t] - 1 /\ h[d] = f[d]
    <3>1. d \in r.tasks /\ rank[d] \in Nat /\ rank[d] >= 1 /\ rank[d] < rank[t]
      BY DEF Sorted, Ranks
    <3>2. rank[d] <= k
      BY <1>1, <2>1, <3>1
    <3>3. f[d] \in 1 .. rank[d]
      BY <3>1, <3>2 DEF DeepTo
    <3> QED BY <2>1, <3>1, <3>2, <3>3
  <2>3. Rise(f, r, t) \in 1 .. (rank[t] - 1) + 1
    <3>1. rank[t] - 1 \in Nat
      BY <2>1
    <3> HIDE DEF h
    <3> QED BY <2>2, <3>1, RiseIs
  <2>4. h[t] = Rise(f, r, t)
    <3>1. rank[t] <= k => f[t] = Rise(f, r, t)
      BY DEF DeepTo
    <3>2. rank[t] <= k \/ rank[t] = k + 1
      BY <1>1, <2>1
    <3> QED BY <3>1, <3>2
  <2> QED BY <2>1, <2>2, <2>3, <2>4
<1>2. h \in [r.tasks -> Nat]
  <2> SUFFICES ASSUME NEW t \in r.tasks PROVE h[t] \in Nat
    OBVIOUS
  <2>1. rank[t] \in Nat
    BY DEF Sorted, Ranks
  <2>2. CASE rank[t] <= k + 1
    <3>1. h[t] \in 1 .. rank[t]
      BY <1>1, <2>2
    <3> QED BY <2>1, <3>1
  <2>3. CASE ~(rank[t] <= k + 1)
    BY <2>1, <2>3
  <2> QED BY <2>2, <2>3
<1> HIDE DEF h
<1>3. ASSUME NEW t \in r.tasks, rank[t] <= k + 1 PROVE h[t] = Rise(h, r, t)
  BY <1>1, <1>3, RiseAgrees
<1>4. DeepTo(h, r, rank, k + 1)
  BY <1>1, <1>2, <1>3 DEF DeepTo
<1> QED BY <1>4

\* In a request that can be ordered a task that depends on none is at depth 1, and
\* another one below the deepest it depends on.
LEMMA DepthIs ==
  ASSUME NEW r \in Request, Orderable(r)
  PROVE  \A t \in r.tasks :
           /\ Depth(r)[t] \in Nat \ {0}
           /\ \A d \in r.deps[t] : d \in r.tasks /\ Depth(r)[d] < Depth(r)[t]
           /\ Depth(r)[t] = 1 \/ \E d \in r.deps[t] : Depth(r)[t] = Depth(r)[d] + 1
<1> DEFINE n == Cardinality(r.tasks)
<1>1. n \in Nat
  <2>1. r.tasks \in SUBSET TaskId
    BY DEF Request
  <2> QED BY <2>1, GroupAssumption, FS_Subset, FS_CardinalityType
<1>2. PICK rank : Sorted(r, rank, n)
  BY DEF Orderable, Sorted, Ranks
<1> HIDE DEF n
<1> DEFINE T == {k \in Nat : \E f : DeepTo(f, r, rank, k)}
<1>3. \A t \in r.tasks : rank[t] \in 1 .. n /\ r.deps[t] \subseteq r.tasks
  BY <1>2 DEF Sorted, Ranks
<1>4. 0 \in T
  <2> DEFINE f == [t \in r.tasks |-> 0]
  <2>1. f \in [r.tasks -> Nat] /\ \A t \in r.tasks : ~(rank[t] <= 0)
    BY <1>1, <1>3
  <2> HIDE DEF f
  <2>2. DeepTo(f, r, rank, 0)
    BY <2>1 DEF DeepTo
  <2> QED BY <2>2
<1>5. \A k \in Nat : k \in T => k + 1 \in T
  BY <1>1, <1>2, DepthsFurther
<1>6. n \in T
  <2> HIDE DEF T
  <2> QED BY <1>1, <1>4, <1>5, AllNumbers
<1>7. PICK f : DeepTo(f, r, rank, n)
  BY <1>6
<1>8. \A t \in r.tasks : f[t] = Rise(f, r, t) /\ f[t] \in Nat \ {0}
  BY <1>1, <1>3, <1>7 DEF DeepTo
<1> DEFINE Rec(h) == h = [t \in r.tasks |-> Rise(h, r, t)]
           s == CHOOSE h : Rec(h)
<1>9. Rec(f)
  <2>1. f = [t \in r.tasks |-> f[t]]
    BY <1>7 DEF DeepTo
  <2> QED BY <1>8, <2>1
<1>10. Depth(r) = s
  BY DEF Depth, Rise
<1>11. Rec(s)
  BY <1>9
<1> HIDE DEF s
<1>12. \A t \in r.tasks : s[t] = Rise(s, r, t)
  <2>1. s = [t \in r.tasks |-> Rise(s, r, t)]
    BY <1>11
  <2> QED BY <2>1
<1> DEFINE U == {k \in Nat : \A t \in r.tasks : rank[t] <= k => s[t] = f[t]}
<1>13. 0 \in U
  BY <1>1, <1>3
<1>14. ASSUME NEW k \in Nat, k \in U PROVE k + 1 \in U
  <2> SUFFICES ASSUME NEW t \in r.tasks, rank[t] <= k + 1 PROVE s[t] = f[t]
    OBVIOUS
  <2>1. ASSUME NEW d \in r.deps[t] PROVE s[d] = f[d]
    <3>1. d \in r.tasks /\ rank[d] < rank[t] /\ rank[d] \in Nat /\ rank[t] \in Nat
      BY <1>1, <1>2, <1>3 DEF Sorted, Ranks
    <3>2. rank[d] <= k
      BY <3>1
    <3> QED BY <1>14, <3>1, <3>2
  <2>2. Rise(s, r, t) = Rise(f, r, t)
    BY <2>1, RiseAgrees
  <2> QED BY <1>8, <1>12, <2>2
<1>15. n \in U
  <2>1. \A k \in Nat : k \in U => k + 1 \in U
    BY <1>14
  <2> HIDE DEF U
  <2> QED BY <1>1, <1>13, <2>1, AllNumbers
<1>16. \A t \in r.tasks : s[t] = f[t]
  BY <1>1, <1>3, <1>15
<1>17. ASSUME NEW t \in r.tasks
       PROVE  /\ s[t] \in Nat \ {0}
              /\ \A d \in r.deps[t] : d \in r.tasks /\ s[d] < s[t]
              /\ s[t] = 1 \/ \E d \in r.deps[t] : s[t] = s[d] + 1
  <2>1. \A d \in r.deps[t] : f[d] \in 1 .. n
    <3> SUFFICES ASSUME NEW d \in r.deps[t] PROVE f[d] \in 1 .. n
      OBVIOUS
    <3>1. d \in r.tasks /\ rank[d] \in 1 .. n
      BY <1>3
    <3>2. f[d] \in 1 .. rank[d]
      BY <1>1, <1>7, <3>1 DEF DeepTo
    <3> QED BY <1>1, <3>1, <3>2
  <2>2. /\ \A d \in r.deps[t] : f[d] < Rise(f, r, t)
        /\ Rise(f, r, t) = 1 \/ \E d \in r.deps[t] : Rise(f, r, t) = f[d] + 1
    BY <1>1, <2>1, RiseIs
  <2>3. \A d \in r.deps[t] : d \in r.tasks
    BY <1>3
  <2> QED BY <1>8, <1>16, <2>2, <2>3
<1> QED BY <1>10, <1>17

-----------------------------------------------------------------------------
(* The plan of a group, and the sessions it hands down. *)

\* A request is one a client may make.
Asked(g) ==
  request[g] # NoRequest => request[g] \in Request /\ request[g].tasks # {}

\* A group is refused, or under way, or past its first stage.
Admitted(g) ==
  Executed(g) =>
    IF Orderable(request[g]) THEN where[g] = "executing" \/ stageNo[g] > 0
    ELSE where[g] = "ended" /\ stageNo[g] = 0

\* The stages so far are the depths so far.
Staged(g) ==
  (Executed(g) /\ stageNo[g] > 0) =>
    /\ stage[g] # {}
    /\ stage[g] = {t \in request[g].tasks : Depth(request[g])[t] = stageNo[g]}
    /\ done[g] = {t \in request[g].tasks : Depth(request[g])[t] < stageNo[g]}

\* The tasks of earlier stages that came back with a session, and the latest of them.
Returning(g) == {d \in done[g] : returned[g][d] # NoSession}

Latest(g) ==
  {d \in Returning(g) : \A e \in Returning(g) : Depth(request[g])[e] <= Depth(request[g])[d]}

\* What execute() carries from stage to stage.
Carries(g) ==
  /\ where[g] = "new" => sessionId[g] = NoSession
  /\ where[g] = "executing" =>
       /\ sessionId[g] \in IF Returning(g) = {} THEN {NoSession}
                           ELSE {returned[g][d] : d \in Latest(g)}
       /\ \A t \in stage[g] : resumed[g][t] = sessionId[g]

Planned(g) == Asked(g) /\ Admitted(g) /\ Staged(g) /\ Carries(g)

PlanView(g) ==
  <<request[g], where[g], done[g], stage[g], stageNo[g], sessionId[g], returned[g], resumed[g]>>

\* The plan of a group depends on nothing but its own part of the state.
LEMMA SamePlan ==
  ASSUME NEW h \in Group, Planned(h), PlanView(h)' = PlanView(h) PROVE Planned(h)'
BY DEF PlanView, Planned, Asked, Admitted, Staged, Carries, Executed, Returning, Latest

LEMMA PlannedInitially == Init => \A g \in Group : Planned(g)
BY DEF Init, Planned, Asked, Admitted, Staged, Carries, Executed

LEMMA PlannedExecute ==
  ASSUME TypeOK, Known, NEW g \in Group, NEW r \in Offered[g], Execute(g, r),
         Ordered(g), Planned(g)
  PROVE  Planned(g)'
<1>1. /\ request'[g] = r
      /\ where'[g] = IF Valid(r) THEN "executing" ELSE "ended"
      /\ UNCHANGED <<done, stage, stageNo, sessionId, returned, resumed>>
      /\ where[g] = "new"
  BY DEF Execute, TypeOK, history
<1>2. r \in Request /\ r.tasks # {}
  BY GroupAssumption
<1>3. stageNo[g] = 0 /\ done[g] = {} /\ stage[g] = {} /\ sessionId[g] = NoSession
  BY <1>1 DEF Ordered, Unstarted, Planned, Carries
<1>4. Valid(r) <=> Orderable(r)
  BY <1>2, ValidIsOrderable
<1>5. Asked(g)' /\ Staged(g)'
  BY <1>1, <1>2, <1>3 DEF Asked, Staged
<1>6. Admitted(g)'
  BY <1>1, <1>3, <1>4 DEF Admitted, Executed
<1>7. Carries(g)'
  BY <1>1, <1>3 DEF Carries, Returning
<1> QED BY <1>5, <1>6, <1>7 DEF Planned

LEMMA PlannedTaskEnd ==
  ASSUME TypeOK, Known, NEW g \in Group, NEW t \in TaskId, TaskEnd(g, t),
         Ordered(g), Planned(g)
  PROVE  Planned(g)'
<1>1. /\ where[g] = "executing" /\ t \in stage[g]
      /\ UNCHANGED <<request, where, done, stage, stageNo, sessionId, resumed>>
      /\ \A d \in TaskId : d # t => returned'[g][d] = returned[g][d]
  BY DEF TaskEnd, Running, TypeOK
<1>2. t \notin done[g] /\ done[g] \subseteq TaskId
  <2>1. stageNo[g] \in Nat /\ stageNo[g] > 0
    BY <1>1 DEF Ordered, Unstarted, TypeOK
  <2>2. /\ stage[g] = {u \in request[g].tasks : Depth(request[g])[u] = stageNo[g]}
        /\ done[g] = {u \in request[g].tasks : Depth(request[g])[u] < stageNo[g]}
    BY <1>1, <2>1 DEF Planned, Staged, Executed
  <2>3. t \notin done[g]
    BY <1>1, <2>1, <2>2
  <2> QED BY <2>3 DEF TypeOK
<1>3. \A d \in done[g] : returned'[g][d] = returned[g][d]
  BY <1>1, <1>2
<1>4. Returning(g)' = Returning(g)
  BY <1>1, <1>3 DEF Returning
<1>5. Latest(g)' = Latest(g) /\ Latest(g) \subseteq done[g]
  BY <1>1, <1>4 DEF Latest, Returning
<1>6. {returned[g][d] : d \in Latest(g)}' = {returned[g][d] : d \in Latest(g)}
  BY <1>3, <1>5
<1>7. Carries(g)'
  BY <1>1, <1>4, <1>6 DEF Planned, Carries
<1>8. (Asked(g) /\ Admitted(g) /\ Staged(g))'
  BY <1>1 DEF Planned, Asked, Admitted, Staged, Executed
<1> QED BY <1>7, <1>8 DEF Planned

\* buildExecutionPlan forms the next depth, which is never empty.
LEMMA NextDepth ==
  ASSUME NEW r \in Request, Orderable(r), NEW k \in Nat, NEW d,
         d = {t \in r.tasks : Depth(r)[t] <= k}, r.tasks \ d # {}
  PROVE  /\ Executable(r, d) = {t \in r.tasks : Depth(r)[t] = k + 1}
         /\ Executable(r, d) # {}
<1> DEFINE D(t) == Depth(r)[t]
<1>1. \A t \in r.tasks :
        /\ D(t) \in Nat \ {0}
        /\ \A u \in r.deps[t] : u \in r.tasks /\ D(u) < D(t)
        /\ D(t) = 1 \/ \E u \in r.deps[t] : D(t) = D(u) + 1
  BY DepthIs
<1>2. d = {t \in r.tasks : D(t) <= k}
  OBVIOUS
<1> HIDE DEF D
<1>3. ASSUME NEW t \in Executable(r, d) PROVE D(t) = k + 1
  <2>1. t \in r.tasks /\ D(t) \in Nat \ {0} /\ ~(D(t) <= k)
        /\ \A u \in r.deps[t] : D(u) \in Nat /\ D(u) <= k
    BY <1>1, <1>2 DEF Executable
  <2>2. D(t) = 1 \/ \E u \in r.deps[t] : D(t) = D(u) + 1
    BY <1>1, <2>1
  <2> QED BY <2>1, <2>2
<1>4. ASSUME NEW t \in r.tasks, \A u \in r.deps[t] : D(u) <= k, ~(D(t) <= k)
      PROVE  t \in Executable(r, d)
  BY <1>1, <1>2, <1>4 DEF Executable
<1>5. ASSUME NEW t \in r.tasks, D(t) = k + 1 PROVE t \in Executable(r, d)
  <2>1. \A u \in r.deps[t] : D(u) <= k
    <3> SUFFICES ASSUME NEW u \in r.deps[t] PROVE D(u) <= k
      OBVIOUS
    <3>1. D(u) \in Nat /\ D(u) < k + 1
      BY <1>1, <1>5
    <3> QED BY <3>1
  <2> QED BY <1>4, <1>5, <2>1
<1>6. Executable(r, d) # {}
  <2> DEFINE S == {D(t) : t \in r.tasks \ d}
  <2>1. S \in SUBSET Nat /\ S # {}
    BY <1>1
  <2>2. PICK x \in S : \A y \in S : x <= y
    BY <2>1, LeastNumber
  <2>3. PICK t \in r.tasks \ d : x = D(t)
    OBVIOUS
  <2>4. \A u \in r.deps[t] : D(u) <= k
    <3> SUFFICES ASSUME NEW u \in r.deps[t], ~(D(u) <= k) PROVE FALSE
      OBVIOUS
    <3>1. u \in r.tasks /\ D(u) \in Nat /\ D(t) \in Nat /\ D(u) < D(t)
      BY <1>1
    <3>2. u \in r.tasks \ d
      BY <1>2, <3>1
    <3>3. D(t) <= D(u)
      BY <2>2, <2>3, <3>2
    <3> QED BY <3>1, <3>3
  <2>5. ~(D(t) <= k)
    BY <1>2
  <2> QED BY <1>4, <2>4, <2>5
<1>7. Executable(r, d) \subseteq r.tasks
  BY DEF Executable
<1>8. Executable(r, d) = {t \in r.tasks : D(t) = k + 1}
  BY <1>3, <1>5, <1>7
<1> QED BY <1>6, <1>8 DEF D

LEMMA PlannedStartStage ==
  ASSUME TypeOK, Known, NEW g \in Group, StartStage(g), Ordered(g), Planned(g)
  PROVE  Planned(g)'
<1> DEFINE r == request[g]
           k == stageNo[g]
           next == Executable(r, done[g] \cup stage[g])
           D(t) == Depth(r)[t]
<1>1. /\ where[g] = "executing"
      /\ UNCHANGED <<request, where, returned>>
      /\ done'[g] = done[g] \cup stage[g]
      /\ stage'[g] = next
      /\ stageNo'[g] = k + 1
      /\ r.tasks \ (done[g] \cup stage[g]) # {}
  BY DEF StartStage, StageOver, TypeOK, Left
<1>2. PICK s \in NextSession(g) :
        /\ sessionId' = [sessionId EXCEPT ![g] = s]
        /\ resumed' = [resumed EXCEPT ![g] = [t \in TaskId |-> IF t \in next THEN s ELSE @[t]]]
  BY DEF StartStage
<1>3. r \in Request /\ Orderable(r) /\ k \in Nat
  <2>1. r # NoRequest
    BY <1>1 DEF Known
  <2> QED BY <1>1, <2>1 DEF Planned, Asked, Admitted, Executed, TypeOK
<1>4. \A t \in r.tasks : D(t) \in Nat \ {0} /\ t \in TaskId
  BY <1>3, DepthIs DEF Request
<1>5. /\ done[g] = {t \in r.tasks : D(t) < k}
      /\ stage[g] = {t \in r.tasks : D(t) = k}
  <2>1. CASE k > 0
    BY <1>1, <2>1 DEF Planned, Staged, Executed
  <2>2. CASE k = 0
    BY <1>4, <2>2 DEF Ordered, Unstarted
  <2> QED BY <1>3, <2>1, <2>2
<1>6. done[g] \cup stage[g] = {t \in r.tasks : D(t) <= k}
  BY <1>3, <1>4, <1>5
<1>7. next = {t \in r.tasks : D(t) = k + 1} /\ next # {}
  BY <1>1, <1>3, <1>6, NextDepth
<1>8. Staged(g)'
  <2>1. {t \in r.tasks : D(t) <= k} = {t \in r.tasks : D(t) < k + 1}
    BY <1>3, <1>4
  <2> HIDE DEF next
  <2> QED BY <1>1, <1>6, <1>7, <2>1 DEF Staged
<1>9. (Asked(g) /\ Admitted(g))'
  BY <1>1, <1>3 DEF Planned, Asked, Admitted, Executed
<1>10. Carries(g)'
  <2> HIDE DEF next
  <2>1. sessionId'[g] = s /\ \A t \in next : resumed'[g][t] = s
    <3>1. next \subseteq TaskId
      BY <1>4, <1>7
    <3> QED BY <1>2, <3>1 DEF TypeOK
  <2> DEFINE S == {returned[g][t] : t \in stage[g]} \ {NoSession}
  <2>2. Returning(g)' = Returning(g) \cup {t \in stage[g] : returned[g][t] # NoSession}
    BY <1>1 DEF Returning
  <2>3. CASE S = {}
    <3>1. s = sessionId[g]
      BY <2>3 DEF NextSession
    <3>2. Returning(g)' = Returning(g)
      BY <2>2, <2>3
    <3>3. Latest(g)' = Latest(g)
      BY <1>1, <3>2 DEF Latest
    <3>4. {returned[g][d] : d \in Latest(g)}' = {returned[g][d] : d \in Latest(g)}
      BY <1>1, <3>3
    <3> QED BY <1>1, <2>1, <3>1, <3>2, <3>4 DEF Planned, Carries
  <2>4. CASE S # {}
    <3>1. PICK t \in stage[g] : s = returned[g][t] /\ returned[g][t] # NoSession
      BY <2>4 DEF NextSession
    <3>2. t \in Returning(g)' /\ D(t) = k /\ t \in r.tasks
      BY <1>5, <2>2, <3>1
    <3>3. \A e \in Returning(g)' : D(e) <= D(t)
      <4> SUFFICES ASSUME NEW e \in Returning(g)' PROVE D(e) <= D(t)
        OBVIOUS
      <4>1. e \in done[g] \cup stage[g]
        BY <2>2 DEF Returning
      <4> QED BY <1>6, <3>2, <4>1
    <3>4. t \in Latest(g)'
      BY <1>1, <3>2, <3>3 DEF Latest
    <3>5. s \in {returned[g][d] : d \in Latest(g)}'
      BY <1>1, <3>1, <3>4
    <3> QED BY <1>1, <2>1, <3>2, <3>5 DEF Carries
  <2> QED BY <2>3, <2>4
<1> QED BY <1>8, <1>9, <1>10 DEF Planned

LEMMA PlannedEnd ==
  ASSUME TypeOK, Known, NEW g \in Group, FailGroup(g) \/ CompleteGroup(g),
         Ordered(g), Planned(g)
  PROVE  Planned(g)'
<1>1. /\ where[g] = "executing" /\ where'[g] = "ended"
      /\ UNCHANGED <<request, done, stage, stageNo>>
  BY DEF FailGroup, StopsNow, CompleteGroup, StageOver, TypeOK
<1>2. stageNo[g] # 0
  <2>1. CASE FailGroup(g)
    BY <2>1 DEF FailGroup, StopsNow, Stops, Failures, Ordered, Unstarted
  <2>2. CASE CompleteGroup(g)
    BY <1>1, <2>2 DEF CompleteGroup, Left, Ordered, Unstarted, Planned, Asked, Known
  <2> QED BY <2>1, <2>2
<1>3. stageNo[g] > 0
  BY <1>2 DEF TypeOK
<1>4. Carries(g)'
  BY <1>1 DEF Carries
<1>5. (Asked(g) /\ Admitted(g) /\ Staged(g))'
  BY <1>1, <1>3 DEF Planned, Asked, Admitted, Staged, Executed
<1> QED BY <1>4, <1>5 DEF Planned

LEMMA PlannedRestart ==
  ASSUME NEW g \in Group, Planned(g), Restart PROVE Planned(g)'
BY DEF Restart, rows, Planned, Asked, Admitted, Staged, Carries, Executed

\* Every step keeps the plan of every group.
LEMMA PlanKept ==
  ASSUME TypeOK, Known, \A g \in Group : Ordered(g), \A g \in Group : Planned(g),
         [Next]_vars
  PROVE  (\A g \in Group : Planned(g))'
<1> SUFFICES ASSUME NEW h \in Group PROVE Planned(h)'
  OBVIOUS
<1>1. ASSUME NEW g \in Group, NEW r \in Offered[g], Execute(g, r) PROVE Planned(h)'
  <2>1. CASE h = g
    BY <1>1, <2>1, PlannedExecute
  <2>2. CASE h # g
    BY <1>1, <2>2, SamePlan DEF Execute, PlanView, TypeOK, history
  <2> QED BY <2>1, <2>2
<1>2. ASSUME NEW g \in Group, NEW t \in TaskId, TaskEnd(g, t) PROVE Planned(h)'
  <2>1. CASE h = g
    BY <1>2, <2>1, PlannedTaskEnd
  <2>2. CASE h # g
    BY <1>2, <2>2, SamePlan DEF TaskEnd, PlanView, TypeOK
  <2> QED BY <2>1, <2>2
<1>3. ASSUME NEW g \in Group, StartStage(g) PROVE Planned(h)'
  <2>1. CASE h = g
    BY <1>3, <2>1, PlannedStartStage
  <2>2. CASE h # g
    BY <1>3, <2>2, SamePlan DEF StartStage, PlanView, TypeOK
  <2> QED BY <2>1, <2>2
<1>4. ASSUME NEW g \in Group, FailGroup(g) \/ CompleteGroup(g) PROVE Planned(h)'
  <2>1. CASE h = g
    BY <1>4, <2>1, PlannedEnd
  <2>2. CASE h # g
    BY <1>4, <2>2, SamePlan DEF FailGroup, CompleteGroup, PlanView, TypeOK, history
  <2> QED BY <2>1, <2>2
<1>5. CASE Cleanup \/ (\E g \in Group : Cancel(g)) \/ UNCHANGED vars
  BY <1>5, SamePlan DEF Cleanup, Cancel, vars, execution, history, PlanView
<1>6. CASE Restart
  BY <1>6, PlannedRestart
<1> QED BY <1>1, <1>2, <1>3, <1>4, <1>5, <1>6 DEF Next

LEMMA PlanHolds == Spec => [](TypeOK /\ Known /\ \A g \in Group : Ordered(g) /\ Planned(g))
<1> DEFINE Orders == \A g \in Group : Ordered(g)
           Plans == \A g \in Group : Planned(g)
<1>1. Init => Plans
  BY PlannedInitially
<1>2. TypeOK /\ Known /\ Orders /\ Plans /\ [Next]_vars => Plans'
  BY PlanKept
<1>3. Spec => [](TypeOK /\ Known /\ Orders)
  BY OrderHolds
<1>4. Orders /\ Plans => \A g \in Group : Ordered(g) /\ Planned(g)
  OBVIOUS
<1> HIDE DEF Orders, Plans
<1> QED BY <1>1, <1>2, <1>3, <1>4, PTL DEF Spec

\* Exactly the requests that cannot be ordered are refused before a task starts, and
\* the stages of the others are their depths: no stage is empty, no task runs later
\* than its dependencies allow.
THEOREM PlansAreSound == Spec => []PlanSound
<1>1. ASSUME TypeOK, \A g \in Group : Ordered(g) /\ Planned(g) PROVE PlanSound
  <2>1. RefusedIffUnorderable
    BY <1>1 DEF RefusedIffUnorderable, Planned, Admitted, Executed, TypeOK
  <2>2. StageIsDepth
    BY <1>1 DEF StageIsDepth, Planned, Staged
  <2> QED BY <2>1, <2>2 DEF PlanSound
<1> QED BY <1>1, PlanHolds, PTL

\* A stage resumes a session of the latest earlier stage that returned one.
THEOREM StagesResumeTheLatest == Spec => []ResumesLatest
<1>1. ASSUME TypeOK, \A g \in Group : Ordered(g) /\ Planned(g) PROVE ResumesLatest
  BY <1>1 DEF ResumesLatest, Planned, Carries, Returning, Latest
<1> QED BY <1>1, PlanHolds, PTL

-----------------------------------------------------------------------------
(* The history. *)

\* A row of a task belongs to a group that was executed with that task.
RowsOwned ==
  \A t \in TaskId : taskRow[t] # NoRow =>
    /\ request[taskRow[t].group] # NoRequest
    /\ t \in request[taskRow[t].group].tasks

\* A group shows its own tasks only, and before it is executed it has no row.
OwnTasks ==
  \A g \in Group :
    /\ request[g] = NoRequest => groupRow[g] = NoRow
    /\ \A t \in TaskId :
         (request[g] = NoRequest \/ t \notin request[g].tasks) => task[g][t] = "none"

\* A group whose execution is under way is shown as running.
ExecutingRuns == \A g \in Group : where[g] = "executing" => status[g] = "running"

Faithful(g) == GroupRowAgrees(g) /\ TaskRowsAgree(g) /\ RowsAreBehind(g)

History == RowsOwned /\ OwnTasks /\ ExecutingRuns /\ SavedWhole /\ HistoryAgrees

\* The history of a group depends on its own records and rows, and on what they miss.
LEMMA Untouched ==
  ASSUME NEW h \in Group, Faithful(h),
         request'[h] = request[h], where'[h] = where[h], status'[h] = status[h],
         task'[h] = task[h], groupRow'[h] = groupRow[h],
         h \in lostGroup' <=> h \in lostGroup,
         \A t \in request[h].tasks :
           taskRow'[t] = taskRow[t] /\ (t \in lostTask' <=> t \in lostTask)
  PROVE  Faithful(h)'
<1>1. EndedIn(task[h])' = EndedIn(task[h])
  BY DEF EndedIn
<1>2. GroupRowAgrees(h)'
  <2>1. request[h].tasks \cap lostTask' = request[h].tasks \cap lostTask
    OBVIOUS
  <2> QED BY <1>1, <2>1 DEF Faithful, GroupRowAgrees
<1>3. TaskRowsAgree(h)'
  BY DEF Faithful, TaskRowsAgree
<1>4. RowsAreBehind(h)'
  BY <1>1 DEF Faithful, RowsAreBehind, Executed
<1> QED BY <1>2, <1>3, <1>4 DEF Faithful

\* The records, the tables and what they miss are all the history depends on.
LEMMA SameHistory ==
  ASSUME History, UNCHANGED <<request, where, status, task, rows, losses>> PROVE History'
<1>1. (RowsOwned /\ OwnTasks /\ ExecutingRuns /\ SavedWhole)'
  BY DEF History, RowsOwned, OwnTasks, ExecutingRuns, SavedWhole, rows
<1>2. HistoryAgrees'
  <2> SUFFICES ASSUME NEW g \in Group, request[g] # NoRequest, Alone(g) PROVE Faithful(g)'
    BY DEF HistoryAgrees, Faithful, Alone
  <2>1. Faithful(g)
    BY DEF History, HistoryAgrees, Faithful
  <2> QED BY <2>1, Untouched DEF rows, losses
<1> QED BY <1>1, <1>2 DEF History

LEMMA HistoryInitially == Init => History
<1> SUFFICES ASSUME Init PROVE History
  OBVIOUS
<1> QED BY DEF Init, History, RowsOwned, OwnTasks, ExecutingRuns, SavedWhole, HistoryAgrees

\* A new group writes rows of its own or none.
LEMMA HistoryExecute ==
  ASSUME TypeOK, Known, History, NEW g \in Group, NEW r \in Offered[g], Execute(g, r)
  PROVE History'
<1> DEFINE s == IF Valid(r) THEN "running" ELSE "failed"
<1>1. /\ r \in Request /\ r # NoRequest /\ r.tasks \subseteq TaskId /\ r.tasks # {}
  BY GroupAssumption DEF Request
<1>2. /\ request' = [request EXCEPT ![g] = r]
      /\ status' = [status EXCEPT ![g] = s]
      /\ task' = [task EXCEPT ![g] =
                    [t \in TaskId |-> IF t \in r.tasks THEN "pending" ELSE "none"]]
      /\ Save(g, r, s)
      /\ where' = [where EXCEPT ![g] = IF s = "running" THEN "executing" ELSE "ended"]
      /\ where[g] = "new"
      /\ lostTask' = lostTask
  BY DEF Execute
<1> HIDE DEF s
<1>3. request[g] = NoRequest /\ groupRow[g] = NoRow
  BY <1>2 DEF Known, History, OwnTasks
<1>4. \A t \in TaskId : taskRow[t] # NoRow => taskRow[t].group \in Group \ {g}
  BY <1>3 DEF TypeOK, History, RowsOwned
<1>5. \A h \in Group : h # g => request'[h] = request[h] /\ status'[h] = status[h]
                                 /\ task'[h] = task[h] /\ where'[h] = where[h]
  BY <1>2 DEF TypeOK
<1>6. request'[g] = r /\ status'[g] = s
      /\ where'[g] = (IF s = "running" THEN "executing" ELSE "ended")
      /\ \A t \in TaskId : task'[g][t] = IF t \in r.tasks THEN "pending" ELSE "none"
  BY <1>2 DEF TypeOK
<1>7. \A h \in Group : h # g => (Alone(h)' => Alone(h))
  BY <1>3, <1>5 DEF Alone
<1>8. ExecutingRuns'
  BY <1>5, <1>6 DEF History, ExecutingRuns
<1>9. ASSUME \A t \in r.tasks : taskRow[t] = NoRow, NEW q \in {s, "running"}, Saved(g, r, q),
             lostGroup' = lostGroup \cup {h \in {g} : q # s}
      PROVE History'
  <2>1. /\ groupRow' = [groupRow EXCEPT ![g] = [status |-> q, progress |-> 0]]
        /\ taskRow' = [t \in TaskId |-> IF t \in r.tasks
                                       THEN [group |-> g, status |-> "pending"]
                                       ELSE taskRow[t]]
    BY <1>9 DEF Saved
  <2>2. /\ groupRow'[g] = [status |-> q, progress |-> 0]
        /\ \A h \in Group : h # g => groupRow'[h] = groupRow[h]
        /\ \A t \in r.tasks : taskRow'[t] = [group |-> g, status |-> "pending"]
        /\ \A t \in TaskId : t \notin r.tasks => taskRow'[t] = taskRow[t]
    BY <1>1, <2>1 DEF TypeOK
  <2>3. RowsOwned'
    <3> SUFFICES ASSUME NEW t \in TaskId, taskRow'[t] # NoRow
                 PROVE  /\ request'[taskRow'[t].group] # NoRequest
                        /\ t \in request'[taskRow'[t].group].tasks
      BY DEF RowsOwned
    <3>1. CASE t \in r.tasks
      BY <1>1, <1>6, <2>2, <3>1
    <3>2. CASE t \notin r.tasks
      BY <1>4, <1>5, <2>2, <3>2 DEF History, RowsOwned
    <3> QED BY <3>1, <3>2
  <2>4. OwnTasks'
    BY <1>1, <1>5, <1>6, <2>2 DEF History, OwnTasks
  <2>5. SavedWhole'
    <3> SUFFICES ASSUME NEW h \in Group, groupRow'[h] # NoRow, NEW t \in request'[h].tasks
                 PROVE taskRow'[t] # NoRow /\ taskRow'[t].group = h
      BY DEF SavedWhole
    <3>1. CASE h = g
      <4>1. [group |-> g, status |-> "pending"] # NoRow
        <5>1. [group |-> g, status |-> "pending"] \in [group : Group, status : TaskStatus]
          BY DEF TaskStatus
        <5> QED BY <5>1, GroupAssumption
      <4> QED BY <1>6, <2>2, <3>1, <4>1
    <3>2. CASE h # g
      <4>1. taskRow[t] # NoRow /\ taskRow[t].group = h
        BY <1>5, <2>2, <3>2 DEF History, SavedWhole
      <4>2. t \notin r.tasks
        BY <1>9, <4>1
      <4>3. t \in TaskId
        <5>1. request[h] # NoRequest
          BY <2>2, <3>2 DEF History, OwnTasks
        <5> QED BY <1>5, <3>2, <5>1 DEF TypeOK, Request
      <4> QED BY <2>2, <4>1, <4>2, <4>3
    <3> QED BY <3>1, <3>2
  <2>6. HistoryAgrees'
    <3> SUFFICES ASSUME NEW h \in Group, request'[h] # NoRequest, Alone(h)'
                 PROVE  Faithful(h)'
      BY DEF HistoryAgrees, Faithful
    <3>1. CASE h = g
      <4>1. EndedIn(task[g])' = {} /\ Cardinality({}) = 0
        BY <1>6, FS_EmptySet DEF EndedIn
      <4>2. GroupRowAgrees(g)'
        <5> SUFFICES ASSUME g \notin lostGroup'
                     PROVE  /\ groupRow'[g] # NoRow
                            /\ groupRow'[g].status = status'[g]
                            /\ groupRow'[g].progress = Cardinality(EndedIn(task[g])')
          BY DEF GroupRowAgrees
        <5>1. groupRow'[g] \in [status : GroupStatus, progress : Nat]
          BY <2>2 DEF GroupStatus, s
        <5>2. groupRow'[g] # NoRow
          BY <5>1, GroupAssumption
        <5>3. q = s
          BY <1>9
        <5> QED BY <1>6, <2>2, <4>1, <5>2, <5>3
      <4>3. \A t \in r.tasks : taskRow'[t] # NoRow /\ taskRow'[t].group = g
                               /\ taskRow'[t].status = "pending" /\ task'[g][t] = "pending"
        <5>1. [group |-> g, status |-> "pending"] \in [group : Group, status : TaskStatus]
          BY DEF TaskStatus
        <5> QED BY <1>1, <1>6, <2>2, <5>1, GroupAssumption
      <4>4. TaskRowsAgree(g)'
        BY <1>6, <4>3 DEF TaskRowsAgree
      <4>5. RowsAreBehind(g)'
        <5>1. groupRow'[g].status \in {s, "running"} /\ groupRow'[g].progress = 0
          BY <2>2
        <5> QED BY <1>6, <4>1, <4>3, <5>1 DEF RowsAreBehind, Earlier
      <4> QED BY <3>1, <4>2, <4>4, <4>5 DEF Faithful
    <3>2. CASE h # g
      <4>1. request[h].tasks \cap r.tasks = {}
        BY <1>1, <1>5, <1>6, <3>2 DEF Alone
      <4>2. request[h].tasks \subseteq TaskId
        BY <1>5, <3>2 DEF TypeOK, Request
      <4>3. Faithful(h)
        BY <1>5, <1>7, <3>2 DEF History, HistoryAgrees, Faithful
      <4>4. h \in lostGroup' <=> h \in lostGroup
        BY <1>9, <3>2
      <4>5. \A t \in request[h].tasks : taskRow'[t] = taskRow[t]
        BY <2>2, <4>1, <4>2
      <4> QED BY <1>2, <1>5, <2>2, <3>2, <4>3, <4>4, <4>5, Untouched
    <3> QED BY <3>1, <3>2
  <2> QED BY <1>8, <2>3, <2>4, <2>5, <2>6 DEF History
<1>10. ASSUME UNCHANGED rows, lostGroup' = lostGroup \cup {g} PROVE History'
  <2>1. groupRow' = groupRow /\ taskRow' = taskRow
    BY <1>10 DEF rows
  <2>2. RowsOwned'
    BY <1>4, <1>5, <2>1 DEF History, RowsOwned
  <2>3. OwnTasks'
    BY <1>1, <1>5, <1>6, <2>1 DEF History, OwnTasks
  <2>4. SavedWhole'
    BY <1>3, <1>5, <2>1 DEF History, SavedWhole
  <2>5. HistoryAgrees'
    <3> SUFFICES ASSUME NEW h \in Group, request'[h] # NoRequest, Alone(h)'
                 PROVE  Faithful(h)'
      BY DEF HistoryAgrees, Faithful
    <3>1. CASE h = g
      BY <1>3, <1>10, <2>1, <3>1 DEF Faithful, GroupRowAgrees, TaskRowsAgree, RowsAreBehind
    <3>2. CASE h # g
      <4>1. Faithful(h)
        BY <1>5, <1>7, <3>2 DEF History, HistoryAgrees, Faithful
      <4>2. h \in lostGroup' <=> h \in lostGroup
        BY <1>10, <3>2
      <4> QED BY <1>2, <1>5, <2>1, <3>2, <4>1, <4>2, Untouched
    <3> QED BY <3>1, <3>2
  <2> QED BY <1>8, <2>2, <2>3, <2>4, <2>5 DEF History
<1> QED BY <1>2, <1>9, <1>10 DEF Save

\* A task only moves on.
Forward(a, b) ==
  \/ a = "pending" /\ b \in {"running", "failed"}
  \/ a = "running" /\ b = "completed"

\* Whichever statements of a turn are lost, the rows stay behind the records and miss
\* what they are said to miss.
LEMMA HistoryProgress ==
  ASSUME TypeOK, Known, History, NEW g \in Group, NEW new, where[g] = "executing",
         DOMAIN new \subseteq request[g].tasks,
         \A t \in DOMAIN new : new[t] \in TaskStatus /\ Forward(task[g][t], new[t]),
         Progress(g, new), UNCHANGED <<request, status, where>>
  PROVE History'
<1>1. request[g] # NoRequest /\ request[g].tasks \subseteq TaskId
  BY DEF Known, TypeOK, Request
<1>2. /\ task' \in [Group -> [TaskId -> TaskStatus]]
      /\ \A h \in Group : h # g => task'[h] = task[h]
      /\ \A t \in TaskId : task'[g][t] = IF t \in DOMAIN new THEN new[t] ELSE task[g][t]
      /\ \A t \in TaskId : t \notin DOMAIN new =>
           taskRow'[t] = taskRow[t] /\ (t \in lostTask' <=> t \in lostTask)
      /\ \A t \in TaskId : taskRow[t] = NoRow => taskRow'[t] = NoRow
      /\ \A t \in TaskId : taskRow[t] # NoRow =>
           /\ taskRow'[t] # NoRow /\ taskRow'[t].group = taskRow[t].group
           /\ t \in DOMAIN new =>
                /\ taskRow'[t].status \in {new[t], taskRow[t].status}
                                           \cup {s \in {"running"} : new[t] = "failed"}
                /\ t \notin lostTask' => taskRow'[t].status = new[t]
      /\ \A h \in Group : h # g =>
           groupRow'[h] = groupRow[h] /\ (h \in lostGroup' <=> h \in lostGroup)
      /\ groupRow[g] = NoRow => groupRow'[g] = NoRow /\ lostGroup' = lostGroup
      /\ groupRow[g] # NoRow =>
           /\ groupRow'[g] # NoRow /\ groupRow'[g].status = groupRow[g].status
           /\ \/ groupRow'[g].progress = groupRow[g].progress
              \/ groupRow'[g].progress <= Cardinality(EndedIn(task'[g]))
           /\ g \notin lostGroup' => groupRow'[g].progress = Cardinality(EndedIn(task'[g]))
      /\ groupRow' \in [Group -> [status : GroupStatus, progress : Nat] \cup {NoRow}]
  BY <1>1, ProgressRows
<1>3. ExecutingRuns'
  BY DEF History, ExecutingRuns
<1>4. RowsOwned'
  <2> SUFFICES ASSUME NEW t \in TaskId, taskRow'[t] # NoRow
               PROVE  /\ request[taskRow'[t].group] # NoRequest
                      /\ t \in request[taskRow'[t].group].tasks
    BY DEF RowsOwned
  <2>1. taskRow[t] # NoRow /\ taskRow'[t].group = taskRow[t].group
    BY <1>2
  <2> QED BY <2>1 DEF History, RowsOwned
<1>5. OwnTasks'
  <2>1. \A h \in Group : request'[h] = NoRequest => groupRow'[h] = NoRow
    BY <1>1, <1>2 DEF History, OwnTasks
  <2>2. ASSUME NEW h \in Group, NEW t \in TaskId,
               request'[h] = NoRequest \/ t \notin request'[h].tasks
        PROVE task'[h][t] = "none"
    <3>1. CASE h = g
      BY <1>1, <1>2, <2>2, <3>1 DEF History, OwnTasks
    <3>2. CASE h # g
      BY <1>2, <2>2, <3>2 DEF History, OwnTasks
    <3> QED BY <3>1, <3>2
  <2> QED BY <2>1, <2>2 DEF OwnTasks
<1>6. SavedWhole'
  <2> SUFFICES ASSUME NEW h \in Group, groupRow'[h] # NoRow, NEW t \in request[h].tasks
               PROVE taskRow'[t] # NoRow /\ taskRow'[t].group = h
    BY DEF SavedWhole
  <2>1. groupRow[h] # NoRow
    BY <1>2
  <2>2. request[h] \in Request
    BY <2>1 DEF TypeOK, History, OwnTasks
  <2>3. taskRow[t] # NoRow /\ taskRow[t].group = h
    BY <2>1 DEF History, SavedWhole
  <2>4. t \in TaskId
    BY <2>2 DEF Request
  <2> QED BY <1>2, <2>3, <2>4
<1>7. HistoryAgrees'
  <2> SUFFICES ASSUME NEW h \in Group, request[h] # NoRequest, Alone(h) PROVE Faithful(h)'
    BY DEF HistoryAgrees, Faithful, Alone
  <2>1. Faithful(h)
    BY DEF History, HistoryAgrees, Faithful
  <2>2. request[h].tasks \subseteq TaskId
    BY DEF TypeOK, Request
  <2>3. CASE h = g
    <3>1. Cardinality(EndedIn(task[g])) <= Cardinality(EndedIn(task'[g]))
          /\ Cardinality(EndedIn(task[g])) \in Nat /\ Cardinality(EndedIn(task'[g])) \in Nat
      <4>1. EndedIn(task[g]) \subseteq EndedIn(task'[g]) /\ EndedIn(task'[g]) \subseteq TaskId
        BY <1>2 DEF EndedIn, Forward
      <4> QED BY <4>1, GroupAssumption, EndedCounted, FS_Subset
    <3>2. EndedIn(task[g])' = EndedIn(task'[g])
      BY DEF EndedIn
    <3>3. groupRow[g] # NoRow =>
            /\ groupRow[g].status = "running" /\ status[g] = "running"
            /\ groupRow[g].progress <= Cardinality(EndedIn(task[g]))
            /\ groupRow[g].progress \in Nat
            /\ \A t \in request[g].tasks : taskRow[t].status \in Earlier(task[g][t])
      BY <2>1, <2>3 DEF Faithful, RowsAreBehind, Executed, History, ExecutingRuns, TypeOK
    <3>4. GroupRowAgrees(g)'
      BY <1>2, <2>1, <2>3, <3>2, <3>3 DEF Faithful, GroupRowAgrees
    <3>5. groupRow[g] # NoRow =>
            \A t \in request[g].tasks : taskRow[t] # NoRow /\ taskRow[t].group = g
      BY <2>1, <2>3 DEF Faithful, TaskRowsAgree
    <3>6. TaskRowsAgree(g)'
      <4> SUFFICES ASSUME groupRow'[g] # NoRow, NEW t \in request[g].tasks
                   PROVE  /\ taskRow'[t] # NoRow /\ taskRow'[t].group = g
                          /\ t \notin lostTask' => taskRow'[t].status = task'[g][t]
        BY DEF TaskRowsAgree
      <4>1. groupRow[g] # NoRow /\ t \in TaskId
        BY <1>1, <1>2
      <4>2. t \notin lostTask => taskRow[t].status = task[g][t]
        BY <2>1, <2>3, <4>1 DEF Faithful, TaskRowsAgree
      <4> QED BY <1>2, <3>5, <4>1, <4>2
    <3>7. RowsAreBehind(g)'
      <4> SUFFICES ASSUME groupRow'[g] # NoRow
                   PROVE  /\ groupRow'[g].status \in {status[g], "running"}
                          /\ groupRow'[g].progress <= Cardinality(EndedIn(task'[g]))
                          /\ \A t \in request[g].tasks :
                               taskRow'[t].status \in Earlier(task'[g][t])
        BY <3>2 DEF RowsAreBehind
      <4>1. groupRow[g] # NoRow
        BY <1>2
      <4>2. groupRow'[g].progress <= Cardinality(EndedIn(task'[g]))
        BY <1>2, <3>1, <3>3, <4>1
      <4>3. ASSUME NEW t \in request[g].tasks
            PROVE taskRow'[t].status \in Earlier(task'[g][t])
        <5>1. t \in TaskId /\ taskRow[t] # NoRow /\ taskRow[t].status \in Earlier(task[g][t])
          BY <1>1, <3>3, <3>5, <4>1
        <5>2. CASE t \in DOMAIN new
          <6>1. task'[g][t] = new[t] /\ Forward(task[g][t], new[t])
                /\ taskRow'[t].status \in {new[t], taskRow[t].status}
                                           \cup {s \in {"running"} : new[t] = "failed"}
            BY <1>2, <5>1, <5>2
          <6> QED BY <5>1, <6>1 DEF Forward, Earlier
        <5>3. CASE t \notin DOMAIN new
          BY <1>2, <5>1, <5>3
        <5> QED BY <5>2, <5>3
      <4> QED BY <1>2, <3>3, <4>1, <4>2, <4>3
    <3> QED BY <2>3, <3>4, <3>6, <3>7 DEF Faithful
  <2>4. CASE h # g
    <3>1. \A t \in request[h].tasks : t \notin DOMAIN new
      BY <1>1, <2>4 DEF Alone
    <3>2. \A t \in request[h].tasks :
            taskRow'[t] = taskRow[t] /\ (t \in lostTask' <=> t \in lostTask)
      BY <1>2, <2>2, <3>1
    <3>3. /\ task'[h] = task[h] /\ groupRow'[h] = groupRow[h]
          /\ h \in lostGroup' <=> h \in lostGroup
          /\ request'[h] = request[h] /\ where'[h] = where[h] /\ status'[h] = status[h]
      BY <1>2, <2>4
    <3> QED BY <2>1, <3>2, <3>3, Untouched
  <2> QED BY <2>3, <2>4
<1> QED BY <1>3, <1>4, <1>5, <1>6, <1>7 DEF History

\* The status of a group changes in its row too, or the row stays "running".
LEMMA HistoryFinish ==
  ASSUME TypeOK, History, NEW g \in Group, NEW s \in GroupStatus, Finish(g, s),
         where[g] = "executing", where' = [where EXCEPT ![g] = "ended"],
         UNCHANGED <<request, task, taskRow, lostTask>>
  PROVE History'
<1>1. \A h \in Group : h # g =>
        /\ status'[h] = status[h] /\ groupRow'[h] = groupRow[h] /\ where'[h] = where[h]
        /\ (h \in lostGroup' <=> h \in lostGroup)
  <2> TAKE h \in Group
  <2> HAVE h # g
  <2>1. status'[h] = status[h] /\ where'[h] = where[h] /\ (h \in lostGroup' <=> h \in lostGroup)
    BY DEF Finish, TypeOK
  <2>2. groupRow'[h] = groupRow[h]
    BY DEF Finish, TypeOK
  <2> QED BY <2>1, <2>2
<1>2. /\ status'[g] = s /\ where'[g] = "ended"
      /\ groupRow[g] = NoRow => groupRow'[g] = NoRow
      /\ \/ groupRow[g] = NoRow /\ UNCHANGED lostGroup
         \/ g \in lostGroup' /\ groupRow'[g] = groupRow[g]
         \/ /\ groupRow[g] # NoRow /\ UNCHANGED lostGroup
            /\ groupRow'[g] = [groupRow[g] EXCEPT !.status = s]
  BY DEF Finish, TypeOK
<1>3. (RowsOwned /\ OwnTasks /\ ExecutingRuns /\ SavedWhole)'
  <2>1. \A h \in Group : groupRow[h] = NoRow => groupRow'[h] = NoRow
    <3> TAKE h \in Group
    <3>1. CASE h = g
      BY <1>2, <3>1
    <3>2. CASE h # g
      <4>1. groupRow'[h] = groupRow[h]
        BY <1>1, <3>2
      <4> QED BY <4>1
    <3> QED BY <3>1, <3>2
  <2>2. \A h \in Group : groupRow'[h] # NoRow => groupRow[h] # NoRow
    BY <2>1
  <2>3. (RowsOwned /\ OwnTasks /\ SavedWhole)'
    BY <2>1, <2>2 DEF History, RowsOwned, OwnTasks, SavedWhole
  <2>4. ExecutingRuns'
    <3> SUFFICES ASSUME NEW h \in Group, where'[h] = "executing" PROVE status'[h] = "running"
      BY DEF ExecutingRuns
    <3>1. h # g
      BY <1>2
    <3>2. status'[h] = status[h] /\ where'[h] = where[h]
      BY <1>1, <3>1
    <3> QED BY <3>2 DEF History, ExecutingRuns
  <2> QED BY <2>3, <2>4
<1>4. HistoryAgrees'
  <2> SUFFICES ASSUME NEW h \in Group, request[h] # NoRequest, Alone(h) PROVE Faithful(h)'
    BY DEF HistoryAgrees, Faithful, Alone
  <2>1. Faithful(h)
    BY DEF History, HistoryAgrees, Faithful
  <2>2. CASE h = g
    <3>1. EndedIn(task[g])' = EndedIn(task[g])
      BY DEF EndedIn
    <3>2. groupRow[g] # NoRow =>
            /\ groupRow[g] \in [status : GroupStatus, progress : Nat]
            /\ groupRow[g].status = "running"
            /\ groupRow[g].progress <= Cardinality(EndedIn(task[g]))
            /\ \A t \in request[g].tasks : taskRow[t].status \in Earlier(task[g][t])
      BY <2>1, <2>2 DEF Faithful, RowsAreBehind, Executed, History, ExecutingRuns, TypeOK
    <3>3. TaskRowsAgree(g)'
      BY <1>2, <2>1, <2>2 DEF Faithful, TaskRowsAgree
    <3>4. CASE groupRow[g] = NoRow
      <4>1. g \in lostGroup
        BY <2>1, <2>2, <3>4 DEF Faithful, GroupRowAgrees
      <4>2. g \in lostGroup' /\ groupRow'[g] = NoRow
        BY <1>2, <3>4, <4>1
      <4> QED BY <2>2, <3>3, <4>2 DEF Faithful, GroupRowAgrees, RowsAreBehind
    <3>5. CASE g \in lostGroup' /\ groupRow'[g] = groupRow[g] /\ groupRow[g] # NoRow
      <4>1. GroupRowAgrees(g)'
        BY <3>5 DEF GroupRowAgrees
      <4>2. RowsAreBehind(g)'
        BY <3>1, <3>2, <3>5 DEF RowsAreBehind
      <4> QED BY <2>2, <3>3, <4>1, <4>2 DEF Faithful
    <3>6. CASE /\ groupRow[g] # NoRow /\ UNCHANGED lostGroup
               /\ groupRow'[g] = [groupRow[g] EXCEPT !.status = s]
      <4>1. /\ groupRow'[g] \in [status : GroupStatus, progress : Nat]
            /\ groupRow'[g].status = s /\ groupRow'[g].progress = groupRow[g].progress
        BY <3>2, <3>6
      <4>2. groupRow'[g] # NoRow
        BY <4>1, GroupAssumption
      <4>3. g \notin lostGroup => groupRow[g].progress = Cardinality(EndedIn(task[g]))
        BY <2>1, <2>2 DEF Faithful, GroupRowAgrees
      <4>4. GroupRowAgrees(g)'
        BY <1>2, <3>1, <3>6, <4>1, <4>2, <4>3 DEF GroupRowAgrees
      <4>5. RowsAreBehind(g)'
        BY <1>2, <3>1, <3>2, <3>6, <4>1 DEF RowsAreBehind
      <4> QED BY <2>2, <3>3, <4>4, <4>5 DEF Faithful
    <3> QED BY <1>2, <3>4, <3>5, <3>6
  <2>3. CASE h # g
    <3>1. /\ status'[h] = status[h] /\ groupRow'[h] = groupRow[h] /\ where'[h] = where[h]
          /\ h \in lostGroup' <=> h \in lostGroup
      BY <1>1, <2>3
    <3> QED BY <2>1, <3>1, Untouched
  <2> QED BY <2>2, <2>3
<1> QED BY <1>3, <1>4 DEF History

\* A restart shows what the tables say.
LEMMA HistoryRestart ==
  ASSUME TypeOK, Known, History, Restart PROVE History'
<1>1. /\ \A g \in Group : status'[g] = IF groupRow[g] = NoRow THEN "none"
                                      ELSE groupRow[g].status
      /\ \A g \in Group, t \in TaskId :
           task'[g][t] = IF taskRow[t] # NoRow /\ taskRow[t].group = g
                         THEN taskRow[t].status ELSE "none"
      /\ \A g \in Group : where'[g] = IF where[g] = "new" THEN "new" ELSE "restored"
      /\ UNCHANGED <<request, groupRow, taskRow, lostGroup, lostTask>>
  BY DEF Restart, rows, losses
<1>2. (RowsOwned /\ SavedWhole /\ ExecutingRuns)'
  BY <1>1 DEF History, RowsOwned, SavedWhole, ExecutingRuns
<1>3. OwnTasks'
  BY <1>1 DEF History, RowsOwned, OwnTasks
<1>4. HistoryAgrees'
  <2> SUFFICES ASSUME NEW g \in Group, request[g] # NoRequest, Alone(g) PROVE Faithful(g)'
    BY <1>1 DEF HistoryAgrees, Faithful, Alone
  <2>1. Faithful(g)
    BY DEF History, HistoryAgrees, Faithful
  <2>2. request[g].tasks \subseteq TaskId /\ where'[g] = "restored"
    BY <1>1 DEF TypeOK, Request, Known
  <2>3. RowsAreBehind(g)'
    BY <2>2 DEF RowsAreBehind, Executed
  <2>4. groupRow[g] # NoRow => \A t \in request[g].tasks :
          taskRow[t] # NoRow /\ taskRow[t].group = g /\ task'[g][t] = taskRow[t].status
    BY <1>1, <2>1, <2>2 DEF Faithful, TaskRowsAgree
  <2>5. TaskRowsAgree(g)'
    BY <1>1, <2>4 DEF TaskRowsAgree
  <2>6. GroupRowAgrees(g)'
    <3> SUFFICES ASSUME g \notin lostGroup, request[g].tasks \cap lostTask = {}
                 PROVE  /\ groupRow[g] # NoRow /\ groupRow[g].status = status'[g]
                        /\ groupRow[g].progress = Cardinality(EndedIn(task[g])')
      <4>1. CASE request[g].tasks \cap lostTask = {}
        BY <1>1, <4>1 DEF GroupRowAgrees
      <4>2. CASE request[g].tasks \cap lostTask # {}
        BY <1>1, <2>1, <2>2, <4>2 DEF Faithful, GroupRowAgrees
      <4> QED BY <4>1, <4>2
    <3>1. groupRow[g] # NoRow /\ groupRow[g].progress = Cardinality(EndedIn(task[g]))
      BY <2>1 DEF Faithful, GroupRowAgrees
    <3>2. \A t \in TaskId : task'[g][t] = task[g][t]
      <4> SUFFICES ASSUME NEW t \in TaskId PROVE task'[g][t] = task[g][t]
        OBVIOUS
      <4>1. CASE t \in request[g].tasks
        BY <2>1, <2>4, <3>1, <4>1 DEF Faithful, TaskRowsAgree
      <4>2. CASE t \notin request[g].tasks
        BY <1>1, <4>2 DEF History, RowsOwned, OwnTasks
      <4> QED BY <4>1, <4>2
    <3>3. EndedIn(task[g])' = EndedIn(task[g])
      BY <3>2 DEF EndedIn
    <3> QED BY <1>1, <3>1, <3>3
  <2> QED BY <2>3, <2>5, <2>6 DEF Faithful
<1> QED BY <1>2, <1>3, <1>4 DEF History

\* Every step keeps the history.
LEMMA HistoryStep ==
  ASSUME TypeOK, Known, \A g \in Group : Ordered(g), History, [Next]_vars
  PROVE History'
<1>1. ASSUME NEW g \in Group, NEW r \in Offered[g], Execute(g, r) PROVE History'
  BY <1>1, HistoryExecute
<1>2. ASSUME NEW g \in Group, NEW t \in TaskId, TaskEnd(g, t) PROVE History'
  <2>1. /\ where[g] = "executing" /\ t \in stage[g] /\ task[g][t] = "running"
        /\ Progress(g, [u \in {t} |-> "completed"])
        /\ UNCHANGED <<request, status, where>>
    BY <1>2 DEF TaskEnd, Running
  <2>2. t \in request[g].tasks
    BY <2>1 DEF Ordered, Placed, Executed
  <2> DEFINE new == [u \in {t} |-> "completed"]
  <2>3. DOMAIN new = {t}
        /\ \A u \in DOMAIN new : new[u] \in TaskStatus /\ Forward(task[g][u], new[u])
    BY <2>1 DEF TaskStatus, Forward
  <2>4. Progress(g, new)
    BY <2>1
  <2> HIDE DEF new
  <2> QED BY <2>1, <2>2, <2>3, <2>4, HistoryProgress
<1>3. ASSUME NEW g \in Group, StartStage(g) PROVE History'
  <2> DEFINE next == Executable(request[g], done[g] \cup stage[g])
             new  == [t \in next |-> IF t \in request[g].blank THEN "failed" ELSE "running"]
  <2>1. where[g] = "executing" /\ Progress(g, new) /\ UNCHANGED <<request, status, where>>
    BY <1>3 DEF StartStage, StageOver
  <2>2. next \subseteq request[g].tasks \ (done[g] \cup stage[g])
    BY DEF Executable
  <2>3. \A t \in next : task[g][t] = "pending"
    BY <2>1, <2>2 DEF Ordered, Placed, Executed
  <2>4. DOMAIN new = next
        /\ \A u \in DOMAIN new : new[u] \in TaskStatus /\ Forward(task[g][u], new[u])
    <3>1. DOMAIN new = next /\ \A u \in next : new[u] \in {"running", "failed"}
      OBVIOUS
    <3>2. "running" \in TaskStatus /\ "failed" \in TaskStatus
      BY DEF TaskStatus
    <3> HIDE DEF new, next
    <3>3. ASSUME NEW u \in DOMAIN new PROVE new[u] \in TaskStatus /\ Forward(task[g][u], new[u])
      <4>1. task[g][u] = "pending" /\ new[u] \in {"running", "failed"}
        BY <2>3, <3>1
      <4>2. new[u] \in TaskStatus
        BY <3>2, <4>1
      <4>3. Forward(task[g][u], new[u])
        BY <4>1 DEF Forward
      <4> QED BY <4>2, <4>3
    <3> QED BY <3>1, <3>3
  <2> HIDE DEF next, new
  <2> QED BY <2>1, <2>2, <2>4, HistoryProgress
<1>4. ASSUME NEW g \in Group, FailGroup(g) \/ CompleteGroup(g) PROVE History'
  <2>1. /\ UNCHANGED <<request, task, taskRow, lostTask>>
        /\ (Finish(g, "failed") \/ Finish(g, "completed"))
        /\ where[g] = "executing" /\ where' = [where EXCEPT ![g] = "ended"]
    BY <1>4 DEF FailGroup, CompleteGroup, StopsNow, StageOver
  <2>2. "failed" \in GroupStatus /\ "completed" \in GroupStatus
    BY DEF GroupStatus
  <2> QED BY <2>1, <2>2, HistoryFinish
<1>5. CASE Cleanup \/ (\E g \in Group : Cancel(g)) \/ UNCHANGED vars
  BY <1>5, SameHistory DEF Cleanup, Cancel, vars, shown, execution
<1>6. CASE Restart
  BY <1>6, HistoryRestart
<1> QED BY <1>1, <1>2, <1>3, <1>4, <1>5, <1>6 DEF Next

LEMMA HistoryHolds == Spec => []History
<1>1. TypeOK /\ Known /\ (\A g \in Group : Ordered(g)) /\ History /\ [Next]_vars => History'
  BY HistoryStep
<1> QED BY <1>1, HistoryInitially, OrderHolds, PTL DEF Spec

\* A group is in the history with all its tasks, whatever ids other groups use.
THEOREM GroupsSavedWhole == Spec => []SavedWhole
<1>1. History => SavedWhole
  BY DEF History
<1> QED BY <1>1, HistoryHolds, PTL

\* The history of a group that shares no task id says what its clients are shown, but
\* for what the failed statements left out of it, and never is ahead of what was done,
\* whatever the process does, whichever statements fail and however often it restarts.
THEOREM HistoryFaithful == Spec => []HistoryAgrees
<1>1. History => HistoryAgrees
  BY DEF History
<1> QED BY <1>1, HistoryHolds, PTL

\* Both at once: what a restarted server knows of its groups.
THEOREM HistoryIsSound == Spec => []HistorySound
<1>1. SavedWhole /\ HistoryAgrees => HistorySound
  BY DEF HistorySound
<1> QED BY <1>1, GroupsSavedWhole, HistoryFaithful, PTL
=============================================================================
