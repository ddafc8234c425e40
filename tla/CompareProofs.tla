---------------------------- MODULE CompareProofs ----------------------------
(***************************************************************************)
(* The comparisons for any number of agents, requests and faults: the      *)
(* shapes of the state, the bound on what passes the limit, that a         *)
(* finished row tells the truth about its tasks, and that the worktrees on *)
(* the disk are those of the comparisons.                                  *)
(***************************************************************************)
EXTENDS Compare, FiniteSetTheorems, TLAPS

ChildStatus == LiveChild \cup EndedChild \cup {"none"}

\* The tasks of c are those that name it.
LEMMA TasksName ==
  ASSUME NEW c \in Comparison
  PROVE  TasksOf(c) = {t \in Task : t[1] = c}
BY DEF TasksOf, Task

\* The row keeps its status or is that of tasks all of which are over.
LEMMA RowAfterIs ==
  ASSUME CompareTypeOK, NEW c \in Comparison, NEW ch \in [Task -> ChildStatus]
  PROVE  /\ RowAfter(c, ch) \in RowStatus \cup {"none"}
         /\ \/ RowAfter(c, ch) = row[c]
            \/ /\ row[c] # "none"
               /\ RowAfter(c, ch) \notin {"none", "running", "cancelling"}
               /\ \A t \in TasksOf(c) : ch[t] \notin LiveChild
         /\ \/ RowAfter(c, ch) = row[c]
            \/ RowAfter(c, ch) # "completed"
            \/ \A t \in TasksOf(c) : ch[t] # "none" => ch[t] = "completed"
<1> DEFINE known == {t \in TasksOf(c) : ch[t] # "none"}
           all(s) == \A t \in known : ch[t] = s
<1>1. CASE row[c] = "none" \/ \E t \in known : ch[t] \notin EndedChild
  BY <1>1 DEF RowAfter, CompareTypeOK
<1>2. CASE ~ (row[c] = "none" \/ \E t \in known : ch[t] \notin EndedChild)
  <2>1. \A t \in TasksOf(c) : ch[t] \notin LiveChild
    BY <1>2 DEF LiveChild, EndedChild
  <2>2. RowAfter(c, ch) = CASE all("completed") -> "completed"
                            [] all("failed")    -> "failed"
                            [] all("cancelled") -> "cancelled"
                            [] OTHER -> "partial_success"
    BY <1>2 DEF RowAfter
  <2>3. /\ RowAfter(c, ch) \in {"completed", "failed", "cancelled", "partial_success"}
        /\ RowAfter(c, ch) = "completed" => all("completed")
    BY <2>2
  <2> QED BY <1>2, <2>1, <2>3 DEF RowStatus
<1> QED BY <1>1, <1>2

\* A handler of a task leaves the map, the row of the task and that of the comparison
\* with statuses.
LEMMA HandlerTyped ==
  ASSUME CompareTypeOK, NEW t \in Task, NEW s \in ChildStatus \ {"none"},
         NEW written \in BOOLEAN, child' = InQueue(t, s), WriteChild(t, s, written)
  PROVE  /\ child' \in [Task -> ChildStatus] /\ childRow' \in [Task -> ChildStatus]
         /\ unwritten' \subseteq Task
         /\ \A u \in Task \ {t} : child'[u] = child[u] /\ childRow'[u] = childRow[u]
         /\ child'[t] = IF child[t] = "none" THEN "none" ELSE s
         /\ childRow'[t] = IF written /\ childRow[t] # "none" THEN s ELSE childRow[t]
         /\ unwritten' = IF written THEN unwritten ELSE unwritten \cup {t}
BY DEF CompareTypeOK, InQueue, WriteChild, ChildStatus

\* What WriteRow leaves.
LEMMA WriteRowIs ==
  ASSUME CompareTypeOK, NEW t \in Task, child' \in [Task -> ChildStatus],
         NEW stored \in BOOLEAN, WriteRow(t[1], child', stored)
  PROVE  /\ t[1] \in Comparison
         /\ row' \in [Comparison -> RowStatus \cup {"none"}]
         /\ row' = row \/ row' = [row EXCEPT ![t[1]] = RowAfter(t[1], child')]
         /\ torn' \subseteq Comparison
<1>1. t[1] \in Comparison
  BY DEF Task
<1>2. RowAfter(t[1], child') \in RowStatus \cup {"none"}
  BY <1>1, RowAfterIs
<1> QED BY <1>1, <1>2 DEF WriteRow, CompareTypeOK

-----------------------------------------------------------------------------
(* Types *)

\* A step keeps the types.
LEMMA CompareTypesKept ==
  ASSUME CompareTypeOK, [CompareNext]_cmpVars PROVE CompareTypeOK'
<1> USE CompareAssumption DEF cmpQueue, cmpTrees, cmpHistory, cmpCounts
<1>0. ASSUME NEW well \in BOOLEAN, Unless(well)
      PROVE  compareFaults' \in Nat
  BY <1>0 DEF CompareTypeOK, Unless, CompareFault
<1>1. ASSUME NEW c \in Comparison,
             AskComparison(c) \/ CheckLimit(c) \/ CreationFails(c)
      PROVE  CompareTypeOK'
  BY <1>1 DEF CompareTypeOK, AskComparison, CheckLimit, CreationFails, RollBack, TasksOf,
              Task
<1>2. ASSUME NEW c \in Comparison, CreateTasks(c) PROVE CompareTypeOK'
  <2>1. TasksOf(c) \subseteq Task
    BY TasksName
  <2>2. PICK lost \in SUBSET TasksOf(c), stored \in BOOLEAN :
          /\ Unless(lost = {} /\ stored)
          /\ childRow' = [t \in Task |-> IF t \in TasksOf(c) \ lost THEN "pending"
                                        ELSE childRow[t]]
          /\ unwritten' = unwritten \cup lost
          /\ row' = IF stored THEN [row EXCEPT ![c] = "running"] ELSE row
          /\ leftover' = IF stored THEN leftover ELSE leftover \cup TasksOf(c)
    BY <1>2 DEF CreateTasks
  <2>3. compareFaults' \in Nat
    BY <1>0, <2>2
  <2>4. childRow' \in [Task -> LiveChild \cup EndedChild \cup {"none"}]
    BY <2>2 DEF CompareTypeOK, LiveChild
  <2>5. row' \in [Comparison -> RowStatus \cup {"none"}]
    BY <2>2 DEF CompareTypeOK, RowStatus
  <2>6. unwritten' \subseteq Task /\ leftover' \subseteq Task
    BY <2>1, <2>2 DEF CompareTypeOK
  <2> QED BY <1>2, <2>1, <2>3, <2>4, <2>5, <2>6 DEF CompareTypeOK, CreateTasks, LiveChild
<1>3. ASSUME NEW c \in Comparison, CancelComparison(c) PROVE CompareTypeOK'
  <2>1. TasksOf(c) \subseteq Task
    BY TasksName
  <2> QED BY <1>3, <2>1 DEF CompareTypeOK, CancelComparison, CompareFault, RowStatus
<1>4. ASSUME NEW t \in Task, AddWorktree(t) \/ RemoveWorktree(t) PROVE CompareTypeOK'
  BY <1>4 DEF CompareTypeOK, AddWorktree, RemoveWorktree, CompareFault
<1>5. ASSUME NEW t \in Task, StartChild(t) PROVE CompareTypeOK'
  <2>1. PICK written \in BOOLEAN : Unless(written) /\ WriteChild(t, "running", written)
    BY <1>5 DEF StartChild
  <2>2. child' = InQueue(t, "running") /\ "running" \in ChildStatus \ {"none"}
    BY <1>5 DEF StartChild, ChildStatus, LiveChild
  <2>3. /\ child' \in [Task -> ChildStatus] /\ childRow' \in [Task -> ChildStatus]
        /\ unwritten' \subseteq Task
    BY <2>1, <2>2, HandlerTyped
  <2> QED BY <1>0, <1>5, <2>1, <2>3 DEF CompareTypeOK, StartChild, ChildStatus
<1>6. ASSUME NEW t \in Task, ForgetChild(t) PROVE CompareTypeOK'
  BY <1>6 DEF CompareTypeOK, ForgetChild, Task
<1>7. ASSUME NEW t \in Task, CancelChild(t) PROVE CompareTypeOK'
  <2>1. PICK written \in BOOLEAN, stored \in BOOLEAN :
          /\ Unless(written /\ stored) /\ WriteChild(t, "cancelled", written)
          /\ WriteRow(t[1], child', stored)
    BY <1>7 DEF CancelChild
  <2>2. child' = InQueue(t, "cancelled") /\ "cancelled" \in ChildStatus \ {"none"}
    BY <1>7 DEF CancelChild, ChildStatus, EndedChild
  <2>3. /\ child' \in [Task -> ChildStatus] /\ childRow' \in [Task -> ChildStatus]
        /\ unwritten' \subseteq Task
    BY <2>1, <2>2, HandlerTyped
  <2>4. row' \in [Comparison -> RowStatus \cup {"none"}] /\ torn' \subseteq Comparison
    BY <2>1, <2>3, WriteRowIs
  <2>5. compareFaults' \in Nat
    BY <1>0, <2>1
  <2> QED BY <1>7, <2>3, <2>4, <2>5 DEF CompareTypeOK, CancelChild, ChildStatus
<1>8. ASSUME NEW t \in Task, NEW status \in {"completed", "failed"}, EndChild(t, status)
      PROVE  CompareTypeOK'
  <2>1. PICK written \in BOOLEAN, stored \in BOOLEAN :
          /\ Unless(written /\ stored) /\ WriteChild(t, status, written)
          /\ WriteRow(t[1], child', stored)
    BY <1>8 DEF EndChild
  <2>2. child' = InQueue(t, status) /\ status \in ChildStatus \ {"none"}
    BY <1>8 DEF EndChild, ChildStatus, EndedChild
  <2>3. /\ child' \in [Task -> ChildStatus] /\ childRow' \in [Task -> ChildStatus]
        /\ unwritten' \subseteq Task
    BY <2>1, <2>2, HandlerTyped
  <2>4. row' \in [Comparison -> RowStatus \cup {"none"}] /\ torn' \subseteq Comparison
    BY <2>1, <2>3, WriteRowIs
  <2>5. compareFaults' \in Nat
    BY <1>0, <2>1
  <2> QED BY <1>8, <2>3, <2>4, <2>5 DEF CompareTypeOK, EndChild, ChildStatus
<1>9. ASSUME RestartCompare PROVE CompareTypeOK'
  <2>1. /\ row' \in [Comparison -> RowStatus \cup {"none"}]
        /\ childRow' \in [Task -> ChildStatus]
        /\ unwritten' \subseteq Task /\ removed' \subseteq Task
        /\ torn' \subseteq Comparison /\ removals' \in Nat
    <3>1. CASE UNCHANGED <<row, childRow, unwritten, removed, torn, removals>>
      BY <3>1 DEF CompareTypeOK, ChildStatus
    <3>2. CASE EndCut
      BY <3>2 DEF EndCut, WriteChild, CompareTypeOK, ChildStatus, EndedChild, Task
    <3>3. CASE RemovalCut
      BY <3>3 DEF RemovalCut, WriteChild, CompareTypeOK, ChildStatus, EndedChild, Task
    <3>4. CASE CancelCut
      BY <3>4 DEF CancelCut, CompareTypeOK, ChildStatus, RowStatus
    <3>5. CASE CreationCut
      BY <3>5 DEF CreationCut, CompareTypeOK, ChildStatus, LiveChild
    <3> QED BY <1>9, <3>1, <3>2, <3>3, <3>4, <3>5 DEF RestartCompare
  <2>2. forgotten' \subseteq Comparison /\ job' \subseteq Task /\ leftover' \subseteq Task
    BY <1>9 DEF CompareTypeOK, RestartCompare, RestoredTasks, Task, Known
  <2>3. child' \in [Task -> ChildStatus]
    BY <1>9 DEF RestartCompare, ChildStatus, LiveChild
  <2>4. request' \in [Comparison -> {"none", "asked", "creating", "over"}]
    BY <1>9 DEF RestartCompare
  <2> QED BY <1>9, <2>1, <2>2, <2>3, <2>4 DEF CompareTypeOK, RestartCompare, ChildStatus
<1>10. ASSUME ClearQueue PROVE CompareTypeOK'
  BY <1>10 DEF ClearQueue, CompareTypeOK, Known, Task
<1>11. CASE UNCHANGED cmpVars
  BY <1>11 DEF CompareTypeOK, cmpVars
<1> QED BY <1>1, <1>2, <1>3, <1>4, <1>5, <1>6, <1>7, <1>8, <1>9, <1>10, <1>11 DEF CompareNext

\* The state of the comparisons keeps its shapes.
THEOREM CompareTyped == CompareSpec => []CompareTypeOK
<1>1. CompareInit => CompareTypeOK
  BY DEF CompareInit, CompareTypeOK
<1> QED BY <1>1, CompareTypesKept, PTL DEF CompareSpec
-----------------------------------------------------------------------------
(* The limit *)

Served == {c \in Comparison : request[c] \in {"asked", "creating"}}

\* What the limit lets through, from the state alone: the requests being served,
\* and at most so many running or under way.
LimitInv ==
  /\ CompareTypeOK
  /\ Cardinality(Served) <= MaxCreators
  /\ LimitOvershoot

\* Removing, adding and keeping elements of the sets counted.
LEMMA Sizes ==
  ASSUME NEW S \in SUBSET Comparison
  PROVE  /\ IsFiniteSet(S) /\ Cardinality(S) \in Nat
         /\ \A T \in SUBSET S : Cardinality(T) <= Cardinality(S)
         /\ \A c \in Comparison : Cardinality(S \cup {c}) <= Cardinality(S) + 1
         /\ \A c \in S : Cardinality(S \ {c}) = Cardinality(S) - 1
<1>1. IsFiniteSet(S) /\ Cardinality(S) \in Nat
  BY CompareAssumption, FS_Subset, FS_CardinalityType
<1> QED BY <1>1, FS_Subset, FS_AddElement, FS_RemoveElement

\* A step counts no more than the limit, the requests and the faults allow.
LEMMA LimitKept ==
  ASSUME LimitInv, CompareTypeOK', [CompareNext]_cmpVars PROVE LimitInv'
<1> USE CompareAssumption DEF cmpQueue, cmpTrees, cmpHistory, cmpCounts, LimitInv
<1>0. /\ Counted \in SUBSET Comparison /\ Counted' \in SUBSET Comparison
      /\ Creating \in SUBSET Comparison /\ Creating' \in SUBSET Comparison
      /\ Served \in SUBSET Comparison /\ Served' \in SUBSET Comparison
      /\ Creating \subseteq Served
  BY DEF Counted, Creating, Served
<1>1. ASSUME Counted' \subseteq Counted, Creating' \subseteq Creating,
             Served' \subseteq Served, compareFaults' >= compareFaults, crashes' >= crashes
      PROVE  LimitInv'
  <2>1. Cardinality(Counted') <= Cardinality(Counted)
    BY <1>0, <1>1, Sizes
  <2>2. Cardinality(Creating') <= Cardinality(Creating)
    BY <1>0, <1>1, Sizes
  <2>3. Cardinality(Served') <= Cardinality(Served)
    BY <1>0, <1>1, Sizes
  <2>4. \A S \in {Counted, Counted', Creating, Creating', Served, Served'} :
          Cardinality(S) \in Nat
    BY <1>0, Sizes
  <2>5. {compareFaults, compareFaults', crashes, crashes'} \subseteq Nat
    BY DEF CompareTypeOK
  <2> QED BY <1>1, <2>1, <2>2, <2>3, <2>4, <2>5 DEF LimitOvershoot
<1>2. ASSUME NEW c \in Comparison, AskComparison(c) PROVE LimitInv'
  <2>1. Counted' = Counted /\ Creating' = Creating /\ Served' = Served \cup {c}
    BY <1>2 DEF AskComparison, CompareTypeOK, Counted, Creating, Served
  <2>2. /\ Cardinality(Served) < MaxCreators
        /\ compareFaults' = compareFaults /\ crashes' = crashes
    BY <1>2 DEF AskComparison, Served
  <2> QED BY <1>0, <2>1, <2>2, Sizes DEF LimitOvershoot
<1>3. ASSUME NEW c \in Comparison, CheckLimit(c) PROVE LimitInv'
  <2>1. CASE Room
    <3>1. /\ Counted' = Counted /\ Served' = Served /\ Creating' \subseteq Served'
          /\ compareFaults' = compareFaults /\ crashes' = crashes
      BY <1>3, <2>1 DEF CheckLimit, CompareTypeOK, Counted, Creating, Served
    <3>2. Cardinality(Creating') <= MaxCreators
      BY <1>0, <3>1, Sizes
    <3> QED BY <1>0, <2>1, <3>1, <3>2, Sizes DEF Room, LimitOvershoot, CompareTypeOK
  <2>2. CASE ~ Room
    BY <1>1, <1>3, <2>2 DEF CheckLimit, CompareTypeOK, Counted, Creating, Served
  <2> QED BY <2>1, <2>2
<1>4. ASSUME NEW c \in Comparison, CreationFails(c) PROVE LimitInv'
  BY <1>1, <1>4 DEF CreationFails, CompareTypeOK, Counted, Creating, Served
<1>5. ASSUME NEW c \in Comparison, CreateTasks(c) PROVE LimitInv'
  <2>1. /\ Counted' \subseteq Counted \cup {c} /\ c \in Creating
        /\ Creating' = Creating \ {c} /\ Served' \subseteq Served
        /\ compareFaults' \in Nat /\ compareFaults' >= compareFaults /\ crashes' = crashes
    BY <1>5 DEF CreateTasks, Unless, CompareFault, CompareTypeOK, Counted, Creating, Served
  <2>2. Cardinality(Counted') <= Cardinality(Counted) + 1
    <3>1. Counted \cup {c} \in SUBSET Comparison
      BY <1>0
    <3>2. Cardinality(Counted') <= Cardinality(Counted \cup {c})
      BY <2>1, <3>1, Sizes
    <3> QED BY <1>0, <3>1, <3>2, Sizes
  <2>3. Cardinality(Creating') = Cardinality(Creating) - 1
    BY <1>0, <2>1, Sizes
  <2>4. Cardinality(Served') <= Cardinality(Served)
    BY <1>0, <2>1, Sizes
  <2> QED BY <1>0, <2>1, <2>2, <2>3, <2>4, Sizes DEF LimitOvershoot, CompareTypeOK
<1>6. ASSUME NEW c \in Comparison, Counted' \subseteq Counted \cup {c},
             Cardinality(Creating') <= Cardinality(Creating),
             Cardinality(Served') <= Cardinality(Served),
             \/ compareFaults' = compareFaults + 1 /\ crashes' = crashes
             \/ compareFaults' = compareFaults /\ crashes' = crashes + 1
      PROVE  LimitInv'
  <2>1. Counted \cup {c} \in SUBSET Comparison
    BY <1>0
  <2>2. Cardinality(Counted') <= Cardinality(Counted \cup {c})
    BY <1>6, <2>1, Sizes
  <2>3. Cardinality(Counted \cup {c}) <= Cardinality(Counted) + 1
    BY <1>0, Sizes
  <2>4. \A S \in {Counted, Counted', Counted \cup {c}, Creating, Creating', Served, Served'} :
          Cardinality(S) \in Nat
    BY <1>0, <2>1, Sizes
  <2>5. compareFaults \in Nat /\ crashes \in Nat
    BY DEF CompareTypeOK
  <2> QED BY <1>6, <2>2, <2>3, <2>4, <2>5 DEF LimitOvershoot
<1>7. ASSUME NEW t \in Task, AddWorktree(t) \/ RemoveWorktree(t) \/ StartChild(t)
                             \/ ForgetChild(t)
      PROVE  LimitInv'
  <2>1. /\ UNCHANGED <<row, request, crashes>>
        /\ compareFaults' = compareFaults \/ compareFaults' = compareFaults + 1
    BY <1>7 DEF AddWorktree, RemoveWorktree, StartChild, ForgetChild, Unless, CompareFault
  <2> QED BY <1>1, <2>1 DEF CompareTypeOK, Counted, Creating, Served
<1>8. ASSUME ClearQueue PROVE LimitInv'
  BY <1>1, <1>8 DEF ClearQueue, CompareTypeOK, Counted, Creating, Served
<1>9. ASSUME NEW t \in Task,
             CancelChild(t) \/ \E status \in {"completed", "failed"} : EndChild(t, status)
      PROVE  LimitInv'
  <2>1. /\ child' \in [Task -> ChildStatus] /\ t[1] \in Comparison
        /\ row' = row \/ row' = [row EXCEPT ![t[1]] = RowAfter(t[1], child')]
        /\ request' = request /\ crashes' = crashes
        /\ compareFaults' = compareFaults \/ compareFaults' = compareFaults + 1
    BY <1>9 DEF CompareTypeOK, CancelChild, EndChild, WriteRow, Unless, CompareFault,
                ChildStatus, Task
  <2>2. RowAfter(t[1], child') \in {"running", "cancelling"} => row[t[1]] = RowAfter(t[1], child')
    BY <2>1, RowAfterIs
  <2>3. Counted' \subseteq Counted
    BY <2>1, <2>2 DEF CompareTypeOK, Counted
  <2> QED BY <1>1, <2>1, <2>3 DEF CompareTypeOK, Creating, Served
<1>10. ASSUME RestartCompare PROVE LimitInv'
  <2>1. /\ crashes' = crashes + 1 /\ compareFaults' = compareFaults
        /\ Creating' \subseteq Creating /\ Served' \subseteq Served
    BY <1>10 DEF RestartCompare, Creating, Served
  <2>2. CASE CancelCut
    <3>1. PICK c \in Comparison : Counted' \subseteq Counted \cup {c}
      BY <2>2 DEF CancelCut, CompareTypeOK, Counted
    <3>2. Cardinality(Creating') <= Cardinality(Creating)
      BY <1>0, <2>1, Sizes
    <3>3. Cardinality(Served') <= Cardinality(Served)
      BY <1>0, <2>1, Sizes
    <3> QED BY <1>0, <2>1, <3>1, <3>2, <3>3, <1>6 DEF CompareTypeOK
  <2>3. CASE row' = row
    BY <1>1, <2>1, <2>3 DEF CompareTypeOK, Counted
  <2> QED BY <1>10, <2>2, <2>3 DEF RestartCompare, EndCut, RemovalCut, CreationCut
<1>11. CASE UNCHANGED cmpVars
  BY <1>1, <1>11 DEF cmpVars, CompareTypeOK, Counted, Creating, Served
<1>12. ASSUME NEW c \in Comparison, CancelComparison(c) PROVE LimitInv'
  <2>1. CASE compareFaults' = compareFaults
    BY <1>1, <1>12, <2>1 DEF CancelComparison, CompareFault, CompareTypeOK, Counted,
                            Creating, Served
  <2>2. CASE compareFaults' = compareFaults + 1
    <3>1. /\ Counted' \subseteq Counted \cup {c} /\ Creating' = Creating /\ Served' = Served
          /\ crashes' = crashes
      BY <1>12 DEF CancelComparison, CompareTypeOK, Counted, Creating, Served
    <3>2. /\ Cardinality(Creating') <= Cardinality(Creating)
          /\ Cardinality(Served') <= Cardinality(Served)
      BY <1>0, <3>1, Sizes
    <3> QED BY <1>6, <2>2, <3>1, <3>2
  <2> QED BY <1>12, <2>1, <2>2 DEF CancelComparison, CompareFault
<1> QED BY <1>2, <1>3, <1>4, <1>5, <1>7, <1>8, <1>9, <1>10, <1>11,
        <1>12 DEF CompareNext

\* The limit on comparisons is passed by no more than the requests that were being
\* served beside it and the cancels that failed half-way or were cut short by the end
\* of the process.
THEOREM LimitIsNearlyKept == CompareSpec => []LimitOvershoot
<1>1. CompareInit => LimitInv
  <2> SUFFICES ASSUME CompareInit PROVE LimitInv
    OBVIOUS
  <2>1. CompareTypeOK
    BY DEF CompareInit, CompareTypeOK
  <2>2. Counted = {} /\ Creating = {} /\ Served = {}
    BY DEF CompareInit, Counted, Creating, Served
  <2> QED BY <2>1, <2>2, FS_EmptySet, CompareAssumption
          DEF LimitInv, LimitOvershoot, CompareInit
<1>2. LimitInv /\ [CompareNext]_cmpVars => LimitInv'
  BY CompareTypesKept, LimitKept DEF LimitInv
<1>3. LimitInv => LimitOvershoot
  BY DEF LimitInv
<1> QED BY <1>1, <1>2, <1>3, PTL DEF CompareSpec

-----------------------------------------------------------------------------
(* Finished rows *)

\* What the table knows of a task, as far as its statuses could be written, it was not
\* cancelled on its own and the queue not cleared, ...
Recorded(t) ==
  /\ t \notin unwritten
       => \/ child[t] \in {"none", childRow[t]}
          \/ child[t] \in LiveChild /\ childRow[t] \in LiveChild
  /\ childRow[t] \in LiveChild
       => t \in job \cup working \cup unwritten \cup removed \/ t[1] \in cleared
  /\ request[t[1]] # "over"
       => child[t] = "none" /\ childRow[t] = "none" /\ t \notin job \cup working

\* ... and the map of the queue.
QueueHolds(t) ==
  /\ t \in job => child[t] \in {"pending", "cancelled", "none"} /\ t \notin working
  /\ t \in working => child[t] \in {"running", "cancelled", "none"}
  /\ t \in job \cup working => child[t] \in LiveChild \/ t \in removed \/ t[1] \in cleared

\* What the row of a comparison says of one of its tasks.
Told(t) ==
  /\ row[t[1]] \in {"completed", "failed", "partial_success"} /\ t[1] \notin cleared
       => (t \in job \cup working => t \in removed \cup unwritten)
  /\ row[t[1]] = "completed" /\ t[1] \notin forgotten
       => childRow[t] = "completed" \/ t \in unwritten
  /\ row[t[1]] # "none" /\ t[1] \notin forgotten => child[t] # "none"

RowInv ==
  /\ CompareTypeOK
  /\ \A c \in Comparison : row[c] # "none" => request[c] = "over"
  /\ \A t \in Task : Recorded(t) /\ QueueHolds(t) /\ Told(t)

\* A task that is alive has no row that says completed, unless that is known to be wrong.
LEMMA AliveIsNotCompleted ==
  ASSUME RowInv, NEW t \in Task, t[1] \notin forgotten, row[t[1]] = "completed",
         t \in job \cup working \/ child[t] \in LiveChild
  PROVE  t \in unwritten
<1>1. Recorded(t) /\ QueueHolds(t) /\ Told(t)
  BY DEF RowInv
<1>2. child[t] # "none"
  BY <1>1 DEF Told
<1>3. child[t] \in {"pending", "running", "cancelled"}
  BY <1>1, <1>2 DEF Recorded, QueueHolds, LiveChild
<1> QED BY <1>1, <1>3 DEF Recorded, QueueHolds, Told, LiveChild, EndedChild

\* The handler of an ended or removed task keeps the rows true.
LEMMA RowFollows ==
  ASSUME RowInv, CompareTypeOK', NEW t \in Task, NEW s \in EndedChild,
         NEW written \in BOOLEAN, NEW stored \in BOOLEAN,
         child' = InQueue(t, s), WriteChild(t, s, written), WriteRow(t[1], child', stored),
         t \in working \/ child[t] \in LiveChild,
         t \in job' \cup working' => t \in removed',
         s = "cancelled" \/ t \notin job' \cup working',
         job' = job, working' \subseteq working,
         \A u \in Task \ {t} : u \in working => u \in working',
         removed \subseteq removed',
         forgotten' = forgotten, cleared' = cleared, request' = request
  PROVE  RowInv'
<1>0. /\ t[1] \in Comparison /\ CompareTypeOK
      /\ \A u \in Task : u[1] \in Comparison /\ Recorded(u) /\ QueueHolds(u) /\ Told(u)
  BY DEF RowInv, Task
<1>1. /\ child' \in [Task -> ChildStatus]
      /\ \A u \in Task \ {t} : child'[u] = child[u] /\ childRow'[u] = childRow[u]
      /\ child'[t] = IF child[t] = "none" THEN "none" ELSE s
      /\ childRow'[t] = IF written /\ childRow[t] # "none" THEN s ELSE childRow[t]
      /\ unwritten' = IF written THEN unwritten ELSE unwritten \cup {t}
  BY <1>0, HandlerTyped DEF ChildStatus, EndedChild
<1>2. row' = row \/ row' = [row EXCEPT ![t[1]] = RowAfter(t[1], child')]
  BY <1>0, <1>1, WriteRowIs
<1>3. request[t[1]] = "over"
  BY <1>0 DEF Recorded, QueueHolds, LiveChild
<1>4. \A c \in Comparison : row'[c] # "none" => request'[c] = "over"
  BY <1>2, <1>3 DEF RowInv, CompareTypeOK
<1>5. ASSUME NEW u \in Task PROVE Recorded(u)' /\ QueueHolds(u)'
  <2>1. CASE u # t
    BY <1>0, <1>1, <2>1 DEF Recorded, QueueHolds
  <2>2. CASE u = t
    <3>1. t \notin unwritten' => child'[t] \in {"none", childRow'[t]}
      BY <1>0, <1>1 DEF Recorded, QueueHolds, LiveChild, EndedChild
    <3>2. child'[t] \notin LiveChild
      BY <1>1 DEF LiveChild, EndedChild
    <3>3. childRow'[t] \in LiveChild => childRow'[t] = childRow[t] /\ t \in unwritten'
      BY <1>1 DEF LiveChild, EndedChild
    <3>4. t \in job' \cup working' => child'[t] \in {"cancelled", "none"}
      BY <1>1
    <3>5. t \in job' => t \notin working'
      BY <1>0 DEF Recorded, QueueHolds
    <3>7. request'[t[1]] = "over"
      BY <1>3
    <3>8. /\ t \in job' => /\ child'[t] \in {"pending", "cancelled", "none"}
                           /\ t \notin working'
          /\ t \in working' => child'[t] \in {"running", "cancelled", "none"}
      BY <3>4, <3>5
    <3>9. childRow'[t] \in LiveChild => t \in unwritten'
      BY <3>3
    <3>10. t \in job' \cup working' => t \in removed'
      OBVIOUS
    <3>11. Recorded(t)'
      BY <3>1, <3>7, <3>9 DEF Recorded
    <3>12. QueueHolds(t)'
      BY <3>8, <3>10 DEF QueueHolds
    <3> QED BY <2>2, <3>11, <3>12
  <2> QED BY <2>1, <2>2
<1>6. ASSUME NEW u \in Task PROVE Told(u)'
  <2>1. u \in job' \cup working' => u \in job \cup working
    OBVIOUS
  <2>2. child[u] # "none" => child'[u] # "none"
    BY <1>1 DEF EndedChild
  <2>3. CASE row'[u[1]] = row[u[1]]
    <3>1. CASE u # t
      BY <1>0, <1>1, <2>1, <2>2, <2>3, <3>1 DEF Told
    <3>2. CASE u = t
      <4>1. row[t[1]] = "completed" /\ t[1] \notin forgotten => t \in unwritten
        BY AliveIsNotCompleted
      <4> QED BY <1>0, <1>1, <2>2, <2>3, <3>2, <4>1 DEF Told
    <3> QED BY <3>1, <3>2
  <2>4. CASE row'[u[1]] # row[u[1]]
    <3>1. u[1] = t[1]
      BY <1>0, <1>2, <2>4 DEF CompareTypeOK
    <3>2. u \in TasksOf(t[1])
      BY <1>0, <3>1, TasksName
    <3> DEFINE c == t[1]
               after == RowAfter(c, child')
    <3>3. CompareTypeOK /\ c \in Comparison /\ after # row[c] /\ row'[u[1]] = after
      BY <1>0, <1>2, <2>4, <3>1 DEF CompareTypeOK
    <3>4. /\ row[c] # "none" /\ \A v \in TasksOf(c) : child'[v] \notin LiveChild
          /\ after = "completed" =>
               \A v \in TasksOf(c) : child'[v] # "none" => child'[v] = "completed"
      BY <1>1, <3>3, RowAfterIs
    <3>5. row[u[1]] # "none" /\ child'[u] \notin LiveChild
      BY <3>1, <3>2, <3>4
    <3>6. row'[u[1]] = "completed" => child'[u] \in {"none", "completed"}
      <4> HIDE DEF after
      <4> QED BY <3>3, <3>2, <3>4
    <3>7. u[1] \notin forgotten => child'[u] # "none"
      BY <1>0, <2>2, <3>5 DEF Told
    <3>8. Recorded(u)' /\ QueueHolds(u)'
      BY <1>5
    <3>9. u[1] \notin cleared => (u \in job' \cup working' => u \in removed')
      BY <3>5, <3>8 DEF Recorded, QueueHolds
    <3>10. row'[u[1]] = "completed" /\ u[1] \notin forgotten
             => childRow'[u] = "completed" \/ u \in unwritten'
      BY <3>6, <3>7, <3>8 DEF Recorded, LiveChild
    <3> QED BY <3>7, <3>9, <3>10 DEF Told
  <2> QED BY <2>3, <2>4
<1> QED BY <1>4, <1>5, <1>6 DEF RowInv

\* A step keeps the rows true.
LEMMA RowKept ==
  ASSUME RowInv, CompareTypeOK', [CompareNext]_cmpVars PROVE RowInv'
<1> USE DEF cmpQueue, cmpTrees, cmpHistory, cmpCounts
<1>0. /\ CompareTypeOK
      /\ \A t \in Task : t[1] \in Comparison /\ Recorded(t) /\ QueueHolds(t) /\ Told(t)
  BY DEF RowInv, Task
<1>1. ASSUME UNCHANGED <<row, child, childRow, job, working, removed, forgotten, cleared,
                         unwritten>>,
             \A c \in Comparison : request[c] = "over" => request'[c] = "over"
      PROVE  RowInv'
  BY <1>0, <1>1 DEF RowInv, Recorded, QueueHolds, Told
<1>2. ASSUME NEW c \in Comparison, AskComparison(c) \/ CheckLimit(c) \/ CreationFails(c)
      PROVE  RowInv'
  BY <1>1, <1>2 DEF AskComparison, CheckLimit, CreationFails, RowInv, CompareTypeOK
<1>3. ASSUME NEW c \in Comparison, CreateTasks(c) PROVE RowInv'
  <2>0. PICK lost \in SUBSET TasksOf(c), stored \in BOOLEAN :
          /\ childRow' = [t \in Task |-> IF t \in TasksOf(c) \ lost THEN "pending"
                                        ELSE childRow[t]]
          /\ unwritten' = unwritten \cup lost
          /\ row' = IF stored THEN [row EXCEPT ![c] = "running"] ELSE row
    BY <1>3 DEF CreateTasks
  <2>1. row[c] = "none" /\ request[c] = "creating" /\ request'[c] = "over"
    BY <1>3 DEF CreateTasks, RowInv, CompareTypeOK
  <2>2. /\ UNCHANGED <<working, removed, forgotten, cleared>>
        /\ job' = job \cup TasksOf(c)
        /\ child' = [t \in Task |-> IF t \in TasksOf(c) THEN "pending" ELSE child[t]]
        /\ \A d \in Comparison \ {c} : request'[d] = request[d] /\ row'[d] = row[d]
        /\ row'[c] \in {"none", "running"}
    BY <1>0, <1>3, <2>0, <2>1 DEF CreateTasks, CompareTypeOK
  <2>3. ASSUME NEW t \in Task, t[1] = c PROVE Recorded(t)' /\ QueueHolds(t)' /\ Told(t)'
    <3>1. /\ t \in TasksOf(c) /\ Recorded(t) /\ QueueHolds(t)
          /\ child[t] = "none" /\ childRow[t] = "none"
          /\ t \notin working
      BY <1>0, <2>1, <2>3, TasksName DEF Recorded, QueueHolds
    <3>2. child'[t] = "pending" /\ t \in job' /\ t \notin working'
      BY <2>2, <3>1
    <3>3. childRow'[t] = IF t \in lost THEN "none" ELSE "pending"
      BY <2>0, <3>1
    <3>4. t \in lost => t \in unwritten'
      BY <2>0
    <3> QED
      BY <2>1, <2>2, <2>3, <3>2, <3>3, <3>4 DEF Recorded, QueueHolds, Told, LiveChild, EndedChild
  <2>4. ASSUME NEW t \in Task, t[1] # c PROVE Recorded(t)' /\ QueueHolds(t)' /\ Told(t)'
    <3>1. t \notin TasksOf(c)
      BY <2>4, TasksName
    <3>2. /\ child'[t] = child[t] /\ childRow'[t] = childRow[t] /\ row'[t[1]] = row[t[1]]
          /\ t \in job' <=> t \in job
          /\ t \in unwritten' <=> t \in unwritten
          /\ request'[t[1]] = request[t[1]]
      BY <1>0, <2>0, <2>2, <2>4, <3>1
    <3> QED BY <1>0, <2>2, <3>2 DEF Recorded, QueueHolds, Told
  <2>5. \A d \in Comparison : row'[d] # "none" => request'[d] = "over"
    BY <2>1, <2>2 DEF RowInv
  <2> QED BY <2>3, <2>4, <2>5 DEF RowInv
<1>4. ASSUME NEW c \in Comparison, CancelComparison(c) PROVE RowInv'
  <2>1. /\ UNCHANGED <<child, childRow, job, working, removed, forgotten, cleared, unwritten,
                       request>>
        /\ row[c] # "none" /\ row'[c] \in {"cancelled", "cancelling"}
        /\ \A d \in Comparison \ {c} : row'[d] = row[d]
    BY <1>0, <1>4 DEF CancelComparison, CompareTypeOK
  <2> QED BY <1>0, <2>1 DEF RowInv, Recorded, QueueHolds, Told
<1>5. ASSUME NEW t \in Task, AddWorktree(t) \/ RemoveWorktree(t) PROVE RowInv'
  BY <1>1, <1>5 DEF AddWorktree, RemoveWorktree
<1>6. ASSUME NEW t \in Task, StartChild(t) PROVE RowInv'
  <2>0. PICK written \in BOOLEAN : WriteChild(t, "running", written)
    BY <1>6 DEF StartChild
  <2>1. /\ \A u \in Task \ {t} : /\ child'[u] = child[u] /\ childRow'[u] = childRow[u]
                                 /\ u \in job' <=> u \in job
                                 /\ u \in working' <=> u \in working
        /\ child'[t] = IF child[t] = "none" THEN "none" ELSE "running"
        /\ childRow'[t] = IF written /\ childRow[t] # "none" THEN "running" ELSE childRow[t]
        /\ unwritten' = IF written THEN unwritten ELSE unwritten \cup {t}
        /\ t \in job /\ t \notin job' /\ t \in working'
        /\ UNCHANGED <<row, request, removed, forgotten, cleared>>
    BY <1>0, <1>6, <2>0, HandlerTyped DEF StartChild, ChildStatus, LiveChild
  <2>2. row[t[1]] = "completed" /\ t[1] \notin forgotten => t \in unwritten
    BY <2>1, AliveIsNotCompleted
  <2>3. Recorded(t)' /\ QueueHolds(t)'
    BY <1>0, <2>1 DEF Recorded, QueueHolds, LiveChild, EndedChild
  <2>4. Told(t)'
    BY <1>0, <2>1, <2>2 DEF Told
  <2>5. \A u \in Task \ {t} : Recorded(u)' /\ QueueHolds(u)' /\ Told(u)'
    BY <1>0, <2>1 DEF Recorded, QueueHolds, Told
  <2> QED BY <2>1, <2>3, <2>4, <2>5 DEF RowInv
<1>7. ASSUME NEW t \in Task, NEW status \in {"completed", "failed"}, EndChild(t, status)
      PROVE  RowInv'
  <2>1. PICK written \in BOOLEAN, stored \in BOOLEAN :
          WriteChild(t, status, written) /\ WriteRow(t[1], child', stored)
    BY <1>7 DEF EndChild
  <2>2. t \in working /\ t \notin job
    BY <1>0, <1>7 DEF EndChild, Recorded, QueueHolds
  <2>3. /\ child' = InQueue(t, status) /\ status \in EndedChild
        /\ job' = job /\ working' = working \ {t}
        /\ UNCHANGED <<removed, forgotten, cleared, request>>
    BY <1>7 DEF EndChild, EndedChild
  <2> QED BY <2>1, <2>2, <2>3, RowFollows
<1>8. ASSUME NEW t \in Task, CancelChild(t) PROVE RowInv'
  <2>1. PICK written \in BOOLEAN, stored \in BOOLEAN :
          WriteChild(t, "cancelled", written) /\ WriteRow(t[1], child', stored)
    BY <1>8 DEF CancelChild
  <2>2. /\ child' = InQueue(t, "cancelled") /\ "cancelled" \in EndedChild
        /\ child[t] \in LiveChild /\ removed' = removed \cup {t}
        /\ UNCHANGED <<job, working, forgotten, cleared, request>>
    BY <1>8 DEF CancelChild, EndedChild
  <2> QED BY <2>1, <2>2, RowFollows
<1>9. ASSUME NEW t \in Task, ForgetChild(t) PROVE RowInv'
  <2>1. /\ child[t] \in EndedChild /\ child'[t] = "none"
        /\ \A u \in Task \ {t} : child'[u] = child[u]
        /\ forgotten' = forgotten \cup {t[1]}
        /\ UNCHANGED <<row, request, childRow, job, working, removed, cleared, unwritten>>
    BY <1>0, <1>9 DEF ForgetChild, CompareTypeOK
  <2>2. Recorded(t)' /\ QueueHolds(t)' /\ Told(t)'
    BY <1>0, <2>1 DEF Recorded, QueueHolds, Told, LiveChild, EndedChild
  <2>3. \A u \in Task \ {t} : Recorded(u)' /\ QueueHolds(u)' /\ Told(u)'
    BY <1>0, <2>1 DEF Recorded, QueueHolds, Told
  <2> QED BY <2>1, <2>2, <2>3 DEF RowInv
<1>10. ASSUME ClearQueue PROVE RowInv'
  <2>1. /\ job' = {} /\ UNCHANGED <<row, request, childRow, working, removed, unwritten>>
        /\ forgotten \subseteq forgotten' /\ cleared \subseteq cleared'
        /\ \A t \in Task : /\ child'[t] = "none"
                           /\ child[t] # "none" => t[1] \in forgotten' /\ t[1] \in cleared'
    BY <1>10 DEF ClearQueue, Known
  <2>2. ASSUME NEW t \in Task PROVE Recorded(t)' /\ QueueHolds(t)' /\ Told(t)'
    <3>1. Recorded(t)' /\ QueueHolds(t)'
      BY <1>0, <2>1 DEF Recorded, QueueHolds, LiveChild, EndedChild
    <3>2. Told(t)'
      BY <1>0, <2>1 DEF Told
    <3> QED BY <3>1, <3>2
  <2> QED BY <2>1, <2>2 DEF RowInv
<1>11. ASSUME RestartCompare PROVE RowInv'
  <2>1. /\ \A t \in Task : /\ t \in job' <=> childRow'[t] \in LiveChild
                           /\ child'[t] = IF t \in job' THEN "pending" ELSE "none"
        /\ working' = {} /\ UNCHANGED cleared
        /\ forgotten \subseteq forgotten'
        /\ \A t \in Task : child[t] # "none" /\ t \notin job' => t[1] \in forgotten'
        /\ \A c \in Comparison : request'[c] = IF request[c] = "none" THEN "none" ELSE "over"
    BY <1>11 DEF RestartCompare, RestoredTasks, Known
  <2>2. /\ removed \subseteq removed' /\ unwritten' = unwritten
        /\ \A t \in Task :
             \/ childRow'[t] = childRow[t]
             \/ /\ childRow'[t] \in EndedChild
                /\ t \in working \/ child[t] \in LiveChild
             \/ request[t[1]] = "creating"
        /\ \A c \in Comparison : \/ row'[c] = row[c]
                                 \/ row'[c] = "cancelling" /\ row[c] # "none"
    <3>1. CASE UNCHANGED <<row, childRow, unwritten, removed, torn, removals>>
      BY <3>1
    <3>2. CASE EndCut
      BY <1>0, <3>2 DEF EndCut, WriteChild, CompareTypeOK, EndedChild
    <3>3. CASE RemovalCut
      BY <1>0, <3>3 DEF RemovalCut, WriteChild, CompareTypeOK, EndedChild
    <3>4. CASE CancelCut
      BY <1>0, <3>4 DEF CancelCut, CompareTypeOK
    <3>5. CASE CreationCut
      BY <1>0, <3>5, TasksName DEF CreationCut, CompareTypeOK, Creating
    <3> QED BY <1>11, <3>1, <3>2, <3>3, <3>4, <3>5 DEF RestartCompare
  <2>3. ASSUME NEW t \in Task PROVE Recorded(t)' /\ QueueHolds(t)' /\ Told(t)'
    <3>1. t[1] \in Comparison /\ Recorded(t) /\ QueueHolds(t) /\ Told(t)
      BY <1>0
    <3>2. request[t[1]] = "none" => childRow'[t] = "none"
      BY <2>2, <3>1 DEF Recorded, QueueHolds, LiveChild
    <3>3. Recorded(t)' /\ QueueHolds(t)'
      BY <2>1, <2>2, <3>1, <3>2 DEF Recorded, QueueHolds, LiveChild, EndedChild
    <3>4. row'[t[1]] \in {"completed", "failed", "partial_success"}
            => row'[t[1]] = row[t[1]] /\ request[t[1]] = "over"
      BY <2>2, <3>1 DEF RowInv
    <3>5. row'[t[1]] # "none" => row[t[1]] # "none" /\ request[t[1]] = "over"
      BY <2>2, <3>1 DEF RowInv
    <3>6. row'[t[1]] \in {"completed", "failed", "partial_success"} /\ t[1] \notin cleared
            => (t \in job' => t \in removed \cup unwritten)
      <4>1. t \in job' /\ request[t[1]] = "over" => childRow[t] \in LiveChild
        BY <2>1, <2>2 DEF LiveChild, EndedChild
      <4> SUFFICES ASSUME row'[t[1]] \in {"completed", "failed", "partial_success"},
                          t[1] \notin cleared, t \in job'
                   PROVE  t \in removed \cup unwritten
        OBVIOUS
      <4>2. /\ row[t[1]] \in {"completed", "failed", "partial_success"}
            /\ childRow[t] \in LiveChild
        BY <3>4, <4>1
      <4>3. t \in job \cup working => t \in removed \cup unwritten
        BY <3>1, <4>2 DEF Told
      <4>4. t \in job \cup working \cup unwritten \cup removed
        BY <3>1, <4>2 DEF Recorded, QueueHolds
      <4> QED BY <4>3, <4>4
    <3>7. row'[t[1]] # "none" /\ t[1] \notin forgotten' => child'[t] # "none"
      BY <2>1, <3>1, <3>5 DEF Told
    <3>8. row'[t[1]] = "completed" /\ t[1] \notin forgotten'
            => childRow'[t] = "completed" \/ t \in unwritten'
      <4>1. SUFFICES ASSUME row'[t[1]] = "completed", t[1] \notin forgotten'
                     PROVE childRow'[t] = "completed" \/ t \in unwritten'
        OBVIOUS
      <4>2. row[t[1]] = "completed" /\ request[t[1]] = "over" /\ t[1] \notin forgotten
        BY <2>1, <3>4, <4>1
      <4>3. childRow'[t] = childRow[t] \/ t \in unwritten
        BY <2>2, <4>2, AliveIsNotCompleted
      <4> QED BY <2>2, <3>1, <4>2, <4>3 DEF Told
    <3>9. Told(t)'
      BY <2>1, <2>2, <3>6, <3>7, <3>8 DEF Told
    <3> QED BY <3>3, <3>9
  <2>4. \A c \in Comparison : row'[c] # "none" => request'[c] = "over"
    BY <2>1, <2>2 DEF RowInv
  <2> QED BY <2>3, <2>4 DEF RowInv
<1>12. CASE UNCHANGED cmpVars
  BY <1>1, <1>12 DEF cmpVars
<1> QED BY <1>2, <1>3, <1>4, <1>5, <1>6, <1>7, <1>8, <1>9, <1>10, <1>11, <1>12 DEF CompareNext

\* A row that says a comparison is over tells the truth about its tasks, whatever
\* was cancelled, forgotten, cleared, lost or restarted in between, but for the tasks
\* the property names.
THEOREM RowsAreTruthful == CompareSpec => []RowTruthful
<1>1. CompareInit => RowInv
  <2> SUFFICES ASSUME CompareInit PROVE RowInv
    OBVIOUS
  <2>1. CompareTypeOK
    BY DEF CompareInit, CompareTypeOK
  <2>2. \A t \in Task : t[1] \in Comparison
    BY DEF Task
  <2> QED BY <2>1, <2>2 DEF CompareInit, RowInv, Recorded, QueueHolds, Told, LiveChild, EndedChild
<1>2. RowInv /\ [CompareNext]_cmpVars => RowInv'
  BY CompareTypesKept, RowKept DEF RowInv
<1>3. RowInv => RowTruthful
  BY TasksName DEF RowInv, Told, RowTruthful
<1> QED BY <1>1, <1>2, <1>3, PTL DEF CompareSpec

-----------------------------------------------------------------------------
(* The worktrees *)

\* A worktree is to be removed only when the creation of its comparison is over and
\* the comparison does not run; cancel answers for comparisons that have a row.
TreesInv ==
  /\ CompareTypeOK
  /\ \A c \in Comparison : row[c] # "none" => request[c] = "over"
  /\ \A t \in toRemove : row[t[1]] # "running" /\ request[t[1]] = "over"
  /\ \A c \in cancelled : row[c] # "none"
  /\ WorktreesMatch

\* A step that starts no comparison, makes no row appear or disappear and leaves the
\* worktrees alone keeps them those of the comparisons.
LEMMA TreesStay ==
  ASSUME TreesInv, CompareTypeOK',
         \A c \in Comparison : /\ row'[c] = "running" => row[c] = "running"
                               /\ row'[c] = "none" <=> row[c] = "none",
         UNCHANGED <<request, worktree, toRemove, leftover, cancelled>>
  PROVE  TreesInv'
<1>1. \A u \in Task : u[1] \in Comparison
  BY DEF Task
<1> QED BY <1>1 DEF TreesInv, WorktreesMatch, CompareTypeOK

\* A step keeps the worktrees those of the comparisons.
LEMMA TreesKept ==
  ASSUME TreesInv, CompareTypeOK', [CompareNext]_cmpVars PROVE TreesInv'
<1> USE DEF cmpQueue, cmpTrees, cmpHistory, cmpCounts
<1>0. /\ \A t \in Task : t[1] \in Comparison /\ t \in TasksOf(t[1])
      /\ \A c \in Comparison : \A t \in TasksOf(c) : t \in Task /\ t[1] = c
  BY DEF Task, TasksOf
<1>1. ASSUME UNCHANGED <<request, row, worktree, toRemove, leftover, cancelled>>
      PROVE  TreesInv'
  BY <1>1 DEF TreesInv, WorktreesMatch
<1>2. ASSUME NEW c \in Comparison, AskComparison(c) \/ CheckLimit(c) PROVE TreesInv'
  BY <1>0, <1>2 DEF AskComparison, CheckLimit, TreesInv, WorktreesMatch, CompareTypeOK
<1>3. ASSUME NEW c \in Comparison, CreationFails(c) PROVE TreesInv'
  <2>1. /\ request[c] = "creating" /\ request'[c] = "over" /\ row[c] = "none"
        /\ \A d \in Comparison \ {c} : request'[d] = request[d]
        /\ UNCHANGED <<row, worktree, leftover, cancelled>>
        /\ toRemove' = toRemove \cup (TasksOf(c) \cap worktree)
    BY <1>3 DEF CreationFails, RollBack, TreesInv, CompareTypeOK
  <2> QED BY <1>0, <2>1 DEF TreesInv, WorktreesMatch, CompareTypeOK
<1>4. ASSUME NEW c \in Comparison, CreateTasks(c) PROVE TreesInv'
  <2>1. /\ request[c] = "creating" /\ request'[c] = "over" /\ TasksOf(c) \subseteq worktree
        /\ \A d \in Comparison \ {c} : request'[d] = request[d] /\ row'[d] = row[d]
        /\ UNCHANGED <<worktree, toRemove, cancelled>>
        /\ \/ row'[c] = "running" /\ leftover' = leftover
           \/ row'[c] = row[c] /\ leftover' = leftover \cup TasksOf(c)
    BY <1>4 DEF CreateTasks, TreesInv, CompareTypeOK
  <2>2. row[c] = "none" /\ c \notin cancelled
    BY <2>1 DEF TreesInv
  <2> QED BY <1>0, <2>1, <2>2 DEF TreesInv, WorktreesMatch, CompareTypeOK
<1>5. ASSUME NEW c \in Comparison, CancelComparison(c) PROVE TreesInv'
  <2>1. /\ row[c] # "none" /\ row'[c] \in {"cancelled", "cancelling"}
        /\ \A d \in Comparison \ {c} : row'[d] = row[d]
        /\ UNCHANGED <<request, worktree, leftover>>
        /\ \/ cancelled' = cancelled \cup {c} /\ toRemove' = toRemove \cup TasksOf(c)
           \/ UNCHANGED <<cancelled, toRemove>>
    BY <1>5 DEF CancelComparison, TreesInv, CompareTypeOK
  <2> QED BY <1>0, <2>1 DEF TreesInv, WorktreesMatch, CompareTypeOK
<1>6. ASSUME NEW t \in Task, AddWorktree(t) PROVE TreesInv'
  BY <1>0, <1>6 DEF AddWorktree, TreesInv, WorktreesMatch, CompareTypeOK
<1>7. ASSUME NEW t \in Task, RemoveWorktree(t) PROVE TreesInv'
  <2>1. /\ t \in toRemove /\ toRemove' = toRemove \ {t}
        /\ UNCHANGED <<request, row, cancelled>>
        /\ \/ worktree' = worktree \ {t} /\ leftover' = leftover \ {t}
           \/ worktree' = worktree /\ leftover' = leftover \cup {t}
    BY <1>7 DEF RemoveWorktree
  <2> QED BY <1>0, <2>1 DEF TreesInv, WorktreesMatch
<1>8. ASSUME NEW t \in Task, StartChild(t) \/ ForgetChild(t) PROVE TreesInv'
  BY <1>1, <1>8 DEF StartChild, ForgetChild
<1>9. ASSUME NEW t \in Task,
             CancelChild(t) \/ \E status \in {"completed", "failed"} : EndChild(t, status)
      PROVE  TreesInv'
  <2>1. /\ child' \in [Task -> ChildStatus] /\ t[1] \in Comparison /\ CompareTypeOK
        /\ row' = row \/ row' = [row EXCEPT ![t[1]] = RowAfter(t[1], child')]
        /\ UNCHANGED <<request, worktree, toRemove, leftover, cancelled>>
    BY <1>0, <1>9 DEF TreesInv, CompareTypeOK, CancelChild, EndChild, WriteRow, ChildStatus
  <2>2. \/ RowAfter(t[1], child') = row[t[1]]
        \/ row[t[1]] # "none" /\ RowAfter(t[1], child') \notin {"none", "running"}
    BY <2>1, RowAfterIs
  <2>3. \A c \in Comparison : /\ row'[c] = "running" => row[c] = "running"
                              /\ row'[c] = "none" <=> row[c] = "none"
    BY <2>1, <2>2 DEF CompareTypeOK
  <2> QED BY <2>1, <2>3, TreesStay
<1>10. ASSUME RestartCompare PROVE TreesInv'
  <2>1. /\ toRemove' = {}
        /\ \A c \in Comparison :
             request'[c] = IF request[c] = "none" THEN "none" ELSE "over"
        /\ leftover' = leftover \cup {t \in worktree : t \in toRemove \/ t[1] \in Creating}
        /\ UNCHANGED <<worktree, cancelled>>
    BY <1>10 DEF RestartCompare
  <2>2. \A c \in Comparison : \/ row'[c] = row[c]
                              \/ row'[c] = "cancelling" /\ row[c] # "none"
    <3>1. CASE row' = row
      BY <3>1
    <3>2. CASE CancelCut
      BY <3>2 DEF CancelCut, CompareTypeOK, TreesInv
    <3> QED
      BY <1>10, <3>1, <3>2 DEF RestartCompare, EndCut, RemovalCut, CreationCut
  <2>3. \A t \in worktree : request[t[1]] = "creating" => t \in leftover'
    BY <1>0, <2>1 DEF Creating, TreesInv, CompareTypeOK
  <2>4. \A t \in worktree : t \in toRemove \cup leftover => t \in leftover'
    BY <2>1
  <2>5. worktree \subseteq Task /\ cancelled \subseteq Comparison
    BY DEF TreesInv, CompareTypeOK
  <2>6. WorktreesMatch'
    BY <1>0, <2>1, <2>2, <2>3, <2>4, <2>5 DEF TreesInv, WorktreesMatch
  <2> QED BY <2>1, <2>2, <2>5, <2>6 DEF TreesInv
<1>11. ASSUME ClearQueue PROVE TreesInv'
  BY <1>1, <1>11 DEF ClearQueue
<1>12. CASE UNCHANGED cmpVars
  BY <1>1, <1>12 DEF cmpVars
<1> QED BY <1>2, <1>3, <1>4, <1>5, <1>6, <1>7, <1>8, <1>9, <1>10, <1>11, <1>12 DEF CompareNext

\* A comparison that runs has its worktrees, and none is on the disk that belongs to no
\* comparison, is not about to be removed and was not left over by a removal that failed,
\* a row that could not be written or the end of the process.
THEOREM WorktreesAreThoseOfComparisons == CompareSpec => []WorktreesMatch
<1>1. CompareInit => TreesInv
  <2> SUFFICES ASSUME CompareInit PROVE TreesInv
    OBVIOUS
  <2>1. CompareTypeOK
    BY DEF CompareInit, CompareTypeOK
  <2>2. \A t \in Task : t[1] \in Comparison
    BY DEF Task
  <2> QED BY <2>1, <2>2 DEF CompareInit, TreesInv, WorktreesMatch
<1>2. TreesInv /\ [CompareNext]_cmpVars => TreesInv'
  BY CompareTypesKept, TreesKept DEF TreesInv
<1>3. TreesInv => WorktreesMatch
  BY DEF TreesInv
<1> QED BY <1>1, <1>2, <1>3, PTL DEF CompareSpec
=============================================================================
