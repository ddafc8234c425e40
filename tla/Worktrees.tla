----------------------------- MODULE Worktrees -----------------------------
(***************************************************************************)
(* The worktrees of the Claude executor: WorktreeManager                   *)
(* (services/worktree/worktree-manager.ts) with the git calls it makes     *)
(* (services/worktree/git-service.ts), as executeCore uses it              *)
(* (claude/executor.ts).  The metadata file is read, changed and written   *)
(* with awaits in between, by tasks that run at the same time.             *)
(***************************************************************************)
EXTENDS Integers, FiniteSets

CONSTANTS
  WtTask,          \* tasks that ask for a worktree
  HomeTask,        \* those whose repository is the directory the server runs in
  KeepTask,        \* those with keepAfterCompletion
  MaxWorktrees,    \* config.worktree.maxWorktrees
  WtSlots,         \* concurrency of the queue
  MaxWtFaults,     \* bound on git calls that fail
  MaxWtCrashes,    \* bound on restarts
  Garbled          \* text in the metadata file that does not parse

ASSUME WorktreesAssumption ==
  /\ IsFiniteSet(WtTask) /\ HomeTask \subseteq WtTask /\ KeepTask \subseteq WtTask
  /\ MaxWorktrees \in Nat \ {0} /\ WtSlots \in Nat \ {0}
  /\ MaxWtFaults \in Nat /\ MaxWtCrashes \in Nat
  /\ \A listed \in SUBSET WtTask : listed # Garbled

VARIABLES
  wtPc,       \* where the task is
  wtDisk,     \* tasks whose worktree is on the disk
  metadata,   \* the file: tasks it lists, or Garbled
  wtSnapshot, \* what the task read of it and changed
  wtKnown,    \* tasks whose removal found them in the file
  wtRaced,    \* two tasks were between the read and the write at a time
  wtFaults, wtCrashes

wtVars == <<wtPc, wtDisk, metadata, wtSnapshot, wtKnown, wtRaced, wtFaults, wtCrashes>>

WorktreesInit ==
  /\ wtPc = [t \in WtTask |-> "idle"]
  /\ wtDisk = {} /\ metadata = {}
  /\ wtSnapshot = [t \in WtTask |-> {}]
  /\ wtKnown = {} /\ wtRaced = FALSE
  /\ wtFaults = 0 /\ wtCrashes = 0

WtFault == wtFaults < MaxWtFaults /\ wtFaults' = wtFaults + 1

\* The tasks of the same repository; git lists the worktrees of one repository.
Alongside(t) == IF t \in HomeTask THEN HomeTask ELSE WtTask \ HomeTask

\* loadMetadata: a file that does not parse is taken for an empty one.
Listed == IF metadata = Garbled THEN {} ELSE metadata

\* Fault: the limit itself is let through.
WtRoomForOneMore(t) == Cardinality(wtDisk \cap Alongside(t)) <= MaxWorktrees

\* createWorktree: listWorktrees against the limit.
WtRoom(t) == Cardinality(wtDisk \cap Alongside(t)) < MaxWorktrees

\* The check of the limit, before the awaits of git; without room the task fails.
CheckWorktrees(t) ==
  /\ wtPc[t] = "idle"
  /\ Cardinality({u \in WtTask : wtPc[u] # "idle"}) < WtSlots
  /\ WtRoom(t)
  /\ wtPc' = [wtPc EXCEPT ![t] = "checked"]
  /\ UNCHANGED <<wtDisk, metadata, wtSnapshot, wtKnown, wtRaced, wtFaults, wtCrashes>>

\* git worktree add, which fails on a worktree left by an earlier attempt.
GitAdd(t) ==
  /\ wtPc[t] = "checked"
  /\ \/ /\ t \notin wtDisk
        /\ wtDisk' = wtDisk \cup {t}
        /\ wtPc' = [wtPc EXCEPT ![t] = "load"]
        /\ UNCHANGED wtFaults
     \/ /\ (t \in wtDisk /\ UNCHANGED wtFaults) \/ WtFault
        /\ wtPc' = [wtPc EXCEPT ![t] = "idle"]
        /\ UNCHANGED wtDisk
  /\ UNCHANGED <<metadata, wtSnapshot, wtKnown, wtRaced, wtCrashes>>

\* The list with t added once its worktree exists, without t once it is gone.
Edited(t) == IF t \in wtDisk THEN Listed \cup {t} ELSE Listed \ {t}

\* saveWorktreeMetadata and removeWorktreeMetadata: the read ...
LoadMetadata(t) ==
  /\ wtPc[t] = "load"
  /\ wtSnapshot' = [wtSnapshot EXCEPT ![t] = Edited(t)]
  /\ wtRaced' = (wtRaced \/ \E u \in WtTask : wtPc[u] \in {"write", "writing"})
  /\ wtPc' = [wtPc EXCEPT ![t] = "write"]
  /\ UNCHANGED <<wtDisk, metadata, wtKnown, wtFaults, wtCrashes>>

\* ... writeFile empties the file, or fails, which fails the creation and leaves
\* the worktree behind ...
OpenMetadata(t) ==
  /\ wtPc[t] = "write"
  /\ \/ /\ metadata' = Garbled
        /\ wtPc' = [wtPc EXCEPT ![t] = "writing"]
        /\ UNCHANGED <<wtSnapshot, wtFaults>>
     \/ /\ WtFault
        /\ wtPc' = [wtPc EXCEPT ![t] = "idle"]
        /\ wtSnapshot' = [wtSnapshot EXCEPT ![t] = {}]
        /\ UNCHANGED metadata
  /\ UNCHANGED <<wtDisk, wtKnown, wtRaced, wtCrashes>>

\* ... and fills it; two that fill it at a time may leave neither text.
WriteMetadata(t) ==
  /\ wtPc[t] = "writing"
  /\ \/ metadata' = wtSnapshot[t]
     \/ /\ metadata # Garbled \/ \E u \in WtTask \ {t} : wtPc[u] = "writing"
        /\ metadata' = Garbled
  /\ wtSnapshot' = [wtSnapshot EXCEPT ![t] = {}]
  /\ wtPc' = [wtPc EXCEPT ![t] = IF t \in wtDisk THEN "active" ELSE "idle"]
  /\ UNCHANGED <<wtDisk, wtKnown, wtRaced, wtFaults, wtCrashes>>

\* Fault: the worktree is removed only when the task succeeded.
CleansUpOnSuccess(t, success) == t \notin KeepTask /\ success

\* shouldCleanupWorktree, after success and after failure.
CleansUp(t, success) == t \notin KeepTask

\* The task ends; removeWorktree looks the worktree up in the metadata.
TaskEndsInWorktree(t, success) ==
  /\ wtPc[t] = "active"
  /\ IF CleansUp(t, success)
     THEN /\ wtPc' = [wtPc EXCEPT ![t] = "remove"]
          /\ wtKnown' = IF t \in Listed THEN wtKnown \cup {t} ELSE wtKnown \ {t}
          /\ wtRaced' = (wtRaced \/ \E u \in WtTask : wtPc[u] = "writing")
     ELSE wtPc' = [wtPc EXCEPT ![t] = "idle"] /\ UNCHANGED <<wtKnown, wtRaced>>
  /\ UNCHANGED <<wtDisk, metadata, wtSnapshot, wtFaults, wtCrashes>>

\* git worktree remove.  A worktree that is not in the file is looked for in the
\* server's own directory; the file is then left as it is.
GitRemove(t) ==
  /\ wtPc[t] = "remove"
  /\ \/ /\ t \in wtKnown \cup HomeTask
        /\ wtDisk' = wtDisk \ {t}
        /\ wtPc' = [wtPc EXCEPT ![t] = IF t \in wtKnown THEN "load" ELSE "idle"]
        /\ UNCHANGED wtFaults
     \/ /\ (t \notin wtKnown \cup HomeTask /\ UNCHANGED wtFaults) \/ WtFault
        /\ wtPc' = [wtPc EXCEPT ![t] = "idle"]
        /\ UNCHANGED wtDisk
  /\ UNCHANGED <<metadata, wtSnapshot, wtKnown, wtRaced, wtCrashes>>

\* The process dies; the disk is all that is left.
RestartWorktrees ==
  /\ wtCrashes < MaxWtCrashes
  /\ wtCrashes' = wtCrashes + 1
  /\ wtPc' = [t \in WtTask |-> "idle"]
  /\ wtSnapshot' = [t \in WtTask |-> {}]
  /\ wtKnown' = {}
  /\ UNCHANGED <<wtDisk, metadata, wtRaced, wtFaults>>

WorktreesNext ==
  \/ \E t \in WtTask :
       \/ CheckWorktrees(t) \/ GitAdd(t) \/ LoadMetadata(t) \/ OpenMetadata(t)
       \/ WriteMetadata(t) \/ GitRemove(t)
       \/ \E success \in BOOLEAN : TaskEndsInWorktree(t, success)
  \/ RestartWorktrees

WorktreesSpec == WorktreesInit /\ [][WorktreesNext]_wtVars

-----------------------------------------------------------------------------
\* The shapes of the state of the worktrees.
WorktreesTypeOK ==
  /\ wtPc \in [WtTask -> {"idle", "checked", "load", "write", "writing", "active",
                          "remove"}]
  /\ wtDisk \subseteq WtTask
  /\ metadata = Garbled \/ metadata \subseteq WtTask
  /\ wtSnapshot \in [WtTask -> SUBSET WtTask]
  /\ wtKnown \subseteq WtTask
  /\ wtRaced \in BOOLEAN /\ wtFaults \in Nat /\ wtCrashes \in Nat

\* The limit of worktrees per repository is checked before git adds one, so tasks
\* that start together may pass it, by no more than the other slots of the queue.
WorktreeLimit ==
  \A t \in WtTask :
    Cardinality(wtDisk \cap Alongside(t)) <= MaxWorktrees - 1 + WtSlots

\* While no two tasks had the file in hand at a time, git failed at nothing and
\* the process lived, the file lists the worktrees on the disk, and those of the
\* tasks that are over are the ones to be kept.  A race may lose entries, but no
\* worktree of the server's own repository is left behind by that.
WorktreesAccounted ==
  wtFaults = 0 /\ wtCrashes = 0 =>
    /\ \A t \in wtDisk \cap HomeTask : wtPc[t] = "idle" => t \in KeepTask
    /\ ~ wtRaced =>
         /\ \A t \in wtDisk : wtPc[t] = "idle" => t \in KeepTask
         /\ metadata = Garbled \/ \A t \in WtTask :
              wtPc[t] \in {"idle", "active", "remove"} => (t \in metadata <=> t \in wtDisk)

\* The disk has no more worktrees than the limit and the slots allow, and none
\* that nobody will remove, but for the named cases.
WorktreesSound == WorktreeLimit /\ WorktreesAccounted
=============================================================================
