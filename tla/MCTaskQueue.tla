---------------------------- MODULE MCTaskQueue ----------------------------
(***************************************************************************)
(* Instances of TaskQueue for TLC.  t1 may be retried once and is the      *)
(* urgent one, the others are not retried.                                 *)
(***************************************************************************)
EXTENDS TaskQueue, TLC

CONSTANTS t1, t2

Rank    == [t \in Task |-> IF t = t1 THEN 1 ELSE 0]
Retries == [t \in Task |-> IF t = t1 THEN 1 ELSE 0]

SlotSymmetry == Permutations(Slot)

Everything == {"cancel", "clear", "pause", "reconfigure"}
NoCancel   == {"clear", "pause", "reconfigure"}
CancelOnly == {"cancel", "reconfigure"}
=============================================================================
