--------------------------- MODULE TaskLifecycle ---------------------------
(***************************************************************************)
(* What the backend promises the client of one task as long as nobody      *)
(* cancels it: it is submitted once, runs, goes back to pending at most    *)
(* MaxRetries times, and ends for good as completed or failed.  The record *)
(* is the tasks row that GET /tasks/:id serves, so the promise spans       *)
(* crashes and restarts.                                                   *)
(***************************************************************************)
EXTENDS Naturals

CONSTANTS
  Task,
  MaxRetries   \* MaxRetries[t] \in Nat: how often t may be retried

VARIABLES
  state,   \* the status the client reads
  tries    \* the retries the task has used up

lifecycleVars == <<state, tries>>

Init ==
  /\ state = [t \in Task |-> "none"]
  /\ tries = [t \in Task |-> 0]

Submit(t) ==
  /\ state[t] = "none"
  /\ state' = [state EXCEPT ![t] = "pending"]
  /\ UNCHANGED tries

Begin(t) ==
  /\ state[t] = "pending"
  /\ state' = [state EXCEPT ![t] = "running"]
  /\ UNCHANGED tries

Retry(t) ==
  /\ state[t] = "running"
  /\ tries[t] < MaxRetries[t]
  /\ state' = [state EXCEPT ![t] = "pending"]
  /\ tries' = [tries EXCEPT ![t] = @ + 1]

End(t) ==
  /\ state[t] = "running"
  /\ \E outcome \in {"completed", "failed"} : state' = [state EXCEPT ![t] = outcome]
  /\ UNCHANGED tries

Next == \E t \in Task : Submit(t) \/ Begin(t) \/ Retry(t) \/ End(t)

Spec == Init /\ [][Next]_lifecycleVars
=============================================================================
