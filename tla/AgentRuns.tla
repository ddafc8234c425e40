------------------------------ MODULE AgentRuns ------------------------------
(***************************************************************************)
(* Tasks for codex and gemini, from the queue (queue/task-queue.ts)        *)
(* through the adapter it loads with the first of them                     *)
(* (agents/*-task-executor-adapter.ts) to the loops that read the agent's  *)
(* events (agents/*-agent-executor.ts), and their cancellation on the way. *)
(*                                                                         *)
(* The queue and an adapter each import what they need at the first use    *)
(* and await it; other tasks and cancellations come in between.            *)
(***************************************************************************)
EXTENDS Naturals, FiniteSets

CONSTANTS
  AgentTask,
  GeminiTask,     \* the others are for codex
  MaxTurns,       \* maxIterations of a gemini run: 20 in the code
  MaxEvents,      \* bound on the events of a codex stream
  MaxAttempts,    \* bound on the runs of a task that fails and is retried
  MaxSdkFailures  \* bound on imports of an SDK that fail

Kind == {"codex", "gemini"}
KindOf(t) == IF t \in GeminiTask THEN "gemini" ELSE "codex"

ASSUME AgentRunsAssumption ==
  /\ GeminiTask \subseteq AgentTask /\ IsFiniteSet(AgentTask)
  /\ {MaxTurns, MaxEvents, MaxAttempts} \subseteq Nat \ {0}
  /\ MaxSdkFailures \in Nat

VARIABLES
  taskStatus,
  run,          \* where the run of a task is; queued: in p-queue or in a retry timer
  home,         \* the adapter its run is in; 0 is none
  cancel,       \* a cancellation that awaits the import of an adapter
  kept,         \* of each kind: the adapter the queue has, 0 before the first
  adapters,     \* of each kind: how many were created
  registry,     \* runningTasks of the adapters, as pairs of a task and an adapter
  stopping,     \* tasks whose current run was told to stop
  iteration, late, \* events or turns of a run, and how many of them after the abort
  attempts, outcome,
  sdk, sdkFailures, \* the SDK of a kind: not asked for, loaded or failed for good
  crowded,      \* tasks whose run entered an adapter while others awaited theirs
  early         \* tasks cancelled since their run began and before it was in an adapter

agentVars == <<taskStatus, run, home, cancel, kept, adapters, registry, stopping, iteration, late,
               attempts, outcome, sdk, sdkFailures, crowded, early>>

AwaitsAdapter == {"preparing", "importing"}
InAdapter == {"loading", "turn", "generating", "closing", "reporting"}
RunPhases == {"none", "queued"} \cup AwaitsAdapter \cup InAdapter

AgentsInit ==
  /\ taskStatus = [t \in AgentTask |-> "pending"]
  /\ run = [t \in AgentTask |-> "queued"]
  /\ home = [t \in AgentTask |-> 0]
  /\ cancel = [t \in AgentTask |-> FALSE]
  /\ kept = [k \in Kind |-> 0] /\ adapters = [k \in Kind |-> 0]
  /\ registry = {} /\ stopping = {}
  /\ iteration = [t \in AgentTask |-> 0] /\ late = [t \in AgentTask |-> 0]
  /\ attempts = [t \in AgentTask |-> 0]
  /\ outcome = [t \in AgentTask |-> "none"]
  /\ sdk = [k \in Kind |-> "unused"] /\ sdkFailures = 0
  /\ crowded = {} /\ early = {}

\* executeTask: the task is running before any adapter knows it, also one that was
\* cancelled while it waited; the path and the watcher are awaited first.
StartTask(t) ==
  /\ run[t] = "queued"
  /\ taskStatus' = [taskStatus EXCEPT ![t] = "running"]
  /\ run' = [run EXCEPT ![t] = "preparing"]
  /\ attempts' = [attempts EXCEPT ![t] = @ + 1]
  /\ outcome' = [outcome EXCEPT ![t] = "none"]
  /\ early' = early \ {t}
  /\ UNCHANGED <<home, cancel, kept, adapters, registry, stopping, iteration, late, sdk,
                 sdkFailures, crowded>>

\* Somebody other than the run of t awaits the import of an adapter for it.
Awaited(t) ==
  \E s \in AgentTask : KindOf(s) = KindOf(t) /\ (cancel[s] \/ (s # t /\ run[s] = "importing"))

\* execute of adapter a: the controller is registered before anything is awaited.
Enter(t, a) ==
  /\ home' = [home EXCEPT ![t] = a]
  /\ registry' = registry \cup {<<t, a>>}
  /\ run' = [run EXCEPT ![t] = "loading"]
  /\ stopping' = stopping \ {t}
  /\ iteration' = [iteration EXCEPT ![t] = 0] /\ late' = [late EXCEPT ![t] = 0]
  /\ crowded' = IF Awaited(t) THEN crowded \cup {t} ELSE crowded \ {t}

\* getCodexExecutor and getGeminiExecutor, when they find an adapter: the run
\* goes to it at once.
UseAdapter(t) ==
  /\ run[t] = "preparing" /\ kept[KindOf(t)] # 0
  /\ Enter(t, kept[KindOf(t)])
  /\ UNCHANGED <<taskStatus, cancel, kept, adapters, attempts, outcome, sdk, sdkFailures, early>>

\* Fault: they do not look whether there is one.
AwaitAdapterAlways(t) ==
  /\ run[t] = "preparing"
  /\ run' = [run EXCEPT ![t] = "importing"]
  /\ UNCHANGED <<taskStatus, home, cancel, kept, adapters, registry, stopping, iteration, late,
                 attempts, outcome, sdk, sdkFailures, crowded, early>>

\* ... and when they find none: they await the import, ...
AwaitAdapter(t) ==
  /\ run[t] = "preparing" /\ kept[KindOf(t)] = 0
  /\ run' = [run EXCEPT ![t] = "importing"]
  /\ UNCHANGED <<taskStatus, home, cancel, kept, adapters, registry, stopping, iteration, late,
                 attempts, outcome, sdk, sdkFailures, crowded, early>>

\* ... and each that awaited it creates an adapter of its own, in place of the last.
NewAdapter(k) ==
  /\ adapters' = [adapters EXCEPT ![k] = @ + 1]
  /\ kept' = [kept EXCEPT ![k] = adapters[k] + 1]

AdapterImported(t) ==
  /\ run[t] = "importing"
  /\ NewAdapter(KindOf(t))
  /\ Enter(t, adapters[KindOf(t)] + 1)
  /\ UNCHANGED <<taskStatus, cancel, attempts, outcome, sdk, sdkFailures, early>>

\* Fault: one retry too many.
RetriesOnceMore(t) == attempts[t] <= MaxAttempts

Retries(t) == attempts[t] < MaxAttempts

\* Fault: the finally block is missing.
EndRunRegistered(t, result) ==
  /\ run' = [run EXCEPT ![t] = "none"]
  /\ home' = [home EXCEPT ![t] = 0]
  /\ outcome' = [outcome EXCEPT ![t] = result]
  /\ taskStatus' = [taskStatus EXCEPT ![t] = IF result = "success" THEN "completed" ELSE "failed"]
  /\ UNCHANGED <<cancel, kept, adapters, registry, stopping, attempts, crowded, early>>

\* The end of execute in the adapter, its finally block and what executeTask makes
\* of the result, whatever the status had become: a success completes the task, a
\* failure fails it or arms a retry.
EndRun(t, result) ==
  /\ registry' = registry \ {<<t, home[t]>>}
  /\ home' = [home EXCEPT ![t] = 0]
  /\ outcome' = [outcome EXCEPT ![t] = result]
  /\ \/ /\ run' = [run EXCEPT ![t] = "none"]
        /\ taskStatus' = [taskStatus EXCEPT ![t] =
                           IF result = "success" THEN "completed" ELSE "failed"]
     \/ /\ result = "failure" /\ Retries(t)
        /\ run' = [run EXCEPT ![t] = "queued"]
        /\ UNCHANGED taskStatus
  /\ UNCHANGED <<cancel, kept, adapters, stopping, attempts, crowded, early>>

\* The SDK is imported with the first run; the promise is kept, also a rejected one.
SdkReady(t) ==
  /\ run[t] = "loading" /\ sdk[KindOf(t)] # "failed"
  /\ sdk' = [sdk EXCEPT ![KindOf(t)] = "loaded"]
  /\ run' = [run EXCEPT ![t] = "turn"]
  /\ UNCHANGED <<taskStatus, home, cancel, kept, adapters, registry, stopping, iteration, late,
                 attempts, outcome, sdkFailures, crowded, early>>

SdkFails(t) ==
  /\ run[t] = "loading"
  /\ \/ sdk[KindOf(t)] = "failed" /\ UNCHANGED sdkFailures
     \/ sdk[KindOf(t)] = "unused" /\ sdkFailures < MaxSdkFailures
        /\ sdkFailures' = sdkFailures + 1
  /\ sdk' = [sdk EXCEPT ![KindOf(t)] = "failed"]
  /\ EndRun(t, "failure")
  /\ UNCHANGED <<iteration, late>>

\* An event, or a turn, of a run that may have been told to stop.
NextTurn(t) ==
  /\ iteration' = [iteration EXCEPT ![t] = @ + 1]
  /\ late' = [late EXCEPT ![t] = IF t \in stopping THEN @ + 1 ELSE @]

\* Fault: nobody looks at the signal.
StoppedNever(t) == FALSE

Stopped(t) == t \in stopping

\* codex: an event that does not end the turn.  It is forwarded before the signal
\* is looked at.
CodexEvent(t) ==
  /\ t \notin GeminiTask /\ run[t] = "turn" /\ iteration[t] < MaxEvents
  /\ NextTurn(t)
  /\ run' = [run EXCEPT ![t] = "generating"]
  /\ UNCHANGED <<taskStatus, home, cancel, kept, adapters, registry, stopping, attempts, outcome,
                 sdk, sdkFailures, crowded, early>>

CodexChecked(t) ==
  /\ t \notin GeminiTask /\ run[t] = "generating"
  /\ IF Stopped(t)
     THEN EndRun(t, "failure")
     ELSE /\ run' = [run EXCEPT ![t] = "turn"]
          /\ UNCHANGED <<taskStatus, home, cancel, kept, adapters, registry, stopping, attempts,
                         outcome, crowded, early>>
  /\ UNCHANGED <<iteration, late, sdk, sdkFailures>>

\* codex: turn.completed and turn.failed both end the loop before the signal is
\* looked at and the run succeeds; a stream that breaks fails it.
CodexEnds(t) ==
  /\ t \notin GeminiTask /\ run[t] = "turn"
  /\ \E result \in {"success", "failure"} : EndRun(t, result)
  /\ UNCHANGED <<iteration, late, sdk, sdkFailures>>

\* gemini: the top of the loop.
GeminiAsks(t) ==
  /\ t \in GeminiTask /\ run[t] = "turn" /\ iteration[t] < MaxTurns
  /\ IF Stopped(t)
     THEN EndRun(t, "failure") /\ UNCHANGED <<iteration, late>>
     ELSE /\ NextTurn(t)
          /\ run' = [run EXCEPT ![t] = "generating"]
          /\ UNCHANGED <<taskStatus, home, cancel, kept, adapters, registry, stopping, attempts,
                         outcome, crowded, early>>
  /\ UNCHANGED <<sdk, sdkFailures>>

\* gemini: an answer with function calls, which are all executed, or the last one.
GeminiAnswers(t, calls) ==
  /\ t \in GeminiTask /\ run[t] = "generating"
  /\ run' = [run EXCEPT ![t] = IF calls THEN "turn" ELSE "closing"]
  /\ late' = [late EXCEPT ![t] = IF t \in stopping THEN @ + 1 ELSE @]
  /\ UNCHANGED <<taskStatus, home, cancel, kept, adapters, registry, stopping, iteration, attempts,
                 outcome, sdk, sdkFailures, crowded, early>>

\* gemini: generateContent throws.
GeminiThrows(t) ==
  /\ t \in GeminiTask /\ run[t] = "generating"
  /\ EndRun(t, "failure")
  /\ UNCHANGED <<iteration, late, sdk, sdkFailures>>

\* gemini: the check after the loop, also when the turns are used up without a last
\* answer, ...
GeminiChecked(t) ==
  /\ t \in GeminiTask
  /\ run[t] = "closing" \/ (run[t] = "turn" /\ iteration[t] = MaxTurns)
  /\ IF Stopped(t)
     THEN EndRun(t, "failure")
     ELSE /\ run' = [run EXCEPT ![t] = "reporting"]
          /\ UNCHANGED <<taskStatus, home, cancel, kept, adapters, registry, stopping, attempts,
                         outcome, crowded, early>>
  /\ UNCHANGED <<iteration, late, sdk, sdkFailures>>

\* ... and the two last events, which the adapter forwards.
GeminiReports(t) ==
  /\ run[t] = "reporting"
  /\ EndRun(t, "success")
  /\ UNCHANGED <<iteration, late, sdk, sdkFailures>>

\* cancel of adapter a: a task it does not have is passed over in silence.
Abort(t, a) ==
  /\ stopping' = IF <<t, a>> \in registry THEN stopping \cup {t} ELSE stopping
  /\ registry' = registry \ {<<t, a>>}

\* The task counts as cancelled, whatever it was and wherever its run is: cancelTask
\* refuses it from then on.
SetCancelled(t) ==
  /\ taskStatus' = [taskStatus EXCEPT ![t] = "cancelled"]
  /\ early' = IF run[t] \in AwaitsAdapter THEN early \cup {t} ELSE early

\* cancelTask.
CancelTask(t) ==
  /\ taskStatus[t] \in {"pending", "running"} /\ ~ cancel[t]
  /\ CASE taskStatus[t] = "running" /\ kept[KindOf(t)] = 0 ->
            /\ cancel' = [cancel EXCEPT ![t] = TRUE]
            /\ UNCHANGED <<taskStatus, registry, stopping, early>>
       [] taskStatus[t] = "running" /\ kept[KindOf(t)] # 0 ->
            /\ Abort(t, kept[KindOf(t)])
            /\ SetCancelled(t)
            /\ UNCHANGED cancel
       [] OTHER ->
            /\ SetCancelled(t)
            /\ UNCHANGED <<registry, stopping, cancel>>
  /\ UNCHANGED <<run, home, kept, adapters, iteration, late, attempts, outcome, sdk, sdkFailures,
                 crowded>>

\* A cancellation that awaited the import asks an adapter no run has entered, and
\* sets the status whatever it has become.
CancelImported(t) ==
  /\ cancel[t]
  /\ NewAdapter(KindOf(t))
  /\ Abort(t, adapters[KindOf(t)] + 1)
  /\ cancel' = [cancel EXCEPT ![t] = FALSE]
  /\ SetCancelled(t)
  /\ UNCHANGED <<run, home, iteration, late, attempts, outcome, sdk, sdkFailures, crowded>>

AgentsNext ==
  \E t \in AgentTask :
    \/ StartTask(t) \/ UseAdapter(t) \/ AwaitAdapter(t) \/ AdapterImported(t)
    \/ SdkReady(t) \/ SdkFails(t)
    \/ CodexEvent(t) \/ CodexChecked(t) \/ CodexEnds(t)
    \/ GeminiAsks(t) \/ (\E calls \in BOOLEAN : GeminiAnswers(t, calls)) \/ GeminiThrows(t)
    \/ GeminiChecked(t) \/ GeminiReports(t)
    \/ CancelTask(t) \/ CancelImported(t)

AgentsSpec == AgentsInit /\ [][AgentsNext]_agentVars

-----------------------------------------------------------------------------
\* The shapes of the state.
AgentsTypeOK ==
  /\ taskStatus \in [AgentTask -> {"pending", "running", "completed", "failed", "cancelled"}]
  /\ run \in [AgentTask -> RunPhases]
  /\ home \in [AgentTask -> Nat] /\ cancel \in [AgentTask -> BOOLEAN]
  /\ kept \in [Kind -> Nat] /\ adapters \in [Kind -> Nat]
  /\ registry \subseteq AgentTask \X Nat /\ {stopping, crowded, early} \subseteq SUBSET AgentTask
  /\ iteration \in [AgentTask -> Nat] /\ late \in [AgentTask -> Nat]
  /\ attempts \in [AgentTask -> 0 .. MaxAttempts]
  /\ outcome \in [AgentTask -> {"none", "success", "failure"}]
  /\ sdk \in [Kind -> {"unused", "loaded", "failed"}] /\ sdkFailures \in 0 .. MaxSdkFailures

\* The adapters know exactly the runs that are in them and were not told to stop:
\* no entry outlives its run, is under another adapter or goes missing.
RegistryExact ==
  registry = {<<t, home[t]>> : t \in {s \in AgentTask : run[s] \in InAdapter /\ s \notin stopping}}

\* cancelTask takes the task on and asks the adapter that its run is in.
WithinReach(t) ==
  taskStatus[t] = "running" /\ ~ cancel[t] /\ home[t] = kept[KindOf(t)]

\* A run is in an adapter where no cancellation reaches it only if it entered it while
\* others still awaited the import of theirs, or if its task was cancelled before it
\* entered: the run goes on, and a task that is cancelled is not cancelled again.
OutOfReachIsKnown ==
  \A t \in AgentTask \ (stopping \cup crowded \cup early) :
    run[t] \in InAdapter => WithinReach(t)

\* A run in an adapter was told to stop, or a cancellation would tell it, but for those
\* of the two kinds above.
CancelFinds == RegistryExact /\ OutOfReachIsKnown

\* A run that was told to stop goes on for one event (codex) or for the answer it
\* is waiting for with its calls (gemini); a retry is not told.
AbortIsSwift == \A t \in AgentTask : late[t] <= 1

\* A gemini run that is told to stop while the model works does not succeed: it may
\* only if it was told when nothing but its report was left.  And it has made at
\* most maxIterations requests.
AbortedGeminiFails ==
  \A t \in GeminiTask : outcome[t] = "success" => late[t] = 0 /\ iteration[t] <= MaxTurns

\* A run that was told to stop stops soon, and a gemini run that went on meanwhile does
\* not pass for a success.  A codex run may: turn.completed as the next event ends the
\* loop before anybody looks at the signal.
AbortHeeded == AbortIsSwift /\ AbortedGeminiFails
=============================================================================
