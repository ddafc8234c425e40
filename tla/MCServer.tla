------------------------------- MODULE MCServer -------------------------------
(***************************************************************************)
(* Instances of the components that share no state with each other: the    *)
(* scheduler, the comparisons, the worktrees, the workers, the timeouts,   *)
(* the chats and the log stream.  As nothing one of them does can be seen  *)
(* by another, a behaviour exercises one (part) and leaves the others at   *)
(* rest; their product would add states and no interleaving that matters.  *)
(***************************************************************************)
EXTENDS Scheduler, Compare, Worktrees, Workers, Timeouts, ChatSessions, LogStream

CONSTANTS
  Parts, FirstComparison,
  MaxDisturbed  \* bound on the removals and faults of the one comparison together

VARIABLE part

partVars == <<schedVars, cmpVars, wtVars, wmVars, toVars, chatVars, wsVars>>

\* Two budgets and three divisions of them among the phases.
MCLimits == {[setup |-> s[1], execution |-> s[2], cleanup |-> s[3], total |-> total,
              warnAfter |-> 50] :
             s \in {<<2, 3, 1>>, <<1, 4, 2>>, <<0, 2, 1>>}, total \in {3, 6}}

ServerInit ==
  /\ part \in Parts
  /\ SchedInit /\ CompareInit /\ WorktreesInit /\ WorkersInit /\ TimeoutsInit
  /\ ChatInit /\ LogStreamInit
  /\ (part # "worker" => jobRow = [j \in Job |-> "none"])
  /\ (part # "timeouts" => limits = CHOOSE l \in Limits : TRUE)
  /\ (part # "stream" => keyGood)

\* One schedule, through all its times, faults and starts of the process, ...
SchedOne == SchedNext /\ Cardinality(createdIds') <= 1

\* ... and several in one process after the other, for a shorter time.
SchedSeveral ==
  /\ SchedNext /\ UNCHANGED schedFaults
  /\ clock' <= 1 /\ \A s \in Schedule : executions'[s] <= 1

\* One comparison, with removals, failures and restarts, ...
CompareOne ==
  /\ CompareNext
  /\ \A c \in Comparison \ {FirstComparison} : request'[c] = "none"
  /\ removals' + compareFaults' <= MaxDisturbed

\* ... and several at a time, which share nothing but the limit, without removals,
\* before their agents begin and with a fault or a restart.
CompareSeveral ==
  /\ CompareNext
  /\ UNCHANGED <<removals, forgotten, working>>
  /\ compareFaults' + crashes' <= 1

\* The manager with several workers without tasks, ...
WorkersIdle ==
  WorkersNext /\ UNCHANGED jobRow /\ \A w \in Worker : polls'[w] <= 1

\* ... and one worker with tasks.
WorkerAlone == WorkersNext /\ \A w \in Worker \ Managed : starts'[w] = 0

\* A connection is left for every attempt to connect.
StreamSteps == LogStreamNext /\ connects' + wsFaults' <= MaxLinks

\* Where there is no other chat nobody forks; where there are, two connections are used
\* beside a fork, and no turn waits for the directory, which matters to its page alone.
Forks == Chat # {FirstChat}

ChatSteps ==
  /\ ChatNext
  /\ ~ Forks => tokens' = {}
  /\ Forks => \A c \in Conn : turn'[c] # "stuck"
  /\ chats' # {FirstChat} \/ tokens' # {} => Cardinality({c \in Conn : socket'[c] # "none"}) <= 2

ServerNext ==
  \/ /\ part = "schedule" /\ SchedOne
     /\ UNCHANGED <<part, cmpVars, wtVars, wmVars, toVars, chatVars, wsVars>>
  \/ /\ part = "schedules" /\ SchedSeveral
     /\ UNCHANGED <<part, cmpVars, wtVars, wmVars, toVars, chatVars, wsVars>>
  \/ /\ part = "comparison" /\ CompareOne
     /\ UNCHANGED <<part, schedVars, wtVars, wmVars, toVars, chatVars, wsVars>>
  \/ /\ part = "comparisons" /\ CompareSeveral
     /\ UNCHANGED <<part, schedVars, wtVars, wmVars, toVars, chatVars, wsVars>>
  \/ /\ part = "worktrees" /\ WorktreesNext
     /\ UNCHANGED <<part, schedVars, cmpVars, wmVars, toVars, chatVars, wsVars>>
  \/ /\ part = "manager" /\ WorkersIdle
     /\ UNCHANGED <<part, schedVars, cmpVars, wtVars, toVars, chatVars, wsVars>>
  \/ /\ part = "worker" /\ WorkerAlone
     /\ UNCHANGED <<part, schedVars, cmpVars, wtVars, toVars, chatVars, wsVars>>
  \/ /\ part = "timeouts" /\ TimeoutsNext
     /\ UNCHANGED <<part, schedVars, cmpVars, wtVars, wmVars, chatVars, wsVars>>
  \/ /\ part = "chats" /\ ChatSteps
     /\ UNCHANGED <<part, schedVars, cmpVars, wtVars, wmVars, toVars, wsVars>>
  \/ /\ part = "stream" /\ StreamSteps
     /\ UNCHANGED <<part, schedVars, cmpVars, wtVars, wmVars, toVars, chatVars>>

ServerSpec == ServerInit /\ [][ServerNext]_<<part, partVars>>

\* What the fairness of a part speaks of is disabled in the behaviours of others.
FairServerSpec ==
  ServerSpec /\ CompareFairness /\ WorkersFairness /\ ChatFairness /\ LogStreamFairness

\* The shapes of the states of all parts.
ServerTypeOK ==
  /\ SchedTypeOK /\ CompareTypeOK /\ WorktreesTypeOK /\ WorkersTypeOK
  /\ TimeoutsTypeOK /\ ChatTypeOK /\ LogStreamTypeOK
=============================================================================
