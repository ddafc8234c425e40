------------------------------ MODULE Timeouts ------------------------------
(***************************************************************************)
(* The TimeoutManager of a run (services/timeout-manager.ts) as            *)
(* executeCore drives it (claude/executor.ts): one clock for the run, one  *)
(* for its phase, a warning and a timeout for each.                        *)
(*                                                                         *)
(* A timer may fire late, when the event loop is busy; a transition of the *)
(* run may come first and cancel it.                                       *)
(***************************************************************************)
EXTENDS Integers

CONSTANTS
  Limits,           \* offered: [setup, execution, cleanup, total, warnAfter], the last
                    \* being the warning threshold in percent
  DefaultWarnAfter, \* the threshold restartMonitoring uses
  Horizon           \* bound on the time

Stages == {"prepare", "setup", "execution", "cleanup", "over"}
TimerNames == {"phase-warning", "phase-timeout", "total-warning", "total-timeout"}

ASSUME TimeoutsAssumption ==
  /\ \A l \in Limits : /\ {l.setup, l.execution, l.cleanup, l.total} \subseteq Nat
                       /\ l.warnAfter \in Nat
  /\ DefaultWarnAfter \in Nat /\ Horizon \in Nat

VARIABLES
  limits,
  stage,        \* "prepare" is the setup phase before the first transition
  now,          \* since the run began
  phaseStart, timers, warned,
  aborted,      \* abortController.abort() was called
  abortedBy,    \* the timers whose firing did it
  spent         \* the last transition found the total used up

toVars == <<limits, stage, now, phaseStart, timers, warned, aborted, abortedBy, spent>>

PhaseLimit(st) == CASE st \in {"prepare", "setup"} -> limits.setup
                    [] st = "execution"            -> limits.execution
                    [] OTHER                       -> limits.cleanup

Warned(limit, percent) == (limit * percent) \div 100

\* schedulePhaseCheck and scheduleTotalCheck for a phase that began at start: the
\* timers that are ahead, as names with the time they are due.
Scheduled(st, start, warnAfter, done) ==
  LET due == [name \in TimerNames |->
                CASE name = "phase-warning" -> start + Warned(PhaseLimit(st), warnAfter)
                  [] name = "phase-timeout" -> start + PhaseLimit(st)
                  [] name = "total-warning" -> Warned(limits.total, warnAfter)
                  [] name = "total-timeout" -> limits.total]
  IN {<<name, due[name]>> : name \in {n \in TimerNames \ done : due[n] > now}}

\* The constructor.
TimeoutsInit ==
  /\ limits \in Limits
  /\ stage = "prepare"
  /\ now = 0 /\ phaseStart = 0
  /\ warned = {}
  /\ timers = Scheduled("prepare", 0, limits.warnAfter, {})
  /\ aborted = FALSE /\ abortedBy = {}
  /\ spent = (limits.total <= 0)

\* Time passes, also over timers that are due.
Elapse ==
  /\ now < Horizon
  /\ stage # "over"
  /\ now' = now + 1
  /\ UNCHANGED <<limits, stage, phaseStart, timers, warned, aborted, abortedBy, spent>>

\* A timer fires.
TimerFires(timer) ==
  /\ timer \in timers /\ timer[2] <= now
  /\ timers' = timers \ {timer}
  /\ IF timer[1] \in {"phase-warning", "total-warning"}
     THEN warned' = warned \cup {timer[1]} /\ UNCHANGED <<aborted, abortedBy>>
     ELSE /\ aborted' = TRUE
          /\ abortedBy' = abortedBy \cup {<<timer[1], stage, now - phaseStart>>}
          /\ UNCHANGED warned
  /\ UNCHANGED <<limits, stage, now, phaseStart, spent>>

\* Fault: the timers of the old phase are not cleared.
RearmedOver(st) == timers \cup Scheduled(st, now, DefaultWarnAfter, warned \ {"phase-warning"})

\* restartMonitoring: the timers are cleared and scheduled anew, with the default
\* threshold whatever the options say.
Rearmed(st) == Scheduled(st, now, DefaultWarnAfter, warned \ {"phase-warning"})

\* transitionToPhase.
Transition(st) ==
  /\ \/ stage = "prepare" /\ st = "setup"
     \/ stage = "setup" /\ st = "execution"
     \/ stage = "execution" /\ st = "cleanup"
  /\ stage' = st
  /\ phaseStart' = now
  /\ warned' = warned \ {"phase-warning"}
  /\ timers' = Rearmed(st)
  /\ spent' = (now >= limits.total)
  /\ UNCHANGED <<limits, now, aborted, abortedBy>>

\* dispose, at the end of the run or on an error in any phase.
Dispose ==
  /\ stage # "over"
  /\ stage' = "over"
  /\ timers' = {}
  /\ UNCHANGED <<limits, now, phaseStart, warned, aborted, abortedBy, spent>>

TimeoutsNext ==
  \/ Elapse \/ Dispose
  \/ \E timer \in timers : TimerFires(timer)
  \/ \E st \in Stages : Transition(st)

TimeoutsSpec == TimeoutsInit /\ [][TimeoutsNext]_toVars

-----------------------------------------------------------------------------
\* The shapes of the state of the timeouts.
TimeoutsTypeOK ==
  /\ limits \in Limits
  /\ stage \in Stages
  /\ now \in Nat /\ phaseStart \in Nat
  /\ timers \subseteq TimerNames \X Int
  /\ warned \subseteq TimerNames
  /\ aborted \in BOOLEAN /\ spent \in BOOLEAN
  /\ abortedBy \subseteq TimerNames \X Stages \X Int

\* A run that is not over and was not aborted has both its timeouts ahead, at the
\* right times; but the one on the total is lost when a transition comes after
\* the time and before the timer (timeoutTime > 0 in scheduleTotalCheck).
Armed ==
  (stage # "over" /\ ~ aborted) =>
    /\ (PhaseLimit(stage) > 0
          => <<"phase-timeout", phaseStart + PhaseLimit(stage)>> \in timers)
    /\ (~ spent => <<"total-timeout", limits.total>> \in timers)

\* A run is aborted only when its total is used up or the phase it is in has
\* lasted too long, never by a timer of an earlier phase.
Justified ==
  \A by \in abortedBy : /\ (by[1] = "total-timeout" => now >= limits.total)
                         /\ (by[1] = "phase-timeout" => by[3] >= PhaseLimit(by[2]))

\* No run outlives its limits and none is stopped within them: the timeouts stay
\* armed and justified over all transitions, nothing fires once the run was
\* disposed of, and the total is warned of once.
TimeoutsSound ==
  /\ Armed
  /\ Justified
  /\ (stage = "over" => timers = {})
  /\ ("total-warning" \in warned => \A timer \in timers : timer[1] # "total-warning")
=============================================================================
