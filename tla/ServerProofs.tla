---------------------------- MODULE ServerProofs ----------------------------
(***************************************************************************)
(* The timeouts of a run, the worktrees of the executor and the log stream *)
(* for all values of their constants, and the parts of MCServer put        *)
(* together: each of its steps is a step of the specification of one part, *)
(* so that what is proved of a part holds in the behaviours TLC checks.    *)
(***************************************************************************)
EXTENDS MCServer, SchedulerProofs, CompareProofs, WorkersProofs, ChatSessionsProofs,
        FiniteSetTheorems, SequenceTheorems, TLAPS

-----------------------------------------------------------------------------
(* Timeouts *)

Warnings == {"phase-warning", "total-warning"}

\* When the timeout of that name is due.
DueAt(name) == IF name = "phase-timeout" THEN phaseStart + PhaseLimit(stage)
               ELSE limits.total

\* The timers are those of the phase the run is in, one of a name; a warning that
\* fired has none, and that of a timeout is due when its limit is reached.
TimersInv ==
  /\ TimeoutsTypeOK
  /\ phaseStart <= now
  /\ warned \subseteq Warnings
  /\ \A one, other \in timers : one[1] = other[1] => one = other
  /\ \A timer \in timers : /\ timer[1] \notin warned
                           /\ timer[1] \notin Warnings => timer[2] = DueAt(timer[1])
  /\ TimeoutsSound

\* The limits are numbers, and so is the time of a warning.
LEMMA LimitsAreNumbers ==
  ASSUME limits \in Limits
  PROVE  /\ {limits.setup, limits.execution, limits.cleanup, limits.total} \subseteq Nat
         /\ limits.warnAfter \in Nat
         /\ \A st : PhaseLimit(st) \in Nat
         /\ \A limit, percent \in Nat : Warned(limit, percent) \in Int
<1>1. /\ {limits.setup, limits.execution, limits.cleanup, limits.total} \subseteq Nat
      /\ limits.warnAfter \in Nat
  BY TimeoutsAssumption
<1>2. \A st : PhaseLimit(st) \in Nat
  BY <1>1 DEF PhaseLimit
<1>3. ASSUME NEW limit \in Nat, NEW percent \in Nat PROVE Warned(limit, percent) \in Int
  <2>1. limit * percent \in Int
    OBVIOUS
  <2> QED BY <2>1 DEF Warned
<1> QED BY <1>1, <1>2, <1>3

\* What is scheduled for a phase that begins at start: timers ahead that are not
\* done, its timeouts among them, each at its time.
LEMMA ScheduledTimers ==
  ASSUME limits \in Limits, now \in Nat, NEW st \in Stages, NEW start \in Nat,
         NEW warnAfter \in Nat, NEW done
  PROVE  /\ Scheduled(st, start, warnAfter, done) \subseteq TimerNames \X Int
         /\ \A timer \in Scheduled(st, start, warnAfter, done) :
              /\ timer[1] \notin done
              /\ timer[1] = "phase-timeout" => timer[2] = start + PhaseLimit(st)
              /\ timer[1] = "total-timeout" => timer[2] = limits.total
         /\ \A one, other \in Scheduled(st, start, warnAfter, done) :
              one[1] = other[1] => one = other
         /\ "phase-timeout" \notin done /\ start + PhaseLimit(st) > now =>
              <<"phase-timeout", start + PhaseLimit(st)>>
                \in Scheduled(st, start, warnAfter, done)
         /\ "total-timeout" \notin done /\ limits.total > now =>
              <<"total-timeout", limits.total>> \in Scheduled(st, start, warnAfter, done)
<1> DEFINE due == [name \in TimerNames |->
                CASE name = "phase-warning" -> start + Warned(PhaseLimit(st), warnAfter)
                  [] name = "phase-timeout" -> start + PhaseLimit(st)
                  [] name = "total-warning" -> Warned(limits.total, warnAfter)
                  [] name = "total-timeout" -> limits.total]
           all == {<<name, due[name]>> : name \in {n \in TimerNames \ done : due[n] > now}}
<1>1. Scheduled(st, start, warnAfter, done) = all
  BY DEF Scheduled
<1>2. /\ due["phase-warning"] = start + Warned(PhaseLimit(st), warnAfter)
      /\ due["phase-timeout"] = start + PhaseLimit(st)
      /\ due["total-warning"] = Warned(limits.total, warnAfter)
      /\ due["total-timeout"] = limits.total
  BY DEF TimerNames
<1>3. PhaseLimit(st) \in Nat /\ limits.total \in Nat
  BY LimitsAreNumbers
<1>4. Warned(PhaseLimit(st), warnAfter) \in Int /\ Warned(limits.total, warnAfter) \in Int
  BY <1>3, LimitsAreNumbers
<1>5. \A name \in TimerNames : due[name] \in Int
  <2> HIDE DEF due
  <2> QED BY <1>2, <1>3, <1>4 DEF TimerNames
<1> HIDE DEF due
<1>6. all \subseteq TimerNames \X Int
  BY <1>5
<1>7. /\ \A timer \in all : timer[1] \notin done /\ timer[2] = due[timer[1]]
      /\ \A one, other \in all : one[1] = other[1] => one = other
  OBVIOUS
<1>8. \A name \in TimerNames \ done : due[name] > now => <<name, due[name]>> \in all
  OBVIOUS
<1>9. {"phase-timeout", "total-timeout"} \subseteq TimerNames
  BY DEF TimerNames
<1> HIDE DEF all
<1> QED BY <1>1, <1>2, <1>6, <1>7, <1>8, <1>9

\* A step keeps the timers right.
LEMMA TimersKept ==
  ASSUME TimersInv, [TimeoutsNext]_toVars PROVE TimersInv'
<1> USE DEF TimersInv
<1>0. /\ PhaseLimit(stage) \in Nat /\ limits.total \in Nat
      /\ limits' = limits => \A st : PhaseLimit(st)' = PhaseLimit(st)
  BY LimitsAreNumbers DEF TimeoutsTypeOK, PhaseLimit
<1>1. CASE Elapse
  <2>1. limits' = limits /\ stage' = stage /\ phaseStart' = phaseStart /\ now' = now + 1
        /\ UNCHANGED <<timers, warned, aborted, abortedBy, spent>>
    BY <1>1 DEF Elapse
  <2>2. TimeoutsTypeOK' /\ (phaseStart <= now)'
    BY <2>1 DEF TimeoutsTypeOK
  <2>3. /\ \A name : DueAt(name)' = DueAt(name)
        /\ \A st : PhaseLimit(st)' = PhaseLimit(st)
    BY <2>1, <1>0 DEF DueAt
  <2>4. Justified'
    BY <1>0, <2>1, <2>3 DEF TimeoutsSound, Justified, TimeoutsTypeOK
  <2>5. Armed'
    BY <2>1, <2>3 DEF TimeoutsSound, Armed
  <2>6. /\ (stage = "over" => timers = {})'
        /\ ("total-warning" \in warned => \A timer \in timers : timer[1] # "total-warning")'
    BY <2>1 DEF TimeoutsSound
  <2>7. TimeoutsSound'
    BY <2>4, <2>5, <2>6 DEF TimeoutsSound
  <2> QED BY <2>1, <2>2, <2>3, <2>7
<1>2. CASE Dispose
  <2>1. limits' = limits /\ stage' = "over" /\ timers' = {}
        /\ UNCHANGED <<now, phaseStart, warned, aborted, abortedBy, spent>>
    BY <1>2 DEF Dispose
  <2>2. TimeoutsTypeOK'
    BY <2>1 DEF TimeoutsTypeOK, Stages
  <2>3. \A st : PhaseLimit(st)' = PhaseLimit(st)
    BY <2>1, <1>0
  <2> QED BY <2>1, <2>2, <2>3 DEF TimeoutsSound, Justified, Armed
<1>3. ASSUME NEW timer \in timers, TimerFires(timer) PROVE TimersInv'
  <2>1. /\ limits' = limits /\ stage' = stage /\ phaseStart' = phaseStart /\ now' = now
        /\ spent' = spent /\ timers' = timers \ {timer} /\ timer[2] <= now
    BY <1>3 DEF TimerFires
  <2>2. timer[1] \in TimerNames /\ timer[2] \in Int /\ timers' \subseteq timers
    BY <2>1 DEF TimeoutsTypeOK
  <2>3. /\ \A name : DueAt(name)' = DueAt(name)
        /\ \A st : PhaseLimit(st)' = PhaseLimit(st)
    BY <2>1, <1>0 DEF DueAt
  <2>4. \A other \in timers' : other[1] # timer[1]
    BY <2>1
  <2>5. CASE timer[1] \in Warnings
    <3>1. warned' = warned \cup {timer[1]} /\ UNCHANGED <<aborted, abortedBy>>
      BY <1>3, <2>5 DEF TimerFires, Warnings
    <3>2. TimeoutsTypeOK'
      BY <2>1, <2>2, <3>1 DEF TimeoutsTypeOK
    <3>3. Armed'
      <4>1. timer[1] # "phase-timeout" /\ timer[1] # "total-timeout"
        BY <2>5 DEF Warnings
      <4>2. \A other \in timers : other[1] # timer[1] => other \in timers'
        BY <2>1
      <4> QED BY <2>1, <2>3, <3>1, <4>1, <4>2 DEF TimeoutsSound, Armed
    <3>4. Justified'
      BY <2>1, <2>3, <3>1 DEF TimeoutsSound, Justified
    <3>5. TimeoutsSound'
      BY <2>1, <2>2, <2>4, <3>1, <3>3, <3>4 DEF TimeoutsSound
    <3> QED BY <2>1, <2>2, <2>3, <2>4, <2>5, <3>1, <3>2, <3>5
  <2>6. CASE timer[1] \notin Warnings
    <3>1. /\ warned' = warned /\ aborted' = TRUE
          /\ abortedBy' = abortedBy \cup {<<timer[1], stage, now - phaseStart>>}
      BY <1>3, <2>6 DEF TimerFires, Warnings
    <3>2. TimeoutsTypeOK'
      BY <2>1, <2>2, <3>1 DEF TimeoutsTypeOK
    <3>3. Justified'
      <4>1. timer[2] = DueAt(timer[1])
        BY <2>6
      <4>2. timer[1] = "total-timeout" => now >= limits.total
        BY <1>0, <2>1, <4>1 DEF DueAt, TimeoutsTypeOK
      <4>3. timer[1] = "phase-timeout" => now - phaseStart >= PhaseLimit(stage)
        BY <1>0, <2>1, <4>1 DEF DueAt, TimeoutsTypeOK
      <4> DEFINE new == <<timer[1], stage, now - phaseStart>>
      <4>4. \A by \in abortedBy' : by \in abortedBy \/ by = new
        BY <3>1
      <4>5. new[1] = timer[1] /\ new[2] = stage /\ new[3] = now - phaseStart
        OBVIOUS
      <4> HIDE DEF new
      <4> QED BY <2>1, <2>3, <4>2, <4>3, <4>4, <4>5 DEF TimeoutsSound, Justified
    <3>4. TimeoutsSound'
      BY <2>1, <2>2, <2>3, <3>1, <3>3 DEF TimeoutsSound, Armed
    <3> QED BY <2>1, <2>2, <2>3, <3>1, <3>2, <3>4
  <2> QED BY <2>5, <2>6
<1>4. ASSUME NEW st \in Stages, Transition(st) PROVE TimersInv'
  <2> DEFINE done == warned \ {"phase-warning"}
  <2>1. /\ limits' = limits /\ stage' = st /\ phaseStart' = now /\ now' = now
        /\ warned' = done /\ timers' = Scheduled(st, now, DefaultWarnAfter, done)
        /\ UNCHANGED <<aborted, abortedBy>> /\ st # "over"
        /\ spent' = (now >= limits.total)
    BY <1>4 DEF Transition, Rearmed
  <2> HIDE DEF done
  <2>2. limits \in Limits /\ now \in Nat /\ DefaultWarnAfter \in Nat
    BY TimeoutsAssumption DEF TimeoutsTypeOK
  <2>11. spent' \in BOOLEAN /\ (spent' <=> now >= limits.total)
    <3>1. now \in Int /\ limits.total \in Int /\ spent' = (now >= limits.total)
      BY <1>0, <2>1, <2>2
    <3>2. spent' \in BOOLEAN
      BY <3>1
    <3>3. now >= limits.total => spent'
      BY <3>1
    <3>4. spent' => now >= limits.total
      BY <3>1
    <3> QED BY <3>2, <3>3, <3>4
  <2>3. /\ \A name : DueAt(name)' = IF name = "phase-timeout" THEN now + PhaseLimit(st)
                                    ELSE limits.total
        /\ \A s : PhaseLimit(s)' = PhaseLimit(s)
        /\ PhaseLimit(st) \in Nat
    BY <2>1, <2>2, <1>0, LimitsAreNumbers DEF DueAt
  <2>4. /\ timers' \subseteq TimerNames \X Int
        /\ \A timer \in timers' :
              /\ timer[1] \notin done
              /\ timer[1] = "phase-timeout" => timer[2] = now + PhaseLimit(st)
              /\ timer[1] = "total-timeout" => timer[2] = limits.total
        /\ \A one, other \in timers' : one[1] = other[1] => one = other
        /\ "phase-timeout" \notin done /\ now + PhaseLimit(st) > now =>
              <<"phase-timeout", now + PhaseLimit(st)>> \in timers'
        /\ "total-timeout" \notin done /\ limits.total > now =>
              <<"total-timeout", limits.total>> \in timers'
    BY <2>1, <2>2, ScheduledTimers
  <2>5. "phase-timeout" \notin done /\ "total-timeout" \notin done /\ done \subseteq Warnings
    BY DEF Warnings, done
  <2>6. TimeoutsTypeOK'
    <3>1. warned' \subseteq TimerNames
      BY <2>1, <2>5 DEF Warnings, TimerNames
    <3>2. timers' \subseteq TimerNames \X Int
      BY <2>4
    <3>3. abortedBy' \subseteq TimerNames \X Stages \X Int
      BY <2>1 DEF TimeoutsTypeOK
    <3>4. /\ (limits \in Limits)' /\ (stage \in Stages)' /\ (now \in Nat)'
          /\ (phaseStart \in Nat)' /\ (aborted \in BOOLEAN)' /\ (spent \in BOOLEAN)'
      BY <2>1, <2>2, <2>11 DEF TimeoutsTypeOK
    <3> QED BY <3>1, <3>2, <3>3, <3>4 DEF TimeoutsTypeOK
  <2>7. Armed'
    BY <1>0, <2>1, <2>2, <2>3, <2>4, <2>5, <2>11 DEF Armed, TimeoutsTypeOK
  <2>8. Justified'
    BY <2>1, <2>3 DEF TimeoutsSound, Justified
  <2>9. TimeoutsSound'
    BY <2>1, <2>4, <2>7, <2>8 DEF TimeoutsSound
  <2>10. \A timer \in timers' : timer[1] \notin Warnings =>
           timer[1] = "phase-timeout" \/ timer[1] = "total-timeout"
    BY <2>4 DEF Warnings, TimerNames
  <2> QED BY <2>1, <2>2, <2>3, <2>4, <2>5, <2>6, <2>9, <2>10
<1>5. CASE UNCHANGED toVars
  <2>1. UNCHANGED <<limits, stage, now, phaseStart, timers, warned, aborted, abortedBy, spent>>
    BY <1>5 DEF toVars
  <2> QED BY <2>1, <1>0 DEF TimeoutsTypeOK, TimeoutsSound, Armed, Justified, DueAt
<1> QED BY <1>1, <1>2, <1>3, <1>4, <1>5 DEF TimeoutsNext

\* At the start of a run both its clocks are armed.
LEMMA TimersStart == ASSUME TimeoutsInit PROVE TimersInv
<1>1. /\ limits \in Limits /\ stage = "prepare" /\ now = 0 /\ phaseStart = 0
      /\ timers = Scheduled("prepare", 0, limits.warnAfter, {})
      /\ warned = {} /\ aborted = FALSE /\ abortedBy = {}
      /\ spent = (limits.total <= 0)
  BY DEF TimeoutsInit
<1>2. "prepare" \in Stages /\ 0 \in Nat
  BY DEF Stages
<1>3. /\ PhaseLimit(stage) \in Nat /\ limits.total \in Nat /\ limits.warnAfter \in Nat
  BY <1>1, LimitsAreNumbers
<1>9. spent \in BOOLEAN /\ (spent <=> limits.total <= 0)
  <2>1. limits.total \in Int /\ spent = (limits.total <= 0)
    BY <1>1, <1>3
  <2>2. spent \in BOOLEAN
    BY <2>1
  <2>3. limits.total <= 0 => spent
    BY <2>1
  <2>4. spent => limits.total <= 0
    BY <2>1
  <2> QED BY <2>2, <2>3, <2>4
<1>4. /\ timers \subseteq TimerNames \X Int
      /\ \A timer \in timers :
            /\ timer[1] = "phase-timeout" => timer[2] = 0 + PhaseLimit(stage)
            /\ timer[1] = "total-timeout" => timer[2] = limits.total
      /\ \A one, other \in timers : one[1] = other[1] => one = other
      /\ 0 + PhaseLimit(stage) > now => <<"phase-timeout", 0 + PhaseLimit(stage)>> \in timers
      /\ limits.total > now => <<"total-timeout", limits.total>> \in timers
  BY <1>1, <1>2, <1>3, ScheduledTimers
<1>5. TimeoutsTypeOK
  <2>1. timers \subseteq TimerNames \X Int
    BY <1>4
  <2>2. warned \subseteq TimerNames /\ abortedBy \subseteq TimerNames \X Stages \X Int
    BY <1>1
  <2>3. now \in Nat /\ phaseStart \in Nat /\ aborted \in BOOLEAN
    BY <1>1
  <2> QED BY <1>1, <1>2, <1>9, <2>1, <2>2, <2>3 DEF TimeoutsTypeOK
<1>6. Armed
  BY <1>1, <1>3, <1>4, <1>9 DEF Armed
<1>7. TimeoutsSound
  BY <1>1, <1>6 DEF TimeoutsSound, Justified
<1>8. \A timer \in timers : timer[1] \notin Warnings =>
           timer[1] = "phase-timeout" \/ timer[1] = "total-timeout"
  BY <1>4 DEF Warnings, TimerNames
<1> QED BY <1>1, <1>3, <1>4, <1>5, <1>7, <1>8 DEF TimersInv, DueAt

\* The state of the timeouts keeps its shapes.
THEOREM TimeoutsTyped == TimeoutsSpec => []TimeoutsTypeOK
<1>1. TimersInv => TimeoutsTypeOK
  BY DEF TimersInv
<1> QED BY <1>1, TimersStart, TimersKept, PTL DEF TimeoutsSpec

\* The timeouts of a run stay armed and justified over its phases, whatever its
\* limits and however late its timers fire.
THEOREM TimeoutsAreSound == TimeoutsSpec => []TimeoutsSound
<1>1. TimersInv => TimeoutsSound
  BY DEF TimersInv
<1> QED BY <1>1, TimersStart, TimersKept, PTL DEF TimeoutsSpec

-----------------------------------------------------------------------------
(* Worktrees *)

WtPcs     == {"idle", "checked", "load", "write", "writing", "active", "remove"}
InFile    == {"write", "writing"}
OutOfFile == {"idle", "checked", "active", "remove"}

\* A step keeps the types.
LEMMA WorktreesTypesKept ==
  ASSUME WorktreesTypeOK, [WorktreesNext]_wtVars PROVE WorktreesTypeOK'
<1> USE WorktreesAssumption DEF WorktreesTypeOK
<1>1. ASSUME NEW t \in WtTask, CheckWorktrees(t) \/ GitAdd(t) PROVE WorktreesTypeOK'
  BY <1>1 DEF CheckWorktrees, GitAdd, WtFault
<1>2. ASSUME NEW t \in WtTask, LoadMetadata(t) PROVE WorktreesTypeOK'
  <2>1. Edited(t) \in SUBSET WtTask
    BY DEF Edited, Listed
  <2> QED BY <1>2, <2>1 DEF LoadMetadata
<1>3. ASSUME NEW t \in WtTask, OpenMetadata(t) PROVE WorktreesTypeOK'
  BY <1>3 DEF OpenMetadata, WtFault
<1>4. ASSUME NEW t \in WtTask, WriteMetadata(t) PROVE WorktreesTypeOK'
  BY <1>4 DEF WriteMetadata
<1>5. ASSUME NEW t \in WtTask, NEW success \in BOOLEAN, TaskEndsInWorktree(t, success)
      PROVE  WorktreesTypeOK'
  BY <1>5 DEF TaskEndsInWorktree
<1>6. ASSUME NEW t \in WtTask, GitRemove(t) PROVE WorktreesTypeOK'
  BY <1>6 DEF GitRemove, WtFault
<1>7. CASE RestartWorktrees
  BY <1>7 DEF RestartWorktrees
<1>8. CASE UNCHANGED wtVars
  BY <1>8 DEF wtVars
<1> QED BY <1>1, <1>2, <1>3, <1>4, <1>5, <1>6, <1>7, <1>8 DEF WorktreesNext

\* The state of the worktrees keeps its shapes.
THEOREM WorktreesTyped == WorktreesSpec => []WorktreesTypeOK
<1>1. ASSUME WorktreesInit PROVE WorktreesTypeOK
  <2>1. [t \in WtTask |-> {}] \in [WtTask -> SUBSET WtTask]
    OBVIOUS
  <2> QED BY <1>1, <2>1 DEF WorktreesInit, WorktreesTypeOK
<1> QED BY <1>1, WorktreesTypesKept, PTL DEF WorktreesSpec

\* The worktrees of a repository that count or will count: on the disk, or let
\* through and not yet added.
Claimed(A) == {t \in A : t \in wtDisk \/ wtPc[t] = "checked"}
AtWork     == {t \in WtTask : wtPc[t] # "idle"}

\* What passed the limit was let through beside others, of which the queue has no
\* more than its slots.
WtLimitInv ==
  /\ WorktreesTypeOK
  /\ Cardinality(AtWork) <= WtSlots
  /\ \A t \in WtTask : Cardinality(Claimed(Alongside(t))) <= MaxWorktrees - 1 + WtSlots

\* Sizes of the sets counted.
LEMMA WtSizes ==
  ASSUME NEW S \in SUBSET WtTask
  PROVE  /\ IsFiniteSet(S) /\ Cardinality(S) \in Nat
         /\ \A T \in SUBSET S : Cardinality(T) <= Cardinality(S)
         /\ \A t \in WtTask : Cardinality(S \cup {t}) <= Cardinality(S) + 1
         /\ \A T \in SUBSET WtTask : Cardinality(S \cup T) <= Cardinality(S) + Cardinality(T)
<1>1. IsFiniteSet(S) /\ Cardinality(S) \in Nat
  BY WorktreesAssumption, FS_Subset, FS_CardinalityType
<1>2. ASSUME NEW T \in SUBSET WtTask
      PROVE  Cardinality(S \cup T) <= Cardinality(S) + Cardinality(T)
  <2>1. IsFiniteSet(T) /\ IsFiniteSet(S \cap T)
    BY WorktreesAssumption, FS_Subset
  <2>2. Cardinality(T) \in Nat /\ Cardinality(S \cap T) \in Nat
    BY <2>1, FS_CardinalityType
  <2>3. Cardinality(S \cup T) = Cardinality(S) + Cardinality(T) - Cardinality(S \cap T)
    BY <1>1, <2>1, FS_Union
  <2> QED BY <1>1, <2>2, <2>3
<1> QED BY <1>1, <1>2, FS_Subset, FS_AddElement

\* A step lets no more worktrees through than the limit and the slots allow.
LEMMA WtLimitKept ==
  ASSUME WtLimitInv, WorktreesTypeOK', [WorktreesNext]_wtVars PROVE WtLimitInv'
<1> USE WorktreesAssumption DEF WtLimitInv
<1>0. /\ \A u \in WtTask : Alongside(u) \in SUBSET WtTask /\ Alongside(u)' = Alongside(u)
      /\ \A u \in WtTask : Claimed(Alongside(u)) \in SUBSET WtTask
      /\ AtWork \in SUBSET WtTask
  BY DEF Alongside, Claimed, AtWork
<1>1. ASSUME AtWork' \subseteq AtWork,
             \A u \in WtTask : Claimed(Alongside(u))' \subseteq Claimed(Alongside(u))
      PROVE  WtLimitInv'
  <2>1. Cardinality(AtWork') <= Cardinality(AtWork) /\ Cardinality(AtWork') \in Nat
    BY <1>0, <1>1, WtSizes
  <2>2. ASSUME NEW u \in WtTask
        PROVE  Cardinality(Claimed(Alongside(u))') <= MaxWorktrees - 1 + WtSlots
    <3>1. Cardinality(Claimed(Alongside(u))') <= Cardinality(Claimed(Alongside(u)))
      BY <1>0, <1>1, WtSizes
    <3>2. Cardinality(Claimed(Alongside(u))') \in Nat
      BY <1>0, <1>1, WtSizes
    <3> QED BY <1>0, <3>1, <3>2, WtSizes
  <2>3. Cardinality(AtWork)' <= WtSlots
    BY <1>0, <2>1, WtSizes
  <2> QED BY <1>0, <2>2, <2>3
<1>2. ASSUME NEW t \in WtTask, CheckWorktrees(t) PROVE WtLimitInv'
  <2>1. /\ wtPc[t] = "idle" /\ wtPc' = [wtPc EXCEPT ![t] = "checked"] /\ wtDisk' = wtDisk
        /\ Cardinality(AtWork) < WtSlots
        /\ Cardinality(wtDisk \cap Alongside(t)) < MaxWorktrees
    BY <1>2 DEF CheckWorktrees, AtWork, WtRoom
  <2>2. AtWork' = AtWork \cup {t}
    BY <2>1 DEF AtWork, WorktreesTypeOK
  <2>3. Cardinality(AtWork') <= WtSlots
    BY <1>0, <2>1, <2>2, WtSizes
  <2>4. ASSUME NEW u \in WtTask
        PROVE  Cardinality(Claimed(Alongside(u))') <= MaxWorktrees - 1 + WtSlots
    <3>1. CASE t \notin Alongside(u)
      <4>1. Claimed(Alongside(u))' = Claimed(Alongside(u))
        BY <1>0, <2>1, <3>1 DEF Claimed, WorktreesTypeOK
      <4> QED BY <4>1
    <3>2. CASE t \in Alongside(u)
      <4>1. Alongside(u) = Alongside(t)
        BY <3>2 DEF Alongside
      <4> DEFINE D == wtDisk \cap Alongside(t)
      <4>2. Claimed(Alongside(u))' \subseteq D \cup AtWork'
        BY <1>0, <2>1, <4>1 DEF Claimed, AtWork, WorktreesTypeOK
      <4>3. D \in SUBSET WtTask /\ AtWork' \in SUBSET WtTask
        BY <1>0, <2>2
      <4>4. Cardinality(D \cup AtWork') <= Cardinality(D) + Cardinality(AtWork')
        BY <4>3, WtSizes
      <4>5. Cardinality(Claimed(Alongside(u))') <= Cardinality(D \cup AtWork')
        <5>1. D \cup AtWork' \in SUBSET WtTask
          BY <4>3
        <5> QED BY <4>2, <5>1, WtSizes
      <4>6. Cardinality(D) \in Nat /\ Cardinality(D \cup AtWork') \in Nat
            /\ Cardinality(AtWork') \in Nat /\ Cardinality(Claimed(Alongside(u))') \in Nat
        <5>1. D \cup AtWork' \in SUBSET WtTask /\ Claimed(Alongside(u))' \in SUBSET WtTask
          BY <4>2, <4>3
        <5> QED BY <4>3, <5>1, WtSizes
      <4>7. Cardinality(D) <= MaxWorktrees - 1
        BY <2>1, <4>6
      <4> HIDE DEF D
      <4> QED BY <2>3, <4>4, <4>5, <4>6, <4>7
    <3> QED BY <3>1, <3>2
  <2> QED BY <1>0, <2>3, <2>4
<1>3. ASSUME NEW t \in WtTask, GitAdd(t) PROVE WtLimitInv'
  <2>1. /\ wtPc[t] = "checked" /\ wtPc' \in [WtTask -> WtPcs]
        /\ \A u \in WtTask \ {t} : wtPc'[u] = wtPc[u]
        /\ wtDisk' \subseteq wtDisk \cup {t}
    BY <1>3 DEF GitAdd, WorktreesTypeOK, WtPcs
  <2>2. AtWork' \subseteq AtWork
    BY <2>1 DEF AtWork
  <2>3. wtPc'[t] # "checked"
    BY <1>3 DEF GitAdd, WorktreesTypeOK
  <2>4. \A u \in WtTask : Claimed(Alongside(u))' \subseteq Claimed(Alongside(u))
    BY <1>0, <2>1, <2>3 DEF Claimed
  <2> QED BY <1>1, <2>2, <2>4
<1>4. ASSUME NEW t \in WtTask, NEW success \in BOOLEAN,
             \/ LoadMetadata(t) \/ OpenMetadata(t) \/ WriteMetadata(t)
             \/ TaskEndsInWorktree(t, success) \/ GitRemove(t)
      PROVE  WtLimitInv'
  <2>1. /\ wtPc[t] \in WtPcs \ {"idle"} /\ wtPc'[t] # "checked" /\ wtDisk' \subseteq wtDisk
        /\ \A u \in WtTask \ {t} : wtPc'[u] = wtPc[u]
    BY <1>4 DEF LoadMetadata, OpenMetadata, WriteMetadata, TaskEndsInWorktree, GitRemove,
                WorktreesTypeOK, WtPcs
  <2>2. AtWork' \subseteq AtWork
    BY <2>1 DEF AtWork
  <2>3. \A u \in WtTask : Claimed(Alongside(u))' \subseteq Claimed(Alongside(u))
    BY <1>0, <2>1 DEF Claimed
  <2> QED BY <1>1, <2>2, <2>3
<1>5. CASE RestartWorktrees
  <2>1. AtWork' \subseteq AtWork
        /\ \A u \in WtTask : Claimed(Alongside(u))' \subseteq Claimed(Alongside(u))
    BY <1>0, <1>5 DEF RestartWorktrees, AtWork, Claimed
  <2> QED BY <1>1, <2>1
<1>6. CASE UNCHANGED wtVars
  <2>1. AtWork' \subseteq AtWork
        /\ \A u \in WtTask : Claimed(Alongside(u))' \subseteq Claimed(Alongside(u))
    BY <1>0, <1>6 DEF wtVars, AtWork, Claimed
  <2> QED BY <1>1, <2>1
<1> QED BY <1>2, <1>3, <1>4, <1>5, <1>6 DEF WorktreesNext

\* A file that has not been garbled says of t whether its worktree exists.
Says(file, t) == t \in file <=> t \in wtDisk

\* While no two tasks have the file in hand, the one that has it knows what is on
\* the disk, and so does the file; a task that will remove its worktree finds it.
FileTrue ==
  /\ \A t \in wtDisk : wtPc[t] \in {"idle", "checked"} => t \in KeepTask
  /\ \A t, u \in WtTask : wtPc[t] \in InFile /\ wtPc[u] \in InFile => t = u
  /\ metadata = Garbled <=> \E t \in WtTask : wtPc[t] = "writing"
  /\ \A t \in WtTask : wtPc[t] = "remove" => t \in wtKnown
  /\ metadata # Garbled => \A t \in WtTask : wtPc[t] \in OutOfFile => Says(metadata, t)
  /\ \A t \in WtTask : wtPc[t] \in InFile =>
       \A u \in WtTask : u = t \/ wtPc[u] \in OutOfFile => Says(wtSnapshot[t], u)

AccountInv ==
  /\ WorktreesTypeOK
  /\ \A t \in WtTask : wtPc[t] \in {"active", "remove"} => t \in wtDisk
  /\ wtFaults = 0 /\ wtCrashes = 0 =>
       /\ \A t \in wtDisk \cap HomeTask : wtPc[t] \in {"idle", "checked"} => t \in KeepTask
       /\ ~ wtRaced => FileTrue

\* A step keeps the account of the worktrees.
LEMMA AccountKept ==
  ASSUME AccountInv, WorktreesTypeOK', [WorktreesNext]_wtVars PROVE AccountInv'
<1> USE WorktreesAssumption DEF AccountInv
<1>1. ASSUME NEW t \in WtTask, CheckWorktrees(t) PROVE AccountInv'
  <2>1. /\ wtPc[t] = "idle" /\ wtPc'[t] = "checked"
        /\ \A u \in WtTask \ {t} : wtPc'[u] = wtPc[u]
        /\ UNCHANGED <<wtDisk, metadata, wtSnapshot, wtKnown, wtRaced, wtFaults, wtCrashes>>
    BY <1>1 DEF CheckWorktrees, WorktreesTypeOK
  <2>2. FileTrue => FileTrue'
    BY <2>1 DEF FileTrue, InFile, OutOfFile, Says, WorktreesTypeOK
  <2> QED BY <2>1, <2>2 DEF WorktreesTypeOK
<1>2. ASSUME NEW t \in WtTask, GitAdd(t) PROVE AccountInv'
  <2>1. /\ wtPc[t] = "checked"
        /\ \A u \in WtTask \ {t} : wtPc'[u] = wtPc[u]
        /\ UNCHANGED <<metadata, wtSnapshot, wtKnown, wtRaced, wtCrashes>>
    BY <1>2 DEF GitAdd, WorktreesTypeOK
  <2>2. CASE wtPc'[t] = "load" /\ wtDisk' = wtDisk \cup {t} /\ wtFaults' = wtFaults
    <3>1. FileTrue => FileTrue'
      BY <2>1, <2>2 DEF FileTrue, InFile, OutOfFile, Says, WorktreesTypeOK
    <3> QED BY <2>1, <2>2, <3>1 DEF WorktreesTypeOK
  <2>3. CASE wtPc'[t] = "idle" /\ wtDisk' = wtDisk /\ wtFaults' = wtFaults
    <3>1. FileTrue => FileTrue'
      BY <2>1, <2>3 DEF FileTrue, InFile, OutOfFile, Says, WorktreesTypeOK
    <3> QED BY <2>1, <2>3, <3>1 DEF WorktreesTypeOK
  <2>4. CASE wtPc'[t] = "idle" /\ wtDisk' = wtDisk /\ wtFaults' = wtFaults + 1
    BY <2>1, <2>4 DEF WorktreesTypeOK
  <2> QED BY <1>2, <2>2, <2>3, <2>4 DEF GitAdd, WtFault, WorktreesTypeOK
<1>3. ASSUME NEW t \in WtTask, LoadMetadata(t) PROVE AccountInv'
  <2>1. /\ wtPc[t] = "load" /\ wtPc'[t] = "write"
        /\ \A u \in WtTask \ {t} : wtPc'[u] = wtPc[u] /\ wtSnapshot'[u] = wtSnapshot[u]
        /\ wtSnapshot'[t] = Edited(t)
        /\ UNCHANGED <<wtDisk, metadata, wtKnown, wtFaults, wtCrashes>>
    BY <1>3 DEF LoadMetadata, WorktreesTypeOK
  <2>3. ~ wtRaced' => ~ wtRaced /\ \A u \in WtTask : wtPc[u] \notin InFile
    BY <1>3 DEF LoadMetadata, InFile
  <2>2. ASSUME ~ wtRaced', FileTrue PROVE FileTrue'
    <3>1. metadata # Garbled /\ \A u \in WtTask : wtPc[u] \notin InFile
      BY <2>2, <2>3 DEF FileTrue, InFile
    <3>2. \A u \in WtTask : u = t \/ wtPc[u] \in OutOfFile => Says(Edited(t), u)
      BY <2>2, <3>1 DEF FileTrue, Says, Edited, Listed
    <3>3. /\ \A u \in WtTask \ {t} : wtPc'[u] \notin InFile
          /\ \A u \in WtTask : wtPc'[u] # "write" => u # t /\ wtPc'[u] = wtPc[u]
      BY <2>1, <3>1
    <3>5. \A t1 \in wtDisk' : wtPc'[t1] \in {"idle", "checked"} => t1 \in KeepTask
      BY <2>1, <2>2, <3>3 DEF FileTrue, WorktreesTypeOK
    <3>6. /\ metadata' # Garbled /\ \A u \in WtTask : wtPc'[u] # "writing"
          /\ \A u \in WtTask : wtPc'[u] = "remove" => u \in wtKnown'
      BY <2>1, <2>2, <3>1, <3>3 DEF FileTrue, InFile
    <3>7. \A u \in WtTask : wtPc'[u] \in OutOfFile => (u \in metadata' <=> u \in wtDisk')
      BY <2>1, <2>2, <3>1, <3>3 DEF FileTrue, OutOfFile, Says
    <3>8. \A u \in WtTask : u = t \/ wtPc'[u] \in OutOfFile =>
            (u \in wtSnapshot'[t] <=> u \in wtDisk')
      BY <2>1, <3>2, <3>3 DEF OutOfFile, Says
    <3> QED BY <3>3, <3>5, <3>6, <3>7, <3>8 DEF FileTrue, Says
  <2> QED BY <2>1, <2>2, <2>3 DEF WorktreesTypeOK
<1>4. ASSUME NEW t \in WtTask, OpenMetadata(t) PROVE AccountInv'
  <2>1. /\ wtPc[t] = "write"
        /\ \A u \in WtTask \ {t} : wtPc'[u] = wtPc[u]
        /\ UNCHANGED <<wtDisk, wtKnown, wtRaced, wtCrashes>>
    BY <1>4 DEF OpenMetadata, WorktreesTypeOK
  <2>2. CASE /\ wtPc'[t] = "writing" /\ metadata' = Garbled
             /\ UNCHANGED <<wtSnapshot, wtFaults>>
    <3>1. FileTrue => FileTrue'
      BY <2>1, <2>2 DEF FileTrue, InFile, OutOfFile, Says, WorktreesTypeOK
    <3> QED BY <2>1, <2>2, <3>1 DEF WorktreesTypeOK
  <2>3. CASE wtPc'[t] = "idle" /\ wtFaults' = wtFaults + 1
    BY <2>1, <2>3 DEF WorktreesTypeOK
  <2> QED BY <1>4, <2>2, <2>3 DEF OpenMetadata, WtFault, WorktreesTypeOK
<1>5. ASSUME NEW t \in WtTask, WriteMetadata(t) PROVE AccountInv'
  <2>1. /\ wtPc[t] = "writing" /\ wtPc'[t] = IF t \in wtDisk THEN "active" ELSE "idle"
        /\ \A u \in WtTask \ {t} : wtPc'[u] = wtPc[u] /\ wtSnapshot'[u] = wtSnapshot[u]
        /\ UNCHANGED <<wtDisk, wtKnown, wtRaced, wtFaults, wtCrashes>>
    BY <1>5 DEF WriteMetadata, WorktreesTypeOK
  <2>2. ASSUME FileTrue PROVE FileTrue'
    <3>1. metadata = Garbled /\ \A u \in WtTask \ {t} : wtPc[u] \notin InFile
      BY <2>1, <2>2 DEF FileTrue, InFile
    <3>2. metadata' = wtSnapshot[t]
      BY <1>5, <3>1 DEF WriteMetadata, InFile
    <3>3. metadata' # Garbled
      BY <3>2 DEF WorktreesTypeOK
    <3>4. \A u \in WtTask : wtPc'[u] \notin InFile
      BY <2>1, <3>1 DEF InFile
    <3>5. \A u \in WtTask : wtPc'[u] \in OutOfFile => Says(wtSnapshot[t], u)
      BY <2>1, <2>2 DEF FileTrue, InFile
    <3>6. \A u \in wtDisk' : wtPc'[u] \in {"idle", "checked"} => u \in KeepTask
      BY <2>1, <2>2 DEF FileTrue, WorktreesTypeOK
    <3>7. \A u \in WtTask : wtPc'[u] = "remove" => u \in wtKnown'
      BY <2>1, <2>2 DEF FileTrue
    <3>8. \A u \in WtTask : wtPc'[u] \in OutOfFile => (u \in metadata' <=> u \in wtDisk')
      BY <2>1, <3>2, <3>5 DEF Says
    <3> QED BY <3>3, <3>4, <3>6, <3>7, <3>8 DEF FileTrue, InFile, Says
  <2> QED BY <2>1, <2>2 DEF WorktreesTypeOK
<1>6. ASSUME NEW t \in WtTask, NEW success \in BOOLEAN, TaskEndsInWorktree(t, success)
      PROVE  AccountInv'
  <2>1. /\ wtPc[t] = "active" /\ t \in wtDisk
        /\ \A u \in WtTask \ {t} : /\ wtPc'[u] = wtPc[u]
                                   /\ u \in wtKnown' <=> u \in wtKnown
        /\ UNCHANGED <<wtDisk, metadata, wtSnapshot, wtFaults, wtCrashes>>
    BY <1>6 DEF TaskEndsInWorktree, WorktreesTypeOK
  <2>2. CASE t \in KeepTask
    <3>1. wtPc'[t] = "idle" /\ UNCHANGED <<wtKnown, wtRaced>>
      BY <1>6, <2>2 DEF TaskEndsInWorktree, CleansUp, WorktreesTypeOK
    <3>2. FileTrue => FileTrue'
      BY <2>1, <2>2, <3>1 DEF FileTrue, InFile, OutOfFile, Says, WorktreesTypeOK
    <3> QED BY <2>1, <2>2, <3>1, <3>2 DEF WorktreesTypeOK
  <2>3. CASE t \notin KeepTask
    <3>1. /\ wtPc'[t] = "remove" /\ (t \in Listed => t \in wtKnown')
          /\ ~ wtRaced' => ~ wtRaced /\ \A u \in WtTask : wtPc[u] # "writing"
      BY <1>6, <2>3 DEF TaskEndsInWorktree, CleansUp, WorktreesTypeOK
    <3>2. ASSUME ~ wtRaced', FileTrue PROVE FileTrue'
      <4>1. metadata # Garbled
        BY <3>1, <3>2 DEF FileTrue
      <4>2. t \in wtKnown'
        BY <2>1, <3>1, <3>2, <4>1 DEF FileTrue, OutOfFile, Says, Listed
      <4> QED BY <2>1, <3>1, <3>2, <4>1, <4>2
              DEF FileTrue, InFile, OutOfFile, Says, WorktreesTypeOK
    <3> QED BY <2>1, <3>1, <3>2 DEF WorktreesTypeOK
  <2> QED BY <2>2, <2>3
<1>7. ASSUME NEW t \in WtTask, GitRemove(t) PROVE AccountInv'
  <2>1. /\ wtPc[t] = "remove"
        /\ \A u \in WtTask \ {t} : wtPc'[u] = wtPc[u]
        /\ UNCHANGED <<metadata, wtSnapshot, wtKnown, wtRaced, wtCrashes>>
    BY <1>7 DEF GitRemove, WorktreesTypeOK
  <2>2. CASE /\ wtDisk' = wtDisk \ {t} /\ wtFaults' = wtFaults
             /\ wtPc'[t] = IF t \in wtKnown THEN "load" ELSE "idle"
    <3>1. ASSUME FileTrue PROVE FileTrue'
      <4>1. wtPc'[t] = "load"
        BY <2>1, <2>2, <3>1 DEF FileTrue
      <4>2. \A u \in WtTask \ {t} : u \in wtDisk' <=> u \in wtDisk
        BY <2>2
      <4>3. \A u \in WtTask : wtPc'[u] \in InFile => wtPc[u] = wtPc'[u] /\ u # t
        BY <2>1, <4>1 DEF InFile
      <4>4. \A u \in WtTask : wtPc'[u] \in OutOfFile => wtPc[u] = wtPc'[u] /\ u # t
        BY <2>1, <4>1 DEF OutOfFile
      <4> QED BY <2>1, <2>2, <3>1, <4>1, <4>2, <4>3, <4>4
              DEF FileTrue, InFile, OutOfFile, Says, WorktreesTypeOK
    <3> QED BY <2>1, <2>2, <3>1 DEF WorktreesTypeOK
  <2>3. CASE wtPc'[t] = "idle" /\ wtDisk' = wtDisk /\ t \notin wtKnown \cup HomeTask
             /\ wtFaults' = wtFaults
    <3>1. ~ FileTrue
      BY <2>1, <2>3 DEF FileTrue
    <3> QED BY <2>1, <2>3, <3>1 DEF WorktreesTypeOK
  <2>4. CASE wtPc'[t] = "idle" /\ wtDisk' = wtDisk /\ wtFaults' = wtFaults + 1
    BY <2>1, <2>4 DEF WorktreesTypeOK
  <2> QED BY <1>7, <2>2, <2>3, <2>4 DEF GitRemove, WtFault, WorktreesTypeOK
<1>8. CASE RestartWorktrees
  <2>1. wtCrashes' # 0 /\ \A t \in WtTask : wtPc'[t] = "idle"
    BY <1>8 DEF RestartWorktrees, WorktreesTypeOK
  <2> QED BY <2>1
<1>9. CASE UNCHANGED wtVars
  BY <1>9 DEF wtVars, FileTrue, Says
<1> QED BY <1>1, <1>2, <1>3, <1>4, <1>5, <1>6, <1>7, <1>8, <1>9 DEF WorktreesNext

\* No more worktrees are on the disk than the limit and the slots of the queue allow,
\* and, while nothing failed and nobody raced, none that is listed nowhere or that
\* nobody will remove; a race loses none of the server's own repository.
THEOREM WorktreesAreSound == WorktreesSpec => []WorktreesSound
<1>1. WorktreesInit => WtLimitInv /\ AccountInv
  <2> SUFFICES ASSUME WorktreesInit PROVE WtLimitInv /\ AccountInv
    OBVIOUS
  <2>1. WorktreesTypeOK
    <3>1. [t \in WtTask |-> {}] \in [WtTask -> SUBSET WtTask]
      OBVIOUS
    <3> QED BY <3>1 DEF WorktreesInit, WorktreesTypeOK
  <2>2. AtWork = {} /\ \A A \in SUBSET WtTask : Claimed(A) = {}
    BY DEF WorktreesInit, AtWork, Claimed
  <2>3. \A t \in WtTask : Claimed(Alongside(t)) = {}
    BY <2>2, WorktreesAssumption DEF Alongside
  <2>4. FileTrue
    BY WorktreesAssumption DEF WorktreesInit, FileTrue, InFile, Says
  <2> QED BY <2>1, <2>2, <2>3, <2>4, FS_EmptySet, WorktreesAssumption
          DEF WtLimitInv, AccountInv, WorktreesInit
<1>2. WtLimitInv /\ AccountInv /\ [WorktreesNext]_wtVars => (WtLimitInv /\ AccountInv)'
  BY WorktreesTypesKept, WtLimitKept, AccountKept DEF WtLimitInv
<1>3. WtLimitInv /\ AccountInv => WorktreesSound
  <2> SUFFICES ASSUME WtLimitInv, AccountInv PROVE WorktreesSound
    OBVIOUS
  <2>1. ASSUME NEW t \in WtTask
        PROVE  Cardinality(wtDisk \cap Alongside(t)) <= MaxWorktrees - 1 + WtSlots
    <3>1. /\ wtDisk \cap Alongside(t) \subseteq Claimed(Alongside(t))
          /\ Claimed(Alongside(t)) \in SUBSET WtTask
      BY WorktreesAssumption DEF Claimed, Alongside
    <3>2. Cardinality(wtDisk \cap Alongside(t)) <= Cardinality(Claimed(Alongside(t)))
      BY <3>1, WtSizes
    <3>3. Cardinality(Claimed(Alongside(t))) \in Nat
          /\ Cardinality(wtDisk \cap Alongside(t)) \in Nat
      BY <3>1, WtSizes
    <3> QED BY <3>2, <3>3, WorktreesAssumption DEF WtLimitInv
  <2>2. WorktreesAccounted
    BY WorktreesAssumption DEF AccountInv, FileTrue, OutOfFile, Says, WorktreesAccounted
  <2> QED BY <2>1, <2>2 DEF WorktreesSound, WorktreeLimit
<1> QED BY <1>1, <1>2, <1>3, PTL DEF WorktreesSpec

-----------------------------------------------------------------------------
(* The log stream *)

\* Messages are told apart by their first component, and those of two tasks by the
\* second.
LEMMA MessagesDiffer ==
  /\ \A t, u : /\ Subscribe(t) = Subscribe(u) => t = u
               /\ Unsubscribe(t) = Unsubscribe(u) => t = u
               /\ Subscribe(t) # Unsubscribe(u)
  /\ \A t : Subscribe(t) # Auth /\ Unsubscribe(t) # Auth
  /\ Auth \in Message
  /\ \A t \in Watchable \cup {AllTasks} : Subscribe(t) \in Message
  /\ \A t \in Watchable : Unsubscribe(t) \in Message
  /\ \A message \in Message :
       \/ message = Auth
       \/ /\ message # Auth /\ message[1] = "subscribe" /\ message[2] \in Watchable \cup {AllTasks}
          /\ message = Subscribe(message[2])
       \/ /\ message # Auth /\ message[1] = "unsubscribe" /\ message[2] \in Watchable
          /\ message = Unsubscribe(message[2])
<1>1. \A t : Subscribe(t)[1] = "subscribe" /\ Subscribe(t)[2] = t
  BY DEF Subscribe
<1>2. \A t : Unsubscribe(t)[1] = "unsubscribe" /\ Unsubscribe(t)[2] = t
  BY DEF Unsubscribe
<1>3. Auth[1] = "auth"
  BY DEF Auth
<1>4. "auth" # "subscribe" /\ "auth" # "unsubscribe" /\ "subscribe" # "unsubscribe"
  OBVIOUS
<1> QED BY <1>1, <1>2, <1>3, <1>4 DEF Message

\* What is sent is made of messages.
LEMMA SentIsMessages ==
  ASSUME LogStreamTypeOK
  PROVE  /\ HookTornDown \in Seq(Message) /\ Resubscribed \in Seq(Message)
         /\ SentOnSuccess \in Seq(Message)
         /\ \A messages \in Seq(Message) :
              Queued(messages) \in Seq(Message) /\ Len(Queued(messages)) <= MaxQueueSize
<1>1. HookTornDown \in Seq(Message)
  BY MessagesDiffer DEF HookTornDown, LogStreamTypeOK
<1>2. Resubscribed \in Seq(Message)
  <2>1. (IF shown = NoTask THEN <<>> ELSE <<Subscribe(shown)>>) \in Seq(Message)
    BY MessagesDiffer DEF LogStreamTypeOK
  <2>2. (IF starHandler THEN <<Subscribe(AllTasks)>> ELSE <<>>) \in Seq(Message)
    BY MessagesDiffer
  <2> QED BY <2>1, <2>2 DEF Resubscribed
<1>3. SentOnSuccess \in Seq(Message)
  BY <1>2 DEF SentOnSuccess, LogStreamTypeOK
<1>4. ASSUME NEW messages \in Seq(Message)
      PROVE  Queued(messages) \in Seq(Message) /\ Len(Queued(messages)) <= MaxQueueSize
  <2> DEFINE all == messageQueue \o messages
  <2>1. all \in Seq(Message) /\ Len(all) \in Nat
    BY DEF LogStreamTypeOK
  <2>2. CASE Len(all) <= MaxQueueSize
    BY <2>1, <2>2 DEF Queued
  <2>3. CASE ~ (Len(all) <= MaxQueueSize)
    <3>1. Queued(messages) = SubSeq(all, 1, MaxQueueSize)
      BY <2>3 DEF Queued
    <3>2. \A i \in 1 .. MaxQueueSize : all[i] \in Message
      BY <2>1, <2>3, LogStreamAssumption
    <3> HIDE DEF all
    <3> QED BY <3>1, <3>2, SubSeqProperties, LogStreamAssumption
  <2> QED BY <2>2, <2>3
<1> QED BY <1>1, <1>2, <1>3, <1>4

\* Sending keeps the types.
LEMMA SendTyped ==
  ASSUME LogStreamTypeOK, NEW messages \in Seq(Message)
  PROVE  /\ \A l \in Link : Posted(l, messages) \in [Link -> Seq(Message)]
         /\ Send(messages) =>
              /\ toServer' \in [Link -> Seq(Message)]
              /\ messageQueue' \in Seq(Message) /\ Len(messageQueue') <= MaxQueueSize
<1>1. \A l \in Link : Posted(l, messages) \in [Link -> Seq(Message)]
  BY DEF Posted, LogStreamTypeOK
<1> QED BY <1>1, SentIsMessages DEF Send, LogStreamTypeOK

\* The types of the page, of the server, of the connections and of the rest.
PageTyped ==
  /\ current \in Link \cup {NoLink}
  /\ connected \in BOOLEAN /\ isAuthenticated \in BOOLEAN /\ authenticating \in BOOLEAN
  /\ reconnectTimer \in BOOLEAN /\ starHandler \in BOOLEAN
  /\ reconnectAttempts \in 0 .. MaxReconnectAttempts
  /\ messageQueue \in Seq(Message) /\ Len(messageQueue) <= MaxQueueSize
  /\ shown \in Watchable \cup {NoTask}
ServerTyped ==
  /\ serverEnd \in [Link -> {"none", "open", "closing", "closed"}]
  /\ clients \subseteq Link /\ authenticated \subseteq Link /\ authTimeout \subseteq Link
  /\ subscriptions \in [Link -> SUBSET (Watchable \cup {AllTasks})]
NetworkTyped ==
  /\ pageEnd \in [Link -> {"none", "connecting", "open", "clean", "unclean", "over"}]
  /\ dead \subseteq Link
  /\ toServer \in [Link -> Seq(Message)] /\ successes \in [Link -> Nat]
RestTyped ==
  /\ keyGood \in BOOLEAN /\ gaveUp \in BOOLEAN
  /\ opened \in Nat /\ connects \in Nat /\ shows \in Nat /\ wsFaults \in Nat

\* A step keeps the types.
LEMMA LogStreamTypesKept ==
  ASSUME LogStreamTypeOK, [LogStreamNext]_wsVars PROVE LogStreamTypeOK'
<1> USE LogStreamAssumption DEF wsPage, wsServer, wsNetwork, wsRest
<1>0. PageTyped /\ ServerTyped /\ NetworkTyped /\ RestTyped
  BY DEF LogStreamTypeOK, PageTyped, ServerTyped, NetworkTyped, RestTyped
<1>a. SUFFICES PageTyped' /\ ServerTyped' /\ NetworkTyped' /\ RestTyped'
  BY DEF LogStreamTypeOK, PageTyped, ServerTyped, NetworkTyped, RestTyped
<1>b. /\ UNCHANGED wsPage => PageTyped'
      /\ UNCHANGED wsServer => ServerTyped'
      /\ UNCHANGED wsNetwork => NetworkTyped'
      /\ UNCHANGED wsRest => RestTyped'
  BY <1>0 DEF PageTyped, ServerTyped, NetworkTyped, RestTyped
<1>c. ASSUME UNCHANGED <<keyGood, gaveUp, opened, connects, shows>>,
             wsFaults' \in {wsFaults, wsFaults + 1}
      PROVE  RestTyped'
  BY <1>0, <1>c DEF RestTyped
<1>d. <<>> \in Seq(Message) /\ Len(<<>>) = 0 /\ 0 \in 0 .. MaxReconnectAttempts
      /\ 0 <= MaxQueueSize
  OBVIOUS
<1>1. ASSUME Connect \/ ReconnectFires
      PROVE  PageTyped' /\ ServerTyped' /\ NetworkTyped' /\ RestTyped'
  <2>1. ConnectNow /\ connects' \in {connects, connects + 1}
        /\ UNCHANGED <<authenticating, shown, starHandler, wsServer,
                       dead, toServer, successes, keyGood, shows, wsFaults>>
    BY <1>1 DEF Connect, ReconnectFires
  <2>2. CASE AlreadyConnected
    <3>1. UNCHANGED <<current, connected, isAuthenticated, messageQueue,
                      reconnectTimer, reconnectAttempts, pageEnd, gaveUp, opened>>
      BY <2>1, <2>2 DEF ConnectNow
    <3> QED BY <1>0, <1>b, <2>1, <3>1 DEF RestTyped
  <2>3. CASE ~ AlreadyConnected
    <3>1. /\ opened < MaxLinks /\ opened' = opened + 1 /\ current' = opened + 1
          /\ pageEnd' = [pageEnd EXCEPT ![opened + 1] = "connecting"]
          /\ connected' = FALSE /\ isAuthenticated' = FALSE
          /\ reconnectTimer' = FALSE /\ reconnectAttempts' = 0
          /\ messageQueue' = Queued(HookTornDown) /\ gaveUp' = FALSE
      BY <2>1, <2>3 DEF ConnectNow, AttemptsAfterConnect
    <3>2. messageQueue' \in Seq(Message) /\ Len(messageQueue') <= MaxQueueSize
      BY <3>1, SentIsMessages
    <3>3. opened + 1 \in Link
      BY <1>0, <3>1 DEF Link, RestTyped
    <3>4. PageTyped'
      BY <1>0, <1>d, <2>1, <3>1, <3>2, <3>3 DEF PageTyped
    <3>5. NetworkTyped'
      BY <1>0, <2>1, <3>1, <3>3 DEF NetworkTyped
    <3>6. RestTyped'
      <4>1. opened' \in Nat /\ connects' \in Nat
        BY <1>0, <2>1, <3>1 DEF RestTyped
      <4>2. UNCHANGED <<keyGood, shows, wsFaults>> /\ gaveUp' = FALSE
        BY <2>1, <3>1
      <4> QED BY <1>0, <4>1, <4>2 DEF RestTyped
    <3> QED BY <1>b, <2>1, <3>4, <3>5, <3>6
  <2> QED BY <2>2, <2>3
<1>2. ASSUME NEW messages \in Seq(Message), Send(messages)
      PROVE  /\ toServer' \in [Link -> Seq(Message)]
             /\ messageQueue' \in Seq(Message) /\ Len(messageQueue') <= MaxQueueSize
  BY <1>2, SendTyped
<1>3. CASE Authenticate
  <2>1. <<Auth>> \in Seq(Message) /\ Send(<<Auth>>)
    BY <1>3, MessagesDiffer DEF Authenticate
  <2>2. PageTyped'
    BY <1>0, <1>2, <1>3, <2>1 DEF Authenticate, PageTyped
  <2>3. NetworkTyped'
    BY <1>0, <1>2, <1>3, <2>1 DEF Authenticate, NetworkTyped
  <2> QED BY <1>b, <1>3, <2>2, <2>3 DEF Authenticate
<1>4. CASE Leave
  <2>1. toServer' \in [Link -> Seq(Message)]
        /\ messageQueue' \in Seq(Message) /\ Len(messageQueue') <= MaxQueueSize
    <3>1. <<Unsubscribe(shown)>> \in Seq(Message)
      BY <1>0, <1>4, MessagesDiffer DEF Leave, PageTyped
    <3> QED BY <1>0, <1>2, <1>4, <3>1 DEF Leave, PageTyped, NetworkTyped
  <2>2. PageTyped'
    BY <1>0, <1>4, <2>1 DEF Leave, PageTyped
  <2>3. NetworkTyped'
    BY <1>0, <1>4, <2>1 DEF Leave, NetworkTyped
  <2> QED BY <1>b, <1>4, <2>2, <2>3 DEF Leave
<1>5. ASSUME NEW t \in Watchable, Show(t)
      PROVE  PageTyped' /\ ServerTyped' /\ NetworkTyped' /\ RestTyped'
  <2>1. toServer' \in [Link -> Seq(Message)]
        /\ messageQueue' \in Seq(Message) /\ Len(messageQueue') <= MaxQueueSize
    <3>1. <<Subscribe(t)>> \in Seq(Message)
      BY MessagesDiffer
    <3> QED BY <1>0, <1>2, <1>5, <3>1 DEF Show, PageTyped, NetworkTyped
  <2>2. PageTyped'
    BY <1>0, <1>5, <2>1 DEF Show, PageTyped
  <2>3. NetworkTyped'
    BY <1>0, <1>5, <2>1 DEF Show, NetworkTyped
  <2>4. RestTyped'
    BY <1>0, <1>5 DEF Show, RestTyped
  <2> QED BY <1>b, <1>5, <2>2, <2>3, <2>4 DEF Show
<1>6. ASSUME NEW l \in Link, Opens(l)
      PROVE  PageTyped' /\ ServerTyped' /\ NetworkTyped' /\ RestTyped'
  <2>1. toServer' \in [Link -> Seq(Message)]
    <3>1. shown # NoTask => <<Subscribe(shown)>> \in Seq(Message)
      BY <1>0, MessagesDiffer DEF PageTyped
    <3> QED BY <1>0, <1>6, <3>1 DEF Opens, NetworkTyped
  <2>2. PageTyped'
    <3>1. /\ UNCHANGED <<current, isAuthenticated, reconnectTimer, messageQueue, shown,
                         starHandler>>
          /\ connected' \in {connected, TRUE} /\ reconnectAttempts' \in {reconnectAttempts, 0}
          /\ authenticating' \in {authenticating, TRUE}
      BY <1>6 DEF Opens
    <3> QED BY <1>0, <1>d, <3>1 DEF PageTyped
  <2>3. NetworkTyped'
    BY <1>0, <1>6, <2>1 DEF Opens, NetworkTyped
  <2>4. ServerTyped'
    BY <1>0, <1>6 DEF Opens, ServerTyped
  <2> QED BY <1>b, <1>6, <2>2, <2>3, <2>4 DEF Opens
<1>7. ASSUME NEW l \in Link, Succeeded(l)
      PROVE  PageTyped' /\ ServerTyped' /\ NetworkTyped' /\ RestTyped'
  <2>1. Posted(l, SentOnSuccess) \in [Link -> Seq(Message)]
    BY SentIsMessages, SendTyped
  <2>2. PageTyped'
    <3>1. /\ UNCHANGED <<current, connected, authenticating, reconnectTimer,
                         reconnectAttempts, shown>>
          /\ isAuthenticated' = TRUE /\ starHandler' = FALSE /\ messageQueue' = <<>>
      BY <1>7 DEF Succeeded
    <3> QED BY <1>0, <1>d, <3>1 DEF PageTyped
  <2>3. NetworkTyped'
    <3>1. /\ successes[l] > 0 /\ successes' = [successes EXCEPT ![l] = @ - 1]
          /\ toServer' = Posted(l, SentOnSuccess) /\ UNCHANGED <<pageEnd, dead>>
      BY <1>7 DEF Succeeded
    <3>2. successes' \in [Link -> Nat]
      BY <1>0, <3>1 DEF NetworkTyped
    <3> QED BY <1>0, <2>1, <3>1, <3>2 DEF NetworkTyped
  <2> QED BY <1>b, <1>7, <2>2, <2>3 DEF Succeeded
<1>8. ASSUME NEW l \in Link, LinkEnds(l)
      PROVE  PageTyped' /\ ServerTyped' /\ NetworkTyped' /\ RestTyped'
  <2>1. UNCHANGED <<wsPage, wsServer, dead, toServer, successes, keyGood, gaveUp, opened,
                    connects, shows>>
        /\ wsFaults' \in {wsFaults, wsFaults + 1}
        /\ \/ pageEnd' = [pageEnd EXCEPT ![l] = "clean"]
           \/ pageEnd' = [pageEnd EXCEPT ![l] = "unclean"]
    BY <1>8 DEF LinkEnds, WsFault
  <2>2. NetworkTyped'
    BY <1>0, <2>1 DEF NetworkTyped
  <2> QED BY <1>b, <1>c, <2>1, <2>2
<1>9. ASSUME NEW l \in Link, Closes(l)
      PROVE  PageTyped' /\ ServerTyped' /\ NetworkTyped' /\ RestTyped'
  <2>1. NetworkTyped'
    BY <1>0, <1>9 DEF Closes, NetworkTyped
  <2>2. CASE l # current
    BY <1>b, <1>9, <2>1, <2>2 DEF Closes
  <2>3. CASE l = current
    <3>1. messageQueue' \in Seq(Message) /\ Len(messageQueue') <= MaxQueueSize
      BY <1>9, <2>3, SentIsMessages DEF Closes
    <3>2. Repeats(l) \in BOOLEAN /\ (Repeats(l) => reconnectAttempts < MaxReconnectAttempts)
      BY DEF Repeats
    <3>3. /\ reconnectTimer' = Repeats(l) /\ connected' = FALSE /\ isAuthenticated' = FALSE
          /\ reconnectAttempts' = IF Repeats(l) THEN reconnectAttempts + 1
                                  ELSE reconnectAttempts
          /\ UNCHANGED <<current, authenticating, shown, starHandler>>
      BY <1>9, <2>3 DEF Closes
    <3>4. PageTyped'
      <4>1. reconnectAttempts' \in 0 .. MaxReconnectAttempts
        BY <1>0, <3>2, <3>3 DEF PageTyped
      <4>2. reconnectTimer' \in BOOLEAN
        BY <3>2, <3>3
      <4> QED BY <1>0, <3>1, <3>3, <4>1, <4>2 DEF PageTyped
    <3>5. gaveUp' \in BOOLEAN
      BY <1>9, <2>3 DEF Closes
    <3>6. RestTyped'
      BY <1>0, <1>9, <3>5 DEF Closes, RestTyped
    <3> QED BY <1>b, <1>9, <2>1, <3>4, <3>6 DEF Closes
  <2> QED BY <2>2, <2>3
<1>10. ASSUME NEW l \in Link, Receives(l)
       PROVE  PageTyped' /\ ServerTyped' /\ NetworkTyped' /\ RestTyped'
  <2> DEFINE message == Head(toServer[l])
  <2>1. message \in Message /\ Tail(toServer[l]) \in Seq(Message)
    BY <1>0, <1>10 DEF Receives, NetworkTyped
  <2>2. toServer' = [toServer EXCEPT ![l] = Tail(@)]
        /\ UNCHANGED <<wsPage, serverEnd, clients, authTimeout, pageEnd, dead, wsRest>>
    BY <1>10 DEF Receives
  <2>3. authenticated' \subseteq Link /\ successes' \in [Link -> Nat]
    BY <1>0, <1>10 DEF Receives, ServerTyped, NetworkTyped
  <2>4. CASE message = Auth
    <3>1. subscriptions' = subscriptions
      BY <1>10, <2>4 DEF Receives
    <3> QED BY <1>0, <1>b, <2>1, <2>2, <2>3, <3>1 DEF ServerTyped, NetworkTyped
  <2>5. CASE message # Auth
    <3> DEFINE s == IF l \notin authenticated THEN subscriptions[l]
                    ELSE IF message[1] = "subscribe" THEN subscriptions[l] \cup {message[2]}
                    ELSE subscriptions[l] \ {message[2]}
    <3>1. subscriptions' = [subscriptions EXCEPT ![l] = s]
      BY <1>10, <2>5 DEF Receives
    <3>2. \/ message[1] = "subscribe" /\ message[2] \in Watchable \cup {AllTasks}
          \/ message[1] = "unsubscribe"
      BY <2>1, <2>5, MessagesDiffer
    <3>3. s \in SUBSET (Watchable \cup {AllTasks})
      BY <1>0, <3>2 DEF ServerTyped
    <3> HIDE DEF s
    <3> QED BY <1>0, <1>b, <2>1, <2>2, <2>3, <3>1, <3>3 DEF ServerTyped, NetworkTyped
  <2> QED BY <2>4, <2>5
<1>11. ASSUME NEW l \in Link, AuthExpires(l) \/ HeartbeatExpires(l)
       PROVE  PageTyped' /\ ServerTyped' /\ NetworkTyped' /\ RestTyped'
  <2>1. /\ UNCHANGED <<wsPage, authenticated, subscriptions, wsNetwork, keyGood, gaveUp,
                       opened, connects, shows>>
        /\ wsFaults' \in {wsFaults, wsFaults + 1}
        /\ serverEnd' = [serverEnd EXCEPT ![l] = "closing"]
        /\ authTimeout' \subseteq authTimeout /\ clients' \subseteq clients
    BY <1>11 DEF AuthExpires, HeartbeatExpires, WsFault
  <2>2. ServerTyped'
    BY <1>0, <2>1 DEF ServerTyped
  <2> QED BY <1>b, <1>c, <2>1, <2>2
<1>12. ASSUME NEW l \in Link, Disconnects(l)
       PROVE  PageTyped' /\ ServerTyped' /\ NetworkTyped' /\ RestTyped'
  <2>1. ServerTyped'
    BY <1>0, <1>12 DEF Disconnects, ServerTyped
  <2>2. NetworkTyped'
    BY <1>0, <1>12, <1>d DEF Disconnects, NetworkTyped
  <2> QED BY <1>b, <1>12, <2>1, <2>2 DEF Disconnects
<1>13. ASSUME NEW l \in Link, NetworkFails(l)
       PROVE  PageTyped' /\ ServerTyped' /\ NetworkTyped' /\ RestTyped'
  <2>1. NetworkTyped'
    BY <1>0, <1>13, <1>d DEF NetworkFails, NetworkTyped
  <2> QED BY <1>b, <1>c, <1>13, <2>1 DEF NetworkFails, WsFault
<1>14. ASSUME NEW graceful \in BOOLEAN, RestartServer(graceful)
       PROVE  PageTyped' /\ ServerTyped' /\ NetworkTyped' /\ RestTyped'
  <2>1. /\ serverEnd' \in [Link -> {"none", "open", "closing", "closed"}]
        /\ subscriptions' \in [Link -> SUBSET (Watchable \cup {AllTasks})]
    BY <1>0, <1>14 DEF RestartServer, ServerTyped
  <2>2. ServerTyped'
    BY <1>0, <1>14, <2>1 DEF RestartServer, ServerTyped
  <2>3. toServer' \in [Link -> Seq(Message)] /\ successes' \in [Link -> Nat]
        /\ dead' \subseteq Link /\ pageEnd' = pageEnd
    BY <1>0, <1>14, <1>d DEF RestartServer, NetworkTyped, ServerTyped
  <2>4. NetworkTyped'
    BY <1>0, <2>3 DEF NetworkTyped
  <2> QED BY <1>b, <1>c, <1>14, <2>2, <2>4 DEF RestartServer, WsFault
<1>15. CASE UNCHANGED wsVars
  BY <1>b, <1>15 DEF wsVars
<1> QED BY <1>1, <1>3, <1>4, <1>5, <1>6, <1>7, <1>8, <1>9, <1>10, <1>11, <1>12, <1>13,
           <1>14, <1>15 DEF LogStreamNext

\* At the start the shapes are right.
LEMMA LogStreamInitTyped == ASSUME LogStreamInit PROVE LogStreamTypeOK
<1>1. <<>> \in Seq(Message) /\ Len(<<>>) = 0
  OBVIOUS
<1>2. PageTyped
  <2>1. 0 \in 0 .. MaxReconnectAttempts /\ 0 <= MaxQueueSize
    BY LogStreamAssumption
  <2> QED BY <1>1, <2>1 DEF LogStreamInit, PageTyped
<1>3. ServerTyped
  BY DEF LogStreamInit, ServerTyped
<1>4. NetworkTyped
  BY <1>1 DEF LogStreamInit, NetworkTyped
<1>5. RestTyped
  BY DEF LogStreamInit, RestTyped
<1> QED BY <1>2, <1>3, <1>4, <1>5
        DEF LogStreamTypeOK, PageTyped, ServerTyped, NetworkTyped, RestTyped

\* The state of the stream keeps its shapes.
THEOREM LogStreamTyped == LogStreamSpec => []LogStreamTypeOK
BY LogStreamInitTyped, LogStreamTypesKept, PTL DEF LogStreamSpec

\* Every message one of the sequence is followed by the message other.
Answered(s, one, other) ==
  \A i \in 1 .. Len(s) : s[i] = one => \E j \in 1 .. Len(s) : j > i /\ s[j] = other

Sent(s, message) == \E i \in 1 .. Len(s) : s[i] = message

\* A message appended is sent and answers those before it, or leaves them as they were.
LEMMA AppendedOne ==
  ASSUME NEW s \in Seq(Message), NEW message \in Message
  PROVE  /\ Sent(s \o <<message>>, message)
         /\ \A any : Sent(s, any) => Sent(s \o <<message>>, any)
         /\ \A one, other :
              (Answered(s, one, other) /\ message # one) \/ (message = other /\ one # other)
                => Answered(s \o <<message>>, one, other)
<1> DEFINE q == s \o <<message>>
<1>1. /\ Len(s) \in Nat /\ Len(q) = Len(s) + 1
      /\ \A i \in 1 .. Len(s) : q[i] = s[i]
      /\ q[Len(s) + 1] = message
  <2>1. <<message>> \in Seq(Message) /\ Len(<<message>>) = 1 /\ <<message>>[1] = message
    OBVIOUS
  <2> QED BY <2>1, ConcatProperties
<1> HIDE DEF q
<1>2. /\ \A i \in 1 .. Len(q) : i \in 1 .. Len(s) \/ i = Len(s) + 1
      /\ 1 .. Len(s) \subseteq 1 .. Len(q) /\ Len(s) + 1 \in 1 .. Len(q)
  BY <1>1
<1>3. Sent(q, message)
  BY <1>1, <1>2 DEF Sent
<1>4. ASSUME NEW any, Sent(s, any) PROVE Sent(q, any)
  BY <1>1, <1>2, <1>4 DEF Sent
<1>5. ASSUME NEW one, NEW other, Answered(s, one, other), message # one
      PROVE  Answered(q, one, other)
  BY <1>1, <1>2, <1>5 DEF Answered
<1>6. ASSUME NEW one, NEW other, message = other, one # other PROVE Answered(q, one, other)
  BY <1>1, <1>2, <1>6 DEF Answered
<1> QED BY <1>3, <1>4, <1>5, <1>6 DEF q

\* So do messages appended that answer each other and those before them, or are
\* among those that answer.
LEMMA AppendedAll ==
  ASSUME NEW s \in Seq(Message), NEW q \in Seq(Message)
  PROVE  /\ \A any : Sent(s, any) \/ Sent(q, any) => Sent(s \o q, any)
         /\ \A one, other :
              (Answered(s, one, other) \/ Sent(q, other)) /\ Answered(q, one, other)
                => Answered(s \o q, one, other)
<1> DEFINE all == s \o q
<1>1. /\ Len(s) \in Nat /\ Len(q) \in Nat /\ Len(all) = Len(s) + Len(q)
      /\ \A i \in 1 .. Len(all) : all[i] = IF i <= Len(s) THEN s[i] ELSE q[i - Len(s)]
  BY ConcatProperties
<1> HIDE DEF all
<1>2. ASSUME NEW j \in 1 .. Len(q)
      PROVE  j + Len(s) \in 1 .. Len(all) /\ j + Len(s) > Len(s) /\ all[j + Len(s)] = q[j]
  <2>1. j + Len(s) \in 1 .. Len(all) /\ j + Len(s) > Len(s)
    BY <1>1
  <2>2. ~ (j + Len(s) <= Len(s)) /\ (j + Len(s)) - Len(s) = j
    BY <1>1
  <2>3. all[j + Len(s)] = q[(j + Len(s)) - Len(s)]
    BY <1>1, <2>1, <2>2
  <2> QED BY <2>1, <2>2, <2>3
<1>3. ASSUME NEW one, NEW other, Answered(s, one, other) \/ Sent(q, other),
             Answered(q, one, other)
      PROVE  Answered(all, one, other)
  <2> SUFFICES ASSUME NEW i \in 1 .. Len(all), all[i] = one
               PROVE  \E j \in 1 .. Len(all) : j > i /\ all[j] = other
    BY DEF Answered
  <2>1. CASE i <= Len(s) /\ Answered(s, one, other)
    <3>1. i \in 1 .. Len(s) /\ s[i] = one
      BY <1>1, <2>1
    <3>2. PICK j \in 1 .. Len(s) : j > i /\ s[j] = other
      BY <2>1, <3>1 DEF Answered
    <3>3. j \in 1 .. Len(all) /\ all[j] = other
      BY <1>1, <3>2
    <3> QED BY <3>2, <3>3
  <2>2. CASE i <= Len(s) /\ Sent(q, other)
    <3>1. PICK j \in 1 .. Len(q) : q[j] = other
      BY <2>2 DEF Sent
    <3>2. j + Len(s) \in 1 .. Len(all) /\ all[j + Len(s)] = other
      BY <1>2, <3>1
    <3>3. j + Len(s) > i
      BY <1>1, <2>2
    <3> QED BY <3>2, <3>3
  <2>3. CASE i > Len(s)
    <3>1. i - Len(s) \in 1 .. Len(q) /\ q[i - Len(s)] = one
      BY <1>1, <2>3
    <3>2. PICK j \in 1 .. Len(q) : j > i - Len(s) /\ q[j] = other
      BY <1>3, <3>1 DEF Answered
    <3>3. j + Len(s) \in 1 .. Len(all) /\ all[j + Len(s)] = other
      BY <1>2, <3>2
    <3>4. j + Len(s) > i
      BY <1>1, <3>2
    <3> QED BY <3>3, <3>4
  <2> QED BY <1>1, <1>3, <2>1, <2>2, <2>3
<1>4. ASSUME NEW any, NEW i \in 1 .. Len(s), s[i] = any PROVE Sent(all, any)
  <2>1. i \in 1 .. Len(all) /\ all[i] = any
    BY <1>1, <1>4
  <2> QED BY <2>1 DEF Sent
<1>5. ASSUME NEW any, NEW i \in 1 .. Len(q), q[i] = any PROVE Sent(all, any)
  <2>1. i + Len(s) \in 1 .. Len(all) /\ all[i + Len(s)] = any
    BY <1>2, <1>5
  <2> QED BY <2>1 DEF Sent
<1> QED BY <1>3, <1>4, <1>5 DEF Sent, all

\* When the first message was handled the others are still answered, that one too.
LEMMA HandledFirst ==
  ASSUME NEW s \in Seq(Message), s # <<>>
  PROVE  /\ \A any : Sent(s, any) /\ Head(s) # any => Sent(Tail(s), any)
         /\ \A one, other : Answered(s, one, other) =>
              /\ Answered(Tail(s), one, other)
              /\ Head(s) = one => Sent(Tail(s), other)
<1> DEFINE rest == Tail(s)
<1>1. /\ Len(s) \in Nat /\ Len(s) > 0 /\ Len(rest) = Len(s) - 1
      /\ \A i \in 1 .. Len(rest) : rest[i] = s[i + 1]
      /\ Head(s) = s[1]
  BY HeadTailProperties
<1> HIDE DEF rest
<1>2. \A i \in 1 .. Len(s) : i # 1 => i - 1 \in 1 .. Len(rest) /\ rest[i - 1] = s[i]
  BY <1>1
<1>3. ASSUME NEW one, NEW other, Answered(s, one, other) PROVE Answered(rest, one, other)
  <2> SUFFICES ASSUME NEW i \in 1 .. Len(rest), rest[i] = one
               PROVE  \E j \in 1 .. Len(rest) : j > i /\ rest[j] = other
    BY DEF Answered
  <2>1. i + 1 \in 1 .. Len(s) /\ s[i + 1] = one
    BY <1>1
  <2>2. PICK j \in 1 .. Len(s) : j > i + 1 /\ s[j] = other
    BY <1>3, <2>1 DEF Answered
  <2>3. j - 1 \in 1 .. Len(rest) /\ rest[j - 1] = other /\ j - 1 > i
    BY <1>2, <2>2
  <2> QED BY <2>3
<1>4. ASSUME NEW any, NEW i \in 1 .. Len(s), i # 1, s[i] = any PROVE Sent(rest, any)
  BY <1>2, <1>4 DEF Sent
<1>5. ASSUME NEW one, NEW other, Answered(s, one, other), s[1] = one PROVE Sent(rest, other)
  <2>1. 1 \in 1 .. Len(s)
    BY <1>1
  <2>2. PICK i \in 1 .. Len(s) : i > 1 /\ s[i] = other
    BY <1>5, <2>1 DEF Answered
  <2> QED BY <1>4, <2>2
<1> QED BY <1>1, <1>3, <1>4, <1>5 DEF Sent, rest

\* A connection that is not made yet knows nothing; only the page's own has messages
\* under way or was authenticated, and the status is that of the last one.
Fresh(l) ==
  /\ serverEnd[l] = "none" /\ toServer[l] = <<>> /\ successes[l] = 0
  /\ subscriptions[l] = {} /\ l \notin authenticated

LinksInv ==
  /\ LogStreamTypeOK
  /\ \A l \in Link :
       /\ pageEnd[l] \in {"none", "connecting"} => Fresh(l)
       /\ l > opened => pageEnd[l] = "none"
       /\ l # current /\ pageEnd[l] = "open" => toServer[l] = <<>> /\ successes[l] = 0
       /\ successes[l] > 0 => l \in authenticated
       /\ l \notin authenticated => subscriptions[l] = {}
  /\ current <= opened /\ opened <= MaxLinks
  /\ current # NoLink =>
       /\ pageEnd[current] = "open" => connected
       /\ pageEnd[current] = "connecting" => ~ connected
  /\ isAuthenticated => current # NoLink /\ current \in authenticated

\* A step keeps the connections so.
LEMMA LinksKept ==
  ASSUME LinksInv, LogStreamTypeOK', [LogStreamNext]_wsVars PROVE LinksInv'
<1> USE LogStreamAssumption DEF wsPage, wsServer, wsNetwork, wsRest, LinksInv
<1>0. /\ \A l \in Link : l \in Nat /\ l # NoLink /\ l <= MaxLinks
      /\ opened \in Nat /\ current \in Nat
      /\ current # NoLink => current \in Link
      /\ pageEnd \in [Link -> {"none", "connecting", "open", "clean", "unclean", "over"}]
      /\ serverEnd \in [Link -> {"none", "open", "closing", "closed"}]
      /\ toServer \in [Link -> Seq(Message)] /\ successes \in [Link -> Nat]
      /\ subscriptions \in [Link -> SUBSET (Watchable \cup {AllTasks})]
  <2>1. /\ \A l \in Link : l \in Nat /\ l # NoLink /\ l <= MaxLinks
        /\ opened \in Nat /\ current \in Link \cup {NoLink}
    BY DEF LogStreamTypeOK, Link, NoLink
  <2>2. current \in Nat
    BY <2>1 DEF NoLink
  <2> QED BY <2>1, <2>2 DEF LogStreamTypeOK
<1>1. ASSUME Connect \/ ReconnectFires PROVE LinksInv'
  <2>1. ConnectNow /\ UNCHANGED <<serverEnd, authenticated, subscriptions, toServer, successes>>
    BY <1>1 DEF Connect, ReconnectFires
  <2>2. CASE AlreadyConnected
    <3>1. UNCHANGED <<current, connected, isAuthenticated, pageEnd, opened>>
      BY <2>1, <2>2 DEF ConnectNow
    <3> QED BY <2>1, <3>1 DEF Fresh
  <2>3. CASE ~ AlreadyConnected
    <3>1. /\ opened < MaxLinks /\ opened' = opened + 1 /\ current' = opened + 1
          /\ pageEnd' = [pageEnd EXCEPT ![opened + 1] = "connecting"]
          /\ connected' = FALSE /\ isAuthenticated' = FALSE
      BY <2>1, <2>3 DEF ConnectNow
    <3>2. opened + 1 \in Link /\ opened + 1 > opened
      BY <1>0, <3>1 DEF Link
    <3>3. pageEnd[opened + 1] = "none" /\ Fresh(opened + 1)
      BY <3>2
    <3>4. /\ pageEnd'[opened + 1] = "connecting"
          /\ \A l \in Link : l # opened + 1 => pageEnd'[l] = pageEnd[l]
      BY <1>0, <3>1, <3>2
    <3>5. \A l \in Link : Fresh(l)' <=> Fresh(l)
      BY <2>1 DEF Fresh
    <3>6. ASSUME NEW l \in Link
          PROVE  /\ pageEnd'[l] \in {"none", "connecting"} => Fresh(l)'
                 /\ l > opened' => pageEnd'[l] = "none"
                 /\ l # current' /\ pageEnd'[l] = "open" => toServer'[l] = <<>> /\ successes'[l] = 0
                 /\ successes'[l] > 0 => l \in authenticated'
                 /\ l \notin authenticated' => subscriptions'[l] = {}
      <4>1. l = current /\ pageEnd[l] = "open" => FALSE
        BY <1>0, <2>3 DEF AlreadyConnected
      <4> QED BY <1>0, <2>1, <3>1, <3>2, <3>3, <3>4, <3>5, <4>1
    <3> QED BY <1>0, <3>1, <3>2, <3>4, <3>6
  <2> QED BY <2>2, <2>3
<1>2. ASSUME NEW messages, Send(messages),
             UNCHANGED <<pageEnd, serverEnd, authenticated, subscriptions, successes, opened,
                         current, connected, isAuthenticated>>
      PROVE  LinksInv'
  <2>1. ASSUME NEW l \in Link, l # current \/ pageEnd[l] # "open"
        PROVE  toServer'[l] = toServer[l]
    BY <1>0, <1>2, <2>1 DEF Send, Posted
  <2> QED BY <1>0, <1>2, <2>1 DEF Fresh
<1>3. CASE Authenticate
  BY <1>2, <1>3 DEF Authenticate
<1>4. ASSUME UNCHANGED <<pageEnd, serverEnd, authenticated, subscriptions, successes, opened,
                         current, connected, isAuthenticated, toServer>>
      PROVE  LinksInv'
  BY <1>4 DEF Fresh
<1>5. CASE Leave
  BY <1>2, <1>4, <1>5 DEF Leave
<1>6. ASSUME NEW t \in Watchable, Show(t) PROVE LinksInv'
  BY <1>2, <1>4, <1>6 DEF Show
<1>7. ASSUME NEW l \in Link, Opens(l) PROVE LinksInv'
  <2>1. /\ pageEnd[l] = "connecting" /\ pageEnd'[l] = "open"
        /\ \A k \in Link \ {l} : /\ pageEnd'[k] = pageEnd[k] /\ serverEnd'[k] = serverEnd[k]
                                 /\ toServer'[k] = toServer[k]
        /\ l = current => connected' = TRUE
        /\ l # current => UNCHANGED <<connected, toServer>>
        /\ UNCHANGED <<current, isAuthenticated, authenticated, subscriptions, successes, opened>>
    BY <1>0, <1>7 DEF Opens
  <2>2. (Fresh(l) /\ ~ isAuthenticated) \/ l # current
    BY <2>1 DEF Fresh
  <2>3. \A k \in Link \ {l} : Fresh(k) => Fresh(k)'
    BY <2>1 DEF Fresh
  <2>4. ASSUME NEW k \in Link
        PROVE  /\ pageEnd'[k] \in {"none", "connecting"} => Fresh(k)'
               /\ k > opened' => pageEnd'[k] = "none"
               /\ k # current' /\ pageEnd'[k] = "open" => toServer'[k] = <<>> /\ successes'[k] = 0
               /\ successes'[k] > 0 => k \in authenticated'
               /\ k \notin authenticated' => subscriptions'[k] = {}
    <3>1. CASE k = l
      BY <1>0, <2>1, <3>1 DEF Fresh
    <3>2. CASE k # l
      BY <1>0, <2>1, <2>3, <3>2
    <3> QED BY <3>1, <3>2
  <2> QED BY <1>0, <2>1, <2>4
<1>8. ASSUME NEW l \in Link, Succeeded(l) PROVE LinksInv'
  <2>1. /\ successes[l] > 0 /\ pageEnd[l] = "open" /\ successes'[l] = successes[l] - 1
        /\ \A k \in Link \ {l} : successes'[k] = successes[k] /\ toServer'[k] = toServer[k]
        /\ isAuthenticated' = TRUE
        /\ UNCHANGED <<current, connected, serverEnd, authenticated, subscriptions,
                       pageEnd, opened>>
    BY <1>0, <1>8 DEF Succeeded, Posted
  <2>2. l = current /\ l \in authenticated
    BY <1>0, <2>1
  <2> QED BY <1>0, <2>1, <2>2 DEF Fresh
<1>9. ASSUME NEW l \in Link,
             pageEnd' \in {[pageEnd EXCEPT ![l] = "clean"], [pageEnd EXCEPT ![l] = "unclean"],
                           [pageEnd EXCEPT ![l] = "over"]},
             pageEnd[l] # "none",
             UNCHANGED <<serverEnd, authenticated, subscriptions, successes, opened, current,
                         toServer>>,
             connected' \in {connected, FALSE}, isAuthenticated' \in {isAuthenticated, FALSE},
             l # current => connected' = connected
      PROVE  LinksInv'
  <2>1. /\ pageEnd'[l] \in {"clean", "unclean", "over"}
        /\ \A k \in Link \ {l} : pageEnd'[k] = pageEnd[k]
    BY <1>0, <1>9
  <2>2. \A k \in Link : Fresh(k)' <=> Fresh(k)
    BY <1>9 DEF Fresh
  <2>3. ASSUME NEW k \in Link
        PROVE  /\ pageEnd'[k] \in {"none", "connecting"} => Fresh(k)'
               /\ k > opened' => pageEnd'[k] = "none"
               /\ k # current' /\ pageEnd'[k] = "open" => toServer'[k] = <<>> /\ successes'[k] = 0
               /\ successes'[k] > 0 => k \in authenticated'
               /\ k \notin authenticated' => subscriptions'[k] = {}
    BY <1>0, <1>9, <2>1, <2>2
  <2>4. current # NoLink => /\ pageEnd'[current] = "open" => connected'
                            /\ pageEnd'[current] = "connecting" => ~ connected'
    BY <1>0, <1>9, <2>1
  <2>5. isAuthenticated' => isAuthenticated
    BY <1>9
  <2> QED BY <1>0, <1>9, <2>3, <2>4, <2>5
<1>10. ASSUME NEW l \in Link, LinkEnds(l) \/ Closes(l) PROVE LinksInv'
  BY <1>9, <1>10 DEF LinkEnds, Closes
<1>11. ASSUME NEW l \in Link, Receives(l) PROVE LinksInv'
  <2>1. /\ toServer[l] # <<>>
        /\ \A k \in Link \ {l} : /\ toServer'[k] = toServer[k] /\ successes'[k] = successes[k]
                                 /\ subscriptions'[k] = subscriptions[k]
                                 /\ k \in authenticated' <=> k \in authenticated
        /\ UNCHANGED <<current, connected, isAuthenticated, serverEnd, pageEnd, opened>>
    <3>1. CASE Head(toServer[l]) = Auth
      BY <1>0, <1>11, <3>1 DEF Receives
    <3>2. CASE Head(toServer[l]) # Auth
      BY <1>0, <1>11, <3>2 DEF Receives
    <3> QED BY <3>1, <3>2
  <2>2. authenticated \subseteq authenticated'
    BY <1>11 DEF Receives
  <2>3. successes'[l] > 0 => l \in authenticated'
    BY <1>0, <1>11 DEF Receives
  <2>4. l \notin authenticated' => subscriptions'[l] = {}
    <3>1. l \notin authenticated' => subscriptions[l] = {} /\ l \notin authenticated
      BY <2>2
    <3>2. l \notin authenticated => subscriptions'[l] = subscriptions[l]
      <4>1. CASE Head(toServer[l]) = Auth
        BY <1>11, <4>1 DEF Receives
      <4>2. CASE Head(toServer[l]) # Auth
        BY <1>0, <1>11, <4>2 DEF Receives
      <4> QED BY <4>1, <4>2
    <3> QED BY <3>1, <3>2
  <2>5. pageEnd[l] \notin {"none", "connecting"}
    BY <2>1 DEF Fresh
  <2>6. pageEnd[l] = "open" => l = current
    BY <2>1
  <2> QED BY <1>0, <2>1, <2>2, <2>3, <2>4, <2>5, <2>6 DEF Fresh
<1>12. ASSUME UNCHANGED <<current, connected, isAuthenticated, pageEnd, opened, authenticated>>,
              \A l \in Link : /\ serverEnd[l] = "none" => serverEnd'[l] = "none"
                              /\ toServer'[l] \in {toServer[l], <<>>}
                              /\ successes'[l] \in {successes[l], 0}
                              /\ subscriptions'[l] \in {subscriptions[l], {}}
       PROVE  LinksInv'
  <2>1. \A k \in Link : Fresh(k) => Fresh(k)'
    BY <1>12 DEF Fresh
  <2>2. ASSUME NEW k \in Link
        PROVE  /\ pageEnd'[k] \in {"none", "connecting"} => Fresh(k)'
               /\ k > opened' => pageEnd'[k] = "none"
               /\ k # current' /\ pageEnd'[k] = "open" => toServer'[k] = <<>> /\ successes'[k] = 0
               /\ successes'[k] > 0 => k \in authenticated'
               /\ k \notin authenticated' => subscriptions'[k] = {}
    <3>1. pageEnd'[k] \in {"none", "connecting"} => Fresh(k)'
      BY <1>12, <2>1
    <3>2. k # current' /\ pageEnd'[k] = "open" => toServer'[k] = <<>> /\ successes'[k] = 0
      BY <1>12
    <3>3. successes'[k] > 0 => k \in authenticated'
      <4>1. successes'[k] = successes[k] \/ successes'[k] = 0
        BY <1>12
      <4>2. ~ (0 > 0)
        OBVIOUS
      <4> QED BY <1>12, <4>1, <4>2
    <3>4. k \notin authenticated' => subscriptions'[k] = {}
      BY <1>12
    <3> QED BY <1>12, <3>1, <3>2, <3>3, <3>4
  <2> QED BY <1>0, <1>12, <2>2
<1>13. ASSUME NEW l \in Link, AuthExpires(l) \/ HeartbeatExpires(l) \/ Disconnects(l)
                                \/ NetworkFails(l)
       PROVE  LinksInv'
  BY <1>0, <1>12, <1>13 DEF AuthExpires, HeartbeatExpires, Disconnects, NetworkFails
<1>14. ASSUME NEW graceful \in BOOLEAN, RestartServer(graceful) PROVE LinksInv'
  BY <1>0, <1>12, <1>14 DEF RestartServer
<1>15. CASE UNCHANGED wsVars
  BY <1>4, <1>15 DEF wsVars
<1> QED BY <1>1, <1>3, <1>5, <1>6, <1>7, <1>8, <1>10, <1>11, <1>13, <1>14, <1>15
        DEF LogStreamNext

\* Every visit to a task that the queue of the page asks to follow, it asks to leave
\* again, but for the task shown while the page has not noticed the loss.
Undone(s, t) == Answered(s, Subscribe(t), Unsubscribe(t))

QueueInv ==
  \A t \in Watchable : Undone(messageQueue, t) \/ (connected /\ shown = t /\ ~ AlreadyConnected)

\* Once the messages under way are handled, t is not followed, or followed.
StaysOut(l, t) ==
  /\ Undone(toServer[l], t)
  /\ t \notin subscriptions[l] \/ Sent(toServer[l], Unsubscribe(t))

ComesIn(l, t) ==
  /\ Answered(toServer[l], Unsubscribe(t), Subscribe(t))
  /\ t \in subscriptions[l] \/ Sent(toServer[l], Subscribe(t))

\* The connection of the page carries messages in both directions.
Alive == /\ AlreadyConnected /\ serverEnd[current] = "open" /\ current \notin dead

FollowInv ==
  Alive =>
    /\ \A t \in Watchable : t # shown => StaysOut(current, t)
    /\ isAuthenticated /\ shown # NoTask => ComesIn(current, shown)

\* There is room for one more message in the queue of the page.
QueueHasRoom == Len(messageQueue) < MaxQueueSize

\* A message appended, for the task it names and for others.
LEMMA OneMore ==
  ASSUME NEW s \in Seq(Message), NEW t \in Watchable
  PROVE  /\ \A message \in Message : message # Subscribe(t) /\ Undone(s, t)
              => Undone(s \o <<message>>, t)
         /\ Undone(s \o <<Unsubscribe(t)>>, t)
         /\ Answered(s \o <<Subscribe(t)>>, Unsubscribe(t), Subscribe(t))
         /\ \A message \in Message :
              message # Unsubscribe(t) /\ Answered(s, Unsubscribe(t), Subscribe(t))
                => Answered(s \o <<message>>, Unsubscribe(t), Subscribe(t))
         /\ \A message \in Message :
              /\ Sent(s \o <<message>>, message)
              /\ \A any : Sent(s, any) => Sent(s \o <<message>>, any)
<1>1. /\ Unsubscribe(t) \in Message /\ Subscribe(t) \in Message
      /\ Subscribe(t) # Unsubscribe(t)
  BY MessagesDiffer
<1>2. ASSUME NEW message \in Message
      PROVE  /\ message # Subscribe(t) /\ Undone(s, t) => Undone(s \o <<message>>, t)
             /\ message # Unsubscribe(t) /\ Answered(s, Unsubscribe(t), Subscribe(t))
                  => Answered(s \o <<message>>, Unsubscribe(t), Subscribe(t))
             /\ Sent(s \o <<message>>, message)
             /\ \A any : Sent(s, any) => Sent(s \o <<message>>, any)
  <2>0. \A one, other : Answered(s, one, other) /\ message # one
          => Answered(s \o <<message>>, one, other)
    BY AppendedOne
  <2>1. message # Subscribe(t) /\ Undone(s, t) => Undone(s \o <<message>>, t)
    BY <2>0 DEF Undone
  <2>2. message # Unsubscribe(t) /\ Answered(s, Unsubscribe(t), Subscribe(t))
          => Answered(s \o <<message>>, Unsubscribe(t), Subscribe(t))
    BY <2>0
  <2>3. Sent(s \o <<message>>, message) /\ \A any : Sent(s, any) => Sent(s \o <<message>>, any)
    BY AppendedOne
  <2> QED BY <2>1, <2>2, <2>3
<1>3. Undone(s \o <<Unsubscribe(t)>>, t)
  BY <1>1, AppendedOne DEF Undone
<1>4. Answered(s \o <<Subscribe(t)>>, Unsubscribe(t), Subscribe(t))
  BY <1>1, AppendedOne
<1> QED BY <1>2, <1>3, <1>4

\* The queue takes one message more as long as it has room.
LEMMA QueuedWhole ==
  ASSUME LogStreamTypeOK, QueueHasRoom, NEW message \in Message
  PROVE  Queued(<<message>>) = messageQueue \o <<message>> /\ Queued(<<>>) = messageQueue
<1>1. /\ messageQueue \in Seq(Message) /\ Len(messageQueue) \in Nat
      /\ <<message>> \in Seq(Message) /\ Len(<<message>>) = 1
  BY DEF LogStreamTypeOK
<1>2. /\ Len(messageQueue \o <<message>>) = Len(messageQueue) + 1
      /\ messageQueue \o <<>> = messageQueue
  BY <1>1, ConcatProperties, ConcatEmptySeq
<1>3. /\ Len(messageQueue) + 1 <= MaxQueueSize /\ Len(messageQueue) <= MaxQueueSize
  BY <1>1, LogStreamAssumption DEF QueueHasRoom
<1> QED BY <1>2, <1>3 DEF Queued

\* When the status is no longer connected, the queue asks for nothing.
LEMMA TornDown ==
  ASSUME LinksInv, QueueInv, QueueHasRoom, messageQueue' = Queued(HookTornDown),
         NEW t \in Watchable
  PROVE  Undone(messageQueue', t)
<1>1. LogStreamTypeOK /\ messageQueue \in Seq(Message) /\ t # NoTask
      /\ shown \in Watchable \cup {NoTask}
  BY LogStreamAssumption DEF LinksInv, LogStreamTypeOK
<1>2. CASE connected /\ shown # NoTask
  <2>1. HookTornDown = <<Unsubscribe(shown)>> /\ Unsubscribe(shown) \in Message
    BY <1>1, <1>2, MessagesDiffer DEF HookTornDown
  <2>2. messageQueue' = messageQueue \o <<Unsubscribe(shown)>>
    BY <1>1, <2>1, QueuedWhole
  <2>3. CASE t = shown
    BY <1>1, <2>2, <2>3, OneMore
  <2>4. CASE t # shown
    <3>1. Undone(messageQueue, t) /\ Unsubscribe(shown) # Subscribe(t)
      BY <2>4, MessagesDiffer DEF QueueInv
    <3>2. Undone(messageQueue \o <<Unsubscribe(shown)>>, t)
      BY <1>1, <2>1, <3>1, OneMore
    <3> QED BY <2>2, <3>2
  <2> QED BY <2>3, <2>4
<1>3. CASE ~ (connected /\ shown # NoTask)
  <2>1. HookTornDown = <<>>
    BY <1>3 DEF HookTornDown
  <2>2. messageQueue' = messageQueue
    BY <1>1, <2>1, QueuedWhole, MessagesDiffer
  <2> QED BY <1>1, <1>3, <2>2 DEF QueueInv
<1> QED BY <1>2, <1>3
\* Nothing sent has nothing to answer, and one message alone answers others than itself.
LEMMA NoneOrOne ==
  ASSUME NEW message \in Message
  PROVE  /\ \A one, other : Answered(<<>>, one, other)
         /\ \A one, other : message # one => Answered(<<message>>, one, other)
         /\ Sent(<<message>>, message)
<1>1. Len(<<>>) = 0 /\ Len(<<message>>) = 1 /\ <<message>>[1] = message
  OBVIOUS
<1> QED BY <1>1 DEF Answered, Sent

\* What auth:success makes the page send asks to follow the task shown, and no other.
LEMMA Resubscribing ==
  ASSUME LogStreamTypeOK
  PROVE  /\ Resubscribed \in Seq(Message)
         /\ \A t \in Watchable : t # shown => Undone(Resubscribed, t)
         /\ shown # NoTask => /\ Answered(Resubscribed, Unsubscribe(shown), Subscribe(shown))
                              /\ Sent(Resubscribed, Subscribe(shown))
<1> DEFINE mine == IF shown = NoTask THEN <<>> ELSE <<Subscribe(shown)>>
           star == IF starHandler THEN <<Subscribe(AllTasks)>> ELSE <<>>
<1>1. /\ shown \in Watchable \cup {NoTask} /\ Auth \in Message
      /\ Subscribe(AllTasks) \in Message
      /\ \A t \in Watchable : Subscribe(t) \in Message /\ Subscribe(AllTasks) # Subscribe(t)
      /\ \A t, u \in Watchable : /\ t # u => Subscribe(u) # Subscribe(t)
                                 /\ Subscribe(u) # Unsubscribe(t)
                                 /\ Subscribe(AllTasks) # Unsubscribe(t)
  BY LogStreamAssumption, MessagesDiffer DEF LogStreamTypeOK
<1>2. /\ \A one, other : Answered(<<>>, one, other)
      /\ \A message \in Message : /\ <<message>> \in Seq(Message)
                                  /\ Sent(<<message>>, message)
      /\ \A message \in Message : \A one, other :
           message # one => Answered(<<message>>, one, other)
  <2>1. \A one, other : Answered(<<>>, one, other)
    BY <1>1, NoneOrOne
  <2>2. ASSUME NEW message \in Message
        PROVE  /\ <<message>> \in Seq(Message) /\ Sent(<<message>>, message)
               /\ \A one, other : message # one => Answered(<<message>>, one, other)
    BY NoneOrOne
  <2> QED BY <2>1, <2>2
<1>3. mine \in Seq(Message) /\ star \in Seq(Message) /\ Resubscribed = mine \o star
  BY <1>1, <1>2 DEF Resubscribed
<1>4. \A t \in Watchable : t # shown => Undone(mine, t)
  <2>1. CASE shown = NoTask
    BY <1>2, <2>1 DEF Undone
  <2>2. CASE shown # NoTask
    BY <1>1, <1>2, <2>2 DEF Undone
  <2> QED BY <2>1, <2>2
<1>5. \A t \in Watchable : Undone(star, t) /\ Answered(star, Unsubscribe(t), Subscribe(t))
  <2>1. CASE starHandler
    BY <1>1, <1>2, <2>1 DEF Undone
  <2>2. CASE ~ starHandler
    BY <1>2, <2>2 DEF Undone
  <2> QED BY <2>1, <2>2
<1>6. shown # NoTask => /\ Answered(mine, Unsubscribe(shown), Subscribe(shown))
                        /\ Sent(mine, Subscribe(shown))
  BY <1>1, <1>2
<1> HIDE DEF mine, star
<1>7. ASSUME NEW t \in Watchable, t # shown PROVE Undone(mine \o star, t)
  BY <1>3, <1>4, <1>5, <1>7, AppendedAll DEF Undone
<1>8. ASSUME shown # NoTask
      PROVE  /\ Answered(mine \o star, Unsubscribe(shown), Subscribe(shown))
             /\ Sent(mine \o star, Subscribe(shown))
  BY <1>1, <1>3, <1>5, <1>6, <1>8, AppendedAll
<1>9. mine \o star \in Seq(Message)
  BY <1>3, ConcatProperties
<1> QED BY <1>3, <1>7, <1>8, <1>9

\* A step keeps what the page asks for and what its connection is told, as long as
\* the queue of the page has room.
LEMMA FollowKept ==
  ASSUME LinksInv, LogStreamTypeOK', QueueHasRoom, QueueInv, FollowInv,
         [LogStreamNext]_wsVars
  PROVE  QueueInv' /\ FollowInv'
<1> USE DEF wsPage, wsServer, wsNetwork, wsRest
<1>0. /\ LogStreamTypeOK
      /\ toServer \in [Link -> Seq(Message)] /\ messageQueue \in Seq(Message)
      /\ pageEnd \in [Link -> {"none", "connecting", "open", "clean", "unclean", "over"}]
      /\ serverEnd \in [Link -> {"none", "open", "closing", "closed"}]
      /\ subscriptions \in [Link -> SUBSET (Watchable \cup {AllTasks})]
      /\ shown \in Watchable \cup {NoTask} /\ NoTask \notin Watchable
      /\ current # NoLink => current \in Link /\ toServer[current] \in Seq(Message)
  BY LogStreamAssumption DEF LinksInv, LogStreamTypeOK
<1>1. ASSUME UNCHANGED <<messageQueue, connected, shown>>,
             AlreadyConnected' => AlreadyConnected
      PROVE  QueueInv'
  BY <1>1 DEF QueueInv
<1>2. ASSUME Alive' => /\ Alive
                       /\ UNCHANGED <<current, shown, toServer[current], subscriptions[current]>>
                       /\ isAuthenticated' => isAuthenticated
      PROVE  FollowInv'
  <2> SUFFICES ASSUME Alive'
               PROVE  /\ \A t \in Watchable : t # shown' => StaysOut(current, t)'
                      /\ isAuthenticated' /\ shown' # NoTask => ComesIn(current, shown)'
    BY DEF FollowInv
  <2> QED BY <1>2 DEF FollowInv, StaysOut, ComesIn
<1>3. AlreadyConnected => current # NoLink /\ current \in Link /\ connected
  BY <1>0 DEF AlreadyConnected, LinksInv
<1>4. ASSUME NEW message \in Message, Send(<<message>>),
             UNCHANGED <<current, connected, pageEnd, serverEnd, dead, subscriptions,
                         isAuthenticated>>
      PROVE  /\ AlreadyConnected' <=> AlreadyConnected
             /\ AlreadyConnected => messageQueue' = messageQueue
             /\ ~ AlreadyConnected => messageQueue' = messageQueue \o <<message>>
             /\ Alive' => Alive
             /\ Alive => /\ toServer'[current] = toServer[current] \o <<message>>
                         /\ toServer[current] \in Seq(Message)
  <2>1. ~ AlreadyConnected => messageQueue' = messageQueue \o <<message>>
    BY <1>0, <1>4, QueuedWhole DEF Send, AlreadyConnected
  <2>2. ASSUME Alive PROVE toServer'[current] = toServer[current] \o <<message>>
    BY <1>0, <1>3, <1>4, <2>2 DEF Send, Posted, Alive, AlreadyConnected
  <2>3. Alive => toServer[current] \in Seq(Message)
    BY <1>0, <1>3 DEF Alive
  <2> QED BY <1>4, <2>1, <2>2, <2>3 DEF Send, Alive, AlreadyConnected
<1>5. CASE Authenticate
  <2>1. /\ Auth \in Message
        /\ \A t \in Watchable : Auth # Subscribe(t) /\ Auth # Unsubscribe(t)
    BY MessagesDiffer
  <2>2. Send(<<Auth>>) /\ UNCHANGED <<current, connected, pageEnd, serverEnd, dead,
                                      subscriptions, isAuthenticated, shown>>
    BY <1>5 DEF Authenticate
  <2>3. QueueInv'
    <3> SUFFICES ASSUME NEW t \in Watchable,
                        ~ (connected' /\ shown' = t /\ ~ AlreadyConnected')
                 PROVE  Undone(messageQueue', t)
      BY DEF QueueInv
    <3>1. Undone(messageQueue, t)
      BY <1>4, <2>1, <2>2 DEF QueueInv
    <3>2. Undone(messageQueue \o <<Auth>>, t)
      BY <1>0, <2>1, <3>1, OneMore
    <3> QED BY <1>4, <2>1, <2>2, <3>1, <3>2
  <2>4. FollowInv'
    <3> SUFFICES ASSUME Alive'
                 PROVE  /\ \A t \in Watchable : t # shown' => StaysOut(current, t)'
                        /\ isAuthenticated' /\ shown' # NoTask => ComesIn(current, shown)'
      BY DEF FollowInv
    <3>1. /\ Alive /\ toServer[current] \in Seq(Message)
          /\ toServer'[current] = toServer[current] \o <<Auth>>
      BY <1>4, <2>1, <2>2
    <3>2. ASSUME NEW t \in Watchable, t # shown PROVE StaysOut(current, t)'
      <4>1. StaysOut(current, t)
        BY <3>1, <3>2 DEF FollowInv
      <4>2. Undone(toServer[current] \o <<Auth>>, t)
        BY <2>1, <3>1, <4>1, OneMore DEF StaysOut
      <4>3. t \notin subscriptions[current] \/ Sent(toServer[current] \o <<Auth>>, Unsubscribe(t))
        BY <2>1, <3>1, <4>1, OneMore DEF StaysOut
      <4> QED BY <2>2, <3>1, <4>2, <4>3 DEF StaysOut
    <3>3. ASSUME isAuthenticated, shown # NoTask PROVE ComesIn(current, shown)'
      <4>1. ComesIn(current, shown) /\ shown \in Watchable
        BY <1>0, <3>1, <3>3 DEF FollowInv
      <4>2. Answered(toServer[current] \o <<Auth>>, Unsubscribe(shown), Subscribe(shown))
        BY <2>1, <3>1, <4>1, OneMore DEF ComesIn
      <4>3. \/ shown \in subscriptions[current]
            \/ Sent(toServer[current] \o <<Auth>>, Subscribe(shown))
        BY <2>1, <3>1, <4>1, OneMore DEF ComesIn
      <4> QED BY <2>2, <3>1, <4>2, <4>3 DEF ComesIn
    <3> QED BY <2>2, <3>2, <3>3
  <2> QED BY <2>3, <2>4
<1>6. CASE Leave
  <2>1. /\ shown # NoTask /\ shown' = NoTask /\ shown \in Watchable
        /\ IF connected THEN Send(<<Unsubscribe(shown)>>) ELSE UNCHANGED <<messageQueue, toServer>>
        /\ UNCHANGED <<current, connected, pageEnd, serverEnd, dead, subscriptions,
                       isAuthenticated>>
    BY <1>0, <1>6 DEF Leave
  <2>2. CASE ~ connected
    <3>1. ~ AlreadyConnected'
      BY <1>3, <2>1, <2>2 DEF AlreadyConnected
    <3>2. QueueInv'
      BY <2>1, <2>2 DEF QueueInv
    <3> QED BY <3>1, <3>2 DEF FollowInv, Alive
  <2>3. CASE connected
    <3>1. /\ Unsubscribe(shown) \in Message /\ Send(<<Unsubscribe(shown)>>)
          /\ \A t \in Watchable : Unsubscribe(shown) # Subscribe(t)
      BY <2>1, <2>3, MessagesDiffer
    <3>2. QueueInv'
      <4> SUFFICES ASSUME NEW t \in Watchable PROVE Undone(messageQueue', t)
        BY DEF QueueInv
      <4>1. CASE AlreadyConnected
        BY <1>4, <2>1, <3>1, <4>1 DEF QueueInv
      <4>2. CASE ~ AlreadyConnected
        <5>1. messageQueue' = messageQueue \o <<Unsubscribe(shown)>>
          BY <1>4, <2>1, <3>1, <4>2
        <5>2. CASE t = shown
          BY <1>0, <5>1, <5>2, OneMore
        <5>3. CASE t # shown
          <6>1. Undone(messageQueue, t)
            BY <5>3 DEF QueueInv
          <6> QED BY <1>0, <3>1, <5>1, <6>1, OneMore
        <5> QED BY <5>2, <5>3
      <4> QED BY <4>1, <4>2
    <3>3. ASSUME Alive', NEW t \in Watchable PROVE StaysOut(current, t)'
      <4>1. /\ Alive /\ toServer[current] \in Seq(Message)
            /\ toServer'[current] = toServer[current] \o <<Unsubscribe(shown)>>
        BY <1>4, <2>1, <3>1, <3>3
      <4>2. CASE t = shown
        <5>1. /\ Undone(toServer[current] \o <<Unsubscribe(shown)>>, t)
              /\ Sent(toServer[current] \o <<Unsubscribe(shown)>>, Unsubscribe(t))
          BY <3>1, <4>1, <4>2, OneMore
        <5> QED BY <2>1, <4>1, <5>1 DEF StaysOut
      <4>3. CASE t # shown
        <5>1. StaysOut(current, t)
          BY <4>1, <4>3 DEF FollowInv
        <5>2. Undone(toServer[current] \o <<Unsubscribe(shown)>>, t)
          BY <3>1, <4>1, <5>1, OneMore DEF StaysOut
        <5>3. \/ t \notin subscriptions[current]
              \/ Sent(toServer[current] \o <<Unsubscribe(shown)>>, Unsubscribe(t))
          BY <3>1, <4>1, <5>1, OneMore DEF StaysOut
        <5> QED BY <2>1, <4>1, <5>2, <5>3 DEF StaysOut
      <4> QED BY <4>2, <4>3
    <3> QED BY <2>1, <3>2, <3>3 DEF FollowInv
  <2> QED BY <2>2, <2>3
<1>7. ASSUME NEW visit \in Watchable, Show(visit) PROVE QueueInv' /\ FollowInv'
  <2>1. /\ shown = NoTask /\ shown' = visit
        /\ IF connected THEN Send(<<Subscribe(visit)>>) ELSE UNCHANGED <<messageQueue, toServer>>
        /\ UNCHANGED <<current, connected, pageEnd, serverEnd, dead, subscriptions,
                       isAuthenticated>>
    BY <1>7 DEF Show
  <2>2. \A t \in Watchable : Undone(messageQueue, t)
    BY <1>0, <2>1 DEF QueueInv
  <2>3. CASE ~ connected
    <3>1. ~ AlreadyConnected'
      BY <1>3, <2>1, <2>3 DEF AlreadyConnected
    <3>2. QueueInv'
      BY <2>1, <2>2, <2>3 DEF QueueInv
    <3> QED BY <3>1, <3>2 DEF FollowInv, Alive
  <2>4. CASE connected
    <3>1. /\ Subscribe(visit) \in Message /\ Send(<<Subscribe(visit)>>)
          /\ \A t \in Watchable : t # visit => Subscribe(visit) # Subscribe(t)
      BY <2>1, <2>4, MessagesDiffer
    <3>2. QueueInv'
      <4> SUFFICES ASSUME NEW t \in Watchable,
                          ~ (connected' /\ shown' = t /\ ~ AlreadyConnected')
                   PROVE  Undone(messageQueue', t)
        BY DEF QueueInv
      <4>1. CASE AlreadyConnected
        BY <1>4, <2>1, <2>2, <3>1, <4>1
      <4>2. CASE ~ AlreadyConnected
        <5>1. /\ messageQueue' = messageQueue \o <<Subscribe(visit)>>
              /\ t # visit
          BY <1>4, <2>1, <2>4, <3>1, <4>2
        <5> QED BY <1>0, <2>2, <3>1, <5>1, OneMore
      <4> QED BY <4>1, <4>2
    <3>3. ASSUME Alive'
          PROVE  /\ Alive /\ toServer[current] \in Seq(Message)
                 /\ toServer'[current] = toServer[current] \o <<Subscribe(visit)>>
      BY <1>4, <2>1, <3>1, <3>3
    <3>4. ASSUME Alive', NEW t \in Watchable, t # visit PROVE StaysOut(current, t)'
      <4>1. StaysOut(current, t)
        BY <1>0, <2>1, <3>3, <3>4 DEF FollowInv
      <4>2. Undone(toServer[current] \o <<Subscribe(visit)>>, t)
        BY <3>1, <3>3, <3>4, <4>1, OneMore DEF StaysOut
      <4>3. \/ t \notin subscriptions[current]
            \/ Sent(toServer[current] \o <<Subscribe(visit)>>, Unsubscribe(t))
        BY <3>1, <3>3, <3>4, <4>1, OneMore DEF StaysOut
      <4> QED BY <2>1, <3>3, <3>4, <4>2, <4>3 DEF StaysOut
    <3>5. ASSUME Alive' PROVE ComesIn(current, visit)'
      <4>1. /\ Answered(toServer[current] \o <<Subscribe(visit)>>, Unsubscribe(visit),
                        Subscribe(visit))
            /\ Sent(toServer[current] \o <<Subscribe(visit)>>, Subscribe(visit))
        BY <3>1, <3>3, <3>5, OneMore
      <4> QED BY <2>1, <3>3, <3>5, <4>1 DEF ComesIn
    <3>6. ComesIn(current, visit)' => ComesIn(current, shown)'
      BY <2>1 DEF ComesIn
    <3> QED BY <2>1, <3>2, <3>4, <3>5, <3>6 DEF FollowInv
  <2> QED BY <2>3, <2>4
<1>8. ASSUME Connect \/ ReconnectFires PROVE QueueInv' /\ FollowInv'
  <2>1. ConnectNow /\ UNCHANGED <<shown, serverEnd, dead, subscriptions, toServer>>
    BY <1>8 DEF Connect, ReconnectFires
  <2>2. CASE AlreadyConnected
    <3>1. UNCHANGED <<current, connected, isAuthenticated, messageQueue, pageEnd>>
      BY <2>1, <2>2 DEF ConnectNow
    <3>2. (AlreadyConnected' <=> AlreadyConnected) /\ (Alive' <=> Alive)
      BY <2>1, <3>1 DEF AlreadyConnected, Alive
    <3> QED BY <1>1, <1>2, <2>1, <3>1, <3>2
  <2>3. CASE ~ AlreadyConnected
    <3>1. /\ opened < MaxLinks /\ current' = opened + 1
          /\ pageEnd' = [pageEnd EXCEPT ![opened + 1] = "connecting"]
          /\ messageQueue' = Queued(HookTornDown)
      BY <2>1, <2>3 DEF ConnectNow
    <3>2. opened + 1 \in Link
      <4>1. opened \in Nat /\ MaxLinks \in Nat
        BY <1>0, LogStreamAssumption DEF LogStreamTypeOK
      <4> QED BY <3>1, <4>1 DEF Link
    <3>3. ~ Alive'
      BY <1>0, <3>1, <3>2 DEF Alive, AlreadyConnected
    <3> QED BY <3>1, <3>3, TornDown DEF QueueInv, FollowInv
  <2> QED BY <2>2, <2>3
<1>9. ASSUME NEW l \in Link, Opens(l) PROVE QueueInv' /\ FollowInv'
  <2>1. /\ pageEnd[l] = "connecting"
        /\ pageEnd' = [pageEnd EXCEPT ![l] = "open"]
        /\ serverEnd' = [serverEnd EXCEPT ![l] = "open"]
        /\ UNCHANGED <<current, isAuthenticated, messageQueue, shown, subscriptions, dead>>
    BY <1>9 DEF Opens
  <2>2. CASE l # current
    <3>1. UNCHANGED <<connected, toServer>>
      BY <1>9, <2>2 DEF Opens
    <3>2. AlreadyConnected' <=> AlreadyConnected
      BY <1>0, <2>1, <2>2 DEF AlreadyConnected
    <3>3. Alive' <=> Alive
      BY <1>0, <2>1, <2>2, <3>2 DEF Alive, AlreadyConnected
    <3> QED BY <1>1, <1>2, <2>1, <3>1, <3>2, <3>3
  <2>3. CASE l = current
    <3>1. /\ Fresh(l) /\ ~ isAuthenticated /\ ~ connected
          /\ toServer' = IF shown = NoTask THEN toServer
                         ELSE [toServer EXCEPT ![l] = <<Subscribe(shown)>>]
      <4>1. l # NoLink
        BY DEF Link, NoLink
      <4>2. Fresh(l) /\ ~ connected
        BY <2>1, <2>3, <4>1 DEF LinksInv
      <4>3. ~ isAuthenticated
        BY <2>3, <4>2 DEF LinksInv, Fresh
      <4> QED BY <1>9, <2>3, <4>2, <4>3 DEF Opens
    <3>2. QueueInv'
      BY <2>1, <3>1 DEF QueueInv
    <3>3. ASSUME NEW t \in Watchable, t # shown PROVE StaysOut(l, t)'
      <4>1. subscriptions'[l] = {}
        BY <2>1, <3>1 DEF Fresh
      <4>2. CASE shown = NoTask
        <5>1. toServer'[l] = <<>>
          BY <3>1, <4>2 DEF Fresh
        <5> QED BY <4>1, <5>1, MessagesDiffer, NoneOrOne, ZenonT(30) DEF StaysOut, Undone
      <4>3. CASE shown # NoTask
        <5>1. toServer'[l] = <<Subscribe(shown)>> /\ Subscribe(shown) \in Message
          BY <1>0, <3>1, <4>3, MessagesDiffer
        <5>2. Subscribe(shown) # Subscribe(t)
          BY <3>3, MessagesDiffer
        <5> QED BY <4>1, <5>1, <5>2, NoneOrOne DEF StaysOut, Undone
      <4> QED BY <4>2, <4>3
    <3>4. (\A t \in Watchable : t # shown => StaysOut(l, t)') /\ ~ isAuthenticated'
      BY <2>1, <3>1, <3>3
    <3>5. (\A t \in Watchable : t # shown' => StaysOut(current, t)') /\ ~ isAuthenticated'
      BY <2>1, <2>3, <3>4 DEF StaysOut
    <3> QED BY <3>2, <3>5 DEF FollowInv
  <2> QED BY <2>2, <2>3
<1>10. ASSUME NEW l \in Link, Succeeded(l) PROVE QueueInv' /\ FollowInv'
  <2>1. /\ successes[l] > 0 /\ pageEnd[l] = "open"
        /\ toServer' = Posted(l, messageQueue \o Resubscribed)
        /\ messageQueue' = <<>>
        /\ UNCHANGED <<current, shown, pageEnd, serverEnd, dead, subscriptions>>
    BY <1>10 DEF Succeeded, SentOnSuccess
  <2>2. l = current /\ AlreadyConnected
    <3>1. l = current /\ l # NoLink
      <4>1. l # current => successes[l] = 0
        BY <2>1 DEF LinksInv
      <4>2. ~ (0 > 0)
        OBVIOUS
      <4> QED BY <2>1, <4>1, <4>2 DEF Link, NoLink
    <3> QED BY <2>1, <3>1 DEF AlreadyConnected
  <2>3. \A t \in Watchable : Undone(<<>>, t)
    BY MessagesDiffer, NoneOrOne DEF Undone
  <2>4. QueueInv'
    BY <2>1, <2>3 DEF QueueInv
  <2> DEFINE news == messageQueue \o Resubscribed
  <2>5. news \in Seq(Message) /\ Resubscribed \in Seq(Message)
    BY <1>0, Resubscribing, ConcatProperties
  <2>6. ASSUME NEW t \in Watchable, t # shown PROVE Undone(news, t)
    <3>1. Undone(messageQueue, t) /\ Undone(Resubscribed, t)
      BY <1>0, <2>2, <2>6, Resubscribing DEF QueueInv
    <3> QED BY <1>0, <2>5, <3>1, AppendedAll DEF Undone
  <2>7. ASSUME shown # NoTask
        PROVE  /\ Answered(news, Unsubscribe(shown), Subscribe(shown))
               /\ Sent(news, Subscribe(shown))
    <3>1. /\ Answered(Resubscribed, Unsubscribe(shown), Subscribe(shown))
          /\ Sent(Resubscribed, Subscribe(shown))
      BY <1>0, <2>7, Resubscribing
    <3> QED BY <1>0, <2>5, <3>1, AppendedAll
  <2> HIDE DEF news
  <2>8. ASSUME Alive'
        PROVE  /\ Alive /\ toServer[current] \in Seq(Message)
               /\ toServer'[current] = toServer[current] \o news
    <3>1. Alive
      BY <2>1, <2>8 DEF Alive, AlreadyConnected
    <3>2. toServer' = [toServer EXCEPT ![current] = @ \o news]
      BY <2>1, <2>2, <3>1 DEF Posted, Alive, news
    <3> QED BY <1>0, <2>2, <3>1, <3>2
  <2>9. ASSUME Alive', NEW t \in Watchable, t # shown PROVE StaysOut(current, t)'
    <3>1. StaysOut(current, t)
      BY <2>8, <2>9 DEF FollowInv
    <3>2. Undone(toServer[current] \o news, t)
      BY <2>5, <2>6, <2>8, <2>9, <3>1, AppendedAll DEF StaysOut, Undone
    <3>3. t \notin subscriptions[current] \/ Sent(toServer[current] \o news, Unsubscribe(t))
      BY <2>5, <2>8, <2>9, <3>1, AppendedAll DEF StaysOut
    <3> QED BY <2>1, <2>8, <2>9, <3>2, <3>3 DEF StaysOut
  <2>10. ASSUME Alive', shown # NoTask PROVE ComesIn(current, shown)'
    <3>1. /\ Answered(toServer[current] \o news, Unsubscribe(shown), Subscribe(shown))
          /\ Sent(toServer[current] \o news, Subscribe(shown))
      BY <2>5, <2>7, <2>8, <2>10, AppendedAll
    <3> QED BY <2>1, <2>8, <2>10, <3>1 DEF ComesIn
  <2> QED BY <2>1, <2>4, <2>9, <2>10 DEF FollowInv
<1>11. ASSUME NEW l \in Link, LinkEnds(l) PROVE QueueInv' /\ FollowInv'
  <2>1. /\ pageEnd[l] # "none"
        /\ pageEnd' \in {[pageEnd EXCEPT ![l] = "clean"], [pageEnd EXCEPT ![l] = "unclean"]}
        /\ UNCHANGED <<current, connected, isAuthenticated, messageQueue, shown, serverEnd,
                       dead, subscriptions, toServer>>
    BY <1>11 DEF LinkEnds
  <2>2. \A k \in Link : pageEnd'[k] = "open" => pageEnd[k] = "open"
    BY <1>0, <2>1
  <2>3. AlreadyConnected' => AlreadyConnected
    BY <1>0, <2>1, <2>2 DEF AlreadyConnected
  <2>4. Alive' => Alive
    BY <2>1, <2>3 DEF Alive
  <2> QED BY <1>1, <1>2, <2>1, <2>3, <2>4
<1>12. ASSUME NEW l \in Link, Closes(l) PROVE QueueInv' /\ FollowInv'
  <2>1. /\ pageEnd[l] \in {"clean", "unclean"}
        /\ pageEnd' = [pageEnd EXCEPT ![l] = "over"]
        /\ UNCHANGED <<current, shown, serverEnd, dead, subscriptions, toServer>>
    BY <1>12 DEF Closes
  <2>2. CASE l # current
    <3>1. UNCHANGED <<connected, isAuthenticated, messageQueue>>
      BY <1>12, <2>2 DEF Closes
    <3>2. (AlreadyConnected' <=> AlreadyConnected) /\ (Alive' => Alive)
      BY <1>0, <2>1, <2>2 DEF AlreadyConnected, Alive
    <3> QED BY <1>1, <1>2, <2>1, <3>1, <3>2
  <2>3. CASE l = current
    <3>1. messageQueue' = Queued(HookTornDown)
      BY <1>12, <2>3 DEF Closes
    <3>2. ~ Alive'
      BY <1>0, <2>1, <2>3 DEF Alive, AlreadyConnected
    <3> QED BY <3>1, <3>2, TornDown DEF QueueInv, FollowInv
  <2> QED BY <2>2, <2>3
<1>13. ASSUME NEW l \in Link, Receives(l) PROVE QueueInv' /\ FollowInv'
  <2>1. /\ toServer[l] # <<>>
        /\ toServer' = [toServer EXCEPT ![l] = Tail(@)]
        /\ UNCHANGED <<current, connected, isAuthenticated, messageQueue, shown, serverEnd,
                       pageEnd, dead>>
    BY <1>13 DEF Receives
  <2>2. (AlreadyConnected' <=> AlreadyConnected) /\ (Alive' <=> Alive)
    BY <2>1 DEF AlreadyConnected, Alive
  <2>3. QueueInv'
    BY <1>1, <2>1, <2>2
  <2> DEFINE message == Head(toServer[l])
  <2>4. subscriptions' = IF message = Auth THEN subscriptions
          ELSE [subscriptions EXCEPT ![l] =
                  IF l \notin authenticated THEN @
                  ELSE IF message[1] = "subscribe" THEN @ \cup {message[2]}
                  ELSE @ \ {message[2]}]
    <3>1. CASE message = Auth
      BY <1>13, <3>1 DEF Receives
    <3>2. CASE message # Auth
      BY <1>13, <3>2 DEF Receives
    <3> QED BY <3>1, <3>2
  <2>5. CASE l # current
    <3>1. Alive => current # l /\ current \in Link
      BY <1>3, <2>5 DEF Alive
    <3>2. ASSUME Alive
          PROVE  toServer'[current] = toServer[current]
                 /\ subscriptions'[current] = subscriptions[current]
      BY <1>0, <2>1, <2>4, <3>1, <3>2
    <3>3. FollowInv'
      BY <1>2, <2>1, <2>2, <3>2
    <3> QED BY <2>3, <3>3
  <2>6. CASE l = current
    <3> DEFINE s == toServer[l]
    <3>1. /\ s \in Seq(Message) /\ s # <<>> /\ toServer'[l] = Tail(s) /\ message = Head(s)
          /\ message \in Message
      BY <1>0, <2>1, HeadTailProperties
    <3>2. /\ \A any : Sent(s, any) /\ message # any => Sent(Tail(s), any)
          /\ \A one, other : Answered(s, one, other) =>
               /\ Answered(Tail(s), one, other)
               /\ message = one => Sent(Tail(s), other)
      BY <3>1, HandledFirst
    <3>3. ASSUME NEW t \in Watchable
          PROVE  /\ message = Subscribe(t) => message # Auth /\ message[1] = "subscribe"
                                              /\ message[2] = t
                 /\ message = Unsubscribe(t) => message # Auth /\ message[1] = "unsubscribe"
                                                /\ message[2] = t
                 /\ message # Auth /\ message[2] = t =>
                      \/ message[1] = "subscribe" /\ message = Subscribe(t)
                      \/ message[1] = "unsubscribe" /\ message = Unsubscribe(t)
      BY <3>1, MessagesDiffer DEF Subscribe, Unsubscribe
    <3> HIDE DEF message, s
    <3>4. ASSUME NEW t \in Watchable
          PROVE  /\ t \in subscriptions'[l] => t \in subscriptions[l] \/ message = Subscribe(t)
                 /\ t \in subscriptions'[l] /\ l \in authenticated => message # Unsubscribe(t)
                 /\ t \in subscriptions[l] => t \in subscriptions'[l] \/ message = Unsubscribe(t)
                 /\ message = Subscribe(t) /\ l \in authenticated => t \in subscriptions'[l]
                 /\ l \notin authenticated => t \notin subscriptions'[l]
      <4>1. CASE message = Auth
        <5>1. subscriptions'[l] = subscriptions[l]
          BY <2>4, <4>1
        <5>2. l \notin authenticated => subscriptions[l] = {}
          BY DEF LinksInv
        <5> QED BY <3>3, <4>1, <5>1, <5>2
      <4>2. CASE message # Auth /\ l \notin authenticated
        <5>1. subscriptions'[l] = subscriptions[l]
          BY <1>0, <2>4, <4>2
        <5>2. subscriptions[l] = {}
          BY <4>2 DEF LinksInv
        <5> QED BY <4>2, <5>1, <5>2
      <4>3. CASE message # Auth /\ l \in authenticated /\ message[1] = "subscribe"
        <5>1. subscriptions'[l] = subscriptions[l] \cup {message[2]}
          BY <1>0, <2>4, <4>3
        <5> QED BY <3>3, <4>3, <5>1
      <4>4. CASE message # Auth /\ l \in authenticated /\ message[1] # "subscribe"
        <5>1. subscriptions'[l] = subscriptions[l] \ {message[2]}
          BY <1>0, <2>4, <4>4
        <5> QED BY <3>3, <4>4, <5>1
      <4> QED BY <4>1, <4>2, <4>3, <4>4
    <3>5. ASSUME Alive, NEW t \in Watchable, t # shown
          PROVE  Undone(Tail(s), t) /\ (t \notin subscriptions'[l] \/ Sent(Tail(s), Unsubscribe(t)))
      <4>1. Undone(s, t) /\ (t \notin subscriptions[l] \/ Sent(s, Unsubscribe(t)))
        BY <2>6, <3>5 DEF FollowInv, StaysOut, s
      <4>2. /\ Undone(Tail(s), t)
            /\ message = Subscribe(t) => Sent(Tail(s), Unsubscribe(t))
        BY <3>2, <4>1 DEF Undone
      <4>3. Sent(s, Unsubscribe(t)) => Sent(Tail(s), Unsubscribe(t)) \/ message = Unsubscribe(t)
        BY <3>2
      <4> QED BY <3>4, <4>1, <4>2, <4>3
    <3>6. ASSUME Alive, isAuthenticated, shown # NoTask
          PROVE  /\ Answered(Tail(s), Unsubscribe(shown), Subscribe(shown))
                 /\ shown \in subscriptions'[l] \/ Sent(Tail(s), Subscribe(shown))
      <4>1. /\ Answered(s, Unsubscribe(shown), Subscribe(shown))
            /\ shown \in subscriptions[l] \/ Sent(s, Subscribe(shown))
            /\ shown \in Watchable /\ l \in authenticated
        BY <1>0, <2>6, <3>6 DEF FollowInv, ComesIn, s, LinksInv
      <4>2. /\ Answered(Tail(s), Unsubscribe(shown), Subscribe(shown))
            /\ message = Unsubscribe(shown) => Sent(Tail(s), Subscribe(shown))
        BY <3>2, <4>1
      <4>3. Sent(s, Subscribe(shown))
              => Sent(Tail(s), Subscribe(shown)) \/ message = Subscribe(shown)
        BY <3>2
      <4> QED BY <3>4, <4>1, <4>2, <4>3
    <3>7. ASSUME Alive'
          PROVE  /\ \A t \in Watchable : t # shown' => StaysOut(current, t)'
                 /\ isAuthenticated' /\ shown' # NoTask => ComesIn(current, shown)'
      BY <2>1, <2>2, <2>6, <3>1, <3>5, <3>6, <3>7 DEF StaysOut, ComesIn
    <3> QED BY <2>3, <3>7 DEF FollowInv
  <2> QED BY <2>5, <2>6
<1>14. ASSUME UNCHANGED <<current, connected, isAuthenticated, messageQueue, shown, pageEnd>>,
              Alive' => Alive /\ UNCHANGED <<toServer[current], subscriptions[current]>>
       PROVE  QueueInv' /\ FollowInv'
  <2>1. AlreadyConnected' <=> AlreadyConnected
    BY <1>14 DEF AlreadyConnected
  <2> QED BY <1>1, <1>2, <1>14, <2>1
<1>15. ASSUME NEW l \in Link, AuthExpires(l) \/ HeartbeatExpires(l)
       PROVE  QueueInv' /\ FollowInv'
  <2>1. /\ UNCHANGED <<current, connected, isAuthenticated, messageQueue, shown, pageEnd, dead,
                       toServer, subscriptions>>
        /\ serverEnd' = [serverEnd EXCEPT ![l] = "closing"]
    BY <1>15 DEF AuthExpires, HeartbeatExpires
  <2>2. Alive' => Alive
    BY <1>0, <2>1 DEF Alive, AlreadyConnected
  <2> QED BY <1>14, <2>1, <2>2
<1>16. ASSUME NEW l \in Link, Disconnects(l) PROVE QueueInv' /\ FollowInv'
  <2>1. /\ UNCHANGED <<current, connected, isAuthenticated, messageQueue, shown, pageEnd, dead>>
        /\ serverEnd' = [serverEnd EXCEPT ![l] = "closed"]
        /\ subscriptions' = [subscriptions EXCEPT ![l] = {}]
        /\ toServer' = [toServer EXCEPT ![l] = <<>>]
    BY <1>16 DEF Disconnects
  <2>2. Alive' => Alive /\ current # l /\ current \in Link
    BY <1>0, <2>1 DEF Alive, AlreadyConnected
  <2>3. Alive' => UNCHANGED <<toServer[current], subscriptions[current]>>
    BY <1>0, <2>1, <2>2
  <2> QED BY <1>14, <2>1, <2>2, <2>3
<1>17. ASSUME NEW l \in Link, NetworkFails(l) PROVE QueueInv' /\ FollowInv'
  <2>1. /\ UNCHANGED <<current, connected, isAuthenticated, messageQueue, shown, pageEnd,
                       serverEnd, subscriptions>>
        /\ dead' = dead \cup {l} /\ toServer' = [toServer EXCEPT ![l] = <<>>]
    BY <1>17 DEF NetworkFails
  <2>2. Alive' => Alive /\ current # l /\ current \in Link
    BY <1>0, <2>1 DEF Alive, AlreadyConnected
  <2>3. Alive' => UNCHANGED <<toServer[current], subscriptions[current]>>
    BY <1>0, <2>1, <2>2
  <2> QED BY <1>14, <2>1, <2>2, <2>3
<1>18. ASSUME NEW graceful \in BOOLEAN, RestartServer(graceful) PROVE QueueInv' /\ FollowInv'
  <2>1. /\ UNCHANGED <<current, connected, isAuthenticated, messageQueue, shown, pageEnd>>
        /\ serverEnd' = [l \in Link |-> IF serverEnd[l] = "none" THEN "none" ELSE "closed"]
    BY <1>18 DEF RestartServer
  <2>2. ~ Alive'
    BY <1>0, <2>1 DEF Alive, AlreadyConnected
  <2> QED BY <1>14, <2>1, <2>2
<1>19. CASE UNCHANGED wsVars
  <2>1. UNCHANGED <<current, connected, isAuthenticated, messageQueue, shown, pageEnd, serverEnd,
                    dead, toServer, subscriptions>>
    BY <1>19 DEF wsVars
  <2>2. Alive' <=> Alive
    BY <2>1 DEF Alive, AlreadyConnected
  <2> QED BY <1>14, <2>1, <2>2
<1> QED BY <1>5, <1>6, <1>7, <1>8, <1>9, <1>10, <1>11, <1>12, <1>13, <1>15, <1>16, <1>17, <1>18,
           <1>19 DEF LogStreamNext

\* While the queue of the page never fills up, an authenticated page with nothing under
\* way is subscribed to the task it shows and to no other.
THEOREM SubscriptionsSettle ==
  LogStreamSpec /\ []QueueHasRoom => []SubscriptionSettled
<1>1. ASSUME LogStreamInit PROVE LinksInv /\ QueueInv /\ FollowInv
  <2>1. LinksInv
    <3>1. LogStreamTypeOK
      BY <1>1, LogStreamInitTyped
    <3> QED BY <1>1, <3>1, LogStreamAssumption DEF LogStreamInit, LinksInv, Fresh, Link, NoLink
  <2>2. \A t : Undone(<<>>, t)
    BY MessagesDiffer, NoneOrOne DEF Undone
  <2> QED BY <1>1, <2>1, <2>2
          DEF LogStreamInit, QueueInv, FollowInv, Alive, AlreadyConnected
<1>2. ASSUME LinksInv, QueueInv, FollowInv, QueueHasRoom, [LogStreamNext]_wsVars
      PROVE  LinksInv' /\ QueueInv' /\ FollowInv'
  <2>1. LogStreamTypeOK'
    BY <1>2, LogStreamTypesKept DEF LinksInv
  <2> QED BY <1>2, <2>1, LinksKept, FollowKept
<1>3. ASSUME LinksInv, FollowInv PROVE SubscriptionSettled
  <2> SUFFICES ASSUME current # NoLink, isAuthenticated, pageEnd[current] = "open",
                      serverEnd[current] = "open", current \notin dead, Quiet(current)
               PROVE  subscriptions[current] \ {AllTasks} = {shown} \ {NoTask}
    BY DEF SubscriptionSettled
  <2>1. Alive /\ toServer[current] = <<>>
    BY DEF Alive, AlreadyConnected, Quiet
  <2>2. \A any : ~ Sent(<<>>, any)
    BY DEF Sent
  <2>3. /\ \A t \in Watchable : t # shown => t \notin subscriptions[current]
        /\ shown # NoTask => shown \in subscriptions[current]
    BY <1>3, <2>1, <2>2 DEF FollowInv, StaysOut, ComesIn
  <2>4. /\ subscriptions[current] \subseteq Watchable \cup {AllTasks}
        /\ shown \in Watchable \cup {NoTask}
    BY <1>3 DEF LinksInv, LogStreamTypeOK
  <2> QED BY <2>3, <2>4, LogStreamAssumption
<1> QED BY <1>1, <1>2, <1>3, PTL DEF LogStreamSpec

\* The messages the page may still queue before it opens or shows something again: that
\* of a teardown, of an authentication, of leaving what it shows, and two for the
\* connection that may yet open.
One(b) == IF b THEN 1 ELSE 0
Owed ==
  One(connected) + One(authenticating) + One(shown # NoTask)
    + (IF current # NoLink /\ pageEnd[current] = "connecting" THEN 2 ELSE 0)

\* Two messages are queued for every connection and every task shown.
RoomInv ==
  /\ LogStreamTypeOK
  /\ opened <= MaxLinks /\ shows <= MaxShows
  /\ Len(messageQueue) + Owed <= 2 * opened + 2 * shows

LEMMA OwedCounts ==
  ASSUME LogStreamTypeOK
  PROVE  /\ Owed \in Nat /\ Len(messageQueue) \in Nat /\ opened \in Nat /\ shows \in Nat
         /\ One(connected) \in 0 .. 1 /\ One(authenticating) \in 0 .. 1
         /\ One(shown # NoTask) \in 0 .. 1
         /\ connected => One(connected) = 1
         /\ authenticating => One(authenticating) = 1
BY DEF LogStreamTypeOK, Owed, One

LEMMA QueuedAtMost ==
  ASSUME LogStreamTypeOK, NEW messages \in Seq(Message)
  PROVE  Len(Queued(messages)) <= Len(messageQueue) + Len(messages)
<1> DEFINE all == messageQueue \o messages
<1>1. /\ messageQueue \in Seq(Message) /\ all \in Seq(Message)
      /\ Len(all) = Len(messageQueue) + Len(messages) /\ Len(all) \in Nat
      /\ MaxQueueSize \in Nat
  BY LogStreamAssumption DEF LogStreamTypeOK
<1>2. Queued(messages) = IF Len(all) <= MaxQueueSize THEN all
                         ELSE SubSeq(all, 1, MaxQueueSize)
  BY DEF Queued
<1> HIDE DEF all
<1>3. CASE Len(all) <= MaxQueueSize
  BY <1>1, <1>2, <1>3
<1>4. CASE ~ (Len(all) <= MaxQueueSize)
  <2>1. Len(SubSeq(all, 1, MaxQueueSize)) = MaxQueueSize
    BY <1>1, <1>4
  <2> QED BY <1>1, <1>2, <1>4, <2>1
<1> QED BY <1>3, <1>4

\* What a teardown, and a message sent, add to the queue.
LEMMA AddedToQueue ==
  ASSUME LogStreamTypeOK
  PROVE  /\ Len(Queued(HookTornDown)) <= Len(messageQueue) + One(connected)
         /\ Len(Queued(HookTornDown)) \in Nat
         /\ \A message \in Message : Send(<<message>>) =>
              Len(messageQueue') <= Len(messageQueue) + 1 /\ Len(messageQueue') \in Nat
<1>1. /\ HookTornDown \in Seq(Message) /\ Len(HookTornDown) <= One(connected)
      /\ Len(HookTornDown) \in Nat
  <2>1. CASE connected /\ shown # NoTask
    <3>1. Unsubscribe(shown) \in Message
      BY <2>1 DEF LogStreamTypeOK, Message
    <3> QED BY <2>1, <3>1 DEF HookTornDown, One
  <2>2. CASE ~ (connected /\ shown # NoTask)
    BY <2>2 DEF HookTornDown, One
  <2> QED BY <2>1, <2>2
<1>2. \A messages \in Seq(Message) :
        Len(Queued(messages)) <= Len(messageQueue) + Len(messages) /\ Len(Queued(messages)) \in Nat
  <2> SUFFICES ASSUME NEW messages \in Seq(Message)
               PROVE  Len(Queued(messages)) <= Len(messageQueue) + Len(messages)
                      /\ Len(Queued(messages)) \in Nat
    OBVIOUS
  <2>1. Queued(messages) \in Seq(Message)
    BY LogStreamAssumption DEF LogStreamTypeOK, Queued
  <2> QED BY <2>1, QueuedAtMost
<1>3. Len(messageQueue) \in Nat /\ One(connected) \in Nat
  BY OwedCounts
<1>4. Len(Queued(HookTornDown)) <= Len(messageQueue) + One(connected)
      /\ Len(Queued(HookTornDown)) \in Nat
  BY <1>1, <1>2, <1>3
<1>5. ASSUME NEW message \in Message, Send(<<message>>)
      PROVE  Len(messageQueue') <= Len(messageQueue) + 1 /\ Len(messageQueue') \in Nat
  <2>1. <<message>> \in Seq(Message) /\ Len(<<message>>) = 1
    OBVIOUS
  <2>2. messageQueue' = messageQueue \/ messageQueue' = Queued(<<message>>)
    BY <1>5 DEF Send
  <2>3. Len(Queued(<<message>>)) <= Len(messageQueue) + 1 /\ Len(Queued(<<message>>)) \in Nat
    <3> DEFINE one == <<message>>
    <3>1. one \in Seq(Message) /\ Len(one) = 1
      BY <2>1
    <3> HIDE DEF one
    <3>2. Len(Queued(one)) <= Len(messageQueue) + Len(one) /\ Len(Queued(one)) \in Nat
      BY <1>2, <3>1
    <3>3. Len(Queued(one)) <= Len(messageQueue) + 1 /\ Len(Queued(one)) \in Nat
      BY <3>1, <3>2
    <3> QED BY <3>3 DEF one
  <2>4. CASE messageQueue' = messageQueue
    BY <1>3, <2>4
  <2>5. CASE messageQueue' = Queued(<<message>>)
    BY <2>3, <2>5
  <2> QED BY <2>2, <2>4, <2>5
<1> QED BY <1>4, <1>5

\* A step queues no more than is owed.
LEMMA RoomKept ==
  ASSUME RoomInv, [LogStreamNext]_wsVars PROVE RoomInv'
<1> DEFINE coming == IF current # NoLink /\ pageEnd[current] = "connecting" THEN 2 ELSE 0
<1>1. LogStreamTypeOK /\ LogStreamTypeOK'
  BY LogStreamTypesKept DEF RoomInv
<1>2. /\ Len(messageQueue) + Owed <= 2 * opened + 2 * shows
      /\ opened <= MaxLinks /\ shows <= MaxShows
  BY DEF RoomInv
<1>3. /\ Len(messageQueue) \in Nat /\ opened \in Nat /\ shows \in Nat
      /\ One(connected) \in Nat /\ One(authenticating) \in Nat /\ One(shown # NoTask) \in Nat
  BY <1>1, OwedCounts
<1>4. /\ current \in Link \cup {NoLink} /\ DOMAIN pageEnd = Link
      /\ connected \in BOOLEAN /\ authenticating \in BOOLEAN
  BY <1>1 DEF LogStreamTypeOK
<1>5. Owed = One(connected) + One(authenticating) + One(shown # NoTask) + coming
  BY DEF Owed
<1>6. coming \in Nat /\ coming <= 2
  OBVIOUS
<1> HIDE DEF coming
<1>7. ASSUME \/ UNCHANGED <<messageQueue, opened, shows, connected, authenticating, shown,
                            current, pageEnd>>
             \/ /\ UNCHANGED <<opened, shows, connected, authenticating, shown, current>>
                /\ messageQueue' \in {messageQueue, <<>>}
                /\ \A l \in Link : pageEnd'[l] = "connecting" => pageEnd[l] = "connecting"
      PROVE  RoomInv'
  <2>1. coming' <= coming /\ coming' \in Nat
    BY <1>4, <1>7 DEF coming
  <2>2. Owed' = One(connected) + One(authenticating) + One(shown # NoTask) + coming'
    BY <1>7 DEF Owed, coming, One
  <2>3. Len(messageQueue') <= Len(messageQueue) /\ Len(messageQueue') \in Nat
    BY <1>3, <1>7
  <2>4. opened' = opened /\ shows' = shows
    BY <1>7
  <2>5. Len(messageQueue') + Owed' <= Len(messageQueue) + Owed
    BY <1>3, <1>5, <1>6, <2>1, <2>2, <2>3, SMTT(30)
  <2>6. Len(messageQueue') + Owed' <= 2 * opened' + 2 * shows'
    <3>1. Owed \in Nat /\ Owed' \in Nat
      BY <1>3, <1>5, <1>6, <2>1, <2>2, SMTT(30)
    <3> QED BY <1>2, <1>3, <2>3, <2>4, <2>5, <3>1, SMTT(30)
  <2> QED BY <1>1, <1>2, <2>4, <2>6 DEF RoomInv
<1>8. CASE Connect \/ ReconnectFires
  <2>1. ConnectNow /\ UNCHANGED <<authenticating, shown, shows>>
    BY <1>8 DEF Connect, ReconnectFires
  <2>2. CASE AlreadyConnected
    BY <1>7, <2>1, <2>2 DEF ConnectNow
  <2>3. CASE ~ AlreadyConnected
    <3>1. /\ opened < MaxLinks /\ opened' = opened + 1
          /\ connected' = FALSE
          /\ messageQueue' = Queued(HookTornDown)
      BY <2>1, <2>3 DEF ConnectNow
    <3>2. Len(messageQueue') <= Len(messageQueue) + One(connected) /\ Len(messageQueue') \in Nat
      BY <1>1, <3>1, AddedToQueue
    <3>3. Owed' = 0 + One(authenticating) + One(shown # NoTask) + coming'
      BY <2>1, <3>1 DEF Owed, One, coming
    <3>4. coming' \in Nat /\ coming' <= 2
      BY DEF coming
    <3>5. opened' <= MaxLinks
      BY <1>3, <3>1, LogStreamAssumption
    <3>6. Len(messageQueue') + Owed' <= 2 * opened' + 2 * shows'
      <4>1. shows' = shows /\ opened' = opened + 1
        BY <2>1, <3>1
      <4>2. /\ Len(messageQueue') + Owed' <= (Len(messageQueue) + Owed) + 2
            /\ Owed \in Nat /\ Owed' \in Nat
        <5>1. Owed \in Nat /\ Owed' \in Nat
          BY <1>3, <1>5, <1>6, <3>3, <3>4, SMTT(30)
        <5>2. Owed' + One(connected) <= Owed + 2
          BY <1>3, <1>5, <1>6, <3>3, <3>4, SMTT(30)
        <5> QED BY <1>3, <3>2, <5>1, <5>2, SMTT(30)
      <4> QED BY <1>2, <1>3, <3>2, <4>1, <4>2, SMTT(30)
    <3> QED BY <1>1, <1>2, <2>1, <3>5, <3>6 DEF RoomInv
  <2> QED BY <2>2, <2>3
<1>9. CASE Authenticate
  <2>1. /\ authenticating /\ authenticating' = FALSE /\ Send(<<Auth>>)
        /\ UNCHANGED <<current, connected, shown, pageEnd, opened, shows>>
    BY <1>9 DEF Authenticate, wsRest
  <2>2. Len(messageQueue') <= Len(messageQueue) + 1 /\ Len(messageQueue') \in Nat
    <3>1. Auth \in Message
      BY DEF Message
    <3> QED BY <1>1, <2>1, <3>1, AddedToQueue
  <2>3. /\ One(authenticating) = 1
        /\ Owed' = One(connected) + 0 + One(shown # NoTask) + coming
    BY <2>1 DEF Owed, One, coming
  <2>4. /\ Len(messageQueue') + Owed' <= Len(messageQueue) + Owed
        /\ Owed \in Nat /\ Owed' \in Nat
    BY <1>3, <1>5, <1>6, <2>2, <2>3, SMTT(30)
  <2>5. opened' = opened /\ shows' = shows
    BY <2>1
  <2>6. Len(messageQueue') + Owed' <= 2 * opened' + 2 * shows'
    BY <1>2, <1>3, <2>2, <2>4, <2>5, SMTT(30)
  <2> QED BY <1>1, <1>2, <2>5, <2>6 DEF RoomInv
<1>10. ASSUME NEW t \in Watchable, Show(t) PROVE RoomInv'
  <2>1. /\ shown = NoTask /\ shown' = t /\ shows < MaxShows /\ shows' = shows + 1
        /\ UNCHANGED <<current, connected, authenticating, pageEnd, opened>>
        /\ Send(<<Subscribe(t)>>) \/ messageQueue' = messageQueue
    BY <1>10 DEF Show
  <2>2. Len(messageQueue') <= Len(messageQueue) + 1 /\ Len(messageQueue') \in Nat
    <3>1. Subscribe(t) \in Message
      BY DEF Message
    <3> QED BY <1>1, <1>3, <2>1, <3>1, AddedToQueue
  <2>3. /\ Owed' = One(connected) + One(authenticating) + One(shown' # NoTask) + coming
        /\ One(shown' # NoTask) \in Nat /\ One(shown' # NoTask) <= 1
        /\ One(shown # NoTask) = 0
    BY <2>1 DEF Owed, One, coming
  <2>4. shows' <= MaxShows
    BY <1>3, <2>1, LogStreamAssumption
  <2>5. Len(messageQueue') + Owed' <= 2 * opened' + 2 * shows'
    <3>1. /\ Len(messageQueue') + Owed' <= (Len(messageQueue) + Owed) + 2
          /\ Owed \in Nat /\ Owed' \in Nat
      BY <1>3, <1>5, <1>6, <2>2, <2>3, SMTT(30)
    <3>2. opened' = opened /\ shows' = shows + 1
      BY <2>1
    <3> QED BY <1>2, <1>3, <2>2, <3>1, <3>2, SMTT(30)
  <2> QED BY <1>1, <1>2, <2>1, <2>4, <2>5 DEF RoomInv
<1>11. CASE Leave
  <2>1. /\ shown # NoTask /\ shown' = NoTask
        /\ UNCHANGED <<current, connected, authenticating, pageEnd, opened, shows>>
        /\ Send(<<Unsubscribe(shown)>>) \/ messageQueue' = messageQueue
    BY <1>11 DEF Leave, wsRest
  <2>2. Len(messageQueue') <= Len(messageQueue) + 1 /\ Len(messageQueue') \in Nat
    <3>1. Unsubscribe(shown) \in Message
      BY <1>1, <2>1 DEF Message, LogStreamTypeOK
    <3> QED BY <1>1, <1>3, <2>1, <3>1, AddedToQueue
  <2>3. /\ Owed' = One(connected) + One(authenticating) + 0 + coming
        /\ One(shown # NoTask) = 1
    BY <2>1 DEF Owed, One, coming
  <2>4. /\ Len(messageQueue') + Owed' <= Len(messageQueue) + Owed
        /\ Owed \in Nat /\ Owed' \in Nat
    BY <1>3, <1>5, <1>6, <2>2, <2>3, SMTT(30)
  <2>5. opened' = opened /\ shows' = shows
    BY <2>1
  <2>6. Len(messageQueue') + Owed' <= 2 * opened' + 2 * shows'
    BY <1>2, <1>3, <2>2, <2>4, <2>5
  <2> QED BY <1>1, <1>2, <2>5, <2>6 DEF RoomInv
<1>12. ASSUME NEW l \in Link, Opens(l) PROVE RoomInv'
  <2>1. /\ pageEnd[l] = "connecting" /\ pageEnd' = [pageEnd EXCEPT ![l] = "open"]
        /\ UNCHANGED <<current, messageQueue, shown, opened, shows>>
    BY <1>12 DEF Opens, wsRest
  <2>2. CASE l # current
    <3>1. UNCHANGED <<connected, authenticating>>
      BY <1>12, <2>2 DEF Opens
    <3> QED BY <1>4, <1>7, <2>1, <3>1
  <2>3. CASE l = current
    <3>1. connected' = TRUE /\ authenticating' = TRUE
      BY <1>12, <2>3 DEF Opens
    <3>2. coming = 2 /\ coming' = 0
      <4>1. l # NoLink
        BY DEF Link, NoLink
      <4> QED BY <1>4, <2>1, <2>3, <4>1 DEF coming
    <3>3. Owed' = 1 + 1 + One(shown # NoTask) + 0
      BY <2>1, <3>1, <3>2 DEF Owed, One, coming
    <3>4. Len(messageQueue') + Owed' <= 2 * opened' + 2 * shows'
      BY <1>2, <1>3, <1>5, <2>1, <3>2, <3>3, SMTT(30)
    <3> QED BY <1>1, <1>2, <2>1, <3>4 DEF RoomInv
  <2> QED BY <2>2, <2>3
<1>13. ASSUME NEW l \in Link, Succeeded(l) PROVE RoomInv'
  BY <1>7, <1>13 DEF Succeeded, wsRest
<1>14. ASSUME NEW l \in Link, LinkEnds(l) PROVE RoomInv'
  <2>1. /\ UNCHANGED <<messageQueue, opened, shows, connected, authenticating, shown, current>>
        /\ \A k \in Link : pageEnd'[k] = "connecting" => pageEnd[k] = "connecting"
    BY <1>4, <1>14 DEF LinkEnds, wsPage
  <2> QED BY <1>7, <2>1
<1>15. ASSUME NEW l \in Link, Closes(l) PROVE RoomInv'
  <2>1. /\ pageEnd[l] \in {"clean", "unclean"} /\ pageEnd' = [pageEnd EXCEPT ![l] = "over"]
        /\ UNCHANGED <<opened, shows>>
    BY <1>15 DEF Closes
  <2>2. CASE l # current
    <3>1. UNCHANGED wsPage
      BY <1>15, <2>2 DEF Closes
    <3> QED BY <1>4, <1>7, <2>1, <3>1 DEF wsPage
  <2>3. CASE l = current
    <3>1. /\ connected' = FALSE /\ messageQueue' = Queued(HookTornDown)
          /\ UNCHANGED <<current, authenticating, shown>>
      BY <1>15, <2>3 DEF Closes
    <3>2. Len(messageQueue') <= Len(messageQueue) + One(connected) /\ Len(messageQueue') \in Nat
      BY <1>1, <3>1, AddedToQueue
    <3>3. coming' = 0
      BY <1>4, <2>1, <2>3, <3>1 DEF coming
    <3>4. Owed' = 0 + One(authenticating) + One(shown # NoTask) + 0
      BY <3>1, <3>3 DEF Owed, One, coming
    <3>5. Len(messageQueue') + Owed' <= 2 * opened' + 2 * shows'
      <4>1. /\ Len(messageQueue') + Owed' <= Len(messageQueue) + Owed
            /\ Owed \in Nat /\ Owed' \in Nat
        BY <1>3, <1>5, <1>6, <3>2, <3>4, SMTT(30)
      <4>2. opened' = opened /\ shows' = shows
        BY <2>1
      <4> QED BY <1>2, <1>3, <3>2, <4>1, <4>2, SMTT(30)
    <3> QED BY <1>1, <1>2, <2>1, <3>5 DEF RoomInv
  <2> QED BY <2>2, <2>3
<1>16. ASSUME NEW l \in Link,
              \/ Receives(l) \/ AuthExpires(l) \/ HeartbeatExpires(l) \/ Disconnects(l)
              \/ NetworkFails(l)
       PROVE  RoomInv'
  <2>1. UNCHANGED <<wsPage, pageEnd, opened, shows>>
    BY <1>16 DEF Receives, AuthExpires, HeartbeatExpires, Disconnects, NetworkFails,
                 wsNetwork, wsRest
  <2> QED BY <1>7, <2>1 DEF wsPage
<1>17. ASSUME NEW graceful \in BOOLEAN, RestartServer(graceful) PROVE RoomInv'
  <2>1. UNCHANGED <<wsPage, pageEnd, opened, shows>>
    BY <1>17 DEF RestartServer
  <2> QED BY <1>7, <2>1 DEF wsPage
<1>18. CASE UNCHANGED wsVars
  BY <1>7, <1>18 DEF wsVars, wsPage, wsNetwork, wsRest
<1> QED BY <1>8, <1>9, <1>10, <1>11, <1>12, <1>13, <1>14, <1>15, <1>16, <1>17, <1>18
        DEF LogStreamNext

\* The queue has room for two messages for every connection opened and every task shown:
\* one that is longer never drops any.
THEOREM LongQueuesHaveRoom ==
  2 * MaxLinks + 2 * MaxShows < MaxQueueSize => (LogStreamSpec => []QueueHasRoom)
<1> SUFFICES ASSUME 2 * MaxLinks + 2 * MaxShows < MaxQueueSize
             PROVE  LogStreamSpec => []QueueHasRoom
  OBVIOUS
<1>1. ASSUME LogStreamInit PROVE RoomInv
  <2>1. LogStreamTypeOK
    BY <1>1, LogStreamInitTyped
  <2> QED BY <1>1, <2>1, LogStreamAssumption DEF LogStreamInit, RoomInv, Owed, One
<1>2. ASSUME RoomInv PROVE QueueHasRoom
  <2>1. Len(messageQueue) + Owed <= 2 * opened + 2 * shows
        /\ opened <= MaxLinks /\ shows <= MaxShows
    BY <1>2 DEF RoomInv
  <2>2. /\ Owed \in Nat /\ Len(messageQueue) \in Nat /\ opened \in Nat /\ shows \in Nat
        /\ MaxLinks \in Nat /\ MaxShows \in Nat /\ MaxQueueSize \in Nat
    BY <1>2, OwedCounts, LogStreamAssumption DEF RoomInv
  <2> QED BY <2>1, <2>2 DEF QueueHasRoom
<1> QED BY <1>1, <1>2, RoomKept, PTL DEF LogStreamSpec

\* Where that is so, as in the runs, the page's subscription needs no other hypothesis.
THEOREM SubscriptionsSettleWithRoom ==
  2 * MaxLinks + 2 * MaxShows < MaxQueueSize => (LogStreamSpec => []SubscriptionSettled)
BY LongQueuesHaveRoom, SubscriptionsSettle, PTL

-----------------------------------------------------------------------------
(* The parts put together *)

\* A step of the server is a step of one part, and none of the others.
LEMMA StepsOfParts ==
  ASSUME [ServerNext]_<<part, partVars>>
  PROVE  /\ [SchedNext]_schedVars /\ [CompareNext]_cmpVars /\ [WorktreesNext]_wtVars
         /\ [WorkersNext]_wmVars /\ [TimeoutsNext]_toVars /\ [ChatNext]_chatVars
         /\ [LogStreamNext]_wsVars
<1>1. CASE UNCHANGED <<part, partVars>>
  BY <1>1 DEF partVars
<1>2. CASE ServerNext
  <2>1. [SchedNext]_schedVars /\ [CompareNext]_cmpVars
    BY <1>2 DEF ServerNext, SchedOne, SchedSeveral, CompareOne, CompareSeveral
  <2>2. [WorktreesNext]_wtVars /\ [WorkersNext]_wmVars
    BY <1>2 DEF ServerNext, WorkersIdle, WorkerAlone
  <2>3. [TimeoutsNext]_toVars /\ [ChatNext]_chatVars
    BY <1>2 DEF ServerNext, ChatSteps
  <2>4. [LogStreamNext]_wsVars
    BY <1>2 DEF ServerNext, StreamSteps
  <2> QED BY <2>1, <2>2, <2>3, <2>4
<1> QED BY <1>1, <1>2

\* The behaviours of the server are behaviours of each of its parts: what is proved of a
\* part holds when it is put together with the others.
THEOREM ServerImplementsParts ==
  ServerSpec => /\ SchedSpec /\ CompareSpec /\ WorktreesSpec /\ WorkersSpec
                /\ TimeoutsSpec /\ ChatSpec /\ LogStreamSpec
<1>1. ServerInit => /\ SchedInit /\ CompareInit /\ WorktreesInit /\ WorkersInit
                    /\ TimeoutsInit /\ ChatInit /\ LogStreamInit
  BY DEF ServerInit
<1> QED BY <1>1, StepsOfParts, PTL
        DEF ServerSpec, SchedSpec, CompareSpec, WorktreesSpec, WorkersSpec, TimeoutsSpec,
            ChatSpec, LogStreamSpec

\* The state of every part keeps its shapes.
THEOREM AllPartsTyped == ServerSpec => []ServerTypeOK
<1>1. ServerTypeOK <=> /\ SchedTypeOK /\ CompareTypeOK /\ WorktreesTypeOK /\ WorkersTypeOK
                       /\ TimeoutsTypeOK /\ ChatTypeOK /\ LogStreamTypeOK
  BY DEF ServerTypeOK
<1> QED BY <1>1, ServerImplementsParts, SchedulerTyped, CompareTyped, WorktreesTyped,
           WorkersTyped, TimeoutsTyped, ChatTyped, LogStreamTyped, PTL
=============================================================================
