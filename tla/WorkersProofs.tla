--------------------------- MODULE WorkersProofs ---------------------------
(***************************************************************************)
(* Proofs about Workers for every set of workers and of tasks, any limit   *)
(* of restarts, and any number of starts and exits.                        *)
(***************************************************************************)
EXTENDS Workers, TLAPS

-----------------------------------------------------------------------------
(* Types. *)

\* A fork keeps the types of what it changes.
LEMMA ForkTyped ==
  ASSUME WorkersTypeOK, NEW w \in Worker, NEW count \in 0 .. MaxRestarts,
         NEW spawned \in BOOLEAN, Fork(w, count, spawned)
  PROVE  /\ workers' \in [Worker -> {NoEntry} \cup 0 .. MaxRestarts]
         /\ process' \in [Worker -> {"none", "up", "draining"}]
         /\ waiting' \in [Worker -> SUBSET Job] /\ polls' \in [Worker -> Nat]
         /\ forks' \in [Worker -> Nat] /\ lateForks' \subseteq Worker
<1>1. LiveRows(jobRow) \subseteq Job
  BY DEF LiveRows
<1> QED BY <1>1 DEF WorkersTypeOK, Fork

\* The number of timers for a count is a natural number, ...
LEMMA TimersCounted ==
  ASSUME WorkersTypeOK, NEW w \in Worker, NEW n \in 1 .. MaxRestarts
  PROVE  restartTimer[w][n] \in Nat
<1>1. restartTimer[w] \in [1 .. MaxRestarts -> Nat]
  BY DEF WorkersTypeOK
<1> QED BY <1>1

\* ... and setting it keeps their shape; there is none for the count 0.
LEMMA TimersTyped ==
  ASSUME WorkersTypeOK, NEW w \in Worker, NEW n \in Int, NEW k,
         n \in 1 .. MaxRestarts => k \in Nat
  PROVE  [restartTimer EXCEPT ![w][n] = k] \in [Worker -> [1 .. MaxRestarts -> Nat]]
<1>1. restartTimer[w] \in [1 .. MaxRestarts -> Nat]
  BY DEF WorkersTypeOK
<1>2. [restartTimer[w] EXCEPT ![n] = k] \in [1 .. MaxRestarts -> Nat]
  BY <1>1
<1> QED BY <1>2 DEF WorkersTypeOK

\* The end of a process keeps them.
LEMMA GoneTyped ==
  ASSUME WorkersTypeOK, NEW w \in Worker, Gone(w)
  PROVE  /\ manager' \in {"up", "stopping", "exited"}
         /\ workers' \in [Worker -> {NoEntry} \cup 0 .. MaxRestarts]
         /\ restartTimer' \in [Worker -> [1 .. MaxRestarts -> Nat]]
         /\ killTimer' \subseteq Worker /\ awaited' \subseteq Worker
         /\ process' \in [Worker -> {"none", "up", "draining"}]
         /\ waiting' \in [Worker -> SUBSET Job] /\ busy' \in [Worker -> SUBSET Job]
         /\ polls' \in [Worker -> Nat]
<1>1. /\ process' \in [Worker -> {"none", "up", "draining"}]
      /\ waiting' \in [Worker -> SUBSET Job] /\ busy' \in [Worker -> SUBSET Job]
      /\ polls' \in [Worker -> Nat]
  BY DEF WorkersTypeOK, Gone
<1>2. ArmRestart(w) \in [Worker -> [1 .. MaxRestarts -> Nat]]
  <2>1. NextRestart(w) \in Int
    <3>1. workers[w] \in {-1} \cup 0 .. MaxRestarts
      BY DEF WorkersTypeOK, NoEntry
    <3>2. workers[w] \in Int
      BY <3>1
    <3> QED BY <3>2 DEF NextRestart
  <2>2. NextRestart(w) \in 1 .. MaxRestarts => restartTimer[w][NextRestart(w)] + 1 \in Nat
    BY TimersCounted
  <2> QED BY <2>1, <2>2, TimersTyped DEF ArmRestart, WorkersTypeOK
<1>3. /\ manager' \in {"up", "stopping", "exited"}
      /\ workers' \in [Worker -> {NoEntry} \cup 0 .. MaxRestarts]
      /\ restartTimer' \in [Worker -> [1 .. MaxRestarts -> Nat]]
      /\ killTimer' \subseteq Worker /\ awaited' \subseteq Worker
  <2>1. CASE manager = "exited"
    BY <2>1 DEF WorkersTypeOK, Gone, wmManager
  <2>2. CASE manager # "exited"
    BY <1>2, <2>2 DEF WorkersTypeOK, Gone
  <2> QED BY <2>1, <2>2
<1> QED BY <1>1, <1>3

\* A step of the manager or of a worker keeps the types.
LEMMA WorkerTypesKept ==
  ASSUME WorkersTypeOK, [WorkersNext]_wmVars PROVE WorkersTypeOK'
<1> USE DEF wmManager, wmQueues, wmCounts, JobRow
<1>1. ASSUME NEW w \in Worker, NEW spawned \in BOOLEAN, StartWorker(w, spawned)
      PROVE  WorkersTypeOK'
  <2>1. 0 \in 0 .. MaxRestarts
    BY WorkersAssumption
  <2> QED BY <1>1, <2>1, ForkTyped DEF WorkersTypeOK, StartWorker
<1>2. ASSUME NEW w \in Worker, StopWorker(w) PROVE WorkersTypeOK'
  BY <1>2 DEF WorkersTypeOK, StopWorker, SigTerm, Timed
<1>3. ASSUME NEW w \in Worker, WorkerExits(w) PROVE WorkersTypeOK'
  <2>1. Gone(w) /\ exits' \in Nat /\ UNCHANGED <<jobRow, starts, forks, lateForks>>
    BY <1>3 DEF WorkersTypeOK, WorkerExits
  <2> QED BY <2>1, GoneTyped DEF WorkersTypeOK
<1>4. ASSUME NEW w \in Worker, KillFires(w) PROVE WorkersTypeOK'
  <2>1. CASE process[w] # "none"
    BY <1>4, <2>1, GoneTyped DEF WorkersTypeOK, KillFires
  <2>2. CASE process[w] = "none"
    BY <1>4, <2>2 DEF WorkersTypeOK, KillFires
  <2> QED BY <2>1, <2>2
<1>5. ASSUME NEW w \in Worker, Poll(w) PROVE WorkersTypeOK'
  <2> DEFINE failed == {j \in Job : jobRow[j] = "failed"}
  <2>1. PICK id \in Injection(failed, {j \in Job : jobRow[j] = "none"}) :
          /\ jobRow' = [j \in Job |-> IF j \in failed \cup {id[i] : i \in failed}
                                      THEN "pending" ELSE jobRow[j]]
          /\ waiting' = [waiting EXCEPT ![w] = @ \cup {id[i] : i \in failed}]
    BY <1>5 DEF Poll
  <2>2. {id[i] : i \in failed} \subseteq Job
    BY <2>1 DEF Injection
  <2>3. jobRow' \in [Job -> JobRow] /\ waiting' \in [Worker -> SUBSET Job]
    BY <2>1, <2>2 DEF WorkersTypeOK
  <2>4. polls' \in [Worker -> Nat]
    BY <1>5 DEF WorkersTypeOK, Poll, PollsAfter
  <2>5. UNCHANGED <<wmManager, process, busy, wmCounts>>
    BY <1>5 DEF Poll
  <2> QED BY <2>3, <2>4, <2>5 DEF WorkersTypeOK
<1>6. ASSUME NEW w \in Worker, NEW n \in 1 .. MaxRestarts, NEW spawned \in BOOLEAN,
             RestartFires(w, n, spawned)
      PROVE  WorkersTypeOK'
  <2>1. n \in 0 .. MaxRestarts
    OBVIOUS
  <2>2. restartTimer' \in [Worker -> [1 .. MaxRestarts -> Nat]]
    <3>1. restartTimer[w][n] - 1 \in Nat
      BY <1>6, TimersCounted DEF RestartFires
    <3> QED BY <1>6, <3>1, TimersTyped DEF RestartFires
  <2>3. CASE workers[w] = NoEntry
    BY <1>6, <2>1, <2>2, <2>3, ForkTyped DEF WorkersTypeOK, RestartFires
  <2>4. CASE workers[w] # NoEntry
    BY <1>6, <2>1, <2>2, <2>4 DEF WorkersTypeOK, RestartFires
  <2> QED BY <2>3, <2>4
<1>7. ASSUME NEW w \in Worker, NEW j \in Job, StartJob(w, j) PROVE WorkersTypeOK'
  BY <1>7 DEF WorkersTypeOK, StartJob
<1>8. ASSUME NEW w \in Worker, NEW j \in Job, NEW status \in {"ended", "failed"},
             EndJob(w, j, status)
      PROVE  WorkersTypeOK'
  BY <1>8 DEF WorkersTypeOK, EndJob
<1>9. ASSUME NEW j \in Job, SubmitJob(j) PROVE WorkersTypeOK'
  BY <1>9 DEF WorkersTypeOK, SubmitJob
<1>10. ASSUME BeginShutdown PROVE WorkersTypeOK'
  BY <1>10 DEF WorkersTypeOK, BeginShutdown, SigTerm, Timed, InMap
<1>11. ASSUME NEW signalled \in BOOLEAN, ServerExits(signalled) PROVE WorkersTypeOK'
  BY <1>11 DEF WorkersTypeOK, ServerExits
<1>12. CASE UNCHANGED wmVars
  BY <1>12 DEF WorkersTypeOK, wmVars
<1> QED BY <1>1, <1>2, <1>3, <1>4, <1>5, <1>6, <1>7, <1>8, <1>9, <1>10, <1>11, <1>12
        DEF WorkersNext

LEMMA WorkersTypedAtStart == WorkersInit => WorkersTypeOK
BY WorkersAssumption DEF WorkersInit, WorkersTypeOK, LiveRows, JobRow

\* The map, the processes, the timers and the queues keep their shapes.
THEOREM WorkersTyped == WorkersSpec => []WorkersTypeOK
<1>1. WorkersTypeOK /\ [WorkersNext]_wmVars => WorkersTypeOK'
  BY WorkerTypesKept
<1> QED BY <1>1, WorkersTypedAtStart, PTL DEF WorkersSpec

-----------------------------------------------------------------------------
(* Every process can be reached, and the shutdown reaches it. *)

\* From the shutdown on only late forks are at work.
StoppedUnlessLate ==
  manager # "up" => \A w \in Worker : process[w] = "up" => w \in lateForks

ReachInv == WorkersTypeOK /\ WorkersReachable /\ StoppedUnlessLate

\* A step keeps every process in the map, with its polls, and every one that
\* survives the shutdown among the late ones.
LEMMA ReachKept ==
  ASSUME ReachInv, [WorkersNext]_wmVars PROVE WorkersReachable' /\ StoppedUnlessLate'
<1> USE DEF wmManager, wmQueues, wmCounts, ReachInv
<1>1. ASSUME NEW w \in Worker, NEW count \in 0 .. MaxRestarts, NEW spawned \in BOOLEAN,
             Fork(w, count, spawned), UNCHANGED manager, manager # "exited"
      PROVE  WorkersReachable' /\ StoppedUnlessLate'
  <2>1. count # NoEntry
    BY WorkersAssumption DEF NoEntry
  <2>2. WorkersReachable'
    BY <1>1, <2>1 DEF WorkersTypeOK, WorkersReachable, Fork
  <2>3. StoppedUnlessLate'
    BY <1>1 DEF WorkersTypeOK, StoppedUnlessLate, Fork
  <2> QED BY <2>2, <2>3
<1>2. ASSUME NEW w \in Worker, Gone(w), UNCHANGED lateForks
      PROVE  WorkersReachable' /\ StoppedUnlessLate'
  BY <1>2 DEF WorkersTypeOK, WorkersReachable, StoppedUnlessLate, Gone
<1>3. ASSUME NEW ws, SigTerm(ws), UNCHANGED <<workers, polls, lateForks, manager>>
      PROVE  WorkersReachable' /\ StoppedUnlessLate'
  BY <1>3 DEF WorkersTypeOK, WorkersReachable, StoppedUnlessLate, SigTerm
<1>4. ASSUME NEW w \in Worker, NEW spawned \in BOOLEAN, StartWorker(w, spawned)
      PROVE  WorkersReachable' /\ StoppedUnlessLate'
  <2>1. 0 \in 0 .. MaxRestarts
    BY WorkersAssumption
  <2> QED BY <1>1, <1>4, <2>1 DEF StartWorker
<1>5. ASSUME NEW w \in Worker, StopWorker(w) PROVE WorkersReachable' /\ StoppedUnlessLate'
  BY <1>3, <1>5 DEF StopWorker
<1>6. ASSUME NEW w \in Worker, WorkerExits(w) PROVE WorkersReachable' /\ StoppedUnlessLate'
  BY <1>2, <1>6 DEF WorkerExits
<1>7. ASSUME NEW w \in Worker, KillFires(w) PROVE WorkersReachable' /\ StoppedUnlessLate'
  <2>1. CASE process[w] # "none"
    BY <1>2, <1>7, <2>1 DEF KillFires
  <2>2. CASE process[w] = "none"
    BY <1>7, <2>2 DEF KillFires, WorkersReachable, StoppedUnlessLate
  <2> QED BY <2>1, <2>2
<1>8. ASSUME NEW w \in Worker, Poll(w) PROVE WorkersReachable' /\ StoppedUnlessLate'
  <2>1. /\ UNCHANGED <<manager, workers, process, lateForks>>
        /\ polls[w] > 0
        /\ polls' = [polls EXCEPT ![w] = PollsAfter(@, {j \in Job : jobRow[j] = "failed"} = {})]
    BY <1>8 DEF Poll
  <2>2. \A v \in Worker : polls[v] > 0 => polls'[v] > 0
    BY <2>1 DEF WorkersTypeOK, PollsAfter
  <2> QED BY <2>1, <2>2 DEF WorkersReachable, StoppedUnlessLate
<1>9. ASSUME NEW w \in Worker, NEW n \in 1 .. MaxRestarts, NEW spawned \in BOOLEAN,
             RestartFires(w, n, spawned)
      PROVE  WorkersReachable' /\ StoppedUnlessLate'
  <2>1. n \in 0 .. MaxRestarts /\ n # NoEntry
    BY DEF NoEntry
  <2>2. CASE workers[w] = NoEntry
    BY <1>1, <1>9, <2>1, <2>2 DEF RestartFires
  <2>3. CASE workers[w] # NoEntry
    BY <1>9, <2>1, <2>3 DEF RestartFires, WorkersTypeOK, WorkersReachable, StoppedUnlessLate
  <2> QED BY <2>2, <2>3
<1>10. ASSUME \/ \E w \in Worker, j \in Job :
                    \/ StartJob(w, j)
                    \/ \E status \in {"ended", "failed"} : EndJob(w, j, status)
              \/ \E j \in Job : SubmitJob(j)
       PROVE  WorkersReachable' /\ StoppedUnlessLate'
  BY <1>10 DEF StartJob, EndJob, SubmitJob, WorkersReachable, StoppedUnlessLate
<1>11. ASSUME BeginShutdown PROVE WorkersReachable' /\ StoppedUnlessLate'
  <2>1. \A w \in Worker : process[w] = "up" => w \in InMap
    BY <1>11 DEF WorkersReachable, InMap, BeginShutdown
  <2>2. \A w \in Worker : process'[w] # "up"
    BY <1>11, <2>1 DEF BeginShutdown, SigTerm, WorkersTypeOK
  <2>3. \A w \in Worker : process'[w] # "none" => process[w] # "none"
    BY <1>11 DEF BeginShutdown, SigTerm, WorkersTypeOK
  <2> QED BY <1>11, <2>2, <2>3 DEF BeginShutdown, WorkersReachable, StoppedUnlessLate
<1>12. ASSUME NEW signalled \in BOOLEAN, ServerExits(signalled)
       PROVE  WorkersReachable' /\ StoppedUnlessLate'
  BY <1>12 DEF ServerExits, WorkersReachable, StoppedUnlessLate
<1>13. CASE UNCHANGED wmVars
  BY <1>13 DEF WorkersReachable, StoppedUnlessLate, wmVars
<1> QED BY <1>4, <1>5, <1>6, <1>7, <1>8, <1>9, <1>10, <1>11, <1>12, <1>13
        DEF WorkersNext

LEMMA ReachInvariant == WorkersSpec => []ReachInv
<1>1. WorkersInit => ReachInv
  BY WorkersTypedAtStart, WorkersAssumption
     DEF WorkersInit, ReachInv, WorkersReachable, StoppedUnlessLate, NoEntry
<1>2. ReachInv /\ [WorkersNext]_wmVars => ReachInv'
  BY ReachKept, WorkerTypesKept DEF ReachInv
<1> QED BY <1>1, <1>2, PTL DEF WorkersSpec

\* No worker process is out of the manager's reach while the server lives, and none
\* at work stops polling.
THEOREM NoWorkerLost == WorkersSpec => []WorkersReachable
<1>1. ReachInv => WorkersReachable
  BY DEF ReachInv
<1> QED BY <1>1, ReachInvariant, PTL

\* The shutdown tells every worker to stop that was not forked after it began.
THEOREM ShutdownReachesAll == WorkersSpec => []ShutdownStopsWorkers
<1>1. ReachInv => ShutdownStopsWorkers
  BY DEF ReachInv, StoppedUnlessLate, ShutdownStopsWorkers
<1> QED BY <1>1, ReachInvariant, PTL

\* Both at once: no process is out of reach but for those forked too late.
THEOREM NobodyEscapes == WorkersSpec => []NoWorkerEscapes
<1>1. WorkersReachable /\ ShutdownStopsWorkers => NoWorkerEscapes
  BY DEF NoWorkerEscapes
<1> QED BY <1>1, NoWorkerLost, ShutdownReachesAll, PTL

-----------------------------------------------------------------------------
(* The number of forks. *)

\* Products, which the steps below need these facts of only.
Times(a, b) == a * b

LEMMA TimesFacts ==
  ASSUME NEW a \in Nat, NEW b \in Nat
  PROVE  /\ Times(a, b) \in Nat
         /\ Times(a + 1, b) = Times(a, b) + b
         /\ a > 0 => Times(a - 1, b) = Times(a, b) - b /\ Times(a, b) >= b
         /\ a = 0 => Times(a, b) = 0
<1>1. a * b \in Nat
  OBVIOUS
<1>2. (a + 1) * b = a * b + b
  OBVIOUS
<1>3. (a - 1) * b = a * b - b
  OBVIOUS
<1>4. a > 0 => a * b >= b
  <2> SUFFICES ASSUME a > 0 PROVE a * b >= b
    OBVIOUS
  <2>1. a - 1 \in Nat
    OBVIOUS
  <2>2. (a - 1) * b \in Nat
    BY <2>1
  <2> QED BY <1>1, <1>3, <2>2
<1>5. a = 0 => a * b = 0
  OBVIOUS
<1> QED BY <1>1, <1>2, <1>3, <1>4, <1>5 DEF Times

\* What a timer with count n can still lead to: itself and as many forks as n is
\* below the limit.
Cost(n) == MaxRestarts + 1 - n

LEMMA CostCounted ==
  ASSUME NEW n \in 1 .. MaxRestarts PROVE Cost(n) \in Nat /\ n - 1 \in 0 .. MaxRestarts
                                          /\ n \in 0 .. MaxRestarts
BY WorkersAssumption DEF Cost

\* f[n] is the number of forks that the restart timers t with counts up to n can
\* still lead to.
Sums(t, f)  == /\ f[0] = 0
               /\ \A n \in 1 .. MaxRestarts : f[n] = f[n - 1] + Times(t[n], Cost(n))
Rising(f)   == \A i, j \in 0 .. MaxRestarts : i <= j => f[i] <= f[j]
Tally(t, f) == Sums(t, f) /\ Rising(f)

\* The sums once the number of timers for n has changed and k was added from n on.
LEMMA TallyChanged ==
  ASSUME NEW t \in [1 .. MaxRestarts -> Nat], NEW f \in [0 .. MaxRestarts -> Nat],
         Tally(t, f), NEW n \in 1 .. MaxRestarts, NEW m \in Nat, NEW k \in Int,
         Times(m, Cost(n)) = Times(t[n], Cost(n)) + k, f[n] + k >= f[n - 1]
  PROVE  \E g \in [0 .. MaxRestarts -> Nat] :
           /\ Tally([t EXCEPT ![n] = m], g)
           /\ g[MaxRestarts] = f[MaxRestarts] + k
<1> DEFINE g == [i \in 0 .. MaxRestarts |-> IF i >= n THEN f[i] + k ELSE f[i]]
           u == [t EXCEPT ![n] = m]
<1>0. /\ MaxRestarts \in Nat /\ n - 1 \in 0 .. MaxRestarts /\ n \in 0 .. MaxRestarts
      /\ 0 \in 0 .. MaxRestarts /\ MaxRestarts \in 0 .. MaxRestarts
      /\ n \in Int
  BY WorkersAssumption, CostCounted
<1>1. \A i \in 0 .. MaxRestarts : f[i] \in Nat
  OBVIOUS
<1>2. \A i \in 0 .. MaxRestarts : i >= n => f[i] + k \in Nat /\ f[i] + k >= f[n - 1]
  <2> SUFFICES ASSUME NEW i \in 0 .. MaxRestarts, i >= n
               PROVE f[i] + k \in Nat /\ f[i] + k >= f[n - 1]
    OBVIOUS
  <2>1. f[n] <= f[i]
    BY <1>0 DEF Tally, Rising
  <2>2. f[n] \in Nat /\ f[i] \in Nat /\ f[n - 1] \in Nat
    BY <1>0, <1>1
  <2> HIDE DEF g
  <2> QED BY <2>1, <2>2
<1>3. g \in [0 .. MaxRestarts -> Nat]
  BY <1>1, <1>2
<1>4. g[0] = 0 /\ g[MaxRestarts] = f[MaxRestarts] + k
  BY <1>0 DEF Tally, Sums
<1>5. ASSUME NEW i \in 1 .. MaxRestarts PROVE g[i] = g[i - 1] + Times(u[i], Cost(i))
  <2>1. i - 1 \in 0 .. MaxRestarts /\ i \in 0 .. MaxRestarts /\ Cost(i) \in Nat
    BY CostCounted
  <2>2. f[i] = f[i - 1] + Times(t[i], Cost(i))
    BY DEF Tally, Sums
  <2>3. f[i] \in Nat /\ f[i - 1] \in Nat /\ t[i] \in Nat
    BY <1>1, <2>1
  <2>4. Times(t[i], Cost(i)) \in Nat
    BY <2>1, <2>3, TimesFacts
  <2>5. CASE i = n
    <3>1. g[i] = f[i] + k
      BY <1>0, <2>1, <2>5
    <3>2. g[i - 1] = f[i - 1]
      BY <1>0, <2>1, <2>5
    <3>3. Times(u[i], Cost(i)) = Times(t[i], Cost(i)) + k
      BY <2>5
    <3> HIDE DEF g, u
    <3> QED BY <2>2, <2>3, <2>4, <3>1, <3>2, <3>3
  <2>6. CASE i > n
    <3>1. g[i] = f[i] + k
      BY <1>0, <2>1, <2>6
    <3>2. g[i - 1] = f[i - 1] + k
      BY <1>0, <2>1, <2>6
    <3>3. u[i] = t[i]
      BY <2>6
    <3> HIDE DEF g, u
    <3> QED BY <2>2, <2>3, <2>4, <3>1, <3>2, <3>3
  <2>7. CASE i < n
    <3>1. g[i] = f[i] /\ g[i - 1] = f[i - 1] /\ u[i] = t[i]
      BY <1>0, <2>1, <2>7
    <3> QED BY <2>2, <3>1
  <2> QED BY <1>0, <2>5, <2>6, <2>7
<1>6. ASSUME NEW i \in 0 .. MaxRestarts, NEW j \in 0 .. MaxRestarts, i <= j
      PROVE  g[i] <= g[j]
  <2>1. f[i] <= f[j] /\ f[i] \in Nat /\ f[j] \in Nat
    BY <1>1, <1>6 DEF Tally, Rising
  <2>2. CASE i < n /\ n <= j
    <3>1. f[i] <= f[n - 1] /\ f[n - 1] \in Nat
      <4>1. i <= n - 1
        BY <1>0, <2>2
      <4> QED BY <1>0, <1>1, <4>1 DEF Tally, Rising
    <3>2. g[i] = f[i] /\ g[j] = f[j] + k
      BY <1>0, <2>2
    <3>3. f[j] + k >= f[n - 1]
      BY <1>2, <2>2
    <3> HIDE DEF g
    <3> QED BY <2>1, <3>1, <3>2, <3>3
  <2>3. CASE i >= n
    <3>1. g[i] = f[i] + k /\ g[j] = f[j] + k
      BY <1>0, <1>6, <2>3
    <3> HIDE DEF g
    <3> QED BY <2>1, <3>1
  <2>4. CASE j < n
    <3>1. g[i] = f[i] /\ g[j] = f[j]
      BY <1>0, <1>6, <2>4
    <3> QED BY <2>1, <3>1
  <2> QED BY <1>0, <2>2, <2>3, <2>4
<1> HIDE DEF g, u
<1>7. Tally(u, g)
  BY <1>4, <1>5, <1>6 DEF Tally, Sums, Rising
<1> QED BY <1>3, <1>4, <1>7 DEF u

\* One timer more with count n.
LEMMA TallyMore ==
  ASSUME NEW t \in [1 .. MaxRestarts -> Nat], NEW f \in [0 .. MaxRestarts -> Nat],
         Tally(t, f), NEW n \in 1 .. MaxRestarts
  PROVE  \E g \in [0 .. MaxRestarts -> Nat] :
           /\ Tally([t EXCEPT ![n] = @ + 1], g)
           /\ g[MaxRestarts] = f[MaxRestarts] + Cost(n)
<1>1. t[n] \in Nat /\ t[n] + 1 \in Nat /\ Cost(n) \in Nat /\ Cost(n) \in Int
  BY CostCounted
<1>2. Times(t[n] + 1, Cost(n)) = Times(t[n], Cost(n)) + Cost(n)
  BY <1>1, TimesFacts
<1>3. f[n] + Cost(n) >= f[n - 1]
  <2>1. n - 1 \in 0 .. MaxRestarts /\ n \in 0 .. MaxRestarts
    BY CostCounted
  <2>2. f[n - 1] <= f[n] /\ f[n] \in Nat /\ f[n - 1] \in Nat
    BY <2>1 DEF Tally, Rising
  <2> QED BY <1>1, <2>2
<1> DEFINE m == t[n] + 1
           k == Cost(n)
<1>4. /\ m \in Nat /\ k \in Int
      /\ Times(m, Cost(n)) = Times(t[n], Cost(n)) + k /\ f[n] + k >= f[n - 1]
  BY <1>1, <1>2, <1>3
<1> HIDE DEF m, k
<1>5. \E g \in [0 .. MaxRestarts -> Nat] :
        Tally([t EXCEPT ![n] = m], g) /\ g[MaxRestarts] = f[MaxRestarts] + k
  BY <1>4, TallyChanged
<1> QED BY <1>5 DEF m, k

\* One timer with count n less.
LEMMA TallyLess ==
  ASSUME NEW t \in [1 .. MaxRestarts -> Nat], NEW f \in [0 .. MaxRestarts -> Nat],
         Tally(t, f), NEW n \in 1 .. MaxRestarts, t[n] > 0
  PROVE  \E g \in [0 .. MaxRestarts -> Nat] :
           /\ Tally([t EXCEPT ![n] = @ - 1], g)
           /\ g[MaxRestarts] = f[MaxRestarts] - Cost(n)
<1>1. t[n] \in Nat /\ t[n] - 1 \in Nat /\ Cost(n) \in Nat /\ - Cost(n) \in Int
  BY CostCounted
<1>2. /\ Times(t[n] - 1, Cost(n)) = Times(t[n], Cost(n)) - Cost(n)
      /\ Times(t[n], Cost(n)) >= Cost(n) /\ Times(t[n], Cost(n)) \in Nat
  BY <1>1, TimesFacts
<1>3. Times(t[n] - 1, Cost(n)) = Times(t[n], Cost(n)) + (- Cost(n))
  BY <1>1, <1>2
<1>4. n - 1 \in 0 .. MaxRestarts /\ n \in 0 .. MaxRestarts /\ MaxRestarts \in 0 .. MaxRestarts
  BY CostCounted, WorkersAssumption
<1>5. f[n] \in Nat /\ f[n - 1] \in Nat /\ f[MaxRestarts] \in Nat
  BY <1>4
<1>6. f[n] + (- Cost(n)) >= f[n - 1]
  <2>1. f[n] = f[n - 1] + Times(t[n], Cost(n))
    BY DEF Tally, Sums
  <2> QED BY <1>1, <1>2, <1>5, <2>1, SMTT(30)
<1> DEFINE m == t[n] - 1
           k == - Cost(n)
<1>7. /\ m \in Nat /\ k \in Int
      /\ Times(m, Cost(n)) = Times(t[n], Cost(n)) + k /\ f[n] + k >= f[n - 1]
  BY <1>1, <1>3, <1>6
<1>8. f[MaxRestarts] + k = f[MaxRestarts] - Cost(n)
  BY <1>1, <1>5
<1> HIDE DEF m, k
<1>9. \E g \in [0 .. MaxRestarts -> Nat] :
        Tally([t EXCEPT ![n] = m], g) /\ g[MaxRestarts] = f[MaxRestarts] + k
  BY <1>7, TallyChanged
<1> QED BY <1>8, <1>9 DEF m

\* The figures of a budget are natural numbers.
LEMMA FiguresCounted ==
  ASSUME WorkersTypeOK, NEW w \in Worker, NEW f \in [0 .. MaxRestarts -> Nat]
  PROVE  /\ forks[w] \in Nat /\ starts[w] \in Nat /\ f[MaxRestarts] \in Nat
         /\ Times(starts[w], MaxRestarts + 1) \in Nat
<1>1. MaxRestarts \in 0 .. MaxRestarts /\ MaxRestarts + 1 \in Nat
  BY WorkersAssumption
<1>2. forks[w] \in Nat /\ starts[w] \in Nat
  BY DEF WorkersTypeOK
<1> QED BY <1>1, <1>2, TimesFacts

\* The forks an entry can still lead to.
Left(w) == IF workers[w] = NoEntry THEN 0 ELSE MaxRestarts - workers[w]

\* The forks so far and the ones to come are within the bound.
Budget(w) ==
  \E f \in [0 .. MaxRestarts -> Nat] :
    /\ Tally(restartTimer[w], f)
    /\ forks[w] + f[MaxRestarts] + Left(w) <= Times(starts[w], MaxRestarts + 1)

BudgetInv == ReachInv /\ \A w \in Worker : Budget(w)

\* The end of the process of an entry keeps the budget.
LEMMA GoneInBudget ==
  ASSUME BudgetInv, NEW w \in Worker, Gone(w), process[w] # "none",
         UNCHANGED <<starts, forks>>
  PROVE  \A v \in Worker : Budget(v)'
<1>0. MaxRestarts \in Nat /\ WorkersTypeOK
  BY WorkersAssumption DEF BudgetInv, ReachInv
<1>1. CASE manager = "exited"
  BY <1>1 DEF BudgetInv, Budget, Left, Gone, wmManager
<1>2. CASE manager # "exited"
  <2>1. /\ restartTimer' = ArmRestart(w)
        /\ workers' = [workers EXCEPT ![w] = NoEntry]
    BY <1>2 DEF Gone
  <2>2. workers[w] \in 0 .. MaxRestarts
    BY <1>0, <1>2 DEF BudgetInv, ReachInv, WorkersReachable, WorkersTypeOK
  <2>3. ASSUME NEW v \in Worker, v # w PROVE Budget(v)'
    <3>1. workers'[v] = workers[v]
      BY <1>0, <2>1, <2>3 DEF WorkersTypeOK
    <3>2. restartTimer'[v] = restartTimer[v]
      BY <1>0, <2>1, <2>3 DEF ArmRestart, WorkersTypeOK
    <3> QED BY <3>1, <3>2 DEF BudgetInv, Budget, Left
  <2>4. Budget(w)'
    <3>1. PICK f \in [0 .. MaxRestarts -> Nat] :
            /\ Tally(restartTimer[w], f)
            /\ forks[w] + f[MaxRestarts] + Left(w) <= Times(starts[w], MaxRestarts + 1)
      BY DEF BudgetInv, Budget
    <3>2. Left(w)' = 0 /\ Left(w) = MaxRestarts - workers[w]
      BY <1>0, <2>1, <2>2 DEF Left, WorkersTypeOK, NoEntry
    <3>3. /\ forks[w] \in Nat /\ Times(starts[w], MaxRestarts + 1) \in Nat
          /\ f[MaxRestarts] \in Nat
      BY <1>0, FiguresCounted
    <3>4. CASE manager = "up" /\ workers[w] < MaxRestarts
      <4>1. workers[w] + 1 \in 1 .. MaxRestarts
        BY <1>0, <2>2, <3>4
      <4>2. restartTimer'[w] = [restartTimer[w] EXCEPT ![workers[w] + 1] = @ + 1]
        BY <1>0, <2>1, <3>4 DEF ArmRestart, NextRestart, WorkersTypeOK
      <4>3. restartTimer[w] \in [1 .. MaxRestarts -> Nat]
        BY <1>0 DEF WorkersTypeOK
      <4>4. PICK g \in [0 .. MaxRestarts -> Nat] :
              /\ Tally([restartTimer[w] EXCEPT ![workers[w] + 1] = @ + 1], g)
              /\ g[MaxRestarts] = f[MaxRestarts] + Cost(workers[w] + 1)
        BY <3>1, <4>1, <4>3, TallyMore
      <4>5. Cost(workers[w] + 1) = Left(w) /\ Left(w) \in Nat
        BY <1>0, <2>2, <3>2, <3>4, SMTT(30) DEF Cost
      <4>6. forks[w] + g[MaxRestarts] + Left(w)' <= Times(starts[w], MaxRestarts + 1)
        BY <3>1, <3>2, <3>3, <4>4, <4>5
      <4> QED BY <4>2, <4>4, <4>6 DEF Budget
    <3>5. CASE ~ (manager = "up" /\ workers[w] < MaxRestarts)
      <4>1. restartTimer' = restartTimer
        BY <2>1, <3>5 DEF ArmRestart
      <4>2. forks[w] + f[MaxRestarts] + Left(w)' <= Times(starts[w], MaxRestarts + 1)
        BY <1>0, <2>2, <3>1, <3>2, <3>3
      <4> QED BY <3>1, <4>1, <4>2 DEF Budget
    <3> QED BY <3>4, <3>5
  <2> QED BY <2>3, <2>4
<1> QED BY <1>1, <1>2

\* A step keeps the budget of every worker.
LEMMA BudgetKept ==
  ASSUME BudgetInv, [WorkersNext]_wmVars PROVE \A v \in Worker : Budget(v)'
<1> USE DEF wmManager, wmQueues, wmCounts
<1>0. MaxRestarts \in Nat /\ WorkersTypeOK /\ WorkersReachable
  BY WorkersAssumption DEF BudgetInv, ReachInv
<1>1. ASSUME UNCHANGED <<workers, restartTimer, starts, forks>>
      PROVE  \A v \in Worker : Budget(v)'
  BY <1>1 DEF BudgetInv, Budget, Left
<1>2. ASSUME NEW w \in Worker, NEW spawned \in BOOLEAN, StartWorker(w, spawned)
      PROVE  \A v \in Worker : Budget(v)'
  <2>1. /\ workers' = [workers EXCEPT ![w] = 0] /\ workers[w] = NoEntry
        /\ forks' = [forks EXCEPT ![w] = @ + 1]
        /\ starts' = [starts EXCEPT ![w] = @ + 1]
        /\ restartTimer' = restartTimer
    BY <1>2 DEF StartWorker, Fork
  <2>2. ASSUME NEW v \in Worker, v # w PROVE Budget(v)'
    <3>1. /\ workers'[v] = workers[v] /\ forks'[v] = forks[v] /\ starts'[v] = starts[v]
      BY <1>0, <2>1, <2>2 DEF WorkersTypeOK
    <3> QED BY <2>1, <3>1 DEF BudgetInv, Budget, Left
  <2>3. Budget(w)'
    <3>1. PICK f \in [0 .. MaxRestarts -> Nat] :
            /\ Tally(restartTimer[w], f)
            /\ forks[w] + f[MaxRestarts] + Left(w) <= Times(starts[w], MaxRestarts + 1)
      BY DEF BudgetInv, Budget
    <3>2. Left(w)' = MaxRestarts /\ Left(w) = 0
      BY <1>0, <2>1 DEF Left, WorkersTypeOK, NoEntry
    <3>3. /\ forks[w] \in Nat /\ starts[w] \in Nat /\ f[MaxRestarts] \in Nat
          /\ Times(starts[w], MaxRestarts + 1) \in Nat
      BY <1>0, FiguresCounted
    <3>4. forks'[w] = forks[w] + 1 /\ starts'[w] = starts[w] + 1
      BY <1>0, <2>1 DEF WorkersTypeOK
    <3>5. Times(starts'[w], MaxRestarts + 1)
            = Times(starts[w], MaxRestarts + 1) + (MaxRestarts + 1)
      <4>1. MaxRestarts + 1 \in Nat
        BY <1>0
      <4>2. Times(starts[w] + 1, MaxRestarts + 1)
              = Times(starts[w], MaxRestarts + 1) + (MaxRestarts + 1)
        BY <3>3, <4>1, TimesFacts
      <4> QED BY <3>4, <4>2
    <3>6. forks'[w] + f[MaxRestarts] + Left(w)' <= Times(starts'[w], MaxRestarts + 1)
      BY <1>0, <3>1, <3>2, <3>3, <3>4, <3>5
    <3> QED BY <2>1, <3>1, <3>6 DEF Budget
  <2> QED BY <2>2, <2>3
<1>3. ASSUME NEW w \in Worker, WorkerExits(w) PROVE \A v \in Worker : Budget(v)'
  BY <1>3, GoneInBudget DEF WorkerExits
<1>4. ASSUME NEW w \in Worker, KillFires(w) PROVE \A v \in Worker : Budget(v)'
  <2>1. CASE process[w] # "none"
    BY <1>4, <2>1, GoneInBudget DEF KillFires
  <2>2. CASE process[w] = "none"
    BY <1>1, <1>4, <2>2 DEF KillFires
  <2> QED BY <2>1, <2>2
<1>5. ASSUME NEW w \in Worker, NEW n \in 1 .. MaxRestarts, NEW spawned \in BOOLEAN,
             RestartFires(w, n, spawned)
      PROVE  \A v \in Worker : Budget(v)'
  <2>1. /\ restartTimer[w][n] > 0
        /\ restartTimer' = [restartTimer EXCEPT ![w][n] = @ - 1]
        /\ workers' = [workers EXCEPT ![w] = n]
        /\ forks' = IF workers[w] = NoEntry THEN [forks EXCEPT ![w] = @ + 1] ELSE forks
        /\ starts' = starts
    BY <1>5 DEF RestartFires, Fork
  <2>2. ASSUME NEW v \in Worker, v # w PROVE Budget(v)'
    <3>1. /\ workers'[v] = workers[v] /\ forks'[v] = forks[v] /\ starts'[v] = starts[v]
          /\ restartTimer'[v] = restartTimer[v]
      BY <1>0, <2>1, <2>2 DEF WorkersTypeOK
    <3> QED BY <3>1 DEF BudgetInv, Budget, Left
  <2>3. Budget(w)'
    <3>1. PICK f \in [0 .. MaxRestarts -> Nat] :
            /\ Tally(restartTimer[w], f)
            /\ forks[w] + f[MaxRestarts] + Left(w) <= Times(starts[w], MaxRestarts + 1)
      BY DEF BudgetInv, Budget
    <3>2. restartTimer[w] \in [1 .. MaxRestarts -> Nat]
      BY <1>0 DEF WorkersTypeOK
    <3>3. restartTimer'[w] = [restartTimer[w] EXCEPT ![n] = @ - 1]
      BY <1>0, <2>1 DEF WorkersTypeOK
    <3>4. PICK g \in [0 .. MaxRestarts -> Nat] :
            /\ Tally([restartTimer[w] EXCEPT ![n] = @ - 1], g)
            /\ g[MaxRestarts] = f[MaxRestarts] - Cost(n)
      BY <2>1, <3>1, <3>2, TallyLess
    <3>5. Left(w)' = MaxRestarts - n
      <4>1. workers'[w] = n /\ n # NoEntry
        BY <1>0, <2>1 DEF WorkersTypeOK, NoEntry
      <4> QED BY <4>1 DEF Left
    <3>6. /\ forks[w] \in Nat /\ Times(starts[w], MaxRestarts + 1) \in Nat
          /\ f[MaxRestarts] \in Nat
      BY <1>0, FiguresCounted
    <3>7. /\ starts'[w] = starts[w]
          /\ forks'[w] = IF workers[w] = NoEntry THEN forks[w] + 1 ELSE forks[w]
      BY <1>0, <2>1 DEF WorkersTypeOK
    <3>8. Left(w) \in Nat /\ (workers[w] = NoEntry => Left(w) = 0)
      <4>1. workers[w] \in {NoEntry} \cup 0 .. MaxRestarts
        BY <1>0 DEF WorkersTypeOK
      <4> QED BY <1>0, <4>1 DEF Left
    <3>9. forks'[w] + g[MaxRestarts] + Left(w)' <= Times(starts'[w], MaxRestarts + 1)
      <4>1. Left(w)' + 1 = Cost(n) /\ Left(w)' \in Nat /\ Cost(n) \in Nat
        BY <1>0, <3>5 DEF Cost
      <4>2. forks'[w] + g[MaxRestarts] + Left(w)' <= Times(starts[w], MaxRestarts + 1)
        <5>1. CASE workers[w] = NoEntry
          <6>1. forks'[w] = forks[w] + 1 /\ Left(w) = 0
            BY <3>7, <3>8, <5>1
          <6> QED BY <3>1, <3>4, <3>6, <4>1, <6>1, SMTT(30)
        <5>2. CASE workers[w] # NoEntry
          <6>1. forks'[w] = forks[w]
            BY <3>7, <5>2
          <6> QED BY <3>1, <3>4, <3>6, <3>8, <4>1, <6>1, SMTT(30)
        <5> QED BY <5>1, <5>2
      <4> QED BY <3>7, <4>2
    <3> QED BY <3>3, <3>4, <3>9 DEF Budget
  <2> QED BY <2>2, <2>3
<1>6. ASSUME \/ BeginShutdown
             \/ \E w \in Worker : StopWorker(w) \/ Poll(w)
             \/ \E w \in Worker, j \in Job :
                  \/ StartJob(w, j)
                  \/ \E status \in {"ended", "failed"} : EndJob(w, j, status)
             \/ \E j \in Job : SubmitJob(j)
             \/ \E signalled \in BOOLEAN : ServerExits(signalled)
      PROVE  \A v \in Worker : Budget(v)'
  <2>1. UNCHANGED <<workers, restartTimer, starts, forks>>
    BY <1>6 DEF BeginShutdown, StopWorker, Poll, StartJob, EndJob, SubmitJob, ServerExits
  <2> QED BY <1>1, <2>1
<1>7. CASE UNCHANGED wmVars
  BY <1>1, <1>7 DEF wmVars
<1> QED BY <1>2, <1>3, <1>4, <1>5, <1>6, <1>7 DEF WorkersNext

\* Each start that is asked for leads to at most maxRestarts forks more, whatever
\* restart timers and starts by hand do to each other's counts.
THEOREM RestartsAreBounded == WorkersSpec => []RestartsBounded
<1>0. MaxRestarts \in Nat
  BY WorkersAssumption
<1>1. WorkersInit => BudgetInv
  <2> SUFFICES ASSUME WorkersInit PROVE BudgetInv
    OBVIOUS
  <2>1. ReachInv
    BY WorkersTypedAtStart, WorkersAssumption
       DEF WorkersInit, ReachInv, WorkersReachable, StoppedUnlessLate, NoEntry
  <2>2. ASSUME NEW w \in Worker PROVE Budget(w)
    <3> DEFINE f == [n \in 0 .. MaxRestarts |-> 0]
    <3>1. f \in [0 .. MaxRestarts -> Nat]
      OBVIOUS
    <3>2. restartTimer[w] = [n \in 1 .. MaxRestarts |-> 0]
      BY DEF WorkersInit
    <3>3. Tally(restartTimer[w], f)
      <4>1. \A n \in 1 .. MaxRestarts : Times(restartTimer[w][n], Cost(n)) = 0
        <5> SUFFICES ASSUME NEW n \in 1 .. MaxRestarts
                     PROVE Times(restartTimer[w][n], Cost(n)) = 0
          OBVIOUS
        <5>1. restartTimer[w][n] = 0 /\ 0 \in Nat /\ Cost(n) \in Nat
          BY <3>2, CostCounted
        <5> QED BY <5>1, TimesFacts
      <4> QED BY <1>0, <4>1 DEF Tally, Sums, Rising
    <3>4. forks[w] + f[MaxRestarts] + Left(w) <= Times(starts[w], MaxRestarts + 1)
      BY <1>0 DEF WorkersInit, Left, NoEntry, Times
    <3> QED BY <3>1, <3>3, <3>4 DEF Budget
  <2> QED BY <2>1, <2>2 DEF BudgetInv
<1>2. BudgetInv /\ [WorkersNext]_wmVars => BudgetInv'
  <2> SUFFICES ASSUME BudgetInv, [WorkersNext]_wmVars PROVE BudgetInv'
    OBVIOUS
  <2>1. \A w \in Worker : Budget(w)'
    BY BudgetKept
  <2>2. ReachInv'
    BY ReachKept, WorkerTypesKept DEF BudgetInv, ReachInv
  <2> QED BY <2>1, <2>2 DEF BudgetInv
<1>3. BudgetInv => RestartsBounded
  <2> SUFFICES ASSUME BudgetInv, NEW w \in Worker
               PROVE forks[w] <= Times(starts[w], MaxRestarts + 1)
    BY DEF RestartsBounded, Times
  <2>1. PICK f \in [0 .. MaxRestarts -> Nat] :
          forks[w] + f[MaxRestarts] + Left(w) <= Times(starts[w], MaxRestarts + 1)
    BY DEF BudgetInv, Budget
  <2>2. WorkersTypeOK
    BY DEF BudgetInv, ReachInv
  <2>3. Left(w) \in Nat
    <3>1. workers[w] \in {NoEntry} \cup 0 .. MaxRestarts
      BY <2>2 DEF WorkersTypeOK
    <3> QED BY <1>0, <3>1 DEF Left
  <2>4. forks[w] \in Nat /\ Times(starts[w], MaxRestarts + 1) \in Nat /\ f[MaxRestarts] \in Nat
    BY <2>2, FiguresCounted
  <2> QED BY <2>1, <2>3, <2>4
<1> QED BY <1>1, <1>2, <1>3, PTL DEF WorkersSpec
=============================================================================
