CONSTANTS
  Parts = {"comparison"}
  Schedule = {s1}
  OneTime = {s1}
  MaxTime = 3
  TimerLimit = 2
  MaxSessionExecutions = 2
  MaxExecutions = 3
  MaxBoots = 3
  MaxSchedFaults = 1
  Comparison = {c1}
  FirstComparison = c1
  Agent = {claude, codex}
  MaxComparisons = 1
  MaxCreators = 2
  MaxRemovals = 1
  MaxDisturbed = 2
  MaxCompareFaults = 1
  MaxCrashes = 1
  WtTask = {w1, w2, w3}
  HomeTask = {w1, w2, w3}
  KeepTask = {w2}
  MaxWorktrees = 1
  WtSlots = 2
  MaxWtFaults = 1
  MaxWtCrashes = 1
  Garbled = Garbled
  Worker = {k1, k2}
  Managed = {k1}
  Job = {j1}
  MaxRestarts = 1
  MaxStarts = 2
  MaxExits = 1
  MaxPolls = 2
  Limits <- MCLimits
  DefaultWarnAfter = 80
  Horizon = 7
  Chat = {h1}
  FirstChat = h1
  Conn = {n1, n2, n3}
  Sdk = {d1, d2}
  NoSdk = NoSdk
  NoConn = NoConn
  NoChat = NoChat
  Watchable = {t1}
  AllTasks = AllTasks
  NoTask = NoTask
  MaxLinks = 2
  MaxConnects = 2
  MaxShows = 2
  MaxWsFaults = 1
  MaxReconnectAttempts = 5
  MaxQueueSize = 100
SPECIFICATION ServerSpec
INVARIANTS
  CancelStopsAgents
CHECK_DEADLOCK FALSE
