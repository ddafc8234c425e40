CONSTANTS
  Parts = {"schedule", "schedules", "comparison", "comparisons", "worktrees", "manager", "worker", "timeouts", "chats", "stream"}
  Schedule = {s1, s2}
  OneTime = {s1}
  MaxTime = 3
  TimerLimit = 2
  MaxSessionExecutions = 2
  MaxExecutions = 3
  MaxBoots = 3
  MaxSchedFaults = 1
  Comparison = {c1, c2, c3}
  FirstComparison = c1
  Agent = {claude, codex}
  MaxComparisons = 1
  MaxCreators = 2
  MaxRemovals = 1
  MaxDisturbed = 1
  MaxCompareFaults = 1
  MaxCrashes = 1
  WtTask = {w1, w2, w3}
  HomeTask = {w1, w2}
  KeepTask = {w2}
  MaxWorktrees = 1
  WtSlots = 2
  MaxWtFaults = 1
  MaxWtCrashes = 1
  Garbled = Garbled
  Worker = {k1, k2}
  Managed = {k1}
  Job = {j1, j2}
  MaxRestarts = 2
  MaxStarts = 2
  MaxExits = 1
  MaxPolls = 2
  Limits <- MCLimits
  DefaultWarnAfter = 80
  Horizon = 7
  Chat = {h1, h2, h3}
  FirstChat = h1
  Conn = {n1, n2, n3}
  Sdk = {d1, d2}
  NoSdk = NoSdk
  NoConn = NoConn
  NoChat = NoChat
  Watchable = {t1, t2}
  AllTasks = AllTasks
  NoTask = NoTask
  MaxLinks = 2
  MaxConnects = 2
  MaxShows = 2
  MaxWsFaults = 1
  MaxReconnectAttempts = 5
  MaxQueueSize = 100
SPECIFICATION ServerSpec
INVARIANTS
  ServerTypeOK
  JobIffActive
  OnceOnTime
  LimitOvershoot
  RowTruthful
  WorktreesMatch
  WorktreesSound
  RestartsBounded
  NoWorkerEscapes
  TimeoutsSound
  SessionsSound
  SubscriptionSettled
PROPERTIES
  ConversationKept
CHECK_DEADLOCK FALSE
