CONSTANTS
  t1 = t1
  t2 = t2
  Task = {t1, t2}
  Slot = {s1, s2}
  Idle = Idle
  Priority <- Rank
  MaxRetries <- Retries
  JsonOutput = {t2}
  InitConcurrency = 1
  AutoStart = TRUE
  CleanupEnabled = TRUE
  Env <- NoCancel
  MaxCrashes = 1
  MaxUnsaved = 0
SPECIFICATION Spec
PROPERTY ImplementsLifecycle
