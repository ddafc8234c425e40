CONSTANTS
  t1 = t1
  t2 = t2
  Task = {t1, t2}
  Slot = {s1, s2}
  Idle = Idle
  Priority <- Rank
  MaxRetries <- Retries
  JsonOutput = {t2}
  InitConcurrency = 1
  AutoStart = TRUE
  CleanupEnabled = TRUE
  Env <- Everything
  MaxCrashes = 1
  MaxUnsaved = 1
SPECIFICATION Spec
SYMMETRY SlotSymmetry
INVARIANT TypeOK
INVARIANT SingleExecution
INVARIANT NoLostTask
INVARIANT AbortMeansCancelled
INVARIANT CleanupArmed
INVARIANT RowAgrees
INVARIANT CountedOnce
INVARIANT ExecutionsBounded
