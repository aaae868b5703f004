SPECIFICATION FairSpec
CONSTANTS
  Tasks = {t1}
  Procs = {p1}
  Callbacks = {k1}
  Retries = {}
  MaxAttempts = 2
  MaxManualRetries = 0
  BatchSize = 1
  WorkerCount = 1
  MaxSlow = 1
  MaxCrashes = 1
  MaxFaults = 1
CHECK_DEADLOCK FALSE
INVARIANT AttemptBudget
PROPERTY EveryTaskSettles
