SPECIFICATION Spec
CONSTANTS
  Tasks = {t1}
  Procs = {p1}
  Callbacks = {k1}
  Retries = {m1}
  MaxAttempts = 1
  MaxManualRetries = 1
  BatchSize = 1
  WorkerCount = 1
  MaxSlow = 0
  MaxCrashes = 0
  MaxFaults = 0
CHECK_DEADLOCK FALSE
INVARIANT ExhaustedIsDead
