SPECIFICATION Spec
CONSTANTS
  Tasks = {t1}
  Procs = {p1, p2}
  Callbacks = {k1, k2}
  Retries = {m1}
  MaxAttempts = 1
  MaxManualRetries = 1
  BatchSize = 1
  WorkerCount = 1
  MaxSlow = 1
  MaxCrashes = 1
  MaxFaults = 0
CHECK_DEADLOCK FALSE
SYMMETRY Symmetry
INVARIANTS FenceSound SingleOwner StageLedger VerdictGate FailureLedger DeadIsExhausted
