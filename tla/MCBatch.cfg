SPECIFICATION Spec
CONSTANTS
  Tasks = {t1, t2}
  Procs = {p1}
  Callbacks = {k1}
  Retries = {m1, m2, m3}
  MaxAttempts = 1
  MaxManualRetries = 1
  BatchSize = 2
  WorkerCount = 2
  MaxSlow = 0
  MaxCrashes = 0
  MaxFaults = 1
CHECK_DEADLOCK FALSE
SYMMETRY Symmetry
INVARIANT RetryLimit
PROPERTIES LifecycleSpec ChangesLogged EveryWriteVersioned
