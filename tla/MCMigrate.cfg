SPECIFICATION FairSpec
CONSTANTS
  Procs = {api, w1, w2}
  Count = 3
  MaxErrors = 1
  MaxCrashes = 1
INVARIANTS RecordedIsChanged InOrder ReadyIsComplete FailureHasCause
PROPERTY AllBecomeReady
