SPECIFICATION FairSpec
CONSTANTS
  Requests = {1, 2, 3}
  Calls <- MCCalls
  Scrapes <- MCScrapes
  Mixes <- MCMixes
  Statuses = {500}
  Durations <- MCDurations
  Bounds = {0, 1, 2}
  MaxBytes = 1
INVARIANTS Ledger  SnapshotBounds SnapshotsOrdered
PROPERTY BegunIsCounted
