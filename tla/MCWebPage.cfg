SPECIFICATION FairSpec
CHECK_DEADLOCK FALSE
CONSTANTS
  t1 = t1
  t2 = t2
  Tasks = {t1, t2}
  CreatedAt <- MCCreatedAt
  Panes = {"list", "detail"}
  PageSize = 1
  Filters = {"ALL", "PENDING"}
  Connections = {1, 2}
  MaxAttempts = 1
  MaxManualRetries = 0
  MaxMoves = 3
  MaxClicks = 3
  MaxFails = 1
INVARIANTS DetailIsCovered PageCoversTotal PageExists
PROPERTIES DetailConverges ListConverges
