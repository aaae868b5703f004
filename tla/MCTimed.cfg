SPECIFICATION Spec
CHECK_DEADLOCK FALSE
CONSTANTS
  Uploads <- MCUploads
  Radix = 2
  Digits = 2
  RetryMax = 2
  Jitter = 20
  MaxFileSize = 6
  MaxSummarySize = 4
  SniffSize = 2
  PrefixSize = 4
  LineSize = 4
  PreviewLines = 2
  MaxAttempts = 4
  Lease = 5
  WorkerCount = 1
  MaxTime = 13
INVARIANTS FilesJudged SummaryWhole BackoffBounded
PROPERTIES BackoffRespected LeaseRespected
