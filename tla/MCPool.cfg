SPECIFICATION FairSpec
CONSTANTS
  Tasks = {t1, t2}
  WorkerCount = 2
  BatchSize = 2
INVARIANTS OneFreshCopy ChannelProtocol DrainedOnReturn
PROPERTIES ShutdownEnds PollerUnblocks
