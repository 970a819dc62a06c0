SPECIFICATION FairSpec
CONSTANTS
  Producers = {p1}
  ReaderThread = ReaderThread
  NoThread = NoThread
  MaxChunks = 3
  TargetBufSize = 2
  UINT8_MAX = 3
  SchemaRows = {}
  AllocMayFail = FALSE
  MaxRows = 8
  MaxRefused = 1
INVARIANT TypeOK
INVARIANT LossIsReported
PROPERTY ImplementsQueue
PROPERTY DrainTerminates
CHECK_DEADLOCK FALSE
