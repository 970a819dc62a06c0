SPECIFICATION FairSpec
CONSTANTS
  Producers = {p1}
  ReaderThread = ReaderThread
  NoThread = NoThread
  MaxChunks = 2
  TargetBufSize = 1
  UINT8_MAX = 3
  SchemaRows = {}
  AllocMayFail = FALSE
  MaxRows = 2
  MaxRefused = 1
PROPERTY CloseReturns
CHECK_DEADLOCK FALSE
