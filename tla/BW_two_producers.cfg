SPECIFICATION Spec
CONSTANTS
  Producers = {p1, p2}
  ReaderThread = ReaderThread
  NoThread = NoThread
  MaxChunks = 3
  TargetBufSize = 1
  UINT8_MAX = 1
  SchemaRows = {1}
  AllocMayFail = TRUE
  MaxRows = 5
  MaxRefused = 1
SYMMETRY Symmetry
INVARIANT ReadingExcludesWriting
INVARIANT EveryRowAccountedFor
INVARIANT DrainedWithoutOverflow
CHECK_DEADLOCK FALSE
