SPECIFICATION StreamSpec
CONSTANTS
  Producers = {p1}
  ReaderThread = ReaderThread
  NoThread = NoThread
  MaxChunks = 2
  TargetBufSize = 2
  UINT8_MAX = 1
  SchemaRows = {1, 3}
  AllocMayFail = FALSE
  MaxRows = 5
  MaxRefused = 1
  SendErrors = {"closed", "interrupted", "other"}
  MaxWire = 4
INVARIANT HeaderFirstUnlessError
INVARIANT RowsWholeAndInOrder
INVARIANT SchemaBeforeRow
CHECK_DEADLOCK FALSE
