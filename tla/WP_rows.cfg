SPECIFICATION Spec
CONSTANTS
  Scripts <- Samples
  ChunkLength = 40
  ChunkStep = 4
  MaxLength = 72
  MaxValues = 8
  StringMax = 4
  ShortMax = 24
  ReallocMoves = FALSE
  ElementRoom <- Widths
  MaxDigits = 8
INVARIANT RowsArriveAsSent
INVARIANT NothingLeftBehind
INVARIANT VectorsAreStoredWhole
CHECK_DEADLOCK FALSE
