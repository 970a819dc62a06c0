SPECIFICATION Spec
CONSTANTS
  FileUris = {"file:a", "file:default"}
  NetUris = {"tcp:b"}
  Apps = {"app"}
  FilterThreads <- ThreadNames
  Setups <- AllSetups
  Files <- ConfigFiles
  AppMPs <- Points
  Numbers <- Multiples
  Labels <- Words
  MaxReports = 2
  SignalAt = {"idle"}
  JoinsFirst = TRUE
INVARIANT RowsSummariseTheirWindow
 
INVARIANT SampledStreamsFlushed
INVARIANT NoFreedStreamUsed
PROPERTY FilterThreadsEnd
CHECK_DEADLOCK FALSE
