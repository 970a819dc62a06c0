SPECIFICATION Spec
CONSTANTS
  c1 = c1
  c2 = c2
  Clients = {c1, c2}
  Domains = {"exp"}
  Script <- ProperScript
  MAX_TABLE_RENAME = 3
  MetaTable <- Metadata
  MetaFields <- Meta3
  WideFields <- NoFields
  NoClient = NoClient
  NoSession = "NoSession"
  NoDatabase = "NoDatabase"
  NoTable = NoTable
  BackendMayFail = FALSE
  MayReset = FALSE
  MayCrash = TRUE
  MaxConnections = 1
  MaxRestarts = 1
SYMMETRY Symmetry
CHECK_DEADLOCK FALSE
INVARIANT HandlersPointToLiveData
INVARIANT RowsInTheirTable
INVARIANT SenderIdsIdentify
INVARIANT OneTimeBase
INVARIANT CommittedIsPrefix
PROPERTY ClosingLosesNothing
