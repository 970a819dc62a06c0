SPECIFICATION FairSpec
CONSTANTS
  c1 = c1
  Clients = {c1}
  Domains = {"exp", "other"}
  Script <- FaultyScript
  MAX_TABLE_RENAME = 3
  MetaTable <- Metadata
  MetaFields <- Meta3
  WideFields <- Wide
  NoClient = NoClient
  NoSession = "NoSession"
  NoDatabase = "NoDatabase"
  NoTable = NoTable
  BackendMayFail = TRUE
  MayReset = TRUE
  MayCrash = FALSE
  MaxConnections = 2
  MaxRestarts = 1
CHECK_DEADLOCK FALSE
PROPERTY ClosedIsFreed
