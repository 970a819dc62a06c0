SPECIFICATION Spec
CONSTANTS
  Clients = {"alice", "bob"}
  Domains = {"exp"}
  Backends = {"sqlite", "postgresql", "fuseki"}
  StreamsOf <- SharedStreams
  SenderOf <- Senders2
  StartOf <- Starts
  Hidden <- HiddenNames
  TooLong <- WideEntries
  MAX_TABLE_RENAME = 3
  NoDomain = NoDomain
  StatementsLeft = {1, 8}
  MaxRows <- RowsOn
  MaxVisits = 1
  MaxFaults <- FaultsOn
INVARIANT RowsAreDescribed
INVARIANT TablesInUseAreReady
INVARIANT ClosedMeansStored
INVARIANT StreamsKeepTheirSender
CHECK_DEADLOCK FALSE
