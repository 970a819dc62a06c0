SPECIFICATION FairSpec
CONSTANTS
  c1 = c1
  c2 = c2
  Clients = {c1, c2}
  NoClient = NoClient
  Scripts <- OneOrTwo
  PageSize = 3
  MessageLength = 2
  Outside = Outside
  MaxCommands = 2
  MaxFailures = 1
CHECK_DEADLOCK FALSE
INVARIANT EachMessageOnce
INVARIANT ConnectionsWellFormed
INVARIANT NoMessageForgotten
PROPERTY SenderDrains
