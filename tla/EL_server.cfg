SPECIFICATION FairSpec
CONSTANTS
  Listener = Listener
  c1 = c1
  c2 = c2
  Connections = {c1, c2}
  NoChannel = NoChannel
  RemovesAtOnce = FALSE
  DescriptorsReused = FALSE
  MaxData = 1
  MaxSignals = 2
CHECK_DEADLOCK FALSE
INVARIANT NoFreedChannelUsed
INVARIANT PollsTheActive
PROPERTY ClosedPeerIsFreed
PROPERTY StoppedLoopEnds
