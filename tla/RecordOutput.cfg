SPECIFICATION FairSpec
CONSTANTS
  Client = {k1}
  Poller = {p1}
  MaxConn = 2
  ChanCap = 2
  HardCap = 3
  DefaultCap = 2
  Requested <- MCRequested
  FrameSizes = {1, 2}
  MaxOffered = 4
  Background = FALSE
INVARIANTS
  TypeOK
  OutputIsCapped
  PollConsistent
  QuietStreamsEnd
PROPERTY
  EndsUnlessDoneSkipped
CHECK_DEADLOCK FALSE
