SPECIFICATION Spec
CONSTANTS
  Client = {k1}
  Poller = {}
  MaxConn = 2
  ChanCap = 1
  HardCap = 3
  DefaultCap = 2
  Requested <- MCOneLimit
  FrameSizes = {1}
  MaxOffered = 2
  Background = TRUE
INVARIANT
  ResumeMissesNothing
CHECK_DEADLOCK FALSE
