SPECIFICATION Spec
CONSTANTS
  Client = {k1, k2}
  Poller = {}
  MaxConn = 2
  ChanCap = 1
  HardCap = 3
  DefaultCap = 2
  Requested <- MCOneLimit
  FrameSizes = {1}
  MaxOffered = 2
  Background = TRUE
INVARIANTS
  OrderedDelivery
  GapsAreDrops
PROPERTY
  RefinesOutputLog
CHECK_DEADLOCK FALSE
