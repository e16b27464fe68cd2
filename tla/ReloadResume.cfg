SPECIFICATION Spec
CONSTANTS
  Call = {e}
  Writer = {r1}
  InitialOf <- MCInitial
  Window = 1
  ChanCap = 1
  MaxWrites = 2
  MaxCrashes = 1
  Streaming = {e}
INVARIANT
  StreamIsComplete
CHECK_DEADLOCK FALSE
