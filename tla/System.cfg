SPECIFICATION SystemSpec
CONSTANTS
  e = e
  x = x
  initial = initial
  user = user
  Call = {e}
  Request = {initial, user}
  ExecId = {x}
  IdOf <- MCIds
  InitialOf <- MCInitials
  None = None
  PipeCap = 1
  Window = 1
  MaxWrites <- MCWrites
  MaxOutput = 1
  Faulty = {e}
  ChanCap = 1
  MaxCrashes = 1
  Streaming = {}
INVARIANTS
  CompletedIsOver
  InitialOnce
CHECK_DEADLOCK FALSE
