SPECIFICATION FairSpec
CONSTANTS
  a = a
  b = b
  Call = {a, b}
  Request = {r1}
  ExecId = {x}
  IdOf <- MCSameId
  None = None
  PipeCap = 1
  Window = 1
  MaxWrites <- MCWrites
  Faulty = {a}
INVARIANTS
  TypeOK
  RegisteredIsReachable
  NoProcessLeft
PROPERTIES
  ImplementsService
  PipesDrain
  CutEnds
  StdinWriteReturns
CHECK_DEADLOCK FALSE
