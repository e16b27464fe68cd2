SPECIFICATION FairSpec
CONSTANTS
  Call = {e}
  Writer = {r1}
  InitialOf <- MCInitial
  Window = 1
  ChanCap = 1
  MaxWrites = 1
  MaxCrashes = 1
  Streaming = {e}
INVARIANTS
  TypeOK
  CompletedHasAll
PROPERTIES
  AnswersAgree
  CreateAnswered
  ReceiverEnds
  RecordEnds
  StdinEnds
CHECK_DEADLOCK FALSE
