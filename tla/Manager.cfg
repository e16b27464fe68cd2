SPECIFICATION FairSpec
CONSTANTS
  Sandbox = {s1, s2}
  Getter = {g1}
  MaxCrashes = 2
INVARIANTS
  TypeOK
  PodsAreAccounted
  RunningIsReachable
  NoClientOfEnded
  NilAgentExplained
PROPERTIES
  EndCauseIsFinal
  ImplementsSessions
  CreateAnswers
CHECK_DEADLOCK FALSE
