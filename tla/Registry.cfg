SPECIFICATION Spec
CONSTANTS
  e1 = e1
  e2 = e2
  s1 = s1
  s2 = s2
  Exec = {e1, e2}
  Sandbox = {s1}
  SandboxOf <- MCSameSandbox
  Reader = {r1}
  MaxCrashes = 1
INVARIANTS
  TypeOK
  RefusedLeavesNoRecord
  IndexAgrees
  MemoryAgreesWithRow
  RunningRowsAreExplained
  FreshReads
  LateRecordsNeverRan
PROPERTY
  FinalRowIsFinal
CHECK_DEADLOCK FALSE
