SPECIFICATION Spec
CONSTANTS
  Sandbox = {s1}
  Getter = {}
  MaxCrashes = 0
INVARIANT
  FailedCreateLeavesNoPod
CHECK_DEADLOCK FALSE
