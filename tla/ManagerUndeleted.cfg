SPECIFICATION Spec
CONSTANTS
  Sandbox = {s1}
  Getter = {}
  MaxCrashes = 0
INVARIANT
  DeletedPodIsGone
CHECK_DEADLOCK FALSE
