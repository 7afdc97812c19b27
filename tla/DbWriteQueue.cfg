SPECIFICATION QueueFairSpec
CONSTANTS
  Callers = {c1, c2, c3}
  MaxSubmits = 3
INVARIANTS
  QueueTypeOK
  WritesAlone
  NothingLeftBehind
PROPERTIES
  NobodyWaitsForEver
CHECK_DEADLOCK FALSE
