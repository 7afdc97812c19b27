SPECIFICATION Spec
CONSTANTS
  a = a
  b = b
  c = c
  Users = {a, b, c}
  Seed <- MCSeed
  MaxAsk = 7
INVARIANTS WaitingOnlyIfOvertaken 
CHECK_DEADLOCK FALSE
