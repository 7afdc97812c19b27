SPECIFICATION FairSpec
CONSTANTS
  Users = {u1, u2}
  Ids = {i1, i2}
  s1 = s1
  s2 = s2
  u1 = u1
  u2 = u2
  Sessions = {s1, s2}
  Owner <- MCOwner
  None = none
  Workers = 1
  PerMinute = 1
  MaxPending = 2
  Minute = 1
  ReplayWindow = 2
  MaxTime = 3
  MaxRequests = 2
  MaxMoves = 1
INVARIANTS BooksMatchRequests WindowsHold SilentIffCalledOff
PROPERTIES UserIsServed
CHECK_DEADLOCK FALSE
