SPECIFICATION Spec
CONSTANTS
  AuthSessions = {s1}
  Users = {u1}
  Devices = {d1, d2}
  Requests = {r1, r2}
  Workers = {w1, w2}
  None = None
  CacheMax = 1
  CacheTtl = 1
  IssueTtl = 1
  RotateTtl = 1
  MaxPairs = 3
  MaxTime = 1
  MaxRestarts = 1
INVARIANTS
  SingleUse
  ReplayDetectable
  
PROPERTIES
  RevokedIsFinal
SYMMETRY Symmetry
CHECK_DEADLOCK FALSE
