SPECIFICATION Spec
CONSTANTS
  a = a
  b = b
  k1 = k1
  k2 = k2
  s1 = s1
  s2 = s2
  s3 = s3
  None = None
  Users = {a, b}
  Sessions = {s1, s2, s3}
  Msgs = {m1}
  Strands = {k1, k2}
  Client <- MCClient
  From <- MCFrom
  To <- MCTo
  BizOf <- MCBizOf
  UserStrand <- MCUserStrand
  MaxAsk = 3
  MaxSend = 2
  MaxCrash = 1
INVARIANTS
  ActiveIsReachable
  NoDuplicateOnSession
  
  SeenIsStored
  
CHECK_DEADLOCK FALSE
