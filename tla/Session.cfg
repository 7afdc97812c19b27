SPECIFICATION FairSpec
CONSTANTS
  MaxSeq = 2
  MaxCalls = 4
INVARIANTS
  TypeOK
  WireOrder
  WriteQueueServed
PROPERTIES
  SessionSettles
  ImplementsChannel
CHECK_DEADLOCK FALSE
