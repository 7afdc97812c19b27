SPECIFICATION TransportFairSpec
CONSTANTS
  Limit = 3
  MaxSend = 3
INVARIANTS
  ClosedOnIoThreadOnce
  QueuedIsSent
PROPERTIES
  ClosesInTheEnd
CHECK_DEADLOCK FALSE
