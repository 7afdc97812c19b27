SPECIFICATION TransportFairSpec
CONSTANTS
  Limit = 3
  MaxSend = 2
PROPERTIES
  SilenceIsReported
CHECK_DEADLOCK FALSE
