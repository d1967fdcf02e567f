SPECIFICATION FairSpec
CONSTANTS
  Configs <- AsEstablished
  BufCap = 2
  MaxRetry = 2
  OtherMsgs = {}
  OwnerCloses <- NoCloses
  Drops = 1
  DialFailures = 2
  Pings = 0
CHECK_DEADLOCK FALSE
PROPERTIES ExitsAfterRetries
