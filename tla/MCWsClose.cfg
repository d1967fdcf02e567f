SPECIFICATION Spec
CONSTANTS
  Configs <- AsEstablished
  BufCap = 2
  MaxRetry = 2
  OtherMsgs = {}
  OwnerCloses <- CloseWsOnly
  Drops = 1
  DialFailures = 0
  Pings = 0
CHECK_DEADLOCK FALSE
INVARIANTS CloseIsClean
