SPECIFICATION FairReconnect
CONSTANTS
  Configs <- BothWays
  BufCap = 3
  MaxRetry = 2
  OtherMsgs = {a, "close"}
  OwnerCloses <- EitherCloses
  Drops = 1
  DialFailures = 1
  Pings = 1
CHECK_DEADLOCK FALSE
INVARIANTS TypeOK SubscriptionOnItsWay HookHasRoom
PROPERTIES ReconnectReturns
