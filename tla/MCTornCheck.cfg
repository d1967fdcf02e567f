SPECIFICATION Spec
CONSTANTS
  Txs <- HighTx
  SignalMsgs <- OneSignal
  Malformed = Malformed
  None = None
  Nil = Nil
  NoHeader = NoHeader
  RouterMap <- MCRouterMap
  Enemies <- MCEnemies
  AddrTokens <- MCAddrTokens
  PairSymbolMap <- MCPairSymbolMap
  Traces <- MCTraces
  WeiFraction = 10
  Uint64Range = 64
  Torn = TRUE
  Cancellable = FALSE
  FirstBlock = 1
  LastBlock = 3
  Epoch = 1720000000
  LastSecond = 1720000000
  SubBuffer = 2
  MaxLen = 1
  Drop = 1
CHECK_DEADLOCK FALSE
INVARIANTS OrdersPassBlockCheck
