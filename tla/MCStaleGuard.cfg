SPECIFICATION Spec
CONSTANTS
  Txs <- HighTx
  SignalMsgs <- OneSignal
  Malformed = Malformed
  None = None
  Nil = Nil
  NoHeader = NoHeader
  RouterMap <- MCRouterMap
  Enemies <- MCEnemies
  AddrTokens <- MCAddrTokens
  PairSymbolMap <- MCPairSymbolMap
  Traces <- MCTraces
  WeiFraction = 10
  Uint64Range = 64
  Torn = FALSE
  Cancellable = FALSE
  FirstBlock = 1
  LastBlock = 1
  Epoch = 1720000018
  LastSecond = 1720000021
  SubBuffer = 2
  MaxLen = 1
  Drop = 1
CHECK_DEADLOCK FALSE
INVARIANTS StaleHeaderRefused
