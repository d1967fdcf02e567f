SPECIFICATION FairSpec
CONSTANTS
  Txs <- SignalTxs
  SignalMsgs <- Parade
  Malformed = Malformed
  None = None
  Nil = Nil
  NoHeader = NoHeader
  RouterMap <- MCRouterMap
  Enemies <- MCEnemies
  AddrTokens <- MCAddrTokens
  PairSymbolMap <- MCPairSymbolMap
  Traces <- MCTraces
  WeiFraction = 10
  Uint64Range = 64
  Torn = TRUE
  Cancellable = TRUE
  FirstBlock = 1
  LastBlock = 1
  Epoch = 1720000000
  LastSecond = 1720000000
  SubBuffer = 1
  MaxLen = 1
  Drop = 1
CHECK_DEADLOCK FALSE
INVARIANTS NewestSignalsKept NeverCancels
PROPERTIES ImplementsOrderDesk SignalsAccepted
