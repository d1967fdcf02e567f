SPECIFICATION Spec
CONSTANTS
  Txs <- OrderTxs
  SignalMsgs <- SamePair
  Malformed = Malformed
  None = None
  Nil = Nil
  NoHeader = NoHeader
  RouterMap <- MCRouterMap
  Enemies <- MCEnemies
  AddrTokens <- MCAddrTokens
  PairSymbolMap <- MCPairSymbolMap
  Traces <- MCTraces
  WeiFraction = 10
  Uint64Range = 64
  Torn = FALSE
  Cancellable = FALSE
  FirstBlock = 1
  LastBlock = 2
  Epoch = 1720000019
  LastSecond = 1720000020
  SubBuffer = 2
  MaxLen = 1
  Drop = 1
CHECK_DEADLOCK FALSE
INVARIANTS TypeOK TradesNewestSignal OrdersPassBlockCheck OutbidsCompetitor
PROPERTIES ImplementsOrderDesk
