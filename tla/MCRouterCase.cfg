SPECIFICATION Spec
CONSTANTS
  ChainConfig <- MCChainConfig
  ChainEnemies <- MCChainEnemies
  PairsDirs <- MCPairsDirs
  NoSeparator = NoSeparator
  Signals <- MCSignals
  Txs <- MCTxs
  None = None
  PendingLimit = 1
  MayFail <- MCMayFail
  Answering <- MCAnswering
CHECK_DEADLOCK FALSE
INVARIANTS RoutersRecognised
