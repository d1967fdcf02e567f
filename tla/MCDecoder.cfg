SPECIFICATION FairSpec
CONSTANTS
  AddrTokens <- MCAddrTokens
  PairSymbolMap <- MCPairSymbolMap
  Calls <- MCCalls
  NotYet = NotYet
  Answering <- BothAnswer
  AllAddresses <- MCAllAddresses
  EntryOrder <- MCEntryOrder
CHECK_DEADLOCK FALSE
INVARIANTS TypeOK MinedIsNoRival
PROPERTIES ImplementsDecodeStep ReturnsIfAnswered
