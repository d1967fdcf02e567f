SPECIFICATION Spec
CONSTANTS
  Headers <- NineHeaders
  Nil = Nil
  Foreign = Foreign
  NoHeader = NoHeader
  MaxLen = 4
  Drop = 2
CHECK_DEADLOCK FALSE
INVARIANTS SliceHoldsList ReadsAsNodeMgrSays
