CONSTANTS
  u1 = u1
  u2 = u2
  NoOrder = NoOrder
  Users <- MCUsers
  Lot = 1
  DivUnit = 1000
  RateUnit = 10
  MaxSeqId = 4
  Inputs <- TradingInputs
  BatchLists <- PlainBatches
SPECIFICATION Spec
ACTION_CONSTRAINT TradingOnly
INVARIANTS TypeOK BookInStep Uncrossed PriceTimePriority NoSelfTrade MessageAddsUp MessageComplete PriceIsLastTrade DepthShowsBook
PROPERTIES ExitsArePublished BookMovesAsPublished ImplementsExchange
