CONSTANTS
  ForwardLimit = 2
  DaySize = 2
  MaxWindow = 3
  MaxResult = 2
  MaxCrash = 1
  KeepKlines = 2
  Fills <- MCFills
SPECIFICATION Spec
CHECK_DEADLOCK FALSE
INVARIANTS CandleTypeOK KlinesShowTrades DayAddsUp MarketAgreesWithKlines RedisInStep
