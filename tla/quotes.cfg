CONSTANTS
  MrCap = 1
  MaxTime = 2
  Windows <- MCWindows
  WindowsAt <- MCWindowsAt
  TimeOf <- MCTimeOf
  CommandsFail = FALSE
  MaxRow = 2
  MaxCrash = 1
  PullLimit = 1
  ChCap = 1
  SnapshotCap = 1
  History = 1
SPECIFICATION FairQuoteSpec
INVARIANTS QuotesComplete RedisHoldsSnapshot RedisComplete
PROPERTIES RedisGetsAll
