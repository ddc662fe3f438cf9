CONSTANTS
  u1 = u1
  u2 = u2
  NoOrder = NoOrder
  Users <- MCUsers
  Lot = 2
  DivUnit = 3
  RateUnit = 10
  MaxSeqId = 3
  Inputs <- EndingInputs
  BatchLists <- NoBatches
SPECIFICATION FairSpec
ACTION_CONSTRAINT EndingOnly
INVARIANTS KilledOnlyByRounding FokAllOrNothingUnguarded
PROPERTIES LoopsEnd ImplementsExchange
