CONSTANTS
  Inserters = {"w1"}
  PerchCap = 2
  BatchSize = 2
  BatchCap = 1
  MaxRow = 2
  MaxCrash = 1
  PullLimit = 1
  ChCap = 1
  SnapshotCap = 1
  History = 1
SPECIFICATION FairPersistSpec
PROPERTIES ComesBack
