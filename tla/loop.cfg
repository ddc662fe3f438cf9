CONSTANTS
  MaxRow = 3
  MaxCrash = 2
  PullLimit = 2
  ChCap = 1
  SnapshotCap = 1
  History = 2
SPECIFICATION FairSpec
INVARIANTS TypeOK EachRowOnce SnapshotsExact NewestLoads
PROPERTIES NeverOlder RowsMatched
