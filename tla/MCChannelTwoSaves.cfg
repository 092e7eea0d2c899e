CONSTANTS
  Stream <- MCShort
  FromCapacity = 1
  ToCapacity = 1
  MaxSaves = 2
  MaxLoads = 0
SPECIFICATION FairSpec
PROPERTY SnapshotReturns
CHECK_DEADLOCK FALSE
