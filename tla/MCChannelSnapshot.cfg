CONSTANTS
  Stream <- MCShort
  FromCapacity = 1
  ToCapacity = 1
  MaxSaves = 1
  MaxLoads = 1
SPECIFICATION Spec
INVARIANT SnapshotComplete
CHECK_DEADLOCK FALSE
