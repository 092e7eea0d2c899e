SPECIFICATION SnapSpec
CONSTANTS
  MaxHandles = 2
  Windows = {w1}
  Owners <- OneProcess
  Modes <- SnapshotModes
  DestroyCapacity = 1
  RefMod = 8
  MaxRefs = 2
  MaxPosts = 2
  MaxDelayed = 1
  MaxTime = 2
  NoSnapshot = NoSnapshot
  AgeMod = 2
  MaxOff = 0
INVARIANTS
  OffByOrphans
CHECK_DEADLOCK FALSE
