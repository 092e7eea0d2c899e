SPECIFICATION SnapSpec
CONSTANTS
  MaxHandles = 2
  Windows = {w1}
  Owners <- OneProcess
  Modes <- HeadlessOnly
  DestroyCapacity = 1
  RefMod = 8
  MaxRefs = 2
  MaxPosts = 1
  MaxDelayed = 3
  MaxTime = 2
  NoSnapshot = NoSnapshot
  AgeMod = 4
  MaxOff = 0
INVARIANTS
  ReferencedStaysAlive
CHECK_DEADLOCK FALSE
