SPECIFICATION FairSpec
CONSTANTS
  MaxHandles = 1
  Windows = {w1}
  Owners <- ThreadAndProcess
  Modes <- OnlyPipe
  DestroyCapacity = 1
  RefMod = 8
  MaxRefs = 3
  MaxPosts = 1
  MaxDelayed = 3
  MaxTime = 0
PROPERTIES
  LastReferenceErases
CHECK_DEADLOCK FALSE
