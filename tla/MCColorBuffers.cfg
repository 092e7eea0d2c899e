SPECIFICATION FairSpec
CONSTANTS
  MaxHandles = 2
  Windows = {w1}
  Owners <- ThreadAndProcess
  Modes <- HostModes
  DestroyCapacity = 1
  RefMod = 8
  MaxRefs = 3
  MaxPosts = 2
  MaxDelayed = 3
  MaxTime = 2
INVARIANTS
  TypeOK
  RefcountExact
  ReferencedStaysAlive
  DelayedExactly
  HeadlessReuse
PROPERTIES
  HeadlessLastReferenceErases
CHECK_DEADLOCK FALSE
