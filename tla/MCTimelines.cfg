SPECIFICATION Spec
CONSTANTS
  r1 = r1
  r2 = r2
  f1 = f1
  f2 = f2
  Rings <- MCRings
  Fences <- MCFences
  MaxTasks = 3
INVARIANTS
  TypeOK
  NeverAborts
  VisitedInOrderOnce
  FenceAfterTasks
  MapMatchesQueues
  NothingSignalableLeft
PROPERTIES
  ImplementsTimeline
  FencesSignalled
CHECK_DEADLOCK FALSE
