CONSTANTS
  Stream <- MCStream
  FromCapacity = 1
  ToCapacity = 1
  MaxSaves = 2
  MaxLoads = 1
SPECIFICATION FairSpec
INVARIANTS
  TypeOK
  RequestsConserved
  RepliesConserved
  NoLostWakeup
PROPERTIES
  EveryAnswerArrives
  SnapshotReturnsOrOvertaken
  ThreadExits
CHECK_DEADLOCK FALSE
