\* A ring of four bytes whose positions wrap after two laps.
CONSTANTS
  Size = 4
  Laps = 2
  Byte = {0, 1}
  StepSizes = {3, 4}
  Counts = {1, 2}
  Lengths = {1, 3}
SPECIFICATION Spec
INVARIANTS TypeOK ReadsOldest PeeksUpToEnd NeverBothWait
PROPERTIES PublishesWritten OneEnds
CHECK_DEADLOCK TRUE
