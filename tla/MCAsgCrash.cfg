SPECIFICATION Spec
CONSTANTS
  Size = 4
  Step = 2
  Sends = {2, 4}
  Replies = {0, 8}
  Wants = {1, 4}
  Numbers = 6
  MaxSpins = 2
  MaxWakeups = 1
PROPERTIES
  ReplyGivenUp
CHECK_DEADLOCK FALSE
