SPECIFICATION Spec
CONSTANTS
  Interval = 2
  Timeout = 4
  MaxRtt = 1
  MayDie = FALSE
  MayStall = TRUE
CHECK_DEADLOCK FALSE
INVARIANTS
  HungPeerIsClosed
