SPECIFICATION Spec
CONSTANTS
  Interval = 3
  Timeout = 8
  MaxRtt = 4
  MayDie = TRUE
  MayStall = TRUE
CHECK_DEADLOCK FALSE
INVARIANTS
  TypeOK
  SilentPeerIsClosed
  LivingPeerIsKept
