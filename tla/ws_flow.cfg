SPECIFICATION FairSpec
CONSTANTS
  c1 = c1
  c2 = c2
  c3 = c3
  o1 = o1
  u1 = u1
  Conn = {c1, c2, c3}
  Org = {o1}
  User = {u1}
  NotUuid = NotUuid
  Key <- Keys
  KeyOf <- KeysOf
  Authorization <- Headers
  FirstAllowed <- Everything
  Unit = {x1, x2}
  None = None
  Capacity = 1
  HeartbeatInterval = 1
  MaxAlerts = 2
  MaxRevokes = 1
CHECK_DEADLOCK FALSE
INVARIANTS
  TypeOK
  RegistryIndexed
  NoOrphan
  FlowsInOrder
  NothingLostWithRoom
PROPERTIES
  DispatchEnds
  LeftIsForgotten
