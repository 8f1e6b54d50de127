SPECIFICATION FairSpec
CONSTANTS
  o1 = o1
  u1 = u1
  u2 = u2
  x1 = x1
  i1 = i1
  d1 = d1
  a1 = a1
  a2 = a2
  Org = {o1}
  User = {u1, u2}
  Unit = {x1}
  Imei = {i1}
  DeviceId = {d1}
  Arn = {a1, a2}
  NoArn = NoArn
  None = None
  Version = {1}
  UnitOrgs <- AnyOrg
  Snapshot <- OneDevice
  PlatformOf <- Phones
  ChannelOf <- Channels
  Capacity = 1
  BatchSize = 2
  MaxRetries = 1
  MaxAlerts = 2
  MaxRegisters = 1
  MaxReports = 1
CHECK_DEADLOCK FALSE
INVARIANTS
  TypeOK
  CountersAddUp
  CacheFollowsRows
PROPERTIES
  OnlyDeadEndpointsRemoved
  Drains
