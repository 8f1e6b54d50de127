SPECIFICATION FairSpec
CONSTANTS
  o1 = o1
  u1 = u1
  u2 = u2
  x1 = x1
  x2 = x2
  i1 = i1
  d1 = d1
  a1 = a1
  p1 = p1
  p2 = p2
  Org = {o1}
  User = {u1, u2}
  Unit = {x1, x2}
  Imei = {i1}
  DeviceId = {d1}
  Arn = {a1}
  NoArn = NoArn
  None = None
  UnitOrgs <- OneOrg
  Version <- Versions
  Change <- AllChanges
  Partition = {p1, p2}
  PartitionOf <- TwoPartitions
  MaxWrites = 3
  MaxCrashes = 1
CHECK_DEADLOCK FALSE
INVARIANTS
  TypeOK
  SettledRowsExact
  CaughtUpIsExact
PROPERTIES
  ImplementsReplica
  Converges
