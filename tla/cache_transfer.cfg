SPECIFICATION Spec
CONSTANTS
  o1 = o1
  o2 = o2
  x1 = x1
  x2 = x2
  Org = {o1, o2}
  User = {u1}
  Unit = {x1}
  Imei = {i1, i2}
  DeviceId = {}
  Arn = {}
  NoArn = NoArn
  None = None
  UnitOrgs <- Transferred
  Version <- OnlyV1
INVARIANTS
  OwnersReceive
