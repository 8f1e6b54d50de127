SPECIFICATION Spec
CONSTANTS
  o1 = o1
  o2 = o2
  x1 = x1
  x2 = x2
  Org = {o1}
  User = {u1, u2}
  Unit = {x1}
  Imei = {i1}
  DeviceId = {d1}
  Arn = {a1, a2}
  NoArn = NoArn
  None = None
  UnitOrgs <- OneOwner
  Version <- Versions
INVARIANTS
  OneHolderPerDevice
  NeverWidens
