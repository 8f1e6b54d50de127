SPECIFICATION Spec
CONSTANTS
  o1 = o1
  o2 = o2
  x1 = x1
  x2 = x2
  Org = {o1, o2}
  User = {u1}
  Unit = {x1, x2}
  Imei = {i1, i2, i3}
  DeviceId = {d1}
  Arn = {a1}
  NoArn = NoArn
  None = None
  UnitOrgs <- OneOrgEach
  Version <- Versions
INVARIANTS
  TypeOK
  IndexesAgree
  EquippedUnitHasItsOrg
  SameRule
PROPERTIES
  ImplementsRule
