------------------------ MODULE ControlPlaneEventsProofs ------------------------
(***************************************************************************)
(* What every message of ControlPlaneEvents keeps of a State, whoever      *)
(* holds it: its type, the holders of devices, the agreement of the four   *)
(* indexes with the maps, and the organization of each unit.               *)
(***************************************************************************)
EXTENDS ControlPlaneEvents, FiniteSetTheorems, TLAPS

-----------------------------------------------------------------------------
(* Type correctness *)

LEMMA EmptyStateType == EmptyState \in State
  BY DEF EmptyState, State

LEMMA UserType ==
  ASSUME NEW s \in State, NEW u \in User, NEW status
  PROVE  ApplyUser(s, u, status) \in State
  BY DEF ApplyUser, State

LEMMA MembershipType ==
  ASSUME NEW s \in State, NEW o \in Org, NEW u \in User, NEW role, NEW status
  PROVE  /\ UpsertMembership(s, o, u, role, status) \in State
         /\ DeleteMembership(s, o, u) \in State
  BY DEF UpsertMembership, DeleteMembership, Membership, State

LEMMA UserUnitType ==
  ASSUME NEW s \in State, NEW o \in Org, NEW u \in User, NEW x \in Unit
  PROVE  /\ UpsertUserUnit(s, o, u, x) \in State
         /\ DeleteUserUnit(s, u, x) \in State
  BY DEF UpsertUserUnit, DeleteUserUnit, State

LEMMA UnassignType ==
  ASSUME NEW s \in State, NEW i \in Imei
  PROVE  UnassignDevice(s, i) \in State
<1>1. CASE s.unit_devices[i] = None
  BY <1>1 DEF UnassignDevice
<1>2. CASE s.unit_devices[i] # None
  <2> DEFINE x == s.unit_devices[i][1]
             o == s.unit_devices[i][2]
             n == s.units_by_org[<<o, x>>]
  <2>1. x \in Unit /\ o \in Org /\ n \in Nat
    BY <1>2 DEF State
  <2>2. (IF n = 0 THEN 0 ELSE n - 1) \in Nat
    BY <2>1
  <2> QED
    BY <1>2, <2>1, <2>2 DEF UnassignDevice, State
<1> QED
  BY <1>1, <1>2

LEMMA AssignType ==
  ASSUME NEW t \in State, NEW i \in Imei, NEW x \in Unit, NEW o \in Org
  PROVE  [t EXCEPT !.unit_devices[i] = <<x, o>>,
                   !.units_by_org[<<o, x>>] = @ + 1,
                   !.unit_org[x] = o] \in State
<1>1. t.units_by_org[<<o, x>>] + 1 \in Nat
  BY DEF State
<1> QED
  BY <1>1 DEF State

LEMMA UnitDeviceType ==
  ASSUME NEW s \in State, NEW i \in Imei, NEW x \in Unit, NEW o \in Org
  PROVE  UpsertUnitDevice(s, i, x, o) \in State
  BY UnassignType, AssignType DEF UpsertUnitDevice

LEMMA DeactivateType ==
  ASSUME NEW s \in State, NEW id
  PROVE  DeactivateDevice(s, id) \in State
  BY DEF DeactivateDevice, State

LEMMA FileType ==
  ASSUME NEW t \in State, NEW u \in User, NEW d \in UserDevice
  PROVE  [t EXCEPT !.user_devices[u] = @ \cup {d}] \in State
<1>1. t.user_devices[u] \cup {d} \in SUBSET UserDevice
  BY DEF State
<1> QED
  BY <1>1 DEF State

LEMMA UserDeviceType ==
  ASSUME NEW s \in State, NEW d \in UserDevice
  PROVE  UpsertUserDevice(s, d) \in State
<1>1. d.user_id \in User
  BY DEF UserDevice
<1> QED
  BY <1>1, DeactivateType, FileType DEF UpsertUserDevice

(***************************************************************************)
(* A message that is applied has all the fields its operation uses.        *)
(***************************************************************************)
LEMMA UpsertType ==
  ASSUME NEW s \in State, NEW e \in Entity, NEW d \in DataOf(e),
         ~LacksField(TRUE, e, d)
  PROVE  Upsert(s, e, d) \in State
<1>1. CASE e = "user"
  <2>1. d.id \in User
    BY <1>1 DEF DataOf, UserData
  <2> QED
    BY <1>1, <2>1, UserType DEF Upsert
<1>2. CASE e = "organization_user"
  <2>1. d.organization_id \in Org /\ d.user_id \in User
    BY <1>2 DEF DataOf, MembershipData
  <2> QED
    BY <1>2, <2>1, MembershipType DEF Upsert
<1>3. CASE e = "user_unit"
  <2>1. d.organization_id \in Org /\ d.user_id \in User /\ d.unit_id \in Unit
    BY <1>3 DEF DataOf, UserUnitData, LacksField
  <2> QED
    BY <1>3, <2>1, UserUnitType DEF Upsert
<1>4. CASE e = "unit_device"
  <2>1. d.device_id \in Imei /\ d.unit_id \in Unit /\ d.organization_id \in Org
    BY <1>4 DEF DataOf, UnitDeviceData, LacksField
  <2> QED
    BY <1>4, <2>1, UnitDeviceType DEF Upsert
<1>5. CASE e = "user_device"
  <2> DEFINE r == [id           |-> d.id,
                   user_id      |-> d.user_id,
                   endpoint_arn |-> Default(d.endpoint_arn, NoArn),
                   is_active    |-> Default(d.is_active, FALSE)]
  <2>1. d \in UserDeviceData /\ d.user_id # None
    BY <1>5 DEF DataOf, LacksField
  <2>2. r \in UserDevice
    BY <2>1 DEF UserDeviceData, UserDevice, Default
  <2> QED
    BY <1>5, <2>2, UserDeviceType DEF Upsert
<1> QED
  BY <1>1, <1>2, <1>3, <1>4, <1>5 DEF Entity

LEMMA DeleteType ==
  ASSUME NEW s \in State, NEW e \in Entity, NEW d \in DataOf(e)
  PROVE  Delete(s, e, d) \in State
<1>1. CASE e = "user"
  <2>1. d.id \in User
    BY <1>1 DEF DataOf, UserData
  <2> QED
    BY <1>1, <2>1, UserType DEF Delete
<1>2. CASE e = "organization_user"
  <2>1. d.organization_id \in Org /\ d.user_id \in User
    BY <1>2 DEF DataOf, MembershipData
  <2> QED
    BY <1>2, <2>1, MembershipType DEF Delete
<1>3. CASE e = "user_unit"
  <2>1. d.user_id \in User /\ d.unit_id \in Unit
    BY <1>3 DEF DataOf, UserUnitData
  <2>2. DeleteUserUnit(s, d.user_id, d.unit_id) \in State
    BY <2>1 DEF DeleteUserUnit, State
  <2> QED
    BY <1>3, <2>2 DEF Delete
<1>4. CASE e = "unit_device"
  <2>1. d.device_id \in Imei
    BY <1>4 DEF DataOf, UnitDeviceData
  <2> QED
    BY <1>4, <2>1, UnassignType DEF Delete, DeleteUnitDevice
<1>5. CASE e = "user_device"
  BY <1>5, DeactivateType DEF Delete
<1> QED
  BY <1>1, <1>2, <1>3, <1>4, <1>5 DEF Entity

LEMMA AppliedPayload ==
  ASSUME NEW p \in Payload, Outcome(p) = "Yes"
  PROVE  /\ p.entity \in Entity
         /\ p.data \in DataOf(p.entity)
         /\ p.event_type = "UPSERT" => ~LacksField(TRUE, p.entity, p.data)
<1>1. /\ p # Unreadable
      /\ p.entity \in Entity
      /\ p.data # Broken
      /\ ~LacksField(p.event_type = "UPSERT", p.entity, p.data)
  BY DEF Outcome
<1>2. p \in Envelope
  BY <1>1 DEF Payload, ForeignEnvelope, Entity
<1>3. PICK e \in Entity :
        p \in [event_type : EventType, entity : {e}, schema_version : Version,
              data : DataOf(e) \cup {Broken}]
  BY <1>2 DEF Envelope
<1>4. p.entity = e /\ p.data \in DataOf(e)
  BY <1>1, <1>3
<1>5. p.event_type = "UPSERT" => ~LacksField(TRUE, p.entity, p.data)
  BY <1>1 DEF LacksField
<1> QED
  BY <1>1, <1>4, <1>5

LEMMA ApplyEventType ==
  ASSUME NEW s \in State, NEW p \in Payload
  PROVE  ApplyEvent(s, p) \in State
  BY AppliedPayload, UpsertType, DeleteType DEF ApplyEvent

-----------------------------------------------------------------------------
(* Devices *)

LEMMA DeactivateHolders ==
  ASSUME NEW s \in State, OneHolder(s), NEW id
  PROVE  /\ OneHolder(DeactivateDevice(s, id))
         /\ \A u \in User : \A e \in DevicesFor(DeactivateDevice(s, id), u) : e.id # id
<1> DEFINE t == DeactivateDevice(s, id)
<1>1. \A u \in User : t.user_devices[u] = {e \in s.user_devices[u] : e.id # id}
  BY DEF DeactivateDevice, State
<1> HIDE DEF t
<1>2. OneHolder(t)
  BY <1>1 DEF OneHolder, DevicesFor
<1>3. \A u \in User : \A e \in DevicesFor(t, u) : e.id # id
  BY <1>1 DEF DevicesFor
<1> QED
  BY <1>2, <1>3 DEF t

(***************************************************************************)
(* A device is added after it was taken from whoever held it.              *)
(***************************************************************************)
LEMMA UserDeviceHolders ==
  ASSUME NEW s \in State, OneHolder(s), NEW d \in UserDevice
  PROVE  OneHolder(UpsertUserDevice(s, d))
<1> DEFINE t == DeactivateDevice(s, d.id)
<1>1. /\ t \in State
      /\ OneHolder(t)
      /\ \A u \in User : \A e \in DevicesFor(t, u) : e.id # d.id
  BY DeactivateType, DeactivateHolders
<1>t. t = DeactivateDevice(s, d.id)
  OBVIOUS
<1> HIDE DEF t
<1>2. CASE d.is_active /\ d.endpoint_arn # NoArn
  <2> DEFINE r == [t EXCEPT !.user_devices[d.user_id] = @ \cup {d}]
  <2>1. \A u \in User : r.user_devices[u] =
          IF u = d.user_id THEN t.user_devices[u] \cup {d} ELSE t.user_devices[u]
    BY <1>1 DEF State
  <2>t. UpsertUserDevice(s, d) = r
    BY <1>2, <1>t DEF UpsertUserDevice
  <2> HIDE DEF r
  <2>2. ASSUME NEW u \in User, NEW e \in DevicesFor(r, u)
        PROVE  e \in DevicesFor(t, u) \/ (e = d /\ u = d.user_id)
    BY <2>1, <2>2 DEF DevicesFor
  <2>3. \A u \in User : \A e \in DevicesFor(r, u) :
          e.user_id = u /\ e.is_active /\ e.endpoint_arn # NoArn
    BY <1>1, <1>2, <2>2 DEF OneHolder
  <2>4. \A u, v \in User : \A e \in DevicesFor(r, u), f \in DevicesFor(r, v) :
          e.id = f.id => e = f
    BY <1>1, <2>2 DEF OneHolder
  <2>5. OneHolder(r)
    BY <2>3, <2>4 DEF OneHolder
  <2> QED
    BY <2>t, <2>5
<1>3. CASE ~(d.is_active /\ d.endpoint_arn # NoArn)
  BY <1>1, <1>3, <1>t DEF UpsertUserDevice
<1> QED
  BY <1>2, <1>3

(***************************************************************************)
(* `OneHolder` speaks of the device lists only.                            *)
(***************************************************************************)
LEMMA HolderFrame ==
  ASSUME NEW s, NEW t, OneHolder(s), t.user_devices = s.user_devices
  PROVE  OneHolder(t)
  BY DEF OneHolder, DevicesFor

LEMMA PeopleHolders ==
  ASSUME NEW s \in State, OneHolder(s)
  PROVE  /\ \A u, status : OneHolder(ApplyUser(s, u, status))
         /\ \A o, u, role, status : OneHolder(UpsertMembership(s, o, u, role, status))
         /\ \A o, u : OneHolder(DeleteMembership(s, o, u))
         /\ \A o, u, x : OneHolder(UpsertUserUnit(s, o, u, x))
         /\ \A u, x : OneHolder(DeleteUserUnit(s, u, x))
<1>1. \A u, status : ApplyUser(s, u, status).user_devices = s.user_devices
  BY DEF ApplyUser, State
<1>2. \A o, u, role, status :
        UpsertMembership(s, o, u, role, status).user_devices = s.user_devices
  BY DEF UpsertMembership, State
<1>3. \A o, u : DeleteMembership(s, o, u).user_devices = s.user_devices
  BY DEF DeleteMembership, State
<1>4. \A o, u, x : UpsertUserUnit(s, o, u, x).user_devices = s.user_devices
  BY DEF UpsertUserUnit, State
<1>5. \A u, x : DeleteUserUnit(s, u, x).user_devices = s.user_devices
  BY DEF DeleteUserUnit, State
<1> QED
  BY <1>1, <1>2, <1>3, <1>4, <1>5, HolderFrame

LEMMA UnassignHolders ==
  ASSUME NEW s \in State, OneHolder(s), NEW i
  PROVE  OneHolder(UnassignDevice(s, i))
<1>1. UnassignDevice(s, i).user_devices = s.user_devices
  BY DEF UnassignDevice, State
<1> QED
  BY <1>1, HolderFrame

LEMMA AssignHolders ==
  ASSUME NEW s \in State, OneHolder(s), NEW i \in Imei, NEW x, NEW o
  PROVE  OneHolder(UpsertUnitDevice(s, i, x, o))
<1> DEFINE t == UnassignDevice(s, i)
<1>1. t \in State /\ OneHolder(t)
  BY UnassignType, UnassignHolders
<1> HIDE DEF t
<1>2. [t EXCEPT !.unit_devices[i] = <<x, o>>,
                !.units_by_org[<<o, x>>] = @ + 1,
                !.unit_org[x] = o].user_devices = t.user_devices
  BY <1>1 DEF State
<1>3. OneHolder([t EXCEPT !.unit_devices[i] = <<x, o>>,
                          !.units_by_org[<<o, x>>] = @ + 1,
                          !.unit_org[x] = o])
  BY <1>1, <1>2, HolderFrame
<1> QED
  BY <1>3 DEF UpsertUnitDevice, t

LEMMA UpsertHolders ==
  ASSUME NEW s \in State, OneHolder(s), NEW e \in Entity, NEW d \in DataOf(e),
         ~LacksField(TRUE, e, d)
  PROVE  OneHolder(Upsert(s, e, d))
<1>1. CASE e = "user"
  BY <1>1, PeopleHolders DEF Upsert
<1>2. CASE e = "organization_user"
  BY <1>2, PeopleHolders DEF Upsert
<1>3. CASE e = "user_unit"
  BY <1>3, PeopleHolders DEF Upsert
<1>4. CASE e = "unit_device"
  <2>1. d.device_id \in Imei
    BY <1>4 DEF DataOf, UnitDeviceData
  <2> QED
    BY <1>4, <2>1, AssignHolders DEF Upsert
<1>5. CASE e = "user_device"
  <2> DEFINE r == [id           |-> d.id,
                   user_id      |-> d.user_id,
                   endpoint_arn |-> Default(d.endpoint_arn, NoArn),
                   is_active    |-> Default(d.is_active, FALSE)]
  <2>1. d \in UserDeviceData /\ d.user_id # None
    BY <1>5 DEF DataOf, LacksField
  <2>2. r \in UserDevice
    BY <2>1 DEF UserDeviceData, UserDevice, Default
  <2> QED
    BY <1>5, <2>2, UserDeviceHolders DEF Upsert
<1> QED
  BY <1>1, <1>2, <1>3, <1>4, <1>5 DEF Entity

LEMMA DeleteHolders ==
  ASSUME NEW s \in State, OneHolder(s), NEW e \in Entity, NEW d \in DataOf(e)
  PROVE  OneHolder(Delete(s, e, d))
<1>1. CASE e = "user"
  BY <1>1, PeopleHolders DEF Delete
<1>2. CASE e = "organization_user"
  BY <1>2, PeopleHolders DEF Delete
<1>3. CASE e = "user_unit"
  BY <1>3, PeopleHolders DEF Delete
<1>4. CASE e = "unit_device"
  BY <1>4, UnassignHolders DEF Delete, DeleteUnitDevice
<1>5. CASE e = "user_device"
  BY <1>5, DeactivateHolders DEF Delete
<1> QED
  BY <1>1, <1>2, <1>3, <1>4, <1>5 DEF Entity

LEMMA ApplyEventHolders ==
  ASSUME NEW s \in State, OneHolder(s), NEW p \in Payload
  PROVE  OneHolder(ApplyEvent(s, p))
  BY AppliedPayload, UpsertHolders, DeleteHolders DEF ApplyEvent

-----------------------------------------------------------------------------
(* The indexes *)

IndexInv(s) == GrantsMirrored(s) /\ CountsExact(s) /\ OrgNeedsEquipment(s)

LEMMA EquipmentFinite ==
  ASSUME NEW s, NEW o, NEW x
  PROVE  IsFiniteSet(EquipmentAt(s, o, x))
<1>1. EquipmentAt(s, o, x) \in SUBSET Imei
  BY DEF EquipmentAt
<1> QED
  BY <1>1, StateAssumption, FS_Subset DEF StateAssumption

LEMMA EmptyIndexes == IndexInv(EmptyState)
<1>1. GrantsMirrored(EmptyState)
  BY DEF GrantsMirrored, EmptyState
<1>2. ASSUME NEW o \in Org, NEW x \in Unit
      PROVE  EquipmentAt(EmptyState, o, x) = {}
  BY StateAssumption DEF EquipmentAt, EmptyState, StateAssumption
<1>3. CountsExact(EmptyState)
  <2> SUFFICES ASSUME NEW o \in Org, NEW x \in Unit
               PROVE  EmptyState.units_by_org[<<o, x>>]
                        = Cardinality(EquipmentAt(EmptyState, o, x))
    BY DEF CountsExact
  <2> QED
    BY <1>2, FS_EmptySet DEF EmptyState
<1>4. OrgNeedsEquipment(EmptyState)
  BY DEF OrgNeedsEquipment, EmptyState
<1> QED
  BY <1>1, <1>3, <1>4 DEF IndexInv

(***************************************************************************)
(* The three facts depend on the grants, the equipment and their indexes.  *)
(***************************************************************************)
LEMMA IndexFrame ==
  ASSUME NEW s, NEW t, IndexInv(s),
         t.user_units = s.user_units, t.unit_users = s.unit_users,
         t.unit_devices = s.unit_devices, t.units_by_org = s.units_by_org,
         t.unit_org = s.unit_org
  PROVE  IndexInv(t)
  BY DEF IndexInv, GrantsMirrored, CountsExact, OrgNeedsEquipment, EquipmentAt

LEMMA EquipmentFrame ==
  ASSUME NEW s, NEW t, CountsExact(s), OrgNeedsEquipment(s),
         t.unit_devices = s.unit_devices, t.units_by_org = s.units_by_org,
         t.unit_org = s.unit_org
  PROVE  CountsExact(t) /\ OrgNeedsEquipment(t)
<1>1. \A o, x : EquipmentAt(t, o, x) = EquipmentAt(s, o, x)
  BY DEF EquipmentAt
<1>2. CountsExact(t)
  BY <1>1 DEF CountsExact
<1>3. OrgNeedsEquipment(t)
  BY <1>1 DEF OrgNeedsEquipment
<1> QED
  BY <1>2, <1>3

LEMMA PeopleIndexes ==
  ASSUME NEW s \in State, IndexInv(s)
  PROVE  /\ \A u, status : IndexInv(ApplyUser(s, u, status))
         /\ \A o, u, role, status : IndexInv(UpsertMembership(s, o, u, role, status))
         /\ \A o, u : IndexInv(DeleteMembership(s, o, u))
         /\ \A id : IndexInv(DeactivateDevice(s, id))
<1> DEFINE Frame(t) == /\ t.user_units = s.user_units
                       /\ t.unit_users = s.unit_users
                       /\ t.unit_devices = s.unit_devices
                       /\ t.units_by_org = s.units_by_org
                       /\ t.unit_org = s.unit_org
<1>1. ASSUME NEW u, NEW status PROVE Frame(ApplyUser(s, u, status))
  BY DEF ApplyUser, State
<1>2. ASSUME NEW o, NEW u, NEW role, NEW status
      PROVE  Frame(UpsertMembership(s, o, u, role, status))
  BY DEF UpsertMembership, State
<1>3. ASSUME NEW o, NEW u PROVE Frame(DeleteMembership(s, o, u))
  BY DEF DeleteMembership, State
<1>4. ASSUME NEW id PROVE Frame(DeactivateDevice(s, id))
  BY DEF DeactivateDevice, State
<1>5. ASSUME NEW t, Frame(t) PROVE IndexInv(t)
  BY <1>5, IndexFrame
<1> HIDE DEF Frame
<1> QED
  BY <1>1, <1>2, <1>3, <1>4, <1>5

LEMMA UserDeviceFrame ==
  ASSUME NEW s \in State, NEW d
  PROVE  LET t == UpsertUserDevice(s, d)
         IN /\ t.user_units = s.user_units
            /\ t.unit_users = s.unit_users
            /\ t.unit_devices = s.unit_devices
            /\ t.units_by_org = s.units_by_org
            /\ t.unit_org = s.unit_org
            /\ t.user_active = s.user_active
            /\ t.memberships = s.memberships
<1>1. ASSUME NEW r \in State, NEW u
      PROVE  LET t == [r EXCEPT !.user_devices[u] = @ \cup {d}]
             IN /\ t.user_units = r.user_units
                /\ t.unit_users = r.unit_users
                /\ t.unit_devices = r.unit_devices
                /\ t.units_by_org = r.units_by_org
                /\ t.unit_org = r.unit_org
                /\ t.user_active = r.user_active
                /\ t.memberships = r.memberships
  BY DEF State
<1>2. LET t == DeactivateDevice(s, d.id)
      IN /\ t.user_units = s.user_units
         /\ t.unit_users = s.unit_users
         /\ t.unit_devices = s.unit_devices
         /\ t.units_by_org = s.units_by_org
         /\ t.unit_org = s.unit_org
         /\ t.user_active = s.user_active
         /\ t.memberships = s.memberships
  BY DEF DeactivateDevice, State
<1> QED
  BY <1>1, <1>2, DeactivateType DEF UpsertUserDevice

LEMMA UserUnitIndexes ==
  ASSUME NEW s \in State, IndexInv(s), NEW u \in User, NEW x \in Unit
  PROVE  /\ \A o \in Org : IndexInv(UpsertUserUnit(s, o, u, x))
         /\ IndexInv(DeleteUserUnit(s, u, x))
<1>1. ASSUME NEW o \in Org PROVE IndexInv(UpsertUserUnit(s, o, u, x))
  <2> DEFINE t == UpsertUserUnit(s, o, u, x)
  <2>1. /\ t.user_units = [s.user_units EXCEPT ![<<u, x>>] = o]
        /\ t.unit_users = [s.unit_users EXCEPT ![x] = @ \cup {u}]
        /\ t.unit_devices = s.unit_devices
        /\ t.units_by_org = s.units_by_org
        /\ t.unit_org = s.unit_org
    BY DEF UpsertUserUnit, State
  <2>2. o # None
    BY StateAssumption DEF StateAssumption
  <2> HIDE DEF t
  <2>3. GrantsMirrored(t)
    <3> SUFFICES ASSUME NEW v \in User, NEW y \in Unit
                 PROVE  v \in t.unit_users[y] <=> t.user_units[<<v, y>>] # None
      BY DEF GrantsMirrored
    <3>1. v \in s.unit_users[y] <=> s.user_units[<<v, y>>] # None
      BY DEF GrantsMirrored, IndexInv
    <3>2. /\ s.user_units \in [User \X Unit -> Org \cup {None}]
          /\ s.unit_users \in [Unit -> SUBSET User]
      BY DEF State
    <3> QED
      BY <2>1, <2>2, <3>1, <3>2
  <2>4. CountsExact(t) /\ OrgNeedsEquipment(t)
    BY <2>1, EquipmentFrame DEF IndexInv
  <2>5. IndexInv(t)
    BY <2>3, <2>4 DEF IndexInv
  <2> QED
    BY <2>5 DEF t
<1>2. IndexInv(DeleteUserUnit(s, u, x))
  <2> DEFINE t == DeleteUserUnit(s, u, x)
  <2>1. /\ t.user_units = [s.user_units EXCEPT ![<<u, x>>] = None]
        /\ t.unit_users = [s.unit_users EXCEPT ![x] = @ \ {u}]
        /\ t.unit_devices = s.unit_devices
        /\ t.units_by_org = s.units_by_org
        /\ t.unit_org = s.unit_org
    BY DEF DeleteUserUnit, State
  <2> HIDE DEF t
  <2>2. GrantsMirrored(t)
    <3> SUFFICES ASSUME NEW v \in User, NEW y \in Unit
                 PROVE  v \in t.unit_users[y] <=> t.user_units[<<v, y>>] # None
      BY DEF GrantsMirrored
    <3>1. v \in s.unit_users[y] <=> s.user_units[<<v, y>>] # None
      BY DEF GrantsMirrored, IndexInv
    <3>2. /\ s.user_units \in [User \X Unit -> Org \cup {None}]
          /\ s.unit_users \in [Unit -> SUBSET User]
      BY DEF State
    <3> QED
      BY <2>1, <3>1, <3>2
  <2>3. CountsExact(t) /\ OrgNeedsEquipment(t)
    BY <2>1, EquipmentFrame DEF IndexInv
  <2>4. IndexInv(t)
    BY <2>2, <2>3 DEF IndexInv
  <2> QED
    BY <2>4 DEF t
<1> QED
  BY <1>1, <1>2

(***************************************************************************)
(* Taking equipment off its unit, field by field.                          *)
(***************************************************************************)
LEMMA UnassignFields ==
  ASSUME NEW s \in State, NEW i \in Imei, NEW x \in Unit, NEW o \in Org,
         s.unit_devices[i] = <<x, o>>,
         NEW n, n = s.units_by_org[<<o, x>>], n # 0,
         NEW t, t = UnassignDevice(s, i)
  PROVE  /\ t.user_units = s.user_units
         /\ t.unit_users = s.unit_users
         /\ t.user_active = s.user_active
         /\ t.memberships = s.memberships
         /\ t.unit_devices = [s.unit_devices EXCEPT ![i] = None]
         /\ t.units_by_org = [s.units_by_org EXCEPT ![<<o, x>>] = n - 1]
         /\ t.unit_org = [s.unit_org EXCEPT ![x] = IF n = 1 THEN None ELSE @]
<1>1. s.unit_devices[i] # None /\ s.unit_devices[i][1] = x /\ s.unit_devices[i][2] = o
  BY StateAssumption DEF StateAssumption
<1>2. UnassignDevice(s, i) =
        [s EXCEPT !.unit_devices[i] = None,
                  !.units_by_org[<<o, x>>] = n - 1,
                  !.unit_org[x] = IF n = 1 THEN None ELSE @]
  BY <1>1 DEF UnassignDevice, State
<1> QED
  BY <1>2 DEF State

LEMMA UnassignEquipment ==
  ASSUME NEW s \in State, NEW t \in State, NEW i \in Imei, NEW x \in Unit, NEW o \in Org,
         s.unit_devices[i] = <<x, o>>,
         t.unit_devices = [s.unit_devices EXCEPT ![i] = None]
  PROVE  \A p \in Org, y \in Unit : EquipmentAt(t, p, y) =
           IF p = o /\ y = x THEN EquipmentAt(s, p, y) \ {i} ELSE EquipmentAt(s, p, y)
<1> SUFFICES ASSUME NEW p \in Org, NEW y \in Unit
             PROVE  EquipmentAt(t, p, y) =
                      IF p = o /\ y = x THEN EquipmentAt(s, p, y) \ {i}
                      ELSE EquipmentAt(s, p, y)
  OBVIOUS
<1>1. None # <<y, p>>
  BY StateAssumption DEF StateAssumption
<1>2. \A j \in Imei : t.unit_devices[j] = IF j = i THEN None ELSE s.unit_devices[j]
  BY DEF State
<1> QED
  BY <1>1, <1>2 DEF EquipmentAt

LEMMA CountedEquipment ==
  ASSUME NEW s \in State, CountsExact(s), NEW i \in Imei, NEW x \in Unit, NEW o \in Org,
         s.unit_devices[i] = <<x, o>>
  PROVE  /\ s.units_by_org[<<o, x>>] # 0
         /\ Cardinality(EquipmentAt(s, o, x) \ {i}) = s.units_by_org[<<o, x>>] - 1
         /\ s.units_by_org[<<o, x>>] \in Nat
         /\ s.units_by_org[<<o, x>>] # 1 => EquipmentAt(s, o, x) \ {i} # {}
         /\ s.units_by_org[<<o, x>>] = 1 => EquipmentAt(s, o, x) = {i}
<1> DEFINE D == EquipmentAt(s, o, x)
<1>1. IsFiniteSet(D) /\ i \in D
  BY EquipmentFinite DEF EquipmentAt
<1>2. s.units_by_org[<<o, x>>] = Cardinality(D)
  BY DEF CountsExact
<1> HIDE DEF D
<1>3. Cardinality(D) \in Nat /\ Cardinality(D) # 0
  BY <1>1, FS_CardinalityType, FS_EmptySet
<1>4. IsFiniteSet(D \ {i}) /\ Cardinality(D \ {i}) = Cardinality(D) - 1
  BY <1>1, FS_RemoveElement
<1>5. Cardinality(D) # 1 => D \ {i} # {}
  BY <1>3, <1>4, FS_EmptySet
<1>6. Cardinality(D) = 1 => D \ {i} = {}
  BY <1>4, FS_EmptySet
<1>7. Cardinality(D) = 1 => D = {i}
  BY <1>1, <1>6
<1> QED
  BY <1>2, <1>3, <1>4, <1>5, <1>7 DEF D

LEMMA UnassignIndexes ==
  ASSUME NEW s \in State, IndexInv(s), NEW i \in Imei
  PROVE  IndexInv(UnassignDevice(s, i))
<1>1. CASE s.unit_devices[i] = None
  BY <1>1 DEF UnassignDevice
<1>2. CASE s.unit_devices[i] # None
  <2>1. PICK x \in Unit, o \in Org : s.unit_devices[i] = <<x, o>>
    BY <1>2 DEF State
  <2> DEFINE t == UnassignDevice(s, i)
             n == s.units_by_org[<<o, x>>]
  <2>2. /\ n \in Nat /\ n # 0
        /\ Cardinality(EquipmentAt(s, o, x) \ {i}) = n - 1
        /\ n # 1 => EquipmentAt(s, o, x) \ {i} # {}
    BY <2>1, CountedEquipment DEF IndexInv
  <2>t. t = UnassignDevice(s, i) /\ n = s.units_by_org[<<o, x>>]
    OBVIOUS
  <2>4. t \in State
    BY UnassignType
  <2> HIDE DEF t, n
  <2>3. /\ t.user_units = s.user_units
        /\ t.unit_users = s.unit_users
        /\ t.unit_devices = [s.unit_devices EXCEPT ![i] = None]
        /\ t.units_by_org = [s.units_by_org EXCEPT ![<<o, x>>] = n - 1]
        /\ t.unit_org = [s.unit_org EXCEPT ![x] = IF n = 1 THEN None ELSE @]
    BY <2>1, <2>2, <2>t, UnassignFields
  <2>5. \A p \in Org, y \in Unit : EquipmentAt(t, p, y) =
          IF p = o /\ y = x THEN EquipmentAt(s, p, y) \ {i} ELSE EquipmentAt(s, p, y)
    BY <2>1, <2>3, <2>4, UnassignEquipment
  <2>6. GrantsMirrored(t)
    BY <2>3 DEF GrantsMirrored, IndexInv
  <2>7. CountsExact(t)
    <3> SUFFICES ASSUME NEW p \in Org, NEW y \in Unit
                 PROVE  t.units_by_org[<<p, y>>] = Cardinality(EquipmentAt(t, p, y))
      BY DEF CountsExact
    <3>1. s.units_by_org[<<p, y>>] = Cardinality(EquipmentAt(s, p, y))
      BY DEF CountsExact, IndexInv
    <3>2. t.units_by_org[<<p, y>>] =
            IF p = o /\ y = x THEN n - 1 ELSE s.units_by_org[<<p, y>>]
      BY <2>3 DEF State
    <3> QED
      BY <2>2, <2>5, <3>1, <3>2
  <2>8. OrgNeedsEquipment(t)
    <3> SUFFICES ASSUME NEW y \in Unit, t.unit_org[y] # None
                 PROVE  EquipmentAt(t, t.unit_org[y], y) # {}
      BY DEF OrgNeedsEquipment
    <3>1. /\ t.unit_org[y] = s.unit_org[y]
          /\ y = x => n # 1
      BY <2>3 DEF State
    <3>2. s.unit_org[y] \in Org
      BY <3>1 DEF State
    <3>3. EquipmentAt(s, s.unit_org[y], y) # {}
      BY <3>1 DEF OrgNeedsEquipment, IndexInv
    <3> QED
      BY <2>2, <2>5, <3>1, <3>2, <3>3
  <2>9. IndexInv(t)
    BY <2>6, <2>7, <2>8 DEF IndexInv
  <2> QED
    BY <2>9 DEF t
<1> QED
  BY <1>1, <1>2

(***************************************************************************)
(* Putting equipment that is nowhere on a unit.                            *)
(***************************************************************************)
LEMMA AssignIndexes ==
  ASSUME NEW s \in State, IndexInv(s), NEW i \in Imei, NEW x \in Unit, NEW o \in Org,
         s.unit_devices[i] = None
  PROVE  IndexInv([s EXCEPT !.unit_devices[i] = <<x, o>>,
                            !.units_by_org[<<o, x>>] = @ + 1,
                            !.unit_org[x] = o])
<1> DEFINE t == [s EXCEPT !.unit_devices[i] = <<x, o>>,
                          !.units_by_org[<<o, x>>] = @ + 1,
                          !.unit_org[x] = o]
           n == s.units_by_org[<<o, x>>]
<1>1. /\ t.user_units = s.user_units
      /\ t.unit_users = s.unit_users
      /\ t.unit_devices = [s.unit_devices EXCEPT ![i] = <<x, o>>]
      /\ t.units_by_org = [s.units_by_org EXCEPT ![<<o, x>>] = n + 1]
      /\ t.unit_org = [s.unit_org EXCEPT ![x] = o]
  BY DEF State
<1> HIDE DEF t
<1>2. \A j \in Imei : t.unit_devices[j] = IF j = i THEN <<x, o>> ELSE s.unit_devices[j]
  BY <1>1 DEF State
<1>3. ASSUME NEW p \in Org, NEW y \in Unit
      PROVE  EquipmentAt(t, p, y) =
               IF p = o /\ y = x THEN EquipmentAt(s, p, y) \cup {i}
               ELSE EquipmentAt(s, p, y)
  <2>1. None # <<y, p>>
    BY StateAssumption DEF StateAssumption
  <2> QED
    BY <1>2, <2>1 DEF EquipmentAt
<1>4. i \notin EquipmentAt(s, o, x)
  BY StateAssumption DEF EquipmentAt, StateAssumption
<1>5. GrantsMirrored(t)
  BY <1>1 DEF GrantsMirrored, IndexInv
<1>6. CountsExact(t)
  <2> SUFFICES ASSUME NEW p \in Org, NEW y \in Unit
               PROVE  t.units_by_org[<<p, y>>] = Cardinality(EquipmentAt(t, p, y))
    BY DEF CountsExact
  <2>1. s.units_by_org[<<p, y>>] = Cardinality(EquipmentAt(s, p, y))
    BY DEF CountsExact, IndexInv
  <2>2. t.units_by_org[<<p, y>>] =
          IF p = o /\ y = x THEN n + 1 ELSE s.units_by_org[<<p, y>>]
    BY <1>1 DEF State
  <2>3. Cardinality(EquipmentAt(s, o, x) \cup {i}) = Cardinality(EquipmentAt(s, o, x)) + 1
    BY <1>4, EquipmentFinite, FS_AddElement
  <2> QED
    BY <1>3, <2>1, <2>2, <2>3
<1>7. OrgNeedsEquipment(t)
  <2> SUFFICES ASSUME NEW y \in Unit, t.unit_org[y] # None
               PROVE  EquipmentAt(t, t.unit_org[y], y) # {}
    BY DEF OrgNeedsEquipment
  <2>1. CASE y = x
    <3>1. t.unit_org[y] = o
      BY <1>1, <2>1 DEF State
    <3> QED
      BY <1>3, <2>1, <3>1
  <2>2. CASE y # x
    <3>1. t.unit_org[y] = s.unit_org[y] /\ s.unit_org[y] \in Org
      BY <1>1, <2>2 DEF State
    <3>2. EquipmentAt(s, s.unit_org[y], y) # {}
      BY <3>1 DEF OrgNeedsEquipment, IndexInv
    <3> QED
      BY <1>3, <2>2, <3>1, <3>2
  <2> QED
    BY <2>1, <2>2
<1>8. IndexInv(t)
  BY <1>5, <1>6, <1>7 DEF IndexInv
<1> QED
  BY <1>8 DEF t

LEMMA UnassignFrees ==
  ASSUME NEW s \in State, NEW i \in Imei
  PROVE  UnassignDevice(s, i).unit_devices[i] = None
<1>1. CASE s.unit_devices[i] = None
  BY <1>1 DEF UnassignDevice
<1>2. CASE s.unit_devices[i] # None
  <2>1. UnassignDevice(s, i).unit_devices = [s.unit_devices EXCEPT ![i] = None]
    BY <1>2 DEF UnassignDevice, State
  <2> QED
    BY <2>1 DEF State
<1> QED
  BY <1>1, <1>2

LEMMA UnitDeviceIndexes ==
  ASSUME NEW s \in State, IndexInv(s), NEW i \in Imei, NEW x \in Unit, NEW o \in Org
  PROVE  IndexInv(UpsertUnitDevice(s, i, x, o))
  BY UnassignType, UnassignIndexes, UnassignFrees, AssignIndexes DEF UpsertUnitDevice

LEMMA UpsertIndexes ==
  ASSUME NEW s \in State, IndexInv(s), NEW e \in Entity, NEW d \in DataOf(e),
         ~LacksField(TRUE, e, d)
  PROVE  IndexInv(Upsert(s, e, d))
<1>1. CASE e = "user"
  BY <1>1, PeopleIndexes DEF Upsert
<1>2. CASE e = "organization_user"
  BY <1>2, PeopleIndexes DEF Upsert
<1>3. CASE e = "user_unit"
  <2>1. d.organization_id \in Org /\ d.user_id \in User /\ d.unit_id \in Unit
    BY <1>3 DEF DataOf, UserUnitData, LacksField
  <2> QED
    BY <1>3, <2>1, UserUnitIndexes DEF Upsert
<1>4. CASE e = "unit_device"
  <2>1. d.device_id \in Imei /\ d.unit_id \in Unit /\ d.organization_id \in Org
    BY <1>4 DEF DataOf, UnitDeviceData, LacksField
  <2> QED
    BY <1>4, <2>1, UnitDeviceIndexes DEF Upsert
<1>5. CASE e = "user_device"
  BY <1>5, UserDeviceFrame, IndexFrame DEF Upsert
<1> QED
  BY <1>1, <1>2, <1>3, <1>4, <1>5 DEF Entity

LEMMA DeleteIndexes ==
  ASSUME NEW s \in State, IndexInv(s), NEW e \in Entity, NEW d \in DataOf(e)
  PROVE  IndexInv(Delete(s, e, d))
<1>1. CASE e = "user"
  BY <1>1, PeopleIndexes DEF Delete
<1>2. CASE e = "organization_user"
  BY <1>2, PeopleIndexes DEF Delete
<1>3. CASE e = "user_unit"
  <2>1. d.user_id \in User /\ d.unit_id \in Unit
    BY <1>3 DEF DataOf, UserUnitData
  <2> QED
    BY <1>3, <2>1, UserUnitIndexes DEF Delete
<1>4. CASE e = "unit_device"
  <2>1. d.device_id \in Imei
    BY <1>4 DEF DataOf, UnitDeviceData
  <2> QED
    BY <1>4, <2>1, UnassignIndexes DEF Delete, DeleteUnitDevice
<1>5. CASE e = "user_device"
  BY <1>5, PeopleIndexes DEF Delete
<1> QED
  BY <1>1, <1>2, <1>3, <1>4, <1>5 DEF Entity

-----------------------------------------------------------------------------
(* Units and their organization: where no message ever gives a unit to a *)
(* second one, the index of organizations never goes stale.              *)

RuleInv(s) == IndexInv(s) /\ OrgsGiven(s) /\ OrgKnown(s)

(***************************************************************************)
(* The two facts, for one piece of equipment.                              *)
(***************************************************************************)
LEMMA Equipped ==
  ASSUME NEW s \in State, OrgsGiven(s), OrgKnown(s), NEW i \in Imei,
         s.unit_devices[i] # None
  PROVE  \E x \in Unit, o \in Org :
           /\ s.unit_devices[i] = <<x, o>>
           /\ s.unit_org[x] = o
           /\ o \in UnitOrgs[x]
<1>1. PICK x \in Unit, o \in Org : s.unit_devices[i] = <<x, o>>
  BY DEF State
<1>2. s.unit_devices[i][1] = x /\ s.unit_devices[i][2] = o
  BY <1>1
<1>3. s.unit_org[x] = o
  BY <1>2 DEF OrgKnown
<1>4. o \in UnitOrgs[x]
  BY <1>2 DEF OrgsGiven
<1> QED
  BY <1>1, <1>3, <1>4

LEMMA OrgKnownIf ==
  ASSUME NEW t,
         \A j \in Imei : t.unit_devices[j] # None =>
           \E y \in Unit, p \in Org : t.unit_devices[j] = <<y, p>> /\ t.unit_org[y] = p
  PROVE  OrgKnown(t)
<1> SUFFICES ASSUME NEW j \in Imei, t.unit_devices[j] # None
             PROVE  t.unit_org[t.unit_devices[j][1]] = t.unit_devices[j][2]
  BY DEF OrgKnown
<1>1. PICK y \in Unit, p \in Org : t.unit_devices[j] = <<y, p>> /\ t.unit_org[y] = p
  OBVIOUS
<1>2. t.unit_devices[j][1] = y /\ t.unit_devices[j][2] = p
  BY <1>1
<1> QED
  BY <1>1, <1>2

LEMMA RuleFrame ==
  ASSUME NEW s, NEW t, OrgsGiven(s), OrgKnown(s),
         t.user_units = s.user_units, t.unit_devices = s.unit_devices,
         t.unit_org = s.unit_org
  PROVE  OrgsGiven(t) /\ OrgKnown(t)
  BY DEF OrgsGiven, OrgKnown

LEMMA PeopleKeepRule ==
  ASSUME NEW s \in State, OrgsGiven(s), OrgKnown(s)
  PROVE  /\ \A u, status :
              LET t == ApplyUser(s, u, status) IN OrgsGiven(t) /\ OrgKnown(t)
         /\ \A o, u, role, status :
              LET t == UpsertMembership(s, o, u, role, status)
              IN OrgsGiven(t) /\ OrgKnown(t)
         /\ \A o, u :
              LET t == DeleteMembership(s, o, u) IN OrgsGiven(t) /\ OrgKnown(t)
         /\ \A id :
              LET t == DeactivateDevice(s, id) IN OrgsGiven(t) /\ OrgKnown(t)
<1> DEFINE Frame(t) == /\ t.user_units = s.user_units
                       /\ t.unit_devices = s.unit_devices
                       /\ t.unit_org = s.unit_org
<1>1. ASSUME NEW u, NEW status PROVE Frame(ApplyUser(s, u, status))
  BY DEF ApplyUser, State
<1>2. ASSUME NEW o, NEW u, NEW role, NEW status
      PROVE  Frame(UpsertMembership(s, o, u, role, status))
  BY DEF UpsertMembership, State
<1>3. ASSUME NEW o, NEW u PROVE Frame(DeleteMembership(s, o, u))
  BY DEF DeleteMembership, State
<1>4. ASSUME NEW id PROVE Frame(DeactivateDevice(s, id))
  BY DEF DeactivateDevice, State
<1>5. ASSUME NEW t, Frame(t) PROVE OrgsGiven(t) /\ OrgKnown(t)
  BY <1>5, RuleFrame
<1> HIDE DEF Frame
<1> QED
  BY <1>1, <1>2, <1>3, <1>4, <1>5

LEMMA GrantsKeepRule ==
  ASSUME NEW s \in State, OrgsGiven(s), OrgKnown(s), NEW u \in User, NEW x \in Unit
  PROVE  /\ \A o \in UnitOrgs[x] :
              LET t == UpsertUserUnit(s, o, u, x) IN OrgsGiven(t) /\ OrgKnown(t)
         /\ LET t == DeleteUserUnit(s, u, x) IN OrgsGiven(t) /\ OrgKnown(t)
<1>1. ASSUME NEW t, NEW o \in UnitOrgs[x] \cup {None},
             t.user_units = [s.user_units EXCEPT ![<<u, x>>] = o],
             t.unit_devices = s.unit_devices,
             t.unit_org = s.unit_org
      PROVE  OrgsGiven(t) /\ OrgKnown(t)
  <2>1. \A v \in User, y \in Unit :
          t.user_units[<<v, y>>] = IF v = u /\ y = x THEN o ELSE s.user_units[<<v, y>>]
    BY <1>1 DEF State
  <2>2. OrgsGiven(t)
    BY <1>1, <2>1 DEF OrgsGiven
  <2>3. OrgKnown(t)
    BY <1>1 DEF OrgKnown
  <2> QED
    BY <2>2, <2>3
<1>2. ASSUME NEW o \in UnitOrgs[x]
      PROVE  LET t == UpsertUserUnit(s, o, u, x) IN OrgsGiven(t) /\ OrgKnown(t)
  <2> DEFINE t == UpsertUserUnit(s, o, u, x)
  <2>1. /\ t.user_units = [s.user_units EXCEPT ![<<u, x>>] = o]
        /\ t.unit_devices = s.unit_devices
        /\ t.unit_org = s.unit_org
    BY DEF UpsertUserUnit, State
  <2> HIDE DEF t
  <2>2. OrgsGiven(t) /\ OrgKnown(t)
    BY <1>1, <2>1
  <2> QED
    BY <2>2 DEF t
<1>3. LET t == DeleteUserUnit(s, u, x) IN OrgsGiven(t) /\ OrgKnown(t)
  <2> DEFINE t == DeleteUserUnit(s, u, x)
  <2>1. /\ t.user_units = [s.user_units EXCEPT ![<<u, x>>] = None]
        /\ t.unit_devices = s.unit_devices
        /\ t.unit_org = s.unit_org
    BY DEF DeleteUserUnit, State
  <2> HIDE DEF t
  <2>2. OrgsGiven(t) /\ OrgKnown(t)
    BY <1>1, <2>1
  <2> QED
    BY <2>2 DEF t
<1> QED
  BY <1>2, <1>3

(***************************************************************************)
(* The organization leaves the index only with the last equipment of the   *)
(* unit: with one organization per unit, a count of 1 is the last piece.   *)
(***************************************************************************)
LEMMA UnassignKeepsRule ==
  ASSUME AtMostOneOrg, NEW s \in State, RuleInv(s), NEW i \in Imei
  PROVE  LET t == UnassignDevice(s, i) IN OrgsGiven(t) /\ OrgKnown(t)
<1>1. CASE s.unit_devices[i] = None
  BY <1>1 DEF UnassignDevice, RuleInv
<1>2. CASE s.unit_devices[i] # None
  <2>1. PICK x \in Unit, o \in Org : s.unit_devices[i] = <<x, o>>
    BY <1>2 DEF State
  <2> DEFINE t == UnassignDevice(s, i)
             n == s.units_by_org[<<o, x>>]
  <2>2. /\ n \in Nat /\ n # 0
        /\ n = 1 => EquipmentAt(s, o, x) = {i}
    BY <2>1, CountedEquipment DEF IndexInv, RuleInv
  <2>t. t = UnassignDevice(s, i) /\ n = s.units_by_org[<<o, x>>]
    OBVIOUS
  <2> HIDE DEF t, n
  <2>3. /\ t.user_units = s.user_units
        /\ t.unit_users = s.unit_users
        /\ t.unit_devices = [s.unit_devices EXCEPT ![i] = None]
        /\ t.units_by_org = [s.units_by_org EXCEPT ![<<o, x>>] = n - 1]
        /\ t.unit_org = [s.unit_org EXCEPT ![x] = IF n = 1 THEN None ELSE @]
    BY <2>1, <2>2, <2>t, UnassignFields
  <2>4. /\ \A j \in Imei : t.unit_devices[j] = IF j = i THEN None ELSE s.unit_devices[j]
        /\ \A y \in Unit : t.unit_org[y] = IF y = x /\ n = 1 THEN None ELSE s.unit_org[y]
    BY <2>3 DEF State
  <2>5. OrgsGiven(t)
    BY <2>3, <2>4 DEF OrgsGiven, RuleInv
  <2>6. ASSUME NEW j \in Imei, t.unit_devices[j] # None
        PROVE  \E y \in Unit, p \in Org : t.unit_devices[j] = <<y, p>> /\ t.unit_org[y] = p
    <3>1. j # i /\ t.unit_devices[j] = s.unit_devices[j] /\ s.unit_devices[j] # None
      BY <2>4, <2>6
    <3>2. PICK y \in Unit, p \in Org :
            s.unit_devices[j] = <<y, p>> /\ s.unit_org[y] = p /\ p \in UnitOrgs[y]
      BY <3>1, Equipped DEF RuleInv
    <3>3. ~(y = x /\ n = 1)
      <4> SUFFICES ASSUME y = x, n = 1 PROVE FALSE
        OBVIOUS
      <4>1. PICK z \in Unit, q \in Org :
              s.unit_devices[i] = <<z, q>> /\ s.unit_org[z] = q /\ q \in UnitOrgs[z]
        BY <1>2, Equipped DEF RuleInv
      <4>2. z = x /\ q = o
        BY <2>1, <4>1
      <4>3. p = o
        BY <3>2, <4>1, <4>2 DEF AtMostOneOrg
      <4>4. j \in EquipmentAt(s, o, x)
        BY <3>2, <4>3 DEF EquipmentAt
      <4> QED
        BY <2>2, <3>1, <4>4
    <3>4. t.unit_org[y] = p
      BY <2>4, <3>2, <3>3
    <3> QED
      BY <3>1, <3>2, <3>4
  <2>7. OrgKnown(t)
    BY <2>6, OrgKnownIf
  <2> QED
    BY <2>5, <2>7 DEF t
<1> QED
  BY <1>1, <1>2

LEMMA AssignKeepsRule ==
  ASSUME AtMostOneOrg, NEW s \in State, OrgsGiven(s), OrgKnown(s),
         NEW i \in Imei, NEW x \in Unit, NEW o \in UnitOrgs[x], o \in Org
  PROVE  LET t == [s EXCEPT !.unit_devices[i] = <<x, o>>,
                            !.units_by_org[<<o, x>>] = @ + 1,
                            !.unit_org[x] = o]
         IN OrgsGiven(t) /\ OrgKnown(t)
<1> DEFINE t == [s EXCEPT !.unit_devices[i] = <<x, o>>,
                          !.units_by_org[<<o, x>>] = @ + 1,
                          !.unit_org[x] = o]
<1>1. /\ t.user_units = s.user_units
      /\ t.unit_devices = [s.unit_devices EXCEPT ![i] = <<x, o>>]
      /\ t.unit_org = [s.unit_org EXCEPT ![x] = o]
  BY DEF State
<1> HIDE DEF t
<1>2. /\ \A j \in Imei : t.unit_devices[j] = IF j = i THEN <<x, o>> ELSE s.unit_devices[j]
      /\ \A y \in Unit : t.unit_org[y] = IF y = x THEN o ELSE s.unit_org[y]
  BY <1>1 DEF State
<1>3. OrgsGiven(t)
  BY <1>1, <1>2 DEF OrgsGiven
<1>4. ASSUME NEW j \in Imei, t.unit_devices[j] # None
      PROVE  \E y \in Unit, p \in Org : t.unit_devices[j] = <<y, p>> /\ t.unit_org[y] = p
  <2>1. CASE j = i
    BY <1>2, <2>1
  <2>2. CASE j # i
    <3>1. PICK y \in Unit, p \in Org :
            s.unit_devices[j] = <<y, p>> /\ s.unit_org[y] = p /\ p \in UnitOrgs[y]
      BY <1>2, <1>4, <2>2, Equipped
    <3>2. y = x => p = o
      BY <3>1 DEF AtMostOneOrg
    <3>3. t.unit_devices[j] = <<y, p>> /\ t.unit_org[y] = p
      BY <1>2, <2>2, <3>1, <3>2
    <3> QED
      BY <3>3
  <2> QED
    BY <2>1, <2>2
<1>5. OrgKnown(t)
  BY <1>4, OrgKnownIf
<1> QED
  BY <1>3, <1>5 DEF t

LEMMA UnitDeviceKeepsRule ==
  ASSUME AtMostOneOrg, NEW s \in State, RuleInv(s),
         NEW i \in Imei, NEW x \in Unit, NEW o \in UnitOrgs[x], o \in Org
  PROVE  LET t == UpsertUnitDevice(s, i, x, o) IN OrgsGiven(t) /\ OrgKnown(t)
<1> DEFINE r == UnassignDevice(s, i)
<1>1. r \in State /\ OrgsGiven(r) /\ OrgKnown(r)
  BY UnassignType, UnassignKeepsRule
<1> HIDE DEF r
<1>2. LET t == [r EXCEPT !.unit_devices[i] = <<x, o>>,
                         !.units_by_org[<<o, x>>] = @ + 1,
                         !.unit_org[x] = o]
      IN OrgsGiven(t) /\ OrgKnown(t)
  BY <1>1, AssignKeepsRule
<1> QED
  BY <1>2 DEF UpsertUnitDevice, r

LEMMA UpsertKeepsRule ==
  ASSUME AtMostOneOrg, NEW s \in State, RuleInv(s), NEW e \in Entity, NEW d \in DataOf(e),
         ~LacksField(TRUE, e, d)
  PROVE  OrgsGiven(Upsert(s, e, d)) /\ OrgKnown(Upsert(s, e, d))
<1>1. CASE e = "user"
  BY <1>1, PeopleKeepRule DEF Upsert, RuleInv
<1>2. CASE e = "organization_user"
  BY <1>2, PeopleKeepRule DEF Upsert, RuleInv
<1>3. CASE e = "user_unit"
  <2>1. d.organization_id \in UnitOrgs[d.unit_id] /\ d.user_id \in User /\ d.unit_id \in Unit
    BY <1>3 DEF DataOf, UserUnitData, LacksField
  <2> QED
    BY <1>3, <2>1, GrantsKeepRule DEF Upsert, RuleInv
<1>4. CASE e = "unit_device"
  <2>1. /\ d.device_id \in Imei /\ d.unit_id \in Unit
        /\ d.organization_id \in Org /\ d.organization_id \in UnitOrgs[d.unit_id]
    BY <1>4 DEF DataOf, UnitDeviceData, LacksField
  <2> QED
    BY <1>4, <2>1, UnitDeviceKeepsRule DEF Upsert
<1>5. CASE e = "user_device"
  BY <1>5, UserDeviceFrame, RuleFrame DEF Upsert, RuleInv
<1> QED
  BY <1>1, <1>2, <1>3, <1>4, <1>5 DEF Entity

LEMMA DeleteKeepsRule ==
  ASSUME AtMostOneOrg, NEW s \in State, RuleInv(s), NEW e \in Entity, NEW d \in DataOf(e)
  PROVE  OrgsGiven(Delete(s, e, d)) /\ OrgKnown(Delete(s, e, d))
<1>1. CASE e = "user"
  BY <1>1, PeopleKeepRule DEF Delete, RuleInv
<1>2. CASE e = "organization_user"
  BY <1>2, PeopleKeepRule DEF Delete, RuleInv
<1>3. CASE e = "user_unit"
  <2>1. d.user_id \in User /\ d.unit_id \in Unit
    BY <1>3 DEF DataOf, UserUnitData
  <2> QED
    BY <1>3, <2>1, GrantsKeepRule DEF Delete, RuleInv
<1>4. CASE e = "unit_device"
  <2>1. d.device_id \in Imei
    BY <1>4 DEF DataOf, UnitDeviceData
  <2> QED
    BY <1>4, <2>1, UnassignKeepsRule DEF Delete, DeleteUnitDevice
<1>5. CASE e = "user_device"
  BY <1>5, PeopleKeepRule DEF Delete, RuleInv
<1> QED
  BY <1>1, <1>2, <1>3, <1>4, <1>5 DEF Entity

LEMMA ApplyEventInv ==
  ASSUME AtMostOneOrg, NEW s \in State, RuleInv(s), NEW p \in Payload
  PROVE  ApplyEvent(s, p) \in State /\ RuleInv(ApplyEvent(s, p))
<1>1. CASE Outcome(p) = "Yes" /\ p.event_type = "UPSERT"
  BY <1>1, AppliedPayload, ApplyEventType, UpsertIndexes, UpsertKeepsRule
  DEF ApplyEvent, RuleInv
<1>2. CASE Outcome(p) = "Yes" /\ p.event_type # "UPSERT"
  BY <1>2, AppliedPayload, ApplyEventType, DeleteIndexes, DeleteKeepsRule
  DEF ApplyEvent, RuleInv
<1>3. CASE Outcome(p) # "Yes"
  BY <1>3 DEF ApplyEvent
<1> QED
  BY <1>1, <1>2, <1>3

=============================================================================
