-------------------------- MODULE ControlPlaneEvents --------------------------
(***************************************************************************)
(* `apply_event` of src/kafka/control_plane.rs: what one message of the    *)
(* topic control-plane-events does to the read model.  A message is an     *)
(* envelope (event type, entity, schema version) around the data of its    *)
(* entity.  A message that is not understood is skipped, never an error:   *)
(* its outcome says why.                                                   *)
(***************************************************************************)
EXTENDS ControlPlaneState

CONSTANTS
  Version,  \* values of schema_version that messages carry, None included
  UnitOrgs  \* [Unit -> SUBSET Org]: the organizations events name for a unit

(***************************************************************************)
(* A unit belongs to some organizations over the life of the system; the   *)
(* source database decides which, and the events repeat it.  An absent     *)
(* optional field is none of the values it may have.                       *)
(***************************************************************************)
ASSUME EventsAssumption ==
  /\ UnitOrgs \in [Unit -> SUBSET Org]
  /\ Version \subseteq Nat \cup {None}
  /\ None # "owner" /\ None # "ACTIVE" /\ None # TRUE

SCHEMA_VERSION == 1

Entity == {"user", "organization_user", "user_unit", "unit_device", "user_device"}

-----------------------------------------------------------------------------
(* The data of each entity; an Option field may be None. *)

Role   == {"owner", "member", None}
Status == {"ACTIVE", "SUSPENDED", None}

UserData == [id : User, status : Status]

MembershipData == [organization_id : Org, user_id : User,
                   role : Role, status : Status]

UserUnitData ==
  {d \in [organization_id : Org \cup {None}, user_id : User, unit_id : Unit] :
     d.organization_id \in UnitOrgs[d.unit_id] \cup {None}}

UnitDeviceData ==
  {d \in [device_id : Imei, unit_id : Unit \cup {None},
          organization_id : Org \cup {None}] :
     \/ d.unit_id = None
     \/ d.organization_id \in UnitOrgs[d.unit_id] \cup {None}}

UserDeviceData == [id : DeviceId, user_id : User \cup {None},
                   endpoint_arn : Arn \cup {NoArn, None},
                   is_active : BOOLEAN \cup {None}]

\* What serde_json::from_value accepts as the data of each entity.
DataOf(entity) ==
  CASE entity = "user"              -> UserData
    [] entity = "organization_user" -> MembershipData
    [] entity = "user_unit"         -> UserUnitData
    [] entity = "unit_device"       -> UnitDeviceData
    [] entity = "user_device"       -> UserDeviceData

\* Data with a required field missing, and a payload that is no envelope.
Broken     == [broken |-> TRUE]
Unreadable == [unreadable |-> TRUE]

EventType == {"UPSERT", "DELETE"}

Envelope ==
  UNION {[event_type : EventType, entity : {e}, schema_version : Version,
          data : DataOf(e) \cup {Broken}] : e \in Entity}

\* An entity of the topic that this service has no use for.
ForeignEnvelope == [event_type : EventType, entity : {"plan"},
                    schema_version : Version, data : {Broken}]

Payload == Envelope \cup ForeignEnvelope \cup {Unreadable}

-----------------------------------------------------------------------------
(* apply_event *)

Default(v, d) == IF v = None THEN d ELSE v

\* Mutation: a grant without its organization is applied.
LacksField_NotForGrants(upsert, entity, d) ==
  /\ upsert
  /\ \/ entity = "unit_device" /\ (d.unit_id = None \/ d.organization_id = None)
     \/ entity = "user_device" /\ d.user_id = None

\* The arms of `match` that answer Malformed after the data was decoded.
LacksField(upsert, entity, d) ==
  /\ upsert
  /\ \/ entity = "user_unit"   /\ d.organization_id = None
     \/ entity = "unit_device" /\ (d.unit_id = None \/ d.organization_id = None)
     \/ entity = "user_device" /\ d.user_id = None

Outcome(p) ==
  IF p = Unreadable THEN "Malformed"
  ELSE IF p.schema_version \notin {None, SCHEMA_VERSION} THEN "UnknownVersion"
  ELSE IF p.entity \notin Entity THEN "UnknownEntity"
  ELSE IF \/ p.data = Broken
          \/ LacksField(p.event_type = "UPSERT", p.entity, p.data)
       THEN "Malformed"
  ELSE "Yes"

Upsert(s, entity, d) ==
  CASE entity = "user" -> ApplyUser(s, d.id, Default(d.status, ""))
    [] entity = "organization_user" ->
         UpsertMembership(s, d.organization_id, d.user_id,
                          Default(d.role, ""), Default(d.status, ""))
    [] entity = "user_unit" ->
         UpsertUserUnit(s, d.organization_id, d.user_id, d.unit_id)
    [] entity = "unit_device" ->
         UpsertUnitDevice(s, d.device_id, d.unit_id, d.organization_id)
    [] entity = "user_device" ->
         UpsertUserDevice(s, [id           |-> d.id,
                              user_id      |-> d.user_id,
                              endpoint_arn |-> Default(d.endpoint_arn, NoArn),
                              is_active    |-> Default(d.is_active, FALSE)])

\* Users are not deleted: a DELETE deactivates the user.
Delete(s, entity, d) ==
  CASE entity = "user"              -> ApplyUser(s, d.id, "")
    [] entity = "organization_user" -> DeleteMembership(s, d.organization_id, d.user_id)
    [] entity = "user_unit"         -> DeleteUserUnit(s, d.user_id, d.unit_id)
    [] entity = "unit_device"       -> DeleteUnitDevice(s, d.device_id)
    [] entity = "user_device"       -> DeactivateDevice(s, d.id)

ApplyEvent(s, p) ==
  IF Outcome(p) # "Yes" THEN s
  ELSE IF p.event_type = "UPSERT" THEN Upsert(s, p.entity, p.data)
  ELSE Delete(s, p.entity, p.data)

-----------------------------------------------------------------------------
(* Facts about the read model that more than one module states. *)

EquipmentAt(s, o, x) == {i \in Imei : s.unit_devices[i] = <<x, o>>}

GrantsMirrored(s) ==
  \A u \in User, x \in Unit : u \in s.unit_users[x] <=> s.user_units[<<u, x>>] # None

CountsExact(s) ==
  \A o \in Org, x \in Unit : s.units_by_org[<<o, x>>] = Cardinality(EquipmentAt(s, o, x))

OrgNeedsEquipment(s) ==
  \A x \in Unit : s.unit_org[x] # None => EquipmentAt(s, s.unit_org[x], x) # {}

\* No message ever gives the unit to a second organization.
AtMostOneOrg == \A x \in Unit : \A o1, o2 \in UnitOrgs[x] : o1 = o2

OrgsGiven(s) ==
  /\ \A i \in Imei : s.unit_devices[i] # None =>
       s.unit_devices[i][2] \in UnitOrgs[s.unit_devices[i][1]]
  /\ \A u \in User, x \in Unit : s.user_units[<<u, x>>] # None =>
       s.user_units[<<u, x>>] \in UnitOrgs[x]

OrgKnown(s) ==
  \A i \in Imei : s.unit_devices[i] # None =>
    s.unit_org[s.unit_devices[i][1]] = s.unit_devices[i][2]

=============================================================================
