------------------------- MODULE ControlPlaneSyncProofs -------------------------
(***************************************************************************)
(* A snapshot read by separate queries, and messages from the offsets      *)
(* noted before it: row by row, the cache ends up as the database, for any *)
(* number of rows, partitions, writes and crashes.                         *)
(***************************************************************************)
EXTENDS ControlPlaneSync, ControlPlaneEventsProofs, RecursionFacts

-----------------------------------------------------------------------------
(* A message changes the entry of its row and of no other *)

LEMMA ChangeIsApplied ==
  ASSUME NEW c \in Change
  PROVE  /\ c \in Payload /\ Outcome(c) = "Yes"
         /\ c.entity \in Entity /\ c.data \in DataOf(c.entity)
         /\ c.event_type \in EventType
         /\ c.event_type = "UPSERT" => ~LacksField(TRUE, c.entity, c.data)
         /\ c.entity = "user" => c.event_type = "UPSERT"
<1>1. c \in Envelope /\ Outcome(c) = "Yes" /\ (c.entity = "user" => c.event_type = "UPSERT")
  BY SyncAssumption DEF SyncAssumption
<1>2. c \in Payload
  BY <1>1 DEF Payload
<1>3. c.event_type \in EventType
  BY <1>1 DEF Envelope
<1> QED
  BY <1>1, <1>2, <1>3, AppliedPayload

\* The key of a row, by table.
Key(e) ==
  CASE e = "user"              -> {<<e, u>> : u \in User}
    [] e = "organization_user" -> {<<e, o, u>> : o \in Org, u \in User}
    [] e = "user_unit"         -> {<<e, u, x>> : u \in User, x \in Unit}
    [] e = "unit_device"       -> {<<e, i>> : i \in Imei}
    [] e = "user_device"       -> {<<e, d>> : d \in DeviceId}

LEMMA RowOfKey ==
  ASSUME NEW c \in Change
  PROVE  RowOf(c) \in Key(c.entity) /\ RowOf(c)[1] = c.entity /\ RowOf(c) \in Row
<1>1. c.entity \in Entity /\ c.data \in DataOf(c.entity)
  BY ChangeIsApplied
<1>2. RowOf(c) \in Row
  BY DEF Row
<1>3. RowOf(c) \in Key(c.entity) /\ RowOf(c)[1] = c.entity
  <2>1. CASE c.entity = "user"
    BY <1>1, <2>1 DEF RowOf, Key, DataOf, UserData
  <2>2. CASE c.entity = "organization_user"
    BY <1>1, <2>2 DEF RowOf, Key, DataOf, MembershipData
  <2>3. CASE c.entity = "user_unit"
    BY <1>1, <2>3 DEF RowOf, Key, DataOf, UserUnitData
  <2>4. CASE c.entity = "unit_device"
    <3>1. c.data.device_id \in Imei
      BY <1>1, <2>4 DEF DataOf, UnitDeviceData
    <3> QED BY <2>4, <3>1 DEF RowOf, Key
  <2>5. CASE c.entity = "user_device"
    <3>1. c.data.id \in DeviceId
      BY <1>1, <2>5 DEF DataOf, UserDeviceData
    <3> QED BY <2>5, <3>1 DEF RowOf, Key
  <2> QED
    BY <1>1, <2>1, <2>2, <2>3, <2>4, <2>5 DEF Entity
<1> QED
  BY <1>2, <1>3

Keys == UNION {Key(e) : e \in Entity}

LEMMA KeyTable == \A r \in Keys : r[1] \in Entity /\ r \in Key(r[1])
<1> SUFFICES ASSUME NEW e \in Entity, NEW r \in Key(e) PROVE r[1] = e
  BY DEF Keys
<1> QED BY DEF Key, Entity

LEMMA RowsAreKeys == \A r \in Row : r \in Keys /\ r[1] \in Entity
  BY RowOfKey, ChangeIsApplied DEF Row, Keys

\* The part of the state that the entries of a table are in.
SameColumn(e, s, t) ==
  CASE e = "user"              -> t.user_active = s.user_active
    [] e = "organization_user" -> t.memberships = s.memberships
    [] e = "user_unit"         -> t.user_units = s.user_units
    [] e = "unit_device"       -> t.unit_devices = s.unit_devices
    [] e = "user_device"       -> t.user_devices = s.user_devices

LEMMA ColumnEntry ==
  ASSUME NEW r \in Keys, NEW s, NEW t, SameColumn(r[1], s, t)
  PROVE  Entry(t, r) = Entry(s, r)
<1>1. r[1] \in Entity
  BY KeyTable
<1> QED
  BY <1>1 DEF Entity, SameColumn, Entry

\* What is shown of every change: the entry of its row, and no other entry.
Right(s, t, c, r) == Entry(t, r) = IF r = RowOf(c) THEN Content(r, c) ELSE Entry(s, r)

\* Rows of other tables follow from the columns the operation leaves alone.
LEMMA OtherTables ==
  ASSUME NEW s, NEW t, NEW c \in Change, NEW r \in Keys, r[1] # c.entity,
         \A e \in Entity \ {c.entity} : SameColumn(e, s, t)
  PROVE  Right(s, t, c, r)
<1>1. r # RowOf(c) /\ r[1] \in Entity
  BY RowOfKey, KeyTable
<1>2. Entry(t, r) = Entry(s, r)
  BY <1>1, ColumnEntry
<1> QED
  BY <1>1, <1>2 DEF Right

LEMMA UserEntry ==
  ASSUME NEW s \in State, NEW c \in Change, c.entity = "user", NEW r \in Keys
  PROVE  Right(s, ApplyEvent(s, c), c, r)
<1> DEFINE t == ApplyEvent(s, c)
<1>1. c.data \in UserData /\ c.event_type = "UPSERT" /\ Outcome(c) = "Yes"
  BY ChangeIsApplied DEF DataOf
<1>2. c.data.id \in User /\ c.data.status \in Status
  BY <1>1 DEF UserData
<1>3. t = ApplyUser(s, c.data.id, Default(c.data.status, ""))
  BY <1>1 DEF ApplyEvent, Upsert
<1>4. CASE r[1] = "user"
  <2>1. PICK u \in User : r = <<"user", u>>
    BY <1>4, KeyTable DEF Key
  <2>2. RowOf(c) = <<"user", c.data.id>>
    BY DEF RowOf
  <2>3. Entry(t, r) = t.user_active[u] /\ Entry(s, r) = s.user_active[u]
    BY <2>1 DEF Entry
  <2>4. Default(c.data.status, "") = "ACTIVE" <=> c.data.status = "ACTIVE"
    BY EventsAssumption DEF Default, EventsAssumption
  <2>5. Content(r, c) = IF c.data.status = "ACTIVE" THEN "active" ELSE "inactive"
    BY <1>1, SyncAssumption DEF Content, Fields, SyncAssumption
  <2>6. t.user_active[u] = IF u = c.data.id THEN Content(r, c) ELSE s.user_active[u]
    BY <1>2, <1>3, <2>4, <2>5 DEF ApplyUser, State
  <2> QED
    BY <2>1, <2>2, <2>3, <2>6 DEF Right
<1>5. CASE r[1] # "user"
  <2>1. \A e \in Entity \ {"user"} : SameColumn(e, s, t)
    BY <1>3 DEF Entity, SameColumn, ApplyUser, State
  <2> QED BY <1>5, <2>1, OtherTables
<1> QED
  BY <1>4, <1>5

LEMMA MembershipEntry ==
  ASSUME NEW s \in State, NEW c \in Change, c.entity = "organization_user", NEW r \in Keys
  PROVE  Right(s, ApplyEvent(s, c), c, r)
<1> DEFINE t == ApplyEvent(s, c)
           d == c.data
<1>1. d \in MembershipData /\ c.event_type \in EventType /\ Outcome(c) = "Yes"
  BY ChangeIsApplied DEF DataOf
<1>2. /\ d.organization_id \in Org /\ d.user_id \in User
      /\ d.role \in Role /\ d.status \in Status
  BY <1>1 DEF MembershipData
<1>3. t = IF c.event_type = "UPSERT"
          THEN UpsertMembership(s, d.organization_id, d.user_id, Default(d.role, ""),
                                Default(d.status, ""))
          ELSE DeleteMembership(s, d.organization_id, d.user_id)
  BY <1>1 DEF ApplyEvent, Upsert, Delete
<1>4. CASE r[1] = "organization_user"
  <2>1. PICK o \in Org, u \in User : r = <<"organization_user", o, u>>
    BY <1>4, KeyTable DEF Key
  <2>2. RowOf(c) = <<"organization_user", d.organization_id, d.user_id>>
    BY DEF RowOf
  <2>3. Entry(t, r) = t.memberships[<<o, u>>] /\ Entry(s, r) = s.memberships[<<o, u>>]
    BY <2>1 DEF Entry
  <2>4. Default(d.status, "") = "ACTIVE" <=> d.status = "ACTIVE"
    BY EventsAssumption DEF Default, EventsAssumption
  <2>5. Default(d.role, "") = "owner" <=> d.role = "owner"
    BY EventsAssumption DEF Default, EventsAssumption
  <2>6. CASE c.event_type = "UPSERT"
    <3>1. Content(r, c) = [owner |-> d.role = "owner", active |-> d.status = "ACTIVE"]
      BY <2>6, SyncAssumption DEF Content, Fields, SyncAssumption
    <3>2. t.memberships = [s.memberships EXCEPT ![<<d.organization_id, d.user_id>>] =
                             [owner  |-> Default(d.role, "") = "owner",
                              active |-> Default(d.status, "") = "ACTIVE"]]
      BY <1>3, <2>6 DEF UpsertMembership, State
    <3>3. t.memberships = [s.memberships EXCEPT ![<<d.organization_id, d.user_id>>] =
                             Content(r, c)]
      BY <3>1, <3>2, <2>4, <2>5
    <3>4. /\ s.memberships = [m \in Org \X User |-> s.memberships[m]]
          /\ <<o, u>> \in Org \X User
      BY DEF State
    <3> HIDE DEF t
    <3>5. t.memberships[<<o, u>>] =
            IF <<o, u>> = <<d.organization_id, d.user_id>> THEN Content(r, c)
            ELSE s.memberships[<<o, u>>]
      BY <3>3, <3>4
    <3> QED BY <2>1, <2>2, <2>3, <3>5 DEF Right, t
  <2>7. CASE c.event_type = "DELETE"
    <3>1. Content(r, c) = None
      BY <2>1, <2>7 DEF Content, Absent
    <3>2. t.memberships[<<o, u>>] =
            IF <<o, u>> = <<d.organization_id, d.user_id>> THEN None
            ELSE s.memberships[<<o, u>>]
      BY <1>2, <1>3, <2>7 DEF DeleteMembership, State
    <3> QED BY <2>1, <2>2, <2>3, <3>1, <3>2 DEF Right
  <2> QED
    BY <1>1, <2>6, <2>7 DEF EventType
<1>5. CASE r[1] # "organization_user"
  <2>1. \A e \in Entity \ {"organization_user"} : SameColumn(e, s, t)
    BY <1>3 DEF Entity, SameColumn, UpsertMembership, DeleteMembership, State
  <2> QED BY <1>5, <2>1, OtherTables
<1> QED
  BY <1>4, <1>5

LEMMA UserUnitEntry ==
  ASSUME NEW s \in State, NEW c \in Change, c.entity = "user_unit", NEW r \in Keys
  PROVE  Right(s, ApplyEvent(s, c), c, r)
<1> DEFINE t == ApplyEvent(s, c)
           d == c.data
<1>1. d \in UserUnitData /\ c.event_type \in EventType /\ Outcome(c) = "Yes"
  BY ChangeIsApplied DEF DataOf
<1>2. d.user_id \in User /\ d.unit_id \in Unit
  BY <1>1 DEF UserUnitData
<1>3. t = IF c.event_type = "UPSERT"
          THEN UpsertUserUnit(s, d.organization_id, d.user_id, d.unit_id)
          ELSE DeleteUserUnit(s, d.user_id, d.unit_id)
  BY <1>1 DEF ApplyEvent, Upsert, Delete
<1>4. CASE r[1] = "user_unit"
  <2>1. PICK u \in User, x \in Unit : r = <<"user_unit", u, x>>
    BY <1>4, KeyTable DEF Key
  <2>2. RowOf(c) = <<"user_unit", d.user_id, d.unit_id>>
    BY DEF RowOf
  <2>3. Entry(t, r) = t.user_units[<<u, x>>] /\ Entry(s, r) = s.user_units[<<u, x>>]
    BY <2>1 DEF Entry
  <2>4. Content(r, c) = IF c.event_type = "UPSERT" THEN d.organization_id ELSE None
    BY <1>1, <2>1, SyncAssumption DEF EventType, Content, Absent, Fields, SyncAssumption
  <2>5. t.user_units = [s.user_units EXCEPT ![<<d.user_id, d.unit_id>>] = Content(r, c)]
    <3>1. CASE c.event_type = "UPSERT"
      BY <1>3, <2>4, <3>1 DEF UpsertUserUnit, State
    <3>2. CASE c.event_type # "UPSERT"
      BY <1>3, <2>4, <3>2 DEF DeleteUserUnit, State
    <3> QED BY <3>1, <3>2
  <2>6. /\ s.user_units = [g \in User \X Unit |-> s.user_units[g]]
        /\ <<u, x>> \in User \X Unit
    BY DEF State
  <2> HIDE DEF t
  <2>7. t.user_units[<<u, x>>] =
          IF <<u, x>> = <<d.user_id, d.unit_id>> THEN Content(r, c) ELSE s.user_units[<<u, x>>]
    BY <2>5, <2>6
  <2> QED BY <2>1, <2>2, <2>3, <2>7 DEF Right, t
<1>5. CASE r[1] # "user_unit"
  <2>1. \A e \in Entity \ {"user_unit"} : SameColumn(e, s, t)
    BY <1>3 DEF Entity, SameColumn, UpsertUserUnit, DeleteUserUnit, State
  <2> QED BY <1>5, <2>1, OtherTables
<1> QED
  BY <1>4, <1>5

\* Taking the equipment off its unit empties its entry, if there was one.
LEMMA UnassignEntry ==
  ASSUME NEW s \in State, NEW i \in Imei
  PROVE  LET t == UnassignDevice(s, i)
         IN /\ t.unit_devices = [s.unit_devices EXCEPT ![i] = None]
            /\ \A e \in Entity \ {"unit_device"} : SameColumn(e, s, t)
<1>1. CASE s.unit_devices[i] = None
  BY <1>1 DEF UnassignDevice, State, Entity, SameColumn
<1>2. CASE s.unit_devices[i] # None
  BY <1>2 DEF UnassignDevice, State, Entity, SameColumn
<1> QED
  BY <1>1, <1>2

LEMMA UnitDeviceEntry ==
  ASSUME NEW s \in State, NEW c \in Change, c.entity = "unit_device", NEW r \in Keys
  PROVE  Right(s, ApplyEvent(s, c), c, r)
<1> DEFINE t == ApplyEvent(s, c)
           d == c.data
           v == UnassignDevice(s, d.device_id)
<1>1. d \in UnitDeviceData /\ c.event_type \in EventType /\ Outcome(c) = "Yes"
  BY ChangeIsApplied DEF DataOf
<1>2. d.device_id \in Imei
  BY <1>1 DEF UnitDeviceData
<1>3. v \in State
  BY <1>2, UnassignType
<1>4. /\ v.unit_devices = [s.unit_devices EXCEPT ![d.device_id] = None]
      /\ \A e \in Entity \ {"unit_device"} : SameColumn(e, s, v)
  BY <1>2, UnassignEntry
<1>5. t = IF c.event_type = "UPSERT"
          THEN [v EXCEPT !.unit_devices[d.device_id] = <<d.unit_id, d.organization_id>>,
                         !.units_by_org[<<d.organization_id, d.unit_id>>] = @ + 1,
                         !.unit_org[d.unit_id] = d.organization_id]
          ELSE v
  BY <1>1 DEF ApplyEvent, Upsert, Delete, UpsertUnitDevice, DeleteUnitDevice
<1> HIDE DEF t, v
<1>6. CASE r[1] = "unit_device"
  <2>1. PICK i \in Imei : r = <<"unit_device", i>>
    BY <1>6, KeyTable DEF Key
  <2>2. RowOf(c) = <<"unit_device", d.device_id>>
    BY DEF RowOf
  <2>3. Entry(t, r) = t.unit_devices[i] /\ Entry(s, r) = s.unit_devices[i]
    BY <2>1 DEF Entry
  <2>4. Content(r, c) = IF c.event_type = "UPSERT" THEN <<d.unit_id, d.organization_id>>
                        ELSE None
    BY <1>1, <2>1, SyncAssumption DEF EventType, Content, Absent, Fields, SyncAssumption
  <2>5. t.unit_devices = [s.unit_devices EXCEPT ![d.device_id] = Content(r, c)]
    BY <1>2, <1>3, <1>4, <1>5, <2>4 DEF State
  <2>6. t.unit_devices[i] = IF i = d.device_id THEN Content(r, c) ELSE s.unit_devices[i]
    BY <2>5 DEF State
  <2> QED BY <2>1, <2>2, <2>3, <2>6 DEF Right, t
<1>7. CASE r[1] # "unit_device"
  <2>1. \A e \in Entity \ {"unit_device"} : SameColumn(e, s, t)
    BY <1>3, <1>4, <1>5 DEF Entity, SameColumn, State
  <2> QED BY <1>7, <2>1, OtherTables DEF t
<1> QED
  BY <1>6, <1>7

\* The devices with one id, under whichever user.
Filed(s, id) == {d \in UNION {s.user_devices[u] : u \in User} : d.id = id}

LEMMA DeactivateEntry ==
  ASSUME NEW s \in State, NEW id \in DeviceId, NEW k \in DeviceId
  PROVE  Filed(DeactivateDevice(s, id), k) = IF k = id THEN {} ELSE Filed(s, k)
<1> DEFINE t == DeactivateDevice(s, id)
<1>1. \A u \in User : t.user_devices[u] = {d \in s.user_devices[u] : d.id # id}
  BY DEF DeactivateDevice, State
<1> HIDE DEF t
<1>2. \A d : d \in Filed(t, k) <=> d \in Filed(s, k) /\ k # id
  BY <1>1 DEF Filed
<1> QED
  BY <1>2 DEF t

LEMMA FileEntry ==
  ASSUME NEW s \in State, NEW u \in User, NEW d, NEW k
  PROVE  LET t == [s EXCEPT !.user_devices[u] = @ \cup {d}]
         IN Filed(t, k) = IF k = d.id THEN Filed(s, k) \cup {d} ELSE Filed(s, k)
<1> DEFINE t == [s EXCEPT !.user_devices[u] = @ \cup {d}]
<1>1. \A v \in User : t.user_devices[v] =
         IF v = u THEN s.user_devices[v] \cup {d} ELSE s.user_devices[v]
  BY DEF State
<1> HIDE DEF t
<1>2. \A e : e \in Filed(t, k) <=> (e \in Filed(s, k) \/ (e = d /\ k = d.id))
  BY <1>1 DEF Filed
<1> QED
  BY <1>2 DEF t

LEMMA UserDeviceEntry ==
  ASSUME NEW s \in State, NEW c \in Change, c.entity = "user_device", NEW r \in Keys
  PROVE  Right(s, ApplyEvent(s, c), c, r)
<1> DEFINE t == ApplyEvent(s, c)
           d == c.data
           v == DeactivateDevice(s, d.id)
           f == [id           |-> d.id,
                 user_id      |-> d.user_id,
                 endpoint_arn |-> Default(d.endpoint_arn, NoArn),
                 is_active    |-> Default(d.is_active, FALSE)]
           reached == c.event_type = "UPSERT" /\ f.is_active /\ f.endpoint_arn # NoArn
<1>1. d \in UserDeviceData /\ c.event_type \in EventType /\ Outcome(c) = "Yes"
  BY ChangeIsApplied DEF DataOf
<1>2. d.id \in DeviceId /\ d.is_active \in BOOLEAN \cup {None}
  BY <1>1 DEF UserDeviceData
<1>3. c.event_type = "UPSERT" => d.user_id \in User
  <2>1. c.event_type = "UPSERT" => d.user_id # None
    BY ChangeIsApplied DEF LacksField
  <2> QED BY <1>1, <2>1 DEF UserDeviceData
<1>4. v \in State
  BY DeactivateType
<1>5. f.id = d.id /\ f.user_id = d.user_id
  OBVIOUS
<1>6. t = IF reached THEN [v EXCEPT !.user_devices[d.user_id] = @ \cup {f}] ELSE v
  BY <1>1, <1>5 DEF ApplyEvent, Upsert, Delete, UpsertUserDevice, EventType
<1>7. Content(r, c) = IF reached THEN {f} ELSE IF c.event_type = "UPSERT" THEN {} ELSE Absent(r)
  <2>1. f.is_active <=> d.is_active \notin {None, FALSE}
    BY <1>2, EventsAssumption DEF Default, EventsAssumption
  <2>2. f.endpoint_arn # NoArn <=> d.endpoint_arn \notin {None, NoArn}
    BY DEF Default
  <2>3. reached => f = [id |-> d.id, user_id |-> d.user_id,
                        endpoint_arn |-> d.endpoint_arn, is_active |-> TRUE]
    BY <1>2, EventsAssumption DEF Default, EventsAssumption
  <2>4. CASE c.event_type = "UPSERT"
    BY <2>1, <2>2, <2>3, <2>4, SyncAssumption DEF Content, Fields, SyncAssumption
  <2>5. CASE c.event_type = "DELETE"
    BY <2>5 DEF Content
  <2> QED BY <1>1, <2>4, <2>5 DEF EventType
<1>8. CASE r[1] = "user_device"
  <2>1. PICK k \in DeviceId : r = <<"user_device", k>>
    BY <1>8, KeyTable DEF Key
  <2>2. RowOf(c) = <<"user_device", d.id>>
    BY DEF RowOf
  <2>3. Entry(t, r) = Filed(t, k) /\ Entry(s, r) = Filed(s, k) /\ Absent(r) = {}
    BY <2>1 DEF Entry, Filed, Absent
  <2>4. Filed(v, k) = IF k = d.id THEN {} ELSE Filed(s, k)
    BY <1>2, DeactivateEntry
  <2> HIDE DEF v, f
  <2>5. CASE reached
    <3>1. t = [v EXCEPT !.user_devices[d.user_id] = @ \cup {f}] /\ d.user_id \in User
      BY <1>3, <1>6, <2>5
    <3>2. Filed(t, k) = IF k = f.id THEN Filed(v, k) \cup {f} ELSE Filed(v, k)
      BY <1>4, <3>1, FileEntry
    <3>3. Filed(t, k) = IF k = d.id THEN {f} ELSE Filed(s, k)
      BY <1>5, <2>4, <3>2
    <3> QED BY <1>7, <2>1, <2>2, <2>3, <2>5, <3>3 DEF Right
  <2>6. CASE ~reached
    BY <1>6, <1>7, <2>1, <2>2, <2>3, <2>4, <2>6 DEF Right
  <2> QED BY <2>5, <2>6
<1>9. CASE r[1] # "user_device"
  <2>1. \A e \in Entity \ {"user_device"} : SameColumn(e, s, v)
    BY DEF Entity, SameColumn, DeactivateDevice, State
  <2>2. \A e \in Entity \ {"user_device"} : SameColumn(e, s, t)
    <3> HIDE DEF v, f
    <3>1. CASE reached
      <4>1. t = [v EXCEPT !.user_devices[d.user_id] = @ \cup {f}]
        BY <1>6, <3>1
      <4> QED BY <1>4, <2>1, <4>1 DEF Entity, SameColumn, State
    <3>2. CASE ~reached
      BY <1>6, <2>1, <3>2
    <3> QED BY <3>1, <3>2
  <2> QED BY <1>9, <2>2, OtherTables
<1> QED
  BY <1>8, <1>9

LEMMA EntryAfter ==
  ASSUME NEW s \in State, NEW c \in Change, NEW r \in Keys
  PROVE  /\ ApplyEvent(s, c) \in State
         /\ Entry(ApplyEvent(s, c), r) = IF r = RowOf(c) THEN Content(r, c) ELSE Entry(s, r)
<1>1. c \in Payload /\ c.entity \in Entity
  BY ChangeIsApplied
<1>2. Right(s, ApplyEvent(s, c), c, r)
  BY <1>1, UserEntry, MembershipEntry, UserUnitEntry, UnitDeviceEntry, UserDeviceEntry
     DEF Entity
<1> QED
  BY <1>1, <1>2, ApplyEventType DEF Right

\* Loading a row is applying its UPSERT.
LEMMA InsertIsUpsert ==
  ASSUME NEW s, NEW c \in Change, c.event_type = "UPSERT"
  PROVE  Upsert(s, c.entity, c.data) = ApplyEvent(s, c)
  BY ChangeIsApplied DEF ApplyEvent

LEMMA EmptyEntry == \A r \in Keys : Entry(EmptyState, r) = Absent(r)
<1> SUFFICES ASSUME NEW r \in Keys PROVE Entry(EmptyState, r) = Absent(r)
  OBVIOUS
<1>1. CASE r[1] = "user_device"
  BY <1>1 DEF Entry, Absent, EmptyState
<1>2. CASE r[1] = "user"
  BY <1>2, KeyTable DEF Key, Entry, Absent, EmptyState
<1>3. CASE r[1] = "organization_user"
  BY <1>3, KeyTable DEF Key, Entry, Absent, EmptyState
<1>4. CASE r[1] = "user_unit"
  BY <1>4, KeyTable DEF Key, Entry, Absent, EmptyState
<1>5. CASE r[1] = "unit_device"
  BY <1>5, KeyTable DEF Key, Entry, Absent, EmptyState
<1> QED
  BY <1>1, <1>2, <1>3, <1>4, <1>5, KeyTable DEF Entity

-----------------------------------------------------------------------------
(* The inductive invariant *)

\* The last message of msgs about r, if there is one, is c.
Latest(r, msgs, c) ==
  \A k \in 1..Len(msgs) :
    RowOf(msgs[k]) = r /\ (\A j \in (k + 1)..Len(msgs) : RowOf(msgs[j]) # r) => msgs[k] = c

Queried(e) == \E k \in 1..loaded : Tables[k] = e

Published ==
  /\ \A r \in Row : db[r] # None => RowOf(db[r]) = r
  /\ \A p \in Partition : \A k \in 1..Len(log[p]) : PartitionOf[RowOf(log[p][k])] = p

\* What is published last about a row is what the database has, and until
\* it is published it waits in the outbox.
Newest ==
  \A r \in Row : /\ Latest(r, outbox, db[r])
                 /\ ~About(r, outbox) => Latest(r, log[PartitionOf[r]], db[r])

Phases ==
  /\ phase \in {"down", "noting"} => cache = EmptyState /\ rows = {} /\ loaded = 0
  /\ phase \in {"loading", "running"} => \A p \in Partition : next[p] \in 0..Len(log[p])
  /\ phase = "running" => loaded = Len(Tables) /\ rows = {}

Snapshot ==
  /\ \A c \in rows : c.event_type = "UPSERT" /\ Queried(c.entity)
  /\ \A r \in Row : ~Queried(r[1]) => Entry(cache, r) = Absent(r)

\* Of a settled row, the database's version is in the cache, or still in rows.
Rebuilt ==
  phase \in {"loading", "running"} =>
    \A r \in Row : Settled(r) /\ Queried(r[1]) =>
      /\ \A c \in rows : RowOf(c) = r => c = db[r]
      /\ (\A c \in rows : RowOf(c) # r) => Entry(cache, r) = Content(r, db[r])

SyncInv == TypeOK /\ Published /\ Newest /\ Phases /\ Snapshot /\ Rebuilt

\* A message about r at a position past n.
Pending(r, msgs, n) == \E k \in (n + 1)..Len(msgs) : RowOf(msgs[k]) = r

LEMMA PendingIsUnread ==
  ASSUME NEW m \in Seq(Change), NEW n \in 0..Len(m), NEW r
  PROVE  About(r, SubSeq(m, n + 1, Len(m))) <=> Pending(r, m, n)
<1> DEFINE t == SubSeq(m, n + 1, Len(m))
<1>1. n \in Int /\ Len(m) \in Nat /\ n + 1 >= 1
  OBVIOUS
<1>2. Len(t) = Len(m) - n /\ \A k \in 1..(Len(m) - n) : t[k] = m[n + k]
  BY <1>1
<1>3. ASSUME NEW k \in 1..Len(t), RowOf(t[k]) = r PROVE Pending(r, m, n)
  <2>1. n + k \in (n + 1)..Len(m) /\ RowOf(m[n + k]) = r
    BY <1>1, <1>2, <1>3
  <2> QED BY <2>1 DEF Pending
<1>4. ASSUME NEW k \in (n + 1)..Len(m), RowOf(m[k]) = r PROVE About(r, t)
  <2>1. k - n \in 1..Len(t) /\ t[k - n] = m[k]
    BY <1>1, <1>2
  <2> QED BY <1>4, <2>1 DEF About
<1> QED
  BY <1>3, <1>4 DEF About, Pending

LEMMA SettledPending ==
  ASSUME TypeOK, Phases, phase \in {"loading", "running"}, NEW r \in Row
  PROVE  /\ PartitionOf[r] \in Partition
         /\ Settled(r) <=> /\ ~About(r, outbox)
                          /\ ~Pending(r, log[PartitionOf[r]], next[PartitionOf[r]])
<1>1. PartitionOf[r] \in Partition
  BY SyncAssumption DEF SyncAssumption
<1>2. /\ log[PartitionOf[r]] \in Seq(Change)
      /\ next[PartitionOf[r]] \in 0..Len(log[PartitionOf[r]])
  BY <1>1 DEF TypeOK, Phases
<1> QED
  BY <1>1, <1>2, PendingIsUnread DEF Settled, Unread

\* A step that leaves the process alone settles no row and changes no settled one.
LEMMA SourceStep ==
  ASSUME SyncInv, UNCHANGED process, TypeOK', Published', Newest',
         \A p \in Partition : Len(log[p]) <= Len(log'[p]),
         phase \in {"loading", "running"} =>
           \A r \in Row : Settled(r)' => Settled(r) /\ db'[r] = db[r]
  PROVE  SyncInv'
<1>1. Phases'
  <2>1. ASSUME NEW p \in Partition PROVE Len(log[p]) \in Nat /\ Len(log'[p]) \in Nat
    BY DEF SyncInv, TypeOK
  <2> QED BY <2>1 DEF SyncInv, Phases, process
<1>2. Snapshot'
  BY DEF SyncInv, Snapshot, Queried, process
<1>3. Rebuilt'
  BY DEF SyncInv, Rebuilt, Queried, process
<1> QED
  BY <1>1, <1>2, <1>3 DEF SyncInv

\* A row has news from the moment it is written, in the outbox until it is
\* published.
LEMMA WrittenNews ==
  ASSUME TypeOK, NEW w \in Change, Write(w)
  PROVE  \A r \in Row : About(r, outbox') <=> r = RowOf(w) \/ About(r, outbox)
<1>1. /\ Len(outbox') = Len(outbox) + 1 /\ Len(outbox) \in Nat
      /\ outbox'[Len(outbox) + 1] = w
      /\ \A k \in 1..Len(outbox) : outbox'[k] = outbox[k]
  BY DEF TypeOK, Write
<1> QED
  BY <1>1 DEF About

LEMMA PublishedNews ==
  ASSUME TypeOK, Publish, NEW r \in Row
  PROVE  About(r, outbox) <=> r = RowOf(Head(outbox)) \/ About(r, outbox')
<1>1. outbox \in Seq(Change) /\ outbox # <<>> /\ outbox' = Tail(outbox)
  BY DEF TypeOK, Publish
<1>2. /\ Len(outbox) \in Nat \ {0} /\ Head(outbox) = outbox[1]
      /\ Len(outbox') = Len(outbox) - 1
      /\ \A k \in 1..(Len(outbox) - 1) : outbox'[k] = outbox[k + 1]
  BY <1>1
<1>3. ASSUME NEW k \in 1..Len(outbox), RowOf(outbox[k]) = r
      PROVE  r = RowOf(Head(outbox)) \/ About(r, outbox')
  <2>1. CASE k = 1
    BY <1>2, <1>3, <2>1
  <2>2. CASE k # 1
    <3>1. k - 1 \in 1..Len(outbox') /\ (k - 1) + 1 = k
      BY <1>2, <2>2
    <3>2. outbox'[k - 1] = outbox[k]
      BY <1>2, <3>1
    <3> QED BY <1>3, <3>1, <3>2 DEF About
  <2> QED BY <2>1, <2>2
<1>4. ASSUME NEW k \in 1..Len(outbox'), RowOf(outbox'[k]) = r PROVE About(r, outbox)
  <2>1. k + 1 \in 1..Len(outbox) /\ RowOf(outbox[k + 1]) = r
    BY <1>2, <1>4
  <2> QED BY <2>1 DEF About
<1>5. 1 \in 1..Len(outbox)
  BY <1>2
<1> QED
  BY <1>2, <1>3, <1>4, <1>5 DEF About

LEMMA WriteStep ==
  ASSUME SyncInv, NEW w \in Change, Write(w)
  PROVE  SyncInv'
<1> DEFINE q == RowOf(w)
<1>1. q \in Row
  BY RowOfKey
<1>2. TypeOK'
  <2>1. writes' \in 0..MaxWrites
    BY SyncAssumption DEF SyncInv, TypeOK, Write, SyncAssumption
  <2>2. db' \in [Row -> Change \cup {None}] /\ outbox' \in Seq(Change)
    BY <1>1 DEF SyncInv, TypeOK, Write
  <2>3. UNCHANGED <<log, process>>
    BY DEF Write
  <2> QED BY <2>1, <2>2, <2>3 DEF SyncInv, TypeOK, process
<1>3. \A r \in Row : db'[r] = IF r = q THEN w ELSE db[r]
  BY DEF SyncInv, TypeOK, Write
<1>4. outbox \in Seq(Change) /\ outbox' = Append(outbox, w)
  BY DEF SyncInv, TypeOK, Write
<1>5. /\ Len(outbox') = Len(outbox) + 1 /\ Len(outbox) \in Nat
      /\ outbox'[Len(outbox) + 1] = w
      /\ \A k \in 1..Len(outbox) : outbox'[k] = outbox[k]
  BY <1>4
<1>6. \A r \in Row : About(r, outbox') <=> r = q \/ About(r, outbox)
  BY WrittenNews DEF SyncInv
<1>7. Published'
  BY <1>3 DEF SyncInv, Published, Write
<1>8. Newest'
  <2> SUFFICES ASSUME NEW r \in Row
               PROVE  /\ Latest(r, outbox', db'[r])
                      /\ ~About(r, outbox') => Latest(r, log[PartitionOf[r]], db'[r])
    BY DEF Newest, Write
  <2>1. CASE r = q
    <3>1. About(r, outbox')
      BY <1>6, <2>1
    <3>2. Latest(r, outbox', w)
      BY <1>5, <2>1 DEF Latest
    <3> QED BY <1>3, <2>1, <3>1, <3>2
  <2>2. CASE r # q
    <3>1. Latest(r, outbox, db[r]) /\ (~About(r, outbox) => Latest(r, log[PartitionOf[r]], db[r]))
      BY DEF SyncInv, Newest
    <3>2. Latest(r, outbox', db[r])
      <4> SUFFICES ASSUME NEW k \in 1..Len(outbox'), RowOf(outbox'[k]) = r,
                          \A j \in (k + 1)..Len(outbox') : RowOf(outbox'[j]) # r
                   PROVE  outbox'[k] = db[r]
        BY DEF Latest
      <4>1. k \in 1..Len(outbox)
        BY <1>5, <2>2
      <4>2. \A j \in (k + 1)..Len(outbox) : RowOf(outbox[j]) # r
        BY <1>5, <4>1
      <4> QED BY <1>5, <3>1, <4>1, <4>2 DEF Latest
    <3> QED BY <1>3, <1>6, <2>2, <3>1, <3>2
  <2> QED BY <2>1, <2>2
<1>9. ASSUME NEW r \in Row, Settled(r)' PROVE Settled(r) /\ db'[r] = db[r]
  <2>1. ~About(r, outbox')
    BY <1>9 DEF Settled
  <2>2. Unread(PartitionOf[r])' = Unread(PartitionOf[r])
    BY DEF Unread, Write, process
  <2> QED BY <1>3, <1>6, <1>9, <2>1, <2>2 DEF Settled
<1> QED
  <2>1. UNCHANGED process /\ log' = log
    BY DEF Write
  <2>2. \A p \in Partition : Len(log[p]) <= Len(log'[p])
    BY <2>1 DEF SyncInv, TypeOK
  <2> QED BY <1>2, <1>7, <1>8, <1>9, <2>1, <2>2, SourceStep

LEMMA PublishStep ==
  ASSUME SyncInv, Publish
  PROVE  SyncInv'
<1> DEFINE h == Head(outbox)
           q == RowOf(h)
           p == PartitionOf[q]
           m == log[p]
<1>1. outbox \in Seq(Change) /\ outbox # <<>> /\ outbox' = Tail(outbox)
  BY DEF SyncInv, TypeOK, Publish
<1>2. /\ Len(outbox) \in Nat \ {0} /\ h = outbox[1] /\ h \in Change
      /\ outbox' \in Seq(Change) /\ Len(outbox') = Len(outbox) - 1
      /\ \A k \in 1..(Len(outbox) - 1) : outbox'[k] = outbox[k + 1]
  BY <1>1
<1>3. q \in Row /\ p \in Partition
  BY <1>2, RowOfKey, SyncAssumption DEF SyncAssumption
<1>4. m \in Seq(Change) /\ log' = [log EXCEPT ![p] = Append(m, h)]
  BY <1>3 DEF SyncInv, TypeOK, Publish
<1>5. Append(m, h) \in Seq(Change)
  BY <1>2, <1>4
<1>6. log' \in [Partition -> Seq(Change)] /\ log'[p] = Append(m, h)
  BY <1>3, <1>4, <1>5 DEF SyncInv, TypeOK
<1>7. \A t \in Partition \ {p} : log'[t] = log[t]
  BY <1>4 DEF SyncInv, TypeOK
<1>8. /\ Len(log'[p]) = Len(m) + 1 /\ Len(m) \in Nat
      /\ log'[p][Len(m) + 1] = h
      /\ \A k \in 1..Len(m) : log'[p][k] = m[k]
  BY <1>4, <1>6
<1>9. \A t \in Partition : Len(log[t]) \in Nat /\ Len(log[t]) <= Len(log'[t])
  <2> SUFFICES ASSUME NEW t \in Partition
               PROVE  Len(log[t]) \in Nat /\ Len(log[t]) <= Len(log'[t])
    OBVIOUS
  <2>1. log[t] \in Seq(Change)
    BY DEF SyncInv, TypeOK
  <2>2. Len(log[t]) \in Nat
    BY <2>1
  <2>3. CASE t = p
    BY <1>8, <2>2, <2>3
  <2>4. CASE t # p
    BY <1>7, <2>2, <2>4
  <2> QED BY <2>2, <2>3, <2>4
<1>10. TypeOK'
  <2>1. \A t \in Partition : next[t] \in (0..Len(log'[t])) \cup {None}
    BY <1>6, <1>9 DEF SyncInv, TypeOK
  <2>2. UNCHANGED <<db, writes, process>>
    BY DEF Publish
  <2> QED BY <1>2, <1>6, <2>1, <2>2 DEF SyncInv, TypeOK, process
<1>11. Published'
  <2>1. ASSUME NEW t \in Partition, NEW k \in 1..Len(log'[t])
        PROVE  PartitionOf[RowOf(log'[t][k])] = t
    <3>1. CASE t # p
      BY <1>7, <2>1, <3>1 DEF SyncInv, Published
    <3>2. CASE t = p /\ k # Len(m) + 1
      <4>1. k \in 1..Len(m)
        BY <1>8, <2>1, <3>2
      <4> QED BY <1>3, <1>8, <3>2, <4>1 DEF SyncInv, Published
    <3>3. CASE t = p /\ k = Len(m) + 1
      BY <1>8, <3>3
    <3> QED BY <3>1, <3>2, <3>3
  <2> QED BY <2>1 DEF SyncInv, Published, Publish
<1>12. \A r \in Row : About(r, outbox) <=> r = q \/ About(r, outbox')
  BY PublishedNews DEF SyncInv
<1>13. Newest'
  <2> SUFFICES ASSUME NEW r \in Row
               PROVE  /\ Latest(r, outbox', db[r])
                      /\ ~About(r, outbox') => Latest(r, log'[PartitionOf[r]], db[r])
    BY DEF Newest, Publish
  <2>1. Latest(r, outbox, db[r]) /\ (~About(r, outbox) => Latest(r, log[PartitionOf[r]], db[r]))
    BY DEF SyncInv, Newest
  <2>2. PartitionOf[r] \in Partition
    BY SyncAssumption DEF SyncAssumption
  <2>3. Latest(r, outbox', db[r])
    <3> SUFFICES ASSUME NEW k \in 1..Len(outbox'), RowOf(outbox'[k]) = r,
                        \A j \in (k + 1)..Len(outbox') : RowOf(outbox'[j]) # r
                 PROVE  outbox'[k] = db[r]
      BY DEF Latest
    <3>1. k + 1 \in 1..Len(outbox) /\ outbox'[k] = outbox[k + 1]
      BY <1>2
    <3>2. ASSUME NEW j \in (k + 2)..Len(outbox) PROVE RowOf(outbox[j]) # r
      <4>1. j - 1 \in (k + 1)..Len(outbox') /\ (j - 1) + 1 = j /\ j - 1 \in 1..(Len(outbox) - 1)
        BY <1>2, <3>2
      <4>2. outbox'[j - 1] = outbox[j]
        BY <1>2, <4>1
      <4> QED BY <4>1, <4>2
    <3>3. \A j \in ((k + 1) + 1)..Len(outbox) : RowOf(outbox[j]) # r
      BY <1>2, <3>2
    <3> QED BY <2>1, <3>1, <3>3 DEF Latest
  <2>4. ASSUME ~About(r, outbox') PROVE Latest(r, log'[PartitionOf[r]], db[r])
    <3>1. CASE r = q
      <4>1. h = db[r]
        <5>1. \A j \in 2..Len(outbox) : RowOf(outbox[j]) # r
          <6> SUFFICES ASSUME NEW j \in 2..Len(outbox) PROVE RowOf(outbox[j]) # r
            OBVIOUS
          <6>1. j - 1 \in 1..(Len(outbox) - 1) /\ (j - 1) + 1 = j
            BY <1>2
          <6>2. outbox'[j - 1] = outbox[j] /\ j - 1 \in 1..Len(outbox')
            BY <1>2, <6>1
          <6> QED BY <2>4, <6>2 DEF About
        <5>2. 1 \in 1..Len(outbox) /\ 1 + 1 = 2
          BY <1>2
        <5> QED BY <1>2, <2>1, <3>1, <5>1, <5>2 DEF Latest
      <4>2. \A k \in 1..Len(m) : Len(m) + 1 \in (k + 1)..Len(log'[p])
        BY <1>8
      <4> QED BY <1>8, <3>1, <4>1, <4>2 DEF Latest
    <3>2. CASE r # q
      <4>1. Latest(r, log[PartitionOf[r]], db[r])
        BY <1>12, <2>1, <2>4, <3>2
      <4>2. CASE PartitionOf[r] # p
        BY <1>7, <2>2, <4>1, <4>2
      <4>3. CASE PartitionOf[r] = p
        <5> SUFFICES ASSUME NEW k \in 1..Len(log'[p]), RowOf(log'[p][k]) = r,
                            \A j \in (k + 1)..Len(log'[p]) : RowOf(log'[p][j]) # r
                     PROVE  log'[p][k] = db[r]
          BY <4>3 DEF Latest
        <5>1. k \in 1..Len(m)
          BY <1>8, <3>2
        <5>2. \A j \in (k + 1)..Len(m) : RowOf(m[j]) # r
          BY <1>8, <5>1
        <5> QED BY <1>8, <4>1, <4>3, <5>1, <5>2 DEF Latest
      <4> QED BY <4>2, <4>3
    <3> QED BY <3>1, <3>2
  <2> QED BY <2>3, <2>4
<1>14. ASSUME phase \in {"loading", "running"}, NEW r \in Row, Settled(r)'
       PROVE  Settled(r) /\ db'[r] = db[r]
  <2>1. /\ PartitionOf[r] \in Partition
        /\ Settled(r) <=> /\ ~About(r, outbox)
                         /\ ~Pending(r, log[PartitionOf[r]], next[PartitionOf[r]])
    BY <1>14, SettledPending DEF SyncInv
  <2>2. UNCHANGED <<db, process>>
    BY DEF Publish
  <2>3. /\ log'[PartitionOf[r]] \in Seq(Change)
        /\ next[PartitionOf[r]] \in 0..Len(log[PartitionOf[r]])
    BY <1>6, <1>14, <2>1 DEF SyncInv, Phases
  <2>4. next[PartitionOf[r]] \in 0..Len(log'[PartitionOf[r]])
    BY <1>9, <2>1, <2>3
  <2>5. ~About(r, outbox') /\ ~Pending(r, log'[PartitionOf[r]], next[PartitionOf[r]])
    BY <1>14, <2>2, <2>3, <2>4, PendingIsUnread DEF Settled, Unread, process
  <2>6. r # q
    <3>1. ASSUME r = q PROVE FALSE
      <4>1. Len(m) + 1 \in (next[p] + 1)..Len(log'[p])
        BY <1>8, <2>3, <3>1
      <4> QED BY <1>8, <2>5, <3>1, <4>1 DEF Pending
    <3> QED BY <3>1
  <2>7. ~About(r, outbox)
    BY <1>12, <2>5, <2>6
  <2>8. ~Pending(r, log[PartitionOf[r]], next[PartitionOf[r]])
    <3>1. CASE PartitionOf[r] # p
      BY <1>7, <2>1, <2>5, <3>1
    <3>2. CASE PartitionOf[r] = p
      BY <1>8, <2>3, <2>5, <3>2 DEF Pending
    <3> QED BY <3>1, <3>2
  <2> QED BY <2>1, <2>2, <2>7, <2>8
<1> QED
  <2>1. UNCHANGED process
    BY DEF Publish
  <2> QED BY <1>9, <1>10, <1>11, <1>13, <1>14, <2>1, SourceStep

\* The steps of the process leave the source as it is.
LEMMA SourceKept ==
  ASSUME SyncInv, UNCHANGED source
  PROVE  Published' /\ Newest'
  BY DEF SyncInv, source, Published, Newest, Latest, About

LEMMA StartStep ==
  ASSUME SyncInv, Start
  PROVE  SyncInv'
<1>1. Published' /\ Newest'
  BY SourceKept DEF Start
<1>2. TypeOK' /\ Phases' /\ Snapshot' /\ Rebuilt'
  BY DEF SyncInv, TypeOK, Phases, Snapshot, Rebuilt, Queried, Start, source
<1> QED
  BY <1>1, <1>2 DEF SyncInv

LEMMA NoteOffsetStep ==
  ASSUME SyncInv, NEW p \in Partition, NoteOffset(p)
  PROVE  SyncInv'
<1>1. Published' /\ Newest'
  BY SourceKept DEF NoteOffset
<1>2. /\ UNCHANGED <<db, outbox, log, writes, loaded, rows, cache, crashes>>
      /\ phase = "noting" /\ cache = EmptyState /\ rows = {} /\ loaded = 0
  BY DEF SyncInv, Phases, NoteOffset, source
<1>3. Len(log[p]) \in Nat
  BY DEF SyncInv, TypeOK
<1>4. \A t \in Partition : next'[t] = IF t = p THEN Len(log[p]) ELSE next[t]
  BY DEF SyncInv, TypeOK, NoteOffset, HighWatermark
<1>5. TypeOK'
  <2>1. phase' \in {"noting", "loading"}
    BY <1>2 DEF NoteOffset
  <2>2. next' \in [Partition -> Nat \cup {None}]
    BY <1>3 DEF SyncInv, TypeOK, NoteOffset, HighWatermark
  <2>3. ASSUME NEW t \in Partition PROVE next'[t] \in (0..Len(log[t])) \cup {None}
    BY <1>3, <1>4 DEF SyncInv, TypeOK
  <2> QED BY <1>2, <2>1, <2>2, <2>3 DEF SyncInv, TypeOK
<1>6. Phases'
  <2>1. phase' = "loading" => \A t \in Partition \ {p} : next[t] # None
    BY <1>2 DEF NoteOffset
  <2>2. phase' = "loading" => \A t \in Partition : next'[t] \in 0..Len(log[t])
    BY <1>3, <1>4, <2>1 DEF SyncInv, TypeOK
  <2>3. phase' \in {"noting", "loading"}
    BY <1>2 DEF NoteOffset
  <2> QED BY <1>2, <2>2, <2>3 DEF Phases
<1>7. Snapshot'
  BY <1>2 DEF SyncInv, Snapshot, Queried
<1>8. Rebuilt'
  BY <1>2 DEF Rebuilt, Queried
<1> QED
  BY <1>1, <1>5, <1>6, <1>7, <1>8 DEF SyncInv

LEMMA QueryStep ==
  ASSUME SyncInv, Query
  PROVE  SyncInv'
<1> DEFINE e == Tables[loaded + 1]
<1>1. Published' /\ Newest'
  BY SourceKept DEF Query
<1>2. /\ UNCHANGED <<db, outbox, log, writes, phase, next, cache, crashes>>
      /\ phase = "loading" /\ rows = {} /\ rows' = Visible(e)
      /\ loaded' = loaded + 1 /\ loaded \in Nat /\ loaded < Len(Tables)
  BY DEF SyncInv, TypeOK, Query, source
<1>3. loaded' \in 0..Len(Tables)
  BY <1>2 DEF Tables
<1>4. \A f : Queried(f)' <=> Queried(f) \/ f = e
  <2>1. \A k : k \in 1..loaded' <=> k \in 1..loaded \/ k = loaded + 1
    BY <1>2
  <2> QED BY <1>2, <2>1 DEF Queried
<1>5. \A c \in Visible(e) :
        /\ c \in Change /\ c.entity = e /\ c.event_type = "UPSERT" /\ db[RowOf(c)] = c
        /\ RowOf(c) \in Row
  <2> SUFFICES ASSUME NEW c \in Visible(e)
               PROVE  /\ c \in Change /\ c.entity = e /\ c.event_type = "UPSERT"
                      /\ db[RowOf(c)] = c /\ RowOf(c) \in Row
    OBVIOUS
  <2>1. PICK r \in Row : c = db[r] /\ db[r] # None
    BY DEF Visible
  <2>2. c \in Change /\ RowOf(c) = r
    BY <2>1 DEF SyncInv, TypeOK, Published
  <2> QED BY <2>1, <2>2 DEF Visible
<1>6. TypeOK'
  BY <1>2, <1>3, <1>5 DEF SyncInv, TypeOK
<1>7. Phases'
  BY <1>2 DEF SyncInv, Phases
<1>8. Snapshot'
  BY <1>2, <1>4, <1>5 DEF SyncInv, Snapshot
<1>9. Rebuilt'
  <2> SUFFICES ASSUME NEW r \in Row, Settled(r)', Queried(r[1])'
               PROVE  /\ \A c \in rows' : RowOf(c) = r => c = db[r]
                      /\ (\A c \in rows' : RowOf(c) # r) =>
                           Entry(cache, r) = Content(r, db[r])
    BY <1>2 DEF Rebuilt
  <2>1. \A c \in rows' : RowOf(c) = r => c = db[r]
    BY <1>2, <1>5
  <2>2. Settled(r)
    BY <1>2 DEF Settled, Unread
  <2>3. ASSUME \A c \in rows' : RowOf(c) # r PROVE Entry(cache, r) = Content(r, db[r])
    <3>1. CASE Queried(r[1])
      BY <1>2, <2>2, <3>1 DEF SyncInv, Rebuilt
    <3>2. CASE ~Queried(r[1])
      <4>1. r[1] = e /\ Entry(cache, r) = Absent(r)
        BY <1>4, <3>2 DEF SyncInv, Snapshot
      <4>2. CASE db[r] = None
        BY <4>1, <4>2 DEF Content
      <4>3. CASE db[r] # None
        <5>1. db[r] \in Change /\ RowOf(db[r]) = r
          BY <4>3 DEF SyncInv, TypeOK, Published
        <5>2. db[r].entity = e
          BY <4>1, <5>1, RowOfKey
        <5>3. db[r] \notin Visible(e)
          BY <1>2, <2>3, <5>1
        <5>4. \/ db[r].event_type # "UPSERT"
              \/ e = "user_device" /\ ~Default(db[r].data.is_active, FALSE)
          BY <4>3, <5>2, <5>3 DEF Visible
        <5>5. CASE db[r].event_type # "UPSERT"
          <6>1. db[r].event_type = "DELETE"
            BY <5>1, <5>5, ChangeIsApplied DEF EventType
          <6> QED BY <4>1, <6>1 DEF Content
        <5>6. CASE db[r].event_type = "UPSERT"
          <6>1. e = "user_device" /\ ~Default(db[r].data.is_active, FALSE)
            BY <5>4, <5>6
          <6>2. db[r].data \in UserDeviceData
            BY <5>1, <5>2, <6>1, ChangeIsApplied DEF DataOf
          <6>3. db[r].data.is_active \in {None, FALSE}
            BY <6>1, <6>2 DEF UserDeviceData, Default
          <6>4. Fields(db[r]) = {} /\ Absent(r) = {}
            BY <4>1, <5>2, <6>1, <6>3 DEF Fields, Absent
          <6> QED BY <4>1, <4>3, <5>6, <6>4 DEF Content
        <5> QED BY <5>5, <5>6
      <4> QED BY <4>2, <4>3
    <3> QED BY <3>1, <3>2
  <2> QED BY <2>1, <2>3
<1> QED
  BY <1>1, <1>6, <1>7, <1>8, <1>9 DEF SyncInv

LEMMA InsertRowStep ==
  ASSUME SyncInv, NEW c \in rows, InsertRow(c)
  PROVE  SyncInv'
<1>1. Published' /\ Newest'
  BY SourceKept DEF InsertRow
<1>2. /\ UNCHANGED <<db, outbox, log, writes, phase, next, loaded, crashes>>
      /\ rows' = rows \ {c} /\ rows # {}
  BY DEF InsertRow, source
<1>3. c \in Change /\ c.event_type = "UPSERT" /\ Queried(c.entity) /\ cache \in State
  BY DEF SyncInv, TypeOK, Snapshot
<1>4. cache' = ApplyEvent(cache, c)
  BY <1>3, InsertIsUpsert DEF InsertRow
<1>5. cache' \in State
  BY <1>3, <1>4, EntryAfter, RowOfKey, RowsAreKeys
<1>6. \A r \in Row : Entry(cache', r) = IF r = RowOf(c) THEN Content(r, c) ELSE Entry(cache, r)
  BY <1>3, <1>4, EntryAfter, RowsAreKeys
<1>7. TypeOK'
  BY <1>2, <1>5 DEF SyncInv, TypeOK
<1>8. Phases'
  BY <1>2 DEF SyncInv, Phases
<1>9. Snapshot'
  <2>1. ASSUME NEW r \in Row, ~Queried(r[1]) PROVE Entry(cache', r) = Absent(r)
    <3>1. r # RowOf(c)
      BY <1>3, <2>1, RowOfKey
    <3> QED BY <1>6, <2>1, <3>1 DEF SyncInv, Snapshot
  <2> QED BY <1>2, <2>1 DEF SyncInv, Snapshot, Queried
<1>10. Rebuilt'
  <2> SUFFICES ASSUME phase \in {"loading", "running"},
                      NEW r \in Row, Settled(r), Queried(r[1])
               PROVE  /\ \A b \in rows' : RowOf(b) = r => b = db[r]
                      /\ (\A b \in rows' : RowOf(b) # r) =>
                           Entry(cache', r) = Content(r, db[r])
    BY <1>2 DEF Rebuilt, Settled, Unread, Queried
  <2>1. /\ \A b \in rows : RowOf(b) = r => b = db[r]
        /\ (\A b \in rows : RowOf(b) # r) => Entry(cache, r) = Content(r, db[r])
    BY DEF SyncInv, Rebuilt
  <2>2. CASE r = RowOf(c)
    BY <1>2, <1>6, <2>1, <2>2
  <2>3. CASE r # RowOf(c)
    BY <1>2, <1>6, <2>1, <2>3
  <2> QED BY <2>2, <2>3
<1> QED
  BY <1>1, <1>7, <1>8, <1>9, <1>10 DEF SyncInv

LEMMA AssignStep ==
  ASSUME SyncInv, Assign
  PROVE  SyncInv'
<1>1. Published' /\ Newest'
  BY SourceKept DEF Assign
<1>2. /\ UNCHANGED <<db, outbox, log, writes, next, loaded, rows, cache, crashes>>
      /\ phase = "loading" /\ phase' = "running" /\ loaded = Len(Tables) /\ rows = {}
  BY DEF Assign, StartOffsets, source
<1>3. TypeOK' /\ Phases' /\ Snapshot'
  BY <1>2 DEF SyncInv, TypeOK, Phases, Snapshot, Queried
<1>4. Rebuilt'
  BY <1>2 DEF SyncInv, Rebuilt, Settled, Unread, Queried
<1> QED
  BY <1>1, <1>3, <1>4 DEF SyncInv

LEMMA ConsumeStep ==
  ASSUME SyncInv, NEW p \in Partition, Consume(p)
  PROVE  SyncInv'
<1> DEFINE n == next[p]
           m == log[p]
           c == m[n + 1]
           q == RowOf(c)
<1>1. Published' /\ Newest'
  BY SourceKept DEF Consume
<1>2. /\ UNCHANGED <<db, outbox, log, writes, phase, loaded, rows, crashes>>
      /\ phase = "running" /\ cache' = ApplyEvent(cache, c) /\ n < Len(m)
      /\ next' = [next EXCEPT ![p] = n + 1]
  BY DEF Consume, source
<1>3. /\ m \in Seq(Change) /\ n \in 0..Len(m) /\ cache \in State
      /\ rows = {} /\ loaded = Len(Tables)
  BY <1>2 DEF SyncInv, TypeOK, Phases
<1>4. n \in Nat /\ Len(m) \in Nat /\ n + 1 \in 1..Len(m) /\ n + 1 \in 0..Len(m) /\ n + 1 \in Nat
  BY <1>2, <1>3
<1>5. c \in Change
  BY <1>3, <1>4
<1>6. PartitionOf[q] = p
  BY <1>4 DEF SyncInv, Published
<1>7. cache' \in State
  BY <1>2, <1>3, <1>5, EntryAfter, RowOfKey, RowsAreKeys
<1>8. \A r \in Row : Entry(cache', r) = IF r = q THEN Content(r, c) ELSE Entry(cache, r)
  BY <1>2, <1>3, <1>5, EntryAfter, RowsAreKeys
<1>9. \A t \in Partition : next'[t] = IF t = p THEN n + 1 ELSE next[t]
  BY <1>2 DEF SyncInv, TypeOK
<1>10. TypeOK'
  <2>1. next' \in [Partition -> Nat \cup {None}]
    BY <1>2, <1>4 DEF SyncInv, TypeOK
  <2>2. \A t \in Partition : next'[t] \in (0..Len(log[t])) \cup {None}
    BY <1>4, <1>9 DEF SyncInv, TypeOK
  <2> QED BY <1>2, <1>7, <2>1, <2>2 DEF SyncInv, TypeOK
<1>11. Phases'
  <2>1. \A t \in Partition : next'[t] \in 0..Len(log[t])
    BY <1>2, <1>4, <1>9 DEF SyncInv, Phases
  <2> QED BY <1>2, <1>3, <2>1 DEF Phases
<1>12. \A r \in Row : Queried(r[1])
  <2> SUFFICES ASSUME NEW r \in Row PROVE Queried(r[1])
    OBVIOUS
  <2>1. r[1] \in Entity
    BY RowsAreKeys
  <2>2. \E k \in 1..5 : Tables[k] = r[1]
    BY <2>1 DEF Entity, Tables
  <2> QED BY <1>3, <2>2 DEF Queried, Tables
<1>13. Snapshot'
  <2>1. \A r \in Row : Queried(r[1])'
    BY <1>2, <1>12 DEF Queried
  <2> QED BY <1>2, <1>3, <2>1 DEF Snapshot
<1>14. Rebuilt'
  <2> SUFFICES ASSUME NEW r \in Row, Settled(r)'
               PROVE  Entry(cache', r) = Content(r, db[r])
    BY <1>2, <1>3 DEF Rebuilt
  <2>1. /\ PartitionOf[r] \in Partition
        /\ Settled(r) <=> /\ ~About(r, outbox)
                         /\ ~Pending(r, log[PartitionOf[r]], next[PartitionOf[r]])
    BY <1>2, SettledPending DEF SyncInv
  <2>2. ~About(r, outbox) /\ ~Pending(r, log[PartitionOf[r]], next'[PartitionOf[r]])
    <3>1. /\ log[PartitionOf[r]] \in Seq(Change)
          /\ next'[PartitionOf[r]] \in 0..Len(log[PartitionOf[r]])
      BY <1>2, <1>11, <2>1 DEF SyncInv, TypeOK, Phases
    <3> QED BY <1>2, <3>1, PendingIsUnread DEF Settled, Unread
  <2>3. CASE r = q
    <3>1. Latest(r, m, db[r])
      BY <1>6, <2>2, <2>3 DEF SyncInv, Newest
    <3>2. \A j \in ((n + 1) + 1)..Len(m) : RowOf(m[j]) # r
      BY <1>6, <1>9, <2>2, <2>3 DEF Pending
    <3>3. c = db[r]
      BY <1>4, <2>3, <3>1, <3>2 DEF Latest
    <3> QED BY <1>8, <2>3, <3>3
  <2>4. CASE r # q
    <3>1. Settled(r)
      <4>1. CASE PartitionOf[r] # p
        BY <1>9, <2>1, <2>2, <4>1
      <4>2. CASE PartitionOf[r] = p
        <5>1. \A k \in (n + 1)..Len(m) : k = n + 1 \/ k \in ((n + 1) + 1)..Len(m)
          BY <1>4
        <5>2. ~Pending(r, m, n)
          BY <1>9, <2>2, <2>4, <4>2, <5>1 DEF Pending
        <5> QED BY <2>1, <2>2, <4>2, <5>2
      <4> QED BY <4>1, <4>2
    <3>2. Entry(cache, r) = Content(r, db[r])
      BY <1>2, <1>3, <1>12, <3>1 DEF SyncInv, Rebuilt
    <3> QED BY <1>8, <2>4, <3>2
  <2> QED BY <2>3, <2>4
<1> QED
  BY <1>1, <1>10, <1>11, <1>13, <1>14 DEF SyncInv

LEMMA CrashStep ==
  ASSUME SyncInv, Crash
  PROVE  SyncInv'
<1>1. Published' /\ Newest'
  BY SourceKept DEF Crash
<1>2. /\ UNCHANGED <<db, outbox, log, writes>>
      /\ phase' = "down" /\ next' = NotNoted /\ loaded' = 0 /\ rows' = {}
      /\ cache' = EmptyState /\ crashes' = crashes + 1 /\ crashes < MaxCrashes
  BY DEF Crash, source
<1>3. TypeOK'
  <2>1. crashes' \in 0..MaxCrashes
    BY <1>2, SyncAssumption DEF SyncInv, TypeOK, SyncAssumption
  <2>2. loaded' \in 0..Len(Tables)
    BY <1>2 DEF Tables
  <2> QED BY <1>2, <2>1, <2>2, EmptyStateType DEF SyncInv, TypeOK, NotNoted
<1>4. Phases'
  BY <1>2 DEF Phases
<1>5. Snapshot'
  BY <1>2, EmptyEntry, RowsAreKeys DEF Snapshot
<1>6. Rebuilt'
  BY <1>2 DEF Rebuilt
<1> QED
  BY <1>1, <1>3, <1>4, <1>5, <1>6 DEF SyncInv

-----------------------------------------------------------------------------
(* The theorems *)

LEMMA SyncInit == Init => SyncInv
<1> SUFFICES ASSUME Init PROVE SyncInv
  OBVIOUS
<1>1. \A p \in Partition : log[p] = <<>> /\ Len(log[p]) = 0
  BY DEF Init
<1>2. \A r \in Row : PartitionOf[r] \in Partition
  BY SyncAssumption DEF SyncAssumption
<1>3. TypeOK
  <2>1. writes \in 0..MaxWrites /\ crashes \in 0..MaxCrashes
    BY SyncAssumption DEF Init, SyncAssumption
  <2>2. loaded \in 0..Len(Tables)
    BY DEF Init, Tables
  <2>3. log \in [Partition -> Seq(Change)] /\ outbox \in Seq(Change)
    BY DEF Init
  <2> QED BY <2>1, <2>2, <2>3, EmptyStateType DEF Init, TypeOK, NotNoted
<1>4. Published
  BY <1>1 DEF Init, Published
<1>5. Newest
  BY <1>1, <1>2 DEF Init, Newest, Latest
<1>6. Phases
  BY DEF Init, Phases
<1>7. Snapshot
  BY EmptyEntry, RowsAreKeys DEF Init, Snapshot
<1>8. Rebuilt
  BY DEF Init, Rebuilt
<1> QED
  BY <1>3, <1>4, <1>5, <1>6, <1>7, <1>8 DEF SyncInv

LEMMA SyncStep == SyncInv /\ [Next]_vars => SyncInv'
<1> SUFFICES ASSUME SyncInv, [Next]_vars PROVE SyncInv'
  OBVIOUS
<1>1. CASE UNCHANGED vars
  <2>1. UNCHANGED <<source, process>>
    BY <1>1 DEF vars
  <2>2. Published' /\ Newest'
    BY <2>1, SourceKept
  <2>3. TypeOK' /\ Phases' /\ Snapshot'
    BY <2>1 DEF SyncInv, TypeOK, Phases, Snapshot, Queried, source, process
  <2>4. Rebuilt'
    BY <2>1 DEF SyncInv, Rebuilt, Settled, Unread, Queried, source, process
  <2> QED BY <2>2, <2>3, <2>4 DEF SyncInv
<1>2. CASE Next
  BY <1>2, WriteStep, PublishStep, StartStep, NoteOffsetStep, QueryStep, InsertRowStep,
     AssignStep, ConsumeStep, CrashStep DEF Next, Process, Load
<1> QED
  BY <1>1, <1>2

(***************************************************************************)
(* Types hold, for any number of rows, partitions, writes and crashes.     *)
(***************************************************************************)
THEOREM SyncTypes == Spec => []TypeOK
<1>1. SyncInv => TypeOK
  BY DEF SyncInv
<1> QED
  BY <1>1, SyncInit, SyncStep, PTL DEF Spec

(***************************************************************************)
(* Once every message about a row was consumed, the cache has that row as  *)
(* the database has it, whatever was written while the five views were     *)
(* read one after the other, and wherever the process crashed before.      *)
(***************************************************************************)
THEOREM SettledRowsAreExact == Spec => []SettledRowsExact
<1>1. SyncInv => SettledRowsExact
  <2> SUFFICES ASSUME SyncInv, phase = "running", NEW r \in Row, Settled(r)
               PROVE  Entry(cache, r) = Content(r, db[r])
    BY DEF SettledRowsExact
  <2>1. rows = {} /\ loaded = Len(Tables)
    BY DEF SyncInv, Phases
  <2>2. r[1] \in Entity
    BY RowsAreKeys
  <2>3. \E k \in 1..5 : Tables[k] = r[1]
    BY <2>2 DEF Entity, Tables
  <2>4. Queried(r[1])
    BY <2>1, <2>3 DEF Queried, Tables
  <2> QED BY <2>1, <2>4 DEF SyncInv, Rebuilt
<1> QED
  BY <1>1, SyncInit, SyncStep, PTL DEF Spec

-----------------------------------------------------------------------------
(***************************************************************************)
(* The whole cache, where no unit is given to a second organization: two   *)
(* states with the same entries, indexes and devices in order, are equal,  *)
(* so the cache is what the five views would load.                         *)
(***************************************************************************)

Sound(s) == s \in State /\ RuleInv(s) /\ OneHolder(s)

LEMMA EmptySound == Sound(EmptyState)
<1>1. OrgsGiven(EmptyState) /\ OrgKnown(EmptyState)
  BY DEF OrgsGiven, OrgKnown, EmptyState
<1>2. OneHolder(EmptyState)
  BY DEF OneHolder, DevicesFor, EmptyState
<1> QED
  BY <1>1, <1>2, EmptyStateType, EmptyIndexes DEF Sound, RuleInv

LEMMA AppliedSound ==
  ASSUME AtMostOneOrg, NEW s, Sound(s), NEW c \in Change
  PROVE  Sound(ApplyEvent(s, c))
  BY ChangeIsApplied, ApplyEventInv, ApplyEventHolders DEF Sound

\* A unit has the organization of its equipment, and none without.
LEMMA OrgFromEquipment ==
  ASSUME NEW s \in State, RuleInv(s), NEW x \in Unit
  PROVE  /\ s.unit_org[x] \in Org \cup {None}
         /\ \A o \in Org : s.unit_org[x] = o <=> EquipmentAt(s, o, x) # {}
<1>1. s.unit_org[x] \in Org \cup {None}
  BY DEF State
<1>2. ASSUME NEW o \in Org, s.unit_org[x] = o PROVE EquipmentAt(s, o, x) # {}
  BY <1>2, StateAssumption DEF RuleInv, IndexInv, OrgNeedsEquipment, StateAssumption
<1>3. ASSUME NEW o \in Org, NEW i \in EquipmentAt(s, o, x) PROVE s.unit_org[x] = o
  <2>1. i \in Imei /\ s.unit_devices[i] = <<x, o>> /\ s.unit_devices[i] # None
    BY StateAssumption DEF EquipmentAt, StateAssumption
  <2>2. s.unit_devices[i][1] = x /\ s.unit_devices[i][2] = o
    BY <2>1
  <2> QED BY <2>1, <2>2 DEF RuleInv, OrgKnown
<1> QED
  BY <1>1, <1>2, <1>3

\* The indexes are a function of the maps they are derived from.
LEMMA SameIndexes ==
  ASSUME NEW s \in State, NEW t \in State, RuleInv(s), RuleInv(t),
         s.user_units = t.user_units, s.unit_devices = t.unit_devices
  PROVE  /\ s.unit_users = t.unit_users
         /\ s.units_by_org = t.units_by_org
         /\ s.unit_org = t.unit_org
<1>1. \A o, x : EquipmentAt(s, o, x) = EquipmentAt(t, o, x)
  BY DEF EquipmentAt
<1>2. s.unit_users = t.unit_users
  <2>1. \A x \in Unit : s.unit_users[x] = t.unit_users[x]
    <3> SUFFICES ASSUME NEW x \in Unit PROVE s.unit_users[x] = t.unit_users[x]
      OBVIOUS
    <3>1. s.unit_users[x] \subseteq User /\ t.unit_users[x] \subseteq User
      BY DEF State
    <3>2. \A u \in User : u \in s.unit_users[x] <=> u \in t.unit_users[x]
      BY DEF RuleInv, IndexInv, GrantsMirrored
    <3> QED BY <3>1, <3>2
  <2>2. s.unit_users \in [Unit -> SUBSET User] /\ t.unit_users \in [Unit -> SUBSET User]
    BY DEF State
  <2> QED BY <2>1, <2>2
<1>3. s.units_by_org = t.units_by_org
  <2>1. /\ s.units_by_org \in [Org \X Unit -> Nat]
        /\ t.units_by_org \in [Org \X Unit -> Nat]
    BY DEF State
  <2>2. \A o \in Org, x \in Unit : s.units_by_org[<<o, x>>] = t.units_by_org[<<o, x>>]
    BY <1>1 DEF RuleInv, IndexInv, CountsExact
  <2>3. \A k \in Org \X Unit : s.units_by_org[k] = t.units_by_org[k]
    BY <2>2
  <2> QED BY <2>1, <2>3
<1>4. s.unit_org = t.unit_org
  <2>1. \A x \in Unit : s.unit_org[x] = t.unit_org[x]
    <3> SUFFICES ASSUME NEW x \in Unit PROVE s.unit_org[x] = t.unit_org[x]
      OBVIOUS
    <3> QED BY <1>1, OrgFromEquipment
  <2>2. /\ s.unit_org \in [Unit -> Org \cup {None}]
        /\ t.unit_org \in [Unit -> Org \cup {None}]
    BY DEF State
  <2> QED BY <2>1, <2>2
<1> QED
  BY <1>2, <1>3, <1>4

\* The devices of a person are those filed anywhere that name the person.
LEMMA SameDevices ==
  ASSUME NEW s \in State, NEW t \in State, OneHolder(s), OneHolder(t),
         \A id \in DeviceId : Entry(s, <<"user_device", id>>) = Entry(t, <<"user_device", id>>)
  PROVE  s.user_devices = t.user_devices
<1> DEFINE All(r) == UNION {r.user_devices[u] : u \in User}
<1>1. ASSUME NEW r \in State, OneHolder(r), NEW u \in User
      PROVE  r.user_devices[u] = {d \in All(r) : d.user_id = u}
  <2>1. \A v \in User : \A d \in r.user_devices[v] : d.user_id = v
    BY <1>1 DEF OneHolder, DevicesFor
  <2> QED BY <2>1
<1>2. ASSUME NEW r \in State PROVE \A d \in All(r) : d.id \in DeviceId
  BY DEF State, UserDevice
<1>3. \A r, id : Entry(r, <<"user_device", id>>) = {d \in All(r) : d.id = id}
  BY DEF Entry
<1> HIDE DEF All
<1>4. All(s) = All(t)
  <2>1. ASSUME NEW id \in DeviceId
        PROVE  {d \in All(s) : d.id = id} = {d \in All(t) : d.id = id}
    <3>1. Entry(s, <<"user_device", id>>) = {d \in All(s) : d.id = id}
      BY <1>3
    <3>2. Entry(t, <<"user_device", id>>) = {d \in All(t) : d.id = id}
      BY <1>3
    <3> QED BY <3>1, <3>2
  <2>2. \A d \in All(s) : d.id \in DeviceId
    BY <1>2
  <2>3. \A d \in All(t) : d.id \in DeviceId
    BY <1>2
  <2>4. \A d : d \in All(s) => d \in All(t)
    BY <2>1, <2>2
  <2>5. \A d : d \in All(t) => d \in All(s)
    BY <2>1, <2>3
  <2> QED BY <2>4, <2>5
<1>5. \A u \in User : s.user_devices[u] = t.user_devices[u]
  <2>1. \A u \in User : s.user_devices[u] = {d \in All(s) : d.user_id = u}
    BY <1>1
  <2>2. \A u \in User : t.user_devices[u] = {d \in All(t) : d.user_id = u}
    BY <1>1
  <2> QED BY <1>4, <2>1, <2>2
<1>6. /\ s.user_devices \in [User -> SUBSET UserDevice]
      /\ t.user_devices \in [User -> SUBSET UserDevice]
  BY DEF State
<1> QED
  BY <1>5, <1>6

LEMMA SameState ==
  ASSUME NEW s, NEW t, Sound(s), Sound(t), \A r \in Keys : Entry(s, r) = Entry(t, r)
  PROVE  s = t
<1>1. s \in State /\ t \in State
  BY DEF Sound
<1>2. s.user_active = t.user_active
  <2>1. \A u \in User : s.user_active[u] = t.user_active[u]
    <3> SUFFICES ASSUME NEW u \in User PROVE s.user_active[u] = t.user_active[u]
      OBVIOUS
    <3>1. <<"user", u>> \in Keys
      BY DEF Keys, Key, Entity
    <3> QED BY <3>1 DEF Entry
  <2> QED BY <1>1, <2>1 DEF State
<1>3. s.memberships = t.memberships
  <2>1. \A o \in Org, u \in User : s.memberships[<<o, u>>] = t.memberships[<<o, u>>]
    <3> SUFFICES ASSUME NEW o \in Org, NEW u \in User
                 PROVE  s.memberships[<<o, u>>] = t.memberships[<<o, u>>]
      OBVIOUS
    <3>1. <<"organization_user", o, u>> \in Keys
      BY DEF Keys, Key, Entity
    <3> QED BY <3>1 DEF Entry
  <2>2. \A m \in Org \X User : s.memberships[m] = t.memberships[m]
    BY <2>1
  <2> QED BY <1>1, <2>2 DEF State
<1>4. s.user_units = t.user_units
  <2>1. \A u \in User, x \in Unit : s.user_units[<<u, x>>] = t.user_units[<<u, x>>]
    <3> SUFFICES ASSUME NEW u \in User, NEW x \in Unit
                 PROVE  s.user_units[<<u, x>>] = t.user_units[<<u, x>>]
      OBVIOUS
    <3>1. <<"user_unit", u, x>> \in Keys
      BY DEF Keys, Key, Entity
    <3> QED BY <3>1 DEF Entry
  <2>2. \A g \in User \X Unit : s.user_units[g] = t.user_units[g]
    BY <2>1
  <2> QED BY <1>1, <2>2 DEF State
<1>5. s.unit_devices = t.unit_devices
  <2>1. \A i \in Imei : s.unit_devices[i] = t.unit_devices[i]
    <3> SUFFICES ASSUME NEW i \in Imei PROVE s.unit_devices[i] = t.unit_devices[i]
      OBVIOUS
    <3>1. <<"unit_device", i>> \in Keys
      BY DEF Keys, Key, Entity
    <3> QED BY <3>1 DEF Entry
  <2> QED BY <1>1, <2>1 DEF State
<1>6. s.user_devices = t.user_devices
  <2>1. \A id \in DeviceId : <<"user_device", id>> \in Keys
    BY DEF Keys, Key, Entity
  <2> QED BY <1>1, <2>1, SameDevices DEF Sound
<1>7. /\ s.unit_users = t.unit_users
      /\ s.units_by_org = t.units_by_org
      /\ s.unit_org = t.unit_org
  BY <1>1, <1>4, <1>5, SameIndexes DEF Sound
<1> QED
  BY <1>1, <1>2, <1>3, <1>4, <1>5, <1>6, <1>7 DEF State

-----------------------------------------------------------------------------
(* What one query loads *)

LEMMA VisibleIsLatest ==
  ASSUME TypeOK, Published, NEW e, NEW c \in Visible(e)
  PROVE  /\ c \in Change /\ c.entity = e /\ c.event_type = "UPSERT"
         /\ RowOf(c) \in Row /\ db[RowOf(c)] = c /\ RowOf(c)[1] = e
<1>1. PICK r \in Row : c = db[r] /\ db[r] # None
  BY DEF Visible
<1>2. c \in Change /\ RowOf(c) = r
  BY <1>1 DEF TypeOK, Published
<1> QED
  BY <1>1, <1>2, RowOfKey DEF Visible

\* The rows of a table go in one by one, in any order.
LEMMA InsertRowsUnfolds ==
  ASSUME NEW s, NEW e
  PROVE  InsertRows(s, e) =
           (CHOOSE g : g = [T \in SUBSET Visible(e) |->
                              IF T = {} THEN s
                              ELSE Upsert(g[T \ {Pick(T)}], e, Pick(T).data)])[Visible(e)]
BY Zenon DEF InsertRows, FoldSet, MapThenFoldSet, Pick

Inserts(g, s, e) ==
  \A T \in SUBSET Visible(e) :
    g[T] = IF T = {} THEN s ELSE Upsert(g[T \ {Pick(T)}], e, Pick(T).data)

LEMMA InsertRowsRecursion ==
  ASSUME TypeOK, Published, NEW e, IsFiniteSet(Visible(e)), NEW s \in State
  PROVE  \E g : InsertRows(s, e) = g[Visible(e)] /\ Inserts(g, s, e)
<1> DEFINE S == Visible(e)
<1> DEFINE Body(g) == [T \in SUBSET S |->
                         IF T = {} THEN s ELSE Upsert(g[T \ {Pick(T)}], e, Pick(T).data)]
<1> DEFINE pick == [T \in SUBSET S |-> Pick(T)]
<1> DEFINE step == [q \in S \X State |-> Upsert(q[2], e, q[1].data)]
<1>1. \A T \in SUBSET S : T # {} => Pick(T) \in T /\ pick[T] = Pick(T)
  BY DEF Pick
<1>2. ASSUME NEW c \in S, NEW v \in State
      PROVE  step[<<c, v>>] = Upsert(v, e, c.data) /\ step[<<c, v>>] \in State
  <2>1. Upsert(v, e, c.data) = ApplyEvent(v, c)
    BY VisibleIsLatest, InsertIsUpsert
  <2>2. ApplyEvent(v, c) \in State
    BY VisibleIsLatest, ChangeIsApplied, ApplyEventType
  <2> QED BY <2>1, <2>2
<1> HIDE DEF S
<1>3. \E g \in [SUBSET S -> State] : Recurses(g, S, s, pick, step)
  <2>1. \A T \in SUBSET S : T # {} => pick[T] \in T
    BY <1>1
  <2>2. \A c \in S, v \in State : step[<<c, v>>] \in State
    BY <1>2
  <2>3. IsFiniteSet(S)
    BY DEF S
  <2> HIDE DEF pick, step
  <2> QED BY <2>1, <2>2, <2>3, SubsetRecursion
<1>4. PICK g \in [SUBSET S -> State] : Recurses(g, S, s, pick, step)
  BY <1>3
<1> HIDE DEF pick, step
<1>5. g = Body(g)
  <2>1. \A T \in SUBSET S : T # {} =>
          step[<<pick[T], g[T \ {pick[T]}]>>] = Upsert(g[T \ {Pick(T)}], e, Pick(T).data)
    BY <1>1, <1>2
  <2> QED BY <1>4, <2>1 DEF Recurses
<1> DEFINE h == CHOOSE k : k = Body(k)
<1>6. h = Body(h)
  <2> HIDE DEF Body
  <2> QED BY <1>5
<1>7. InsertRows(s, e) = h[S]
  BY Zenon, InsertRowsUnfolds DEF S
<1> HIDE DEF h
<1>8. Inserts(h, s, e)
  BY <1>6 DEF Inserts, S
<1> QED BY <1>7, <1>8 DEF S

LEMMA InsertedRows ==
  ASSUME AtMostOneOrg, TypeOK, Published, NEW e, IsFiniteSet(Visible(e)),
         NEW s, Sound(s)
  PROVE  /\ Sound(InsertRows(s, e))
         /\ \A r \in Keys : Entry(InsertRows(s, e), r) =
              IF \E c \in Visible(e) : RowOf(c) = r THEN Content(r, db[r]) ELSE Entry(s, r)
<1> DEFINE S == Visible(e)
<1> DEFINE Loaded(T, v) ==
      /\ Sound(v)
      /\ \A r \in Keys : Entry(v, r) =
           IF \E c \in T : RowOf(c) = r THEN Content(r, db[r]) ELSE Entry(s, r)
<1>1. s \in State
  BY DEF Sound
<1>2. PICK h : InsertRows(s, e) = h[S] /\ Inserts(h, s, e)
  BY <1>1, InsertRowsRecursion
<1> DEFINE P == {T \in SUBSET S : Loaded(T, h[T])}
<1>3. {} \in P
  <2>1. {} \in SUBSET S
    OBVIOUS
  <2>2. h[{}] = s
    BY <1>2, <2>1, Zenon DEF Inserts
  <2> QED BY <2>1, <2>2
<1>4. ASSUME NEW T \in SUBSET S, T # {}, \A x \in T : T \ {x} \in P
      PROVE  T \in P
  <2> DEFINE c == Pick(T)
  <2> DEFINE v == h[T \ {c}]
  <2>1. c \in T /\ c \in S
    BY <1>4 DEF Pick
  <2>2. /\ c \in Change /\ c.entity = e /\ c.event_type = "UPSERT"
        /\ db[RowOf(c)] = c
    BY <2>1, VisibleIsLatest
  <2>3. Loaded(T \ {c}, v)
    BY <1>4, <2>1
  <2>4. h[T] = Upsert(v, e, c.data)
    BY <1>2, <1>4 DEF Inserts
  <2>5. h[T] = ApplyEvent(v, c)
    BY <2>2, <2>4, InsertIsUpsert
  <2> HIDE DEF v, c
  <2>6. Sound(h[T])
    BY <2>2, <2>3, <2>5, AppliedSound
  <2>7. ASSUME NEW r \in Keys
        PROVE  Entry(h[T], r) =
                 IF \E d \in T : RowOf(d) = r THEN Content(r, db[r]) ELSE Entry(s, r)
    <3>1. Entry(h[T], r) = IF r = RowOf(c) THEN Content(r, c) ELSE Entry(v, r)
      BY <2>2, <2>3, <2>5, EntryAfter DEF Sound
    <3>2. CASE r = RowOf(c)
      BY <2>1, <2>2, <3>1, <3>2
    <3>3. CASE r # RowOf(c)
      <4>1. (\E d \in T \ {c} : RowOf(d) = r) <=> (\E d \in T : RowOf(d) = r)
        BY <3>3
      <4> QED BY <2>3, <3>1, <3>3, <4>1
    <3> QED BY <3>2, <3>3
  <2> QED BY <2>6, <2>7
<1>5. S \in P
  <2> HIDE DEF P
  <2>1. SUBSET S \subseteq P
    BY <1>3, <1>4, SubsetInduction
  <2> QED BY <2>1
<1> QED
  BY <1>2, <1>5

-----------------------------------------------------------------------------
(* What the five queries load *)

WrittenFinite == IsFiniteSet({r \in Row : db[r] # None})

LEMMA VisibleFinite ==
  ASSUME WrittenFinite, NEW e
  PROVE  IsFiniteSet(Visible(e))
<1> DEFINE R == {r \in Row : db[r] # None}
<1> DEFINE f == [r \in R |-> db[r]]
<1>1. IsFiniteSet(R) /\ f \in Surjection(R, {f[r] : r \in R})
  BY DEF WrittenFinite, Surjection
<1>2. IsFiniteSet({f[r] : r \in R})
  BY <1>1, FS_Surjection
<1>3. Visible(e) \subseteq {f[r] : r \in R}
  BY DEF Visible
<1> QED
  BY <1>2, <1>3, FS_Subset

LEMMA ViewUnfolds ==
  View = (CHOOSE g : g = [K \in SUBSET (DOMAIN Tables) |->
                            IF K = {} THEN EmptyState
                            ELSE InsertRows(g[K \ {Max(K)}], Tables[Max(K)])])[DOMAIN Tables]
BY Zenon DEF View, FoldLeft, MapThenFoldSet

LEMMA LastTable ==
  \A n \in 1..5 : Max(1..n) = n
<1> SUFFICES ASSUME NEW n \in 1..5 PROVE Max(1..n) = n
  OBVIOUS
<1>1. n \in 1..n /\ \A m \in 1..n : n >= m
  OBVIOUS
<1>2. \A x \in 1..n : (\A m \in 1..n : x >= m) => x = n
  BY <1>1
<1> QED BY <1>1, <1>2 DEF Max

LEMMA ViewLoads ==
  ASSUME AtMostOneOrg, TypeOK, Published, WrittenFinite
  PROVE  View = InsertRows(InsertRows(InsertRows(InsertRows(InsertRows(EmptyState,
                  Tables[1]), Tables[2]), Tables[3]), Tables[4]), Tables[5])
<1> DEFINE D == 1..5
<1> DEFINE Body(g) == [K \in SUBSET D |->
                         IF K = {} THEN EmptyState
                         ELSE InsertRows(g[K \ {Max(K)}], Tables[Max(K)])]
<1> DEFINE pick == [K \in SUBSET D |-> Max(K)]
<1> DEFINE V == {v \in State : Sound(v)}
<1> DEFINE step == [q \in D \X V |-> InsertRows(q[2], Tables[q[1]])]
<1>1. ASSUME NEW K \in SUBSET D, K # {} PROVE Max(K) \in K
  <2>1. \A x \in K : x \in {1, 2, 3, 4, 5}
    OBVIOUS
  <2>2. \E x \in K : \A y \in K : x >= y
    <3>1. CASE 5 \in K
      BY <2>1, <3>1
    <3>2. CASE 5 \notin K /\ 4 \in K
      BY <2>1, <3>2
    <3>3. CASE 5 \notin K /\ 4 \notin K /\ 3 \in K
      BY <2>1, <3>3
    <3>4. CASE 5 \notin K /\ 4 \notin K /\ 3 \notin K /\ 2 \in K
      BY <2>1, <3>4
    <3>5. CASE 5 \notin K /\ 4 \notin K /\ 3 \notin K /\ 2 \notin K
      <4>1. K = {1}
        BY <1>1, <2>1, <3>5
      <4> QED BY <4>1
    <3> QED BY <3>1, <3>2, <3>3, <3>4, <3>5
  <2> QED BY <2>2 DEF Max
<1>2. ASSUME NEW k \in D, NEW v \in V
      PROVE  step[<<k, v>>] = InsertRows(v, Tables[k]) /\ step[<<k, v>>] \in V
  <2>1. Sound(InsertRows(v, Tables[k]))
    BY VisibleFinite, InsertedRows
  <2> QED BY <2>1 DEF Sound
<1>3. IsFiniteSet(D) /\ EmptyState \in V
  <2>1. 1 \in Int /\ 5 \in Int
    OBVIOUS
  <2>2. IsFiniteSet(D)
    BY <2>1, FS_Interval, Zenon
  <2>3. EmptyState \in V
    BY EmptySound DEF Sound
  <2> QED BY <2>2, <2>3
<1>4. \E g \in [SUBSET D -> V] : Recurses(g, D, EmptyState, pick, step)
  <2>1. \A K \in SUBSET D : K # {} => pick[K] \in K
    BY <1>1
  <2>2. \A k \in D, v \in V : step[<<k, v>>] \in V
    BY <1>2
  <2> HIDE DEF pick, step, D, V
  <2> QED BY <1>3, <2>1, <2>2, SubsetRecursion
<1>5. PICK g \in [SUBSET D -> V] : Recurses(g, D, EmptyState, pick, step)
  BY <1>4
<1>6. g = Body(g)
  <2>1. \A K \in SUBSET D : K # {} =>
          step[<<pick[K], g[K \ {pick[K]}]>>] = InsertRows(g[K \ {Max(K)}], Tables[Max(K)])
    <3> SUFFICES ASSUME NEW K \in SUBSET D, K # {}
                 PROVE  step[<<pick[K], g[K \ {pick[K]}]>>]
                          = InsertRows(g[K \ {Max(K)}], Tables[Max(K)])
      OBVIOUS
    <3>1. pick[K] = Max(K) /\ Max(K) \in D
      BY <1>1
    <3>2. g[K \ {Max(K)}] \in V
      OBVIOUS
    <3> HIDE DEF pick, step, V
    <3> QED BY <1>2, <3>1, <3>2
  <2> HIDE DEF pick, step, V
  <2> QED BY <1>5, <2>1 DEF Recurses
<1> HIDE DEF V, pick, step
<1> DEFINE h == CHOOSE k : k = Body(k)
<1>7. h = Body(h)
  <2> HIDE DEF Body
  <2> QED BY <1>6
<1>8. View = h[D]
  <2>1. DOMAIN Tables = D
    BY DEF Tables
  <2> QED BY Zenon, ViewUnfolds, <2>1
<1> HIDE DEF h
<1>9. \A K \in SUBSET D :
        h[K] = IF K = {} THEN EmptyState ELSE InsertRows(h[K \ {Max(K)}], Tables[Max(K)])
  BY <1>7
<1>10. \A n \in 1..5 : h[1..n] = InsertRows(h[1..(n - 1)], Tables[n])
  <2> SUFFICES ASSUME NEW n \in 1..5 PROVE h[1..n] = InsertRows(h[1..(n - 1)], Tables[n])
    OBVIOUS
  <2>1. 1..n \in SUBSET D /\ 1..n # {} /\ (1..n) \ {n} = 1..(n - 1)
    OBVIOUS
  <2> QED BY <1>9, <2>1, LastTable
<1>11. h[1..0] = EmptyState
  <2>1. 1..0 = {} /\ {} \in SUBSET D
    OBVIOUS
  <2> QED BY <1>9, <2>1
<1>12. /\ h[1..1] = InsertRows(h[1..0], Tables[1])
       /\ h[1..2] = InsertRows(h[1..1], Tables[2])
       /\ h[1..3] = InsertRows(h[1..2], Tables[3])
       /\ h[1..4] = InsertRows(h[1..3], Tables[4])
       /\ h[1..5] = InsertRows(h[1..4], Tables[5])
  <2>1. 1 - 1 = 0 /\ 2 - 1 = 1 /\ 3 - 1 = 2 /\ 4 - 1 = 3 /\ 5 - 1 = 4
    OBVIOUS
  <2>2. 1 \in 1..5 /\ 2 \in 1..5 /\ 3 \in 1..5 /\ 4 \in 1..5 /\ 5 \in 1..5
    OBVIOUS
  <2> QED BY <1>10, <2>1, <2>2
<1> QED
  BY <1>8, <1>11, <1>12

\* A row that no view shows is absent.
LEMMA HiddenIsAbsent ==
  ASSUME TypeOK, Published, NEW r \in Row, ~(\E c \in Visible(r[1]) : RowOf(c) = r)
  PROVE  Content(r, db[r]) = Absent(r)
<1>1. CASE db[r] = None \/ db[r].event_type = "DELETE"
  BY <1>1 DEF Content
<1>2. CASE db[r] # None /\ db[r].event_type # "DELETE"
  <2> DEFINE c == db[r]
  <2>1. c \in Change /\ RowOf(c) = r /\ c \in {db[q] : q \in Row} \ {None}
    BY <1>2 DEF TypeOK, Published
  <2>2. c.entity = r[1] /\ c.event_type = "UPSERT"
    BY <1>2, <2>1, RowOfKey, ChangeIsApplied DEF EventType
  <2>3. r[1] = "user_device" /\ ~Default(c.data.is_active, FALSE)
    BY <2>1, <2>2 DEF Visible
  <2>4. c.data.is_active \in BOOLEAN \cup {None}
    BY <2>1, <2>2, <2>3, ChangeIsApplied DEF DataOf, UserDeviceData
  <2>5. c.data.is_active \in {None, FALSE}
    BY <2>3, <2>4 DEF Default
  <2>6. Fields(c) = {}
    BY <2>2, <2>3, <2>5 DEF Fields
  <2> HIDE DEF c
  <2>7. Absent(r) = {}
    BY <2>3 DEF Absent
  <2> QED BY <1>2, <2>6, <2>7 DEF Content, c
<1> QED
  BY <1>1, <1>2

LEMMA ViewEntries ==
  ASSUME AtMostOneOrg, TypeOK, Published, WrittenFinite
  PROVE  /\ Sound(View)
         /\ \A r \in Keys : Entry(View, r) = IF r \in Row THEN Content(r, db[r]) ELSE Absent(r)
<1> DEFINE Shown(e, r) == \E c \in Visible(e) : RowOf(c) = r
<1> DEFINE v1 == InsertRows(EmptyState, Tables[1])
<1> DEFINE v2 == InsertRows(v1, Tables[2])
<1> DEFINE v3 == InsertRows(v2, Tables[3])
<1> DEFINE v4 == InsertRows(v3, Tables[4])
<1> DEFINE v5 == InsertRows(v4, Tables[5])
<1>1. ASSUME NEW s, Sound(s), NEW e
      PROVE  /\ Sound(InsertRows(s, e))
             /\ \A r \in Keys : Entry(InsertRows(s, e), r) =
                  IF Shown(e, r) THEN Content(r, db[r]) ELSE Entry(s, r)
  BY <1>1, VisibleFinite, InsertedRows
<1>2. ASSUME NEW e, NEW r, Shown(e, r) PROVE r \in Row /\ r[1] = e
  BY <1>2, VisibleIsLatest
<1>3. View = v5
  BY ViewLoads
<1> HIDE DEF Shown
<1>4. Sound(v1) /\ Sound(v2) /\ Sound(v3) /\ Sound(v4) /\ Sound(v5)
  <2>1. Sound(v1)
    BY <1>1, EmptySound
  <2> HIDE DEF v1
  <2>2. Sound(v2)
    BY <1>1, <2>1
  <2> HIDE DEF v2
  <2>3. Sound(v3)
    BY <1>1, <2>2
  <2> HIDE DEF v3
  <2>4. Sound(v4)
    BY <1>1, <2>3
  <2> HIDE DEF v4
  <2>5. Sound(v5)
    BY <1>1, <2>4
  <2> QED BY <2>1, <2>2, <2>3, <2>4, <2>5
<1>5. ASSUME NEW r \in Keys
      PROVE  Entry(View, r) = IF r \in Row THEN Content(r, db[r]) ELSE Absent(r)
  <2>1. Entry(EmptyState, r) = Absent(r)
    BY EmptyEntry
  <2>2. Entry(v1, r) = IF Shown(Tables[1], r) THEN Content(r, db[r]) ELSE Absent(r)
    BY <1>1, <2>1, EmptySound
  <2> HIDE DEF v1
  <2>3. Entry(v2, r) = IF Shown(Tables[2], r) THEN Content(r, db[r]) ELSE Entry(v1, r)
    BY <1>1, <1>4
  <2> HIDE DEF v2
  <2>4. Entry(v3, r) = IF Shown(Tables[3], r) THEN Content(r, db[r]) ELSE Entry(v2, r)
    BY <1>1, <1>4
  <2> HIDE DEF v3
  <2>5. Entry(v4, r) = IF Shown(Tables[4], r) THEN Content(r, db[r]) ELSE Entry(v3, r)
    BY <1>1, <1>4
  <2> HIDE DEF v4
  <2>6. Entry(v5, r) = IF Shown(Tables[5], r) THEN Content(r, db[r]) ELSE Entry(v4, r)
    BY <1>1, <1>4
  <2> HIDE DEF v5
  <2>7. CASE r \in Row /\ Shown(r[1], r)
    <3>1. \E k \in 1..5 : Tables[k] = r[1]
      BY KeyTable DEF Entity, Tables
    <3>2. \/ Shown(Tables[1], r) \/ Shown(Tables[2], r) \/ Shown(Tables[3], r)
          \/ Shown(Tables[4], r) \/ Shown(Tables[5], r)
      <4>1. PICK k \in 1..5 : Tables[k] = r[1]
        BY <3>1
      <4>2. k = 1 \/ k = 2 \/ k = 3 \/ k = 4 \/ k = 5
        OBVIOUS
      <4> QED BY <2>7, <4>1, <4>2
    <3> QED BY <1>3, <2>2, <2>3, <2>4, <2>5, <2>6, <2>7, <3>2
  <2>8. CASE ~(r \in Row /\ Shown(r[1], r))
    <3>1. \A e : ~Shown(e, r)
      BY <1>2, <2>8
    <3>2. Entry(View, r) = Absent(r)
      BY <1>3, <2>2, <2>3, <2>4, <2>5, <2>6, <3>1
    <3>3. r \in Row => Content(r, db[r]) = Absent(r)
      BY <2>8, HiddenIsAbsent DEF Shown
    <3> QED BY <3>2, <3>3
  <2> QED BY <2>7, <2>8
<1> QED
  BY <1>3, <1>4, <1>5

-----------------------------------------------------------------------------
(* The cache has entries for rows only, and is in order *)

Only == \A r \in Keys \ Row : Entry(cache, r) = Absent(r)

CacheInv == Sound(cache) /\ Only /\ WrittenFinite

LEMMA AppliedCache ==
  ASSUME AtMostOneOrg, CacheInv, NEW c \in Change, cache' = ApplyEvent(cache, c), db' = db
  PROVE  CacheInv'
<1> DEFINE t == ApplyEvent(cache, c)
<1>1. Sound(t)
  BY AppliedSound DEF CacheInv
<1>2. ASSUME NEW r \in Keys \ Row PROVE Entry(t, r) = Absent(r)
  <2>1. r # RowOf(c)
    BY RowOfKey
  <2> QED BY <2>1, EntryAfter DEF CacheInv, Only, Sound
<1> HIDE DEF t
<1>3. Sound(cache)' /\ Only'
  BY <1>1, <1>2 DEF Only, Sound, RuleInv, t
<1> QED
  BY <1>3 DEF CacheInv, WrittenFinite

LEMMA CacheStep ==
  ASSUME AtMostOneOrg, SyncInv, CacheInv, [Next]_vars
  PROVE  CacheInv'
<1>1. ASSUME UNCHANGED <<cache, db>> PROVE CacheInv'
  BY <1>1 DEF CacheInv, Sound, Only, WrittenFinite
<1>2. ASSUME NEW c \in Change, Write(c) PROVE CacheInv'
  <2>1. cache' = cache /\ db' = [db EXCEPT ![RowOf(c)] = c]
    BY <1>2 DEF Write, process
  <2>2. {r \in Row : db'[r] # None} \subseteq {r \in Row : db[r] # None} \cup {RowOf(c)}
    BY <2>1 DEF SyncInv, TypeOK
  <2>3. IsFiniteSet({r \in Row : db[r] # None} \cup {RowOf(c)})
    BY FS_AddElement DEF CacheInv, WrittenFinite
  <2>4. WrittenFinite'
    BY <2>2, <2>3, FS_Subset DEF WrittenFinite
  <2> QED BY <2>1, <2>4 DEF CacheInv, Sound, Only
<1>3. ASSUME NEW c \in rows, InsertRow(c) PROVE CacheInv'
  <2>1. c \in Change /\ c.event_type = "UPSERT"
    BY DEF SyncInv, TypeOK, Snapshot
  <2>2. cache' = ApplyEvent(cache, c) /\ db' = db
    BY <1>3, <2>1, InsertIsUpsert DEF InsertRow, source
  <2> QED BY <2>1, <2>2, AppliedCache
<1>4. ASSUME NEW p \in Partition, Consume(p) PROVE CacheInv'
  <2>1. next[p] \in 0..Len(log[p]) /\ next[p] < Len(log[p]) /\ log[p] \in Seq(Change)
    BY <1>4 DEF SyncInv, Phases, TypeOK, Consume
  <2>2. log[p][next[p] + 1] \in Change
    BY <2>1
  <2>3. cache' = ApplyEvent(cache, log[p][next[p] + 1]) /\ db' = db
    BY <1>4 DEF Consume, source
  <2> QED BY <2>2, <2>3, AppliedCache
<1>5. ASSUME Crash PROVE CacheInv'
  <2>1. cache' = EmptyState /\ db' = db
    BY <1>5 DEF Crash, source
  <2> QED BY <2>1, EmptySound, EmptyEntry DEF CacheInv, Sound, Only, WrittenFinite
<1>6. ASSUME \/ Publish \/ Start \/ Query \/ Assign
             \/ \E p \in Partition : NoteOffset(p)
             \/ UNCHANGED vars
      PROVE  UNCHANGED <<cache, db>>
  BY <1>6 DEF Publish, Start, Query, Assign, NoteOffset, vars, source, process
<1> QED
  BY <1>1, <1>2, <1>3, <1>4, <1>5, <1>6 DEF Next, Process, Load

(***************************************************************************)
(* A process that has read everything holds what a process started now     *)
(* would load, indexes included: however its own five queries fell among   *)
(* the writes, in whatever order the rows went in, and whatever it read    *)
(* again.  Where a unit is given to two organizations it need not:         *)
(* `unit_org` then depends on the order of the messages.                   *)
(***************************************************************************)
THEOREM CaughtUpCacheIsExact == AtMostOneOrg => (Spec => []CaughtUpIsExact)
<1> SUFFICES ASSUME AtMostOneOrg PROVE Spec => []CaughtUpIsExact
  OBVIOUS
<1>1. Init => CacheInv
  <2> SUFFICES ASSUME Init PROVE CacheInv
    OBVIOUS
  <2>1. {r \in Row : db[r] # None} = {} /\ cache = EmptyState
    BY DEF Init
  <2> QED BY <2>1, FS_EmptySet, EmptySound, EmptyEntry DEF CacheInv, Only, WrittenFinite
<1>2. SyncInv /\ CacheInv /\ [Next]_vars => CacheInv'
  BY CacheStep
<1>3. SyncInv /\ CacheInv /\ SettledRowsExact => CaughtUpIsExact
  <2> SUFFICES ASSUME SyncInv, CacheInv, SettledRowsExact, CaughtUp
               PROVE  cache = View
    BY DEF CaughtUpIsExact
  <2>1. ASSUME NEW r \in Row PROVE Entry(cache, r) = Content(r, db[r])
    <3>1. phase = "running" /\ outbox = <<>>
      BY DEF CaughtUp
    <3>2. PartitionOf[r] \in Partition
      BY SyncAssumption DEF SyncAssumption
    <3>3. /\ next[PartitionOf[r]] = Len(log[PartitionOf[r]])
          /\ Len(log[PartitionOf[r]]) \in Nat
      BY <3>2 DEF CaughtUp, SyncInv, TypeOK
    <3>4. ~About(r, outbox) /\ ~Pending(r, log[PartitionOf[r]], next[PartitionOf[r]])
      BY <3>1, <3>3 DEF About, Pending
    <3>5. Settled(r)
      BY <3>1, <3>4, SettledPending DEF SyncInv
    <3> QED BY <3>1, <3>5 DEF SettledRowsExact
  <2>2. /\ Sound(View)
        /\ \A r \in Keys : Entry(View, r) = IF r \in Row THEN Content(r, db[r]) ELSE Absent(r)
    BY ViewEntries DEF SyncInv, CacheInv
  <2>3. \A r \in Keys : Entry(cache, r) = Entry(View, r)
    BY <2>1, <2>2 DEF CacheInv, Only
  <2> QED BY <2>2, <2>3, SameState DEF CacheInv
<1> QED
  BY <1>1, <1>2, <1>3, SyncInit, SyncStep, SettledRowsAreExact, PTL DEF Spec

-----------------------------------------------------------------------------
(* Row by row: what the cache knows of a row was once committed *)

LEMMA CommittedMessages ==
  ASSUME TypeOK, NEW c
  PROVE  c \in Committed <=> \/ \E k \in 1..Len(outbox) : outbox[k] = c
                            \/ \E p \in Partition : \E k \in 1..Len(log[p]) : log[p][k] = c
<1>1. DOMAIN outbox = 1..Len(outbox) /\ \A p \in Partition : DOMAIN log[p] = 1..Len(log[p])
  BY DEF TypeOK
<1> QED
  BY <1>1 DEF Committed, ToSet

LEMMA CommittedWrite ==
  ASSUME TypeOK, TypeOK', NEW w \in Change, Write(w)
  PROVE  Committed' = Committed \cup {w}
<1>1. /\ log' = log /\ Len(outbox') = Len(outbox) + 1 /\ Len(outbox) \in Nat
      /\ outbox'[Len(outbox) + 1] = w
      /\ \A k \in 1..Len(outbox) : outbox'[k] = outbox[k]
  BY DEF TypeOK, Write
<1>2. ASSUME NEW c
      PROVE  (\E k \in 1..Len(outbox') : outbox'[k] = c)
               <=> (\E k \in 1..Len(outbox) : outbox[k] = c) \/ c = w
  <2>1. \A k : k \in 1..Len(outbox') <=> k \in 1..Len(outbox) \/ k = Len(outbox) + 1
    BY <1>1
  <2> QED BY <1>1, <2>1
<1>3. DOMAIN outbox = 1..Len(outbox) /\ DOMAIN outbox' = 1..Len(outbox')
  BY DEF TypeOK
<1>4. ToSet(outbox)' = ToSet(outbox) \cup {w}
  BY <1>2, <1>3 DEF ToSet
<1> QED
  BY <1>1, <1>4 DEF Committed

LEMMA CommittedPublish ==
  ASSUME TypeOK, TypeOK', Publish
  PROVE  Committed' = Committed
<1> DEFINE h == Head(outbox)
           p == PartitionOf[RowOf(h)]
           Sent == UNION {ToSet(log[t]) : t \in Partition}
<1>1. outbox \in Seq(Change) /\ outbox # <<>> /\ outbox' = Tail(outbox)
  BY DEF TypeOK, Publish
<1>2. h \in Change /\ p \in Partition
  BY <1>1, RowOfKey, SyncAssumption DEF SyncAssumption
<1>3. ToSet(outbox) = {h} \cup ToSet(outbox)'
  <2>1. /\ Len(outbox) \in Nat \ {0} /\ h = outbox[1] /\ Len(outbox') = Len(outbox) - 1
        /\ \A k \in 1..(Len(outbox) - 1) : outbox'[k] = outbox[k + 1]
        /\ DOMAIN outbox = 1..Len(outbox) /\ DOMAIN outbox' = 1..Len(outbox')
    BY <1>1
  <2>2. ASSUME NEW k \in 1..Len(outbox) PROVE outbox[k] \in {h} \cup ToSet(outbox)'
    <3>1. CASE k = 1
      BY <2>1, <3>1
    <3>2. CASE k # 1
      <4>1. k - 1 \in 1..(Len(outbox) - 1) /\ (k - 1) + 1 = k
        BY <2>1, <3>2
      <4>2. outbox'[k - 1] = outbox[k] /\ k - 1 \in DOMAIN outbox'
        BY <2>1, <4>1
      <4> QED BY <4>2 DEF ToSet
    <3> QED BY <3>1, <3>2
  <2>3. ASSUME NEW k \in 1..Len(outbox') PROVE outbox'[k] \in ToSet(outbox)
    <3>1. k + 1 \in 1..Len(outbox) /\ outbox'[k] = outbox[k + 1]
      BY <2>1
    <3> QED BY <2>1, <3>1 DEF ToSet
  <2>4. h \in ToSet(outbox)
    BY <2>1 DEF ToSet
  <2> QED BY <2>1, <2>2, <2>3, <2>4 DEF ToSet
<1>4. log[p] \in Seq(Change) /\ log' = [log EXCEPT ![p] = Append(log[p], h)]
  BY <1>2 DEF TypeOK, Publish
<1>5. ToSet(log'[p]) = ToSet(log[p]) \cup {h}
  <2>1. log'[p] = Append(log[p], h)
    BY <1>2, <1>4 DEF TypeOK
  <2>2. /\ Len(log'[p]) = Len(log[p]) + 1 /\ Len(log[p]) \in Nat
        /\ log'[p][Len(log[p]) + 1] = h
        /\ \A k \in 1..Len(log[p]) : log'[p][k] = log[p][k]
        /\ DOMAIN log[p] = 1..Len(log[p]) /\ DOMAIN log'[p] = 1..Len(log'[p])
    BY <1>2, <1>4, <2>1
  <2>3. \A k : k \in DOMAIN log'[p] <=> k \in DOMAIN log[p] \/ k = Len(log[p]) + 1
    BY <2>2
  <2> QED BY <2>2, <2>3 DEF ToSet
<1>6. \A t \in Partition \ {p} : ToSet(log'[t]) = ToSet(log[t])
  BY <1>4 DEF TypeOK
<1>7. Sent' = Sent \cup {h}
  <2> HIDE DEF h, p
  <2>1. \A c : c \in Sent' <=> c \in Sent \/ c = h
    BY <1>2, <1>5, <1>6
  <2> QED BY <2>1
<1> QED
  BY <1>3, <1>7 DEF Committed

LEMMA CommittedKept ==
  ASSUME UNCHANGED source
  PROVE  Committed' = Committed
BY DEF Committed, source

Known ==
  /\ \A r \in Row : db[r] # None => db[r] \in Committed
  /\ rows \subseteq Committed
  /\ \A r \in Row : Entry(cache, r) \in {Absent(r)} \cup Contents(r, Committed)

\* A message of msgs about r gives one of the contents of r.
LEMMA ContentsOf ==
  ASSUME NEW msgs, NEW c \in msgs
  PROVE  Content(RowOf(c), c) \in Contents(RowOf(c), msgs)
BY DEF Contents

LEMMA ContentsGrow ==
  ASSUME NEW msgs, NEW c, NEW r
  PROVE  Contents(r, msgs \cup {c}) = IF r = RowOf(c) THEN Contents(r, msgs) \cup {Content(r, c)}
                                      ELSE Contents(r, msgs)
<1>1. \A x : x \in Contents(r, msgs \cup {c}) <=>
                x \in Contents(r, msgs) \/ (r = RowOf(c) /\ x = Content(r, c))
  BY DEF Contents
<1> QED
  BY <1>1

LEMMA AppliedKnown ==
  ASSUME SyncInv, Known, NEW c \in Change, c \in Committed, UNCHANGED source,
         cache' = ApplyEvent(cache, c), rows' \subseteq rows
  PROVE  Known'
<1>1. Committed' = Committed /\ db' = db
  BY CommittedKept DEF source
<1>2. ASSUME NEW r \in Row
      PROVE  Entry(cache', r) \in {Absent(r)} \cup Contents(r, Committed)
  <2>1. Entry(cache', r) = IF r = RowOf(c) THEN Content(r, c) ELSE Entry(cache, r)
    BY EntryAfter, RowsAreKeys DEF SyncInv, TypeOK
  <2> QED BY <2>1, ContentsOf DEF Known
<1> QED
  BY <1>1, <1>2 DEF Known

LEMMA KnownStep ==
  ASSUME SyncInv, SyncInv', Known, [Next]_vars
  PROVE  Known'
<1>1. ASSUME UNCHANGED <<source, cache>>, rows' \subseteq rows PROVE Known'
  <2>1. Committed' = Committed /\ db' = db
    BY <1>1, CommittedKept DEF source
  <2> QED BY <1>1, <2>1 DEF Known
<1>2. ASSUME NEW w \in Change, Write(w) PROVE Known'
  <2>1. Committed' = Committed \cup {w}
    BY <1>2, CommittedWrite DEF SyncInv
  <2>2. UNCHANGED <<cache, rows>> /\ \A r \in Row : db'[r] \in {w, db[r]}
    BY <1>2 DEF Write, process, SyncInv, TypeOK
  <2>3. \A r \in Row : Contents(r, Committed) \subseteq Contents(r, Committed')
    BY <2>1, ContentsGrow
  <2> QED BY <2>1, <2>2, <2>3 DEF Known
<1>3. ASSUME Publish PROVE Known'
  <2>1. Committed' = Committed
    BY <1>3, CommittedPublish DEF SyncInv
  <2>2. UNCHANGED <<db, cache, rows>>
    BY <1>3 DEF Publish, process
  <2> QED BY <2>1, <2>2 DEF Known
<1>4. ASSUME Query PROVE Known'
  <2>1. UNCHANGED <<source, cache>> /\ rows' = Visible(Tables[loaded + 1])
    BY <1>4 DEF Query
  <2>2. Committed' = Committed /\ db' = db
    BY <2>1, CommittedKept DEF source
  <2>3. rows' \subseteq Committed
    BY <2>1 DEF Visible, Known
  <2> QED BY <2>1, <2>2, <2>3 DEF Known
<1>5. ASSUME NEW c \in rows, InsertRow(c) PROVE Known'
  <2>1. c \in Change /\ c.event_type = "UPSERT" /\ c \in Committed
    BY DEF SyncInv, TypeOK, Snapshot, Known
  <2>2. UNCHANGED source /\ cache' = ApplyEvent(cache, c) /\ rows' \subseteq rows
    BY <1>5, <2>1, InsertIsUpsert DEF InsertRow
  <2> QED BY <2>1, <2>2, AppliedKnown
<1>6. ASSUME NEW p \in Partition, Consume(p) PROVE Known'
  <2> DEFINE c == log[p][next[p] + 1]
  <2>1. next[p] \in 0..Len(log[p]) /\ next[p] < Len(log[p]) /\ log[p] \in Seq(Change)
    BY <1>6 DEF SyncInv, Phases, TypeOK, Consume
  <2>2. next[p] + 1 \in 1..Len(log[p]) /\ c \in Change
    BY <2>1
  <2>3. c \in Committed
    BY <2>2, CommittedMessages DEF SyncInv
  <2>4. UNCHANGED source /\ cache' = ApplyEvent(cache, c) /\ rows' = rows
    BY <1>6 DEF Consume
  <2> QED BY <2>2, <2>3, <2>4, AppliedKnown
<1>7. ASSUME Crash PROVE Known'
  <2>1. UNCHANGED source /\ cache' = EmptyState /\ rows' = {}
    BY <1>7 DEF Crash
  <2>2. Committed' = Committed /\ db' = db
    BY <2>1, CommittedKept DEF source
  <2>3. \A r \in Row : Entry(cache', r) = Absent(r)
    BY <2>1, EmptyEntry, RowsAreKeys
  <2> QED BY <2>1, <2>2, <2>3 DEF Known
<1>8. ASSUME \/ Start \/ Assign \/ UNCHANGED vars
             \/ \E p \in Partition : NoteOffset(p)
      PROVE  UNCHANGED <<source, cache>> /\ rows' \subseteq rows
  BY <1>8 DEF Start, Assign, NoteOffset, vars, process
<1> QED
  BY <1>1, <1>2, <1>3, <1>4, <1>5, <1>6, <1>7, <1>8 DEF Next, Process, Load

-----------------------------------------------------------------------------
(* Every step is a step of the replica, or none *)

\* Before the process runs and after it ended, the replica holds nothing.
LEMMA NotServing ==
  ASSUME ~Serving
  PROVE  Held = [r \in Row |-> Absent(r)] /\ Stale = {}
BY DEF Held, Stale

LEMMA RowSettled ==
  ASSUME SyncInv, phase = "running", NEW r \in Row
  PROVE  /\ PartitionOf[r] \in Partition
         /\ Settled(r) <=> /\ ~About(r, outbox)
                          /\ ~Pending(r, log[PartitionOf[r]], next[PartitionOf[r]])
BY SettledPending DEF SyncInv

LEMMA SourceOfReplica ==
  ASSUME UNCHANGED source
  PROVE  UNCHANGED <<Truth, Past>>
BY CommittedKept DEF Truth, Past, source

LEMMA WriteIsUpdate ==
  ASSUME SyncInv, SyncInv', NEW w \in Change, Write(w)
  PROVE  Replica!Update(RowOf(w))
<1> DEFINE q == RowOf(w)
           v == Content(q, w)
<1>1. q \in Row /\ v \in Contents(q, Change)
  BY RowOfKey, ContentsOf
<1>2. /\ db' = [db EXCEPT ![q] = w] /\ db \in [Row -> Change \cup {None}]
      /\ outbox' = Append(outbox, w) /\ outbox \in Seq(Change)
      /\ UNCHANGED <<log, phase, next, cache>>
  BY DEF SyncInv, TypeOK, Write, process
<1>3. Truth' = [Truth EXCEPT ![q] = v]
  BY <1>1, <1>2 DEF Truth
<1>4. Past' = [Past EXCEPT ![q] = @ \cup {v}]
  <2>1. Committed' = Committed \cup {w}
    BY CommittedWrite DEF SyncInv
  <2>2. \A r \in Row : Contents(r, Committed') =
          IF r = q THEN Contents(r, Committed) \cup {v} ELSE Contents(r, Committed)
    <3> SUFFICES ASSUME NEW r \in Row
                 PROVE  Contents(r, Committed') =
                          IF r = q THEN Contents(r, Committed) \cup {v}
                          ELSE Contents(r, Committed)
      OBVIOUS
    <3>1. CASE r = q
      BY <2>1, <3>1, ContentsGrow
    <3>2. CASE r # q
      BY <2>1, <3>2, ContentsGrow
    <3> QED BY <3>1, <3>2
  <2> QED BY <1>1, <2>2 DEF Past
<1>5. \A r \in Row : Settled(r)' <=> r # q /\ Settled(r)
  <2>1. \A r \in Row : About(r, outbox') <=> r = q \/ About(r, outbox)
    BY WrittenNews DEF SyncInv
  <2>2. \A r \in Row : Unread(PartitionOf[r])' = Unread(PartitionOf[r])
    BY <1>2 DEF Unread
  <2> QED BY <2>1, <2>2 DEF Settled
<1>6. Serving' = Serving /\ Held' = Held
  BY <1>2 DEF Serving, Held
<1>7. Stale' = IF Serving THEN Stale \cup {q} ELSE {}
  BY <1>1, <1>5, <1>6 DEF Stale
<1> QED
  <2> HIDE DEF v
  <2>1. [r \in Row |-> Contents(r, Change)][q] = Contents(q, Change)
    BY <1>1
  <2> QED BY <1>1, <1>3, <1>4, <1>6, <1>7, <2>1 DEF Replica!Update

LEMMA PublishIsNothing ==
  ASSUME SyncInv, SyncInv', Publish
  PROVE  UNCHANGED <<Truth, Past, Serving, Held, Stale>>
<1> DEFINE h == Head(outbox)
           q == RowOf(h)
           p == PartitionOf[q]
<1>1. outbox \in Seq(Change) /\ outbox # <<>> /\ outbox' = Tail(outbox)
  BY DEF SyncInv, TypeOK, Publish
<1>2. UNCHANGED <<db, phase, next, cache>>
  BY DEF Publish, process
<1>3. UNCHANGED <<Truth, Serving, Held>>
  BY <1>2 DEF Truth, Serving, Held
<1>4. Past' = Past
  BY CommittedPublish DEF Past, SyncInv
<1>5. ASSUME Serving, NEW r \in Row PROVE Settled(r)' <=> Settled(r)
  <2>1. PartitionOf[r] \in Partition /\ q \in Row /\ p \in Partition /\ h \in Change
    BY <1>1, RowOfKey, SyncAssumption DEF SyncAssumption
  <2>2. /\ log[p] \in Seq(Change)
        /\ log'[p] = Append(log[p], h)
        /\ PartitionOf[r] # p => log'[PartitionOf[r]] = log[PartitionOf[r]]
    BY <2>1 DEF SyncInv, TypeOK, Publish
  <2>3. Settled(r) <=> /\ ~About(r, outbox)
                       /\ ~Pending(r, log[PartitionOf[r]], next[PartitionOf[r]])
    BY <1>5, RowSettled DEF Serving
  <2>4. Settled(r)' <=> /\ ~About(r, outbox')
                        /\ ~Pending(r, log'[PartitionOf[r]], next[PartitionOf[r]])
    <3>1. /\ log'[PartitionOf[r]] \in Seq(Change)
          /\ next[PartitionOf[r]] \in 0..Len(log'[PartitionOf[r]])
      BY <1>2, <1>5, <2>1 DEF SyncInv, TypeOK, Phases, Serving
    <3> QED BY <1>2, <3>1, PendingIsUnread DEF Settled, Unread
  <2>5. About(r, outbox) <=> r = q \/ About(r, outbox')
    BY PublishedNews DEF SyncInv
  <2>6. Pending(r, log'[PartitionOf[r]], next[PartitionOf[r]])
          <=> r = q \/ Pending(r, log[PartitionOf[r]], next[PartitionOf[r]])
    <3>1. next[PartitionOf[r]] \in 0..Len(log[PartitionOf[r]])
      BY <1>5, <2>1 DEF SyncInv, Phases, Serving
    <3>2. CASE PartitionOf[r] # p
      BY <2>2, <3>2
    <3>3. CASE PartitionOf[r] = p
      <4>1. /\ Len(log'[p]) = Len(log[p]) + 1 /\ Len(log[p]) \in Nat
            /\ log'[p][Len(log[p]) + 1] = h
            /\ \A k \in 1..Len(log[p]) : log'[p][k] = log[p][k]
        BY <2>1, <2>2
      <4>2. \A k : k \in (next[p] + 1)..Len(log'[p]) <=>
                   k \in (next[p] + 1)..Len(log[p]) \/ k = Len(log[p]) + 1
        BY <3>1, <3>3, <4>1
      <4>3. \A k \in (next[p] + 1)..Len(log[p]) : log'[p][k] = log[p][k]
        BY <3>1, <3>3, <4>1
      <4> HIDE DEF p, q, h
      <4>4. RowOf(log'[p][Len(log[p]) + 1]) = q
        BY <4>1 DEF q
      <4> QED BY <3>3, <4>2, <4>3, <4>4 DEF Pending
    <3> QED BY <3>2, <3>3
  <2> QED BY <2>3, <2>4, <2>5, <2>6
<1>6. Stale' = Stale
  BY <1>3, <1>5 DEF Stale
<1> QED
  BY <1>3, <1>4, <1>6

LEMMA AssignIsServe ==
  ASSUME SyncInv, Known', SettledRowsExact', Assign
  PROVE  Replica!Serve
<1>1. UNCHANGED source /\ ~Serving /\ Serving'
  BY DEF Assign, Serving
<1>2. UNCHANGED <<Truth, Past>>
  BY <1>1, SourceOfReplica
<1>3. Stale' \subseteq Row
  BY DEF Stale
<1>4. ASSUME NEW r \in Row
      PROVE  Held'[r] \in Past[r] /\ (r \notin Stale' => Held'[r] = Truth[r])
  <2>1. Held'[r] = Entry(cache', r)
    BY <1>1 DEF Held
  <2>2. Held'[r] \in Past'[r]
    BY <2>1 DEF Known, Past
  <2>3. r \notin Stale' => Held'[r] = Truth'[r]
    BY <1>1, <2>1 DEF Stale, Truth, Serving, SettledRowsExact
  <2> QED BY <1>2, <2>2, <2>3
<1>5. Held' = [r \in Row |-> Held'[r]]
  BY DEF Held
<1> QED
  BY <1>1, <1>2, <1>3, <1>4, <1>5 DEF Replica!Serve

LEMMA ConsumeIsHear ==
  ASSUME SyncInv, SyncInv', SettledRowsExact', NEW p \in Partition, Consume(p)
  PROVE  \E q \in Row : Replica!Hear(q)
<1> DEFINE n == next[p]
           m == log[p]
           c == m[n + 1]
<1>1. /\ UNCHANGED source /\ Serving /\ Serving'
      /\ cache' = ApplyEvent(cache, c) /\ n < Len(m)
      /\ next' = [next EXCEPT ![p] = n + 1]
  BY DEF Consume, Serving
<1>2. m \in Seq(Change) /\ n \in 0..Len(m) /\ cache \in State
  BY <1>1 DEF SyncInv, TypeOK, Phases, Serving
<1>3. n + 1 \in 1..Len(m) /\ c \in Change
  BY <1>1, <1>2
<1>4. PICK q \in Row : q = RowOf(c)
  BY <1>3, RowOfKey
<1> DEFINE v == Content(q, c)
<1>5. PartitionOf[q] = p
  BY <1>3, <1>4 DEF SyncInv, Published
<1>6. UNCHANGED <<Truth, Past>>
  BY <1>1, SourceOfReplica
<1>7. v \in Past[q]
  <2>1. c \in Committed
    BY <1>3, CommittedMessages DEF SyncInv
  <2> QED BY <1>4, <2>1, ContentsOf DEF Past
<1>8. Held' = [Held EXCEPT ![q] = v]
  <2>1. \A r \in Row : Entry(cache', r) = IF r = q THEN v ELSE Entry(cache, r)
    BY <1>1, <1>2, <1>3, <1>4, EntryAfter, RowsAreKeys
  <2> HIDE DEF v
  <2> QED BY <1>1, <1>4, <2>1 DEF Held
<1>9. ASSUME NEW r \in Row
      PROVE  /\ Settled(r) <=> /\ ~About(r, outbox)
                              /\ ~Pending(r, log[PartitionOf[r]], next[PartitionOf[r]])
             /\ Settled(r)' <=> /\ ~About(r, outbox)
                               /\ ~Pending(r, log[PartitionOf[r]], next'[PartitionOf[r]])
  <2>1. /\ PartitionOf[r] \in Partition
        /\ Settled(r) <=> /\ ~About(r, outbox)
                         /\ ~Pending(r, log[PartitionOf[r]], next[PartitionOf[r]])
    BY <1>1, RowSettled DEF Serving
  <2>2. /\ log[PartitionOf[r]] \in Seq(Change)
        /\ next'[PartitionOf[r]] \in 0..Len(log[PartitionOf[r]])
        /\ UNCHANGED <<log, outbox>>
    BY <1>1, <2>1 DEF SyncInv, TypeOK, Phases, Serving, source
  <2> QED BY <2>1, <2>2, PendingIsUnread DEF Settled, Unread
<1>10. q \in Stale
  <2>1. n + 1 \in (n + 1)..Len(m)
    BY <1>2, <1>3
  <2>2. Pending(q, m, n)
    BY <1>4, <2>1 DEF Pending
  <2> QED BY <1>1, <1>9, <1>5, <2>2 DEF Stale
<1>11. \A t \in Partition : next'[t] = IF t = p THEN n + 1 ELSE next[t]
  BY <1>1 DEF SyncInv, TypeOK
<1>12. ASSUME NEW r \in Row, r # q PROVE Settled(r)' <=> Settled(r)
  <2>1. CASE PartitionOf[r] # p
    <3>1. PartitionOf[r] \in Partition
      BY SyncAssumption DEF SyncAssumption
    <3> QED BY <1>9, <1>11, <2>1, <3>1
  <2>2. CASE PartitionOf[r] = p
    <3>1. \A k : k \in (n + 1)..Len(m) <=> k = n + 1 \/ k \in ((n + 1) + 1)..Len(m)
      BY <1>2, <1>3
    <3>2. Pending(r, m, n) <=> Pending(r, m, n + 1)
      BY <1>4, <1>12, <3>1 DEF Pending
    <3> QED BY <1>9, <1>11, <2>2, <3>2
  <2> QED BY <2>1, <2>2
<1>13. Stale' = Stale \/ (v = Truth[q] /\ Stale' = Stale \ {q})
  <2>1. CASE Settled(q)'
    <3>1. Entry(cache', q) = Truth'[q]
      BY <1>1, <1>4, <2>1 DEF SettledRowsExact, Serving, Truth
    <3>2. Entry(cache', q) = v
      BY <1>1, <1>2, <1>3, <1>4, EntryAfter, RowsAreKeys
    <3>3. v = Truth[q]
      BY <1>6, <3>1, <3>2
    <3>4. Stale' = Stale \ {q}
      <4> HIDE DEF v
      <4> QED BY <1>1, <1>12, <2>1 DEF Stale
    <3> QED BY <3>3, <3>4
  <2>2. CASE ~Settled(q)'
    <3>1. Stale' = Stale
      <4> HIDE DEF v
      <4> QED BY <1>1, <1>10, <1>12, <2>2 DEF Stale
    <3> QED BY <3>1
  <2> QED BY <2>1, <2>2
<1>14. Replica!Hear(q)
  <2> HIDE DEF v
  <2> QED BY <1>1, <1>6, <1>7, <1>8, <1>10, <1>13 DEF Replica!Hear
<1> QED
  BY <1>14

LEMMA CrashIsStop ==
  ASSUME Crash
  PROVE  Replica!Stop \/ UNCHANGED <<Truth, Past, Serving, Held, Stale>>
<1>1. UNCHANGED source /\ ~Serving'
  BY DEF Crash, Serving
<1>2. UNCHANGED <<Truth, Past>>
  BY <1>1, SourceOfReplica
<1>3. Held' = [r \in Row |-> Absent(r)] /\ Stale' = {}
  BY <1>1 DEF Held, Stale
<1>4. CASE Serving
  BY <1>1, <1>2, <1>3, <1>4 DEF Replica!Stop
<1>5. CASE ~Serving
  BY <1>1, <1>2, <1>3, <1>5, NotServing DEF Serving
<1> QED
  BY <1>4, <1>5

\* The startup is over before anyone asks.
LEMMA StartupIsNothing ==
  ASSUME \/ Start \/ Query
         \/ \E p \in Partition : NoteOffset(p)
         \/ \E c \in rows : InsertRow(c)
         \/ UNCHANGED vars,
         SyncInv
  PROVE  UNCHANGED <<Truth, Past, Serving, Held, Stale>>
<1>1. ASSUME UNCHANGED source, ~Serving, ~Serving'
      PROVE  UNCHANGED <<Truth, Past, Serving, Held, Stale>>
  <2>1. UNCHANGED <<Truth, Past>>
    BY <1>1, SourceOfReplica
  <2>2. UNCHANGED <<Serving, Held, Stale>>
    BY <1>1 DEF Serving, Held, Stale
  <2> QED BY <2>1, <2>2
<1>2. CASE Start
  BY <1>1, <1>2 DEF Start, Serving
<1>3. CASE Query
  BY <1>1, <1>3 DEF Query, Serving
<1>4. ASSUME NEW p \in Partition, NoteOffset(p)
      PROVE  UNCHANGED <<Truth, Past, Serving, Held, Stale>>
  BY <1>1, <1>4 DEF NoteOffset, Serving
<1>5. ASSUME NEW c \in rows, InsertRow(c)
      PROVE  UNCHANGED <<Truth, Past, Serving, Held, Stale>>
  BY <1>1, <1>5 DEF InsertRow, Serving, SyncInv, Phases
<1>6. CASE UNCHANGED vars
  BY <1>6, SourceOfReplica
     DEF vars, source, process, Serving, Held, Stale, Settled, Unread, About
<1> QED
  BY <1>2, <1>3, <1>4, <1>5, <1>6

(***************************************************************************)
(* Row by row the cache is a replica of the database: whatever the five    *)
(* queries saw and whatever is read again, an entry is something its row   *)
(* once was, only rows with messages under way move, one at a time, and    *)
(* the last message of a row leaves it as the database has it.             *)
(***************************************************************************)
THEOREM SyncImplementsReplica == Spec => ImplementsReplica
<1>1. Init => Replica!Init /\ Known
  <2> SUFFICES ASSUME Init PROVE Replica!Init /\ Known
    OBVIOUS
  <2>1. /\ \A r \in Row : db[r] = None
        /\ rows = {} /\ cache = EmptyState /\ ~Serving
    BY DEF Init, Serving
  <2>2. Committed = {}
    BY DEF Init, Committed, ToSet
  <2>3. \A r \in Row : Contents(r, Committed) = {}
    BY <2>2 DEF Contents
  <2>4. Truth = [r \in Row |-> Absent(r)]
    BY <2>1 DEF Truth, Content
  <2>5. Past = [r \in Row |-> {[q \in Row |-> Absent(q)][r]}]
    BY <2>3 DEF Past
  <2>6. Known
    BY <2>1, EmptyEntry, RowsAreKeys DEF Known
  <2> QED BY <2>1, <2>4, <2>5, <2>6, NotServing DEF Replica!Init
<1>2. SyncInv /\ SyncInv' /\ Known /\ [Next]_vars => Known'
  BY KnownStep
<1>3. SyncInv /\ SyncInv' /\ Known' /\ SettledRowsExact' /\ [Next]_vars
        => [Replica!Next]_(Replica!vars)
  <2> SUFFICES ASSUME SyncInv, SyncInv', Known', SettledRowsExact', [Next]_vars
               PROVE  Replica!Next \/ UNCHANGED <<Truth, Past, Serving, Held, Stale>>
    BY DEF Replica!vars
  <2>1. ASSUME NEW w \in Change, Write(w) PROVE Replica!Next
    BY <2>1, WriteIsUpdate, RowOfKey DEF Replica!Next
  <2>2. ASSUME Assign PROVE Replica!Next
    BY <2>2, AssignIsServe DEF Replica!Next
  <2>3. ASSUME NEW p \in Partition, Consume(p) PROVE Replica!Next
    BY <2>3, ConsumeIsHear DEF Replica!Next
  <2>4. ASSUME Crash PROVE Replica!Next \/ UNCHANGED <<Truth, Past, Serving, Held, Stale>>
    BY <2>4, CrashIsStop DEF Replica!Next
  <2> QED
    BY <2>1, <2>2, <2>3, <2>4, PublishIsNothing, StartupIsNothing DEF Next, Process, Load
<1> QED
  BY <1>1, <1>2, <1>3, SyncInit, SyncStep, SettledRowsAreExact, PTL
     DEF Spec, ImplementsReplica, Replica!Spec
=============================================================================
