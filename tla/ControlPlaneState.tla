--------------------------- MODULE ControlPlaneState ---------------------------
(***************************************************************************)
(* The read model of src/permissions/cache.rs: who receives the alerts of  *)
(* each unit, and on which mobile devices.  A value of type State stands   *)
(* for `struct State`; every operation of ControlPlaneCache takes the      *)
(* write lock once and is one function from State to State here, every     *)
(* query takes the read lock once and is one function of a State.          *)
(*                                                                         *)
(* Maps of maps are flattened to functions on pairs, with None for an      *)
(* absent key; a unit count of 0 is an absent entry of units_by_org,       *)
(* because the code removes an entry when its count reaches 0.             *)
(***************************************************************************)
EXTENDS Integers, FiniteSets

CONSTANTS
  Org,       \* organizations
  User,      \* people
  Unit,      \* vehicles or assets that raise alerts
  Imei,      \* tracking equipment, at most one unit each
  DeviceId,  \* mobile devices that receive push messages
  Arn,       \* SNS endpoints of the mobile devices
  NoArn,     \* the empty endpoint_arn
  None       \* an absent key or an absent optional field

Membership == [owner : BOOLEAN, active : BOOLEAN]

UserDevice == [id : DeviceId, user_id : User,
               endpoint_arn : Arn \cup {NoArn}, is_active : BOOLEAN]

State ==
  [user_active  : [User -> {"absent", "active", "inactive"}],
   memberships  : [Org \X User -> Membership \cup {None}],
   user_units   : [User \X Unit -> Org \cup {None}],
   unit_users   : [Unit -> SUBSET User],
   unit_devices : [Imei -> (Unit \X Org) \cup {None}],
   units_by_org : [Org \X Unit -> Nat],
   unit_org     : [Unit -> Org \cup {None}],
   user_devices : [User -> SUBSET UserDevice]]

(***************************************************************************)
(* The sentinel is none of the values it stands in for, and there are      *)
(* finitely many pieces of equipment, so that they can be counted.         *)
(***************************************************************************)
ASSUME StateAssumption ==
  /\ None \notin Org
  /\ None \notin Unit \X Org
  /\ None \notin Membership
  /\ NoArn \notin Arn
  /\ IsFiniteSet(Imei)

\* ControlPlaneCache::default()
EmptyState ==
  [user_active  |-> [u \in User |-> "absent"],
   memberships  |-> [m \in Org \X User |-> None],
   user_units   |-> [g \in User \X Unit |-> None],
   unit_users   |-> [x \in Unit |-> {}],
   unit_devices |-> [i \in Imei |-> None],
   units_by_org |-> [k \in Org \X Unit |-> 0],
   unit_org     |-> [x \in Unit |-> None],
   user_devices |-> [u \in User |-> {}]]

-----------------------------------------------------------------------------
(* Queries *)

\* A user that does not appear counts as active.
UserIsActive(s, u) == s.user_active[u] # "inactive"

\* active_membership(org, user) is Some(m)
HasActiveMembership(s, o, u) ==
  /\ s.memberships[<<o, u>>] # None
  /\ s.memberships[<<o, u>>].active
  /\ UserIsActive(s, u)

Owner(s, o, u) == s.memberships[<<o, u>>].owner

\* Mutation: a grant counts whatever the state of the membership.
UsersForUnit_IgnoresInactive(s, x) ==
  LET o       == s.unit_org[x]
      owners  == {u \in User : HasActiveMembership(s, o, u) /\ Owner(s, o, u)}
      granted == {u \in s.unit_users[x] : s.memberships[<<o, u>>] # None}
  IN IF o = None THEN {} ELSE {<<o, u>> : u \in owners \cup granted}

UsersForUnit(s, x) ==
  LET o       == s.unit_org[x]
      owners  == {u \in User : HasActiveMembership(s, o, u) /\ Owner(s, o, u)}
      granted == {u \in s.unit_users[x] :
                    HasActiveMembership(s, o, u) /\ ~Owner(s, o, u)}
  IN IF o = None THEN {} ELSE {<<o, u>> : u \in owners \cup granted}

UnitsFor(s, o, u) ==
  LET owned   == {x \in Unit : s.units_by_org[<<o, x>>] > 0}
      granted == {x \in Unit : s.user_units[<<u, x>>] = o /\ s.unit_org[x] # None}
  IN IF ~HasActiveMembership(s, o, u) THEN {}
     ELSE IF Owner(s, o, u) THEN owned ELSE granted

DevicesFor(s, u) == s.user_devices[u]

-----------------------------------------------------------------------------
(* Operations *)

\* Mutation: whoever is not said to be suspended is active.
ApplyUser_Blacklist(s, u, status) ==
  [s EXCEPT !.user_active[u] = IF status = "SUSPENDED" THEN "inactive" ELSE "active"]

ApplyUser(s, u, status) ==
  [s EXCEPT !.user_active[u] = IF status = "ACTIVE" THEN "active" ELSE "inactive"]

UpsertMembership(s, o, u, role, status) ==
  [s EXCEPT !.memberships[<<o, u>>] = [owner  |-> role = "owner",
                                       active |-> status = "ACTIVE"]]

DeleteMembership(s, o, u) == [s EXCEPT !.memberships[<<o, u>>] = None]

UpsertUserUnit(s, o, u, x) ==
  [s EXCEPT !.user_units[<<u, x>>] = o,
            !.unit_users[x] = @ \cup {u}]

DeleteUserUnit(s, u, x) ==
  [s EXCEPT !.user_units[<<u, x>>] = None,
            !.unit_users[x] = @ \ {u}]

\* Mutation: the last equipment leaves and the unit keeps its organization.
UnassignDevice_KeepsOrg(s, i) ==
  IF s.unit_devices[i] = None THEN s
  ELSE [s EXCEPT !.unit_devices[i] = None,
                 !.units_by_org[<<s.unit_devices[i][2], s.unit_devices[i][1]>>] = @ - 1]

\* Mutation: the equipment stays in the map and is counted out again.
UnassignDevice_Repeats(s, i) ==
  IF s.unit_devices[i] = None THEN s
  ELSE [s EXCEPT !.units_by_org[<<s.unit_devices[i][2], s.unit_devices[i][1]>>] = @ - 1,
                 !.unit_org[s.unit_devices[i][1]] = None]

\* Mutation: the unit loses its organization with any piece of its equipment.
UnassignDevice_Hasty(s, i) ==
  IF s.unit_devices[i] = None THEN s
  ELSE [s EXCEPT !.unit_devices[i] = None,
                 !.units_by_org[<<s.unit_devices[i][2], s.unit_devices[i][1]>>] = @ - 1,
                 !.unit_org[s.unit_devices[i][1]] = None]

\* The last equipment of the unit in that organization takes unit_org with it.
UnassignDevice(s, i) ==
  IF s.unit_devices[i] = None THEN s
  ELSE LET x == s.unit_devices[i][1]
           o == s.unit_devices[i][2]
           n == s.units_by_org[<<o, x>>]
       IN [s EXCEPT !.unit_devices[i] = None,
                    !.units_by_org[<<o, x>>] = IF n = 0 THEN 0 ELSE n - 1,
                    !.unit_org[x] = IF n = 1 THEN None ELSE @]

\* Mutation: the previous assignment of the equipment is not undone.
UpsertUnitDevice_Adds(s, i, x, o) ==
  [s EXCEPT !.unit_devices[i] = <<x, o>>,
            !.units_by_org[<<o, x>>] = @ + 1,
            !.unit_org[x] = o]

UpsertUnitDevice(s, i, x, o) ==
  [UnassignDevice(s, i) EXCEPT !.unit_devices[i] = <<x, o>>,
                               !.units_by_org[<<o, x>>] = @ + 1,
                               !.unit_org[x] = o]

DeleteUnitDevice(s, i) == UnassignDevice(s, i)

DeactivateDevice(s, id) ==
  [s EXCEPT !.user_devices = [u \in User |-> {d \in s.user_devices[u] : d.id # id}]]

\* Mutation: only the device list of the new user is searched for the device.
UpsertUserDevice_OwnListOnly(s, d) ==
  LET others == {e \in s.user_devices[d.user_id] : e.id # d.id}
  IN [s EXCEPT !.user_devices[d.user_id] =
        IF d.is_active /\ d.endpoint_arn # NoArn THEN others \cup {d} ELSE others]

\* Mutation: the endpoint decides alone, an inactive device stays.
UpsertUserDevice_KeepsInactive(s, d) ==
  LET t == DeactivateDevice(s, d.id)
  IN IF d.endpoint_arn # NoArn
     THEN [t EXCEPT !.user_devices[d.user_id] = @ \cup {d}]
     ELSE t

\* An inactive device, or one with no endpoint, only leaves the map.
UpsertUserDevice(s, d) ==
  LET t == DeactivateDevice(s, d.id)
  IN IF d.is_active /\ d.endpoint_arn # NoArn
     THEN [t EXCEPT !.user_devices[d.user_id] = @ \cup {d}]
     ELSE t

-----------------------------------------------------------------------------
(* A property of the read model that more than one module states. *)

\* Every device is under its own user, active, with an endpoint, and there once.
OneHolder(s) ==
  /\ \A u \in User : \A d \in DevicesFor(s, u) :
       d.user_id = u /\ d.is_active /\ d.endpoint_arn # NoArn
  /\ \A u, v \in User : \A d \in DevicesFor(s, u), e \in DevicesFor(s, v) :
       d.id = e.id => d = e

=============================================================================
