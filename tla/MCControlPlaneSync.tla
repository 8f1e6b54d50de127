-------------------------- MODULE MCControlPlaneSync --------------------------
(***************************************************************************)
(* Small instances of ControlPlaneSync: one person, one organization, and  *)
(* a handful of row writes that pull against each other.                   *)
(***************************************************************************)
EXTENDS ControlPlaneSync, TLC

CONSTANTS o1, u1, u2, x1, x2, i1, d1, a1, p1, p2

OneOrg   == x1 :> {o1} @@ x2 :> {o1}
Versions == {1}

Msg(t, e, d) == [event_type |-> t, entity |-> e, schema_version |-> 1, data |-> d]

UserIs(u, s) == Msg("UPSERT", "user", [id |-> u, status |-> s])
Member(t, u, r) ==
  Msg(t, "organization_user",
      [organization_id |-> o1, user_id |-> u, role |-> r, status |-> "ACTIVE"])
Grant(t, u, x) ==
  Msg(t, "user_unit", [organization_id |-> o1, user_id |-> u, unit_id |-> x])
Equip(t, x) ==
  Msg(t, "unit_device", [device_id |-> i1, unit_id |-> x, organization_id |-> o1])
Phone(t, u, on) ==
  Msg(t, "user_device",
      [id |-> d1, user_id |-> u, endpoint_arn |-> a1, is_active |-> on])

\* Equipment that moves between two units, a grant that comes and goes.
AccessChanges ==
  {Member("UPSERT", u1, "member"), Grant("UPSERT", u1, x1), Grant("DELETE", u1, x1),
   Equip("UPSERT", x1), Equip("UPSERT", x2), Equip("DELETE", x1)}

\* A device that changes hands and is switched off.
PhoneChanges ==
  {UserIs(u1, "ACTIVE"), UserIs(u1, "SUSPENDED"),
   Phone("UPSERT", u1, TRUE), Phone("UPSERT", u2, TRUE),
   Phone("UPSERT", u2, FALSE), Phone("DELETE", u1, TRUE)}

\* Both.
AllChanges == AccessChanges \cup PhoneChanges

\* A member who was never granted the unit while active.
GrantChanges ==
  {Member("UPSERT", u1, "member"), Equip("UPSERT", x1),
   Grant("UPSERT", u1, x1), Grant("DELETE", u1, x1)}

\* Equipment on a partition of its own, everything else on the other.
TwoPartitions ==
  [r \in Row |-> IF r[1] \in {"unit_device", "user_device"} THEN p2 ELSE p1]
OnePartition == [r \in Row |-> p1]
=============================================================================
