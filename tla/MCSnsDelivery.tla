----------------------------- MODULE MCSnsDelivery -----------------------------
(***************************************************************************)
(* Small instances of SnsDelivery: the owners of one organization, one     *)
(* unit with equipment, and one mobile device.                             *)
(***************************************************************************)
EXTENDS SnsDelivery, FiniteSetsExt

CONSTANTS o1, u1, u2, x1, i1, d1, a1, a2

Phone(id, u, a) == [id |-> id, user_id |-> u, endpoint_arn |-> a, is_active |-> TRUE]

Phones   == [id \in DeviceId |-> "ios"]
Channels == [a \in Arn |-> IF a = a1 THEN "Gcm" ELSE IF a = a2 THEN "ApnsSandbox" ELSE "Unknown"]

Owners ==
  FoldSet(LAMBDA u, s : UpsertMembership(s, o1, u, "owner", "ACTIVE"),
          UpsertUnitDevice(EmptyState, i1, x1, o1), User)

AnyOrg == [x \in Unit |-> Org]

OneDevice == UpsertUserDevice(Owners, Phone(d1, u1, a1))
=============================================================================
