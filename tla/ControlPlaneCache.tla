-------------------------- MODULE ControlPlaneCache --------------------------
(***************************************************************************)
(* `ControlPlaneCache` of src/permissions/cache.rs as the rest of the      *)
(* process drives it: the control-plane consumer applies one message at a  *)
(* time, and the SNS worker removes a mobile device whose endpoint proved  *)
(* invalid.  Each write takes the lock once, so each is one step.          *)
(*                                                                         *)
(* The messages come in any order and any number: what the source database *)
(* and the topic guarantee about them is the matter of ControlPlaneSync.   *)
(***************************************************************************)
EXTENDS ControlPlaneEvents

VARIABLE cp  \* the contents of the RwLock, a State

TypeOK == cp \in State

Init == cp = EmptyState

\* run_control_plane_consumer: one message of the stream
Consume(p) == cp' = ApplyEvent(cp, p)

\* process_sns_delivery: the endpoint of the device is invalid
DeactivateBySns(id) == cp' = DeactivateDevice(cp, id)

Next ==
  \/ \E p \in Payload : Consume(p)
  \/ \E id \in DeviceId : DeactivateBySns(id)

Spec == Init /\ [][Next]_cp

-----------------------------------------------------------------------------
(* The indexes agree with the maps they are derived from. *)

(***************************************************************************)
(* The four derived maps never drift from the primary ones, over any       *)
(* sequence of messages: the reverse index of the grants mirrors them,     *)
(* each counter is the number of pieces of equipment it stands for, and a  *)
(* unit has an organization only while equipment of that organization is   *)
(* on it.  This is what keeps `unassign_device` and `upsert_unit_device`   *)
(* in step when equipment moves, is repeated, or is deleted twice.         *)
(***************************************************************************)
IndexesAgree == GrantsMirrored(cp) /\ CountsExact(cp) /\ OrgNeedsEquipment(cp)

-----------------------------------------------------------------------------
(* The rule. *)

(***************************************************************************)
(* The entry of a unit in `unit_org` outlives the moves of its equipment:  *)
(* as long as one piece of equipment is on the unit, `unit_org` names the  *)
(* organization of that equipment, even after another piece of the same    *)
(* unit was unassigned and took part of the count away.                    *)
(***************************************************************************)
EquippedUnitHasItsOrg == AtMostOneOrg => OrgsGiven(cp) /\ OrgKnown(cp)

(***************************************************************************)
(* `users_for_unit`, that sends alerts, and `units_for`, that subscribes a *)
(* WebSocket, read different indexes and are the same relation: whoever    *)
(* would receive an alert of a unit watches the unit on connecting, and    *)
(* the other way round (docs/eventos-de-control.md: the WebSocket applies  *)
(* the same rule).                                                         *)
(***************************************************************************)
SameRule ==
  \A o \in Org, u \in User, x \in Unit :
    <<o, u>> \in UsersForUnit(cp, x) <=> x \in UnitsFor(cp, o, u)

(***************************************************************************)
(* A unit all of whose equipment belongs to one organization has that      *)
(* organization, so the owners of it receive its alerts: the documented    *)
(* rule, "para una unidad con equipo de la organización O: toda membresía  *)
(* owner de O", where the equipment leaves no doubt about O.               *)
(***************************************************************************)
OwnersReceive ==
  \A o \in Org, u \in User, x \in Unit :
    ( /\ EquipmentAt(cp, o, x) # {}
      /\ \A o2 \in Org \ {o} : EquipmentAt(cp, o2, x) = {}
      /\ HasActiveMembership(cp, o, u)
      /\ Owner(cp, o, u) )
    => <<o, u>> \in UsersForUnit(cp, x)

Rule ==
  INSTANCE AccessRule
  WITH suspended     <- {u \in User : cp.user_active[u] = "inactive"},
       members       <- cp.memberships,
       grants        <- cp.user_units,
       equipment     <- cp.unit_devices,
       recipients    <- [x \in Unit |-> UsersForUnit(cp, x)],
       subscriptions <- [m \in Org \X User |-> UnitsFor(cp, m[1], m[2])]

(***************************************************************************)
(* The cache implements the rule: it starts with no access, every message  *)
(* changes at most one fact, and both answers are those of the documented  *)
(* rule on the facts, whatever messages came before.                       *)
(***************************************************************************)
ImplementsRule == Rule!Spec

-----------------------------------------------------------------------------
(* Mobile devices and malformed messages. *)

(***************************************************************************)
(* A push goes to the person who holds the device now: every device known  *)
(* to the cache is active, has an endpoint, is filed under its own user,   *)
(* and is there once over all users, also after it changed hands, changed  *)
(* endpoint, or was removed by the SNS worker between two messages.        *)
(***************************************************************************)
OneHolderPerDevice == OneHolder(cp)

\* Messages that say less than an UPSERT should, and all DELETEs.
NarrowingMessages ==
  {p \in Payload :
     \/ p = Unreadable
     \/ p.event_type = "DELETE"
     \/ p.data = Broken
     \/ /\ p.entity \in {"user", "organization_user"}
        /\ p.data.status = None
     \/ /\ p.entity = "user_device"
        /\ p.data.is_active = None \/ p.data.endpoint_arn = None}

(***************************************************************************)
(* A DELETE, or a message with its status, flag or endpoint missing, never *)
(* opens anything: no unit gains a recipient, no connection a unit, and no *)
(* person a device.  The defaults `unwrap_or_default` fills in and the     *)
(* index updates of a DELETE all fall on the closed side.                  *)
(***************************************************************************)
NeverWidens ==
  \A p \in NarrowingMessages :
    LET t == ApplyEvent(cp, p)
    IN /\ \A x \in Unit : UsersForUnit(t, x) \subseteq UsersForUnit(cp, x)
       /\ \A o \in Org, u \in User : UnitsFor(t, o, u) \subseteq UnitsFor(cp, o, u)
       /\ \A u \in User : DevicesFor(t, u) \subseteq DevicesFor(cp, u)
=============================================================================
