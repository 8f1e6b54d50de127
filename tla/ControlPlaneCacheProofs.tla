----------------------- MODULE ControlPlaneCacheProofs -----------------------
(***************************************************************************)
(* Proofs about ControlPlaneCache, for every value of its constants.       *)
(*                                                                         *)
(* What each message keeps is in ControlPlaneEventsProofs; here it is put  *)
(* together for a step, and what is about the answers is added: defaults   *)
(* never widen them, and they follow the rule of AccessRule.               *)
(***************************************************************************)
EXTENDS ControlPlaneCache, ControlPlaneEventsProofs, TLAPS

-----------------------------------------------------------------------------
(* Type correctness *)

(***************************************************************************)
(* The read model keeps its type whatever messages arrive, complete or     *)
(* not, and whatever devices the SNS worker removes.                       *)
(***************************************************************************)
THEOREM TypeCorrect == Spec => []TypeOK
<1>1. Init => TypeOK
  BY EmptyStateType DEF Init, TypeOK
<1>2. TypeOK /\ [Next]_cp => TypeOK'
  <2> SUFFICES ASSUME TypeOK, [Next]_cp PROVE TypeOK'
    OBVIOUS
  <2>1. ASSUME NEW p \in Payload, Consume(p) PROVE TypeOK'
    BY <2>1, ApplyEventType DEF TypeOK, Consume
  <2>2. ASSUME NEW id \in DeviceId, DeactivateBySns(id) PROVE TypeOK'
    BY <2>2, DeactivateType DEF TypeOK, DeactivateBySns
  <2>3. CASE UNCHANGED cp
    BY <2>3 DEF TypeOK
  <2> QED
    BY <2>1, <2>2, <2>3 DEF Next
<1> QED
  BY <1>1, <1>2, PTL DEF Spec
-----------------------------------------------------------------------------
(* The indexes *)

(***************************************************************************)
(* The derived maps of the cache never drift from the primary ones: what   *)
(* the cache answers does not depend on how many times a message was seen, *)
(* or on equipment having moved between units and organizations.           *)
(***************************************************************************)
THEOREM IndexesCorrect == Spec => []IndexesAgree
<1> DEFINE Inv == TypeOK /\ IndexInv(cp)
<1>1. Init => Inv
  BY EmptyStateType, EmptyIndexes DEF Init, TypeOK
<1>2. Inv /\ [Next]_cp => Inv'
  <2> SUFFICES ASSUME Inv, [Next]_cp PROVE Inv'
    OBVIOUS
  <2>1. ASSUME NEW p \in Payload, Consume(p) PROVE Inv'
    <3>1. IndexInv(ApplyEvent(cp, p))
      BY AppliedPayload, UpsertIndexes, DeleteIndexes DEF ApplyEvent, TypeOK
    <3> QED
      BY <2>1, <3>1, ApplyEventType DEF TypeOK, Consume
  <2>2. ASSUME NEW id \in DeviceId, DeactivateBySns(id) PROVE Inv'
    <3>1. IndexInv(DeactivateDevice(cp, id))
      BY PeopleIndexes DEF TypeOK
    <3> QED
      BY <2>2, <3>1, DeactivateType DEF TypeOK, DeactivateBySns
  <2>3. CASE UNCHANGED cp
    BY <2>3 DEF TypeOK, IndexInv, GrantsMirrored, CountsExact, OrgNeedsEquipment,
                EquipmentAt
  <2> QED
    BY <2>1, <2>2, <2>3 DEF Next
<1>3. Inv => IndexesAgree
  BY DEF IndexInv, IndexesAgree
<1> QED
  BY <1>1, <1>2, <1>3, PTL DEF Spec

-----------------------------------------------------------------------------
(* The devices *)

(***************************************************************************)
(* A push goes to the person who holds the device now: over any sequence   *)
(* of registrations, hand-overs, deregistrations and removals by the SNS   *)
(* worker, a device is known once, under its own user, and only while it   *)
(* is active and has an endpoint.                                          *)
(***************************************************************************)
THEOREM DevicesHaveOneHolder == Spec => []OneHolderPerDevice
<1> DEFINE Inv == TypeOK /\ OneHolder(cp)
<1>1. Init => Inv
  <2>1. OneHolder(EmptyState)
    BY DEF OneHolder, DevicesFor, EmptyState
  <2> QED
    BY <2>1, EmptyStateType DEF Init, TypeOK
<1>2. Inv /\ [Next]_cp => Inv'
  <2> SUFFICES ASSUME Inv, [Next]_cp PROVE Inv'
    OBVIOUS
  <2>1. ASSUME NEW p \in Payload, Consume(p) PROVE Inv'
    <3>1. OneHolder(ApplyEvent(cp, p))
      BY ApplyEventHolders DEF TypeOK
    <3> QED
      BY <2>1, <3>1, ApplyEventType DEF TypeOK, Consume
  <2>2. ASSUME NEW id \in DeviceId, DeactivateBySns(id) PROVE Inv'
    <3>1. OneHolder(DeactivateDevice(cp, id))
      BY DeactivateHolders DEF TypeOK
    <3> QED
      BY <2>2, <3>1, DeactivateType DEF TypeOK, DeactivateBySns
  <2>3. CASE UNCHANGED cp
    BY <2>3 DEF TypeOK, OneHolder, DevicesFor
  <2> QED
    BY <2>1, <2>2, <2>3 DEF Next
<1>3. Inv => OneHolderPerDevice
  BY DEF OneHolderPerDevice
<1> QED
  BY <1>1, <1>2, <1>3, PTL DEF Spec

-----------------------------------------------------------------------------
(* The closed side *)

\* t gives nobody anything that s does not.
Narrower(t, s) ==
  /\ \A o \in Org, u \in User :
       HasActiveMembership(t, o, u) =>
         HasActiveMembership(s, o, u) /\ Owner(t, o, u) = Owner(s, o, u)
  /\ \A x \in Unit : t.unit_org[x] \in {s.unit_org[x], None}
  /\ \A x \in Unit : t.unit_users[x] \subseteq s.unit_users[x]
  /\ \A g \in User \X Unit : t.user_units[g] \in {s.user_units[g], None}
  /\ \A k \in Org \X Unit : t.units_by_org[k] <= s.units_by_org[k]
  /\ \A u \in User : t.user_devices[u] \subseteq s.user_devices[u]

LEMMA NarrowerAnswers ==
  ASSUME NEW s \in State, NEW t \in State, Narrower(t, s)
  PROVE  /\ \A x \in Unit : UsersForUnit(t, x) \subseteq UsersForUnit(s, x)
         /\ \A o \in Org, u \in User : UnitsFor(t, o, u) \subseteq UnitsFor(s, o, u)
         /\ \A u \in User : DevicesFor(t, u) \subseteq DevicesFor(s, u)
<1>1. ASSUME NEW x \in Unit PROVE UsersForUnit(t, x) \subseteq UsersForUnit(s, x)
  <2>1. CASE t.unit_org[x] = None
    BY <2>1 DEF UsersForUnit
  <2>2. CASE t.unit_org[x] # None
    <3>1. t.unit_org[x] = s.unit_org[x] /\ t.unit_org[x] \in Org
      BY <2>2 DEF Narrower, State
    <3>2. \A u \in User : HasActiveMembership(t, t.unit_org[x], u) =>
            /\ HasActiveMembership(s, t.unit_org[x], u)
            /\ Owner(t, t.unit_org[x], u) = Owner(s, t.unit_org[x], u)
      BY <3>1 DEF Narrower
    <3>3. t.unit_users[x] \subseteq s.unit_users[x] /\ t.unit_users[x] \subseteq User
      BY DEF Narrower, State
    <3> QED BY <2>2, <3>1, <3>2, <3>3 DEF UsersForUnit
  <2> QED BY <2>1, <2>2
<1>2. ASSUME NEW o \in Org, NEW u \in User PROVE UnitsFor(t, o, u) \subseteq UnitsFor(s, o, u)
  <2>1. CASE ~HasActiveMembership(t, o, u)
    BY <2>1 DEF UnitsFor
  <2>2. CASE HasActiveMembership(t, o, u)
    <3>1. HasActiveMembership(s, o, u) /\ Owner(t, o, u) = Owner(s, o, u)
      BY <2>2 DEF Narrower
    <3>2. \A x \in Unit : t.units_by_org[<<o, x>>] > 0 => s.units_by_org[<<o, x>>] > 0
      <4> SUFFICES ASSUME NEW x \in Unit, t.units_by_org[<<o, x>>] > 0
                   PROVE  s.units_by_org[<<o, x>>] > 0
        OBVIOUS
      <4>1. t.units_by_org[<<o, x>>] \in Nat /\ s.units_by_org[<<o, x>>] \in Nat
        BY DEF State
      <4>2. t.units_by_org[<<o, x>>] <= s.units_by_org[<<o, x>>]
        BY DEF Narrower
      <4> QED BY <4>1, <4>2
    <3>3. \A x \in Unit : t.user_units[<<u, x>>] = o /\ t.unit_org[x] # None =>
                           s.user_units[<<u, x>>] = o /\ s.unit_org[x] # None
      BY StateAssumption DEF Narrower, StateAssumption
    <3> QED BY <2>2, <3>1, <3>2, <3>3 DEF UnitsFor
  <2> QED BY <2>1, <2>2
<1>3. \A u \in User : DevicesFor(t, u) \subseteq DevicesFor(s, u)
  BY DEF Narrower, DevicesFor
<1> QED
  BY <1>1, <1>2, <1>3

LEMMA NarrowerSame == \A s \in State : Narrower(s, s)
<1> SUFFICES ASSUME NEW s \in State PROVE Narrower(s, s)
  OBVIOUS
<1>1. \A k \in Org \X Unit : s.units_by_org[k] \in Nat
  BY DEF State
<1>2. \A k \in Org \X Unit : s.units_by_org[k] <= s.units_by_org[k]
  BY <1>1
<1> QED
  BY <1>2 DEF Narrower

LEMMA UserNarrows ==
  ASSUME NEW s \in State, NEW u \in User
  PROVE  Narrower(ApplyUser(s, u, ""), s)
<1> DEFINE t == ApplyUser(s, u, "")
<1>1. /\ t.memberships = s.memberships /\ t.unit_org = s.unit_org
      /\ t.unit_users = s.unit_users /\ t.user_units = s.user_units
      /\ t.units_by_org = s.units_by_org /\ t.user_devices = s.user_devices
      /\ \A v \in User : t.user_active[v] = IF v = u THEN "inactive" ELSE s.user_active[v]
  BY DEF ApplyUser, State
<1> QED
  BY <1>1, NarrowerSame DEF Narrower, HasActiveMembership, UserIsActive, Owner

LEMMA MembershipNarrows ==
  ASSUME NEW s \in State, NEW o \in Org, NEW u \in User, NEW role, NEW t,
         \/ t = UpsertMembership(s, o, u, role, "")
         \/ t = DeleteMembership(s, o, u)
  PROVE  Narrower(t, s)
<1>1. /\ t.user_active = s.user_active /\ t.unit_org = s.unit_org
      /\ t.unit_users = s.unit_users /\ t.user_units = s.user_units
      /\ t.units_by_org = s.units_by_org /\ t.user_devices = s.user_devices
  BY DEF UpsertMembership, DeleteMembership, State
<1>2. \A m \in Org \X User : m # <<o, u>> => t.memberships[m] = s.memberships[m]
  BY DEF UpsertMembership, DeleteMembership, State
<1>3. t.memberships[<<o, u>>] = None \/ ~t.memberships[<<o, u>>].active
  <2>1. CASE t = UpsertMembership(s, o, u, role, "")
    <3>1. t.memberships = [s.memberships EXCEPT ![<<o, u>>] =
                             [owner |-> role = "owner", active |-> "" = "ACTIVE"]]
      BY <2>1 DEF UpsertMembership, State
    <3>2. s.memberships \in [Org \X User -> Membership \cup {None}] /\ <<o, u>> \in Org \X User
      BY DEF State
    <3>3. t.memberships[<<o, u>>] = [owner |-> role = "owner", active |-> "" = "ACTIVE"]
      BY <3>1, <3>2, Zenon
    <3>4. [owner |-> role = "owner", active |-> "" = "ACTIVE"].active = ("" = "ACTIVE")
      OBVIOUS
    <3>5. "" # "ACTIVE"
      OBVIOUS
    <3> QED BY <3>3, <3>4, <3>5
  <2>2. CASE t = DeleteMembership(s, o, u)
    BY <2>2 DEF DeleteMembership, State
  <2> QED BY <2>1, <2>2
<1>4. ~HasActiveMembership(t, o, u)
  BY <1>3 DEF HasActiveMembership
<1>5. ASSUME NEW p \in Org, NEW v \in User, HasActiveMembership(t, p, v)
      PROVE  HasActiveMembership(s, p, v) /\ Owner(t, p, v) = Owner(s, p, v)
  <2>1. <<p, v>> # <<o, u>>
    BY <1>4, <1>5
  <2>2. t.memberships[<<p, v>>] = s.memberships[<<p, v>>]
    BY <1>2, <2>1
  <2> QED BY <1>1, <1>5, <2>2 DEF HasActiveMembership, UserIsActive, Owner
<1> QED
  BY <1>1, <1>5, NarrowerSame DEF Narrower

LEMMA GrantNarrows ==
  ASSUME NEW s \in State, NEW u \in User, NEW x \in Unit
  PROVE  Narrower(DeleteUserUnit(s, u, x), s)
<1> DEFINE t == DeleteUserUnit(s, u, x)
<1>1. /\ t.user_active = s.user_active /\ t.memberships = s.memberships
      /\ t.unit_org = s.unit_org
      /\ t.units_by_org = s.units_by_org /\ t.user_devices = s.user_devices
  BY DEF DeleteUserUnit, State
<1>2. \A g \in User \X Unit : t.user_units[g] \in {s.user_units[g], None}
  BY DEF DeleteUserUnit, State
<1>3. \A y \in Unit : t.unit_users[y] \subseteq s.unit_users[y]
  BY DEF DeleteUserUnit, State
<1> QED
  BY <1>1, <1>2, <1>3, NarrowerSame DEF Narrower, HasActiveMembership, UserIsActive, Owner

LEMMA EquipmentNarrows ==
  ASSUME NEW s \in State, NEW i \in Imei
  PROVE  Narrower(UnassignDevice(s, i), s)
<1> DEFINE t == UnassignDevice(s, i)
<1>1. CASE s.unit_devices[i] = None
  BY <1>1, NarrowerSame DEF UnassignDevice
<1>2. CASE s.unit_devices[i] # None
  <2>1. PICK x \in Unit, o \in Org : s.unit_devices[i] = <<x, o>>
    BY <1>2 DEF State
  <2> DEFINE n == s.units_by_org[<<o, x>>]
  <2>2. n \in Nat /\ <<o, x>> \in Org \X Unit
    BY DEF State
  <2>3. t = [s EXCEPT !.unit_devices[i] = None,
                      !.units_by_org[<<o, x>>] = IF n = 0 THEN 0 ELSE n - 1,
                      !.unit_org[x] = IF n = 1 THEN None ELSE @]
    BY <1>2, <2>1 DEF UnassignDevice
  <2>4. /\ t.user_active = s.user_active /\ t.memberships = s.memberships
        /\ t.unit_users = s.unit_users /\ t.user_units = s.user_units
        /\ t.user_devices = s.user_devices
    BY <2>3 DEF State
  <2>5. \A y \in Unit : t.unit_org[y] \in {s.unit_org[y], None}
    BY <2>3 DEF State
  <2>6. \A k \in Org \X Unit : t.units_by_org[k] <= s.units_by_org[k]
    <3> SUFFICES ASSUME NEW k \in Org \X Unit PROVE t.units_by_org[k] <= s.units_by_org[k]
      OBVIOUS
    <3>1. s.units_by_org[k] \in Nat
      BY DEF State
    <3>2. t.units_by_org = [s.units_by_org EXCEPT ![<<o, x>>] = IF n = 0 THEN 0 ELSE n - 1]
      BY <2>3 DEF State
    <3>3. t.units_by_org[k] = IF k = <<o, x>> THEN (IF n = 0 THEN 0 ELSE n - 1)
                              ELSE s.units_by_org[k]
      BY <3>2 DEF State
    <3> QED BY <2>2, <3>1, <3>3
  <2> QED
    BY <2>4, <2>5, <2>6, NarrowerSame DEF Narrower, HasActiveMembership, UserIsActive, Owner
<1> QED
  BY <1>1, <1>2

LEMMA DeactivateNarrows ==
  ASSUME NEW s \in State, NEW id
  PROVE  Narrower(DeactivateDevice(s, id), s)
<1> DEFINE t == DeactivateDevice(s, id)
<1>1. /\ t.user_active = s.user_active /\ t.memberships = s.memberships
      /\ t.unit_org = s.unit_org /\ t.unit_users = s.unit_users
      /\ t.user_units = s.user_units /\ t.units_by_org = s.units_by_org
      /\ \A u \in User : t.user_devices[u] \subseteq s.user_devices[u]
  BY DEF DeactivateDevice, State
<1> QED
  BY <1>1, NarrowerSame DEF Narrower, HasActiveMembership, UserIsActive, Owner

LEMMA DeleteNarrows ==
  ASSUME NEW s \in State, NEW e \in Entity, NEW d \in DataOf(e)
  PROVE  Narrower(Delete(s, e, d), s)
<1>1. CASE e = "user"
  <2>1. d.id \in User
    BY <1>1 DEF DataOf, UserData
  <2> QED BY <1>1, <2>1, UserNarrows DEF Delete
<1>2. CASE e = "organization_user"
  <2>1. d.organization_id \in Org /\ d.user_id \in User
    BY <1>2 DEF DataOf, MembershipData
  <2> QED BY <1>2, <2>1, MembershipNarrows DEF Delete
<1>3. CASE e = "user_unit"
  <2>1. d.user_id \in User /\ d.unit_id \in Unit
    BY <1>3 DEF DataOf, UserUnitData
  <2> QED BY <1>3, <2>1, GrantNarrows DEF Delete
<1>4. CASE e = "unit_device"
  <2>1. d.device_id \in Imei
    BY <1>4 DEF DataOf, UnitDeviceData
  <2> QED BY <1>4, <2>1, EquipmentNarrows DEF Delete, DeleteUnitDevice
<1>5. CASE e = "user_device"
  BY <1>5, DeactivateNarrows DEF Delete
<1> QED
  BY <1>1, <1>2, <1>3, <1>4, <1>5 DEF Entity

\* An UPSERT that says too little to open anything.
LEMMA UpsertNarrows ==
  ASSUME NEW s \in State, NEW e \in Entity, NEW d \in DataOf(e),
         \/ e \in {"user", "organization_user"} /\ d.status = None
         \/ e = "user_device" /\ (d.is_active = None \/ d.endpoint_arn = None)
  PROVE  Narrower(Upsert(s, e, d), s)
<1>1. CASE e = "user"
  <2>1. d.id \in User
    BY <1>1 DEF DataOf, UserData
  <2> QED BY <1>1, <2>1, UserNarrows DEF Upsert, Default
<1>2. CASE e = "organization_user"
  <2>1. d.organization_id \in Org /\ d.user_id \in User
    BY <1>2 DEF DataOf, MembershipData
  <2>2. Upsert(s, e, d) = UpsertMembership(s, d.organization_id, d.user_id, Default(d.role, ""), "")
    BY <1>2 DEF Upsert, Default
  <2> QED BY <2>1, <2>2, MembershipNarrows
<1>3. CASE e = "user_device"
  <2>1. d.is_active = None \/ d.endpoint_arn = None
    BY <1>3
  <2>2. Upsert(s, e, d) = DeactivateDevice(s, d.id)
    BY <1>3, <2>1 DEF Upsert, Default, UpsertUserDevice
  <2> QED BY <2>2, DeactivateNarrows
<1> QED
  BY <1>1, <1>2, <1>3

LEMMA NarrowingStep ==
  ASSUME NEW s \in State, NEW p \in NarrowingMessages
  PROVE  Narrower(ApplyEvent(s, p), s)
<1>1. p \in Payload
  BY DEF NarrowingMessages
<1>2. CASE Outcome(p) # "Yes"
  BY <1>2, NarrowerSame DEF ApplyEvent
<1>3. CASE Outcome(p) = "Yes"
  <2>1. p # Unreadable /\ p.data # Broken
    BY <1>3 DEF Outcome
  <2>2. p.entity \in Entity /\ p.data \in DataOf(p.entity)
    BY <1>1, <1>3, AppliedPayload
  <2>3. CASE p.event_type # "UPSERT"
    BY <1>3, <2>2, <2>3, DeleteNarrows DEF ApplyEvent
  <2>4. CASE p.event_type = "UPSERT"
    <3>1. \/ p.entity \in {"user", "organization_user"} /\ p.data.status = None
          \/ p.entity = "user_device" /\ (p.data.is_active = None \/ p.data.endpoint_arn = None)
      BY <2>1, <2>4 DEF NarrowingMessages
    <3> QED BY <1>3, <2>2, <2>4, <3>1, UpsertNarrows DEF ApplyEvent
  <2> QED BY <2>3, <2>4
<1> QED
  BY <1>2, <1>3

(***************************************************************************)
(* A DELETE, or a message that leaves its status, flag or endpoint out,    *)
(* gives nobody a unit or a device, whatever the cache holds by then: all  *)
(* the defaults and all the index updates fall on the closed side.         *)
(***************************************************************************)
THEOREM DefaultsAreClosed == Spec => []NeverWidens
<1>1. TypeOK => NeverWidens
  <2> SUFFICES ASSUME TypeOK, NEW p \in NarrowingMessages
               PROVE  LET t == ApplyEvent(cp, p)
                      IN /\ \A x \in Unit : UsersForUnit(t, x) \subseteq UsersForUnit(cp, x)
                         /\ \A o \in Org, u \in User :
                              UnitsFor(t, o, u) \subseteq UnitsFor(cp, o, u)
                         /\ \A u \in User : DevicesFor(t, u) \subseteq DevicesFor(cp, u)
    BY DEF NeverWidens
  <2>1. p \in Payload
    BY DEF NarrowingMessages
  <2> QED
    BY <2>1, ApplyEventType, NarrowingStep, NarrowerAnswers DEF TypeOK
<1> QED
  BY <1>1, TypeCorrect, PTL

-----------------------------------------------------------------------------
(***************************************************************************)
(* The rule of access, where no message ever gives a unit to a second      *)
(* organization: the index of organizations never goes stale, so both      *)
(* queries answer by the same rule, and the cache implements AccessRule.   *)
(***************************************************************************)

(***************************************************************************)
(* What every step keeps.                                                  *)
(***************************************************************************)
Inv == TypeOK /\ RuleInv(cp)

LEMMA InitInv == Init => Inv
<1>1. OrgsGiven(EmptyState) /\ OrgKnown(EmptyState)
  BY DEF OrgsGiven, OrgKnown, EmptyState
<1> QED
  BY <1>1, EmptyStateType, EmptyIndexes DEF Init, Inv, TypeOK, RuleInv

LEMMA NextInv == AtMostOneOrg /\ Inv /\ [Next]_cp => Inv'
<1> SUFFICES ASSUME AtMostOneOrg, Inv, [Next]_cp PROVE Inv'
  OBVIOUS
<1>t. cp \in State /\ RuleInv(cp)
  BY DEF Inv, TypeOK
<1>1. cp' \in State /\ RuleInv(cp')
  <2>1. ASSUME NEW p \in Payload, Consume(p) PROVE cp' \in State /\ RuleInv(cp')
    BY <1>t, <2>1, ApplyEventInv DEF Consume
  <2>2. ASSUME NEW id \in DeviceId, DeactivateBySns(id)
        PROVE  cp' \in State /\ RuleInv(cp')
    BY <1>t, <2>2, DeactivateType, PeopleIndexes, PeopleKeepRule
    DEF DeactivateBySns, RuleInv
  <2>3. CASE UNCHANGED cp
    BY <1>t, <2>3
  <2> QED
    BY <2>1, <2>2, <2>3 DEF Next
<1> QED
  BY <1>1 DEF Inv, TypeOK, RuleInv, IndexInv, GrantsMirrored, CountsExact,
              OrgNeedsEquipment, OrgsGiven, OrgKnown, EquipmentAt

(***************************************************************************)
(* As long as one piece of equipment is on a unit, the index names the     *)
(* organization of that equipment, whatever was unassigned before.         *)
(***************************************************************************)
THEOREM OrgOutlivesMoves == Spec => []EquippedUnitHasItsOrg
<1>1. CASE AtMostOneOrg
  <2>1. Inv => EquippedUnitHasItsOrg
    BY DEF Inv, RuleInv, EquippedUnitHasItsOrg
  <2>2. Inv /\ [Next]_cp => Inv'
    BY <1>1, NextInv
  <2> QED
    BY <2>1, <2>2, InitInv, PTL DEF Spec
<1>2. CASE ~AtMostOneOrg
  <2>1. EquippedUnitHasItsOrg
    BY <1>2 DEF EquippedUnitHasItsOrg
  <2> QED
    BY <2>1, PTL
<1> QED
  BY <1>1, <1>2

-----------------------------------------------------------------------------
(* The answers *)

\* The documented rule, on the facts of the read model.
Access(s, o, u, x) ==
  /\ EquipmentAt(s, o, x) # {}
  /\ HasActiveMembership(s, o, u)
  /\ Owner(s, o, u) \/ s.user_units[<<u, x>>] = o

LEMMA OrgIffEquipped ==
  ASSUME AtMostOneOrg, NEW s \in State, RuleInv(s), NEW o \in Org, NEW x \in Unit
  PROVE  /\ s.unit_org[x] = o <=> EquipmentAt(s, o, x) # {}
         /\ s.units_by_org[<<o, x>>] > 0 <=> EquipmentAt(s, o, x) # {}
         /\ s.unit_org[x] = o => o \in UnitOrgs[x]
<1>0. o # None
  BY StateAssumption DEF StateAssumption
<1>1. s.unit_org[x] = o => EquipmentAt(s, o, x) # {}
  BY <1>0 DEF OrgNeedsEquipment, IndexInv, RuleInv
<1>2. ASSUME NEW i \in Imei, i \in EquipmentAt(s, o, x)
      PROVE  s.unit_org[x] = o /\ o \in UnitOrgs[x]
  <2>0. OrgsGiven(s) /\ OrgKnown(s)
    BY DEF RuleInv
  <2>1. s.unit_devices[i] = <<x, o>> /\ s.unit_devices[i] # None
    BY <1>2, StateAssumption DEF EquipmentAt, StateAssumption
  <2>2. PICK y \in Unit, p \in Org :
          s.unit_devices[i] = <<y, p>> /\ s.unit_org[y] = p /\ p \in UnitOrgs[y]
    <3>1. s.unit_devices[i] # None
      BY <2>1
    <3> QED
      BY <2>0, <3>1, Equipped
  <2>3. y = x /\ p = o
    BY <2>1, <2>2
  <2> QED
    BY <2>2, <2>3
<1>3. EquipmentAt(s, o, x) # {} => s.unit_org[x] = o /\ o \in UnitOrgs[x]
  BY <1>2 DEF EquipmentAt
<1>4. s.units_by_org[<<o, x>>] > 0 <=> EquipmentAt(s, o, x) # {}
  <2>1. s.units_by_org[<<o, x>>] = Cardinality(EquipmentAt(s, o, x))
    BY DEF CountsExact, IndexInv, RuleInv
  <2> QED
    BY <2>1, EquipmentFinite, FS_EmptySet, FS_CardinalityType
<1> QED
  BY <1>1, <1>3, <1>4

LEMMA GrantIffListed ==
  ASSUME AtMostOneOrg, NEW s \in State, RuleInv(s),
         NEW o \in Org, NEW u \in User, NEW x \in Unit, s.unit_org[x] = o
  PROVE  u \in s.unit_users[x] <=> s.user_units[<<u, x>>] = o
<1>0. o # None
  BY StateAssumption DEF StateAssumption
<1>1. u \in s.unit_users[x] <=> s.user_units[<<u, x>>] # None
  BY DEF GrantsMirrored, IndexInv, RuleInv
<1>2. s.user_units[<<u, x>>] # None => s.user_units[<<u, x>>] \in UnitOrgs[x]
  BY DEF OrgsGiven, RuleInv
<1>3. o \in UnitOrgs[x]
  BY OrgIffEquipped
<1>4. s.user_units[<<u, x>>] # None => s.user_units[<<u, x>>] = o
  BY <1>2, <1>3 DEF AtMostOneOrg
<1> QED
  BY <1>0, <1>1, <1>4

(***************************************************************************)
(* Each query, from its own indexes, answers by the rule.                  *)
(***************************************************************************)
LEMMA RecipientsByRule ==
  ASSUME AtMostOneOrg, NEW s \in State, RuleInv(s), NEW x \in Unit
  PROVE  UsersForUnit(s, x) = {m \in Org \X User : Access(s, m[1], m[2], x)}
<1>1. CASE s.unit_org[x] = None
  <2>1. \A o \in Org : EquipmentAt(s, o, x) = {}
    BY <1>1, OrgIffEquipped, StateAssumption DEF StateAssumption
  <2>2. {m \in Org \X User : Access(s, m[1], m[2], x)} = {}
    BY <2>1 DEF Access
  <2> QED
    BY <1>1, <2>2 DEF UsersForUnit
<1>2. CASE s.unit_org[x] # None
  <2>1. PICK o \in Org : s.unit_org[x] = o
    BY <1>2 DEF State
  <2> DEFINE named == {u \in User : Access(s, o, u, x)}
  <2>2. s.unit_users[x] \subseteq User
    BY DEF State
  <2>3. ASSUME NEW u \in User
        PROVE  ( \/ HasActiveMembership(s, o, u) /\ Owner(s, o, u)
                 \/ u \in s.unit_users[x] /\ HasActiveMembership(s, o, u) /\ ~Owner(s, o, u) )
               <=> Access(s, o, u, x)
    <3>1. EquipmentAt(s, o, x) # {}
      BY <2>1, OrgIffEquipped
    <3>2. u \in s.unit_users[x] <=> s.user_units[<<u, x>>] = o
      BY <2>1, GrantIffListed
    <3> QED
      BY <3>1, <3>2 DEF Access
  <2>4. UsersForUnit(s, x) = {<<o, u>> : u \in named}
    <3>1. named = {u \in User : HasActiveMembership(s, o, u) /\ Owner(s, o, u)}
                  \cup {u \in s.unit_users[x] :
                          HasActiveMembership(s, o, u) /\ ~Owner(s, o, u)}
      BY <2>2, <2>3
    <3> HIDE DEF named
    <3> QED
      BY <1>2, <2>1, <3>1 DEF UsersForUnit
  <2>5. ASSUME NEW p \in Org, NEW u \in User, Access(s, p, u, x)
        PROVE  p = o
    BY <2>1, <2>5, OrgIffEquipped DEF Access
  <2>6. {<<o, u>> : u \in named} = {m \in Org \X User : Access(s, m[1], m[2], x)}
    <3>1. ASSUME NEW u \in named
          PROVE  <<o, u>> \in {m \in Org \X User : Access(s, m[1], m[2], x)}
      OBVIOUS
    <3>2. ASSUME NEW m \in Org \X User, Access(s, m[1], m[2], x)
          PROVE  m \in {<<o, u>> : u \in named}
      <4>1. m = <<m[1], m[2]>> /\ m[1] \in Org /\ m[2] \in User
        OBVIOUS
      <4>2. m[1] = o
        BY <2>5, <3>2, <4>1
      <4> QED
        BY <3>2, <4>1, <4>2
    <3> QED
      BY <3>1, <3>2
  <2> QED
    BY <2>4, <2>6
<1> QED
  BY <1>1, <1>2

LEMMA SubscriptionsByRule ==
  ASSUME AtMostOneOrg, NEW s \in State, RuleInv(s), NEW o \in Org, NEW u \in User
  PROVE  UnitsFor(s, o, u) = {x \in Unit : Access(s, o, u, x)}
<1>1. ASSUME NEW x \in Unit
      PROVE  /\ s.units_by_org[<<o, x>>] > 0 <=> EquipmentAt(s, o, x) # {}
             /\ (s.user_units[<<u, x>>] = o /\ s.unit_org[x] # None)
                <=> (s.user_units[<<u, x>>] = o /\ EquipmentAt(s, o, x) # {})
  <2>0. o # None
    BY StateAssumption DEF StateAssumption
  <2>1. ASSUME s.user_units[<<u, x>>] = o, s.unit_org[x] # None
        PROVE  s.unit_org[x] = o
    <3>1. PICK p \in Org : s.unit_org[x] = p
      BY <2>1 DEF State
    <3>2. p \in UnitOrgs[x]
      BY <3>1, OrgIffEquipped
    <3>3. o \in UnitOrgs[x]
      BY <2>0, <2>1 DEF OrgsGiven, RuleInv
    <3> QED
      BY <3>1, <3>2, <3>3 DEF AtMostOneOrg
  <2> QED
    BY <2>0, <2>1, OrgIffEquipped
<1> QED
  BY <1>1 DEF UnitsFor, Access

(***************************************************************************)
(* Alerts and WebSocket subscriptions follow the same rule: whoever        *)
(* receives the alerts of a unit watches it on connecting, and the other   *)
(* way round, as long as no unit changes organization.                     *)
(***************************************************************************)
THEOREM QueriesAgree == AtMostOneOrg => (Spec => []SameRule)
<1> SUFFICES ASSUME AtMostOneOrg PROVE Spec => []SameRule
  OBVIOUS
<1>1. Inv => SameRule
  <2> SUFFICES ASSUME Inv, NEW o \in Org, NEW u \in User, NEW x \in Unit
               PROVE  <<o, u>> \in UsersForUnit(cp, x) <=> x \in UnitsFor(cp, o, u)
    BY DEF SameRule
  <2>1. cp \in State /\ RuleInv(cp)
    BY DEF Inv, TypeOK
  <2>2. <<o, u>> \in UsersForUnit(cp, x) <=> Access(cp, o, u, x)
    BY <2>1, RecipientsByRule
  <2>3. x \in UnitsFor(cp, o, u) <=> Access(cp, o, u, x)
    BY <2>1, SubscriptionsByRule
  <2> QED
    BY <2>2, <2>3
<1>2. Inv /\ [Next]_cp => Inv'
  BY NextInv
<1> QED
  BY <1>1, <1>2, InitInv, PTL DEF Spec

-----------------------------------------------------------------------------
(* The refinement *)

Suspended(s) == {u \in User : s.user_active[u] = "inactive"}

SameFacts(s, t) ==
  /\ t.user_active = s.user_active
  /\ t.memberships = s.memberships
  /\ t.user_units = s.user_units
  /\ t.unit_users = s.unit_users
  /\ t.unit_devices = s.unit_devices
  /\ t.units_by_org = s.units_by_org
  /\ t.unit_org = s.unit_org

\* A step of the rule, on the facts alone.
FactStep(s, t) ==
  \/ /\ \E u \in User : \/ Suspended(t) = Suspended(s) \cup {u}
                        \/ Suspended(t) = Suspended(s) \ {u}
     /\ t.memberships = s.memberships
     /\ t.user_units = s.user_units
     /\ t.unit_devices = s.unit_devices
  \/ /\ \E m \in Org \X User : \E r \in Membership \cup {None} :
          t.memberships = [s.memberships EXCEPT ![m] = r]
     /\ Suspended(t) = Suspended(s)
     /\ t.user_units = s.user_units
     /\ t.unit_devices = s.unit_devices
  \/ /\ \E g \in User \X Unit : \E o \in Org \cup {None} :
          t.user_units = [s.user_units EXCEPT ![g] = o]
     /\ Suspended(t) = Suspended(s)
     /\ t.memberships = s.memberships
     /\ t.unit_devices = s.unit_devices
  \/ /\ \E i \in Imei : \E e \in (Unit \X Org) \cup {None} :
          t.unit_devices = [s.unit_devices EXCEPT ![i] = e]
     /\ Suspended(t) = Suspended(s)
     /\ t.memberships = s.memberships
     /\ t.user_units = s.user_units

LEMMA UserStep ==
  ASSUME NEW s \in State, NEW u \in User, NEW status
  PROVE  FactStep(s, ApplyUser(s, u, status))
<1> DEFINE t == ApplyUser(s, u, status)
           a == IF status = "ACTIVE" THEN "active" ELSE "inactive"
<1>1. /\ t.user_active = [s.user_active EXCEPT ![u] = a]
      /\ t.memberships = s.memberships
      /\ t.user_units = s.user_units
      /\ t.unit_devices = s.unit_devices
  BY DEF ApplyUser, State
<1> HIDE DEF t
<1>2. \A v \in User : t.user_active[v] = IF v = u THEN a ELSE s.user_active[v]
  BY <1>1 DEF State
<1>3. \/ Suspended(t) = Suspended(s) \cup {u}
      \/ Suspended(t) = Suspended(s) \ {u}
  BY <1>2 DEF Suspended
<1>4. FactStep(s, t)
  BY <1>1, <1>3 DEF FactStep
<1> QED
  BY <1>4 DEF t

LEMMA MembershipStep ==
  ASSUME NEW s \in State, NEW o \in Org, NEW u \in User, NEW role, NEW status
  PROVE  /\ FactStep(s, UpsertMembership(s, o, u, role, status))
         /\ FactStep(s, DeleteMembership(s, o, u))
<1>1. ASSUME NEW t, NEW r \in Membership \cup {None},
             t.memberships = [s.memberships EXCEPT ![<<o, u>>] = r],
             t.user_active = s.user_active, t.user_units = s.user_units,
             t.unit_devices = s.unit_devices
      PROVE  FactStep(s, t)
  <2>1. Suspended(t) = Suspended(s)
    BY <1>1 DEF Suspended
  <2>2. <<o, u>> \in Org \X User
    OBVIOUS
  <2> QED
    BY <1>1, <2>1, <2>2 DEF FactStep
<1>2. FactStep(s, UpsertMembership(s, o, u, role, status))
  <2> DEFINE t == UpsertMembership(s, o, u, role, status)
             r == [owner |-> role = "owner", active |-> status = "ACTIVE"]
  <2>1. r \in Membership
    BY DEF Membership
  <2>2. /\ t.memberships = [s.memberships EXCEPT ![<<o, u>>] = r]
        /\ t.user_active = s.user_active
        /\ t.user_units = s.user_units
        /\ t.unit_devices = s.unit_devices
    BY DEF UpsertMembership, State
  <2> HIDE DEF t, r
  <2>3. FactStep(s, t)
    BY <1>1, <2>1, <2>2
  <2> QED
    BY <2>3 DEF t
<1>3. FactStep(s, DeleteMembership(s, o, u))
  <2> DEFINE t == DeleteMembership(s, o, u)
  <2>1. /\ t.memberships = [s.memberships EXCEPT ![<<o, u>>] = None]
        /\ t.user_active = s.user_active
        /\ t.user_units = s.user_units
        /\ t.unit_devices = s.unit_devices
    BY DEF DeleteMembership, State
  <2> HIDE DEF t
  <2>2. FactStep(s, t)
    BY <1>1, <2>1
  <2> QED
    BY <2>2 DEF t
<1> QED
  BY <1>2, <1>3

LEMMA GrantStep ==
  ASSUME NEW s \in State, NEW u \in User, NEW x \in Unit
  PROVE  /\ \A o \in Org : FactStep(s, UpsertUserUnit(s, o, u, x))
         /\ FactStep(s, DeleteUserUnit(s, u, x))
<1>1. ASSUME NEW t, NEW o \in Org \cup {None},
             t.user_units = [s.user_units EXCEPT ![<<u, x>>] = o],
             t.user_active = s.user_active, t.memberships = s.memberships,
             t.unit_devices = s.unit_devices
      PROVE  FactStep(s, t)
  <2>1. Suspended(t) = Suspended(s)
    BY <1>1 DEF Suspended
  <2>2. <<u, x>> \in User \X Unit
    OBVIOUS
  <2> QED
    BY <1>1, <2>1, <2>2 DEF FactStep
<1>2. ASSUME NEW o \in Org PROVE FactStep(s, UpsertUserUnit(s, o, u, x))
  <2> DEFINE t == UpsertUserUnit(s, o, u, x)
  <2>1. /\ t.user_units = [s.user_units EXCEPT ![<<u, x>>] = o]
        /\ t.user_active = s.user_active
        /\ t.memberships = s.memberships
        /\ t.unit_devices = s.unit_devices
    BY DEF UpsertUserUnit, State
  <2> HIDE DEF t
  <2>2. FactStep(s, t)
    BY <1>1, <2>1
  <2> QED
    BY <2>2 DEF t
<1>3. FactStep(s, DeleteUserUnit(s, u, x))
  <2> DEFINE t == DeleteUserUnit(s, u, x)
  <2>1. /\ t.user_units = [s.user_units EXCEPT ![<<u, x>>] = None]
        /\ t.user_active = s.user_active
        /\ t.memberships = s.memberships
        /\ t.unit_devices = s.unit_devices
    BY DEF DeleteUserUnit, State
  <2> HIDE DEF t
  <2>2. FactStep(s, t)
    BY <1>1, <2>1
  <2> QED
    BY <2>2 DEF t
<1> QED
  BY <1>2, <1>3

LEMMA EquipmentStep ==
  ASSUME NEW s \in State, NEW i \in Imei
  PROVE  /\ FactStep(s, UnassignDevice(s, i))
         /\ \A x \in Unit, o \in Org : FactStep(s, UpsertUnitDevice(s, i, x, o))
<1>1. ASSUME NEW t, NEW e \in (Unit \X Org) \cup {None},
             t.unit_devices = [s.unit_devices EXCEPT ![i] = e],
             t.user_active = s.user_active, t.memberships = s.memberships,
             t.user_units = s.user_units
      PROVE  FactStep(s, t)
  <2>1. Suspended(t) = Suspended(s)
    BY <1>1 DEF Suspended
  <2> QED
    BY <1>1, <2>1 DEF FactStep
<1> DEFINE r == UnassignDevice(s, i)
<1>2. /\ r.unit_devices = [s.unit_devices EXCEPT ![i] = None]
      /\ r.user_active = s.user_active
      /\ r.memberships = s.memberships
      /\ r.user_units = s.user_units
  BY DEF UnassignDevice, State
<1>3. r \in State
  BY UnassignType
<1>r. r = UnassignDevice(s, i)
  OBVIOUS
<1> HIDE DEF r
<1>4. FactStep(s, r)
  BY <1>1, <1>2
<1>5. ASSUME NEW x \in Unit, NEW o \in Org PROVE FactStep(s, UpsertUnitDevice(s, i, x, o))
  <2> DEFINE t == [r EXCEPT !.unit_devices[i] = <<x, o>>,
                            !.units_by_org[<<o, x>>] = @ + 1,
                            !.unit_org[x] = o]
  <2>1. /\ t.unit_devices = [r.unit_devices EXCEPT ![i] = <<x, o>>]
        /\ t.user_active = r.user_active
        /\ t.memberships = r.memberships
        /\ t.user_units = r.user_units
    BY <1>3 DEF State
  <2>t. t = UpsertUnitDevice(s, i, x, o)
    BY <1>r DEF UpsertUnitDevice
  <2> HIDE DEF t
  <2>2. t.unit_devices = [s.unit_devices EXCEPT ![i] = <<x, o>>]
    BY <1>2, <2>1 DEF State
  <2>3. <<x, o>> \in (Unit \X Org) \cup {None}
    OBVIOUS
  <2>4. FactStep(s, t)
    BY <1>1, <1>2, <2>1, <2>2, <2>3
  <2> QED
    BY <2>t, <2>4
<1> QED
  BY <1>r, <1>4, <1>5

LEMMA DeviceStep ==
  ASSUME NEW s \in State
  PROVE  /\ \A d : SameFacts(s, UpsertUserDevice(s, d))
         /\ \A id : SameFacts(s, DeactivateDevice(s, id))
<1>1. ASSUME NEW d PROVE SameFacts(s, UpsertUserDevice(s, d))
  BY UserDeviceFrame DEF SameFacts
<1>2. ASSUME NEW id PROVE SameFacts(s, DeactivateDevice(s, id))
  BY DEF SameFacts, DeactivateDevice, State
<1> QED
  BY <1>1, <1>2

LEMMA EventStep ==
  ASSUME NEW s \in State, NEW p \in Payload
  PROVE  FactStep(s, ApplyEvent(s, p)) \/ SameFacts(s, ApplyEvent(s, p))
<1> DEFINE e == p.entity
           d == p.data
<1>1. CASE Outcome(p) # "Yes"
  BY <1>1 DEF ApplyEvent, SameFacts
<1>2. CASE Outcome(p) = "Yes" /\ p.event_type = "UPSERT"
  <2>1. e \in Entity /\ d \in DataOf(e) /\ ~LacksField(TRUE, e, d)
    BY <1>2, AppliedPayload
  <2>2. ApplyEvent(s, p) = Upsert(s, e, d)
    BY <1>2 DEF ApplyEvent
  <2> HIDE DEF e, d
  <2>3. FactStep(s, Upsert(s, e, d)) \/ SameFacts(s, Upsert(s, e, d))
    <3>1. CASE e = "user"
      <4>1. d.id \in User
        BY <2>1, <3>1 DEF DataOf, UserData
      <4> QED
        BY <3>1, <4>1, UserStep DEF Upsert
    <3>2. CASE e = "organization_user"
      <4>1. d.organization_id \in Org /\ d.user_id \in User
        BY <2>1, <3>2 DEF DataOf, MembershipData
      <4> QED
        BY <3>2, <4>1, MembershipStep DEF Upsert
    <3>3. CASE e = "user_unit"
      <4>1. d.organization_id \in Org /\ d.user_id \in User /\ d.unit_id \in Unit
        BY <2>1, <3>3 DEF DataOf, UserUnitData, LacksField
      <4> QED
        BY <3>3, <4>1, GrantStep DEF Upsert
    <3>4. CASE e = "unit_device"
      <4>1. d.device_id \in Imei /\ d.unit_id \in Unit /\ d.organization_id \in Org
        BY <2>1, <3>4 DEF DataOf, UnitDeviceData, LacksField
      <4> QED
        BY <3>4, <4>1, EquipmentStep DEF Upsert
    <3>5. CASE e = "user_device"
      BY <3>5, DeviceStep DEF Upsert
    <3> QED
      BY <2>1, <3>1, <3>2, <3>3, <3>4, <3>5 DEF Entity
  <2> QED
    BY <2>2, <2>3
<1>3. CASE Outcome(p) = "Yes" /\ p.event_type # "UPSERT"
  <2>1. e \in Entity /\ d \in DataOf(e)
    BY <1>3, AppliedPayload
  <2>2. ApplyEvent(s, p) = Delete(s, e, d)
    BY <1>3 DEF ApplyEvent
  <2> HIDE DEF e, d
  <2>3. FactStep(s, Delete(s, e, d)) \/ SameFacts(s, Delete(s, e, d))
    <3>1. CASE e = "user"
      <4>1. d.id \in User
        BY <2>1, <3>1 DEF DataOf, UserData
      <4> QED
        BY <3>1, <4>1, UserStep DEF Delete
    <3>2. CASE e = "organization_user"
      <4>1. d.organization_id \in Org /\ d.user_id \in User
        BY <2>1, <3>2 DEF DataOf, MembershipData
      <4> QED
        BY <3>2, <4>1, MembershipStep DEF Delete
    <3>3. CASE e = "user_unit"
      <4>1. d.user_id \in User /\ d.unit_id \in Unit
        BY <2>1, <3>3 DEF DataOf, UserUnitData
      <4> QED
        BY <3>3, <4>1, GrantStep DEF Delete
    <3>4. CASE e = "unit_device"
      <4>1. d.device_id \in Imei
        BY <2>1, <3>4 DEF DataOf, UnitDeviceData
      <4> QED
        BY <3>4, <4>1, EquipmentStep DEF Delete, DeleteUnitDevice
    <3>5. CASE e = "user_device"
      BY <3>5, DeviceStep DEF Delete
    <3> QED
      BY <2>1, <3>1, <3>2, <3>3, <3>4, <3>5 DEF Entity
  <2> QED
    BY <2>2, <2>3
<1> QED
  BY <1>1, <1>2, <1>3

LEMMA StepFacts ==
  ASSUME cp \in State, [Next]_cp
  PROVE  FactStep(cp, cp') \/ SameFacts(cp, cp')
<1>1. ASSUME NEW p \in Payload, Consume(p) PROVE FactStep(cp, cp') \/ SameFacts(cp, cp')
  BY <1>1, EventStep DEF Consume
<1>2. ASSUME NEW id \in DeviceId, DeactivateBySns(id) PROVE SameFacts(cp, cp')
  BY <1>2, DeviceStep DEF DeactivateBySns
<1>3. CASE UNCHANGED cp
  BY <1>3 DEF SameFacts
<1> QED
  BY <1>1, <1>2, <1>3 DEF Next

(***************************************************************************)
(* The answers of the cache are those AccessRule gives on the same facts.  *)
(***************************************************************************)
LEMMA ReceivesIsAccess ==
  \A o \in Org, u \in User, x \in Unit :
    cp \in State => (Rule!Receives(o, u, x) <=> Access(cp, o, u, x))
<1> SUFFICES ASSUME NEW o \in Org, NEW u \in User, NEW x \in Unit, cp \in State
             PROVE  Rule!Receives(o, u, x) <=> Access(cp, o, u, x)
  OBVIOUS
<1>1. Rule!Equipped(x, o) <=> EquipmentAt(cp, o, x) # {}
  BY DEF Rule!Equipped, EquipmentAt
<1>2. UserIsActive(cp, u) <=> u \notin {v \in User : cp.user_active[v] = "inactive"}
  BY DEF UserIsActive
<1> QED
  BY <1>1, <1>2 DEF Rule!Receives, Access, HasActiveMembership, Owner

LEMMA AnswersByRule == AtMostOneOrg /\ Inv => Rule!AnswersFollowRule
<1> SUFFICES ASSUME AtMostOneOrg, Inv PROVE Rule!AnswersFollowRule
  OBVIOUS
<1>t. cp \in State /\ RuleInv(cp)
  BY DEF Inv, TypeOK
<1>1. ASSUME NEW x \in Unit
      PROVE  UsersForUnit(cp, x) = {m \in Org \X User : Rule!Receives(m[1], m[2], x)}
  <2>1. UsersForUnit(cp, x) = {m \in Org \X User : Access(cp, m[1], m[2], x)}
    BY <1>t, RecipientsByRule
  <2>2. \A m \in Org \X User : Rule!Receives(m[1], m[2], x) <=> Access(cp, m[1], m[2], x)
    BY <1>t, ReceivesIsAccess
  <2> QED
    BY <2>1, <2>2
<1>2. ASSUME NEW m \in Org \X User
      PROVE  UnitsFor(cp, m[1], m[2]) = {x \in Unit : Rule!Receives(m[1], m[2], x)}
  <2>1. m[1] \in Org /\ m[2] \in User
    OBVIOUS
  <2>2. UnitsFor(cp, m[1], m[2]) = {x \in Unit : Access(cp, m[1], m[2], x)}
    BY <1>t, <2>1, SubscriptionsByRule
  <2>3. \A x \in Unit : Rule!Receives(m[1], m[2], x) <=> Access(cp, m[1], m[2], x)
    BY <1>t, <2>1, ReceivesIsAccess
  <2> QED
    BY <2>2, <2>3
<1> QED
  BY <1>1, <1>2 DEF Rule!AnswersFollowRule

LEMMA RuleInit == Init /\ Rule!AnswersFollowRule => Rule!Init
  BY DEF Init, EmptyState, Rule!Init

LEMMA RuleNext ==
  ASSUME cp \in State, [Next]_cp, Rule!AnswersFollowRule'
  PROVE  [Rule!Next]_Rule!vars
<1>1. CASE FactStep(cp, cp')
  <2>1. Rule!Next
    BY <1>1 DEF FactStep, Suspended, Membership, Rule!Next, Rule!SetUser,
                Rule!SetMembership, Rule!SetGrant, Rule!SetEquipment, Rule!Role
  <2> QED
    BY <2>1
<1>2. CASE SameFacts(cp, cp')
  <2>1. \A x \in Unit : UsersForUnit(cp', x) = UsersForUnit(cp, x)
    BY <1>2 DEF SameFacts, UsersForUnit, HasActiveMembership, UserIsActive, Owner
  <2>2. \A m \in Org \X User : UnitsFor(cp', m[1], m[2]) = UnitsFor(cp, m[1], m[2])
    BY <1>2 DEF SameFacts, UnitsFor, HasActiveMembership, UserIsActive, Owner
  <2>3. UNCHANGED Rule!vars
    BY <1>2, <2>1, <2>2 DEF SameFacts, Rule!vars, Rule!facts, Rule!answers
  <2> QED
    BY <2>3
<1> QED
  BY <1>1, <1>2, StepFacts

(***************************************************************************)
(* The cache implements the documented rule: as long as no unit changes    *)
(* organization, whatever messages come in whatever order, each changes at *)
(* most one fact, and both queries give at once the answers of the rule.   *)
(***************************************************************************)
THEOREM CacheImplementsRule == AtMostOneOrg => (Spec => ImplementsRule)
<1> SUFFICES ASSUME AtMostOneOrg PROVE Spec => ImplementsRule
  OBVIOUS
<1>1. Inv => cp \in State /\ Rule!AnswersFollowRule
  BY AnswersByRule DEF Inv, TypeOK
<1>2. Inv /\ [Next]_cp => Inv'
  BY NextInv
<1>3. Init /\ Rule!AnswersFollowRule => Rule!Init
  BY RuleInit
<1>4. cp \in State /\ [Next]_cp /\ Rule!AnswersFollowRule' => [Rule!Next]_Rule!vars
  BY RuleNext
<1> QED
  BY <1>1, <1>2, <1>3, <1>4, InitInv, PTL DEF Spec, ImplementsRule, Rule!Spec
=============================================================================
