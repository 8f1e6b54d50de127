------------------------------ MODULE AccessRule ------------------------------
(***************************************************************************)
(* What the read model promises, without its indexes: the rule of          *)
(* docs/eventos-de-control.md.  For a unit with equipment of organization  *)
(* o, its alerts go to every active owner of o, and to every other active  *)
(* member of o to whom the unit is granted.  Whoever the rule names also   *)
(* sees the unit when they connect with that membership.                   *)
(*                                                                         *)
(* The facts are the rows of the control plane; each step changes one of   *)
(* them, and the answers follow at once.                                   *)
(***************************************************************************)
EXTENDS Naturals

CONSTANTS Org, User, Unit, Imei, None

VARIABLES
  suspended,     \* users known not to be active
  members,       \* <<org, user>> -> role and status, or None
  grants,        \* <<user, unit>> -> organization of the grant, or None
  equipment,     \* imei -> <<unit, org>>, or None
  recipients,    \* unit -> who receives its alerts: pairs <<org, user>>
  subscriptions  \* <<org, user>> -> units this membership watches

facts   == <<suspended, members, grants, equipment>>
answers == <<recipients, subscriptions>>
vars    == <<facts, answers>>

Role == [owner : BOOLEAN, active : BOOLEAN]

Equipped(x, o) == \E i \in Imei : equipment[i] = <<x, o>>

Receives(o, u, x) ==
  /\ Equipped(x, o)
  /\ members[<<o, u>>] # None
  /\ members[<<o, u>>].active
  /\ u \notin suspended
  /\ members[<<o, u>>].owner \/ grants[<<u, x>>] = o

AnswersFollowRule ==
  /\ recipients = [x \in Unit |-> {m \in Org \X User : Receives(m[1], m[2], x)}]
  /\ subscriptions = [m \in Org \X User |-> {x \in Unit : Receives(m[1], m[2], x)}]

Init ==
  /\ suspended = {}
  /\ members = [m \in Org \X User |-> None]
  /\ grants = [g \in User \X Unit |-> None]
  /\ equipment = [i \in Imei |-> None]
  /\ AnswersFollowRule

SetUser(u) ==
  /\ \/ suspended' = suspended \cup {u}
     \/ suspended' = suspended \ {u}
  /\ UNCHANGED <<members, grants, equipment>>

SetMembership(m) ==
  /\ \E r \in Role \cup {None} : members' = [members EXCEPT ![m] = r]
  /\ UNCHANGED <<suspended, grants, equipment>>

SetGrant(g) ==
  /\ \E o \in Org \cup {None} : grants' = [grants EXCEPT ![g] = o]
  /\ UNCHANGED <<suspended, members, equipment>>

SetEquipment(i) ==
  /\ \E e \in (Unit \X Org) \cup {None} : equipment' = [equipment EXCEPT ![i] = e]
  /\ UNCHANGED <<suspended, members, grants>>

Next ==
  /\ \/ \E u \in User : SetUser(u)
     \/ \E m \in Org \X User : SetMembership(m)
     \/ \E g \in User \X Unit : SetGrant(g)
     \/ \E i \in Imei : SetEquipment(i)
  /\ AnswersFollowRule'

Spec == Init /\ [][Next]_vars
=============================================================================
