------------------------- MODULE ControlPlaneHistory -------------------------
(***************************************************************************)
(* ControlPlaneSync with a memory of who the database ever made a          *)
(* recipient, to tell what the running cache may show on its way to being  *)
(* exact.                                                                  *)
(***************************************************************************)
EXTENDS ControlPlaneSync

VARIABLES
  ever,  \* <<org, user, unit>> that some committed database authorized
  torn   \* a write was committed between two queries of the snapshot

Authorized(s) ==
  {t \in Org \X User \X Unit : <<t[1], t[2]>> \in UsersForUnit(s, t[3])}

HInit == Init /\ ever = {} /\ torn = FALSE

HNext ==
  /\ Next
  /\ ever' = ever \cup Authorized(View')
  /\ torn' = (torn \/ (db' # db /\ phase = "loading" /\ loaded > 0))

HSpec == HInit /\ [][HNext]_<<vars, ever, torn>>

(***************************************************************************)
(* A process that loaded one consistent snapshot sends alerts only to      *)
(* people the database made recipients of the unit at some time: applying  *)
(* twice what was published around the snapshot "no hace daño"             *)
(* (src/kafka/control_plane.rs).                                           *)
(***************************************************************************)
OnlyEverAuthorized ==
  phase = "running" /\ ~torn => Authorized(cache) \subseteq ever
=============================================================================
