-------------------------- MODULE MCWebSocketAlerts --------------------------
(***************************************************************************)
(* Small instances of WebSocketAlerts: connections of one person, named in *)
(* sub or in user_id; the third token names nobody in user_id.             *)
(***************************************************************************)
EXTENDS WebSocketAlerts, TLC

CONSTANTS c1, c2, c3, o1, u1

Keys == Org \X User

Bearer(id, subject) ==
  [prefix |-> "Bearer ",
   token  |-> [signed |-> TRUE, exp |-> "future", user_id |-> id, sub |-> subject,
               organization_id |-> o1]]

Tokens     == c1 :> Bearer(None, u1) @@ c2 :> Bearer(u1, NotUuid) @@ c3 :> Bearer(NotUuid, u1)
Headers    == [c \in Conn |-> Tokens[c]]
KeysOf     == [c \in Conn |-> <<o1, u1>>]
Everything == [k \in Keys |-> Unit]
=============================================================================
