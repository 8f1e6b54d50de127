----------------------------- MODULE MCWsHeartbeat -----------------------------
(***************************************************************************)
(* WsHeartbeat with the constants of each .cfg; its states are finite as   *)
(* they are, because elapsed time saturates at Horizon.                    *)
(***************************************************************************)
EXTENDS WsHeartbeat
=============================================================================
