------------------------ MODULE MCControlPlaneHistory ------------------------
(***************************************************************************)
(* ControlPlaneHistory on the instances of MCControlPlaneSync.             *)
(***************************************************************************)
EXTENDS ControlPlaneHistory, MCControlPlaneSync
=============================================================================
