------------------------------ MODULE MCMainLoop ------------------------------
(***************************************************************************)
(* A small instance of MainLoop: a control-plane topic that grows from one *)
(* partition to two, where the probe of one fits its interval and that of *)
(* two does not; an alert behind a message that does not parse, and one of *)
(* no unit, so that two offsets of a partition are committed.              *)
(***************************************************************************)
EXTENDS MainLoop, TLC

CONSTANTS q1

AlertsTopic == q1 :> <<"malformed", "alert", "alert of no unit">>
=============================================================================
