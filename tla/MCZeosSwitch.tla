---------------------------- MODULE MCZeosSwitch ----------------------------
(* Instances of ZeosSwitch for TLC. *)
EXTENDS ZeosSwitch
=============================================================================
