---------------------------- MODULE MCZeosStats ----------------------------
(* Instances of ZeosStats for TLC. *)
EXTENDS ZeosStats
=============================================================================
