---------------------------- MODULE MCListQueues ----------------------------
(* Instances of ListQueues for TLC. *)
EXTENDS ListQueues
=============================================================================
