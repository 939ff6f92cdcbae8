------------------------------ MODULE MCE1Proc ------------------------------
(* Instances of E1Proc for TLC. *)
EXTENDS E1Proc
=============================================================================
