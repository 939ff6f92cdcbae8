----------------------------- MODULE MCE1Memory -----------------------------
(* Four PCBs (task[0] among the free ones) and frames for one child and a half. *)
EXTENDS E1Memory
=============================================================================
