------------------------------- MODULE MCBoot -------------------------------
(* Four kernels, PCBs as shipped (10), memory and pages scaled down. *)
EXTENDS Boot
=============================================================================
