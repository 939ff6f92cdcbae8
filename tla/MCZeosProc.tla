---------------------------- MODULE MCZeosProc ----------------------------
(* Instances of ZeosProc and of its refinement of ProcLife for TLC. *)
EXTENDS ZeosProcRefines
=============================================================================
