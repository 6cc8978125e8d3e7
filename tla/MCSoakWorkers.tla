---------------------------- MODULE MCSoakWorkers ----------------------------
(***************************************************************************)
(* Instances of SoakWorkers.                                               *)
(***************************************************************************)
EXTENDS SoakWorkers
=============================================================================
