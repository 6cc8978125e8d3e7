------------------------------ MODULE MCSoakRun ------------------------------
(***************************************************************************)
(* Instances of SoakRun, with one background task: SoakRunProofs has the   *)
(* invariants for any set of them.                                         *)
(***************************************************************************)
EXTENDS SoakRun

CONSTANT t1

OneTask == {t1}
=============================================================================
