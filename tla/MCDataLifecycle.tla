--------------------------- MODULE MCDataLifecycle ---------------------------
(***************************************************************************)
(* Instances of DataLifecycle.                                             *)
(***************************************************************************)
EXTENDS DataLifecycle
=============================================================================
