---------------------------- MODULE MCCoreLayer ----------------------------
(***************************************************************************)
(* Instances of CoreLayer for TLC: one client, one neighbour, and chunks   *)
(* of which one is owned by the attached repository.                       *)
(***************************************************************************)
EXTENDS CoreLayer
=============================================================================
