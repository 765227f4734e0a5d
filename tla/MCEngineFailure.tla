--------------------------- MODULE MCEngineFailure ---------------------------
(***************************************************************************)
(* Instances of EngineFailure for TLC.                                     *)
(***************************************************************************)
EXTENDS EngineFailure
=============================================================================
