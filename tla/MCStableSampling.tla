-------------------------- MODULE MCStableSampling --------------------------
(***************************************************************************)
(* Instances of StableSampling for TLC.                                    *)
(***************************************************************************)
EXTENDS StableSampling
=============================================================================
