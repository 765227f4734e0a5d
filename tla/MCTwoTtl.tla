------------------------------ MODULE MCTwoTtl ------------------------------
(***************************************************************************)
(* Instances of TwoTtl for TLC: the chunks are interchangeable.            *)
(***************************************************************************)
EXTENDS TwoTtl, TLC

Symmetry == Permutations(Chunk)
=============================================================================
