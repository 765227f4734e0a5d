--------------------------- MODULE MCContentStore ---------------------------
(***************************************************************************)
(* Instances of ContentStore for TLC: the chunks are interchangeable.      *)
(***************************************************************************)
EXTENDS ContentStore

Symmetry == Permutations(Chunk)
=============================================================================
