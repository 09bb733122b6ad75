--------------------------- MODULE MCOpenArchive ---------------------------
(* Small instances of OpenArchive for TLC. *)
EXTENDS OpenArchive, TLC

Symmetry == Permutations(Requests)
=============================================================================
