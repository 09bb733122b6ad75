-------------------------- MODULE MCArchiveDelete --------------------------
(* Small instances of ArchiveDelete for TLC. *)
EXTENDS ArchiveDelete, TLC

Symmetry == Permutations(Computers)
=============================================================================
