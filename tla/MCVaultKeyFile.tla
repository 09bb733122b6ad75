--------------------------- MODULE MCVaultKeyFile ---------------------------
(* Small instances of VaultKeyFile for TLC. *)
EXTENDS VaultKeyFile, TLC

Symmetry == Permutations(Procs)
=============================================================================
