--------------------------- MODULE MCSealedRecord ---------------------------
(* Instances of SealedRecord for TLC. *)
EXTENDS SealedRecord
=============================================================================
