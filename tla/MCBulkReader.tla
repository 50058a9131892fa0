---------------------------- MODULE MCBulkReader ----------------------------
(* BulkReader for TLC. *)
EXTENDS BulkReader
=============================================================================
