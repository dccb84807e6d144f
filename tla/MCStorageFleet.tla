--------------------------- MODULE MCStorageFleet ---------------------------
(* StorageFleet for TLC. *)
EXTENDS StorageFleet
=============================================================================
