-------------------------- MODULE MCPersistJournal --------------------------
(* Instances of PersistJournal for TLC. *)
EXTENDS PersistJournal
=============================================================================
