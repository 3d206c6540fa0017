-------------------------- MODULE MCSDSyncRequest --------------------------
(* Instances of SDSyncRequest for TLC. *)
EXTENDS SDSyncRequest
=============================================================================
