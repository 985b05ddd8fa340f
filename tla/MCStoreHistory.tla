---------------------------- MODULE MCStoreHistory ----------------------------
(* The instances of MCIncidentStore, with the history of one incident. *)
EXTENDS MCIncidentStore, StoreHistory
==============================================================================
