----------------------------- MODULE MCListings -----------------------------
(* Small instances of Listings. *)
EXTENDS Listings

MCTables == {"incidents", "incident_events"}
==============================================================================
