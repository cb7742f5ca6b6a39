---------------------------- MODULE MCVenueClient ----------------------------
(* Small instances of VenueClient for TLC. *)
EXTENDS VenueClient, TLC

CONSTANTS c1, c2
=============================================================================
