-------------------------- MODULE MCLiveSubscriptions --------------------------
(* Two routes, and room for one subscription; the map page finds no socket server. *)
EXTENDS LiveSubscriptions

CONSTANTS r61, r71

MCRoutes == {r61, r71}
MCOnline == {"list"}
=============================================================================
