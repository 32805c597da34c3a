------------------------------- MODULE MCAlerts -------------------------------
(* Model values for checking Alerts.  No symmetry: it is unsound for the *)
(* liveness properties.                                                   *)
EXTENDS Alerts

CONSTANTS empty, detour, strike

MCFeeds == {empty, detour, strike}
=============================================================================
