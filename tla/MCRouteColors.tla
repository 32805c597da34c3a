---------------------------- MODULE MCRouteColors ----------------------------
(* Model values for checking RouteColors.  No symmetry: it is unsound for the *)
(* liveness properties.                                                       *)
EXTENDS RouteColors

CONSTANTS routes1, routes2, bulk1, refresh, retry

MCRouteRequests == {routes1, routes2}
MCBulkRequests  == {bulk1}
=============================================================================
