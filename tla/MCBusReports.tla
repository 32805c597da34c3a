----------------------------- MODULE MCBusReports -----------------------------
(* Model values and symmetry for checking BusReports. *)
EXTENDS BusReports, TLC

CONSTANTS bus1, routeA, routeB, crowdedness, condition, x, y, none, r1, r2

MCVids     == {bus1}
MCRouteIds == {routeA, routeB}
MCFields   == {crowdedness, condition}
MCValues   == {x, y}
MCRequests == {r1, r2}

Symmetry == Permutations(MCRouteIds) \cup Permutations(MCFields)
              \cup Permutations(MCValues) \cup Permutations(MCRequests)
=============================================================================
