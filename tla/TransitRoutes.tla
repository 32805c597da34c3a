----------------------------- MODULE TransitRoutes -----------------------------
(* The routes the page's modules are about, their systems and directions.      *)

CONSTANTS
  Routes,
  CmuRoutes,    \* the routes of the CMU system; the others are PRT's
  DirectionsOf, \* the directions each route has
  NoRoute

Directions == {"INBOUND", "OUTBOUND"}

ASSUME RoutesAssumption ==
  /\ CmuRoutes \subseteq Routes
  /\ NoRoute \notin Routes
  /\ DirectionsOf \in [Routes -> (SUBSET Directions) \ {{}}]

Systems     == {"PRT", "CMU"}
SystemOf(r) == IF r \in CmuRoutes THEN "CMU" ELSE "PRT"
PrtRoutes   == Routes \ CmuRoutes
=============================================================================
