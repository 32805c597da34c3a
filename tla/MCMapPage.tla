------------------------------ MODULE MCMapPage ------------------------------
(* Model values for checking MapPage: a bidirectional route of PRT, a loop of  *)
(* CMU and two operations at a time.                                           *)
EXTENDS MapPage

CONSTANTS p1, c1, a1, a2

MCRoutes       == {p1, c1}
MCCmuRoutes    == {c1}
MCDirectionsOf == [r \in MCRoutes |-> IF r = c1 THEN {"OUTBOUND"} ELSE Directions]
MCFlows        == {a1, a2}
=============================================================================
