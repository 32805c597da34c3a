SPECIFICATION Spec
CONSTANTS
  p1 = p1
  c1 = c1
  a1 = a1
  a2 = a2
  NoRoute = NoRoute
  Routes <- MCRoutes
  CmuRoutes <- MCCmuRoutes
  DirectionsOf <- MCDirectionsOf
  Flows <- MCFlows
  MaxOperations = 3
  MaxRequests = 2
INVARIANTS TypeOK UndisturbedPageShowsTheChoice DirectionalStopsFollowTheSelection
PROPERTY VehiclesFollowThePoll
