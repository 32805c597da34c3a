SPECIFICATION ReportsSpec
CONSTANTS
  bus1 = bus1
  routeA = routeA
  routeB = routeB
  crowdedness = crowdedness
  condition = condition
  x = x
  y = y
  none = none
  r1 = r1
  r2 = r2
  Vids <- MCVids
  RouteIds <- MCRouteIds
  Fields <- MCFields
  Values <- MCValues
  Skipped <- none
  Requests <- MCRequests
SYMMETRY Symmetry
INVARIANTS ReportsTypeOK RoomsHearOnlyNews RoomsKnowTheStatus
