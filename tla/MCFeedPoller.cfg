SPECIFICATION TripShotSpec
CONSTANTS
  f1 = f1
  f2 = f2
  s1 = s1
  s2 = s2
  v1 = v1
  v2 = v2
  missing = missing
  Flights <- MCFlights
  MaxVersion = 3
  UuidOf <- MCUuidOf
  Stops <- MCStops
  CmuRoutes <- MCCmuRoutes
  RouteIdOf <- MCRouteIdOf
  Timetabled <- MCTimetabled
  Feed <- MCFeed
  Offset <- MCOffset
  DayLength = 24
  Grace = 1
  FirstNow = 73
  LastNow = 75
  Missing = missing
INVARIANTS TypeOK ShuttleAnswersAgree ShuttlesKeepTheirTimetable
PROPERTIES ImplementsFeedStore FollowsTheFeed
