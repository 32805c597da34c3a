SPECIFICATION Spec
CONSTANTS
  r1 = r1
  r2 = r2
  c1 = c1
  s1 = s1
  s2 = s2
  s3 = s3
  s4 = s4
  wk = wk
  sp = sp
  t1 = t1
  t2 = t2
  t3 = t3
  v1 = v1
  v2 = v2
  NaN = NaN
  Routes <- MCRoutes
  Stops <- MCStops
  Services <- MCServices
  Trips <- MCTrips
  TripRoute <- MCTripRoute
  TripDirection <- MCTripDirection
  TripService <- MCTripService
  Dates <- MCDates
  Weekday <- MCWeekday
  Feeds <- MCFeeds
  Words <- MCWords
  StopWords <- MCStopWords
  Queries <- MCQueries
  AliasOf <- MCAliasOf
  PartOf <- MCPartOf
  NameOf <- MCNameOf
  StopNameOf <- MCStopNameOf
  RouteList <- MCRouteList
  StopList <- MCStopList
  ShuttleList <- MCShuttleList
  StopRows <- MCStopRows
  NameRank <- MCNameRank
  Vids <- MCVids
  LiveVehicles <- MCLiveVehicles
  Alerts <- MCAlerts
  IdOf <- MCIdOf
  Notifications <- MCNotifications
  Caps <- MCCaps
  DayLength = 4
  MaxNotifications = 2
INVARIANTS TypeOK LoadedScheduleIsTrue ScheduleAnswersAgree SearchesAgree
