-------------------------------- MODULE TripShot --------------------------------
(***************************************************************************)
(* The CMU shuttles.  TripShotLiveStatusService is a poller that drops     *)
(* ticks; from each fetched body it builds an index of the vehicles and    *)
(* predictions, filtered by the clock at that time, and TripshotService    *)
(* answers requests from the index with the clock at theirs.  TripShot     *)
(* names routes by UUIDs, in whatever spelling; members by CMU ids.        *)
(*                                                                         *)
(* Times are hours of UTC since some midnight; a clock reading is an hour  *)
(* of Eastern time.                                                        *)
(***************************************************************************)
EXTENDS FeedPoller, Integers, FiniteSetsExt, SequencesExt

CONSTANTS
  UuidOf,     \* the lower-case UUID of each spelling of a route id
  Stops,
  CmuRoutes,  \* the CMU ids in the order of CMU_ROUTE_METADATA
  RouteIdOf,  \* the spelling of the TripShot id in the metadata of a CMU id
  Timetabled, \* the CMU ids with a timetable in the metadata
  Feed,       \* Feed[v] is the body of version v: its rides and vehicle statuses
  Offset,     \* what Eastern time is ahead of UTC, which changes twice a year
  DayLength, Grace,
  FirstNow, LastNow,  \* bound the clock
  Missing             \* a time or filter that is not given or does not parse

Times == DOMAIN Offset

ASSUME TripShotAssumption ==
  /\ FirstNow \in Times /\ LastNow \in Times /\ Grace \in Nat /\ DayLength \in Nat \ {0}
  /\ DOMAIN Feed = Versions
  /\ Times \subseteq Nat /\ Missing \notin Times

\* Eastern time is less than half a day from UTC.
ASSUME OffsetAssumption ==
  \A t \in Times : /\ Offset[t] \in Int
                  /\ -DayLength < 2 * Offset[t] /\ 2 * Offset[t] < DayLength

\* Every CMU route, and nothing else, has a TripShot id.
ASSUME MetadataAssumption ==
  /\ CmuRoutes \in Seq(STRING)
  /\ DOMAIN RouteIdOf = ToSet(CmuRoutes)
  /\ Missing \notin ToSet(CmuRoutes)
  /\ \A c \in ToSet(CmuRoutes) : RouteIdOf[c] # Missing

\* The routes of a body are TripShot's; a time of it is one or Missing.
ASSUME FeedAssumption ==
  \A v \in Versions : \A r \in ToSet(Feed[v].rides) :
    /\ r.route \notin ToSet(CmuRoutes)
    /\ r.start \in Times \cup {Missing}
    /\ \A a \in r.awaiting : a.expected \in Times \cup {Missing}

VARIABLES
  now,
  lastFetched  \* when the index was built; Missing before the first

tripshotVars == <<vars, now, lastFetched>>

-----------------------------------------------------------------------------
(* Times.  The formatter writes midnight as 24:00.                         *)

EasternHour(t) == (t + Offset[t]) % DayLength
EasternDate(t) == (t + Offset[t]) \div DayLength

GetEasternClock(t) == IF EasternHour(t) = 0 THEN DayLength ELSE EasternHour(t)

\* Mutant: the display across midnight is not corrected for.
OffsetUncorrected(diff) == diff

NormalizeDayBoundaryOffset(diff) ==
  IF 2 * diff > DayLength THEN diff - DayLength
  ELSE IF 2 * diff < -DayLength THEN diff + DayLength
  ELSE diff

\* The clock reading on the Eastern date of the ride, taken for UTC and then moved
\* by what Eastern time displays for it.
ParseScheduledAt(at, rideStart) ==
  IF Missing \in {at, rideStart} THEN Missing
  ELSE LET candidate == EasternDate(rideStart) * DayLength + at
       IN candidate + NormalizeDayBoundaryOffset(at - GetEasternClock(candidate))

Fresh(eta, t) == eta # Missing /\ eta >= t - Grace

-----------------------------------------------------------------------------
(* The index.  A ride is [route, state, vehicle, start, end, awaiting],     *)
(* where awaiting has its stop statuses of the kind Awaiting.               *)

NormalizeTsRouteId(routeId) == UuidOf[routeId]

IsTracked(feed, ride) ==
  /\ ride.state = "Active"
  /\ ride.vehicle \in DOMAIN feed.liveDataAvailable
  /\ feed.liveDataAvailable[ride.vehicle]

Prediction(stop, ride, vid, eta) ==
  [stopId |-> stop, routeId |-> ride.route, vid |-> vid, eta |-> eta]

RidePredictions(ride) ==
  {Prediction(a.stop, ride, ride.vehicle, a.expected) : a \in ride.awaiting}

ScheduledRidePredictions(ride) ==
  {Prediction(a.stop, ride, "Scheduled",
              IF a.departure # Missing THEN a.departure ELSE ParseScheduledAt(a.at, ride.start)) :
     a \in ride.awaiting}

\* The first and the last trip as clock readings, of the rides with readable times.
RouteSchedule(rides) ==
  [firstTrip |-> GetEasternClock(Min({r.start : r \in rides})),
   lastTrip  |-> GetEasternClock(Max({r.end : r \in rides}))]

\* A ride that is active without a position counts for its schedule only.
BuildIndex(feed, t) ==
  LET rides     == ToSet(feed.rides)
      tracked   == {r \in rides : IsTracked(feed, r)}
      scheduled == {r \in rides : r.state = "Scheduled"}
      timed     == {r \in rides : Missing \notin {r.start, r.end}}
      Of(u, rs) == {r \in rs : NormalizeTsRouteId(r.route) = u}
  IN [vehicles    |-> {[vid |-> r.vehicle, routeId |-> NormalizeTsRouteId(r.route)] : r \in tracked},
      predictions |-> {p \in UNION ({RidePredictions(r) : r \in tracked}
                                    \cup {ScheduledRidePredictions(r) : r \in scheduled}) :
                         Fresh(p.eta, t)},
      schedules   |-> [u \in {NormalizeTsRouteId(r.route) : r \in timed} |->
                         RouteSchedule(Of(u, timed))]]

\* The index of the GTFS pollers is another: nothing is served from it here.
Index ==
  IF data = 0 \/ remembersTicks
  THEN [vehicles |-> {}, predictions |-> {}, schedules |-> <<>>]
  ELSE BuildIndex(Feed[data], lastFetched)

GetVehiclesByTsRouteId(tsRouteId) ==
  {x \in Index.vehicles : x.routeId = NormalizeTsRouteId(tsRouteId)}

GetLivePredictions(stop) ==
  {p \in Index.predictions : p.stopId = stop /\ Fresh(p.eta, now)}

-----------------------------------------------------------------------------
(* TripshotService *)

\* The TripShot id of a CMU route; the code throws where this is Missing.
ExtractRouteIndex(c) == IF c \in DOMAIN RouteIdOf THEN RouteIdOf[c] ELSE Missing

FindCmuRouteIdByTripshotRouteId(tsRouteId) ==
  LET aliases == {i \in DOMAIN CmuRoutes :
                    NormalizeTsRouteId(RouteIdOf[CmuRoutes[i]]) = NormalizeTsRouteId(tsRouteId)}
  IN IF aliases = {} THEN tsRouteId ELSE CmuRoutes[Min(aliases)]

\* Of the request for the vehicles of a route: none for an id that is refused.
GetVehicles(c) ==
  IF ExtractRouteIndex(c) = Missing THEN {}
  ELSE {[x EXCEPT !.routeId = c] : x \in GetVehiclesByTsRouteId(ExtractRouteIndex(c))}

\* Mutant: the filter compares spellings.
AdmitsAsSpelled(filter, p) == ExtractRouteIndex(filter) \in {Missing, p.routeId}

\* A filter that is no known CMU route admits everything.
Admits(filter, p) ==
  \/ ExtractRouteIndex(filter) = Missing
  \/ NormalizeTsRouteId(p.routeId) = NormalizeTsRouteId(ExtractRouteIndex(filter))

\* With a CMU filter the answer carries its id, which matters for the aliases.
GetPredictions(stop, filter) ==
  {[p EXCEPT !.routeId = IF filter = Missing THEN FindCmuRouteIdByTripshotRouteId(p.routeId)
                         ELSE filter] :
     p \in {x \in GetLivePredictions(stop) : Admits(filter, x)}}

\* Missing stands for no schedule; a timetable is the same whatever the feed says.
GetRouteSchedule(c) ==
  LET u == NormalizeTsRouteId(RouteIdOf[c]) IN
  IF c \in Timetabled THEN "timetable"
  ELSE IF u \in DOMAIN Index.schedules THEN Index.schedules[u]
  ELSE Missing

-----------------------------------------------------------------------------
(* The poller with its clock *)

TripShotInit == Init /\ now = FirstNow /\ lastFetched = Missing

Pass ==
  /\ now < LastNow
  /\ now' = now + 1
  /\ UNCHANGED <<vars, lastFetched>>

\* A body that makes buildIndex throw is a failed fetch.
StoreIndex(f) ==
  /\ Store(f)
  /\ lastFetched' = now
  /\ UNCHANGED now

TripShotNext ==
  \/ /\ \/ Publish \/ ReachabilityChanges \/ Start \/ Tick \/ Stop
        \/ \E f \in Flights : Answer(f) \/ RecordFailure(f)
     /\ UNCHANGED <<now, lastFetched>>
  \/ \E f \in Flights : StoreIndex(f)
  \/ Pass

TripShotSpec == TripShotInit /\ [][TripShotNext]_tripshotVars /\ Fairness

-----------------------------------------------------------------------------
(* Properties *)

Cmu == ToSet(CmuRoutes)

Rides(c) ==
  IF data = 0 \/ remembersTicks THEN {}
  ELSE {r \in ToSet(Feed[data].rides) : UuidOf[r.route] = UuidOf[RouteIdOf[c]]}

RouteAnswersAgree(stop) ==
  \A c \in Cmu :
    LET found == GetPredictions(stop, c) IN
    /\ \A p \in found :
         /\ p.routeId = c /\ p.eta >= now - Grace
         /\ p.vid = "Scheduled" \/ \E x \in GetVehicles(c) : x.vid = p.vid
    /\ \A r \in Rides(c) : \A a \in r.awaiting :
         /\ r.state = "Active" /\ a.stop = stop /\ Fresh(a.expected, now)
         /\ \E x \in GetVehicles(c) : x.vid = r.vehicle
         => \E p \in found : p.vid = r.vehicle /\ p.eta = a.expected

StopAnswersAgree(stop) ==
  \A p \in GetPredictions(stop, Missing) : p.routeId \in Cmu =>
    /\ p \in GetPredictions(stop, p.routeId)
    /\ \A c \in Cmu : UuidOf[RouteIdOf[c]] = UuidOf[RouteIdOf[p.routeId]] =>
         [p EXCEPT !.routeId = c] \in GetPredictions(stop, c)

\* What a member sees of a shuttle fits together: a prediction for a route is not
\* over, its bus is on the map under that route, and every bus of the route that is
\* tracked and due at the stop is predicted there.  Asking for all routes at a stop
\* gives the predictions of each, under the first of the ids that share a UUID.
ShuttleAnswersAgree == \A stop \in Stops : RouteAnswersAgree(stop) /\ StopAnswersAgree(stop)

\* The instants at which the clock reads at on the Eastern date of the ride.
Instants(at, ride) ==
  {x \in Times : EasternDate(x) = EasternDate(ride.start) /\ EasternHour(x) = at}

\* The rides of a route with readable times.
Dated(c) == {r \in Rides(c) : Missing \notin {r.start, r.end}}

\* A scheduled ride is predicted for the very instants of its timetable, unless the
\* offset of Eastern time is another when the clock is read for the conversion.
RidesKeepTheirTimetable(c) ==
  \A r \in Dated(c) : \A a \in r.awaiting :
    r.state = "Scheduled" /\ a.departure = Missing /\ a.at # Missing =>
      \A x \in Instants(a.at, r) :
        /\ Offset[x] = Offset[EasternDate(r.start) * DayLength + a.at]
        /\ Fresh(x, now)
        => \E p \in GetPredictions(a.stop, c) : p.vid = "Scheduled" /\ p.eta = x

\* Where the schedule comes from the feed, its first trip is, read on the clock,
\* after no ride, as long as the rides share a date and an offset.
FirstTripIsFirst(c) ==
  /\ c \notin Timetabled
  /\ \A q, r \in Dated(c) : /\ EasternDate(q.start) = EasternDate(r.start)
                          /\ Offset[q.start] = Offset[r.start]
  => \A r \in Dated(c) : GetRouteSchedule(c).firstTrip % DayLength <= EasternHour(r.start)

\* The times of the shuttles survive the conversions between the clock and UTC.
ShuttlesKeepTheirTimetable == \A c \in Cmu : RidesKeepTheirTimetable(c) /\ FirstTripIsFirst(c)
=============================================================================
