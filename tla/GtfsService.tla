------------------------------ MODULE GtfsService ------------------------------
(***************************************************************************)
(* GTFSService: the schedule of PRT, loaded once when the server starts    *)
(* and asked by the transit controllers.  load() downloads the feed,       *)
(* parses the small files in one go and streams stop_times.txt, the output *)
(* of an `unzip` process, through a parser.  Requests are served meanwhile. *)
(*                                                                         *)
(* Times are numbers from midnight of the service day and may lie past its *)
(* end (25:10 is ten past one of the next morning).                        *)
(***************************************************************************)
EXTENDS Integers, FiniteSets, FiniteSetsExt

CONSTANTS
  Routes, Stops, Services, Trips,
  TripRoute, TripDirection, TripService,  \* trips.txt, as functions on Trips
  Dates,      \* consecutive calendar dates, an interval
  Weekday,    \* the day of the week of each date
  DayLength,  \* minutes of a day
  NaN,        \* what timeToMinutes makes of an empty departure_time
  Feeds       \* what the files that vary may say: stop times and calendars

Weekdays == 0..6

ASSUME GtfsAssumption ==
  /\ TripRoute \in [Trips -> Routes]
  /\ TripDirection \in [Trips -> {"INBOUND", "OUTBOUND"}]
  /\ TripService \in [Trips -> Services]
  /\ Dates \subseteq Int /\ DayLength \in Nat \ {0} /\ NaN \notin Int

\* What the GTFS reference asks of a feed: its files name each other's ids.  A row may
\* have no time, also the one that comes first.
ASSUME FeedsAssumption ==
  \A f \in Feeds :
    /\ IsFiniteSet(f.rows) /\ f.rows \subseteq [trip : Trips, time : Nat \cup {NaN}, stop : Stops]
    /\ f.calendar \in [Services -> [days : SUBSET Weekdays, start : Int, end : Int]]

VARIABLES
  feed,                 \* the feed that is published: rows, calendar, added, removed
  stage,                \* how far load() came
  parsed,               \* how many of the small files are in the maps
  unread,               \* rows of stop_times.txt the parser has not handled
  unzip,                \* the process: running, complete, broken, or its exit was handled
  operatingDays, tripTimeRange,
  stopIds,              \* routeDirStopIds, local to the stream
  routeDirectionStops   \* what resolveStopIds published

gtfsVars == <<feed, stage, parsed, unread, unzip, operatingDays, tripTimeRange,
              stopIds, routeDirectionStops>>

Clock == 0..(DayLength - 1)

\* A comparison with NaN is false.
Below(m, n) == m # NaN /\ n # NaN /\ m < n
Timed(range) == range.first # NaN

GtfsTypeOK ==
  /\ feed \in Feeds
  /\ stage \in {"idle", "downloading", "streaming", "failed", "loaded"}
  /\ parsed \in 0..5
  /\ unread \subseteq feed.rows
  /\ unzip \in {"none", "running", "complete", "broken"}
  /\ operatingDays \in [Routes -> SUBSET Weekdays]
  /\ DOMAIN tripTimeRange \subseteq Trips
  /\ \A t \in DOMAIN tripTimeRange : LET range == tripTimeRange[t] IN
       IF Timed(range) THEN range.first <= range.last ELSE range.last = NaN
  /\ routeDirectionStops \subseteq Routes \X {"INBOUND", "OUTBOUND"} \X Stops

GtfsInit ==
  /\ feed \in Feeds
  /\ stage = "idle" /\ parsed = 0 /\ unread = {} /\ unzip = "none"
  /\ operatingDays = [r \in Routes |-> {}]
  /\ tripTimeRange = [t \in {} |-> [first |-> 0, last |-> 0]]
  /\ stopIds = {} /\ routeDirectionStops = {}

-----------------------------------------------------------------------------
(* The maps.  routes.txt, stops.txt, shapes.txt, trips.txt and the two     *)
(* calendar files are parsed in this order.                                *)

RouteMap   == IF parsed >= 1 THEN Routes ELSE {}
StopMap    == IF parsed >= 2 THEN Stops ELSE {}
KnownTrips == IF parsed >= 4 THEN Trips ELSE {}

IsLoaded == stage = "loaded"

\* Mutant: only the days that all services of a route have in common.
OperatingDaysCommon(calendar) ==
  [r \in Routes |->
     {w \in Weekdays : \A t \in Trips : TripRoute[t] = r => w \in calendar[TripService[t]].days}]

\* computeOperatingDays: calendar.txt only, whatever its dates are.
ComputeOperatingDays(calendar) ==
  [r \in Routes |->
     UNION {calendar[TripService[t]].days : t \in {u \in Trips : TripRoute[u] = r}}]

\* load, downloadFeed
Load ==
  /\ stage = "idle"
  /\ stage' = "downloading"
  /\ UNCHANGED <<feed, parsed, unread, unzip, operatingDays, tripTimeRange, stopIds, routeDirectionStops>>

DownloadFails ==
  /\ stage = "downloading"
  /\ stage' = "failed"
  /\ UNCHANGED <<feed, parsed, unread, unzip, operatingDays, tripTimeRange, stopIds, routeDirectionStops>>

\* parseStaticFiles throws at a missing file: what was parsed before it stays.
ParseFails ==
  /\ stage = "downloading"
  /\ stage' = "failed"
  /\ parsed' \in 0..4
  /\ UNCHANGED <<feed, unread, unzip, operatingDays, tripTimeRange, stopIds, routeDirectionStops>>

\* parseStaticFiles and computeOperatingDays, up to the wait of streamStopTimes.
ParseStaticFiles ==
  /\ stage = "downloading"
  /\ stage' = "streaming"
  /\ parsed' = 5
  /\ operatingDays' = ComputeOperatingDays(feed.calendar)
  /\ unread' = feed.rows /\ unzip' = "running"
  /\ UNCHANGED <<feed, tripTimeRange, stopIds, routeDirectionStops>>

\* Mutant: the first row of a trip is taken for its earliest one.
WidenedLastOnly(range, m) ==
  [range EXCEPT !.last = IF Below(@, m) THEN m ELSE @]

\* Mutant: the time of day, so that the last trip may end before it starts.
WidenedWrapped(range, m) ==
  [first |-> IF Below(m, range.first) THEN m ELSE range.first,
   last  |-> IF m = NaN THEN range.last ELSE m % DayLength]

\* A range that began as NaN stays so.
Widened(range, m) ==
  [first |-> IF Below(m, range.first) THEN m ELSE range.first,
   last  |-> IF Below(range.last, m) THEN m ELSE range.last]

\* The parser hands over a row.  Nothing is assumed of the order of the file.
ReadRow(row) ==
  /\ stage = "streaming" /\ row \in unread
  /\ unread' = unread \ {row}
  /\ tripTimeRange' =
       [t \in DOMAIN tripTimeRange \cup {row.trip} |->
          IF t # row.trip THEN tripTimeRange[t]
          ELSE IF t \in DOMAIN tripTimeRange THEN Widened(tripTimeRange[t], row.time)
          ELSE [first |-> row.time, last |-> row.time]]
  /\ stopIds' = stopIds \cup {<<TripRoute[row.trip], TripDirection[row.trip], row.stop>>}
  /\ UNCHANGED <<feed, stage, parsed, unzip, operatingDays, routeDirectionStops>>

\* The process ends well, or it breaks and the rows left never arrive.
UnzipEnds ==
  /\ stage = "streaming" /\ unzip = "running"
  /\ unzip' \in {"complete", "broken"}
  /\ UNCHANGED <<feed, stage, parsed, unread, operatingDays, tripTimeRange, stopIds, routeDirectionStops>>

\* 'close' with another code than 0, or an error of the process or the parser.
StreamFails ==
  /\ stage = "streaming" /\ unzip = "broken"
  /\ stage' = "failed"
  /\ UNCHANGED <<feed, parsed, unread, unzip, operatingDays, tripTimeRange, stopIds, routeDirectionStops>>

\* 'end' of the parser: its input is used up, also when the process broke and its
\* exit code is not known yet.  Then resolveStopIds, and the end of load().
ParserEnds ==
  /\ stage = "streaming"
  /\ \/ unzip = "complete" /\ unread = {}
     \/ unzip = "broken"
  /\ stage' = "loaded"
  /\ routeDirectionStops' = {k \in stopIds : k[3] \in StopMap}
  /\ UNCHANGED <<feed, parsed, unread, unzip, operatingDays, tripTimeRange, stopIds>>

GtfsNext ==
  \/ Load \/ DownloadFails \/ ParseFails \/ ParseStaticFiles
  \/ \E row \in unread : ReadRow(row)
  \/ UnzipEnds \/ StreamFails \/ ParserEnds

-----------------------------------------------------------------------------
(* The public API.  The getters answer from the maps at any time.          *)

GetStopsByDirection(r, dir) == {s \in Stops : <<r, dir, s>> \in routeDirectionStops}

GetStops(r) == UNION {GetStopsByDirection(r, dir) : dir \in {"INBOUND", "OUTBOUND"}}
GetAllStops == [s \in StopMap |-> {r \in Routes : s \in GetStops(r)}]

GetActiveServiceIds(d) ==
  ({s \in Services : /\ d \in feed.calendar[s].start..feed.calendar[s].end
                     /\ Weekday[d] \in feed.calendar[s].days}
   \cup {s \in Services : <<d, s>> \in feed.added})
  \ {s \in Services : <<d, s>> \in feed.removed}

RoutesOf(trips) == {TripRoute[t] : t \in trips} \cap RouteMap

FilterRoutesByDate(d) ==
  RoutesOf({t \in KnownTrips : TripService[t] \in GetActiveServiceIds(d)})

FilterRoutesByDateTime(d, time) ==
  RoutesOf({t \in DOMAIN tripTimeRange :
              /\ Timed(tripTimeRange[t])
              /\ tripTimeRange[t].first <= time /\ time <= tripTimeRange[t].last
              /\ TripService[t] \in GetActiveServiceIds(d)})

TripsOfDirection(r, dir) ==
  {t \in DOMAIN tripTimeRange : TripRoute[t] = r /\ TripDirection[t] = dir}

\* The times of getRouteSchedule are printed as times of a day; one NaN makes them NaN.
GetRouteSchedule(r) ==
  [dir \in {d \in {"INBOUND", "OUTBOUND"} : TripsOfDirection(r, d) # {}} |->
     IF \E t \in TripsOfDirection(r, dir) : ~Timed(tripTimeRange[t])
     THEN [firstTrip |-> NaN, lastTrip |-> NaN]
     ELSE [firstTrip |-> Min({tripTimeRange[t].first : t \in TripsOfDirection(r, dir)}) % DayLength,
           lastTrip  |-> Max({tripTimeRange[t].last : t \in TripsOfDirection(r, dir)}) % DayLength]]

-----------------------------------------------------------------------------
(* What the feed says, read as a whole and in absolute time.               *)

RowsOfTrip(t) == {row \in feed.rows : row.trip = t}

TimesOfTrip(t) == {row.time : row \in RowsOfTrip(t)} \ {NaN}
Untimed(t) == \E row \in RowsOfTrip(t) : row.time = NaN

\* An exception for the date overrides the calendar.
ServiceRuns(s, d) ==
  LET cal == feed.calendar[s] IN
  IF <<d, s>> \in feed.removed \cup feed.added THEN <<d, s>> \notin feed.removed
  ELSE cal.start <= d /\ d <= cal.end /\ Weekday[d] \in cal.days

\* Trip t is between its first and its last departure at time of date d; it may
\* have left the day before.
Running(t, d, time) ==
  TimesOfTrip(t) # {} /\ \E day \in Dates :
    /\ ServiceRuns(TripService[t], day)
    /\ Min(TimesOfTrip(t)) <= (d - day) * DayLength + time
    /\ (d - day) * DayLength + time <= Max(TimesOfTrip(t))

\* A schedule that loaded from a complete stream has of every trip the earliest
\* and the latest departure and of every direction the stops, in whatever order
\* the rows came: readable events interleave with the exit of the process.  Only a row
\* without a time may leave its trip without a range.
LoadedMatchesFeed ==
  IsLoaded /\ unzip = "complete" =>
    /\ \A t \in Trips : RowsOfTrip(t) # {} =>
         /\ t \in DOMAIN tripTimeRange
         /\ \/ Untimed(t) /\ ~Timed(tripTimeRange[t])
            \/ tripTimeRange[t] = [first |-> Min(TimesOfTrip(t)), last |-> Max(TimesOfTrip(t))]
    /\ routeDirectionStops =
         {<<TripRoute[row.trip], TripDirection[row.trip], row.stop>> : row \in feed.rows}
    /\ \A s \in Stops :
         GetAllStops[s] = {TripRoute[row.trip] : row \in {x \in feed.rows : x.stop = s}}

\* filterRoutesByDateTime never names a route on which nothing runs at that
\* moment, also when the schedule was truncated; from a complete schedule it
\* misses a route only when what runs there left on an earlier date or has a row
\* without a time.
RunningRoutesRun ==
  IsLoaded => \A d \in Dates, time \in Clock :
    LET running == {t \in Trips : Running(t, d, time)}
    IN /\ FilterRoutesByDateTime(d, time) \subseteq RoutesOf(running)
       /\ unzip = "complete" =>
            \A t \in running :
              \/ Untimed(t) \/ TripRoute[t] \in FilterRoutesByDateTime(d, time)
              \/ \A day \in Dates : ServiceRuns(TripService[t], day) =>
                   (d # day \/ time < Min(TimesOfTrip(t)) \/ Max(TimesOfTrip(t)) < time)

\* A schedule that is loaded is true: it holds what the feed says, and what it says
\* is running now is running.
LoadedScheduleIsTrue == LoadedMatchesFeed /\ RunningRoutesRun

\* The three endpoints that say when a route runs read different maps and agree: a
\* route that runs now runs today; a route that runs today has the weekday among
\* its operating days, unless a service was added for just this date; and now lies
\* between the first and the last trip of one of its directions, unless a trip of
\* the route goes on past midnight, where the last time of day is before the first, or
\* has no times, which takes them from its whole direction.
ScheduleAnswersAgree ==
  IsLoaded => \A d \in Dates :
    /\ \A r \in FilterRoutesByDate(d) :
         \/ Weekday[d] \in operatingDays[r]
         \/ \E t \in Trips : TripRoute[t] = r /\ <<d, TripService[t]>> \in feed.added
    /\ \A time \in Clock : \A r \in FilterRoutesByDateTime(d, time) :
         /\ r \in FilterRoutesByDate(d)
         /\ \/ \E t \in DOMAIN tripTimeRange :
                 TripRoute[t] = r /\ (Timed(tripTimeRange[t]) => tripTimeRange[t].last >= DayLength)
            \/ \E dir \in DOMAIN GetRouteSchedule(r) :
                 /\ GetRouteSchedule(r)[dir].firstTrip # NaN
                 /\ GetRouteSchedule(r)[dir].firstTrip <= time
                 /\ time <= GetRouteSchedule(r)[dir].lastTrip
=============================================================================
