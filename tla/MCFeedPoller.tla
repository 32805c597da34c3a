----------------------------- MODULE MCFeedPoller -----------------------------
(* Model values for checking FeedPoller and TripShot: a second slot lets       *)
(* fetches overlap if the flags allow it; the feed tells the evening of the    *)
(* day on which Eastern time changes (at hour 55) and the night after it.      *)
EXTENDS TripShot

CONSTANTS f1, f2, s1, s2, v1, v2, missing

MCFlights == {f1, f2}

MCUuidOf     == "A" :> "a" @@ "a" :> "a" @@ "B" :> "b" @@ "b" :> "b" @@ "x" :> "x"
MCStops      == {s1, s2}
MCCmuRoutes  == <<"CMU-1", "CMU-2", "CMU-3">>
MCRouteIdOf  == "CMU-1" :> "A" @@ "CMU-2" :> "B" @@ "CMU-3" :> "A"
MCTimetabled == {"CMU-1"}
MCOffset     == [t \in 12..120 |-> IF t < 55 THEN -5 ELSE -4]

Due(stop, expected) == [stop |-> stop, expected |-> expected, departure |-> missing, at |-> missing]
At(stop, at, departure) == [stop |-> stop, expected |-> missing, departure |-> departure, at |-> at]
Ride(route, state, vehicle, start, end, awaiting) ==
  [route |-> route, state |-> state, vehicle |-> vehicle, start |-> start, end |-> end,
   awaiting |-> awaiting]

\* An active ride whose bus has a position and one whose bus has none; a ride of the
\* same evening, one after midnight of the next day and one of the morning on which
\* the offset changed, for a bus that is under way; a route that is no CMU route;
\* times that are missing.
MCFeed ==
  << [rides |-> << Ride("a", "Active", v1, 72, 77, {Due(s1, 74), Due(s2, missing)}),
                   Ride("A", "Scheduled", missing, 73, 79, {At(s1, 22, missing), At(s2, 4, 75)}),
                   Ride("b", "Active", v2, missing, 77, {Due(s1, 75)}),
                   Ride("b", "Scheduled", missing, 76, 77, {At(s1, 0, missing), At(s2, 1, missing)}) >>,
      liveDataAvailable |-> v1 :> TRUE @@ v2 :> FALSE],
     [rides |-> << Ride("a", "Completed", v1, 72, 77, {}),
                   Ride("B", "Active", v2, 72, 77, {Due(s1, 72), Due(s2, 76)}),
                   Ride("b", "Scheduled", missing, missing, 77, {At(s1, 7, missing)}),
                   Ride("x", "Active", v1, 73, 75, {Due(s1, 75)}),
                   Ride("b", "Scheduled", v2, 54, 56,
                        {At(s1, 3, missing), [Due(s1, 76) EXCEPT !.at = 20]}) >>,
      liveDataAvailable |-> v1 :> TRUE @@ v2 :> TRUE],
     [rides |-> << Ride("A", "Active", v2, 74, 77, {Due(s2, 75)}) >>,
      liveDataAvailable |-> v1 :> TRUE] >>
=============================================================================
