------------------------------- MODULE MCSearch -------------------------------
(* Model values for checking GtfsService and Search: three dates, the days of  *)
(* which have four hours, three trips of two routes, one of which runs past    *)
(* midnight, and texts of five words.                                          *)
EXTENDS Search

CONSTANTS r1, r2, c1, s1, s2, s3, s4, wk, sp, t1, t2, t3, v1, v2

MCRoutes   == {r1, r2}
MCStops    == {s1, s2}
MCServices == {wk, sp}
MCTrips    == {t1, t2, t3}
MCTripRoute     == t1 :> r1 @@ t2 :> r1 @@ t3 :> r2
MCTripDirection == t1 :> "INBOUND" @@ t2 :> "OUTBOUND" @@ t3 :> "INBOUND"
MCTripService   == t1 :> wk @@ t2 :> sp @@ t3 :> sp
MCDates    == 1..3
MCWeekday  == <<1, 2, 1>>

Row(t, time, s) == [trip |-> t, time |-> time, stop |-> s]
MCRows == {Row(t1, 0, s1), Row(t1, 2, s1), Row(t2, 3, s1), Row(t2, 5, s2), Row(t2, 6, s1), Row(t3, 1, s1)}

\* With the trip of t3 or with a row without a time, and with every combination of
\* exceptions for the second date.
MCFeeds ==
  {[rows |-> rows,
    calendar |-> wk :> [days |-> {1}, start |-> 1, end |-> 3]
              @@ sp :> [days |-> {1, 2}, start |-> 1, end |-> 2],
    added |-> added, removed |-> removed] :
     rows \in {MCRows, (MCRows \ {Row(t3, 1, s1)}) \cup {Row(t1, NaN, s2)}},
     added \in {{}, {<<2, wk>>}}, removed \in {{}, {<<2, sp>>}}}

MCWords     == {"the", "murray", "mur", "avenue", "ave", "late", "r1", "r2", "c1", "s1", "s2", "s3", "s4", "v1", "v2"}
MCStopWords == {"the"}
MCAliasOf   == [w \in MCWords |-> IF w = "avenue" THEN "ave" ELSE w]
MCPartOf    == {<<"mur", "murray">>, <<"ave", "avenue">>}
MCIdOf      == r1 :> "r1" @@ r2 :> "r2" @@ c1 :> "c1" @@ s3 :> "s3" @@ s4 :> "s4" @@ s1 :> "s1" @@ s2 :> "s2" @@ v1 :> "v1" @@ v2 :> "v2"
MCNameOf    == r1 :> <<"murray", "avenue">> @@ r2 :> <<"the", "murray">> @@ c1 :> <<"late", "murray">>
MCStopNameOf == s1 :> <<"murray", "ave">> @@ s2 :> <<"avenue">> @@ s3 :> <<"the", "avenue">> @@ s4 :> <<"murray">>
MCQueries   == {<<>>, <<"the">>, <<"mur">>, <<"late">>, <<"the", "late">>, <<"r1">>, <<"v1">>,
                <<"murray", "avenue">>}
MCAlerts    == <<[header |-> <<"r1">>, description |-> <<"mur">>, routes |-> {r1}], [header |-> <<"late", "murray">>, description |-> <<>>, routes |-> {r2}]>>
Report(r, v, text) == [routeId |-> r, vid |-> v, message |-> text]
MCNotifications == {Report(r1, v1, <<"late">>), Report(r1, v2, <<"murray", "late">>), Report(c1, v1, <<"r2">>)}
MCRouteList == <<r1, r2>>
MCStopList  == <<s1, s2>>
MCShuttleList == <<c1>>
MCNameRank == s3 :> 1 @@ s4 :> 2
MCStopRows == LET Call(s, n) == [route |-> c1, stop |-> s, order |-> n]
              IN <<Call(s3, 2), Call(s3, 0), Call(s4, 1), Call(s3, 4)>>
MCVids      == {v1, v2}
MCLiveVehicles == <<v1, v2>>
MCCaps == [results |-> 1, routes |-> 2, vehicles |-> 1, reports |-> 2, alerts |-> 1, total |-> 3]
=============================================================================
