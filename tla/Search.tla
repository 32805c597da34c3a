--------------------------------- MODULE Search ---------------------------------
(***************************************************************************)
(* Contextual search: one strategy per search box, each a filter over the  *)
(* schedule, the live vehicles, the recent notifications and the alerts.   *)
(* The schedule may be loading while it is searched and notifications come *)
(* and expire; the shuttles of CMU come from files that are always there.  *)
(*                                                                         *)
(* A text is a sequence of words.  What the code knows about the letters   *)
(* of words is three constants: which are stop words, which spelling an    *)
(* alias stands for and which word occurs within which.                    *)
(***************************************************************************)
EXTENDS GtfsService, CmuStaticData

CONSTANTS
  Words, StopWords, Queries,
  AliasOf,            \* TOKEN_ALIAS_MAP, the identity on other words
  PartOf,             \* pairs of words of which the first occurs in the second
  NameOf, StopNameOf, \* names of routes and stops, as texts
  RouteList, StopList, \* the routes and stops of the feed in the order of the files
  ShuttleList,        \* tripshotService.getRoutes()
  Vids, LiveVehicles, \* vehicles, and those on the road, a sequence
  Alerts,             \* the alerts service's list, of [header, description, routes]
  IdOf,               \* ids of routes, stops and vehicles as words
  Notifications,      \* what may be posted: [routeId, vid, message]
  MaxNotifications,   \* bounds the notifications of half an hour
  Caps                \* how many results of each kind: 5, and 4, 3, 2, 3 of 8 suggestions

ASSUME SearchAssumption ==
  /\ StopWords \subseteq Words /\ MaxNotifications \in Nat
  /\ PartOf \subseteq Words \X Words
  /\ Notifications \subseteq [routeId : Routes \cup ToSet(ShuttleList), vid : Vids,
                               message : Seq(Words)]
  /\ Queries \subseteq Seq(Words) /\ AliasOf \in [Words -> Words]
  /\ Caps \in [{"results", "routes", "vehicles", "reports", "alerts", "total"} -> Nat]

\* Routes of the feed and shuttles are told apart by their ids.
ASSUME ListsAssumption ==
  /\ RouteList \in Seq(Routes) /\ StopList \in Seq(Stops) /\ LiveVehicles \in Seq(Vids)
  /\ ShuttleList \in Seq(ToSet(ShuttleList)) /\ Routes \cap ToSet(ShuttleList) = {}
  /\ Alerts \in Seq([header : Seq(Words), description : Seq(Words), routes : SUBSET DOMAIN IdOf])

\* Ids have digits or are no English words: none is a stop word, in either spelling.
ASSUME NamesAssumption ==
  /\ Routes \cup ToSet(ShuttleList) \cup Stops \cup DOMAIN NameRank \cup Vids
       \subseteq DOMAIN IdOf
  /\ \A x \in DOMAIN IdOf : /\ IdOf[x] \in Words \ StopWords
                            /\ AliasOf[IdOf[x]] \notin StopWords
  /\ \A r \in Routes \cup ToSet(ShuttleList) : NameOf[r] \in Seq(Words)
  /\ \A s \in Stops \cup DOMAIN NameRank : StopNameOf[s] \in Seq(Words)

VARIABLE notifications  \* those of the last half hour, newest first

vars == <<gtfsVars, notifications>>

-----------------------------------------------------------------------------
(* search.utils *)

Within(w, v) == w = v \/ <<w, v>> \in PartOf

\* text.includes(query) for words joined by blanks.
Includes(text, query) ==
  \E i \in 0..(Len(text) - Len(query)) : \A k \in DOMAIN query : Within(query[k], text[i + k])

\* The meaningful words, none of which is null in the code.
FilterStopWords(query) == At(query, {i \in DOMAIN query : query[i] \notin StopWords})

ToSearchTokens(text) ==
  LET normal == [i \in DOMAIN text |-> AliasOf[text[i]]] IN FilterStopWords(normal)

MatchesAllQueryTokens(tokens, text) ==
  /\ tokens # <<>>
  /\ \A w \in ToSet(tokens) : \E v \in ToSet(ToSearchTokens(text)) : Within(w, v)

MatchesNotificationText(n, query) ==
  \/ Includes(n.message, query)
  \/ Includes(<<IdOf[n.routeId]>>, query)
  \/ Includes(<<IdOf[n.vid]>>, query)

-----------------------------------------------------------------------------
(* The strategies on the schedule.  TransitModel.getRoutes() gives the     *)
(* routes of the schedule, none before routes.txt is parsed.               *)

GetRoutes == At(RouteList, {i \in DOMAIN RouteList : RouteList[i] \in RouteMap})

GetAllSubscribableRoutes == GetRoutes \o ShuttleList

RoutesNamed(list, query) ==
  At(list, {i \in DOMAIN list : \/ Includes(<<IdOf[list[i]]>>, query)
                               \/ Includes(NameOf[list[i]], query)})

RouteSearch(query) ==
  LET filtered == FilterStopWords(query) IN
  IF filtered = <<>> THEN <<>> ELSE UpTo(Caps.results, RoutesNamed(GetRoutes, filtered))

GetShuttleStops(r, direction) ==
  IF direction = "INBOUND" THEN <<>> ELSE GetStopsForTripshotRoute(r)

\* The stops of all shuttles, each once.
ShuttleStops ==
  LET all == FlattenSeq([i \in DOMAIN ShuttleList |-> GetShuttleStops(ShuttleList[i], "ANY")])
  IN At(all, FirstsOf(all))

StopsInOrder == At(StopList, {i \in DOMAIN StopList : StopList[i] \in StopMap})

TransitSearch(query) ==
  LET tokens == ToSearchTokens(query)
      routes == GetAllSubscribableRoutes
      stops  == StopsInOrder \o ShuttleStops
      RouteText(r) == <<IdOf[r]>> \o NameOf[r]
      StopText(s)  == StopNameOf[s] \o <<IdOf[s]>>
  IN [routes |-> UpTo(Caps.results, At(routes,
                   {i \in DOMAIN routes : MatchesAllQueryTokens(tokens, RouteText(routes[i]))})),
      stops  |-> UpTo(Caps.results, At(stops,
                   {i \in DOMAIN stops : MatchesAllQueryTokens(tokens, StopText(stops[i]))}))]

-----------------------------------------------------------------------------
(* The strategies on notifications.  A criterion that is not given is the  *)
(* empty set of routes or vehicles, or the empty query.                    *)

\* Mutant: with a route and a bus, either is enough.
SearchNotificationsOr(rs, vs, q) ==
  At(notifications, {i \in DOMAIN notifications :
    /\ rs \cup vs = {} \/ notifications[i].routeId \in rs \/ notifications[i].vid \in vs
    /\ q = <<>> \/ Includes(notifications[i].message, q)})

\* NotificationModel.searchNotifications; q is compared with the message alone.
SearchNotifications(rs, vs, q) ==
  At(notifications, {i \in DOMAIN notifications :
    /\ rs = {} \/ notifications[i].routeId \in rs
    /\ vs = {} \/ notifications[i].vid \in vs
    /\ q = <<>> \/ Includes(notifications[i].message, q)})

\* NotificationSearchStrategyFactory.create and the strategy's search.  A query of
\* stop words finds nothing when it is alone and is dropped beside a route or bus.
NotificationSearch(rs, vs, q) ==
  IF rs \cup vs = {} /\ q # <<>> /\ FilterStopWords(q) = <<>> THEN <<>>
  ELSE SearchNotifications(rs, vs, FilterStopWords(q))

-----------------------------------------------------------------------------
(* NotificationAutocompleteStrategy *)

Suggestion(type, label, of) == [type |-> type, label |-> label, of |-> of]

MatchingReports(query) ==
  At(notifications,
     {i \in DOMAIN notifications : MatchesNotificationText(notifications[i], query)})

MatchingAlerts(query) ==
  At(Alerts, {i \in DOMAIN Alerts :
    \/ Includes(Alerts[i].header, query) \/ Includes(Alerts[i].description, query)
    \/ \E r \in Alerts[i].routes : Includes(<<IdOf[r]>>, query)})

LiveVehiclesNamed(query) ==
  At(LiveVehicles, {i \in DOMAIN LiveVehicles : Includes(<<IdOf[LiveVehicles[i]]>>, query)})

\* The code takes the first results of each kind before it looks for duplicates.
Candidates(query) ==
  LET routes   == UpTo(Caps.routes, RoutesNamed(GetAllSubscribableRoutes, query))
      vehicles == UpTo(Caps.vehicles, LiveVehiclesNamed(query))
      reports  == UpTo(Caps.reports, MatchingReports(query))
      matching == UpTo(Caps.alerts, MatchingAlerts(query))
      alerts   == At(matching, {i \in DOMAIN matching : matching[i].header # <<>>})
  IN [i \in DOMAIN routes   |-> Suggestion("route", <<IdOf[routes[i]]>>, {})]
     \o [i \in DOMAIN vehicles |-> Suggestion("vehicle", <<IdOf[vehicles[i]]>>, {})]
     \o [i \in DOMAIN reports  |->
           Suggestion("notification", <<IdOf[reports[i].routeId], IdOf[reports[i].vid]>>,
                      {<<reports[i].routeId, reports[i].vid>>})]
     \o [i \in DOMAIN alerts   |-> Suggestion("alert", alerts[i].header, {})]

\* The first Caps.total candidates that differ in their labels.
Autocomplete(query) ==
  LET filtered == FilterStopWords(query)
      list     == Candidates(filtered)
      labels   == [i \in DOMAIN list |-> list[i].label]
  IN IF filtered = <<>> THEN <<>> ELSE UpTo(Caps.total, At(list, FirstsOf(labels)))

-----------------------------------------------------------------------------
(* Reports come and expire, the newest first.                              *)

Post(n) ==
  /\ Len(notifications) < MaxNotifications
  /\ notifications' = <<n>> \o notifications
  /\ UNCHANGED gtfsVars

Expire ==
  /\ notifications # <<>>
  /\ notifications' = Front(notifications)
  /\ UNCHANGED gtfsVars

Init == GtfsInit /\ notifications = <<>>

Next ==
  \/ GtfsNext /\ UNCHANGED notifications
  \/ \E n \in Notifications : Post(n)
  \/ Expire

Spec == Init /\ [][Next]_vars

TypeOK ==
  /\ GtfsTypeOK
  /\ notifications \in Seq(Notifications) /\ Len(notifications) <= MaxNotifications

\* A further criterion never adds a result, for a query with a meaningful word:
\* the factory's five strategies agree on what their criteria mean.
NarrowingNarrows ==
  \A r \in Routes, v \in Vids, q \in {u \in Queries : FilterStopWords(u) # <<>>} :
    LET by(rs, vs, text) == ToSet(NotificationSearch(rs, vs, text))
    IN /\ by({r}, {v}, q) = by({r}, {v}, <<>>) \cap by({r}, {}, q) \cap by({}, {v}, q)
       /\ by({r}, {v}, <<>>) = by({r}, {}, <<>>) \cap by({}, {v}, <<>>)
       /\ by({r}, {}, q) = by({r}, {}, <<>>) \cap by({}, {}, q)
       /\ by({}, {}, q) \subseteq by({}, {}, <<>>)

\* Suggestions are told apart by their labels, are no more than the limit, and one
\* for a report leads, by route and bus, to a report the query matches: it is not
\* crowded out by another suggestion of its label and no stop word loses it.
SuggestionsLeadToReports ==
  \A q \in Queries :
    LET chosen == Autocomplete(q) IN
    /\ Len(chosen) <= Caps.total
    /\ Cardinality({s.label : s \in ToSet(chosen)}) = Len(chosen)
    /\ \A s \in ToSet(chosen) : \A of \in s.of :
         \E n \in ToSet(NotificationSearch({of[1]}, {of[2]}, <<>>)) :
           MatchesNotificationText(n, FilterStopWords(q))

\* A route is found by its id in both searches of the map page, once it is parsed,
\* unless routes listed before it fill the answer; a shuttle in one of them.
RoutesAreFoundById ==
  \A r \in ToSet(GetAllSubscribableRoutes) :
    LET Answers(found) == r \in ToSet(found) \/ Len(found) = Caps.results IN
    /\ Answers(TransitSearch(<<IdOf[r]>>).routes)
    /\ r \in Routes => Answers(RouteSearch(<<IdOf[r]>>))

\* A shuttle's stops are those of its rows, each once and in the order in which the
\* shuttle first calls at them, and the map's search finds each by its id.
ShuttleStopsAreListed ==
  \A r \in ToSet(ShuttleList) :
    LET rows  == {row \in ToSet(StopRows) : row.route = r}
        stops == GetShuttleStops(r, "OUTBOUND")
        FirstCall(s) == Min({row.order : row \in {x \in rows : x.stop = s}})
    IN /\ ToSet(stops) = {row.stop : row \in rows}
       /\ \A i, j \in DOMAIN stops : i < j =>
            stops[i] # stops[j] /\ FirstCall(stops[i]) <= FirstCall(stops[j])
       /\ \A s \in ToSet(stops) :
            LET found == TransitSearch(<<IdOf[s]>>).stops
            IN s \in ToSet(found) \/ Len(found) = Caps.results

\* The strategies agree with each other: narrowing a search of the notifications
\* narrows its answer, a suggestion leads to what it was made from, and routes
\* and stops are found by what they are called.
SearchesAgree ==
  /\ NarrowingNarrows /\ SuggestionsLeadToReports
  /\ RoutesAreFoundById /\ ShuttleStopsAreListed
=============================================================================
