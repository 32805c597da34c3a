--------------------------- MODULE LiveSubscriptions ---------------------------
(***************************************************************************)
(* One member with two pages open: the map with its bell (map.ts,          *)
(* route-bell.ts, services/auth.service.ts) and the subscription list      *)
(* (subscriptions.ts).  Both change the same subscriptions on the server,  *)
(* share the muted routes in localStorage, and each has a socket of its    *)
(* own.  A request is served and answered in two steps, in any order with  *)
(* the others.  The races inside the server's handlers are Subscriptions'. *)
(***************************************************************************)
EXTENDS RouteRooms, Naturals, FiniteSets

CONSTANTS
  Online,      \* the pages that get through to the socket server
  Limit,       \* MAX_SUBSCRIPTIONS, of the server and of the page
  MaxTaps,     \* bounds what the user does
  MaxFaults    \* bounds the requests that fail and the connections that drop

ASSUME LiveAssumption == Limit \in Nat /\ MaxTaps \in Nat /\ MaxFaults \in Nat

Pages   == {"map", "list"}
NoRoute == "no route"

VARIABLES
  subscribed, \* the member's subscriptions on the server
  muted,      \* localStorage, shared by the pages
  channel,    \* each page's socket
  known,      \* `subscriptions` of the list page, which renders them; `subscribedRoutes` of the map
  selected,   \* the map's selectedRouteId
  bell,       \* the bell's currentRouteId and subscribed
  flows,      \* what each page has under way
  orderly,    \* history: nothing crossed this page's operations
  taps, faults

pages == <<known, selected, bell>>
vars  == <<subscribed, muted, channel, pages, flows, orderly, taps, faults>>

Writes == {"subscribe", "unsubscribe"}
Reads  == {"join rooms", "sync", "load", "refetch"}

\* A flow awaits the answer to `ask`: "sent" until the server has served it.
Flow == [page : Pages, ask : Writes \cup Reads, route : Routes \cup {NoRoute},
         from : {"bell", "card", "sheet", "page"}, ok : BOOLEAN,
         answer : {"sent", "done", "limit", "duplicate"}, routes : SUBSET Routes]

Begun(p, ask, r, from) ==
  [page |-> p, ask |-> ask, route |-> r, from |-> from, ok |-> TRUE,
   answer |-> "sent", routes |-> {}]

Loading ==
  {Begun("map", "join rooms", NoRoute, "page"), Begun("map", "sync", NoRoute, "page"),
   Begun("list", "join rooms", NoRoute, "page"), Begun("list", "load", NoRoute, "page")}

NoBell == [route |-> NoRoute, on |-> FALSE]

ShowBell(r, on) == IF r = NoRoute THEN NoBell ELSE [route |-> r, on |-> on]

UnderWay(p) == {n \in DOMAIN flows : flows[n].page = p}

IsLoading(p) == \E n \in UnderWay(p) : flows[n].ask \in {"sync", "load"}

TypeOK ==
  /\ subscribed \subseteq Routes /\ Cardinality(subscribed) <= Limit
  /\ muted \subseteq Routes
  /\ channel \in [Pages -> Channel]
  /\ known \in [Pages -> SUBSET Routes]
  /\ selected \in Routes \cup {NoRoute}
  /\ bell \in [route : Routes \cup {NoRoute}, on : BOOLEAN]
  /\ flows \in Seq(Flow)
  /\ orderly \in [Pages -> BOOLEAN]
  /\ taps \in 0..MaxTaps /\ faults \in 0..MaxFaults

Init ==
  /\ subscribed \in {s \in SUBSET Routes : Cardinality(s) <= Limit}
  /\ muted \in SUBSET subscribed
  /\ channel = [p \in Pages |-> NoChannel]
  /\ known = [p \in Pages |-> {}]
  /\ selected = NoRoute /\ bell = NoBell
  /\ flows = SetToSeq(Loading)
  /\ orderly = [p \in Pages |-> TRUE]
  /\ taps = 0 /\ faults = 0

-----------------------------------------------------------------------------
(* What the user does *)

\* An operation of page p crosses the other page, and what p has under way.
Crossing(p) == [q \in Pages |-> orderly[q] /\ q = p /\ UnderWay(p) = {}]

Tap == taps < MaxTaps /\ taps' = taps + 1 /\ UNCHANGED <<subscribed, faults>>

Ask(p, ask, r, from) ==
  /\ flows' = Append(flows, Begun(p, ask, r, from))
  /\ orderly' = Crossing(p)

SelectRoute(r) ==
  /\ ~IsLoading("map")
  /\ Tap
  /\ selected' = r
  /\ bell' = ShowBell(r, r \in known["map"])
  /\ orderly' = [orderly EXCEPT !["map"] = @ /\ UnderWay("map") = {}]
  /\ UNCHANGED <<muted, channel, known, flows>>

\* The bell turns at once; the page asks the server afterwards.
ClickBell ==
  /\ ~IsLoading("map") /\ bell.route # NoRoute
  /\ Tap
  /\ bell' = [bell EXCEPT !.on = ~@]
  /\ Ask("map", IF bell'.on THEN "subscribe" ELSE "unsubscribe", bell.route, "bell")
  /\ UNCHANGED <<muted, channel, known, selected>>

RemoveCard(r) ==
  /\ r \in known["list"]
  /\ Tap
  /\ Ask("list", "unsubscribe", r, "card")
  /\ UNCHANGED <<muted, channel, pages>>

\* A card's bell asks no server: it mutes and leaves the room, or the reverse.
ToggleMute(r) ==
  /\ r \in known["list"]
  /\ Tap
  /\ IF r \in muted
     THEN /\ muted' = muted \ {r}
          /\ channel' = [channel EXCEPT !["list"] = JoinRoute(@, r)]
     ELSE /\ muted' = muted \cup {r}
          /\ channel' = [channel EXCEPT !["list"] = LeaveRoute(@, r)]
  /\ orderly' = Crossing("list")
  /\ UNCHANGED <<pages, flows>>

ToggleFromSheet(r) ==
  /\ ~IsLoading("list")
  /\ r \in known["list"] \/ Cardinality(known["list"]) < Limit
  /\ Tap
  /\ Ask("list", IF r \in known["list"] THEN "unsubscribe" ELSE "subscribe", r, "sheet")
  /\ UNCHANGED <<muted, channel, pages>>

-----------------------------------------------------------------------------
(* What the server does *)

\* Mutant: the server leaves the limit to the pages.
AnswerToSubscribeUnlimited(r) == IF r \in subscribed THEN "duplicate" ELSE "done"

AnswerToSubscribe(r) ==
  IF r \in subscribed THEN "duplicate"
  ELSE IF Cardinality(subscribed) >= Limit THEN "limit" ELSE "done"

Serve(n) ==
  LET f == flows[n]
      answered(a) == flows' = [flows EXCEPT ![n].answer = a]
      read == flows' = [flows EXCEPT ![n].answer = "done", ![n].routes = subscribed]
  IN /\ f.answer = "sent"
     /\ CASE f.ask = "subscribe" ->
               /\ answered(AnswerToSubscribe(f.route))
               /\ subscribed' = IF AnswerToSubscribe(f.route) = "done"
                                THEN subscribed \cup {f.route} ELSE subscribed
          [] f.ask = "unsubscribe" -> answered("done") /\ subscribed' = subscribed \ {f.route}
          [] OTHER -> read /\ UNCHANGED subscribed
     /\ UNCHANGED <<muted, channel, pages, orderly, taps, faults>>

-----------------------------------------------------------------------------
(* What the pages make of the answers *)

Done(n)      == flows' = RemoveAt(flows, n)
Onward(n, f) == flows' = [flows EXCEPT ![n] = f]

Join(p, r)  == /\ muted' = muted \ {r}
               /\ channel' = [channel EXCEPT ![p] = JoinRoute(@, r)]
Leave(p, r) == channel' = [channel EXCEPT ![p] = LeaveRoute(@, r)] /\ UNCHANGED muted
Stay        == UNCHANGED <<muted, channel>>

\* live-notifications' init.
JoinRooms(n, routes) ==
  LET p == flows[n].page IN
  /\ channel' = [channel EXCEPT ![p] = JoinAll(@, routes \ muted)]
  /\ Done(n)
  /\ UNCHANGED <<muted, pages>>

\* syncSubscriptionsFromServer, and the list page's first fetch and rendering.
Loaded(n, routes) ==
  LET p == flows[n].page IN
  /\ known' = [known EXCEPT ![p] = routes]
  /\ Done(n)
  /\ UNCHANGED <<selected, bell>> /\ Stay

\* Mutant: the bell keeps what the click made of it.
TakeBackNothing(r, on) == UNCHANGED bell

\* updateBellState: the bell shows the route of the answer, selected or not.
TakeBack(r, on) == bell' = ShowBell(r, on)

BellAnswered(n) ==
  LET f == flows[n] IN
  /\ \/ /\ f.ask = "subscribe" /\ f.answer # "limit"
        /\ known' = [known EXCEPT !["map"] = @ \cup {f.route}]
        /\ Join("map", f.route)
        /\ UNCHANGED bell
     \/ /\ f.ask = "subscribe" /\ f.answer = "limit"
        /\ TakeBack(f.route, FALSE)
        /\ UNCHANGED known /\ Stay
     \/ /\ f.ask = "unsubscribe"
        /\ known' = [known EXCEPT !["map"] = @ \ {f.route}]
        /\ Leave("map", f.route)
        /\ UNCHANGED bell
  /\ Done(n)
  /\ UNCHANGED selected

\* The list page refetches after a removal by card and after a subscribe that
\* succeeded or found a duplicate; a removal by sheet edits the list.
ListAnswered(n) ==
  LET f == flows[n] IN
  /\ UNCHANGED <<selected, bell>>
  /\ \/ /\ f.from = "card" \/ (f.ask = "subscribe" /\ f.answer # "limit")
        /\ Onward(n, [f EXCEPT !.answer = "sent",
                               !.ask = "refetch",
                               !.ok = f.answer = "done"])
        /\ UNCHANGED known /\ Stay
     \/ /\ f.from = "sheet" /\ f.ask = "unsubscribe"
        /\ known' = [known EXCEPT !["list"] = @ \ {f.route}]
        /\ Leave("list", f.route)
        /\ Done(n)
     \/ /\ f.answer = "limit"
        /\ Done(n)
        /\ UNCHANGED known /\ Stay

Refetched(n, routes) ==
  LET f == flows[n] IN
  /\ known' = [known EXCEPT !["list"] = routes]
  /\ IF f.from = "sheet"
     THEN IF f.ok THEN Join("list", f.route) ELSE Stay
     ELSE IF f.ok /\ f.route \notin routes THEN Leave("list", f.route) ELSE Stay
  /\ Done(n)
  /\ UNCHANGED <<selected, bell>>

Answer(n) ==
  LET f == flows[n] IN
  /\ f.answer # "sent"
  /\ \/ f.ask = "join rooms" /\ JoinRooms(n, f.routes)
     \/ f.ask \in {"sync", "load"} /\ Loaded(n, f.routes)
     \/ f.ask = "refetch" /\ Refetched(n, f.routes)
     \/ f.ask \in Writes /\ f.from = "bell" /\ BellAnswered(n)
     \/ f.ask \in Writes /\ f.from # "bell" /\ ListAnswered(n)
  /\ UNCHANGED <<subscribed, orderly, taps, faults>>

-----------------------------------------------------------------------------
(* Failures *)

Fault == faults < MaxFaults /\ faults' = faults + 1

\* An error response (the request may or may not have been carried out), or an
\* exception: the list page's handlers have no catch and end where they are.
Fail(n) ==
  LET f == flows[n] IN
  /\ Fault
  /\ orderly' = [orderly EXCEPT ![f.page] = FALSE]
  /\ UNCHANGED <<subscribed, taps>>
  /\ \/ /\ f.from = "bell"
        /\ TakeBack(f.route, f.ask = "unsubscribe")
        /\ Done(n)
        /\ UNCHANGED <<known, selected>> /\ Stay
     \/ /\ f.from = "card" /\ f.ask = "unsubscribe"
        /\ Onward(n, [f EXCEPT !.answer = "sent", !.ask = "refetch", !.ok = FALSE])
        /\ UNCHANGED pages /\ Stay
     \/ f.ask = "refetch" /\ Refetched(n, known["list"])
     \/ f.from # "bell" /\ Done(n) /\ UNCHANGED pages /\ Stay

-----------------------------------------------------------------------------
(* The sockets *)

SocketStep(p, c) ==
  /\ channel' = [channel EXCEPT ![p] = c]
  /\ UNCHANGED <<subscribed, muted, pages, flows, orderly, taps>>

Reconnect(p) == p \in Online /\ ~channel[p].connected /\ SocketStep(p, Connect(channel[p])) /\ UNCHANGED faults

Drop(p) ==
  /\ channel[p].connected
  /\ Fault
  /\ SocketStep(p, Disconnect(channel[p]))

Arrive(p) ==
  /\ channel[p].connected /\ channel[p].wire # <<>>
  /\ SocketStep(p, Deliver(channel[p]))
  /\ UNCHANGED faults

-----------------------------------------------------------------------------
Next ==
  \/ \E r \in Routes : RemoveCard(r) \/ ToggleMute(r) \/ ToggleFromSheet(r)
  \/ \E r \in Routes \cup {NoRoute} : SelectRoute(r)
  \/ ClickBell
  \/ \E n \in DOMAIN flows : Serve(n) \/ Answer(n) \/ Fail(n)
  \/ \E p \in Pages : Reconnect(p) \/ Drop(p) \/ Arrive(p)

Spec == Init /\ [][Next]_vars

-----------------------------------------------------------------------------
(* Properties *)

\* Whatever was joined, left or lost on a connection that dropped, the rooms the
\* server ends with are the routes the page lists (live-notifications.ts:66).
RoomsFollowTheList ==
  \A p \in Pages : channel[p].connected => RoomsToBe(channel[p]) = channel[p].active

\* A page that did one thing at a time, alone and with every answer, agrees
\* with the server: its list or its bell, and its rooms, which leave
\* out the muted routes.
OrderlyPagesAgree ==
  \A p \in Pages :
    orderly[p] /\ UnderWay(p) = {} =>
      /\ known[p] = subscribed
      /\ channel[p].active = subscribed \ muted
      /\ p = "map" => bell = ShowBell(selected, selected \in subscribed)
=============================================================================
