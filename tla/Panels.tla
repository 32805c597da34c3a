--------------------------------- MODULE Panels ---------------------------------
(***************************************************************************)
(* Stop, route and bus popups of the map page with walking directions:     *)
(* PredictionController, DirectionsController and the popups of the filter *)
(* controller and the vehicle tracker, which share one popup and one map.  *)
(* As in MapPage, a step is what runs between two answers.                 *)
(***************************************************************************)
EXTENDS MapPopup, SequencesExt

CONSTANTS
  Arriving,  \* the route of which a bus arrives at each stop
  MaxTaps    \* bounds what the user does

ASSUME PanelsAssumption == MaxTaps \in Nat

Of(t)  == {s \in Subjects : TypeOf[s] = t}
Stops  == Of("stop")
Routes == Of("route")

VARIABLES
  popups,
  arrivals,   \* PredictionController: minimised, polled; clicks and refreshes under way
  directions, \* DirectionsController
  rendering,  \* the sets of routes that renderSelectedBusRoutes works on
  buses,      \* the routes whose buses the tracker polls for navigation
  filters,    \* applyRouteFilter under way: for which route, and whether its popup follows
  schedules,  \* route popups that await their schedule
  bus,        \* openPopupVehicleId, and whether the ticker of the bus popup runs
  selected,   \* selectedRouteId
  taps, reachable

vars == <<popups, arrivals, directions, rendering, buses, filters, schedules, bus, selected,
          taps, reachable>>

Filter(r, info) == [route |-> r, info |-> info]
NoBus == [open |-> NoSubject, ticking |-> FALSE]

Idle == [active |-> FALSE, target |-> NoSubject, line |-> NoSubject, request |-> NoSubject,
         starting |-> FALSE, chosen |-> {}, periodic |-> FALSE, deferred |-> FALSE]

TypeOK ==
  /\ IsPopups(popups)
  /\ arrivals \in [minimised : Stops \cup {NoSubject}, polled : Stops \cup {NoSubject},
                   clicks : SUBSET Stops, refreshes : SUBSET Stops]
  /\ directions \in [active : BOOLEAN, target : Stops \cup {NoSubject},
                     line : Stops \cup {NoSubject}, request : Stops \cup {NoSubject},
                     starting : BOOLEAN, chosen : SUBSET Routes, periodic : BOOLEAN,
                     deferred : BOOLEAN]
  /\ directions.active <=> directions.target # NoSubject
  /\ rendering \subseteq SUBSET Routes /\ buses \subseteq Routes /\ schedules \subseteq Routes
  /\ filters \subseteq [route : Routes, info : BOOLEAN]
  /\ bus \in [open : Of("bus") \cup {NoSubject}, ticking : BOOLEAN]
  /\ selected \in Routes \cup {NoSubject} /\ taps \in 0..MaxTaps /\ reachable \in BOOLEAN

Init ==
  /\ popups = NoPopups
  /\ arrivals = [minimised |-> NoSubject, polled |-> NoSubject, clicks |-> {}, refreshes |-> {}]
  /\ directions = Idle
  /\ rendering = {} /\ buses = {} /\ filters = {} /\ schedules = {} /\ bus = NoBus
  /\ selected = NoSubject /\ taps = 0 /\ reachable = TRUE

Tap == taps < MaxTaps /\ taps' = taps + 1 /\ UNCHANGED reachable

-----------------------------------------------------------------------------
(* Operators *)

Polling(a, s) == [a EXCEPT !.polled = s]

\* vehicleTracker.stopPolling clears the vehicles and with them closes the popup,
\* of whatever type; popups stay registered.
StopTracking(p) == CloseMapPopup(p)

\* getPredictions of a stop: its arrivals, or an empty list when there are none and
\* when the request fails.
Predictions(s) == {NoSubject} \cup (IF reachable THEN {s} ELSE {})

\* Mutant: a popup that opens leaves the polling of the one before it.
ShowStopStillPolling(s, rows) ==
  /\ popups' = Open(popups, s, rows, arrivals.refreshes)
  /\ arrivals' = [arrivals EXCEPT !.polled = IF @ = NoSubject THEN s ELSE @,
                                  !.minimised = NoSubject, !.clicks = @ \ {s}]

\* showStopPopup
ShowStop(s, rows) ==
  /\ popups' = Open(popups, s, rows, arrivals.refreshes)
  /\ arrivals' = [arrivals EXCEPT !.polled = s, !.minimised = NoSubject, !.clicks = @ \ {s}]

\* Mutant: the periodic reroute starts only when the first request succeeded.
StartedIfShown(d) == [d EXCEPT !.starting = FALSE, !.chosen = {},
                               !.periodic = @ \/ (d.starting /\ d.line # NoSubject)]

\* A start whose request is cancelled or answered goes on: startPeriodicReroute,
\* and the buses that were chosen with it.
Started(d) == [d EXCEPT !.starting = FALSE, !.chosen = {},
                        !.periodic = @ \/ d.starting]
Buses(d) == IF d.starting /\ d.chosen # {} THEN {d.chosen} ELSE {}

\* fetchAndRenderRoute cancels the request under way.
Fetch(d) == [Started(d) EXCEPT !.request = d.target]

\* renderSelectedBusRoutes waits for one answer after the other.
Render(d, more) == rendering' = rendering \cup Buses(d) \cup (more \ {{}})

\* restoreDefaultState up to its first await.
RestoreDefaultState(p, a) ==
  /\ popups' = DismissAll(StopTracking(p))
  /\ arrivals' = Polling(a, NoSubject)
  /\ buses' = {} /\ bus' = NoBus /\ selected' = NoSubject

\* applyRouteFilter of a route in the caches, up to its first await:
\* prepareMapForRouteSelection.  It stops the tracking, in any mode.
ApplyRouteFilter(f) ==
  /\ filters' = filters \cup {f}
  /\ popups' = StopTracking(popups) /\ buses' = {} /\ bus' = NoBus

-----------------------------------------------------------------------------
(* Popups *)

\* handleStopClick, also of a stop found by the search.
ClickStop(s) ==
  /\ Tap
  /\ IF directions.active THEN UNCHANGED <<popups, arrivals>>
     ELSE IF arrivals.minimised = s THEN \E rows \in {s, NoSubject} : ShowStop(s, rows)
     ELSE arrivals' = [arrivals EXCEPT !.clicks = @ \cup {s}] /\ UNCHANGED popups
  /\ UNCHANGED <<directions, rendering, buses, filters, schedules, bus, selected>>

AnswerClick(s) ==
  /\ s \in arrivals.clicks
  /\ \E rows \in Predictions(s) : ShowStop(s, rows)
  /\ UNCHANGED <<directions, rendering, buses, filters, schedules, bus, selected, taps,
                 reachable>>

\* The ticker and the refresh stop when no popup is there, of any type.
PollArrivals ==
  /\ arrivals.polled # NoSubject
  /\ arrivals' = IF popups.windows = << >> THEN Polling(arrivals, NoSubject)
                 ELSE [arrivals EXCEPT !.refreshes = @ \cup {arrivals.polled}]
  /\ UNCHANGED <<popups, directions, rendering, buses, filters, schedules, bus, selected, taps,
                 reachable>>

\* refreshPredictionList writes into the rows of the oldest popup; an answer without
\* arrivals removes them, and a list without rows gets none any more.
RefreshedWindows(windows, rows) ==
  IF windows = << >> \/ Head(windows).content.arrivals = NoSubject THEN windows
  ELSE [windows EXCEPT ![1].content.arrivals = rows]

AnswerRefresh(s) ==
  /\ s \in arrivals.refreshes
  /\ arrivals' = [arrivals EXCEPT !.refreshes = @ \ {s}]
  /\ \E rows \in Predictions(s) :
       popups' = [popups EXCEPT !.windows = RefreshedWindows(@, rows)]
  /\ UNCHANGED <<directions, rendering, buses, filters, schedules, bus, selected, taps,
                 reachable>>

\* showVehiclePopup
ClickBus(s) ==
  /\ Tap /\ s \in Of("bus")
  /\ popups' = Open(popups, s, NoSubject, {})
  /\ bus' = [open |-> s, ticking |-> TRUE]
  /\ UNCHANGED <<arrivals, directions, rendering, buses, filters, schedules, selected>>

\* The ticker forgets the bus when no popup is there.
Tick ==
  /\ bus.ticking /\ bus.open # NoSubject /\ popups.windows = << >>
  /\ bus' = NoBus
  /\ UNCHANGED <<popups, arrivals, directions, rendering, buses, filters, schedules, selected,
                 taps, reachable>>

\* removeStaleVehicles: the bus is gone from an answer of the tracker.  Its popup is
\* taken for open also when it was minimized or closed; the oldest popup goes.
LoseBus ==
  /\ bus.open # NoSubject
  /\ popups' = CloseMapPopup(popups) /\ bus' = NoBus
  /\ UNCHANGED <<arrivals, directions, rendering, buses, filters, schedules, selected, taps,
                 reachable>>

\* The callback of a minimize button, and that of a close button.
Minimize(u, s) ==
  [popups   |-> MinimizePopup(u.popups, s),
   arrivals |-> IF s \in Stops THEN [Polling(u.arrivals, NoSubject) EXCEPT !.minimised = s]
                ELSE u.arrivals,
   bus      |-> [u.bus EXCEPT !.ticking = @ /\ TypeOf[s] # "bus"]]

Dismiss(u, s) ==
  [popups   |-> DismissPopup(u.popups, TypeOf[s]),
   arrivals |-> IF s \in Stops THEN Polling(u.arrivals, NoSubject) ELSE u.arrivals,
   bus      |-> [u.bus EXCEPT !.ticking = @ /\ TypeOf[s] # "bus"]]

\* The buttons run what is bound to them, one callback after the other.
MinimizeEach(u, bound) ==
  LET after[n \in 0..Len(bound)] == IF n = 0 THEN u ELSE Minimize(after[n - 1], bound[n])
  IN after[Len(bound)]

DismissEach(u, bound) ==
  LET after[n \in 0..Len(bound)] == IF n = 0 THEN u ELSE Dismiss(after[n - 1], bound[n])
  IN after[Len(bound)]

Buttons(i) == popups.windows[i].bound
Shown == [popups |-> popups, arrivals |-> arrivals, bus |-> bus]

ClickMinimize(i) ==
  /\ Tap /\ Buttons(i) # << >>
  /\ LET u == MinimizeEach(Shown, Buttons(i))
     IN popups' = u.popups /\ arrivals' = u.arrivals /\ bus' = u.bus
  /\ UNCHANGED <<directions, rendering, buses, filters, schedules, selected>>

ClickClose(i) ==
  /\ Tap /\ Buttons(i) # << >>
  /\ LET u == DismissEach(Shown, Buttons(i))
     IN popups' = u.popups /\ arrivals' = u.arrivals /\ bus' = u.bus
  /\ UNCHANGED <<directions, rendering, buses, filters, schedules, selected>>

\* restorePopup; a stop's callback starts its polling again, and a tracked bus's its
\* ticker.  Behind the tab of a route or a bus there may be the HTML of a stop, for
\* which the polling stays as it is.
ClickTab(t) ==
  /\ Tap /\ popups.tabs[t] # << >>
  /\ LET cached == t \in DOMAIN popups.slots IN
     /\ \E tracked \in BOOLEAN :
          /\ tracked \/ t = "bus"
          /\ popups' = RestorePopup(popups, t,
                         arrivals.refreshes \cup IF t = "stop" THEN {}
                                                 ELSE {arrivals.polled} \ {NoSubject}, tracked)
          /\ bus' = [bus EXCEPT !.ticking = @ \/ (t = "bus" /\ cached /\ tracked)]
     /\ arrivals' = IF t = "stop" /\ cached
                    THEN Polling(arrivals, popups.slots[t].subject) ELSE arrivals
  /\ UNCHANGED <<directions, rendering, buses, filters, schedules, selected>>

\* routeSelected; the panels are disabled while directions are shown.
SelectRoute(r) ==
  /\ Tap /\ directions.line = NoSubject
  /\ selected' = r /\ ApplyRouteFilter(Filter(r, TRUE))
  /\ UNCHANGED <<arrivals, directions, rendering, schedules>>

\* searchSelectRoute: the search box is there also while directions are shown.
SearchSelectRoute(r) ==
  /\ Tap
  /\ selected' = r /\ ApplyRouteFilter(Filter(r, FALSE))
  /\ UNCHANGED <<arrivals, directions, rendering, schedules>>

\* applyRouteFilter goes on after the last answer, also a failed one: startPolling stops
\* the tracking again.  After routeSelected the route's popup comes up.
AnswerFilter(f) ==
  /\ f \in filters /\ filters' = filters \ {f}
  /\ buses' = {} /\ bus' = NoBus
  /\ IF f.info THEN /\ popups' = Open(StopTracking(popups), f.route, NoSubject, {f.route})
                    /\ schedules' = schedules \cup {f.route}
     ELSE popups' = StopTracking(popups) /\ UNCHANGED schedules
  /\ UNCHANGED <<arrivals, directions, rendering, selected, taps, reachable>>

\* loadRouteInfoBody registers its popup again, whatever is open by now.
AnswerSchedule(r) ==
  /\ r \in schedules /\ schedules' = schedules \ {r}
  /\ popups' = IF ~reachable THEN popups
       ELSE [popups EXCEPT
               !.active = r,
               !.windows = [i \in DOMAIN @ |-> IF r \in @[i].content.awaited
                                               THEN [@[i] EXCEPT !.bound = <<r>>] ELSE @[i]]]
  /\ UNCHANGED <<arrivals, directions, rendering, buses, filters, bus, selected, taps,
                 reachable>>

\* An empty search, and routeSelected without a route.
Deselect ==
  /\ Tap
  /\ RestoreDefaultState(popups, arrivals)
  /\ UNCHANGED <<directions, rendering, filters, schedules>>

-----------------------------------------------------------------------------
(* Walking directions *)

\* The Directions button of a stop popup with some of its buses selected, up to
\* the request.  Within half a second of another tap, and without a location,
\* startDirections returns at once and only the buses are rendered.
StartDirections(s, chosen) ==
  /\ directions' = [Started(directions) EXCEPT
       !.active = TRUE, !.target = s, !.request = s, !.starting = TRUE, !.chosen = chosen]
  /\ popups' = CloseMapPopup(StopTracking(popups))
  /\ buses' = {} /\ bus' = NoBus
  /\ Render(directions, {})
  /\ UNCHANGED <<arrivals, filters, schedules, selected>>

ReturnAtOnce(chosen) ==
  /\ Render(Idle, {chosen})
  /\ UNCHANGED <<popups, arrivals, directions, buses, filters, schedules, bus, selected>>

TapDirections(i, chosen) ==
  /\ Tap
  /\ \E s \in Stops \cap ToSet(Buttons(i)) :
       /\ chosen \subseteq {Arriving[s]}
       /\ StartDirections(s, chosen) \/ ReturnAtOnce(chosen)

AnswerDirections ==
  /\ directions.request # NoSubject
  /\ directions' = [Started(directions) EXCEPT
       !.request = NoSubject, !.line = IF reachable THEN directions.request ELSE @]
  /\ Render(directions, {})
  /\ UNCHANGED <<popups, arrivals, buses, filters, schedules, bus, selected, taps, reachable>>

\* The interval, and a deviation from the line after the throttle period.
Reroute ==
  /\ directions.active
  /\ directions.periodic \/ directions.line # NoSubject
  /\ directions' = Fetch(directions)
  /\ Render(directions, {})
  /\ UNCHANGED <<popups, arrivals, buses, filters, schedules, bus, selected, taps, reachable>>

\* Within the throttle period they set a timer, which asks for the mode only.
Defer ==
  /\ directions.active /\ ~directions.deferred
  /\ directions.periodic \/ directions.line # NoSubject
  /\ directions' = [directions EXCEPT !.deferred = TRUE]
  /\ UNCHANGED <<popups, arrivals, rendering, buses, filters, schedules, bus, selected, taps,
                 reachable>>

DeferredReroute ==
  /\ directions.deferred
  /\ directions' = [IF directions.active THEN Fetch(directions) ELSE directions
                      EXCEPT !.deferred = FALSE]
  /\ IF directions.active THEN Render(directions, {}) ELSE UNCHANGED rendering
  /\ UNCHANGED <<popups, arrivals, buses, filters, schedules, bus, selected, taps, reachable>>

\* Mutant: the stop stays selected.
LeaveForTarget(d) == [Idle EXCEPT !.target = d.target, !.periodic = d.starting, !.deferred = d.deferred]

\* Mutant: the request under way is left to end.
LeaveWithRequest(d) == [Idle EXCEPT !.request = d.request, !.periodic = d.starting, !.deferred = d.deferred]

\* A start that is cancelled here sets its interval after it was cleared.
Leave(d) == [Idle EXCEPT !.periodic = d.starting, !.deferred = d.deferred]

\* exitDirections with the exit callback: by the panel's button, which is there
\* with the line, or on arrival.
ExitDirections ==
  /\ directions.active
  /\ directions' = Leave(directions)
  /\ Render(directions, {})
  /\ IF selected = NoSubject THEN RestoreDefaultState(popups, arrivals) /\ UNCHANGED filters
     ELSE ApplyRouteFilter(Filter(selected, FALSE)) /\ UNCHANGED <<arrivals, selected>>
  /\ UNCHANGED <<schedules, taps, reachable>>

\* The last answer of renderSelectedBusRoutes: nothing asks whether the mode is
\* still active.
ShowBuses(rs) ==
  /\ rs \in rendering
  /\ rendering' = rendering \ {rs} /\ buses' = rs
  /\ UNCHANGED <<popups, arrivals, directions, filters, schedules, bus, selected, taps,
                 reachable>>

ReachabilityChanges ==
  /\ reachable' = ~reachable
  /\ UNCHANGED <<popups, arrivals, directions, rendering, buses, filters, schedules, bus,
                 selected, taps>>

Next ==
  \/ \E s \in Stops : ClickStop(s) \/ AnswerClick(s) \/ AnswerRefresh(s)
  \/ \E s \in Of("bus") : ClickBus(s)
  \/ Tick \/ LoseBus \/ PollArrivals
  \/ \E i \in DOMAIN popups.windows : ClickMinimize(i) \/ ClickClose(i)
  \/ \E t \in Types : ClickTab(t)
  \/ \E r \in Routes : SelectRoute(r) \/ AnswerSchedule(r) \/ SearchSelectRoute(r)
  \/ \E f \in filters : AnswerFilter(f)
  \/ Deselect
  \/ \E i \in DOMAIN popups.windows, chosen \in SUBSET Routes : TapDirections(i, chosen)
  \/ AnswerDirections \/ Reroute \/ Defer \/ DeferredReroute \/ ExitDirections
  \/ \E rs \in rendering : ShowBuses(rs)
  \/ ReachabilityChanges

\* Requests end and the interval fires; users and the network are left open.
Fairness == WF_vars(AnswerDirections) /\ WF_vars(Reroute)

Spec == Init /\ [][Next]_vars /\ Fairness

-----------------------------------------------------------------------------
(* Properties *)

\* A minimized popup can be brought back: whichever way popups replace, close and
\* minimize each other, the newest tab of a type names what its slot holds.  Any other
\* tab of the type names nothing that is left, and stands for a popup that an automatic
\* minimize overwrote: nothing else takes the only way back to a popup while its tab
\* stays.
MinimizedCanBeRestored ==
  \A t \in Types :
    LET tabs == popups.tabs[t]  cached == t \in DOMAIN popups.slots IN
    /\ cached => tabs # << >> /\ Last(tabs) = popups.slots[t].subject
    /\ Len(tabs) <= popups.overwritten[t] + (IF cached THEN 1 ELSE 0)

\* A popup lists no arrivals, its own, or those of a stop that raced with it: whose
\* refresh was under way when the popup came up, or whose popup came up beside it, or
\* that was still polled when a popup of another type was restored with its HTML.
\* Beyond these the polls follow the popups through replacing, closing, minimizing and
\* restoring, also when there are two of them.
ArrivalsNeedARace ==
  \A i \in DOMAIN popups.windows : LET content == popups.windows[i].content IN
    content.arrivals \in content.awaited \cup {content.of, NoSubject}

\* A line is on the map in directions mode only, and the one request under way is
\* for the stop the panel names: exits, arrivals and new targets overtake answers
\* and timers, and cancel or re-aim all of them.  The line itself stays that of the
\* old target until the request for the new one is answered.
DirectionsServeTheTarget ==
  /\ directions.line # NoSubject => directions.active
  /\ directions.request \in {NoSubject, directions.target}

\* Directions mode can be left: its only button comes with the first line, so when
\* the first request fails a later one shows it, once requests succeed.
NavigationCanBeLeft ==
  <>[]reachable => (directions.active ~> (directions.line # NoSubject \/ ~directions.active))
=============================================================================
