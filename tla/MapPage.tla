-------------------------------- MODULE MapPage --------------------------------
(***************************************************************************)
(* The map page's filters: FilterController with MapStateManager, the      *)
(* route renderer and the vehicle tracker, under the events of map.ts.     *)
(*                                                                         *)
(* JavaScript runs one continuation at a time, so a step of the model is   *)
(* what runs between two answers of the server.  Operations overlap: a     *)
(* second one starts while the first awaits an answer, and most of what    *)
(* runs after an await does not ask whether its operation is still wanted. *)
(* The synchronous parts are operators on the page, a record; where an     *)
(* activation of an operation stands is a record as well.                  *)
(*                                                                         *)
(* The model starts when initialize() has loaded the bulk data: the routes *)
(* of PRT with patterns and stops are in the page's caches, those of CMU   *)
(* are fetched when they are needed.                                       *)
(***************************************************************************)
EXTENDS RouteRenderer, VehicleTracker, FiniteSets

CONSTANTS
  Flows,         \* slots for activations of the page's operations
  MaxOperations  \* bounds what the user does

ASSUME PageAssumption == MaxOperations \in Nat

VARIABLES
  page,        \* the state manager's and the controller's fields, and the map
  tracker,     \* the vehicle tracker
  flows,       \* where each activation stands
  reachable,   \* environment: whether requests succeed
  operations,  \* how many operations the user has started
  undisturbed  \* history: the last operation, if it ran alone and without failures

vars == <<page, tracker, flows, reachable, operations, undisturbed>>

\* fetchRouteGeometry and fetchStops serve these from the bulk data.
InBulk(r) == r \in PrtRoutes

\* Where an activation stands: the answer it awaits, the route it is about, the
\* route whose stops it renders, what it has left to do, what it was told.
Flow(at, r, of, todo, found) ==
  [at |-> at, route |-> r, of |-> of, todo |-> todo, found |-> found]
Idle == Flow("idle", NoRoute, NoRoute, {}, {})

Awaits == {"idle", "routes", "patterns", "stops", "detours", "prefetch",
           "render", "nearby", "nearbyGeometry", "colors"}

Pages ==
  [selectedRouteId : Routes \cup {NoRoute},
   selectedSystems : SUBSET Systems, selectedDirections : SUBSET Directions,
   availableRoutes : SUBSET Routes, filteredRoutes : SUBSET Routes,
   nearbyRouteIds : SUBSET Routes, nearbyStopsActive : BOOLEAN,
   userLocation : BOOLEAN, map : Pictures]

FlowType ==
  [at : Awaits, route : Routes \cup {NoRoute}, of : Routes \cup {NoRoute},
   todo : SUBSET (Routes \cup Directions), found : SUBSET Routes]

TypeOK ==
  /\ page \in Pages
  /\ IsTracker(tracker)
  /\ flows \in [Flows -> FlowType]
  /\ reachable \in BOOLEAN
  /\ operations \in 0..MaxOperations
  /\ undisturbed \in {"none", "select", "default"}

Init ==
  /\ page = [selectedRouteId |-> NoRoute, selectedSystems |-> {"PRT"},
             selectedDirections |-> Directions, availableRoutes |-> PrtRoutes,
             filteredRoutes |-> PrtRoutes, nearbyRouteIds |-> {},
             nearbyStopsActive |-> FALSE, userLocation |-> FALSE,
             map |-> [EmptyPicture EXCEPT !.lines = PrtRoutes]]
  /\ tracker = IdleTracker
  /\ flows = [f \in Flows |-> Idle]
  /\ reachable = TRUE
  /\ operations = 0
  /\ undisturbed = "none"

-----------------------------------------------------------------------------
(* MapStateManager *)

\* applyFilters: the enabled systems, then the selected route only.
Filtered(p) ==
  {r \in p.availableRoutes :
     /\ SystemOf(r) \in p.selectedSystems
     /\ p.selectedRouteId \in {NoRoute, r}}

ReapplyFilters(p) == [p EXCEPT !.filteredRoutes = Filtered(p)]

SetAvailableRoutes(p, rs) == ReapplyFilters([p EXCEPT !.availableRoutes = rs])

Select(p, r) == [p EXCEPT !.selectedRouteId = r]

-----------------------------------------------------------------------------
(* What the controller does between two awaits.  A result is the page, the *)
(* tracker and where the activation stands then.                           *)

Result(p, t, flow) == [page |-> p, tracker |-> t, flow |-> flow]

\* The toggle applies to bidirectional routes only.
EnabledDirections(p, ds) == IF ds = Directions THEN ds \cap p.selectedDirections ELSE ds

DirectionKeys(r) == {r} \X Directions
NearbyKeys(rs)   == {<<r, "NEARBY">> : r \in rs}

ForgetNearby(p) == [p EXCEPT !.nearbyStopsActive = FALSE, !.nearbyRouteIds = {}]

\* clearNearbyStops, and clearRenderedNearbyStopsIfActive with the routes rs
\* whose nearby markers it knows of.
ClearNearby(p, rs) ==
  IF ~p.nearbyStopsActive THEN p
  ELSE [ForgetNearby(p) EXCEPT !.map =
          ShowRoutes(ClearStopMarkers(@, NearbyKeys(rs)),
                     p.availableRoutes \ p.nearbyRouteIds)]

\* The last steps of applyRouteFilter, before and after the detours.
AwaitDetours(p, t, r) == Result(p, t, Flow("detours", r, NoRoute, {}, {}))
Finish(p, t)          == Result(p, t, Idle)

\* Mutant: the stops of a route that was deselected meanwhile are rendered.
StillWantedAlways(p, of) == TRUE

\* renderDirectionStopMarkers asks again after its await.
StillWanted(p, of) == p.selectedRouteId = of

\* refreshStopMarkers of route `of`; then go on with the route filter for r, or
\* end if this is a direction filter (r = NoRoute).
AfterStops(p, t, r) == IF r = NoRoute THEN Finish(p, t) ELSE AwaitDetours(p, t, r)

RefreshStopMarkers(p, t, r, of, ds) ==
  LET cleared == [p EXCEPT !.map = ClearStopMarkers(@, DirectionKeys(of))]
      drawn == [cleared EXCEPT !.map.stops = @ \cup ({of} \X ds)]
  IN CASE ds = {} \/ (InBulk(of) /\ ~StillWanted(p, of)) -> AfterStops(cleared, t, r)
       [] InBulk(of) /\ ds # {} /\ StillWanted(p, of) -> AfterStops(drawn, t, r)
       [] OTHER -> Result(cleared, t, Flow("stops", r, of, ds, {}))

\* applyDirectionFilter is about the route that is selected when it runs.
ApplyDirectionFilter(p, t, r) ==
  LET of == p.selectedRouteId
      ds == EnabledDirections(p, DirectionsOf[of])
  IN IF of \notin p.availableRoutes THEN AfterStops(p, t, r)
     ELSE RefreshStopMarkers([p EXCEPT !.map = ShowDirectionsOnly(@, of, ds)], t, r, of, ds)

\* renderRouteStopsForSelection: a route that ensureRouteAvailable did not find
\* gets the directions its system usually has.
RenderRouteStops(p, t, r, known) ==
  IF known THEN ApplyDirectionFilter(p, t, r)
  ELSE RefreshStopMarkers(p, t, r, r,
         EnabledDirections(p, IF r \in CmuRoutes THEN {"OUTBOUND"} ELSE Directions))

\* Mutant: what was on the map stays there.
PrepareMapKeepingRoutes(p) == ClearNearby(p, p.availableRoutes)

PrepareMap(p) ==
  [ClearNearby(p, p.availableRoutes) EXCEPT !.map = ClearAllRoutes(@)]

\* applyRouteFilter once the route's metadata is there, or known to be missing.
PrepareAndRender(p, t, r) ==
  LET known == r \in p.availableRoutes
      ready == PrepareMap(p)
      rest  == StopPolling(t)
  IN IF InBulk(r)
     THEN RenderRouteStops([ready EXCEPT !.map = RenderRouteGeometry(@, r)], rest, r, known)
     ELSE Result(ready, rest, Flow("patterns", r, NoRoute, {}, IF known THEN {r} ELSE {}))

ApplyRouteFilter(p, t, r) ==
  IF r \in p.availableRoutes THEN PrepareAndRender(p, t, r)
  ELSE Result(p, t, Flow("routes", r, NoRoute, {}, {}))

\* showNearbyStops up to its await: a selected route takes precedence.
ShowNearbyStops(p, t) ==
  LET located == [p EXCEPT !.userLocation = TRUE]
  IN IF p.selectedRouteId # NoRoute THEN Finish(located, t)
     ELSE Result(ClearNearby(located, p.nearbyRouteIds), t,
                 Flow("nearby", NoRoute, NoRoute, p.availableRoutes,
                      {r \in Routes : SystemOf(r) \in p.selectedSystems \/ p.selectedSystems = {}}))

\* The geometries of the nearby routes, an iteration over the live set, from the
\* bulk data where they are there; then the markers of the stops, each kept under the
\* route that its list names first: `first` are these routes.
ShowNearbyRoutes(p, t, visited, first) ==
  LET bulk == {r \in p.nearbyRouteIds : InBulk(r) /\ ~HasRouteGeometry(p.map, r)}
      drawn == [p EXCEPT !.map.lines = @ \cup bulk]
      left == {r \in p.nearbyRouteIds \ visited : ~InBulk(r) /\ ~HasRouteGeometry(p.map, r)}
      next == CHOOSE r \in left : TRUE
  IN IF left # {}
     THEN Result(drawn, t, Flow("nearbyGeometry", next, NoRoute, visited \cup {next}, first))
     ELSE Finish([drawn EXCEPT !.map.stops = @ \cup NearbyKeys(first),
                               !.nearbyStopsActive = TRUE], t)

\* restoreMapContentAfterSystemFilter.
RestoreMapContent(p, t) ==
  CASE p.selectedRouteId # NoRoute -> ApplyRouteFilter(p, t, p.selectedRouteId)
    [] p.selectedRouteId = NoRoute /\ p.userLocation -> ShowNearbyStops(p, t)
    [] OTHER -> Finish(p, t)

\* renderFilteredRoutes: the routes rs that have no geometry yet, those of the
\* bulk data at once.
RenderFilteredRoutes(p, t, rs) ==
  LET bulk == {r \in rs : InBulk(r) /\ ~HasRouteGeometry(p.map, r)}
      drawn == [p EXCEPT !.map.lines = @ \cup bulk]
      left == {r \in rs : ~InBulk(r) /\ ~HasRouteGeometry(p.map, r)}
      next == CHOOSE r \in left : TRUE
  IN IF left = {} THEN RestoreMapContent(drawn, t)
     ELSE Result(drawn, t, Flow("render", next, NoRoute, left \ {next}, {}))

Refilter(p, t) ==
  LET q    == ReapplyFilters(p)
      gone == q.availableRoutes \ q.filteredRoutes
  IN RenderFilteredRoutes(
       [q EXCEPT !.map.lines = @ \ gone, !.map.hidden = {h \in @ : h[1] \notin gone},
                 !.map.stops = @ \ (gone \X Directions)], t, q.filteredRoutes)

\* clearSelectedRouteIfSystemDisabled.
DropDisabledSelection(p) ==
  LET r == p.selectedRouteId
  IN [Select(p, NoRoute) EXCEPT
        !.map = ClearStopMarkers(ClearRoutePolylines(@, r), DirectionKeys(r))]

ApplySystemFilter(p, t) ==
  LET drops == p.selectedRouteId \in p.availableRoutes /\ SystemOf(p.selectedRouteId) \notin p.selectedSystems
      q == IF drops THEN DropDisabledSelection(p) ELSE p
      u == IF drops THEN StopPolling(t) ELSE t
  IN CASE p.selectedSystems = {} ->
            Finish([p EXCEPT !.map = ClearAllRoutes(@)], StopPolling(t))
       [] "CMU" \in p.selectedSystems /\ p.availableRoutes \cap CmuRoutes = {} ->
            Result(q, u, Flow("prefetch", NoRoute, NoRoute, {}, {}))
       [] OTHER -> Refilter(q, u)

\* clearMapForDefaultState, resetFiltersForDefaultState; the list of filtered
\* routes is left as it was.
RestoreDefaultState(p, t) ==
  ShowNearbyStops(
    [ForgetNearby(p) EXCEPT !.map = ClearAllRoutes(@), !.selectedRouteId = NoRoute,
                            !.selectedDirections = Directions],
    StopPolling(t))

\* refreshRouteColors once the fresh routes are there: they replace the known
\* ones, and the selected route is drawn again if its patterns are in the cache.
RefreshRouteColors(p) ==
  LET q == SetAvailableRoutes(p, Routes)
  IN IF p.selectedRouteId \in PrtRoutes
     THEN [q EXCEPT !.map = RenderRouteGeometry(@, p.selectedRouteId)] ELSE q

-----------------------------------------------------------------------------
(* What continues an activation.  `ok` tells whether its request succeeded. *)

Continue(p, t, flow, ok) ==
  LET r == flow.route
  IN CASE flow.at = "routes" ->
            PrepareAndRender(IF ok THEN SetAvailableRoutes(p, Routes) ELSE p, t, r)
       [] flow.at = "patterns" /\ ok ->
            RenderRouteStops([p EXCEPT !.map = RenderRouteGeometry(@, r)], t, r, r \in flow.found)
       [] flow.at = "patterns" /\ ~ok -> Finish(p, t)
       [] flow.at = "stops" ->
            LET d == CHOOSE d \in flow.todo : TRUE
                q == IF ok THEN [p EXCEPT !.map = RenderStopMarkers(@, flow.of, d)] ELSE p
            IN CASE ~StillWanted(p, flow.of) -> AfterStops(p, t, r)
                 [] StillWanted(p, flow.of) /\ flow.todo = {d} -> AfterStops(q, t, r)
                 [] OTHER -> Result(q, t, [flow EXCEPT !.todo = @ \ {d}])
       [] flow.at = "detours" -> Finish(p, StartPolling(t, r))
       [] flow.at = "prefetch" -> Refilter(SetAvailableRoutes(p, IF ok THEN Routes ELSE {}), t)
       [] flow.at = "render" ->
            RenderFilteredRoutes(IF ok THEN [p EXCEPT !.map = RenderRouteGeometry(@, r)] ELSE p,
                                 t, flow.todo)
       [] flow.at = "nearbyGeometry" ->
            ShowNearbyRoutes(IF ok THEN [p EXCEPT !.map = RenderRouteGeometry(@, r)] ELSE p,
                             t, flow.todo, flow.found)
       [] flow.at = "colors" ->
            Finish(IF ok THEN RefreshRouteColors(p) ELSE p, t)

\* The nearby stops are of the routes `found`, none after a failure; `first` come first
\* in the list of some stop, routes of PRT before those of CMU.
ContinueNearby(p, t, flow, found, first) ==
  IF found = {} THEN Finish(p, t)
  ELSE ShowNearbyRoutes(
         [p EXCEPT !.nearbyRouteIds = found, !.map = HideRoutes(@, flow.todo \ found)],
         t, {}, first)

-----------------------------------------------------------------------------
(* Steps *)

AtRest == \A f \in Flows : flows[f] = Idle

Become(f, result) ==
  /\ page' = result.page
  /\ tracker' = result.tracker
  /\ BagCardinality(result.tracker.requests) <= MaxRequests
  /\ flows' = [flows EXCEPT ![f] = result.flow]

\* An operation starts up to its first await, in a slot of its own.
Start(name, result) ==
  /\ operations < MaxOperations
  /\ operations' = operations + 1
  /\ \E f \in Flows : flows[f] = Idle
  /\ Become(CHOOSE f \in Flows : flows[f] = Idle, result)
  /\ undisturbed' = IF AtRest THEN name ELSE "none"
  /\ UNCHANGED reachable

\* routeSelected, searchSelectRoute.
SelectRoute(r) == Start("select", ApplyRouteFilter(Select(page, r), tracker, r))

\* routeSelected without a route, an empty search, clearFilters, locationReset.
Deselect == Start("default", RestoreDefaultState(page, tracker))

\* systemFilterApplied.
ToggleSystems(ss) ==
  Start("none", ApplySystemFilter([page EXCEPT !.selectedSystems = ss], tracker))

\* directionFilterApplied.
ToggleDirections(ds) ==
  Start("none", ApplyDirectionFilter([page EXCEPT !.selectedDirections = ds], tracker, NoRoute))

\* The first position, its denial, locationSelected.
Locate == Start("none", ShowNearbyStops(page, tracker))

\* refreshColorsWhenRecovered: health is polled every minute.
ColorsRecover ==
  Start("none", Result(page, tracker, Flow("colors", NoRoute, NoRoute, {}, {})))

\* An answer arrives and the activation runs to its next await.
Answer(f) ==
  /\ flows[f].at \notin {"idle", "nearby"}
  /\ Become(f, Continue(page, tracker, flows[f], reachable))
  /\ undisturbed' = IF reachable THEN undisturbed ELSE "none"
  /\ UNCHANGED <<reachable, operations>>

AnswerNearby(f) ==
  /\ flows[f].at = "nearby"
  /\ \E found \in IF reachable THEN SUBSET flows[f].found ELSE {{}} :
       \E first \in SUBSET found :
         /\ found # {} => first # {}
         /\ found \cap PrtRoutes # {} => first \cap PrtRoutes # {}
         /\ Become(f, ContinueNearby(page, tracker, flows[f], found, first))
  /\ UNCHANGED <<reachable, operations, undisturbed>>

\* The vehicle tracker's interval.
PollVehicles ==
  /\ MayRequest(tracker)
  /\ \E q \in Due(tracker) : tracker' = Send(tracker, q)
  /\ UNCHANGED <<page, flows, reachable, operations, undisturbed>>

AnswerVehicles(q) ==
  /\ BagIn(q, tracker.requests)
  /\ \E shown \in SUBSET q.routes :
       tracker' = Answered(tracker, q, shown, IF reachable THEN {} ELSE q.routes)
  /\ UNCHANGED <<page, flows, reachable, operations, undisturbed>>

ReachabilityChanges ==
  /\ reachable' = ~reachable
  /\ UNCHANGED <<page, tracker, flows, operations, undisturbed>>

SingleRequests == {Request({r}, FALSE) : r \in Routes}

Next ==
  \/ \E r \in Routes : SelectRoute(r)
  \/ Deselect
  \/ \E ss \in SUBSET Systems : ToggleSystems(ss)
  \/ \E ds \in SUBSET Directions : ToggleDirections(ds)
  \/ Locate \/ ColorsRecover
  \/ \E f \in Flows : Answer(f) \/ AnswerNearby(f)
  \/ PollVehicles \/ ReachabilityChanges
  \/ \E q \in SingleRequests : AnswerVehicles(q)

\* Requests end by themselves and the interval keeps firing.  What the user and
\* the network do is left open.
Fairness ==
  /\ \A f \in Flows : WF_vars(Answer(f) \/ AnswerNearby(f))
  /\ WF_vars(PollVehicles)
  /\ \A q \in SingleRequests : WF_vars(AnswerVehicles(q))

Spec == Init /\ [][Next]_vars /\ Fairness

-----------------------------------------------------------------------------
(* Properties *)

\* Whatever earlier overlaps left on the map, a selection that runs alone ends
\* with exactly the selected route: its polylines with the toggled directions
\* visible, the stops of these, no nearby stops, and its vehicles polled.
UndisturbedSelectionShows ==
  AtRest /\ undisturbed = "select" =>
    LET r == page.selectedRouteId
        ds == EnabledDirections(page, DirectionsOf[r])
    IN /\ page.map.lines = {r}
       /\ page.map.hidden = {r} \X (DirectionsOf[r] \ ds)
       /\ page.map.stops = {r} \X ds
       /\ ~page.nearbyStopsActive
       /\ tracker.polled = r

\* Likewise the default view: nearby routes with stops of theirs, nothing polled.
UndisturbedDefaultShows ==
  AtRest /\ undisturbed = "default" =>
    /\ page.selectedRouteId = NoRoute
    /\ page.map.lines = page.nearbyRouteIds
    /\ page.map.stops \subseteq NearbyKeys(page.nearbyRouteIds)
    /\ page.map.stops = {} <=> page.nearbyRouteIds = {}
    /\ tracker.polled = NoRoute

\* What runs alone leaves the page as the member chose it, whatever ran before.
UndisturbedPageShowsTheChoice == UndisturbedSelectionShows /\ UndisturbedDefaultShows

\* Overlaps may leave polylines and vehicles of routes that are not selected any
\* more, but no directional stop markers: their render asks again after its
\* await.  The old ones stay only until the new route's metadata is there.
DirectionalStopsFollowTheSelection ==
  \A k \in page.map.stops :
    \/ k[2] = "NEARBY"
    \/ k[1] = page.selectedRouteId
    \/ \E f \in Flows : flows[f].at = "routes"

\* Vehicles of a route polled before disappear again, as long as the server
\* answers: the polls of the new route replace them.
VehiclesFollowThePoll ==
  \A r \in Routes :
    <>[](tracker.polled = r /\ reachable) => <>[](tracker.vehicles \subseteq {r})
=============================================================================
