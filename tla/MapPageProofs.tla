----------------------------- MODULE MapPageProofs -----------------------------
(***************************************************************************)
(* Proofs about MapPage, for any routes, directions and number of          *)
(* operations under way.                                                   *)
(*                                                                         *)
(* The synchronous parts of the controller are operators on the page, so   *)
(* each of them gets a lemma: the types of its result, and that it leaves  *)
(* no directional stop markers but those of the selected route.            *)
(***************************************************************************)
EXTENDS MapPage, TLAPS

Follows(p) ==
  \A k \in p.map.stops : k[2] = "NEARBY" \/ k[1] = p.selectedRouteId

\* What the answer an activation awaits is about.
FlowOK(fl) ==
  /\ fl \in FlowType
  /\ fl.at \in {"routes", "patterns", "detours", "render", "nearbyGeometry"} => fl.route \in Routes
  /\ fl.at = "stops" => fl.of \in Routes /\ fl.todo \subseteq Directions /\ fl.todo # {}
  /\ fl.at \in {"render", "nearby", "nearbyGeometry"} => fl.todo \subseteq Routes

ResultOK(res) == res.page \in Pages /\ IsTracker(res.tracker) /\ FlowOK(res.flow)

\* The result of a part that starts with page p.
Keeps(p, res) ==
  /\ ResultOK(res)
  /\ Follows(p) => Follows(res.page) \/ res.flow.at = "routes"

FlowsOK == \A f \in Flows : FlowOK(flows[f])

-----------------------------------------------------------------------------
(* Pictures and pages *)

\* What is drawn and cleared is of the routes and directions there are.
LEMMA PicturesAreTyped ==
  ASSUME NEW pic \in Pictures
  PROVE  /\ EmptyPicture \in Pictures
         /\ \A r \in Routes : /\ RenderRouteGeometry(pic, r) \in Pictures
                              /\ ClearRoutePolylines(pic, r) \in Pictures
         /\ \A r \in Routes, k \in Kinds : RenderStopMarkers(pic, r, k) \in Pictures
         /\ \A keys : ClearStopMarkers(pic, keys) \in Pictures
         /\ \A rs : HideRoutes(pic, rs) \in Pictures /\ ShowRoutes(pic, rs) \in Pictures
<1>1. EmptyPicture \in Pictures
  BY DEF EmptyPicture, Pictures
<1>2. ASSUME NEW r \in Routes
      PROVE  RenderRouteGeometry(pic, r) \in Pictures /\ ClearRoutePolylines(pic, r) \in Pictures
  BY DEF RenderRouteGeometry, ClearRoutePolylines, Pictures
<1>3. ASSUME NEW r \in Routes, NEW k \in Kinds
      PROVE  RenderStopMarkers(pic, r, k) \in Pictures
  BY DEF RenderStopMarkers, Pictures
<1>4. ASSUME NEW keys
      PROVE  ClearStopMarkers(pic, keys) \in Pictures
  BY DEF ClearStopMarkers, Pictures
<1>5. ASSUME NEW rs
      PROVE  HideRoutes(pic, rs) \in Pictures /\ ShowRoutes(pic, rs) \in Pictures
  BY DEF HideRoutes, ShowRoutes, Pictures
<1>6. QED
  BY <1>1, <1>2, <1>3, <1>4, <1>5

\* The stop markers that stay.
LEMMA StopsOfPictures ==
  ASSUME NEW pic \in Pictures
  PROVE  /\ EmptyPicture.stops = {}
         /\ \A r : RenderRouteGeometry(pic, r).stops = pic.stops /\ ClearRoutePolylines(pic, r).stops = pic.stops
         /\ \A keys : ClearStopMarkers(pic, keys).stops = pic.stops \ keys
         /\ \A rs : HideRoutes(pic, rs).stops = pic.stops /\ ShowRoutes(pic, rs).stops = pic.stops
         /\ \A r, ds : ShowDirectionsOnly(pic, r, ds).stops = pic.stops
BY DEF EmptyPicture, RenderRouteGeometry, ClearRoutePolylines, ClearStopMarkers, HideRoutes,
       ShowRoutes, ShowDirectionsOnly, Pictures

\* A page with another picture.
LEMMA PagesWithPictures ==
  ASSUME NEW p \in Pages
  PROVE  /\ p.map \in Pictures
         /\ \A pic \in Pictures :
              LET q == [p EXCEPT !.map = pic]
              IN /\ q \in Pages /\ q.map = pic
                 /\ q.selectedRouteId = p.selectedRouteId /\ q.availableRoutes = p.availableRoutes
                 /\ q.nearbyRouteIds = p.nearbyRouteIds /\ q.selectedDirections = p.selectedDirections
                 /\ q.nearbyStopsActive = p.nearbyStopsActive
BY DEF Pages

LEMMA DirectionsAreShown ==
  ASSUME NEW pic \in Pictures, NEW r \in Routes, NEW ds
  PROVE  ShowDirectionsOnly(pic, r, ds) \in Pictures
<1>1. DirectionsOf[r] \subseteq Directions
  BY RoutesAssumption
<1>2. QED
  BY <1>1 DEF ShowDirectionsOnly, Pictures

-----------------------------------------------------------------------------
(* Parts of the operations *)

LEMMA DirectionsAreEnabled ==
  ASSUME NEW p \in Pages, NEW ds \in SUBSET Directions
  PROVE  EnabledDirections(p, ds) \subseteq ds
BY DEF EnabledDirections

LEMMA FilteredPages ==
  ASSUME NEW p \in Pages
  PROVE  /\ ReapplyFilters(p) \in Pages /\ ReapplyFilters(p).map = p.map
         /\ ReapplyFilters(p).selectedRouteId = p.selectedRouteId
         /\ ReapplyFilters(p).availableRoutes = p.availableRoutes
         /\ \A rs \in SUBSET Routes :
              LET q == SetAvailableRoutes(p, rs)
              IN /\ q \in Pages /\ q.map = p.map /\ q.selectedRouteId = p.selectedRouteId
                 /\ q.availableRoutes = rs /\ q.nearbyStopsActive = p.nearbyStopsActive
                 /\ q.selectedDirections = p.selectedDirections
<1>1. \A q \in Pages : Filtered(q) \in SUBSET Routes
  BY DEF Filtered, Pages
<1>2. ASSUME NEW q \in Pages
      PROVE  /\ ReapplyFilters(q) \in Pages /\ ReapplyFilters(q).map = q.map
             /\ ReapplyFilters(q).selectedRouteId = q.selectedRouteId
             /\ ReapplyFilters(q).availableRoutes = q.availableRoutes
             /\ ReapplyFilters(q).nearbyStopsActive = q.nearbyStopsActive
             /\ ReapplyFilters(q).selectedDirections = q.selectedDirections
  BY <1>1 DEF ReapplyFilters, Pages
<1>3. ASSUME NEW rs \in SUBSET Routes
      PROVE  LET q == [p EXCEPT !.availableRoutes = rs]
             IN /\ q \in Pages /\ q.map = p.map /\ q.selectedRouteId = p.selectedRouteId
                /\ q.availableRoutes = rs /\ q.nearbyStopsActive = p.nearbyStopsActive
                /\ q.selectedDirections = p.selectedDirections
  BY DEF Pages
<1>4. ASSUME NEW rs \in SUBSET Routes
      PROVE  LET q == SetAvailableRoutes(p, rs)
             IN /\ q \in Pages /\ q.map = p.map /\ q.selectedRouteId = p.selectedRouteId
                /\ q.availableRoutes = rs /\ q.nearbyStopsActive = p.nearbyStopsActive
                /\ q.selectedDirections = p.selectedDirections
  <2> DEFINE u == [p EXCEPT !.availableRoutes = rs]
  <2>1. SetAvailableRoutes(p, rs) = ReapplyFilters(u)
    BY DEF SetAvailableRoutes
  <2>2. /\ u \in Pages /\ u.map = p.map /\ u.selectedRouteId = p.selectedRouteId
        /\ u.availableRoutes = rs /\ u.nearbyStopsActive = p.nearbyStopsActive
        /\ u.selectedDirections = p.selectedDirections
    BY <1>3
  <2> HIDE DEF u
  <2>3. QED
    BY <1>2, <2>1, <2>2
<1>5. QED
  BY <1>2, <1>4

\* The nearby stops go; what is hidden of other routes may come back.
LEMMA NearbyIsCleared ==
  ASSUME NEW p \in Pages, NEW rs
  PROVE  /\ ClearNearby(p, rs) \in Pages /\ ForgetNearby(p) \in Pages
         /\ ClearNearby(p, rs).map.stops \subseteq p.map.stops
         /\ ForgetNearby(p).map = p.map /\ ForgetNearby(p).nearbyRouteIds = {}
         /\ ~ForgetNearby(p).nearbyStopsActive /\ ~ClearNearby(p, rs).nearbyStopsActive
         /\ ClearNearby(p, rs).selectedRouteId = p.selectedRouteId
         /\ ForgetNearby(p).selectedRouteId = p.selectedRouteId
         /\ ClearNearby(p, rs).availableRoutes = p.availableRoutes
         /\ ClearNearby(p, rs).selectedDirections = p.selectedDirections
<1>1. /\ ForgetNearby(p) \in Pages /\ ForgetNearby(p).map = p.map
      /\ ForgetNearby(p).nearbyRouteIds = {} /\ ForgetNearby(p).nearbyStopsActive = FALSE
      /\ ForgetNearby(p).selectedRouteId = p.selectedRouteId
      /\ ForgetNearby(p).availableRoutes = p.availableRoutes
      /\ ForgetNearby(p).selectedDirections = p.selectedDirections
  BY DEF ForgetNearby, Pages
<1> DEFINE pic == ShowRoutes(ClearStopMarkers(p.map, NearbyKeys(rs)), p.availableRoutes \ p.nearbyRouteIds)
<1>2. p.map \in Pictures /\ pic \in Pictures /\ pic.stops \subseteq p.map.stops
  BY PagesWithPictures, PicturesAreTyped, StopsOfPictures
<1>3. ClearNearby(p, rs) = IF ~p.nearbyStopsActive THEN p ELSE [ForgetNearby(p) EXCEPT !.map = pic]
  BY <1>1 DEF ClearNearby
<1> HIDE DEF pic
<1>4. QED
  BY <1>1, <1>2, <1>3, PagesWithPictures

LEMMA TrackersAreTyped ==
  ASSUME NEW t, IsTracker(t)
  PROVE  /\ IsTracker(StopPolling(t)) /\ StopPolling(t).polled = NoRoute
         /\ \A r \in Routes : IsTracker(StartPolling(t, r)) /\ StartPolling(t, r).polled = r
         /\ \A q \in Requests : IsTracker(Send(t, q)) /\ Send(t, q).polled = t.polled
         /\ \A q \in Requests, shown \in SUBSET Routes : \A failed :
              /\ IsTracker(Answered(t, q, shown, failed))
              /\ Answered(t, q, shown, failed).polled = t.polled
<1> DEFINE Typed(u) == u \in [polled : Routes \cup {NoRoute}, multi : SUBSET Routes,
                             vehicles : SUBSET Routes, requests : {u.requests}]
<1>1. ASSUME NEW u, IsTracker(u), NEW q \in Requests
      PROVE  IsTracker(Send(u, q)) /\ Send(u, q).polled = u.polled
  <2> DEFINE sent == u.requests (+) SetToBag({q})
  <2>1. IsABag(sent) /\ BagToSet(sent) \subseteq Requests
    BY <1>1 DEF IsTracker, IsABag, BagToSet, SetToBag, (+)
  <2>2. Send(u, q) = [u EXCEPT !.requests = sent]
    BY DEF Send
  <2> HIDE DEF sent
  <2>3. QED
    BY <1>1, <2>1, <2>2 DEF IsTracker
<1>2. IsTracker(StopPolling(t)) /\ StopPolling(t).polled = NoRoute
  BY DEF IsTracker, StopPolling
<1>3. ASSUME NEW r \in Routes
      PROVE  IsTracker(StartPolling(t, r)) /\ StartPolling(t, r).polled = r
  <2> DEFINE u == [StopPolling(t) EXCEPT !.polled = r]
  <2>1. IsTracker(u) /\ u.polled = r
    BY <1>2 DEF IsTracker
  <2>2. Request({r}, FALSE) \in Requests
    BY DEF Requests
  <2> HIDE DEF u
  <2>3. IsTracker(Send(u, Request({r}, FALSE))) /\ Send(u, Request({r}, FALSE)).polled = r
    BY <1>1, <2>1, <2>2
  <2>4. QED
    BY <2>3 DEF StartPolling, u
<1>4. ASSUME NEW q \in Requests, NEW shown \in SUBSET Routes, NEW failed
      PROVE  /\ IsTracker(Answered(t, q, shown, failed))
             /\ Answered(t, q, shown, failed).polled = t.polled
  <2> DEFINE left == t.requests (-) SetToBag({q})
             done == [t EXCEPT !.requests = left]
  <2>1. IsABag(left) /\ BagToSet(left) \subseteq Requests
    BY DEF IsTracker, IsABag, BagToSet, SetToBag, (-)
  <2> HIDE DEF left
  <2>2. IsTracker(done) /\ done.polled = t.polled
    BY <2>1 DEF IsTracker
  <2>3. IsTracker(RenderVehicles(done, shown \ failed))
        /\ RenderVehicles(done, shown \ failed).polled = t.polled
    <3> HIDE DEF done
    <3>1. QED
      BY <2>2 DEF IsTracker, RenderVehicles
  <2>4. QED
    BY <2>2, <2>3 DEF Answered, left
<1>5. QED
  BY <1>1, <1>2, <1>3, <1>4

-----------------------------------------------------------------------------
(* The operations up to their next await *)

LEMMA IdleIsOK == FlowOK(Idle) /\ Idle.at = "idle"
BY DEF Idle, Flow, FlowOK, FlowType, Awaits

\* An activation that goes on with a page that follows.
LEMMA ResultsKeep ==
  ASSUME NEW p, NEW q \in Pages, NEW t, IsTracker(t), NEW fl, FlowOK(fl),
         Follows(p) => Follows(q) \/ fl.at = "routes"
  PROVE  Keeps(p, Result(q, t, fl))
BY DEF Keeps, ResultOK, Result

LEMMA FinishKeeps ==
  ASSUME NEW p, NEW q \in Pages, NEW t, IsTracker(t), Follows(p) => Follows(q)
  PROVE  Keeps(p, Finish(q, t))
BY ResultsKeep, IdleIsOK DEF Finish

LEMMA AfterStopsKeeps ==
  ASSUME NEW p, NEW q \in Pages, NEW t, IsTracker(t), NEW r \in Routes \cup {NoRoute},
         Follows(p) => Follows(q)
  PROVE  Keeps(p, AfterStops(q, t, r))
<1>1. r \in Routes => FlowOK(Flow("detours", r, NoRoute, {}, {}))
  BY DEF Flow, FlowOK, FlowType, Awaits
<1>2. QED
  BY <1>1, FinishKeeps, ResultsKeep, RoutesAssumption DEF AfterStops, AwaitDetours

LEMMA MoreStops ==
  ASSUME NEW u, NEW pic, NEW S, u.map = pic
  PROVE  [u EXCEPT !.map.stops = @ \cup S] = [u EXCEPT !.map = [pic EXCEPT !.stops = @ \cup S]]
OBVIOUS

\* Only the selected route gets directional stops.
LEMMA RefreshKeeps ==
  ASSUME NEW p, NEW q \in Pages, NEW t, IsTracker(t), NEW r \in Routes \cup {NoRoute},
         NEW of \in Routes, NEW ds \in SUBSET Directions, Follows(p) => Follows(q)
  PROVE  Keeps(p, RefreshStopMarkers(q, t, r, of, ds))
<1> DEFINE pic == ClearStopMarkers(q.map, DirectionKeys(of))
           cleared == [q EXCEPT !.map = pic]
           more == [pic EXCEPT !.stops = @ \cup ({of} \X ds)]
           drawn == [cleared EXCEPT !.map.stops = @ \cup ({of} \X ds)]
<1>1. pic \in Pictures /\ pic.stops \subseteq q.map.stops
  <2>1. q.map \in Pictures
    BY PagesWithPictures
  <2>2. QED
    BY <2>1, PicturesAreTyped, StopsOfPictures
<1>2. more \in Pictures /\ more.stops = pic.stops \cup ({of} \X ds)
  <2> HIDE DEF pic
  <2>1. {of} \X ds \subseteq Routes \X Kinds
    BY DEF Kinds
  <2>2. QED
    BY <1>1, <2>1 DEF Pictures
<1>3. cleared \in Pages /\ cleared.map = pic /\ cleared.selectedRouteId = q.selectedRouteId
  <2> HIDE DEF pic
  <2>1. QED
    BY <1>1, PagesWithPictures
<1>4. drawn = [cleared EXCEPT !.map = more]
  <2> HIDE DEF pic, cleared
  <2>1. cleared.map = pic
    BY <1>3
  <2>2. QED
    BY <2>1, MoreStops
<1>5. drawn \in Pages /\ drawn.map = more /\ drawn.selectedRouteId = q.selectedRouteId
  <2> HIDE DEF pic, cleared, more, drawn
  <2>1. QED
    BY <1>2, <1>3, <1>4, PagesWithPictures
<1>6. Follows(p) => Follows(cleared)
  <2> HIDE DEF pic, cleared
  <2>1. QED
    BY <1>1, <1>3 DEF Follows
<1>7. StillWanted(cleared, of) /\ Follows(p) => Follows(drawn)
  <2> HIDE DEF pic, cleared, more, drawn
  <2>1. QED
    BY <1>1, <1>2, <1>3, <1>5 DEF Follows, StillWanted
<1>8. ds # {} => FlowOK(Flow("stops", r, of, ds, {}))
  BY DEF Flow, FlowOK, FlowType, Awaits
<1>9. RefreshStopMarkers(q, t, r, of, ds) =
        CASE ds = {} \/ (InBulk(of) /\ ~StillWanted(q, of)) -> AfterStops(cleared, t, r)
          [] InBulk(of) /\ ds # {} /\ StillWanted(q, of) -> AfterStops(drawn, t, r)
          [] OTHER -> Result(cleared, t, Flow("stops", r, of, ds, {}))
  BY DEF RefreshStopMarkers
<1> HIDE DEF cleared, drawn, pic, more
<1>10. StillWanted(q, of) => StillWanted(cleared, of)
  BY <1>3 DEF StillWanted
<1>11. Keeps(p, AfterStops(cleared, t, r))
  BY <1>3, <1>6, AfterStopsKeeps
<1>12. StillWanted(q, of) => Keeps(p, AfterStops(drawn, t, r))
  BY <1>5, <1>7, <1>10, AfterStopsKeeps
<1>13. ds # {} => Keeps(p, Result(cleared, t, Flow("stops", r, of, ds, {})))
  BY <1>3, <1>6, <1>8, ResultsKeep
<1>14. QED
  BY <1>9, <1>11, <1>12, <1>13

LEMMA DirectionFilterKeeps ==
  ASSUME NEW p, NEW q \in Pages, NEW t, IsTracker(t), NEW r \in Routes \cup {NoRoute},
         Follows(p) => Follows(q)
  PROVE  Keeps(p, ApplyDirectionFilter(q, t, r))
<1> DEFINE of == q.selectedRouteId
           ds == EnabledDirections(q, DirectionsOf[of])
           pic == ShowDirectionsOnly(q.map, of, ds)
           u == [q EXCEPT !.map = pic]
<1>1. CASE of \notin q.availableRoutes
  BY <1>1, AfterStopsKeeps DEF ApplyDirectionFilter
<1>2. CASE of \in q.availableRoutes
  <2>1. of \in Routes /\ q.map \in Pictures
    BY <1>2 DEF Pages
  <2>2. ds \subseteq Directions
    BY <2>1, RoutesAssumption, DirectionsAreEnabled
  <2>3. pic \in Pictures /\ pic.stops = q.map.stops
    BY <2>1, DirectionsAreShown, StopsOfPictures
  <2>4. u \in Pages /\ u.map = pic /\ u.selectedRouteId = of
    <3> HIDE DEF pic
    <3>1. QED
      BY <2>3, PagesWithPictures
  <2>5. Follows(p) => Follows(u)
    <3> HIDE DEF pic, u
    <3>1. QED
      BY <2>3, <2>4 DEF Follows
  <2>6. ApplyDirectionFilter(q, t, r) = RefreshStopMarkers(u, t, r, of, ds)
    BY <1>2 DEF ApplyDirectionFilter
  <2> HIDE DEF u, ds
  <2>7. QED
    BY <2>1, <2>2, <2>4, <2>5, <2>6, RefreshKeeps
<1>3. QED
  BY <1>1, <1>2

LEMMA RenderStopsKeeps ==
  ASSUME NEW p, NEW q \in Pages, NEW t, IsTracker(t), NEW r \in Routes, NEW known,
         Follows(p) => Follows(q)
  PROVE  Keeps(p, RenderRouteStops(q, t, r, known))
<1> DEFINE ds == EnabledDirections(q, IF r \in CmuRoutes THEN {"OUTBOUND"} ELSE Directions)
<1>1. ds \subseteq Directions
  <2>1. (IF r \in CmuRoutes THEN {"OUTBOUND"} ELSE Directions) \in SUBSET Directions
    BY DEF Directions
  <2>2. QED
    BY <2>1, DirectionsAreEnabled
<1>2. RenderRouteStops(q, t, r, known) =
        IF known THEN ApplyDirectionFilter(q, t, r) ELSE RefreshStopMarkers(q, t, r, r, ds)
  BY DEF RenderRouteStops
<1> HIDE DEF ds
<1>3. QED
  BY <1>1, <1>2, DirectionFilterKeeps, RefreshKeeps

\* Before a route is rendered nothing is left on the map.
LEMMA PreparedMap ==
  ASSUME NEW q \in Pages
  PROVE  LET u == PrepareMap(q)
         IN /\ u \in Pages /\ u.map = EmptyPicture /\ ~u.nearbyStopsActive /\ Follows(u)
            /\ u.selectedRouteId = q.selectedRouteId /\ u.availableRoutes = q.availableRoutes
            /\ u.selectedDirections = q.selectedDirections
<1> DEFINE c == ClearNearby(q, q.availableRoutes)
           u == PrepareMap(q)
<1>1. c \in Pages /\ ~c.nearbyStopsActive
      /\ c.selectedRouteId = q.selectedRouteId /\ c.availableRoutes = q.availableRoutes
      /\ c.selectedDirections = q.selectedDirections
  BY NearbyIsCleared
<1>2. u = [c EXCEPT !.map = EmptyPicture] /\ EmptyPicture \in Pictures
  BY PagesWithPictures, PicturesAreTyped DEF PrepareMap, ClearAllRoutes
<1> HIDE DEF c, u
<1>3. /\ u \in Pages /\ u.map = EmptyPicture /\ ~u.nearbyStopsActive
      /\ u.selectedRouteId = q.selectedRouteId /\ u.availableRoutes = q.availableRoutes
      /\ u.selectedDirections = q.selectedDirections
  BY <1>1, <1>2, PagesWithPictures
<1>4. Follows(u)
  BY <1>3 DEF Follows, EmptyPicture
<1>5. QED
  BY <1>3, <1>4 DEF u

\* A page with the polylines of one more route.
LEMMA GeometryOnPages ==
  ASSUME NEW q \in Pages, NEW r \in Routes
  PROVE  LET u == [q EXCEPT !.map = RenderRouteGeometry(@, r)]
         IN /\ u \in Pages /\ u.map = RenderRouteGeometry(q.map, r)
            /\ u.map.stops = q.map.stops
            /\ u.selectedRouteId = q.selectedRouteId /\ u.availableRoutes = q.availableRoutes
            /\ u.nearbyRouteIds = q.nearbyRouteIds /\ u.selectedDirections = q.selectedDirections
            /\ u.nearbyStopsActive = q.nearbyStopsActive
            /\ (Follows(q) => Follows(u))
<1> DEFINE pic == RenderRouteGeometry(q.map, r)
           u == [q EXCEPT !.map = RenderRouteGeometry(@, r)]
<1>1. u = [q EXCEPT !.map = pic] /\ pic \in Pictures /\ pic.stops = q.map.stops
  BY PagesWithPictures, PicturesAreTyped, StopsOfPictures
<1> HIDE DEF pic, u
<1>2. /\ u \in Pages /\ u.map = pic /\ u.selectedRouteId = q.selectedRouteId
      /\ u.availableRoutes = q.availableRoutes /\ u.nearbyRouteIds = q.nearbyRouteIds
      /\ u.selectedDirections = q.selectedDirections /\ u.nearbyStopsActive = q.nearbyStopsActive
  BY <1>1, PagesWithPictures
<1>3. QED
  BY <1>1, <1>2 DEF Follows, pic, u

\* Whatever was on the map before.
LEMMA PrepareKeeps ==
  ASSUME NEW p, NEW q \in Pages, NEW t, IsTracker(t), NEW r \in Routes
  PROVE  Keeps(p, PrepareAndRender(q, t, r))
<1> DEFINE known == r \in q.availableRoutes
           ready == PrepareMap(q)
           rest == StopPolling(t)
           u == [ready EXCEPT !.map = RenderRouteGeometry(@, r)]
           fl == Flow("patterns", r, NoRoute, {}, IF known THEN {r} ELSE {})
<1>1. ready \in Pages /\ Follows(ready) /\ IsTracker(rest)
  BY PreparedMap, TrackersAreTyped
<1>2. u \in Pages /\ Follows(u)
  <2> HIDE DEF ready
  <2>1. QED
    BY <1>1, GeometryOnPages
<1>3. FlowOK(fl)
  BY DEF Flow, FlowOK, FlowType, Awaits
<1>4. PrepareAndRender(q, t, r) = IF InBulk(r) THEN RenderRouteStops(u, rest, r, known)
                                  ELSE Result(ready, rest, fl)
  BY DEF PrepareAndRender
<1> HIDE DEF known, ready, rest, u, fl
<1>5. QED
  BY <1>1, <1>2, <1>3, <1>4, RenderStopsKeeps, ResultsKeep

LEMMA RouteFilterKeeps ==
  ASSUME NEW p, NEW q \in Pages, NEW t, IsTracker(t), NEW r \in Routes
  PROVE  Keeps(p, ApplyRouteFilter(q, t, r))
<1>1. LET fl == Flow("routes", r, NoRoute, {}, {})
      IN FlowOK(fl) /\ fl.at = "routes"
  BY DEF Flow, FlowOK, FlowType, Awaits
<1>2. QED
  BY <1>1, PrepareKeeps, ResultsKeep DEF ApplyRouteFilter

LEMMA LocatedPages ==
  ASSUME NEW q \in Pages
  PROVE  LET u == [q EXCEPT !.userLocation = TRUE]
         IN /\ u \in Pages /\ u.map = q.map /\ u.selectedRouteId = q.selectedRouteId
            /\ u.availableRoutes = q.availableRoutes /\ u.nearbyRouteIds = q.nearbyRouteIds
            /\ u.nearbyStopsActive = q.nearbyStopsActive
            /\ u.selectedSystems = q.selectedSystems
BY DEF Pages

LEMMA NearbyStopsKeep ==
  ASSUME NEW p, NEW q \in Pages, NEW t, IsTracker(t), Follows(p) => Follows(q)
  PROVE  Keeps(p, ShowNearbyStops(q, t))
<1> DEFINE u == [q EXCEPT !.userLocation = TRUE]
           c == ClearNearby(u, u.nearbyRouteIds)
           asked == {r \in Routes : SystemOf(r) \in q.selectedSystems \/ q.selectedSystems = {}}
           fl == Flow("nearby", NoRoute, NoRoute, q.availableRoutes, asked)
<1>1. u \in Pages /\ u.map = q.map /\ u.selectedRouteId = q.selectedRouteId
      /\ u.availableRoutes = q.availableRoutes /\ u.selectedSystems = q.selectedSystems
  BY LocatedPages
<1>2. ShowNearbyStops(q, t) = IF q.selectedRouteId # NoRoute THEN Finish(u, t) ELSE Result(c, t, fl)
  <2>1. q.availableRoutes = u.availableRoutes
    BY <1>1
  <2>2. QED
    BY <2>1, <1>1 DEF ShowNearbyStops, Pages
<1>3. FlowOK(fl)
  <2>1. q.availableRoutes \subseteq Routes
    BY DEF Pages
  <2>2. QED
    BY <2>1 DEF Flow, FlowOK, FlowType, Awaits
<1> HIDE DEF u
<1>4. /\ c \in Pages /\ c.map.stops \subseteq q.map.stops /\ c.selectedRouteId = q.selectedRouteId
  BY <1>1, NearbyIsCleared
<1> HIDE DEF c, fl
<1>5. (Follows(p) => Follows(u)) /\ (Follows(p) => Follows(c))
  BY <1>1, <1>4 DEF Follows
<1>6. QED
  BY <1>1, <1>2, <1>3, <1>4, <1>5, FinishKeeps, ResultsKeep

\* The lines of more routes.
LEMMA MoreLines ==
  ASSUME NEW q \in Pages, NEW rs \in SUBSET Routes
  PROVE  LET u == [q EXCEPT !.map.lines = @ \cup rs]
         IN /\ u \in Pages /\ u.map.lines = q.map.lines \cup rs
            /\ u.map.stops = q.map.stops /\ u.map.hidden = q.map.hidden
            /\ u.selectedRouteId = q.selectedRouteId /\ u.availableRoutes = q.availableRoutes
            /\ u.nearbyRouteIds = q.nearbyRouteIds /\ u.nearbyStopsActive = q.nearbyStopsActive
            /\ (Follows(q) => Follows(u))
<1> DEFINE u == [q EXCEPT !.map.lines = @ \cup rs]
           pic == [q.map EXCEPT !.lines = @ \cup rs]
<1>1. pic \in Pictures /\ pic.stops = q.map.stops /\ pic.hidden = q.map.hidden
      /\ pic.lines = q.map.lines \cup rs
  <2>1. q.map \in Pictures
    BY PagesWithPictures
  <2>2. QED
    BY <2>1 DEF Pictures
<1>2. u = [q EXCEPT !.map = pic]
  OBVIOUS
<1> HIDE DEF u, pic
<1>3. /\ u \in Pages /\ u.map = pic
      /\ u.selectedRouteId = q.selectedRouteId /\ u.availableRoutes = q.availableRoutes
      /\ u.nearbyRouteIds = q.nearbyRouteIds /\ u.nearbyStopsActive = q.nearbyStopsActive
  BY <1>1, <1>2, PagesWithPictures
<1>4. Follows(q) => Follows(u)
  BY <1>1, <1>3 DEF Follows
<1>5. QED
  BY <1>1, <1>3, <1>4 DEF u

\* Nearby markers are no directional ones.
LEMMA NearbyMarkers ==
  ASSUME NEW q \in Pages, NEW found \in SUBSET Routes
  PROVE  LET u == [q EXCEPT !.map.stops = @ \cup NearbyKeys(found), !.nearbyStopsActive = TRUE]
         IN /\ u \in Pages /\ u.map = [q.map EXCEPT !.stops = @ \cup NearbyKeys(found)]
            /\ u.selectedRouteId = q.selectedRouteId /\ u.nearbyRouteIds = q.nearbyRouteIds
            /\ (Follows(q) => Follows(u))
<1> DEFINE u == [q EXCEPT !.map.stops = @ \cup NearbyKeys(found), !.nearbyStopsActive = TRUE]
           pic == [q.map EXCEPT !.stops = @ \cup NearbyKeys(found)]
<1>1. NearbyKeys(found) \subseteq Routes \X Kinds /\ \A k \in NearbyKeys(found) : k[2] = "NEARBY"
  BY DEF NearbyKeys, Kinds
<1>2. pic \in Pictures /\ pic.stops = q.map.stops \cup NearbyKeys(found)
  <2>1. q.map \in Pictures
    BY PagesWithPictures
  <2>2. QED
    BY <1>1, <2>1 DEF Pictures
<1>3. u = [[q EXCEPT !.map = pic] EXCEPT !.nearbyStopsActive = TRUE]
  OBVIOUS
<1> HIDE DEF u, pic
<1>4. /\ u \in Pages /\ u.map = pic
      /\ u.selectedRouteId = q.selectedRouteId /\ u.nearbyRouteIds = q.nearbyRouteIds
  <2> DEFINE w == [q EXCEPT !.map = pic]
  <2>1. /\ w \in Pages /\ w.map = pic
        /\ w.selectedRouteId = q.selectedRouteId /\ w.nearbyRouteIds = q.nearbyRouteIds
    BY <1>2, PagesWithPictures
  <2> HIDE DEF w
  <2>2. u = [w EXCEPT !.nearbyStopsActive = TRUE]
    BY <1>3 DEF w
  <2>3. QED
    BY <2>1, <2>2 DEF Pages
<1>5. Follows(q) => Follows(u)
  BY <1>1, <1>2, <1>4 DEF Follows
<1>6. QED
  BY <1>4, <1>5 DEF u, pic

LEMMA NearbyRoutesKeep ==
  ASSUME NEW p, NEW q \in Pages, NEW t, IsTracker(t), NEW visited \in SUBSET Routes,
         NEW found \in SUBSET Routes, Follows(p) => Follows(q)
  PROVE  Keeps(p, ShowNearbyRoutes(q, t, visited, found))
<1> DEFINE bulk == {r \in q.nearbyRouteIds : InBulk(r) /\ ~HasRouteGeometry(q.map, r)}
           u == [q EXCEPT !.map.lines = @ \cup bulk]
           left == {r \in q.nearbyRouteIds \ visited : ~InBulk(r) /\ ~HasRouteGeometry(q.map, r)}
           next == CHOOSE r \in left : TRUE
           fl == Flow("nearbyGeometry", next, NoRoute, visited \cup {next}, found)
           shown == [u EXCEPT !.map.stops = @ \cup NearbyKeys(found), !.nearbyStopsActive = TRUE]
<1>1. bulk \in SUBSET Routes /\ left \in SUBSET Routes
  BY DEF Pages
<1>2. ShowNearbyRoutes(q, t, visited, found) =
        IF left # {} THEN Result(u, t, fl) ELSE Finish(shown, t)
  BY DEF ShowNearbyRoutes
<1>3. u \in Pages /\ (Follows(p) => Follows(u))
  <2> HIDE DEF bulk
  <2>1. QED
    BY <1>1, MoreLines
<1>4. left # {} => FlowOK(fl)
  <2>1. left # {} => next \in Routes
    <3> HIDE DEF left
    <3>1. QED
      BY <1>1
  <2> HIDE DEF next, left
  <2>2. QED
    BY <2>1 DEF Flow, FlowOK, FlowType, Awaits
<1> HIDE DEF u, left, fl
<1>5. shown \in Pages /\ (Follows(p) => Follows(shown))
  BY <1>3, NearbyMarkers
<1> HIDE DEF shown
<1>6. QED
  BY <1>2, <1>3, <1>4, <1>5, FinishKeeps, ResultsKeep

LEMMA RestoreMapKeeps ==
  ASSUME NEW p, NEW q \in Pages, NEW t, IsTracker(t), Follows(p) => Follows(q)
  PROVE  Keeps(p, RestoreMapContent(q, t))
<1>1. q.selectedRouteId \in Routes \cup {NoRoute}
  BY DEF Pages
<1>2. QED
  BY <1>1, RouteFilterKeeps, NearbyStopsKeep, FinishKeeps DEF RestoreMapContent

LEMMA FilteredRoutesKeep ==
  ASSUME NEW p, NEW q \in Pages, NEW t, IsTracker(t), NEW rs \in SUBSET Routes,
         Follows(p) => Follows(q)
  PROVE  Keeps(p, RenderFilteredRoutes(q, t, rs))
<1> DEFINE bulk == {r \in rs : InBulk(r) /\ ~HasRouteGeometry(q.map, r)}
           u == [q EXCEPT !.map.lines = @ \cup bulk]
           left == {r \in rs : ~InBulk(r) /\ ~HasRouteGeometry(q.map, r)}
           next == CHOOSE r \in left : TRUE
           fl == Flow("render", next, NoRoute, left \ {next}, {})
<1>1. bulk \in SUBSET Routes /\ left \in SUBSET Routes
  OBVIOUS
<1>2. RenderFilteredRoutes(q, t, rs) = IF left = {} THEN RestoreMapContent(u, t) ELSE Result(u, t, fl)
  BY DEF RenderFilteredRoutes
<1>3. u \in Pages /\ (Follows(p) => Follows(u))
  <2> HIDE DEF bulk
  <2>1. QED
    BY <1>1, MoreLines
<1>4. left # {} => FlowOK(fl)
  <2>1. left # {} => next \in Routes
    <3> HIDE DEF left
    <3>1. QED
      BY <1>1
  <2> HIDE DEF next, left
  <2>2. QED
    BY <1>1, <2>1 DEF Flow, FlowOK, FlowType, Awaits
<1> HIDE DEF u, left, fl
<1>5. QED
  BY <1>2, <1>3, <1>4, RestoreMapKeeps, ResultsKeep

\* What the filters exclude leaves the map.
LEMMA RefilterKeeps ==
  ASSUME NEW p, NEW q \in Pages, NEW t, IsTracker(t), Follows(p) => Follows(q)
  PROVE  Keeps(p, Refilter(q, t))
<1> DEFINE u == ReapplyFilters(q)
           gone == u.availableRoutes \ u.filteredRoutes
           w == [u EXCEPT !.map.lines = @ \ gone, !.map.hidden = {h \in @ : h[1] \notin gone},
                          !.map.stops = @ \ (gone \X Directions)]
           pic == [u.map EXCEPT !.lines = @ \ gone, !.hidden = {h \in @ : h[1] \notin gone},
                                !.stops = @ \ (gone \X Directions)]
<1>1. u \in Pages /\ u.map = q.map /\ u.selectedRouteId = q.selectedRouteId
  BY FilteredPages
<1>2. Refilter(q, t) = RenderFilteredRoutes(w, t, u.filteredRoutes)
  BY DEF Refilter
<1> HIDE DEF u
<1>3. u.filteredRoutes \in SUBSET Routes /\ u.map \in Pictures
  BY <1>1 DEF Pages
<1>4. w = [u EXCEPT !.map = pic]
  <2> HIDE DEF gone
  <2>1. QED
    BY <1>1, <1>3 DEF Pages, Pictures
<1>5. pic \in Pictures /\ pic.stops \subseteq q.map.stops
  <2> HIDE DEF gone
  <2>1. QED
    BY <1>1, <1>3 DEF Pictures
<1> HIDE DEF w, pic
<1>6. w \in Pages /\ w.map = pic /\ w.selectedRouteId = q.selectedRouteId
  BY <1>1, <1>4, <1>5, PagesWithPictures
<1>7. Follows(p) => Follows(w)
  BY <1>5, <1>6 DEF Follows
<1>8. QED
  BY <1>2, <1>3, <1>6, <1>7, FilteredRoutesKeep

\* The stops of a selection that a system filter drops go with it.
LEMMA DroppedSelection ==
  ASSUME NEW q \in Pages, q.selectedRouteId \in Routes
  PROVE  DropDisabledSelection(q) \in Pages /\ (Follows(q) => Follows(DropDisabledSelection(q)))
<1> DEFINE r == q.selectedRouteId
           pic == ClearStopMarkers(ClearRoutePolylines(q.map, r), DirectionKeys(r))
           s == Select(q, NoRoute)
           u == DropDisabledSelection(q)
<1>1. q.map \in Pictures
  BY PagesWithPictures
<1>2. ClearRoutePolylines(q.map, r) \in Pictures /\ ClearRoutePolylines(q.map, r).stops = q.map.stops
  BY <1>1, PicturesAreTyped, StopsOfPictures
<1>3. pic \in Pictures /\ pic.stops = q.map.stops \ DirectionKeys(r)
  BY <1>2, PicturesAreTyped, StopsOfPictures
<1>4. s \in Pages /\ s.map = q.map /\ s.selectedRouteId = NoRoute
  BY DEF Select, Pages
<1>5. u = [s EXCEPT !.map = pic]
  BY <1>4 DEF DropDisabledSelection
<1> HIDE DEF s, u, pic
<1>6. u \in Pages /\ u.map = pic /\ u.selectedRouteId = NoRoute
  BY <1>3, <1>4, <1>5, PagesWithPictures
<1>7. Follows(q) => Follows(u)
  <2>1. ASSUME Follows(q), NEW k \in u.map.stops
        PROVE  k[2] = "NEARBY"
    <3>1. k \in q.map.stops /\ k \notin {r} \X Directions
      BY <1>3, <1>6 DEF DirectionKeys
    <3>2. k \in Routes \X Kinds
      BY <1>1, <3>1 DEF Pictures
    <3>3. CASE k[1] = r
      BY <3>1, <3>2, <3>3 DEF Kinds
    <3>4. CASE k[1] # r
      BY <2>1, <3>1, <3>4 DEF Follows
    <3>5. QED
      BY <3>3, <3>4
  <2>2. QED
    BY <2>1 DEF Follows
<1>8. QED
  BY <1>6, <1>7 DEF u

\* An empty map follows any selection.
LEMMA ClearedPages ==
  ASSUME NEW q \in Pages
  PROVE  LET u == [q EXCEPT !.map = ClearAllRoutes(@)]
         IN u \in Pages /\ u.map = EmptyPicture /\ Follows(u)
<1> DEFINE u == [q EXCEPT !.map = ClearAllRoutes(@)]
<1>1. u = [q EXCEPT !.map = EmptyPicture] /\ EmptyPicture \in Pictures
  BY PagesWithPictures, PicturesAreTyped DEF ClearAllRoutes
<1> HIDE DEF u
<1>2. u \in Pages /\ u.map = EmptyPicture
  BY <1>1, PagesWithPictures
<1>3. QED
  BY <1>2 DEF Follows, EmptyPicture, u

LEMMA SystemFilterKeeps ==
  ASSUME NEW p, NEW q \in Pages, NEW t, IsTracker(t), Follows(p) => Follows(q)
  PROVE  Keeps(p, ApplySystemFilter(q, t))
<1> DEFINE drops == q.selectedRouteId \in q.availableRoutes /\ SystemOf(q.selectedRouteId) \notin q.selectedSystems
           u == IF drops THEN DropDisabledSelection(q) ELSE q
           v == IF drops THEN StopPolling(t) ELSE t
           c == [q EXCEPT !.map = ClearAllRoutes(@)]
           fl == Flow("prefetch", NoRoute, NoRoute, {}, {})
<1>1. u \in Pages /\ (Follows(p) => Follows(u))
  <2>1. drops => q.selectedRouteId \in Routes
    BY DEF Pages
  <2>2. QED
    BY <2>1, DroppedSelection
<1>2. IsTracker(v) /\ IsTracker(StopPolling(t))
  BY TrackersAreTyped
<1>3. c \in Pages /\ Follows(c)
  BY ClearedPages
<1>4. FlowOK(fl)
  BY DEF Flow, FlowOK, FlowType, Awaits
<1>5. ApplySystemFilter(q, t) =
        CASE q.selectedSystems = {} -> Finish(c, StopPolling(t))
          [] "CMU" \in q.selectedSystems /\ q.availableRoutes \cap CmuRoutes = {} -> Result(u, v, fl)
          [] OTHER -> Refilter(u, v)
  BY DEF ApplySystemFilter
<1> HIDE DEF c, fl, u, v
<1>6. Keeps(p, Finish(c, StopPolling(t))) /\ Keeps(p, Result(u, v, fl)) /\ Keeps(p, Refilter(u, v))
  BY <1>1, <1>2, <1>3, <1>4, FinishKeeps, ResultsKeep, RefilterKeeps
<1>7. QED
  BY <1>5, <1>6

\* The page a deselection starts from.
LEMMA DefaultPages ==
  ASSUME NEW q \in Pages
  PROVE  LET u == [ForgetNearby(q) EXCEPT !.map = ClearAllRoutes(@), !.selectedRouteId = NoRoute,
                                          !.selectedDirections = Directions]
         IN /\ u \in Pages /\ u.map = EmptyPicture /\ u.selectedRouteId = NoRoute
            /\ u.nearbyRouteIds = {} /\ ~u.nearbyStopsActive /\ Follows(u)
<1> DEFINE n == ForgetNearby(q)
           u == [n EXCEPT !.map = ClearAllRoutes(@), !.selectedRouteId = NoRoute,
                          !.selectedDirections = Directions]
<1>1. n \in Pages /\ n.nearbyRouteIds = {} /\ n.nearbyStopsActive = FALSE
  BY DEF ForgetNearby, Pages
<1>2. EmptyPicture \in Pictures
  BY PagesWithPictures, PicturesAreTyped
<1>3. u = [n EXCEPT !.map = EmptyPicture, !.selectedRouteId = NoRoute, !.selectedDirections = Directions]
  BY DEF ClearAllRoutes
<1> HIDE DEF n, u
<1>4. u \in Pages /\ u.map = EmptyPicture /\ u.selectedRouteId = NoRoute
      /\ u.nearbyRouteIds = {} /\ u.nearbyStopsActive = FALSE
  BY <1>1, <1>2, <1>3 DEF Pages
<1>5. Follows(u)
  BY <1>4 DEF Follows, EmptyPicture
<1>6. QED
  BY <1>4, <1>5 DEF u, n

LEMMA DefaultStateKeeps ==
  ASSUME NEW p, NEW q \in Pages, NEW t, IsTracker(t)
  PROVE  Keeps(p, RestoreDefaultState(q, t))
<1> DEFINE u == [ForgetNearby(q) EXCEPT !.map = ClearAllRoutes(@), !.selectedRouteId = NoRoute,
                                        !.selectedDirections = Directions]
<1>1. u \in Pages /\ Follows(u) /\ IsTracker(StopPolling(t))
  BY DefaultPages, TrackersAreTyped
<1>2. RestoreDefaultState(q, t) = ShowNearbyStops(u, StopPolling(t))
  BY DEF RestoreDefaultState
<1> HIDE DEF u
<1>3. QED
  BY <1>1, <1>2, NearbyStopsKeep

LEMMA RefreshedColors ==
  ASSUME NEW q \in Pages
  PROVE  RefreshRouteColors(q) \in Pages /\ (Follows(q) => Follows(RefreshRouteColors(q)))
<1> DEFINE u == SetAvailableRoutes(q, Routes)
           w == [u EXCEPT !.map = RenderRouteGeometry(@, q.selectedRouteId)]
<1>1. u \in Pages /\ u.map = q.map /\ u.selectedRouteId = q.selectedRouteId
  BY FilteredPages
<1>2. RefreshRouteColors(q) = IF q.selectedRouteId \in PrtRoutes THEN w ELSE u
  BY DEF RefreshRouteColors
<1> HIDE DEF u
<1>3. Follows(q) => Follows(u)
  BY <1>1 DEF Follows
<1>4. q.selectedRouteId \in PrtRoutes => w \in Pages /\ (Follows(u) => Follows(w))
  BY <1>1, GeometryOnPages DEF PrtRoutes
<1> HIDE DEF w
<1>5. QED
  BY <1>1, <1>2, <1>3, <1>4

-----------------------------------------------------------------------------
(* What continues an activation *)

\* A stop marker of the selected route.
LEMMA MarkersOnPages ==
  ASSUME NEW q \in Pages, NEW of \in Routes, NEW d \in Directions
  PROVE  LET u == [q EXCEPT !.map = RenderStopMarkers(@, of, d)]
         IN /\ u \in Pages /\ u.map = RenderStopMarkers(q.map, of, d)
            /\ u.selectedRouteId = q.selectedRouteId /\ u.availableRoutes = q.availableRoutes
            /\ u.selectedDirections = q.selectedDirections
            /\ u.nearbyStopsActive = q.nearbyStopsActive
            /\ (StillWanted(q, of) /\ Follows(q) => Follows(u))
<1> DEFINE pic == RenderStopMarkers(q.map, of, d)
           u == [q EXCEPT !.map = RenderStopMarkers(@, of, d)]
<1>1. q.map \in Pictures /\ pic \in Pictures
  BY PagesWithPictures, PicturesAreTyped DEF Kinds
<1>2. pic.stops = q.map.stops \cup {<<of, d>>}
  BY <1>1 DEF RenderStopMarkers, Pictures
<1>3. u = [q EXCEPT !.map = pic]
  OBVIOUS
<1> HIDE DEF u, pic
<1>4. /\ u \in Pages /\ u.map = pic /\ u.selectedRouteId = q.selectedRouteId
      /\ u.availableRoutes = q.availableRoutes /\ u.selectedDirections = q.selectedDirections
      /\ u.nearbyStopsActive = q.nearbyStopsActive
  BY <1>1, <1>3, PagesWithPictures
<1>5. StillWanted(q, of) /\ Follows(q) => Follows(u)
  BY <1>2, <1>4 DEF StillWanted, Follows
<1>6. QED
  BY <1>4, <1>5 DEF u, pic

\* A render that goes on; it ends by itself when its route is not selected any more.
LEMMA StopsContinue ==
  ASSUME NEW q \in Pages, NEW t, IsTracker(t), NEW fl, FlowOK(fl), fl.at = "stops", NEW ok \in BOOLEAN
  PROVE  Keeps(q, Continue(q, t, fl, ok))
<1> DEFINE r == fl.route
           d == CHOOSE d \in fl.todo : TRUE
           u == IF ok THEN [q EXCEPT !.map = RenderStopMarkers(@, fl.of, d)] ELSE q
           gl == [fl EXCEPT !.todo = @ \ {d}]
<1>1. /\ fl \in FlowType /\ fl.of \in Routes /\ fl.todo \subseteq Directions /\ fl.todo # {}
      /\ r \in Routes \cup {NoRoute}
  BY DEF FlowOK, FlowType
<1>2. d \in fl.todo /\ d \in Directions
  BY <1>1
<1>3. Continue(q, t, fl, ok) =
        CASE ~StillWanted(q, fl.of) -> AfterStops(q, t, r)
          [] StillWanted(q, fl.of) /\ fl.todo = {d} -> AfterStops(u, t, r)
          [] OTHER -> Result(u, t, gl)
  BY DEF Continue
<1> HIDE DEF d
<1>4. u \in Pages /\ (StillWanted(q, fl.of) /\ Follows(q) => Follows(u))
  BY <1>1, <1>2, MarkersOnPages
<1>5. fl.todo # {d} => FlowOK(gl)
  <2> SUFFICES ASSUME fl.todo # {d}
               PROVE  FlowOK(gl)
    OBVIOUS
  <2>1. /\ gl \in FlowType /\ gl.at = "stops" /\ gl.of = fl.of /\ gl.todo = fl.todo \ {d}
    BY <1>1, <1>2 DEF FlowType, Awaits
  <2> HIDE DEF gl
  <2>2. gl.todo # {} /\ gl.todo \subseteq Directions
    BY <1>1, <1>2, <2>1
  <2>3. QED
    BY <1>1, <2>1, <2>2 DEF FlowOK
<1> HIDE DEF u, gl
<1>6. Keeps(q, AfterStops(q, t, r))
  BY <1>1, AfterStopsKeeps
<1>7. StillWanted(q, fl.of) => Keeps(q, AfterStops(u, t, r))
  BY <1>1, <1>4, AfterStopsKeeps
<1>8. StillWanted(q, fl.of) /\ fl.todo # {d} => Keeps(q, Result(u, t, gl))
  BY <1>4, <1>5, ResultsKeep
<1>9. QED
  BY <1>3, <1>6, <1>7, <1>8

LEMMA ContinueKeeps ==
  ASSUME NEW q \in Pages, NEW t, IsTracker(t), NEW fl, FlowOK(fl),
         fl.at \notin {"idle", "nearby"}, NEW ok \in BOOLEAN
  PROVE  /\ Keeps(q, Continue(q, t, fl, ok))
         /\ fl.at = "routes" => \A p : Keeps(p, Continue(q, t, fl, ok))
<1> DEFINE r == fl.route
           next == Continue(q, t, fl, ok)
           drawn == [q EXCEPT !.map = RenderRouteGeometry(@, r)]
<1>1. fl \in FlowType /\ fl.todo \subseteq Routes \cup Directions /\ fl.found \subseteq Routes
  BY DEF FlowOK, FlowType
<1>2. r \in Routes => drawn \in Pages /\ (Follows(q) => Follows(drawn))
  BY GeometryOnPages
<1>3. CASE fl.at = "routes"
  <2> DEFINE u == IF ok THEN SetAvailableRoutes(q, Routes) ELSE q
  <2>1. u \in Pages /\ r \in Routes
    BY <1>3, FilteredPages DEF FlowOK
  <2>2. next = PrepareAndRender(u, t, r)
    BY <1>3 DEF Continue
  <2> HIDE DEF u, next
  <2>3. \A p : Keeps(p, next)
    BY <2>1, <2>2, PrepareKeeps
  <2>4. QED
    BY <2>3 DEF next
<1>4. CASE fl.at = "patterns" /\ ok
  <2>1. next = RenderRouteStops(drawn, t, r, r \in fl.found) /\ r \in Routes
    BY <1>4 DEF Continue, FlowOK
  <2> HIDE DEF drawn, next
  <2>2. Keeps(q, next)
    BY <1>2, <2>1, RenderStopsKeeps
  <2>3. QED
    BY <1>4, <2>2 DEF next
<1>5. CASE fl.at = "patterns" /\ ~ok
  <2>1. next = Finish(q, t)
    BY <1>5 DEF Continue
  <2>2. QED
    BY <1>5, <2>1, FinishKeeps
<1>6. CASE fl.at = "stops"
  BY <1>6, StopsContinue
<1>7. CASE fl.at = "detours"
  <2>1. next = Finish(q, StartPolling(t, r)) /\ r \in Routes
    BY <1>7 DEF Continue, FlowOK
  <2>2. IsTracker(StartPolling(t, r))
    BY <2>1, TrackersAreTyped
  <2>3. QED
    BY <1>7, <2>1, <2>2, FinishKeeps
<1>8. CASE fl.at = "prefetch"
  <2> DEFINE u == SetAvailableRoutes(q, IF ok THEN Routes ELSE {})
  <2>1. next = Refilter(u, t)
    BY <1>8 DEF Continue
  <2>2. u \in Pages /\ u.map = q.map /\ u.selectedRouteId = q.selectedRouteId
    <3>1. (IF ok THEN Routes ELSE {}) \in SUBSET Routes
      OBVIOUS
    <3>2. QED
      BY <3>1, FilteredPages
  <2> HIDE DEF u, next
  <2>3. Follows(q) => Follows(u)
    BY <2>2 DEF Follows
  <2>4. Keeps(q, next)
    BY <2>1, <2>2, <2>3, RefilterKeeps
  <2>5. QED
    BY <1>8, <2>4 DEF next
<1>9. CASE fl.at = "render"
  <2>1. next = RenderFilteredRoutes(IF ok THEN drawn ELSE q, t, fl.todo)
        /\ r \in Routes /\ fl.todo \in SUBSET Routes
    BY <1>9 DEF Continue, FlowOK
  <2> HIDE DEF drawn, next
  <2>2. Keeps(q, next)
    BY <1>2, <2>1, FilteredRoutesKeep
  <2>3. QED
    BY <1>9, <2>2 DEF next
<1>10. CASE fl.at = "nearbyGeometry"
  <2>1. next = ShowNearbyRoutes(IF ok THEN drawn ELSE q, t, fl.todo, fl.found)
        /\ r \in Routes /\ fl.todo \in SUBSET Routes
    BY <1>10 DEF Continue, FlowOK
  <2> HIDE DEF drawn, next
  <2>2. Keeps(q, next)
    BY <1>1, <1>2, <2>1, NearbyRoutesKeep
  <2>3. QED
    BY <1>10, <2>2 DEF next
<1>11. CASE fl.at = "colors"
  <2>1. next = Finish(IF ok THEN RefreshRouteColors(q) ELSE q, t)
    BY <1>11 DEF Continue
  <2> HIDE DEF next
  <2>2. Keeps(q, next)
    BY <2>1, RefreshedColors, FinishKeeps
  <2>3. QED
    BY <1>11, <2>2 DEF next
<1>12. fl.at \in {"routes", "patterns", "stops", "detours", "prefetch", "render", "nearbyGeometry", "colors"}
  BY <1>1 DEF FlowType, Awaits
<1> HIDE DEF next
<1>13. QED
  BY <1>3, <1>4, <1>5, <1>6, <1>7, <1>8, <1>9, <1>10, <1>11, <1>12 DEF next

LEMMA NearbyContinues ==
  ASSUME NEW q \in Pages, NEW t, IsTracker(t), NEW fl, NEW found \in SUBSET Routes,
         NEW first \in SUBSET found
  PROVE  Keeps(q, ContinueNearby(q, t, fl, found, first))
<1> DEFINE pic == HideRoutes(q.map, fl.todo \ found)
           u == [q EXCEPT !.nearbyRouteIds = found, !.map = HideRoutes(@, fl.todo \ found)]
<1>1. pic \in Pictures /\ pic.stops = q.map.stops
  BY PagesWithPictures, PicturesAreTyped, StopsOfPictures
<1>2. u = [q EXCEPT !.nearbyRouteIds = found, !.map = pic]
  OBVIOUS
<1>3. ContinueNearby(q, t, fl, found, first) =
        IF found = {} THEN Finish(q, t) ELSE ShowNearbyRoutes(u, t, {}, first)
  BY DEF ContinueNearby
<1> HIDE DEF u, pic
<1>4. u \in Pages /\ u.map = pic /\ u.selectedRouteId = q.selectedRouteId
  BY <1>1, <1>2 DEF Pages
<1>5. Follows(q) => Follows(u)
  BY <1>1, <1>4 DEF Follows
<1>6. QED
  BY <1>3, <1>4, <1>5, FinishKeeps, NearbyRoutesKeep

-----------------------------------------------------------------------------
(* The stops follow the selection, unless its metadata is awaited *)

SInv == TypeOK /\ FlowsOK /\ DirectionalStopsFollowTheSelection

\* Only a step that awaits a route's metadata may leave other stops.
LEMMA BecomeKeeps ==
  ASSUME SInv, NEW f \in Flows, NEW res, ResultOK(res), Become(f, res),
         Follows(page) \/ flows[f].at = "routes" => Follows(res.page) \/ res.flow.at = "routes"
  PROVE  /\ page' \in Pages /\ IsTracker(tracker') /\ flows' \in [Flows -> FlowType]
         /\ FlowsOK' /\ DirectionalStopsFollowTheSelection'
<1>1. /\ page' = res.page /\ tracker' = res.tracker /\ flows' = [flows EXCEPT ![f] = res.flow]
      /\ res.page \in Pages /\ IsTracker(res.tracker) /\ FlowOK(res.flow) /\ res.flow \in FlowType
  BY DEF Become, ResultOK, FlowOK
<1>2. flows \in [Flows -> FlowType] /\ \A g \in Flows : FlowOK(flows[g])
  BY DEF SInv, TypeOK, FlowsOK
<1>3. flows' \in [Flows -> FlowType] /\ flows'[f] = res.flow /\ \A g \in Flows \ {f} : flows'[g] = flows[g]
  BY <1>1, <1>2
<1>4. FlowsOK'
  <2>1. \A g \in Flows : FlowOK(flows'[g])
    BY <1>1, <1>2, <1>3
  <2>2. QED
    BY <2>1 DEF FlowsOK, FlowOK
<1>5. DirectionalStopsFollowTheSelection'
  <2>1. CASE res.flow.at = "routes"
    BY <1>3, <2>1 DEF DirectionalStopsFollowTheSelection
  <2>2. CASE \E g \in Flows \ {f} : flows[g].at = "routes"
    BY <1>3, <2>2 DEF DirectionalStopsFollowTheSelection
  <2>3. CASE (\A g \in Flows \ {f} : flows[g].at # "routes") /\ res.flow.at # "routes"
    <3>1. Follows(page) \/ flows[f].at = "routes"
      BY <2>3 DEF SInv, DirectionalStopsFollowTheSelection, Follows
    <3>2. Follows(res.page)
      BY <2>3, <3>1
    <3>3. QED
      BY <1>1, <3>2 DEF DirectionalStopsFollowTheSelection, Follows
  <2>4. QED
    BY <2>1, <2>2, <2>3
<1>6. QED
  BY <1>1, <1>3, <1>4, <1>5

\* A started operation takes a slot that is idle.
LEMMA StartKeeps ==
  ASSUME SInv, NEW name \in {"none", "select", "default"}, NEW res, Keeps(page, res), Start(name, res)
  PROVE  SInv'
<1> DEFINE f == CHOOSE f \in Flows : flows[f] = Idle
<1>1. f \in Flows /\ flows[f] = Idle /\ Become(f, res)
  BY DEF Start
<1>2. operations' \in 0..MaxOperations /\ undisturbed' \in {"none", "select", "default"} /\ reachable' \in BOOLEAN
  <2>1. operations \in 0..MaxOperations /\ operations < MaxOperations /\ operations' = operations + 1
    BY DEF Start, SInv, TypeOK
  <2>2. undisturbed' \in {"none", "select", "default"} /\ reachable' \in BOOLEAN
    BY DEF Start, SInv, TypeOK
  <2>3. QED
    BY <2>1, <2>2, PageAssumption
<1>3. flows[f].at # "routes"
  BY <1>1, IdleIsOK
<1>4. ResultOK(res) /\ (Follows(page) => Follows(res.page) \/ res.flow.at = "routes")
  BY DEF Keeps
<1> HIDE DEF f
<1>5. /\ page' \in Pages /\ IsTracker(tracker') /\ flows' \in [Flows -> FlowType]
      /\ FlowsOK' /\ DirectionalStopsFollowTheSelection'
  BY <1>1, <1>3, <1>4, BecomeKeeps
<1>6. TypeOK'
  BY <1>2, <1>5 DEF TypeOK, IsTracker
<1>7. QED
  BY <1>5, <1>6 DEF SInv

\* The pages the user's events start from.
LEMMA ChangedPages ==
  ASSUME NEW q \in Pages
  PROVE  /\ \A r \in Routes : Select(q, r) \in Pages /\ Select(q, r).selectedRouteId = r
         /\ \A ss \in SUBSET Systems : LET u == [q EXCEPT !.selectedSystems = ss]
                                       IN u \in Pages /\ (Follows(q) => Follows(u))
         /\ \A ds \in SUBSET Directions : LET u == [q EXCEPT !.selectedDirections = ds]
                                          IN u \in Pages /\ (Follows(q) => Follows(u))
<1>1. \A r \in Routes : Select(q, r) \in Pages /\ Select(q, r).selectedRouteId = r
  BY DEF Select, Pages
<1>2. ASSUME NEW ss \in SUBSET Systems
      PROVE  LET u == [q EXCEPT !.selectedSystems = ss]
             IN u \in Pages /\ u.map = q.map /\ u.selectedRouteId = q.selectedRouteId
  BY DEF Pages
<1>3. ASSUME NEW ds \in SUBSET Directions
      PROVE  LET u == [q EXCEPT !.selectedDirections = ds]
             IN u \in Pages /\ u.map = q.map /\ u.selectedRouteId = q.selectedRouteId
  BY DEF Pages
<1>4. QED
  BY <1>1, <1>2, <1>3 DEF Follows

LEMMA VehicleStepsKeep ==
  ASSUME SInv, PollVehicles \/ \E q \in SingleRequests : AnswerVehicles(q)
  PROVE  IsTracker(tracker') /\ UNCHANGED <<page, flows, reachable, operations, undisturbed>>
<1>1. IsTracker(tracker)
  BY DEF SInv, TypeOK
<1>2. CASE PollVehicles
  <2>1. PICK q \in Due(tracker) : tracker' = Send(tracker, q)
    BY <1>2 DEF PollVehicles
  <2>2. tracker.polled \in Routes \cup {NoRoute} /\ tracker.multi \in SUBSET Routes
    BY <1>1 DEF IsTracker
  <2>3. q \in Requests
    BY <2>1, <2>2 DEF Due, Requests
  <2>4. QED
    BY <1>1, <1>2, <2>1, <2>3, TrackersAreTyped DEF PollVehicles
<1>3. ASSUME NEW q \in SingleRequests, AnswerVehicles(q)
      PROVE  IsTracker(tracker') /\ UNCHANGED <<page, flows, reachable, operations, undisturbed>>
  <2>1. q \in Requests /\ q.routes \in SUBSET Routes
    BY DEF SingleRequests, Requests, Request
  <2>2. PICK shown \in SUBSET q.routes :
          tracker' = Answered(tracker, q, shown, IF reachable THEN {} ELSE q.routes)
    BY <1>3 DEF AnswerVehicles
  <2>3. shown \in SUBSET Routes
    BY <2>1, <2>2
  <2>4. QED
    BY <1>1, <1>3, <2>1, <2>2, <2>3, TrackersAreTyped DEF AnswerVehicles
<1>4. QED
  BY <1>2, <1>3

LEMMA InitSInv == Init => SInv
<1> SUFFICES ASSUME Init
             PROVE  SInv
  OBVIOUS
<1>1. page \in Pages /\ page.map.stops = {}
  <2>1. LET pic == [EmptyPicture EXCEPT !.lines = PrtRoutes] IN pic \in Pictures /\ pic.stops = {}
    BY DEF EmptyPicture, Pictures, PrtRoutes
  <2>2. QED
    BY <2>1 DEF Init, Pages, Systems, PrtRoutes
<1>2. IsTracker(tracker)
  BY DEF Init, IdleTracker, IsTracker, IsABag, BagToSet, EmptyBag, SetToBag
<1>3. flows \in [Flows -> FlowType] /\ FlowsOK
  BY IdleIsOK DEF Init, FlowsOK, FlowOK
<1>4. TypeOK
  BY <1>1, <1>2, <1>3, PageAssumption DEF Init, TypeOK
<1>5. QED
  BY <1>1, <1>3, <1>4 DEF SInv, DirectionalStopsFollowTheSelection

LEMMA NextSInv == SInv /\ [Next]_vars => SInv'
<1> SUFFICES ASSUME SInv, [Next]_vars
             PROVE  SInv'
  OBVIOUS
<1>1. page \in Pages /\ IsTracker(tracker) /\ flows \in [Flows -> FlowType] /\ reachable \in BOOLEAN
      /\ \A f \in Flows : FlowOK(flows[f])
  BY DEF SInv, TypeOK, FlowsOK
<1>2. ASSUME NEW r \in Routes, SelectRoute(r)
      PROVE  SInv'
  <2>1. Keeps(page, ApplyRouteFilter(Select(page, r), tracker, r))
    BY <1>1, ChangedPages, RouteFilterKeeps
  <2>2. QED
    BY <1>2, <2>1, StartKeeps DEF SelectRoute
<1>3. CASE Deselect
  BY <1>1, <1>3, DefaultStateKeeps, StartKeeps DEF Deselect
<1>4. ASSUME NEW ss \in SUBSET Systems, ToggleSystems(ss)
      PROVE  SInv'
  <2> DEFINE u == [page EXCEPT !.selectedSystems = ss]
  <2>1. u \in Pages /\ (Follows(page) => Follows(u))
    BY <1>1, ChangedPages
  <2>2. Start("none", ApplySystemFilter(u, tracker))
    BY <1>4 DEF ToggleSystems
  <2> HIDE DEF u
  <2>3. QED
    BY <1>1, <2>1, <2>2, SystemFilterKeeps, StartKeeps
<1>5. ASSUME NEW ds \in SUBSET Directions, ToggleDirections(ds)
      PROVE  SInv'
  <2> DEFINE u == [page EXCEPT !.selectedDirections = ds]
  <2>1. u \in Pages /\ (Follows(page) => Follows(u))
    BY <1>1, ChangedPages
  <2>2. Start("none", ApplyDirectionFilter(u, tracker, NoRoute))
    BY <1>5 DEF ToggleDirections
  <2> HIDE DEF u
  <2>3. QED
    BY <1>1, <2>1, <2>2, DirectionFilterKeeps, StartKeeps
<1>6. CASE Locate
  BY <1>1, <1>6, NearbyStopsKeep, StartKeeps DEF Locate
<1>7. CASE ColorsRecover
  <2>1. FlowOK(Flow("colors", NoRoute, NoRoute, {}, {}))
    BY DEF Flow, FlowOK, FlowType, Awaits
  <2>2. Keeps(page, Result(page, tracker, Flow("colors", NoRoute, NoRoute, {}, {})))
    BY <1>1, <2>1, ResultsKeep
  <2>3. QED
    BY <1>7, <2>2, StartKeeps DEF ColorsRecover
<1>8. ASSUME NEW f \in Flows, Answer(f)
      PROVE  SInv'
  <2> DEFINE res == Continue(page, tracker, flows[f], reachable)
  <2>1. /\ flows[f].at \notin {"idle", "nearby"} /\ Become(f, res)
        /\ UNCHANGED <<reachable, operations>> /\ undisturbed' \in {"none", undisturbed}
    BY <1>8 DEF Answer
  <2>2. Keeps(page, res) /\ (flows[f].at = "routes" => \A p : Keeps(p, res))
    BY <1>1, <2>1, ContinueKeeps
  <2> HIDE DEF res
  <2>3. flows[f].at = "routes" => Keeps(PrepareMap(page), res)
    BY <2>2
  <2>4. ResultOK(res) /\ (Follows(page) \/ flows[f].at = "routes" => Follows(res.page) \/ res.flow.at = "routes")
    BY <1>1, <2>2, <2>3, PreparedMap DEF Keeps
  <2>5. /\ page' \in Pages /\ IsTracker(tracker') /\ flows' \in [Flows -> FlowType]
        /\ FlowsOK' /\ DirectionalStopsFollowTheSelection'
    BY <2>1, <2>4, BecomeKeeps
  <2>6. QED
    BY <2>1, <2>5 DEF SInv, TypeOK, IsTracker
<1>9. ASSUME NEW f \in Flows, AnswerNearby(f)
      PROVE  SInv'
  <2>1. PICK found \in IF reachable THEN SUBSET flows[f].found ELSE {{}} :
          \E first \in SUBSET found :
            Become(f, ContinueNearby(page, tracker, flows[f], found, first))
    BY <1>9 DEF AnswerNearby
  <2>2. found \in SUBSET Routes
    BY <1>1, <2>1 DEF FlowOK, FlowType
  <2>2a. PICK first \in SUBSET found :
           Become(f, ContinueNearby(page, tracker, flows[f], found, first))
    BY <2>1
  <2> DEFINE res == ContinueNearby(page, tracker, flows[f], found, first)
  <2>3. Keeps(page, res) /\ Become(f, res) /\ flows[f].at = "nearby"
        /\ UNCHANGED <<reachable, operations, undisturbed>>
    BY <1>1, <1>9, <2>2, <2>2a, NearbyContinues DEF AnswerNearby
  <2> HIDE DEF res
  <2>4. ResultOK(res) /\ (Follows(page) \/ flows[f].at = "routes" => Follows(res.page) \/ res.flow.at = "routes")
    BY <2>3 DEF Keeps
  <2>5. /\ page' \in Pages /\ IsTracker(tracker') /\ flows' \in [Flows -> FlowType]
        /\ FlowsOK' /\ DirectionalStopsFollowTheSelection'
    BY <2>3, <2>4, BecomeKeeps
  <2>6. QED
    BY <2>3, <2>5 DEF SInv, TypeOK, IsTracker
<1>10. CASE PollVehicles \/ \E q \in SingleRequests : AnswerVehicles(q)
  BY <1>10, VehicleStepsKeep
     DEF SInv, TypeOK, IsTracker, FlowsOK, FlowOK, DirectionalStopsFollowTheSelection
<1>11. CASE ReachabilityChanges
  BY <1>11 DEF ReachabilityChanges, SInv, TypeOK, IsTracker, FlowsOK, FlowOK, DirectionalStopsFollowTheSelection
<1>12. CASE UNCHANGED vars
  BY <1>12 DEF vars, SInv, TypeOK, IsTracker, FlowsOK, FlowOK, DirectionalStopsFollowTheSelection
<1>13. QED
  BY <1>2, <1>3, <1>4, <1>5, <1>6, <1>7, <1>8, <1>9, <1>10, <1>11, <1>12 DEF Next

\* The map page keeps its types: no overlap of operations makes an activation
\* wait for a route that does not exist, or leaves markers of such a one.
THEOREM TypeCorrectness == Spec => []TypeOK
<1>1. SInv => TypeOK
  BY DEF SInv
<1>2. QED
  BY InitSInv, NextSInv, <1>1, PTL DEF Spec

\* Stop markers per direction are those of the selected route, however
\* operations overlap; older ones stay only while a route's metadata is awaited.
THEOREM StopsFollow == Spec => []DirectionalStopsFollowTheSelection
<1>1. SInv => DirectionalStopsFollowTheSelection
  BY DEF SInv
<1>2. QED
  BY InitSInv, NextSInv, <1>1, PTL DEF Spec

-----------------------------------------------------------------------------
(* What runs alone: how far it is, and what the map shows then *)

Chosen(p) == EnabledDirections(p, DirectionsOf[p.selectedRouteId])

\* The polylines of the selection, and nothing nearby.
Drawn(p) ==
  LET r == p.selectedRouteId
  IN /\ p.map.lines = {r}
     /\ p.map.hidden = {r} \X (DirectionsOf[r] \ Chosen(p))
     /\ ~p.nearbyStopsActive

Selecting(p, t, fl) ==
  LET r == p.selectedRouteId
  IN /\ r \in Routes
     /\ \/ fl.at = "routes" /\ fl.route = r
        \/ /\ fl.at = "patterns" /\ fl.route = r /\ fl.found = {r} /\ r \in p.availableRoutes
           /\ p.map = EmptyPicture /\ ~p.nearbyStopsActive
        \/ /\ fl.at = "stops" /\ fl.route = r /\ fl.of = r /\ fl.todo \subseteq Chosen(p)
           /\ Drawn(p) /\ p.map.stops = {r} \X (Chosen(p) \ fl.todo)
        \/ fl.at = "detours" /\ fl.route = r /\ Drawn(p) /\ p.map.stops = {r} \X Chosen(p)
        \/ fl = Idle /\ Drawn(p) /\ p.map.stops = {r} \X Chosen(p) /\ t.polled = r

\* The routes that come first at some stop, of those nearby.
SomeOf(first, near) == first \subseteq near /\ (first = {} => near = {})

Restoring(p, t, fl) ==
  /\ p.selectedRouteId = NoRoute /\ t.polled = NoRoute
  /\ \/ fl.at = "nearby" /\ p.map = EmptyPicture /\ p.nearbyRouteIds = {}
     \/ /\ fl.at = "nearbyGeometry" /\ SomeOf(fl.found, p.nearbyRouteIds)
        /\ fl.route \in fl.todo /\ fl.todo \subseteq p.nearbyRouteIds
        /\ p.map.stops = {} /\ p.map.lines \subseteq p.nearbyRouteIds
        /\ (fl.todo \ {fl.route}) \cup (p.nearbyRouteIds \cap PrtRoutes) \subseteq p.map.lines
     \/ /\ fl = Idle /\ p.map.lines = p.nearbyRouteIds
        /\ p.map.stops \subseteq NearbyKeys(p.nearbyRouteIds)
        /\ p.map.stops = {} <=> p.nearbyRouteIds = {}

RunsAlone(f) == \A g \in Flows \ {f} : flows[g] = Idle

SelectionIsAlone ==
  undisturbed = "select" =>
    \E f \in Flows : RunsAlone(f) /\ Selecting(page, tracker, flows[f])

DefaultIsAlone ==
  undisturbed = "default" =>
    \E f \in Flows : RunsAlone(f) /\ Restoring(page, tracker, flows[f])

IInv == SInv /\ SelectionIsAlone /\ DefaultIsAlone

SelectingIn(res)  == Selecting(res.page, res.tracker, res.flow)
RestoringIn(res) == Restoring(res.page, res.tracker, res.flow)

LEMMA ChosenDirections ==
  ASSUME NEW q \in Pages, q.selectedRouteId \in Routes
  PROVE  Chosen(q) \subseteq Directions /\ Chosen(q) \subseteq DirectionsOf[q.selectedRouteId]
BY RoutesAssumption DEF Chosen, EnabledDirections

\* The end of a selection's rendering.
LEMMA AfterStopsSelects ==
  ASSUME NEW q, NEW t, q.selectedRouteId \in Routes, Drawn(q),
         q.map.stops = {q.selectedRouteId} \X Chosen(q)
  PROVE  SelectingIn(AfterStops(q, t, q.selectedRouteId))
BY RoutesAssumption DEF AfterStops, AwaitDetours, Result, Flow, SelectingIn, Selecting

LEMMA RefreshSelects ==
  ASSUME NEW q \in Pages, NEW t, NEW r \in Routes, q.selectedRouteId = r, Drawn(q),
         q.map.stops = {}
  PROVE  SelectingIn(RefreshStopMarkers(q, t, r, r, Chosen(q)))
<1> DEFINE ds == Chosen(q)
           pic == ClearStopMarkers(q.map, DirectionKeys(r))
           cleared == [q EXCEPT !.map = pic]
           more == [pic EXCEPT !.stops = @ \cup ({r} \X ds)]
           drawn == [cleared EXCEPT !.map.stops = @ \cup ({r} \X ds)]
           fl == Flow("stops", r, r, ds, {})
<1>1. q.map \in Pictures /\ ds \subseteq Directions
  BY PagesWithPictures, ChosenDirections
<1>2. pic \in Pictures /\ pic.stops = {} /\ pic.lines = q.map.lines /\ pic.hidden = q.map.hidden
  BY <1>1 DEF ClearStopMarkers, Pictures
<1>3. /\ cleared \in Pages /\ cleared.map = pic /\ cleared.selectedRouteId = r
      /\ cleared.selectedDirections = q.selectedDirections
      /\ cleared.nearbyStopsActive = q.nearbyStopsActive
  <2> HIDE DEF pic
  <2>1. QED
    BY <1>2, PagesWithPictures
<1>4. more \in Pictures /\ more.stops = {r} \X ds /\ more.lines = q.map.lines /\ more.hidden = q.map.hidden
  <2> HIDE DEF pic, ds
  <2>1. {r} \X ds \subseteq Routes \X Kinds
    BY <1>1 DEF Kinds
  <2>2. QED
    BY <1>2, <2>1 DEF Pictures
<1>5. drawn = [cleared EXCEPT !.map = more]
  <2> HIDE DEF pic, cleared, ds
  <2>1. cleared.map = pic
    BY <1>3
  <2>2. QED
    BY <2>1, MoreStops
<1>6. /\ drawn \in Pages /\ drawn.map = more /\ drawn.selectedRouteId = r
      /\ drawn.selectedDirections = q.selectedDirections
      /\ drawn.nearbyStopsActive = q.nearbyStopsActive
  <2> HIDE DEF pic, cleared, more, drawn, ds
  <2>1. QED
    BY <1>3, <1>4, <1>5, PagesWithPictures
<1>7. RefreshStopMarkers(q, t, r, r, ds) =
        CASE ds = {} \/ (InBulk(r) /\ ~StillWanted(q, r)) -> AfterStops(cleared, t, r)
          [] InBulk(r) /\ ds # {} /\ StillWanted(q, r) -> AfterStops(drawn, t, r)
          [] OTHER -> Result(cleared, t, fl)
  BY DEF RefreshStopMarkers
<1> HIDE DEF pic, cleared, more, drawn
<1>8. Chosen(cleared) = ds /\ Chosen(drawn) = ds
  BY <1>3, <1>6 DEF Chosen, EnabledDirections
<1>9. Drawn(cleared) /\ Drawn(drawn)
  BY <1>2, <1>3, <1>4, <1>6, <1>8 DEF Drawn
<1>10. StillWanted(q, r)
  BY DEF StillWanted
<1> HIDE DEF ds
<1>11. ds = {} => SelectingIn(AfterStops(cleared, t, r))
  <2>1. ds = {} => cleared.map.stops = {r} \X ds
    BY <1>2, <1>3
  <2>2. QED
    BY <2>1, <1>3, <1>8, <1>9, AfterStopsSelects
<1>12. SelectingIn(AfterStops(drawn, t, r))
  BY <1>4, <1>6, <1>8, <1>9, AfterStopsSelects
<1>13. SelectingIn(Result(cleared, t, fl))
  <2>1. fl.at = "stops" /\ fl.route = r /\ fl.of = r /\ fl.todo = ds
    BY DEF Flow
  <2>2. cleared.map.stops = {r} \X (ds \ fl.todo)
    BY <1>2, <1>3, <2>1
  <2> HIDE DEF fl
  <2>3. Selecting(cleared, t, fl)
    BY <1>3, <1>8, <1>9, <2>1, <2>2 DEF Selecting
  <2>4. QED
    BY <2>3 DEF SelectingIn, Result
<1>14. QED
  BY <1>7, <1>10, <1>11, <1>12, <1>13 DEF ds

\* A route that is known, once its polylines are the only thing on the map.
LEMMA DirectionFilterSelects ==
  ASSUME NEW q \in Pages, NEW t, NEW r \in Routes, q.selectedRouteId = r,
         r \in q.availableRoutes, q.map.lines = {r}, q.map.hidden = {}, q.map.stops = {},
         ~q.nearbyStopsActive
  PROVE  SelectingIn(RenderRouteStops(q, t, r, TRUE))
<1> DEFINE ds == EnabledDirections(q, DirectionsOf[r])
           pic == ShowDirectionsOnly(q.map, r, ds)
           u == [q EXCEPT !.map = pic]
<1>1. RenderRouteStops(q, t, r, TRUE) = RefreshStopMarkers(u, t, r, r, ds)
  BY DEF RenderRouteStops, ApplyDirectionFilter
<1>2. q.map \in Pictures
  BY PagesWithPictures
<1>3. pic \in Pictures
  BY <1>2, DirectionsAreShown
<1>4. pic.stops = {} /\ pic.lines = {r} /\ pic.hidden = {r} \X (DirectionsOf[r] \ ds)
  BY <1>2 DEF ShowDirectionsOnly, Pictures
<1> HIDE DEF pic
<1>5. /\ u \in Pages /\ u.map = pic /\ u.selectedRouteId = r
      /\ u.selectedDirections = q.selectedDirections /\ u.nearbyStopsActive = q.nearbyStopsActive
  BY <1>3, PagesWithPictures
<1> HIDE DEF u
<1>6. Chosen(u) = ds
  BY <1>5 DEF Chosen, EnabledDirections
<1> HIDE DEF ds
<1>7. Drawn(u) /\ u.map.stops = {}
  BY <1>4, <1>5, <1>6 DEF Drawn
<1>8. QED
  BY <1>1, <1>5, <1>6, <1>7, RefreshSelects

LEMMA PrepareSelects ==
  ASSUME NEW q \in Pages, NEW t, NEW r \in Routes, q.selectedRouteId = r, r \in q.availableRoutes
  PROVE  SelectingIn(PrepareAndRender(q, t, r))
<1> DEFINE ready == PrepareMap(q)
           rest == StopPolling(t)
           u == [ready EXCEPT !.map = RenderRouteGeometry(@, r)]
           fl == Flow("patterns", r, NoRoute, {}, {r})
<1>1. /\ ready \in Pages /\ ready.map = EmptyPicture /\ ~ready.nearbyStopsActive
      /\ ready.selectedRouteId = r /\ r \in ready.availableRoutes
  BY PreparedMap
<1>2. PrepareAndRender(q, t, r) = IF InBulk(r) THEN RenderRouteStops(u, rest, r, TRUE)
                                  ELSE Result(ready, rest, fl)
  BY DEF PrepareAndRender
<1> HIDE DEF ready, rest
<1>3. /\ u \in Pages /\ u.map = RenderRouteGeometry(EmptyPicture, r) /\ ~u.nearbyStopsActive
      /\ u.selectedRouteId = r /\ r \in u.availableRoutes
  BY <1>1, GeometryOnPages
<1>4. u.map.lines = {r} /\ u.map.hidden = {} /\ u.map.stops = {}
  <2> HIDE DEF u
  <2>1. QED
    BY <1>3 DEF RenderRouteGeometry, EmptyPicture
<1>5. SelectingIn(Result(ready, rest, fl))
  BY <1>1 DEF SelectingIn, Selecting, Result, Flow
<1> HIDE DEF u, fl
<1>6. SelectingIn(RenderRouteStops(u, rest, r, TRUE))
  BY <1>3, <1>4, DirectionFilterSelects
<1>7. QED
  BY <1>2, <1>5, <1>6

LEMMA RouteFilterSelects ==
  ASSUME NEW q \in Pages, NEW t, NEW r \in Routes, q.selectedRouteId = r
  PROVE  SelectingIn(ApplyRouteFilter(q, t, r))
<1>1. SelectingIn(Result(q, t, Flow("routes", r, NoRoute, {}, {})))
  BY DEF SelectingIn, Selecting, Result, Flow
<1>2. QED
  BY <1>1, PrepareSelects DEF ApplyRouteFilter

LEMMA SelectionContinues ==
  ASSUME NEW q \in Pages, NEW t, IsTracker(t), NEW fl, FlowOK(fl), Selecting(q, t, fl), fl.at # "idle"
  PROVE  SelectingIn(Continue(q, t, fl, TRUE))
<1> DEFINE r == q.selectedRouteId
           next == Continue(q, t, fl, TRUE)
<1>1. r \in Routes
  BY DEF Selecting
<1>2. CASE fl.at = "routes"
  <2> DEFINE u == SetAvailableRoutes(q, Routes)
  <2>1. next = PrepareAndRender(u, t, r)
    BY <1>2 DEF Continue, Selecting, Idle, Flow
  <2>2. u \in Pages /\ u.selectedRouteId = r /\ u.availableRoutes = Routes
    BY FilteredPages
  <2> HIDE DEF u, next
  <2>3. SelectingIn(next)
    BY <1>1, <2>1, <2>2, PrepareSelects
  <2>4. QED
    BY <2>3 DEF next
<1>3. CASE fl.at = "patterns"
  <2> DEFINE u == [q EXCEPT !.map = RenderRouteGeometry(@, r)]
  <2>1. /\ fl.route = r /\ fl.found = {r} /\ r \in q.availableRoutes
        /\ q.map = EmptyPicture /\ ~q.nearbyStopsActive
    BY <1>3 DEF Selecting, Idle, Flow
  <2>2. next = RenderRouteStops(u, t, r, TRUE)
    BY <1>3, <2>1 DEF Continue
  <2>3. /\ u \in Pages /\ u.map = RenderRouteGeometry(EmptyPicture, r) /\ ~u.nearbyStopsActive
        /\ u.selectedRouteId = r /\ r \in u.availableRoutes
    BY <1>1, <2>1, GeometryOnPages
  <2> HIDE DEF u, next
  <2>4. u.map.lines = {r} /\ u.map.hidden = {} /\ u.map.stops = {}
    BY <2>3 DEF RenderRouteGeometry, EmptyPicture
  <2>5. SelectingIn(next)
    BY <1>1, <2>2, <2>3, <2>4, DirectionFilterSelects
  <2>6. QED
    BY <2>5 DEF next
<1>4. CASE fl.at = "stops"
  <2> DEFINE d == CHOOSE d \in fl.todo : TRUE
             u == [q EXCEPT !.map = RenderStopMarkers(@, r, d)]
             gl == [fl EXCEPT !.todo = @ \ {d}]
  <2>1. /\ fl.route = r /\ fl.of = r /\ fl.todo \subseteq Chosen(q) /\ Drawn(q)
        /\ q.map.stops = {r} \X (Chosen(q) \ fl.todo)
    BY <1>4 DEF Selecting, Idle, Flow
  <2>2. fl \in FlowType /\ fl.todo # {} /\ fl.todo \subseteq Directions
    BY <1>4 DEF FlowOK
  <2>3. d \in fl.todo /\ d \in Directions /\ d \in Chosen(q)
    BY <2>1, <2>2
  <2>4. next = IF fl.todo = {d} THEN AfterStops(u, t, r) ELSE Result(u, t, gl)
    BY <1>4, <2>1 DEF Continue, StillWanted
  <2> HIDE DEF d
  <2>5. /\ u \in Pages /\ u.map = RenderStopMarkers(q.map, r, d)
        /\ u.selectedRouteId = r /\ u.selectedDirections = q.selectedDirections
        /\ u.nearbyStopsActive = q.nearbyStopsActive
    BY <1>1, <2>3, MarkersOnPages
  <2>6. gl.at = "stops" /\ gl.route = r /\ gl.of = r /\ gl.todo = fl.todo \ {d}
    BY <1>4, <2>1, <2>2 DEF FlowType
  <2> HIDE DEF u, gl, next
  <2>7. q.map \in Pictures
    BY PagesWithPictures
  <2>8. u.map.stops = q.map.stops \cup {<<r, d>>} /\ u.map.lines = q.map.lines /\ u.map.hidden = q.map.hidden
    BY <2>5, <2>7 DEF RenderStopMarkers, Pictures
  <2>9. Chosen(u) = Chosen(q)
    BY <2>5 DEF Chosen, EnabledDirections
  <2>10. Drawn(u)
    BY <2>1, <2>5, <2>8, <2>9 DEF Drawn
  <2>11. u.map.stops = {r} \X (Chosen(u) \ (fl.todo \ {d}))
    BY <2>1, <2>3, <2>8, <2>9
  <2>12. CASE fl.todo = {d}
    <3>1. u.map.stops = {r} \X Chosen(u)
      BY <2>11, <2>12
    <3>2. SelectingIn(AfterStops(u, t, r))
      BY <1>1, <2>5, <2>10, <3>1, AfterStopsSelects
    <3>3. QED
      BY <2>4, <2>12, <3>2 DEF next
  <2>13. CASE fl.todo # {d}
    <3>1. gl.todo \subseteq Chosen(u) /\ u.map.stops = {r} \X (Chosen(u) \ gl.todo)
      BY <2>1, <2>6, <2>9, <2>11
    <3>2. Selecting(u, t, gl)
      BY <1>1, <2>5, <2>6, <2>10, <3>1 DEF Selecting
    <3>3. SelectingIn(Result(u, t, gl))
      BY <3>2 DEF SelectingIn, Result
    <3>4. QED
      BY <2>4, <2>13, <3>3 DEF next
  <2>14. QED
    BY <2>12, <2>13
<1>5. CASE fl.at = "detours"
  <2>1. fl.route = r /\ Drawn(q) /\ q.map.stops = {r} \X Chosen(q)
    BY <1>5 DEF Selecting, Idle, Flow
  <2>2. next = Result(q, StartPolling(t, r), Idle)
    BY <1>5, <2>1 DEF Continue, Finish
  <2>3. StartPolling(t, r).polled = r
    BY <1>1, TrackersAreTyped
  <2> HIDE DEF next
  <2>4. SelectingIn(next)
    BY <1>1, <2>1, <2>2, <2>3 DEF SelectingIn, Selecting, Result
  <2>5. QED
    BY <2>4 DEF next
<1>6. QED
  BY <1>2, <1>3, <1>4, <1>5, IdleIsOK DEF Selecting

LEMMA NearbyRoutesRestore ==
  ASSUME NEW q \in Pages, NEW t, NEW visited, q.selectedRouteId = NoRoute, t.polled = NoRoute,
         q.map.stops = {}, q.map.lines \subseteq q.nearbyRouteIds,
         visited \subseteq q.nearbyRouteIds, visited \subseteq q.map.lines,
         NEW first, SomeOf(first, q.nearbyRouteIds)
  PROVE  RestoringIn(ShowNearbyRoutes(q, t, visited, first))
<1> DEFINE near == q.nearbyRouteIds
           bulk == {r \in near : InBulk(r) /\ ~HasRouteGeometry(q.map, r)}
           u == [q EXCEPT !.map.lines = @ \cup bulk]
           left == {r \in near \ visited : ~InBulk(r) /\ ~HasRouteGeometry(q.map, r)}
           next == CHOOSE r \in left : TRUE
           fl == Flow("nearbyGeometry", next, NoRoute, visited \cup {next}, first)
           shown == [u EXCEPT !.map.stops = @ \cup NearbyKeys(first), !.nearbyStopsActive = TRUE]
<1>1. near \in SUBSET Routes /\ bulk \in SUBSET Routes /\ first \in SUBSET Routes
  BY DEF Pages, SomeOf
<1>2. ShowNearbyRoutes(q, t, visited, first) =
        IF left # {} THEN Result(u, t, fl) ELSE Finish(shown, t)
  BY DEF ShowNearbyRoutes
<1>3. q.map.lines \cup bulk \subseteq near /\ near \cap PrtRoutes \subseteq q.map.lines \cup bulk
      /\ near \ left \subseteq q.map.lines \cup bulk
  BY DEF InBulk, HasRouteGeometry
<1> HIDE DEF bulk
<1>4. /\ u \in Pages /\ u.map.lines = q.map.lines \cup bulk /\ u.map.stops = {}
      /\ u.selectedRouteId = NoRoute /\ u.nearbyRouteIds = near
  BY <1>1, MoreLines
<1>5. left # {} => next \in left /\ next \in near
  OBVIOUS
<1> HIDE DEF u, left, next, near
<1>6. left # {} => RestoringIn(Result(u, t, fl))
  <2>1. fl.at = "nearbyGeometry" /\ fl.route = next /\ fl.todo = visited \cup {next}
        /\ fl.found = first
    BY DEF Flow
  <2> HIDE DEF fl
  <2>2. left # {} => Restoring(u, t, fl)
    BY <1>3, <1>4, <1>5, <2>1 DEF Restoring, near
  <2>3. QED
    BY <2>2 DEF RestoringIn, Result
<1>7. left = {} => RestoringIn(Finish(shown, t))
  <2>1. /\ shown \in Pages /\ shown.map = [u.map EXCEPT !.stops = @ \cup NearbyKeys(first)]
        /\ shown.selectedRouteId = NoRoute /\ shown.nearbyRouteIds = near
    BY <1>1, <1>4, NearbyMarkers
  <2>2. u.map \in Pictures
    BY <1>4, PagesWithPictures
  <2> HIDE DEF shown
  <2>3. shown.map.lines = u.map.lines /\ shown.map.stops = NearbyKeys(first)
    BY <1>4, <2>1, <2>2 DEF Pictures
  <2>3a. NearbyKeys(first) \subseteq NearbyKeys(near) /\ (NearbyKeys(first) = {} <=> near = {})
    BY DEF NearbyKeys, SomeOf, near
  <2>4. left = {} => u.map.lines = near
    BY <1>3, <1>4
  <2>5. left = {} => Restoring(shown, t, Idle)
    BY <2>1, <2>3, <2>3a, <2>4 DEF Restoring
  <2>6. QED
    BY <2>5 DEF RestoringIn, Finish, Result
<1>8. QED
  BY <1>2, <1>6, <1>7 DEF near

LEMMA DefaultStateRestores ==
  ASSUME NEW q \in Pages, NEW t, IsTracker(t)
  PROVE  RestoringIn(RestoreDefaultState(q, t))
<1> DEFINE u == [ForgetNearby(q) EXCEPT !.map = ClearAllRoutes(@), !.selectedRouteId = NoRoute,
                                        !.selectedDirections = Directions]
           w == [u EXCEPT !.userLocation = TRUE]
           asked == {r \in Routes : SystemOf(r) \in u.selectedSystems \/ u.selectedSystems = {}}
           rest == StopPolling(t)
           fl == Flow("nearby", NoRoute, NoRoute, u.availableRoutes, asked)
<1>1. RestoreDefaultState(q, t) = ShowNearbyStops(u, rest)
  BY DEF RestoreDefaultState
<1>2. /\ u \in Pages /\ u.map = EmptyPicture /\ u.selectedRouteId = NoRoute
      /\ u.nearbyRouteIds = {} /\ ~u.nearbyStopsActive
  BY DefaultPages
<1>3. rest.polled = NoRoute
  BY TrackersAreTyped
<1> HIDE DEF u, rest
<1>4. /\ w \in Pages /\ w.map = EmptyPicture /\ w.selectedRouteId = NoRoute
      /\ w.nearbyRouteIds = {} /\ ~w.nearbyStopsActive
      /\ w.availableRoutes = u.availableRoutes /\ w.selectedSystems = u.selectedSystems
  BY <1>2, LocatedPages
<1>5. ShowNearbyStops(u, rest) = Result(w, rest, fl)
  BY <1>2, <1>4 DEF ShowNearbyStops, ClearNearby
<1>6. fl.at = "nearby"
  BY DEF Flow
<1> HIDE DEF w, fl
<1>7. QED
  BY <1>1, <1>3, <1>4, <1>5, <1>6 DEF RestoringIn, Restoring, Result

LEMMA DefaultContinues ==
  ASSUME NEW q \in Pages, NEW t, NEW fl, FlowOK(fl), Restoring(q, t, fl)
  PROVE  /\ fl.at = "nearbyGeometry" => RestoringIn(Continue(q, t, fl, TRUE))
         /\ fl.at = "nearby" =>
              \A found, first \in SUBSET Routes :
                SomeOf(first, found) => RestoringIn(ContinueNearby(q, t, fl, found, first))
         /\ fl.at \in {"nearby", "nearbyGeometry", "idle"}
<1>1. q.selectedRouteId = NoRoute /\ t.polled = NoRoute
  BY DEF Restoring
<1>2. ASSUME fl.at = "nearbyGeometry"
      PROVE  RestoringIn(Continue(q, t, fl, TRUE))
  <2> DEFINE u == [q EXCEPT !.map = RenderRouteGeometry(@, fl.route)]
  <2>1. /\ SomeOf(fl.found, q.nearbyRouteIds) /\ fl.route \in fl.todo /\ fl.todo \subseteq q.nearbyRouteIds
        /\ q.map.stops = {} /\ q.map.lines \subseteq q.nearbyRouteIds
        /\ (fl.todo \ {fl.route}) \cup (q.nearbyRouteIds \cap PrtRoutes) \subseteq q.map.lines
    BY <1>2, IdleIsOK DEF Restoring
  <2>2. fl.route \in Routes /\ q.map \in Pictures
    BY <1>2, PagesWithPictures DEF FlowOK
  <2>3. Continue(q, t, fl, TRUE) = ShowNearbyRoutes(u, t, fl.todo, fl.found)
    BY <1>2 DEF Continue
  <2>4. /\ u \in Pages /\ u.map = RenderRouteGeometry(q.map, fl.route)
        /\ u.selectedRouteId = NoRoute /\ u.nearbyRouteIds = q.nearbyRouteIds
    BY <1>1, <2>2, GeometryOnPages
  <2> HIDE DEF u
  <2>5. u.map.lines = q.map.lines \cup {fl.route} /\ u.map.stops = {}
    BY <2>1, <2>2, <2>4 DEF RenderRouteGeometry, Pictures
  <2>6. RestoringIn(ShowNearbyRoutes(u, t, fl.todo, fl.found))
    BY <1>1, <2>1, <2>4, <2>5, NearbyRoutesRestore
  <2>7. QED
    BY <2>1, <2>3, <2>4, <2>6
<1>3. ASSUME fl.at = "nearby", NEW found \in SUBSET Routes, NEW first \in SUBSET Routes,
             SomeOf(first, found)
      PROVE  RestoringIn(ContinueNearby(q, t, fl, found, first))
  <2>1. q.map = EmptyPicture /\ q.nearbyRouteIds = {}
    BY <1>3, IdleIsOK DEF Restoring
  <2>2. CASE found = {}
    <3>1. q.map.lines = {} /\ q.map.stops = {}
      BY <2>1 DEF EmptyPicture
    <3>2. Restoring(q, t, Idle)
      BY <1>1, <2>1, <3>1 DEF Restoring
    <3>3. QED
      BY <2>2, <3>2 DEF ContinueNearby, Finish, Result, RestoringIn
  <2>3. CASE found # {}
    <3> DEFINE pic == HideRoutes(q.map, fl.todo \ found)
               u == [q EXCEPT !.nearbyRouteIds = found, !.map = HideRoutes(@, fl.todo \ found)]
    <3>1. ContinueNearby(q, t, fl, found, first) = ShowNearbyRoutes(u, t, {}, first)
      BY <2>3 DEF ContinueNearby
    <3>2. u = [q EXCEPT !.nearbyRouteIds = found, !.map = pic]
      OBVIOUS
    <3>3. pic \in Pictures /\ pic.stops = {} /\ pic.lines = {}
      <4>1. q.map \in Pictures
        BY PagesWithPictures
      <4>2. pic \in Pictures
        BY <4>1, PicturesAreTyped
      <4>3. QED
        BY <2>1, <4>2 DEF HideRoutes, EmptyPicture
    <3> HIDE DEF u, pic
    <3>4. u \in Pages /\ u.map = pic /\ u.selectedRouteId = NoRoute /\ u.nearbyRouteIds = found
      BY <1>1, <3>2, <3>3 DEF Pages
    <3>5. RestoringIn(ShowNearbyRoutes(u, t, {}, first))
      BY <1>1, <1>3, <3>3, <3>4, NearbyRoutesRestore
    <3>6. QED
      BY <3>1, <3>4, <3>5
  <2>4. QED
    BY <2>2, <2>3
<1>4. fl.at \in {"nearby", "nearbyGeometry", "idle"}
  BY IdleIsOK DEF Restoring
<1>5. QED
  BY <1>2, <1>3, <1>4

-----------------------------------------------------------------------------
(* The steps keep it *)

LEMMA BecomeAlone ==
  ASSUME SInv, NEW f \in Flows, NEW res, Become(f, res), \A g \in Flows \ {f} : flows[g] = Idle
  PROVE  /\ page' = res.page /\ tracker' = res.tracker /\ flows'[f] = res.flow
         /\ \A g \in Flows \ {f} : flows'[g] = Idle
BY DEF Become, SInv, TypeOK

LEMMA StartAlone ==
  ASSUME SInv, NEW name, NEW res, Start(name, res),
         name = "select" => SelectingIn(res), name = "default" => RestoringIn(res)
  PROVE  (SelectionIsAlone /\ DefaultIsAlone)'
<1> DEFINE f == CHOOSE f \in Flows : flows[f] = Idle
<1>1. f \in Flows /\ Become(f, res) /\ undisturbed' = IF AtRest THEN name ELSE "none"
  BY DEF Start
<1> HIDE DEF f
<1>2. CASE AtRest
  <2>1. \A g \in Flows \ {f} : flows[g] = Idle
    BY <1>2 DEF AtRest
  <2>2. /\ page' = res.page /\ tracker' = res.tracker /\ flows'[f] = res.flow
        /\ \A g \in Flows \ {f} : flows'[g] = Idle
    BY <1>1, <2>1, BecomeAlone
  <2>3. name = "select" => Selecting(page', tracker', flows'[f])
    BY <2>2 DEF SelectingIn
  <2>4. name = "default" => Restoring(page', tracker', flows'[f])
    BY <2>2 DEF RestoringIn
  <2>5. SelectionIsAlone'
    BY <1>1, <1>2, <2>2, <2>3 DEF SelectionIsAlone, RunsAlone, Selecting, Drawn, Chosen, EnabledDirections
  <2>6. DefaultIsAlone'
    BY <1>1, <1>2, <2>2, <2>4 DEF DefaultIsAlone, RunsAlone, Restoring
  <2>7. QED
    BY <2>5, <2>6
<1>3. CASE ~AtRest
  BY <1>1, <1>3 DEF SelectionIsAlone, DefaultIsAlone
<1>4. QED
  BY <1>2, <1>3

LEMMA AnswerAlone ==
  ASSUME IInv, NEW f \in Flows, Answer(f)
  PROVE  (SelectionIsAlone /\ DefaultIsAlone)'
<1> DEFINE res == Continue(page, tracker, flows[f], reachable)
<1>1. /\ flows[f].at \notin {"idle", "nearby"} /\ Become(f, res)
      /\ undisturbed' = IF reachable THEN undisturbed ELSE "none"
  BY DEF Answer
<1>2. page \in Pages /\ IsTracker(tracker) /\ FlowOK(flows[f]) /\ reachable \in BOOLEAN
  BY DEF IInv, SInv, TypeOK, FlowsOK
<1>3. ASSUME undisturbed' # "none"
      PROVE  reachable = TRUE /\ undisturbed' = undisturbed
  BY <1>1, <1>2, <1>3
<1>4. \A g \in Flows : RunsAlone(g) => g = f
  BY <1>1, IdleIsOK DEF RunsAlone
<1>5. CASE undisturbed' = "select"
  <2>1. reachable = TRUE /\ RunsAlone(f) /\ Selecting(page, tracker, flows[f])
    BY <1>3, <1>4, <1>5 DEF IInv, SelectionIsAlone
  <2>2. SelectingIn(res)
    BY <1>1, <1>2, <2>1, SelectionContinues
  <2> HIDE DEF res
  <2>3. /\ page' = res.page /\ tracker' = res.tracker /\ flows'[f] = res.flow
        /\ \A g \in Flows \ {f} : flows'[g] = Idle
    BY <1>1, <2>1, BecomeAlone DEF IInv, RunsAlone
  <2>4. Selecting(page', tracker', flows'[f])
    BY <2>2, <2>3 DEF SelectingIn
  <2>5. QED
    BY <1>5, <2>3, <2>4
       DEF SelectionIsAlone, DefaultIsAlone, RunsAlone, Selecting, Drawn, Chosen, EnabledDirections
<1>6. CASE undisturbed' = "default"
  <2>1. reachable = TRUE /\ RunsAlone(f) /\ Restoring(page, tracker, flows[f])
    BY <1>3, <1>4, <1>6 DEF IInv, DefaultIsAlone
  <2>2. RestoringIn(res)
    BY <1>1, <1>2, <2>1, DefaultContinues
  <2> HIDE DEF res
  <2>3. /\ page' = res.page /\ tracker' = res.tracker /\ flows'[f] = res.flow
        /\ \A g \in Flows \ {f} : flows'[g] = Idle
    BY <1>1, <2>1, BecomeAlone DEF IInv, RunsAlone
  <2>4. Restoring(page', tracker', flows'[f])
    BY <2>2, <2>3 DEF RestoringIn
  <2>5. QED
    BY <1>6, <2>3, <2>4 DEF SelectionIsAlone, DefaultIsAlone, RunsAlone, Restoring
<1>7. QED
  BY <1>5, <1>6 DEF SelectionIsAlone, DefaultIsAlone

LEMMA NearbyAlone ==
  ASSUME IInv, NEW f \in Flows, AnswerNearby(f)
  PROVE  (SelectionIsAlone /\ DefaultIsAlone)'
<1>1. flows[f].at = "nearby" /\ undisturbed' = undisturbed
  BY DEF AnswerNearby
<1>2. page \in Pages /\ IsTracker(tracker) /\ FlowOK(flows[f])
  BY DEF IInv, SInv, TypeOK, FlowsOK
<1>3. PICK found \in IF reachable THEN SUBSET flows[f].found ELSE {{}} :
        \E first \in SUBSET found :
          /\ found # {} => first # {}
          /\ Become(f, ContinueNearby(page, tracker, flows[f], found, first))
  BY DEF AnswerNearby
<1>3a. PICK first \in SUBSET found :
         /\ found # {} => first # {}
         /\ Become(f, ContinueNearby(page, tracker, flows[f], found, first))
  BY <1>3
<1>4. found \in SUBSET Routes /\ first \in SUBSET Routes /\ SomeOf(first, found)
  BY <1>2, <1>3, <1>3a DEF FlowOK, FlowType, SomeOf
<1>5. \A g \in Flows : RunsAlone(g) => g = f
  BY <1>1, IdleIsOK DEF RunsAlone
<1>6. undisturbed # "select"
  BY <1>1, <1>5, IdleIsOK DEF IInv, SelectionIsAlone, Selecting
<1>7. CASE undisturbed' = "default"
  <2> DEFINE res == ContinueNearby(page, tracker, flows[f], found, first)
  <2>1. RunsAlone(f) /\ Restoring(page, tracker, flows[f])
    BY <1>1, <1>5, <1>7 DEF IInv, DefaultIsAlone
  <2>2. RestoringIn(res) /\ Become(f, res)
    BY <1>1, <1>2, <1>3a, <1>4, <2>1, DefaultContinues
  <2> HIDE DEF res
  <2>3. /\ page' = res.page /\ tracker' = res.tracker /\ flows'[f] = res.flow
        /\ \A g \in Flows \ {f} : flows'[g] = Idle
    BY <2>1, <2>2, BecomeAlone DEF IInv, RunsAlone
  <2>4. Restoring(page', tracker', flows'[f])
    BY <2>2, <2>3 DEF RestoringIn
  <2>5. QED
    BY <1>7, <2>3, <2>4 DEF SelectionIsAlone, DefaultIsAlone, RunsAlone, Restoring
<1>8. QED
  BY <1>1, <1>6, <1>7 DEF SelectionIsAlone, DefaultIsAlone

LEMMA VehiclesAlone ==
  ASSUME IInv, PollVehicles \/ \E q \in SingleRequests : AnswerVehicles(q)
  PROVE  (SelectionIsAlone /\ DefaultIsAlone)'
<1>1. UNCHANGED <<page, flows, reachable, operations, undisturbed>>
  BY VehicleStepsKeep DEF IInv
<1>2. IsTracker(tracker)
  BY DEF IInv, SInv, TypeOK
<1>3. tracker'.polled = tracker.polled
  <2>1. CASE PollVehicles
    <3>1. PICK q \in Due(tracker) : tracker' = Send(tracker, q)
      BY <2>1 DEF PollVehicles
    <3>2. tracker.polled \in Routes \cup {NoRoute} /\ tracker.multi \in SUBSET Routes
      BY <1>2 DEF IsTracker
    <3>3. q \in Requests
      BY <3>1, <3>2 DEF Due, Requests
    <3>4. QED
      BY <1>2, <3>1, <3>3, TrackersAreTyped
  <2>2. CASE \E q \in SingleRequests : AnswerVehicles(q)
    <3>1. PICK q \in SingleRequests : AnswerVehicles(q)
      BY <2>2
    <3>2. q \in Requests /\ q.routes \in SUBSET Routes
      BY DEF SingleRequests, Requests, Request
    <3>3. PICK shown \in SUBSET q.routes :
            tracker' = Answered(tracker, q, shown, IF reachable THEN {} ELSE q.routes)
      BY <3>1 DEF AnswerVehicles
    <3>4. shown \in SUBSET Routes
      BY <3>2, <3>3
    <3>5. QED
      BY <1>2, <3>2, <3>3, <3>4, TrackersAreTyped
  <2>3. QED
    BY <2>1, <2>2
<1>4. SelectionIsAlone'
  BY <1>1, <1>3 DEF IInv, SelectionIsAlone, RunsAlone, Selecting, Drawn, Chosen, EnabledDirections
<1>5. DefaultIsAlone'
  BY <1>1, <1>3 DEF IInv, DefaultIsAlone, RunsAlone, Restoring
<1>6. QED
  BY <1>4, <1>5

LEMMA InitIInv == Init => IInv
BY InitSInv DEF Init, IInv, SelectionIsAlone, DefaultIsAlone

LEMMA NextIInv == IInv /\ [Next]_vars => IInv'
<1> SUFFICES ASSUME IInv, [Next]_vars
             PROVE  (SelectionIsAlone /\ DefaultIsAlone)'
  BY NextSInv DEF IInv
<1>1. SInv /\ SInv' /\ page \in Pages /\ IsTracker(tracker)
  BY NextSInv DEF IInv, SInv, TypeOK
<1>2. ASSUME NEW r \in Routes, SelectRoute(r)
      PROVE  (SelectionIsAlone /\ DefaultIsAlone)'
  <2>1. SelectingIn(ApplyRouteFilter(Select(page, r), tracker, r))
    BY <1>1, ChangedPages, RouteFilterSelects
  <2>2. QED
    BY <1>1, <1>2, <2>1, StartAlone DEF SelectRoute
<1>3. CASE Deselect
  <2>1. RestoringIn(RestoreDefaultState(page, tracker))
    BY <1>1, DefaultStateRestores
  <2>2. QED
    BY <1>1, <1>3, <2>1, StartAlone DEF Deselect
<1>4. CASE \/ \E ss \in SUBSET Systems : ToggleSystems(ss)
           \/ \E ds \in SUBSET Directions : ToggleDirections(ds)
           \/ Locate \/ ColorsRecover
  BY <1>1, <1>4, StartAlone DEF ToggleSystems, ToggleDirections, Locate, ColorsRecover
<1>5. ASSUME NEW f \in Flows, Answer(f) \/ AnswerNearby(f)
      PROVE  (SelectionIsAlone /\ DefaultIsAlone)'
  BY <1>5, AnswerAlone, NearbyAlone
<1>6. CASE PollVehicles \/ \E q \in SingleRequests : AnswerVehicles(q)
  BY <1>6, VehiclesAlone
<1>7. CASE ReachabilityChanges \/ UNCHANGED vars
  <2>1. UNCHANGED <<page, tracker, flows, undisturbed>>
    BY <1>7 DEF ReachabilityChanges, vars
  <2>2. QED
    BY <2>1 DEF IInv, SelectionIsAlone, DefaultIsAlone, RunsAlone, Selecting, Restoring, Drawn,
                Chosen, EnabledDirections
<1>8. QED
  BY <1>2, <1>3, <1>4, <1>5, <1>6, <1>7 DEF Next

\* What runs alone leaves the map as the member chose it: after a selection the
\* polylines, stops and vehicles of that route and nothing else; after a
\* deselection the nearby routes; whatever earlier overlaps left there.
THEOREM ChoicesAreShown == Spec => []UndisturbedPageShowsTheChoice
<1>1. IInv => UndisturbedSelectionShows
  <2> SUFFICES ASSUME IInv, AtRest, undisturbed = "select"
               PROVE  LET r == page.selectedRouteId
                          ds == EnabledDirections(page, DirectionsOf[r])
                      IN /\ page.map.lines = {r}
                         /\ page.map.hidden = {r} \X (DirectionsOf[r] \ ds)
                         /\ page.map.stops = {r} \X ds
                         /\ ~page.nearbyStopsActive
                         /\ tracker.polled = r
    BY DEF UndisturbedSelectionShows
  <2>1. PICK f \in Flows : Selecting(page, tracker, flows[f])
    BY DEF IInv, SelectionIsAlone
  <2>2. Selecting(page, tracker, Idle)
    BY <2>1 DEF AtRest
  <2>3. QED
    BY <2>2, IdleIsOK DEF Selecting, Drawn, Chosen
<1>2. IInv => UndisturbedDefaultShows
  <2> SUFFICES ASSUME IInv, AtRest, undisturbed = "default"
               PROVE  /\ page.selectedRouteId = NoRoute
                      /\ page.map.lines = page.nearbyRouteIds
                      /\ page.map.stops \subseteq NearbyKeys(page.nearbyRouteIds)
                      /\ page.map.stops = {} <=> page.nearbyRouteIds = {}
                      /\ tracker.polled = NoRoute
    BY DEF UndisturbedDefaultShows
  <2>1. PICK f \in Flows : Restoring(page, tracker, flows[f])
    BY DEF IInv, DefaultIsAlone
  <2>2. Restoring(page, tracker, Idle)
    BY <2>1 DEF AtRest
  <2>3. QED
    BY <2>2, IdleIsOK DEF Restoring
<1>3. IInv => UndisturbedPageShowsTheChoice
  BY <1>1, <1>2 DEF UndisturbedPageShowsTheChoice
<1>4. QED
  BY InitIInv, NextIInv, <1>3, PTL DEF Spec
=============================================================================
