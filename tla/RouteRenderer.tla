----------------------------- MODULE RouteRenderer -----------------------------
(***************************************************************************)
(* RouteRenderer: what is drawn on the map for the routes, as a record and *)
(* the operations on it.  Polylines are drawn per route and shown or       *)
(* hidden per direction; stop markers are kept per route and per           *)
(* direction, where the nearby stops use a direction of their own.         *)
(***************************************************************************)
EXTENDS TransitRoutes

Kinds == Directions \cup {"NEARBY"}

\* lines:  routes whose polylines are on the map
\* hidden: directions of such routes that are set invisible
\* stops:  <<route, kind>> of the stop markers
Pictures ==
  [lines : SUBSET Routes, hidden : SUBSET (Routes \X Directions),
   stops : SUBSET (Routes \X Kinds)]

EmptyPicture == [lines |-> {}, hidden |-> {}, stops |-> {}]

HasRouteGeometry(pic, r) == r \in pic.lines

\* Old polylines of the route go first; new ones are visible.
RenderRouteGeometry(pic, r) ==
  [pic EXCEPT !.lines = @ \cup {r}, !.hidden = {h \in @ : h[1] # r}]

ClearRoutePolylines(pic, r) ==
  [pic EXCEPT !.lines = @ \ {r}, !.hidden = {h \in @ : h[1] # r}]

RenderStopMarkers(pic, r, kind) == [pic EXCEPT !.stops = @ \cup {<<r, kind>>}]

ClearStopMarkers(pic, keys) == [pic EXCEPT !.stops = @ \ keys]

ClearAllRoutes(pic) == EmptyPicture

\* setVisible(false) on what is drawn of the routes rs, setVisible(true) on what
\* is drawn of the routes rs.
HideRoutes(pic, rs) ==
  [pic EXCEPT !.hidden = @ \cup {h \in (rs \cap pic.lines) \X Directions : h[2] \in DirectionsOf[h[1]]}]
ShowRoutes(pic, rs) == [pic EXCEPT !.hidden = {h \in @ : h[1] \notin rs}]

\* Of a drawn route, exactly the directions ds are visible.
ShowDirectionsOnly(pic, r, ds) ==
  [pic EXCEPT !.hidden = {h \in @ : h[1] # r} \cup
     (IF r \in pic.lines THEN {r} \X (DirectionsOf[r] \ ds) ELSE {})]
=============================================================================
