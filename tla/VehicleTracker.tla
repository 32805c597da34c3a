----------------------------- MODULE VehicleTracker -----------------------------
(***************************************************************************)
(* VehicleTracker: the vehicles on the map and the polls that put them     *)
(* there, as a record and the operations on it.  One route is polled after *)
(* a selection, several while navigating.  An answer is rendered whatever  *)
(* happened since its request, also after stopPolling(): nothing cancels   *)
(* or checks it.                                                           *)
(***************************************************************************)
EXTENDS TransitRoutes, Bags, Integers

CONSTANT MaxRequests  \* bounds the vehicle requests under way

ASSUME TrackerAssumption == MaxRequests \in Nat \ {0}

\* polled:   currentRouteId, whose interval is set unless it is NoRoute
\* multi:    multiRouteIds, polled by the other interval unless empty
\* vehicles: the routes whose vehicles have markers
\* requests: the requests under way, a bag; one of several routes collects
\*           the answers of its routes one after the other
Request(rs, multi) == [routes |-> rs, multi |-> multi]
Requests == {Request({r}, FALSE) : r \in Routes} \cup {Request(rs, TRUE) : rs \in (SUBSET Routes) \ {{}}}

IsTracker(t) ==
  /\ t \in [polled : Routes \cup {NoRoute}, multi : SUBSET Routes, vehicles : SUBSET Routes,
            requests : {t.requests}]
  /\ IsABag(t.requests) /\ BagToSet(t.requests) \subseteq Requests

IdleTracker == [polled |-> NoRoute, multi |-> {}, vehicles |-> {}, requests |-> EmptyBag]

MayRequest(t) == BagCardinality(t.requests) < MaxRequests

Send(t, q) == [t EXCEPT !.requests = @ (+) SetToBag({q})]

StopPolling(t) == [t EXCEPT !.polled = NoRoute, !.multi = {}, !.vehicles = {}]

\* The first request is sent at once.
StartPolling(t, r) ==
  Send([StopPolling(t) EXCEPT !.polled = r], Request({r}, FALSE))

StartMultiRoutePolling(t, rs) ==
  IF rs = {} THEN t ELSE Send([t EXCEPT !.multi = rs], Request(rs, TRUE))

\* Mutant: the tick does not look whether a route is polled.
DueUnchecked(t) == {Request({t.polled}, FALSE)}

\* The intervals, as the requests they send.
Due(t) ==
  {Request({r}, FALSE) : r \in {t.polled} \ {NoRoute}} \cup
  {Request(t.multi, TRUE) : rs \in {t.multi} \ {{}}}

\* Mutant: vehicles that are not in the answer keep their markers.
RenderKeepingStale(t, shown) == [t EXCEPT !.vehicles = @ \cup shown]

\* renderVehicles with removeStaleVehicles: the answer replaces what is shown.
RenderVehicles(t, shown) == [t EXCEPT !.vehicles = shown]

\* The answer of q has vehicles of the routes `of`; `failed` are the routes whose
\* request failed.  A failed request of a single route changes nothing.
Answered(t, q, of, failed) ==
  LET done == [t EXCEPT !.requests = @ (-) SetToBag({q})]
  IN IF ~q.multi /\ failed # {} THEN done ELSE RenderVehicles(done, of \ failed)
=============================================================================
