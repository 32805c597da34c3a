------------------------------ MODULE RouteRooms ------------------------------
(***************************************************************************)
(* The socket of one page: what live-notifications.ts asks for and the     *)
(* route rooms the server has it in.  Emits travel in order; what is on    *)
(* its way when the connection drops is lost, and what is emitted without  *)
(* a connection waits in the socket's buffer, which is sent before the     *)
(* connect handlers run.                                                   *)
(***************************************************************************)
EXTENDS Naturals, SequencesExt

CONSTANT Routes

ASSUME RoutesAssumption == IsFiniteSet(Routes)

Emitted == [event : {"subscribeRoute", "unsubscribeRoute"}, routeId : Routes]

Channel == [active : SUBSET Routes, rooms : SUBSET Routes, wire : Seq(Emitted), connected : BOOLEAN]

NoChannel == [active |-> {}, rooms |-> {}, wire |-> <<>>, connected |-> FALSE]

Emit(c, event, r) == [c EXCEPT !.wire = Append(@, [event |-> event, routeId |-> r])]

JoinRoute(c, r) == Emit([c EXCEPT !.active = @ \cup {r}], "subscribeRoute", r)

LeaveRoute(c, r) == Emit([c EXCEPT !.active = @ \ {r}], "unsubscribeRoute", r)

SubscribeAll(routes) == SetToSeq([event : {"subscribeRoute"}, routeId : routes])

\* init's loop over the subscriptions it fetched.
JoinAll(c, routes) == [c EXCEPT !.active = @ \cup routes, !.wire = @ \o SubscribeAll(routes)]

\* Mutant: the connect handler does not rejoin.
ConnectWithoutRejoin(c) == [c EXCEPT !.connected = TRUE]

\* The connect handler rejoins every route of the list.
Connect(c) == [c EXCEPT !.connected = TRUE, !.wire = @ \o SubscribeAll(c.active)]

\* The server drops the socket from its rooms; both ends forget what was on its way.
Disconnect(c) == [c EXCEPT !.connected = FALSE, !.rooms = {}, !.wire = <<>>]

\* The server's handlers of the two events.
Handled(rooms, ask) ==
  IF ask.event = "subscribeRoute" THEN rooms \cup {ask.routeId} ELSE rooms \ {ask.routeId}

Deliver(c) == [c EXCEPT !.rooms = Handled(@, Head(c.wire)), !.wire = Tail(@)]

\* The rooms once everything on the wire has arrived: the last ask for a route counts.
AskedLater(wire, n, r) == \E m \in DOMAIN wire : m > n /\ wire[m].routeId = r

RoomsToBe(c) ==
  {r \in Routes :
     \/ r \in c.rooms /\ ~AskedLater(c.wire, 0, r)
     \/ \E n \in DOMAIN c.wire :
          /\ c.wire[n].event = "subscribeRoute" /\ c.wire[n].routeId = r
          /\ ~AskedLater(c.wire, n, r)}
=============================================================================
