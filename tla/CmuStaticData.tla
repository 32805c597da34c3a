------------------------------ MODULE CmuStaticData ------------------------------
(***************************************************************************)
(* cmu-static-data.service: the stops of the shuttles, read once from a    *)
(* file of rows in any order.  A loop calls at a stop more than once; the  *)
(* stop is listed once, where it is first called at.                       *)
(***************************************************************************)
EXTENDS Integers, SequencesExt, Lists

CONSTANTS
  StopRows,  \* the rows with a route, a stop and coordinates: [route, stop, order]
  NameRank   \* the place of each stop's name in the alphabet

\* The orders of the file count from 0; a missing one is read as a greatest number.
ASSUME StopRowsAssumption ==
  /\ StopRows \in Seq(ToSet(StopRows))
  /\ \A row \in ToSet(StopRows) : row.stop \in DOMAIN NameRank /\ row.order \in Nat
  /\ \A s \in DOMAIN NameRank : NameRank[s] \in Nat

\* The stops of a route so far, with their orders.
Seen(orders, row) ==
  IF row.stop \in DOMAIN orders /\ orders[row.stop] <= row.order THEN orders
  ELSE [s \in DOMAIN orders \cup {row.stop} |->
          IF s = row.stop THEN row.order ELSE orders[s]]

RouteStops(route) ==
  LET rows == At(StopRows, {i \in DOMAIN StopRows : StopRows[i].route = route})
      seen[n \in 0..Len(rows)] ==
        IF n = 0 THEN [s \in {} |-> 0] ELSE Seen(seen[n - 1], rows[n])
  IN seen[Len(rows)]

\* Where the sort puts s before t.
Before(s, t, orders) ==
  orders[s] < orders[t] \/ (orders[s] = orders[t] /\ NameRank[s] < NameRank[t])

\* The stops sorted by order, then by name.
GetStopsForTripshotRoute(route) ==
  LET orders == RouteStops(route) IN
  CHOOSE list \in [1..Cardinality(DOMAIN orders) -> DOMAIN orders] :
    \A i, j \in DOMAIN list :
      i < j => list[i] # list[j] /\ ~Before(list[j], list[i], orders)
=============================================================================
