------------------------------ MODULE FeedStore ------------------------------
(***************************************************************************)
(* What the in-memory store behind a GTFS-realtime poller promises to its  *)
(* readers (getVehicles, getPredictions, isHealthy): it holds one version  *)
(* of the remote feed as a whole, it never goes back to an older version,  *)
(* and a failure marks it unhealthy without taking its data away.          *)
(***************************************************************************)
EXTENDS Naturals

CONSTANT MaxVersion  \* bounds how often the feed changes

VARIABLES
  version,  \* the version the remote feed is at
  data,     \* the version the store holds; 0 until the first fetch
  healthy   \* consecutiveFailures = 0

vars == <<version, data, healthy>>

Init == version = 1 /\ data = 0 /\ healthy = TRUE

Publish ==
  /\ version < MaxVersion
  /\ version' = version + 1
  /\ UNCHANGED <<data, healthy>>

Refresh ==
  /\ data' \in data..version
  /\ healthy' = TRUE
  /\ UNCHANGED version

Fail ==
  /\ healthy' = FALSE
  /\ UNCHANGED <<version, data>>

Next == Publish \/ Refresh \/ Fail

Spec == Init /\ [][Next]_vars
=============================================================================
