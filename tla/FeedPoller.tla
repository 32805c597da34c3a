------------------------------ MODULE FeedPoller ------------------------------
(***************************************************************************)
(* The pollers of the realtime feeds, VehiclePositionsService,             *)
(* TripUpdatesService and TripShotLiveStatusService.  pollTick starts a    *)
(* fetch unless one is in progress; the GTFS pollers then leave a note     *)
(* that makes the end of that fetch start another, TripShot's drops the    *)
(* tick.  The fetches are not awaited by anything, so nothing but the      *)
(* flags keeps them from overlapping and their answers from being stored   *)
(* out of order.                                                           *)
(***************************************************************************)
EXTENDS Naturals

CONSTANTS
  Flights,    \* slots for activations of fetchAndStore
  MaxVersion  \* bounds how often the remote feed changes

ASSUME MaxVersionAssumption == MaxVersion \in Nat \ {0}

VARIABLES
  remembersTicks,   \* which poller this is: a GTFS poller or TripShot's
  version,          \* environment: the version of the remote feed
  reachable,        \* environment: whether it answers with a decodable feed
  polling,          \* the interval is set
  closed,           \* the server is closing
  fetchInProgress,
  pendingPollTick,
  flights,          \* what each activation of fetchAndStore waits for
  data,             \* the version in the in-memory index; 0 before the first
  healthy           \* consecutiveFailures = 0

vars == <<remembersTicks, version, reachable, polling, closed, fetchInProgress, pendingPollTick,
          flights, data, healthy>>

Versions == 1..MaxVersion

None    == [state |-> "none", body |-> 0]
Waiting == [state |-> "waiting", body |-> 0]
Failed  == [state |-> "failed", body |-> 0]
Body(v) == [state |-> "body", body |-> v]

Active == {f \in Flights : flights[f] # None}

TypeOK ==
  /\ remembersTicks \in BOOLEAN
  /\ version \in Versions
  /\ reachable \in BOOLEAN
  /\ polling \in BOOLEAN
  /\ closed \in BOOLEAN
  /\ fetchInProgress \in BOOLEAN
  /\ pendingPollTick \in BOOLEAN
  /\ flights \in [Flights -> {None, Waiting, Failed} \cup {Body(v) : v \in Versions}]
  /\ data \in 0..MaxVersion
  /\ healthy \in BOOLEAN

Init ==
  /\ remembersTicks \in BOOLEAN
  /\ version = 1
  /\ reachable \in BOOLEAN
  /\ polling = FALSE
  /\ closed = FALSE
  /\ fetchInProgress = FALSE
  /\ pendingPollTick = FALSE
  /\ flights = [f \in Flights |-> None]
  /\ data = 0
  /\ healthy = TRUE

-----------------------------------------------------------------------------
(* The environment *)

\* The bound only ends the counting of versions.
Publish ==
  /\ version < MaxVersion
  /\ version' = version + 1
  /\ UNCHANGED <<remembersTicks, reachable, polling, closed,
                 fetchInProgress, pendingPollTick, flights, data, healthy>>

ReachabilityChanges ==
  /\ reachable' = ~reachable
  /\ UNCHANGED <<remembersTicks, version, polling, closed,
                 fetchInProgress, pendingPollTick, flights, data, healthy>>

\* Mutant: an empty body passes for a feed.
AnswerEmptyBody(f) ==
  /\ flights[f] = Waiting
  /\ flights' = [flights EXCEPT ![f] = IF reachable THEN Body(version) ELSE Body(0)]
  /\ UNCHANGED <<remembersTicks, version, reachable, polling, closed,
                 fetchInProgress, pendingPollTick, data, healthy>>

\* The feed answers with the version it is at, or not at all (an HTTP error, a
\* network error or timeout, a body that does not decode).
Answer(f) ==
  /\ flights[f] = Waiting
  /\ flights' = [flights EXCEPT ![f] = IF reachable THEN Body(version) ELSE Failed]
  /\ UNCHANGED <<remembersTicks, version, reachable, polling, closed,
                 fetchInProgress, pendingPollTick, data, healthy>>

-----------------------------------------------------------------------------
(* The poller *)

\* fetchAndStore up to its first await.
Launch ==
  /\ \E f \in Flights \ Active : flights' = [flights EXCEPT ![f] = Waiting]
  /\ fetchInProgress' = TRUE

\* Mutant: every tick starts a fetch.
PollTickUnguarded == Launch /\ UNCHANGED pendingPollTick

PollTick ==
  \/ /\ fetchInProgress
     /\ pendingPollTick' = remembersTicks
     /\ UNCHANGED <<flights, fetchInProgress>>
  \/ /\ ~fetchInProgress
     /\ Launch
     /\ UNCHANGED pendingPollTick

\* start() of the start-up chain, with its immediate first fetch.
Start ==
  /\ ~polling /\ ~closed
  /\ polling' = TRUE
  /\ PollTick
  /\ UNCHANGED <<remembersTicks, version, reachable, closed, data, healthy>>

\* The interval fires.
Tick ==
  /\ polling
  /\ PollTick
  /\ UNCHANGED <<remembersTicks, version, reachable, polling, closed,
                 data, healthy>>

\* Mutant: a pending tick is consumed without running it, and the flag stays.
FinallyKeepingFlag(f) ==
  /\ pendingPollTick' = FALSE
  /\ flights' = [flights EXCEPT ![f] = None]
  /\ fetchInProgress' = (fetchInProgress /\ pendingPollTick)

\* The finally clause of fetchAndStore: a tick that left a note runs now.
Finally(f) ==
  /\ pendingPollTick' = FALSE
  /\ flights' = [flights EXCEPT ![f] = IF pendingPollTick THEN Waiting ELSE None]
  /\ fetchInProgress' = pendingPollTick

\* A body is decoded and swapped in.
Store(f) ==
  /\ flights[f].state = "body"
  /\ data' = flights[f].body
  /\ healthy' = TRUE
  /\ Finally(f)
  /\ UNCHANGED <<remembersTicks, version, reachable, polling, closed>>

\* A failed fetch is counted and leaves the index alone.
RecordFailure(f) ==
  /\ flights[f] = Failed
  /\ healthy' = FALSE
  /\ Finally(f)
  /\ UNCHANGED <<remembersTicks, version, reachable, polling, closed, data>>

\* stop() when the server closes, possibly before start(); it clears the interval
\* and nothing else: the fetch in progress, and a pending one, still run.
Stop ==
  /\ ~closed
  /\ closed' = TRUE
  /\ polling' = FALSE
  /\ UNCHANGED <<remembersTicks, version, reachable, fetchInProgress,
                 pendingPollTick, flights, data, healthy>>

Next ==
  \/ Publish \/ ReachabilityChanges \/ Start \/ Tick \/ Stop
  \/ \E f \in Flights : Answer(f) \/ Store(f) \/ RecordFailure(f)

\* The start-up chain reaches start(), the interval keeps firing, fetch() gives up
\* on a silent server by itself, and the event loop runs every continuation.
Fairness ==
  /\ WF_vars(Start) /\ WF_vars(Tick)
  /\ \A f \in Flights : WF_vars(Answer(f)) /\ WF_vars(Store(f) \/ RecordFailure(f))

Spec == Init /\ [][Next]_vars /\ Fairness

-----------------------------------------------------------------------------
(* Properties *)

\* No two fetches overlap: fetchInProgress is set exactly while one runs.
SingleFlight ==
  /\ \A f, g \in Active : f = g
  /\ fetchInProgress <=> Active # {}

\* The poller implements the store its readers rely on; in particular an older
\* version never replaces a newer one.
FS == INSTANCE FeedStore WITH version <- version, data <- data, healthy <- healthy
ImplementsFeedStore == FS!Spec

\* Once the feed is reachable and stays at a version, the store holds that
\* version and is healthy for good, as long as the server does not close.
FollowsTheFeed ==
  \A v \in Versions :
    <>[](version = v /\ reachable /\ ~closed) => <>[](data = v /\ healthy)
=============================================================================
