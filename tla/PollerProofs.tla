----------------------------- MODULE PollerProofs -----------------------------
(***************************************************************************)
(* Proofs about FeedPoller, for any number of slots and any MaxVersion:    *)
(* fetches do not overlap, and the poller implements FeedStore.  A fetched *)
(* body is never older than the stored version, because the flags keep all *)
(* other fetches away between its answer and its storing.                  *)
(* The clock and the index of TripShot leave the poller alone: every       *)
(* behaviour of TripShot is one of FeedPoller, so what is proved of the    *)
(* poller holds of the shuttles, and an index is of a version and a time   *)
(* that have been.                                                         *)
(***************************************************************************)
EXTENDS TripShot, WellFoundedInduction, TLAPS

BodiesAreFresh ==
  /\ data <= version
  /\ \A f \in Flights :
       flights[f].state = "body" => flights[f].body \in data..version

IInv == TypeOK /\ SingleFlight /\ BodiesAreFresh

-----------------------------------------------------------------------------
(* Facts about the flights *)

\* What a flight holds, case by case.
LEMMA FlightStates ==
  ASSUME TypeOK, NEW f \in Flights
  PROVE  /\ flights[f].state = "body" => flights[f].body \in Versions
         /\ flights[f].state = "body" => flights[f] # None
         /\ flights[f] = Waiting => flights[f] # None
         /\ flights[f] = Failed => flights[f] # None
BY DEF TypeOK, None, Waiting, Failed, Body

\* The finally clause of f, while f is the only flight.
LEMMA FinallyKeepsFlight ==
  ASSUME TypeOK, SingleFlight, NEW f \in Flights, flights[f] # None, Finally(f)
  PROVE  /\ flights' \in [Flights -> {None, Waiting, Failed} \cup {Body(v) : v \in Versions}]
         /\ fetchInProgress' \in BOOLEAN /\ pendingPollTick' \in BOOLEAN
         /\ SingleFlight'
         /\ \A g \in Flights : flights'[g].state # "body"
<1>1. \A g \in Flights : g # f => flights[g] = None
  BY DEF SingleFlight, Active
<1>2. \A g \in Flights :
        flights'[g] = IF g = f /\ pendingPollTick THEN Waiting ELSE None
  BY <1>1 DEF Finally, TypeOK
<1>3. Active' = IF pendingPollTick THEN {f} ELSE {}
  BY <1>2 DEF Active, None, Waiting
<1>4. SingleFlight'
  BY <1>3 DEF SingleFlight, Finally, TypeOK
<1>5. /\ flights' \in [Flights -> {None, Waiting, Failed} \cup {Body(v) : v \in Versions}]
      /\ fetchInProgress' \in BOOLEAN /\ pendingPollTick' \in BOOLEAN
  BY DEF Finally, TypeOK
<1>6. \A g \in Flights : flights'[g].state # "body"
  BY <1>2 DEF None, Waiting
<1>7. QED
  BY <1>4, <1>5, <1>6

\* A poll tick starts a flight only when there is none.
LEMMA PollTickKeepsFlight ==
  ASSUME TypeOK, SingleFlight, PollTick
  PROVE  /\ flights' \in [Flights -> {None, Waiting, Failed} \cup {Body(v) : v \in Versions}]
         /\ fetchInProgress' \in BOOLEAN /\ pendingPollTick' \in BOOLEAN
         /\ SingleFlight'
         /\ \A g \in Flights : flights'[g].state = "body" => flights'[g] = flights[g]
<1>1. CASE fetchInProgress /\ UNCHANGED <<flights, fetchInProgress>>
  BY <1>1 DEF PollTick, TypeOK, SingleFlight, Active
<1>2. CASE ~fetchInProgress /\ Launch
  <2>1. PICK f \in Flights : flights' = [flights EXCEPT ![f] = Waiting]
    BY <1>2 DEF Launch, Active
  <2>2. \A g \in Flights : flights[g] = None
    BY <1>2 DEF SingleFlight, Active
  <2>3. \A g \in Flights : flights'[g] = IF g = f THEN Waiting ELSE None
    BY <2>1, <2>2 DEF TypeOK
  <2>4. Active' = {f}
    BY <2>3 DEF Active, None, Waiting
  <2>5. SingleFlight'
    BY <1>2, <2>4 DEF SingleFlight, Launch
  <2>6. QED
    BY <1>2, <2>1, <2>3, <2>5 DEF PollTick, Launch, TypeOK, None, Waiting
<1>3. QED
  BY <1>1, <1>2 DEF PollTick

-----------------------------------------------------------------------------
(* The invariant *)

LEMMA InitInv == Init => IInv
<1> SUFFICES ASSUME Init PROVE IInv
  OBVIOUS
<1>1. TypeOK
  <2>1. 1 \in Versions /\ 0 \in 0..MaxVersion
    BY MaxVersionAssumption DEF Versions
  <2>2. flights \in [Flights -> {None, Waiting, Failed} \cup {Body(v) : v \in Versions}]
    BY DEF Init
  <2>3. QED
    BY <2>1, <2>2 DEF Init, TypeOK
<1>2. BodiesAreFresh
  BY DEF Init, BodiesAreFresh, None
<1>3. SingleFlight
  BY DEF Init, SingleFlight, Active
<1>4. QED
  BY <1>1, <1>2, <1>3 DEF IInv

LEMMA NextInv == IInv /\ [Next]_vars => IInv'
<1> SUFFICES ASSUME IInv, [Next]_vars PROVE IInv'
  OBVIOUS
<1> USE MaxVersionAssumption DEF Versions
<1>1. CASE Publish
  <2>1. TypeOK'
    BY <1>1 DEF Publish, IInv, TypeOK
  <2>2. SingleFlight'
    BY <1>1 DEF Publish, IInv, SingleFlight, Active
  <2>3. BodiesAreFresh'
    BY <1>1, FlightStates DEF Publish, IInv, TypeOK, BodiesAreFresh
  <2>4. QED
    BY <2>1, <2>2, <2>3 DEF IInv
<1>2. CASE ReachabilityChanges \/ Stop
  <2>1. TypeOK'
    BY <1>2 DEF ReachabilityChanges, Stop, IInv, TypeOK
  <2>2. SingleFlight'
    BY <1>2 DEF ReachabilityChanges, Stop, IInv, SingleFlight, Active
  <2>3. BodiesAreFresh'
    BY <1>2 DEF ReachabilityChanges, Stop, IInv, BodiesAreFresh
  <2>4. QED
    BY <2>1, <2>2, <2>3 DEF IInv
<1>3. ASSUME NEW f \in Flights, Answer(f) PROVE IInv'
  <2>1. \A g \in Flights :
          flights'[g] = IF g = f THEN IF reachable THEN Body(version) ELSE Failed
                                 ELSE flights[g]
    BY <1>3 DEF Answer, IInv, TypeOK
  <2>2. TypeOK'
    BY <1>3 DEF Answer, IInv, TypeOK
  <2>3. Active' = Active
    BY <1>3, <2>1 DEF Answer, Active, None, Waiting, Failed, Body
  <2>4. SingleFlight'
    BY <1>3, <2>3 DEF Answer, IInv, SingleFlight
  <2>5. BodiesAreFresh'
    BY <1>3, <2>1 DEF Answer, IInv, TypeOK, BodiesAreFresh, Failed, Body
  <2>6. QED
    BY <2>2, <2>4, <2>5 DEF IInv
<1>4. CASE Start \/ Tick
  <2>1. PollTick /\ UNCHANGED <<remembersTicks, version, reachable, closed, data, healthy>>
        /\ polling' \in BOOLEAN
    BY <1>4 DEF Start, Tick, IInv, TypeOK
  <2>2. TypeOK' /\ SingleFlight'
    BY <2>1, PollTickKeepsFlight DEF IInv, TypeOK
  <2>3. BodiesAreFresh'
    BY <2>1, PollTickKeepsFlight DEF IInv, BodiesAreFresh
  <2>4. QED
    BY <2>2, <2>3 DEF IInv
<1>5. ASSUME NEW f \in Flights, Store(f) PROVE IInv'
  <2>1. /\ flights[f] # None /\ Finally(f) /\ data' = flights[f].body
        /\ data' \in Versions /\ data' <= version
        /\ UNCHANGED <<remembersTicks, version, reachable, polling, closed>> /\ healthy' = TRUE
    BY <1>5, FlightStates DEF Store, IInv, TypeOK, BodiesAreFresh
  <2>2. TypeOK' /\ SingleFlight'
    BY <2>1, FinallyKeepsFlight DEF IInv, TypeOK
  <2>3. BodiesAreFresh'
    BY <2>1, FinallyKeepsFlight DEF IInv, BodiesAreFresh
  <2>4. QED
    BY <2>2, <2>3 DEF IInv
<1>6. ASSUME NEW f \in Flights, RecordFailure(f) PROVE IInv'
  <2>1. /\ flights[f] # None /\ Finally(f) /\ healthy' = FALSE
        /\ UNCHANGED <<remembersTicks, version, reachable, polling, closed, data>>
    BY <1>6, FlightStates DEF RecordFailure, IInv
  <2>2. TypeOK' /\ SingleFlight'
    BY <2>1, FinallyKeepsFlight DEF IInv, TypeOK
  <2>3. BodiesAreFresh'
    BY <2>1, FinallyKeepsFlight DEF IInv, BodiesAreFresh
  <2>4. QED
    BY <2>2, <2>3 DEF IInv
<1>7. CASE UNCHANGED vars
  BY <1>7 DEF vars, IInv, TypeOK, SingleFlight, Active, BodiesAreFresh
<1>8. QED
  BY <1>1, <1>2, <1>3, <1>4, <1>5, <1>6, <1>7 DEF Next

\* The inductive invariant holds in every reachable state.
THEOREM Invariance == Spec => []IInv
BY InitInv, NextInv, PTL DEF Spec

-----------------------------------------------------------------------------
(* The properties *)

\* Type correctness of the poller.
THEOREM TypeCorrectness == Spec => []TypeOK
<1>1. IInv => TypeOK
  BY DEF IInv
<1>2. QED
  BY <1>1, Invariance, PTL

\* The two flags are enough to keep fetches from overlapping.
THEOREM FetchesDoNotOverlap == Spec => []SingleFlight
<1>1. IInv => SingleFlight
  BY DEF IInv
<1>2. QED
  BY <1>1, Invariance, PTL

\* The poller implements the abstract store: each of its steps is a step of
\* FeedStore or leaves the store alone.
THEOREM Refinement == Spec => ImplementsFeedStore
<1>1. Init => FS!Init
  BY DEF Init, FS!Init
<1>2. IInv /\ [Next]_vars => [FS!Next]_(FS!vars)
  <2> SUFFICES ASSUME IInv, [Next]_vars PROVE [FS!Next]_(FS!vars)
    OBVIOUS
  <2>1. CASE Publish
    BY <2>1 DEF Publish, FS!Next, FS!Publish
  <2>2. ASSUME NEW f \in Flights, Store(f) PROVE FS!Refresh
    BY <2>2 DEF Store, FS!Refresh, IInv, BodiesAreFresh
  <2>3. ASSUME NEW f \in Flights, RecordFailure(f) PROVE FS!Fail
    BY <2>3 DEF RecordFailure, FS!Fail
  <2>4. ASSUME NEW f \in Flights, Answer(f) PROVE UNCHANGED FS!vars
    BY <2>4 DEF Answer, FS!vars
  <2>5. CASE ReachabilityChanges \/ Start \/ Tick \/ Stop \/ UNCHANGED vars
    BY <2>5 DEF ReachabilityChanges, Start, Tick, Stop, vars, FS!vars
  <2>6. QED
    BY <2>1, <2>2, <2>3, <2>4, <2>5 DEF Next, FS!Next
<1>3. QED
  BY <1>1, <1>2, Invariance, PTL DEF Spec, ImplementsFeedStore, FS!Spec

-----------------------------------------------------------------------------
(* TripShot *)

\* Each step of TripShot is a step of the poller or leaves it alone.
THEOREM TripShotPolls == TripShotSpec => Spec
<1>1. TripShotInit => Init
  BY DEF TripShotInit
<1>2. [TripShotNext]_tripshotVars => [Next]_vars
  <2> SUFFICES ASSUME [TripShotNext]_tripshotVars PROVE [Next]_vars
    OBVIOUS
  <2>1. CASE TripShotNext
    BY <2>1 DEF TripShotNext, StoreIndex, Pass, Next
  <2>2. CASE UNCHANGED tripshotVars
    BY <2>2 DEF tripshotVars
  <2>3. QED
    BY <2>1, <2>2
<1>3. QED
  BY <1>1, <1>2, PTL DEF TripShotSpec, Spec

\* Type correctness of the poller under TripShot.
THEOREM TripShotTypeCorrectness == TripShotSpec => []TypeOK
BY TripShotPolls, TypeCorrectness, PTL

\* The shuttles' index too is swapped whole, and never for that of an older body.
THEOREM TripShotRefinement == TripShotSpec => ImplementsFeedStore
BY TripShotPolls, Refinement, PTL

-----------------------------------------------------------------------------
(* The clock of the index *)

\* An index was built at a time that has been: what it left out as over when it was
\* built is over when it is read.
IndexIsPast ==
  /\ now \in Int
  /\ data \in 0..MaxVersion
  /\ data # 0 => lastFetched \in Int /\ lastFetched <= now

LEMMA IndexIsPastInitially == TripShotInit => IndexIsPast
<1> SUFFICES ASSUME TripShotInit PROVE IndexIsPast
  OBVIOUS
<1>1. now \in Int
  BY TripShotAssumption DEF TripShotInit
<1>2. data = 0
  BY DEF TripShotInit, Init
<1>3. QED
  BY <1>1, <1>2, MaxVersionAssumption DEF IndexIsPast

LEMMA IndexStaysPast ==
  IndexIsPast /\ TypeOK' /\ [TripShotNext]_tripshotVars => IndexIsPast'
<1> SUFFICES ASSUME IndexIsPast, TypeOK', [TripShotNext]_tripshotVars PROVE IndexIsPast'
  OBVIOUS
<1>1. data' \in 0..MaxVersion
  BY DEF TypeOK
<1>2. ASSUME NEW f \in Flights, StoreIndex(f) PROVE IndexIsPast'
  BY <1>1, <1>2 DEF StoreIndex, IndexIsPast
<1>3. CASE Pass
  BY <1>1, <1>3 DEF Pass, IndexIsPast, vars
<1>4. ASSUME UNCHANGED <<now, lastFetched, data>> PROVE IndexIsPast'
  BY <1>1, <1>4 DEF IndexIsPast
<1>5. CASE UNCHANGED tripshotVars
  BY <1>4, <1>5 DEF tripshotVars, vars
<1>6. ASSUME UNCHANGED <<now, lastFetched>>,
             \/ Publish \/ ReachabilityChanges \/ Start \/ Tick \/ Stop
             \/ \E f \in Flights : Answer(f) \/ RecordFailure(f)
      PROVE IndexIsPast'
  <2>1. UNCHANGED data
    BY <1>6 DEF Publish, ReachabilityChanges, Start, Tick, Stop, Answer, RecordFailure
  <2>2. QED
    BY <1>4, <1>6, <2>1
<1>7. QED
  BY <1>2, <1>3, <1>5, <1>6 DEF TripShotNext

LEMMA IndexIsAlwaysPast == TripShotSpec => []IndexIsPast
<1>1. TripShotSpec => TripShotInit /\ [][TripShotNext]_tripshotVars
  BY DEF TripShotSpec
<1>2. QED
  BY <1>1, IndexIsPastInitially, IndexStaysPast, TripShotTypeCorrectness, PTL

-----------------------------------------------------------------------------
(* The answers *)

\* Of a route that the metadata know, the answer is the live predictions of its UUID.
LEMMA PredictionsOfARoute ==
  ASSUME NEW c \in Cmu, NEW stop, NEW p
  PROVE  p \in GetPredictions(stop, c) <=>
           \E q \in GetLivePredictions(stop) :
             /\ UuidOf[q.routeId] = UuidOf[RouteIdOf[c]]
             /\ p = [q EXCEPT !.routeId = c]
<1>1. ExtractRouteIndex(c) = RouteIdOf[c] /\ RouteIdOf[c] # Missing
  BY MetadataAssumption DEF Cmu, ExtractRouteIndex
<1>2. c # Missing
  BY MetadataAssumption DEF Cmu
<1>3. QED
  BY <1>1, <1>2 DEF GetPredictions, Admits, NormalizeTsRouteId

\* The vehicles of a route are those of the tracked rides of its UUID.
LEMMA VehiclesOfARoute ==
  ASSUME NEW c \in Cmu, data # 0, ~remembersTicks, NEW vid
  PROVE  (\E x \in GetVehicles(c) : x.vid = vid) <=>
           \E r \in ToSet(Feed[data].rides) :
             /\ IsTracked(Feed[data], r)
             /\ UuidOf[r.route] = UuidOf[RouteIdOf[c]]
             /\ r.vehicle = vid
<1>1. ExtractRouteIndex(c) = RouteIdOf[c] /\ RouteIdOf[c] # Missing
  BY MetadataAssumption DEF Cmu, ExtractRouteIndex
<1> DEFINE T == {r \in ToSet(Feed[data].rides) : IsTracked(Feed[data], r)}
           V == {[vid |-> r.vehicle, routeId |-> NormalizeTsRouteId(r.route)] : r \in T}
<1>2. Index.vehicles = V
  BY DEF Index, BuildIndex
<1>3. GetVehicles(c) = {[x EXCEPT !.routeId = c] :
                         x \in {y \in V : y.routeId = UuidOf[RouteIdOf[c]]}}
  BY <1>1, <1>2 DEF GetVehicles, GetVehiclesByTsRouteId, NormalizeTsRouteId
<1>4. \A r \in T : LET x == [vid |-> r.vehicle, routeId |-> NormalizeTsRouteId(r.route)]
                   IN x \in V /\ x.routeId = UuidOf[r.route] /\ [x EXCEPT !.routeId = c].vid = r.vehicle
  BY DEF NormalizeTsRouteId
<1>5. ASSUME NEW x \in GetVehicles(c)
      PROVE  \E r \in T : UuidOf[r.route] = UuidOf[RouteIdOf[c]] /\ r.vehicle = x.vid
  <2>1. PICK y \in V : y.routeId = UuidOf[RouteIdOf[c]] /\ x = [y EXCEPT !.routeId = c]
    BY <1>3, <1>5
  <2>2. PICK r \in T : y = [vid |-> r.vehicle, routeId |-> NormalizeTsRouteId(r.route)]
    BY <2>1
  <2>3. QED
    BY <2>1, <2>2 DEF NormalizeTsRouteId
<1>6. ASSUME NEW r \in T, UuidOf[r.route] = UuidOf[RouteIdOf[c]]
      PROVE  \E x \in GetVehicles(c) : x.vid = r.vehicle
  BY <1>3, <1>4, <1>6
<1>7. QED
  BY <1>5, <1>6

\* The live predictions at a stop, from the rides that the index was built of.
LEMMA LivePredictions ==
  ASSUME NEW stop, data # 0, ~remembersTicks
  PROVE  GetLivePredictions(stop) =
           {p \in UNION ({RidePredictions(r) :
                            r \in {x \in ToSet(Feed[data].rides) : IsTracked(Feed[data], x)}}
                         \cup {ScheduledRidePredictions(r) :
                                 r \in {x \in ToSet(Feed[data].rides) : x.state = "Scheduled"}}) :
              Fresh(p.eta, lastFetched) /\ p.stopId = stop /\ Fresh(p.eta, now)}
BY DEF GetLivePredictions, Index, BuildIndex

\* Without a body there is nothing to agree on.
LEMMA NothingIsServed ==
  ASSUME data = 0 \/ remembersTicks, NEW c \in Cmu, NEW stop
  PROVE  GetPredictions(stop, c) = {} /\ Rides(c) = {}
<1>1. GetLivePredictions(stop) = {}
  BY DEF GetLivePredictions, Index
<1>2. GetPredictions(stop, c) = {}
  BY <1>1, PredictionsOfARoute
<1>3. QED
  BY <1>2 DEF Rides

\* What GetPredictions of a route hides is no more than the TripShot id.
LEMMA AnsweredPrediction ==
  ASSUME NEW c \in Cmu, NEW stop, NEW q \in GetLivePredictions(stop),
         UuidOf[q.routeId] = UuidOf[RouteIdOf[c]]
  PROVE  [q EXCEPT !.routeId = c] \in GetPredictions(stop, c)
BY PredictionsOfARoute

LEMMA AnswersOfARouteAgree ==
  ASSUME IndexIsPast, NEW stop
  PROVE  RouteAnswersAgree(stop)
<1> SUFFICES ASSUME NEW c \in Cmu
             PROVE  /\ \A p \in GetPredictions(stop, c) :
                         /\ p.routeId = c /\ p.eta >= now - Grace
                         /\ p.vid = "Scheduled" \/ \E x \in GetVehicles(c) : x.vid = p.vid
                    /\ \A r \in Rides(c) : \A a \in r.awaiting :
                         /\ r.state = "Active" /\ a.stop = stop /\ Fresh(a.expected, now)
                         /\ \E x \in GetVehicles(c) : x.vid = r.vehicle
                         => \E p \in GetPredictions(stop, c) : p.vid = r.vehicle /\ p.eta = a.expected
  BY DEF RouteAnswersAgree
<1>1. CASE data = 0 \/ remembersTicks
  <2>1. GetPredictions(stop, c) = {} /\ Rides(c) = {}
    BY <1>1, NothingIsServed
  <2>2. QED
    BY <2>1
<1>2. CASE data # 0 /\ ~remembersTicks
  <2> DEFINE feed == Feed[data]
             rides == ToSet(feed.rides)
  <2>1. ASSUME NEW p \in GetPredictions(stop, c)
        PROVE  /\ p.routeId = c /\ p.eta >= now - Grace
               /\ p.vid = "Scheduled" \/ \E x \in GetVehicles(c) : x.vid = p.vid
    <3>1. PICK q \in GetLivePredictions(stop) :
            /\ UuidOf[q.routeId] = UuidOf[RouteIdOf[c]]
            /\ p = [q EXCEPT !.routeId = c]
      BY <2>1, PredictionsOfARoute
    <3>2. Fresh(q.eta, now)
      BY <1>2, <3>1, LivePredictions
    <3>3. \/ \E r \in rides : IsTracked(feed, r) /\ q \in RidePredictions(r)
          \/ \E r \in rides : q \in ScheduledRidePredictions(r)
      BY <1>2, <3>1, LivePredictions
    <3>4. ASSUME NEW r \in rides, IsTracked(feed, r), q \in RidePredictions(r)
          PROVE  /\ p.routeId = c /\ p.eta = q.eta /\ p.vid = r.vehicle
                 /\ q.routeId = r.route
      BY <3>1, <3>4 DEF RidePredictions, Prediction
    <3>5. ASSUME NEW r \in rides, q \in ScheduledRidePredictions(r)
          PROVE  p.routeId = c /\ p.eta = q.eta /\ p.vid = "Scheduled"
      BY <3>1, <3>5 DEF ScheduledRidePredictions, Prediction
    <3>6. p.routeId = c /\ p.eta = q.eta
      BY <3>3, <3>4, <3>5
    <3>7. p.eta >= now - Grace
      BY <3>2, <3>6 DEF Fresh
    <3>8. p.vid = "Scheduled" \/ \E x \in GetVehicles(c) : x.vid = p.vid
      BY <1>2, <3>1, <3>3, <3>4, <3>5, VehiclesOfARoute
    <3>9. QED
      BY <3>6, <3>7, <3>8
  <2>2. ASSUME NEW r \in Rides(c), NEW a \in r.awaiting,
               r.state = "Active", a.stop = stop, Fresh(a.expected, now),
               \E x \in GetVehicles(c) : x.vid = r.vehicle
        PROVE  \E p \in GetPredictions(stop, c) : p.vid = r.vehicle /\ p.eta = a.expected
    <3> DEFINE q == Prediction(a.stop, r, r.vehicle, a.expected)
    <3>1. r \in rides /\ UuidOf[r.route] = UuidOf[RouteIdOf[c]]
      BY <1>2, <2>2 DEF Rides
    <3>2. IsTracked(feed, r)
      BY <1>2, <2>2, VehiclesOfARoute DEF IsTracked
    <3>3. q \in RidePredictions(r)
      BY DEF RidePredictions
    <3>4. /\ q.routeId = r.route /\ q.stopId = stop /\ q.eta = a.expected
          /\ [q EXCEPT !.routeId = c].vid = r.vehicle
          /\ [q EXCEPT !.routeId = c].eta = a.expected
      BY <2>2 DEF Prediction
    <3>5. Fresh(a.expected, lastFetched)
      <4>1. data \in Versions
        BY <1>2 DEF IndexIsPast, Versions
      <4>2. a.expected \in Int
        BY <2>2, <3>1, <4>1, FeedAssumption, TripShotAssumption DEF Fresh
      <4>3. QED
        BY <1>2, <2>2, <4>2, TripShotAssumption DEF Fresh, IndexIsPast
    <3>6. q \in GetLivePredictions(stop)
      BY <1>2, <2>2, <3>1, <3>2, <3>3, <3>4, <3>5, LivePredictions
    <3>7. [q EXCEPT !.routeId = c] \in GetPredictions(stop, c)
      BY <3>1, <3>4, <3>6, PredictionsOfARoute
    <3>8. QED
      BY <3>4, <3>7
  <2>3. QED
    BY <2>1, <2>2
<1>3. QED
  BY <1>1, <1>2

-----------------------------------------------------------------------------
(* The answers for a stop *)

LEMMA MinOfNaturals ==
  ASSUME NEW S, S \subseteq Nat, S # {}
  PROVE  Min(S) \in S /\ \A y \in S : Min(S) <= y
<1> DEFINE R == OpToRel(<, Nat)
<1>1. \E x \in S : \A y \in S : <<y, x>> \notin R
  <2>1. IsWellFoundedOn(R, Nat)
    BY NatLessThanWellFounded
  <2> HIDE DEF R
  <2>2. QED
    BY <2>1, WFMin
<1>2. \A x, y \in S : y < x => <<y, x>> \in R
  BY DEF OpToRel
<1> HIDE DEF R
<1>3. PICK x \in S : \A y \in S : ~(y < x)
  BY <1>1, <1>2
<1>4. \A y \in S : x <= y
  BY <1>3
<1>5. QED
  BY <1>4 DEF Min

\* A TripShot id that is none of the CMU ids is shown as an alias of its UUID.
LEMMA ShownAlias ==
  ASSUME NEW u, u \notin Cmu, FindCmuRouteIdByTripshotRouteId(u) \in Cmu
  PROVE  UuidOf[RouteIdOf[FindCmuRouteIdByTripshotRouteId(u)]] = UuidOf[u]
<1> DEFINE A == {i \in DOMAIN CmuRoutes : UuidOf[RouteIdOf[CmuRoutes[i]]] = UuidOf[u]}
<1>1. FindCmuRouteIdByTripshotRouteId(u) = IF A = {} THEN u ELSE CmuRoutes[Min(A)]
  BY DEF FindCmuRouteIdByTripshotRouteId, NormalizeTsRouteId
<1>2. A # {}
  BY <1>1
<1>3. A \subseteq Nat
  BY MetadataAssumption
<1> HIDE DEF A
<1>4. Min(A) \in A
  BY <1>2, <1>3, MinOfNaturals
<1>5. QED
  BY <1>1, <1>2, <1>4 DEF A

LEMMA AnswersOfAStopAgree ==
  ASSUME IndexIsPast, NEW stop
  PROVE  StopAnswersAgree(stop)
<1> SUFFICES ASSUME NEW p \in GetPredictions(stop, Missing), p.routeId \in Cmu
             PROVE  /\ p \in GetPredictions(stop, p.routeId)
                    /\ \A c \in Cmu : UuidOf[RouteIdOf[c]] = UuidOf[RouteIdOf[p.routeId]] =>
                         [p EXCEPT !.routeId = c] \in GetPredictions(stop, c)
  BY DEF StopAnswersAgree
<1>1. PICK q \in GetLivePredictions(stop) :
        p = [q EXCEPT !.routeId = FindCmuRouteIdByTripshotRouteId(q.routeId)]
  BY DEF GetPredictions
<1>2. data # 0 /\ ~remembersTicks
  BY <1>1 DEF GetLivePredictions, Index
<1>3. data \in Versions
  BY <1>2 DEF IndexIsPast, Versions
<1>4. PICK r \in ToSet(Feed[data].rides) :
        \E vid, eta : q = [stopId |-> stop, routeId |-> r.route, vid |-> vid, eta |-> eta]
  BY <1>1, <1>2, LivePredictions DEF RidePredictions, ScheduledRidePredictions, Prediction
<1> DEFINE c0 == FindCmuRouteIdByTripshotRouteId(r.route)
<1>5. r.route \notin Cmu
  BY <1>3, FeedAssumption DEF Cmu
<1> HIDE DEF c0
<1>6. p = [q EXCEPT !.routeId = c0] /\ p.routeId = c0 /\ q.routeId = r.route
  BY <1>1, <1>4 DEF c0
<1>7. UuidOf[q.routeId] = UuidOf[RouteIdOf[c0]]
  BY <1>5, <1>6, ShownAlias DEF c0
<1>8. p \in GetPredictions(stop, p.routeId)
  BY <1>6, <1>7, AnsweredPrediction
<1>9. ASSUME NEW c \in Cmu, UuidOf[RouteIdOf[c]] = UuidOf[RouteIdOf[p.routeId]]
      PROVE  [p EXCEPT !.routeId = c] \in GetPredictions(stop, c)
  <2>1. [p EXCEPT !.routeId = c] = [q EXCEPT !.routeId = c]
    BY <1>4, <1>6
  <2>2. QED
    BY <1>6, <1>7, <1>9, <2>1, AnsweredPrediction
<1>10. QED
  BY <1>8, <1>9

\* In every reachable state and for every feed, what a member is told of the shuttles
\* at a stop agrees with the map and with the answers for the single routes.
THEOREM AnswersAlwaysAgree == TripShotSpec => []ShuttleAnswersAgree
<1>1. IndexIsPast => ShuttleAnswersAgree
  BY AnswersOfARouteAgree, AnswersOfAStopAgree DEF ShuttleAnswersAgree
<1>2. QED
  BY <1>1, IndexIsAlwaysPast, PTL

-----------------------------------------------------------------------------
(* The clock.  D is a date, o an offset, L the length of a day. *)

LEMMA DivisionUnique ==
  ASSUME NEW L \in Nat, L > 0, NEW k \in Int, NEW y \in Int, 0 <= y, y < L
  PROVE  (k * L + y) % L = y /\ (k * L + y) \div L = k
OBVIOUS

LEMMA Division ==
  ASSUME NEW L \in Nat, L > 0, NEW x \in Int
  PROVE  /\ x \div L \in Int /\ x % L \in Int /\ 0 <= x % L /\ x % L < L
         /\ x = (x \div L) * L + (x % L)
OBVIOUS

\* The hour that is o from the hour y of some date.
LEMMA ShiftedHour ==
  ASSUME NEW L \in Nat, L > 0, NEW D \in Int, NEW o \in Int, -L < o, o < L,
         NEW y \in Int, 0 <= y, y < L
  PROVE  LET h == (D * L + y + o) % L
         IN h \in {y + o + L, y + o, y + o - L} /\ 0 <= h /\ h < L
<1>1. CASE y + o < 0
  <2>1. D * L + y + o = (D - 1) * L + (y + o + L)
    OBVIOUS
  <2>2. D - 1 \in Int /\ y + o + L \in Int /\ 0 <= y + o + L /\ y + o + L < L
    BY <1>1
  <2>3. ((D - 1) * L + (y + o + L)) % L = y + o + L
    BY <2>2, DivisionUnique
  <2>4. QED
    BY <2>1, <2>2, <2>3
<1>2. CASE 0 <= y + o /\ y + o < L
  <2>1. D * L + y + o = D * L + (y + o)
    OBVIOUS
  <2>2. (D * L + (y + o)) % L = y + o
    BY <1>2, DivisionUnique
  <2>3. QED
    BY <1>2, <2>1, <2>2
<1>3. CASE y + o >= L
  <2>1. D * L + y + o = (D + 1) * L + (y + o - L)
    OBVIOUS
  <2>2. D + 1 \in Int /\ y + o - L \in Int /\ 0 <= y + o - L /\ y + o - L < L
    BY <1>3
  <2>3. ((D + 1) * L + (y + o - L)) % L = y + o - L
    BY <2>2, DivisionUnique
  <2>4. QED
    BY <2>1, <2>2, <2>3
<1>4. QED
  BY <1>1, <1>2, <1>3

\* An hour and a date of Eastern time are those of the shifted instant.
LEMMA EasternTime ==
  ASSUME NEW x \in Times
  PROVE  /\ EasternDate(x) \in Int /\ EasternHour(x) \in Int
         /\ 0 <= EasternHour(x) /\ EasternHour(x) < DayLength
         /\ x + Offset[x] = EasternDate(x) * DayLength + EasternHour(x)
<1>1. x + Offset[x] \in Int
  BY TripShotAssumption, OffsetAssumption
<1>2. DayLength \in Nat /\ DayLength > 0
  BY TripShotAssumption
<1>3. QED
  BY <1>1, <1>2, Division DEF EasternDate, EasternHour

\* A clock reading on the date of a ride is converted to the instant at which the
\* clock reads that, if Eastern time is then what it is for the reading taken for UTC.
LEMMA ParsedInstant ==
  ASSUME NEW start \in Times, NEW at, at # Missing, NEW x \in Times,
         EasternDate(x) = EasternDate(start), EasternHour(x) = at,
         Offset[x] = Offset[EasternDate(start) * DayLength + at]
  PROVE  ParseScheduledAt(at, start) = x
<1> DEFINE o == Offset[x]
           L == DayLength
           D == EasternDate(x)
           candidate == D * L + at
           h == EasternHour(candidate)
           clock == GetEasternClock(candidate)
           d == at - clock
<1>1. /\ L \in Nat /\ L > 0 /\ D \in Int /\ at \in Int /\ 0 <= at /\ at < L
      /\ o \in Int /\ -L < 2 * o /\ 2 * o < L
      /\ x \in Int /\ x + o = D * L + at
  BY EasternTime, TripShotAssumption, OffsetAssumption
<1>2. h = (D * L + at + o) % L
  BY DEF EasternHour
<1>3. clock = IF h = 0 THEN L ELSE h
  BY DEF GetEasternClock
<1>4. ParseScheduledAt(at, start) = candidate + NormalizeDayBoundaryOffset(d)
  BY TripShotAssumption DEF ParseScheduledAt
<1> HIDE DEF o, L, D, h, clock
<1>5. h \in {at + o + L, at + o, at + o - L} /\ 0 <= h /\ h < L
  <2>1. -L < o /\ o < L
    BY <1>1
  <2>2. QED
    BY <1>1, <1>2, <2>1, ShiftedHour
<1>6. NormalizeDayBoundaryOffset(d) = -o
  <2>1. (IF 2 * d > L THEN d - L ELSE IF 2 * d < -L THEN d + L ELSE d) = -o
    BY <1>1, <1>3, <1>5
  <2>2. QED
    BY <2>1 DEF NormalizeDayBoundaryOffset, L
<1>7. QED
  BY <1>1, <1>4, <1>6

LEMMA RidesAreOnTime ==
  ASSUME IndexIsPast, NEW c \in Cmu
  PROVE  RidesKeepTheirTimetable(c)
<1> SUFFICES ASSUME NEW r \in Dated(c), NEW a \in r.awaiting,
                    r.state = "Scheduled", a.departure = Missing, a.at # Missing,
                    NEW x \in Instants(a.at, r),
                    Offset[x] = Offset[EasternDate(r.start) * DayLength + a.at],
                    Fresh(x, now)
             PROVE  \E p \in GetPredictions(a.stop, c) : p.vid = "Scheduled" /\ p.eta = x
  BY DEF RidesKeepTheirTimetable
<1> DEFINE q == Prediction(a.stop, r, "Scheduled", ParseScheduledAt(a.at, r.start))
<1>1. /\ data # 0 /\ ~remembersTicks /\ r \in ToSet(Feed[data].rides)
      /\ UuidOf[r.route] = UuidOf[RouteIdOf[c]] /\ r.start # Missing
  BY DEF Dated, Rides
<1>2. r.start \in Times
  BY <1>1, FeedAssumption DEF IndexIsPast, Versions
<1>3. ParseScheduledAt(a.at, r.start) = x
  BY <1>2, ParsedInstant DEF Instants
<1>4. q \in ScheduledRidePredictions(r)
  BY DEF ScheduledRidePredictions
<1>5. /\ q.routeId = r.route /\ q.stopId = a.stop /\ q.eta = x
      /\ [q EXCEPT !.routeId = c].vid = "Scheduled" /\ [q EXCEPT !.routeId = c].eta = x
  BY <1>3 DEF Prediction
<1>6. Fresh(x, lastFetched)
  <2>1. x \in Times
    BY DEF Instants
  <2>2. x \in Int /\ Grace \in Int
    BY <2>1, TripShotAssumption
  <2>3. now \in Int /\ lastFetched \in Int /\ lastFetched <= now
    BY <1>1 DEF IndexIsPast
  <2>4. x # Missing /\ x >= now - Grace
    BY DEF Fresh
  <2>5. QED
    BY <2>2, <2>3, <2>4 DEF Fresh
<1> HIDE DEF q
<1>7. q \in GetLivePredictions(a.stop)
  BY <1>1, <1>4, <1>5, <1>6, LivePredictions
<1>8. [q EXCEPT !.routeId = c] \in GetPredictions(a.stop, c)
  BY <1>1, <1>5, <1>7, AnsweredPrediction
<1>9. QED
  BY <1>5, <1>8

-----------------------------------------------------------------------------
(* The schedules *)

\* The order of the instants of a date with one offset is that of the clock.
LEMMA ClockIsMonotone ==
  ASSUME NEW x \in Times, NEW y \in Times, x <= y,
         EasternDate(x) = EasternDate(y), Offset[x] = Offset[y]
  PROVE  GetEasternClock(x) % DayLength <= EasternHour(y)
<1>1. EasternHour(x) <= EasternHour(y)
  <2> DEFINE k == EasternDate(x) * DayLength
  <2>1. x + Offset[x] = k + EasternHour(x) /\ y + Offset[x] = k + EasternHour(y)
    BY EasternTime
  <2>2. k \in Int
    BY EasternTime, TripShotAssumption
  <2> HIDE DEF k
  <2>3. QED
    BY <2>1, <2>2, EasternTime, TripShotAssumption, OffsetAssumption
<1>2. GetEasternClock(x) % DayLength = EasternHour(x)
  <2>1. /\ DayLength \in Nat /\ DayLength > 0 /\ EasternHour(x) \in Int
        /\ 0 <= EasternHour(x) /\ EasternHour(x) < DayLength
    BY EasternTime, TripShotAssumption
  <2>2. DayLength % DayLength = 0
    <3>1. (1 * DayLength + 0) % DayLength = 0
      BY <2>1, DivisionUnique
    <3>2. QED
      BY <2>1, <3>1
  <2>3. EasternHour(x) % DayLength = EasternHour(x)
    <3>1. (0 * DayLength + EasternHour(x)) % DayLength = EasternHour(x)
      BY <2>1, DivisionUnique
    <3>2. QED
      BY <2>1, <3>1
  <2>4. QED
    BY <2>2, <2>3 DEF GetEasternClock
<1>3. QED
  BY <1>1, <1>2

LEMMA FirstTripsAreFirst ==
  ASSUME IndexIsPast, NEW c \in Cmu
  PROVE  FirstTripIsFirst(c)
<1> SUFFICES ASSUME c \notin Timetabled,
                    \A q, r \in Dated(c) : /\ EasternDate(q.start) = EasternDate(r.start)
                                           /\ Offset[q.start] = Offset[r.start],
                    NEW r \in Dated(c)
             PROVE  GetRouteSchedule(c).firstTrip % DayLength <= EasternHour(r.start)
  BY DEF FirstTripIsFirst
<1> DEFINE u == UuidOf[RouteIdOf[c]]
           rides == ToSet(Feed[data].rides)
           timed == {y \in rides : Missing \notin {y.start, y.end}}
           starts == {y.start : y \in Dated(c)}
<1>1. data # 0 /\ ~remembersTicks
  BY DEF Dated, Rides
<1>2. Dated(c) = {y \in timed : UuidOf[y.route] = u}
  BY <1>1 DEF Dated, Rides
<1>3. Index.schedules = [w \in {UuidOf[y.route] : y \in timed} |->
                           RouteSchedule({y \in timed : UuidOf[y.route] = w})]
  BY <1>1 DEF Index, BuildIndex, NormalizeTsRouteId
<1>4. GetRouteSchedule(c) = RouteSchedule(Dated(c))
  BY <1>2, <1>3 DEF GetRouteSchedule, NormalizeTsRouteId
<1>5. \A y \in Dated(c) : y.start \in Times
  BY <1>1, FeedAssumption DEF Dated, Rides, IndexIsPast, Versions
<1>6. Min(starts) \in starts /\ \A t \in starts : Min(starts) <= t
  <2>1. starts # {} /\ starts \subseteq Nat
    BY <1>5, TripShotAssumption
  <2> HIDE DEF starts
  <2>2. QED
    BY <2>1, MinOfNaturals, Zenon
<1>7. GetRouteSchedule(c).firstTrip = GetEasternClock(Min(starts))
  BY <1>4 DEF RouteSchedule
<1>8. PICK q \in Dated(c) : q.start = Min(starts)
  BY <1>6
<1>9. q.start <= r.start
  BY <1>6, <1>8
<1>10. QED
  BY <1>5, <1>7, <1>8, <1>9, ClockIsMonotone

\* For every feed, day length and offset below half a day: a scheduled ride is
\* predicted for the instants of its timetable, and the first trip shown is first.
THEOREM TimetablesAreKept == TripShotSpec => []ShuttlesKeepTheirTimetable
<1>1. IndexIsPast => ShuttlesKeepTheirTimetable
  BY RidesAreOnTime, FirstTripsAreFirst DEF ShuttlesKeepTheirTimetable
<1>2. QED
  BY <1>1, IndexIsAlwaysPast, PTL
=============================================================================
