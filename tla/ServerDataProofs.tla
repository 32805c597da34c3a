--------------------------- MODULE ServerDataProofs ---------------------------
(***************************************************************************)
(* Proofs about three parts of the server that keep data: RouteColors, for *)
(* any requests and any MaxRetries; Alerts, for any set of feed contents;  *)
(* and Subscriptions, for any limit and any number of requests.            *)
(***************************************************************************)
EXTENDS RouteColors, Alerts, Subscriptions, FiniteSetTheorems, TLAPS

(* RouteColors.  Types need that a set timer has attempts left unless its  *)
(* last one is under way.  KeptBuildsLoseNoRetries shows where the lost    *)
(* retries come from: only the builds that are not kept.                   *)

AttemptsAreLeft == timer /\ Retry \notin waiting => retryCount < MaxRetries

IInv == TypeOK /\ AttemptsAreLeft /\ MissingColorsAreReported

-----------------------------------------------------------------------------

\* The server starts with no timer and no colours.
LEMMA InitInv == Init => IInv
<1> SUFFICES ASSUME Init PROVE IInv
  OBVIOUS
<1>1. retryCount \in 0..MaxRetries
  BY MaxRetriesAssumption DEF Init
<1>2. TypeOK
  BY <1>1 DEF Init, TypeOK
<1>3. AttemptsAreLeft /\ MissingColorsAreReported
  BY DEF Init, AttemptsAreLeft, MissingColorsAreReported
<1>4. QED
  BY <1>2, <1>3 DEF IInv

\* The calls that start builds and retries.
LEMMA CallsKeepInv ==
  ASSUME IInv,
         \/ \E request \in AllRequests : RequestMisses(request)
         \/ StartupRefresh \/ DailyRefresh \/ RetryTick
  PROVE  IInv'
<1> USE MaxRetriesAssumption, CallersAssumption
        DEF IInv, TypeOK, AttemptsAreLeft, MissingColorsAreReported, Call, Callers
<1>1. CASE \E request \in AllRequests : RequestMisses(request)
  BY <1>1 DEF RequestMisses, AllRequests
<1>2. CASE StartupRefresh
  BY <1>2 DEF StartupRefresh
<1>3. CASE DailyRefresh
  BY <1>3 DEF DailyRefresh
<1>4. CASE RetryTick
  BY <1>4 DEF RetryTick
<1>5. QED
  BY <1>1, <1>2, <1>3, <1>4

\* The answers, for every caller.
LEMMA AnswersKeepInv ==
  ASSUME IInv, NEW caller \in Callers, Answered(caller)
  PROVE  IInv'
<1> USE MaxRetriesAssumption, CallersAssumption
        DEF IInv, TypeOK, AttemptsAreLeft, MissingColorsAreReported, Settle, Callers
<1>1. CASE Succeed(caller)
  <2>1. retryCount' \in 0..MaxRetries
    BY <1>1 DEF Succeed, HaveColors, StopRetry
  <2>2. QED
    BY <1>1, <2>1 DEF Succeed, HaveColors, StopRetry
<1>2. CASE FailBuild(caller)
  <2>1. retryCount' \in 0..MaxRetries
    BY <1>2 DEF FailBuild, StartRetry
  <2>2. AttemptsAreLeft'
    BY <1>2 DEF FailBuild, StartRetry
  <2>3. QED
    BY <1>2, <2>1, <2>2 DEF FailBuild, StartRetry
<1>3. CASE caller = Retry /\ FailRetry
  <2>1. retryCount' \in 0..MaxRetries
    BY <1>3 DEF FailRetry, RetriesExhausted, StopRetry
  <2>2. AttemptsAreLeft'
    BY <1>3 DEF FailRetry, RetriesExhausted, StopRetry
  <2>3. gaveUp' \in BOOLEAN /\ MissingColorsAreReported'
    <3>1. CASE StopRetry /\ gaveUp' = (timer \/ gaveUp)
      BY <1>3, <3>1, Zenon DEF FailRetry, StopRetry
    <3>2. CASE UNCHANGED <<timer, retryCount, gaveUp>>
      BY <1>3, <3>2 DEF FailRetry
    <3>3. QED
      BY <1>3, <3>1, <3>2 DEF FailRetry
  <2>4. timer' \in BOOLEAN
    BY <1>3 DEF FailRetry, StopRetry
  <2>5. QED
    BY <1>3, <2>1, <2>2, <2>3, <2>4 DEF FailRetry
<1>4. QED
  BY <1>1, <1>2, <1>3 DEF Answered

\* Every step keeps the inductive invariant.
LEMMA NextInv == IInv /\ [Next]_vars => IInv'
<1> SUFFICES ASSUME IInv, [Next]_vars PROVE IInv'
  OBVIOUS
<1>1. CASE AvailabilityChanges \/ GtfsSettles
  <2>1. CASE AvailabilityChanges
    BY <2>1 DEF AvailabilityChanges, IInv, TypeOK, AttemptsAreLeft,
                MissingColorsAreReported
  <2>2. CASE GtfsSettles
    BY <2>2 DEF GtfsSettles, IInv, TypeOK, AttemptsAreLeft, MissingColorsAreReported
  <2>3. QED
    BY <1>1, <2>1, <2>2
<1>2. CASE UNCHANGED vars
  BY <1>2 DEF vars, IInv, TypeOK, AttemptsAreLeft, MissingColorsAreReported
<1>3. QED
  BY <1>1, <1>2, CallsKeepInv, AnswersKeepInv DEF Next

\* Every reachable state satisfies the inductive invariant.
THEOREM Invariance == Spec => []IInv
BY InitInv, NextInv, PTL DEF Spec

\* Type correctness; in particular no timer makes more than MaxRetries attempts.
THEOREM TypeCorrectness == Spec => []TypeOK
<1>1. IInv => TypeOK
  BY DEF IInv
<1>2. QED
  BY <1>1, Invariance, PTL

\* While the health endpoint reports that colours are missing, default colours
\* in the snapshot are being retried or were retried for all attempts.
THEOREM MissingColorsAreRetried == Spec => []MissingColorsAreReported
<1>1. IInv => MissingColorsAreReported
  BY DEF IInv
<1>2. QED
  BY <1>1, Invariance, PTL

-----------------------------------------------------------------------------

\* If every build were kept, what TUC 2 says would hold: the retries get lost
\* only to the builds of getRoutes, whose colours the snapshot never sees.
THEOREM KeptBuildsLoseNoRetries ==
  ASSUME RouteRequests = {}
  PROVE  Spec => []DefaultColorsAreRetried
<1>1. Init => DefaultColorsAreRetried
  BY DEF Init, DefaultColorsAreRetried
<1>2. IInv /\ DefaultColorsAreRetried /\ [Next]_vars => DefaultColorsAreRetried'
  <2> SUFFICES ASSUME IInv, DefaultColorsAreRetried, [Next]_vars
               PROVE  DefaultColorsAreRetried'
    OBVIOUS
  <2>1. CASE \E caller \in Callers : Answered(caller)
    <3> PICK caller \in Callers : Answered(caller)
      BY <2>1
    <3> USE CallersAssumption DEF DefaultColorsAreRetried, IInv, TypeOK
    <3>1. caller \in Kept \cup {Retry}
      BY DEF Callers, AllRequests, Kept
    <3>2. CASE Succeed(caller)
      BY <3>1, <3>2 DEF Succeed, Recolors
    <3>3. CASE FailBuild(caller)
      BY <3>3 DEF FailBuild, StartRetry
    <3>4. CASE FailRetry
      BY <3>4 DEF FailRetry, StopRetry
    <3>5. QED
      BY <3>2, <3>3, <3>4 DEF Answered
  <2>2. CASE \/ AvailabilityChanges \/ GtfsSettles
             \/ \E request \in AllRequests : RequestMisses(request)
             \/ StartupRefresh \/ DailyRefresh \/ RetryTick \/ UNCHANGED vars
    BY <2>2 DEF DefaultColorsAreRetried, AvailabilityChanges, GtfsSettles,
                RequestMisses, StartupRefresh, DailyRefresh, RetryTick, Call, vars
  <2>3. QED
    BY <2>1, <2>2 DEF Next
<1>3. QED
  BY <1>1, <1>2, Invariance, PTL DEF Spec

-----------------------------------------------------------------------------
(* Alerts.  The conjunction of its type invariant and ClientsLagOneFetch   *)
(* is inductive.                                                           *)

AlertsInv == AlertsTypeOK /\ ClientsLagOneFetch

\* The service starts with the empty list, which is a feed, and no fetch.
LEMMA AlertsInitInv == AlertsInit => AlertsInv
BY NoAlertsAssumption DEF AlertsInit, AlertsInv, AlertsTypeOK, ClientsLagOneFetch

\* The body of a fetch is a feed.
LEMMA BodyIsFeed ==
  ASSUME AlertsTypeOK, fetch.state = "body"
  PROVE  fetch.body \in Feeds
BY DEF AlertsTypeOK, NoFetch, Waiting, Failed, Aborted, Body

\* Every step keeps the clients one fetch behind at most.
LEMMA AlertsNextInv == AlertsInv /\ [AlertsNext]_alertsVars => AlertsInv'
<1> SUFFICES ASSUME AlertsInv, [AlertsNext]_alertsVars PROVE AlertsInv'
  OBVIOUS
<1> USE DEF AlertsInv, environment, service
<1>1. CASE FeedChanges \/ ReachabilityChanges
  BY <1>1 DEF FeedChanges, ReachabilityChanges, AlertsTypeOK, ClientsLagOneFetch
<1>2. CASE Answer \/ Start \/ Tick \/ Stop
  BY <1>2 DEF Answer, Start, Tick, Stop, AlertsTypeOK, ClientsLagOneFetch
<1>3. CASE Apply
  <2>1. AlertsTypeOK'
    BY <1>3, BodyIsFeed DEF Apply, ReplaceAlerts, AlertsTypeOK
  <2>2. ClientsLagOneFetch'
    BY <1>3 DEF Apply, ReplaceAlerts, ClientsLagOneFetch
  <2>3. QED
    BY <2>1, <2>2
<1>4. CASE HandleError
  BY <1>4 DEF HandleError, AlertsTypeOK, ClientsLagOneFetch
<1>5. CASE UNCHANGED alertsVars
  BY <1>5 DEF alertsVars, AlertsTypeOK, ClientsLagOneFetch
<1>6. QED
  BY <1>1, <1>2, <1>3, <1>4, <1>5 DEF AlertsNext

\* The inductive invariant holds in every reachable state.
THEOREM AlertsInvariance == AlertsSpec => []AlertsInv
BY AlertsInitInv, AlertsNextInv, PTL DEF AlertsSpec

\* Type correctness of the service.
THEOREM AlertsTypeCorrectness == AlertsSpec => []AlertsTypeOK
<1>1. AlertsInv => AlertsTypeOK
  BY DEF AlertsInv
<1>2. QED
  BY <1>1, AlertsInvariance, PTL

\* Comparing with the feed before the last one loses at most one fetch.
THEOREM LagIsOneFetch == AlertsSpec => []ClientsLagOneFetch
<1>1. AlertsInv => ClientsLagOneFetch
  BY DEF AlertsInv
<1>2. QED
  BY <1>1, AlertsInvariance, PTL

-----------------------------------------------------------------------------
(* Subscriptions.  OvershootIsBounded is not inductive: a request that      *)
(* passed the count will insert whatever the count is by then.  The         *)
(* inductive invariant bounds the documents and the pending inserts of a    *)
(* member together.                                                         *)

\* The requests that passed the count and will insert for this user.
Saving(user) == {r \in Requests : pc[r] = "save" /\ op[r].userId = user}

SavesAreCounted ==
  \A u \in Users :
    Cardinality(SubscriptionsOf(u)) + Cardinality(Saving(u))
      < Limit + Cardinality(Requests)

SubscriptionsInv ==
  /\ SubscriptionsTypeOK
  /\ IsFiniteSet(subscriptions)
  /\ OneSubscriptionPerRoute
  /\ SavesAreCounted

-----------------------------------------------------------------------------
(* Counting *)

\* The sets that the invariant counts are finite.
LEMMA Counts ==
  ASSUME IsFiniteSet(subscriptions), NEW u
  PROVE  /\ IsFiniteSet(SubscriptionsOf(u))
         /\ IsFiniteSet(Saving(u))
         /\ Cardinality(SubscriptionsOf(u)) \in Nat
         /\ Cardinality(Saving(u)) \in Nat
         /\ Cardinality(Saving(u)) <= Cardinality(Requests)
         /\ Cardinality(Requests) \in Nat
<1>1. SubscriptionsOf(u) \in SUBSET subscriptions /\ Saving(u) \in SUBSET Requests
  BY DEF SubscriptionsOf, Saving
<1>2. QED
  BY <1>1, RequestsAssumption, FS_Subset, FS_CardinalityType

\* A step that neither inserts nor lets a request pass the count keeps the bound.
LEMMA ShrinkingKeepsCount ==
  ASSUME IsFiniteSet(subscriptions), SavesAreCounted, IsFiniteSet(subscriptions'),
         \A u \in Users : /\ SubscriptionsOf(u)' \subseteq SubscriptionsOf(u)
                          /\ Saving(u)' \subseteq Saving(u)
  PROVE  SavesAreCounted'
<1> SUFFICES ASSUME NEW u \in Users
             PROVE  Cardinality(SubscriptionsOf(u)') + Cardinality(Saving(u)')
                      < Limit + Cardinality(Requests)
  BY DEF SavesAreCounted
<1>1. /\ Cardinality(SubscriptionsOf(u)') \in Nat
      /\ Cardinality(SubscriptionsOf(u)') <= Cardinality(SubscriptionsOf(u))
      /\ Cardinality(Saving(u)') \in Nat
      /\ Cardinality(Saving(u)') <= Cardinality(Saving(u))
  BY Counts, FS_Subset, FS_CardinalityType
<1>2. QED
  BY <1>1, Counts, LimitAssumption DEF SavesAreCounted

-----------------------------------------------------------------------------
(* The invariant *)

LEMMA SubscriptionsInitInv == SubscriptionsInit => SubscriptionsInv
<1> SUFFICES ASSUME SubscriptionsInit PROVE SubscriptionsInv
  OBVIOUS
<1>1. SubscriptionsTypeOK /\ OneSubscriptionPerRoute
  BY DEF SubscriptionsInit, SubscriptionsTypeOK, OneSubscriptionPerRoute,
         HandlerPoints, NoOperation
<1>2. IsFiniteSet(subscriptions)
  BY FS_EmptySet DEF SubscriptionsInit
<1>3. ASSUME NEW u \in Users
      PROVE  SubscriptionsOf(u) = {} /\ Saving(u) = {}
  BY DEF SubscriptionsInit, SubscriptionsOf, Saving
<1>4. SavesAreCounted
  BY <1>2, <1>3, Counts, FS_EmptySet, LimitAssumption DEF SavesAreCounted
<1>5. QED
  BY <1>1, <1>2, <1>4 DEF SubscriptionsInv

\* A handler that moves on without answering, to any point but the insert.
LEMMA MovingKeepsInv ==
  ASSUME SubscriptionsInv, NEW r \in Requests, NEW point \in HandlerPoints,
         GoTo(r, point), op[r].kind = "subscribe",
         point \in {"routes", "find", "count"}
  PROVE  SubscriptionsInv'
<1>1. SubscriptionsTypeOK'
  BY DEF SubscriptionsInv, SubscriptionsTypeOK, GoTo, HandlerPoints, NoOperation
<1>2. \A u \in Users : /\ SubscriptionsOf(u)' = SubscriptionsOf(u)
                       /\ Saving(u)' \subseteq Saving(u)
  BY DEF SubscriptionsInv, SubscriptionsTypeOK, GoTo, SubscriptionsOf, Saving
<1>3. SavesAreCounted'
  BY <1>2, ShrinkingKeepsCount DEF SubscriptionsInv, GoTo
<1>4. QED
  BY <1>1, <1>3 DEF SubscriptionsInv, GoTo, OneSubscriptionPerRoute

\* A handler that ends, whether it removed documents or not.
LEMMA EndingKeepsInv ==
  ASSUME SubscriptionsInv, NEW r \in Requests, NEW after \in SUBSET subscriptions,
         Respond(r, after)
  PROVE  SubscriptionsInv'
<1>1. SubscriptionsTypeOK'
  BY DEF SubscriptionsInv, SubscriptionsTypeOK, Respond, HandlerPoints, NoOperation,
         Operations
<1>2. IsFiniteSet(subscriptions')
  BY FS_Subset DEF SubscriptionsInv, Respond
<1>3. \A u \in Users : /\ SubscriptionsOf(u)' \subseteq SubscriptionsOf(u)
                       /\ Saving(u)' \subseteq Saving(u)
  BY DEF SubscriptionsInv, SubscriptionsTypeOK, Respond, SubscriptionsOf, Saving
<1>4. SavesAreCounted'
  BY <1>2, <1>3, ShrinkingKeepsCount DEF SubscriptionsInv
<1>5. OneSubscriptionPerRoute'
  BY DEF SubscriptionsInv, OneSubscriptionPerRoute, Respond
<1>6. QED
  BY <1>1, <1>2, <1>4, <1>5 DEF SubscriptionsInv

\* The count lets a request pass only below the limit.
LEMMA CountKeepsInv ==
  ASSUME SubscriptionsInv, NEW r \in Requests, CountSubscriptions(r)
  PROVE  SubscriptionsInv'
<1>1. CASE LimitReachedBy(op[r].userId)
  BY <1>1, EndingKeepsInv DEF CountSubscriptions, Reject
<1>2. CASE ~LimitReachedBy(op[r].userId)
  <2>1. GoTo(r, "save") /\ op[r] \in Operations /\ op[r].kind = "subscribe"
    BY <1>2 DEF CountSubscriptions, SubscriptionsInv, SubscriptionsTypeOK, NoOperation
  <2>2. SubscriptionsTypeOK'
    BY <2>1 DEF SubscriptionsInv, SubscriptionsTypeOK, GoTo, HandlerPoints, NoOperation
  <2>3. ASSUME NEW u \in Users
        PROVE  Cardinality(SubscriptionsOf(u)') + Cardinality(Saving(u)')
                 < Limit + Cardinality(Requests)
    <3>1. SubscriptionsOf(u)' = SubscriptionsOf(u)
      BY <2>1 DEF GoTo, SubscriptionsOf
    <3>2. CASE u = op[r].userId
      <4>1. Cardinality(SubscriptionsOf(u)) < Limit
        BY <3>2, <1>2, Counts, LimitAssumption DEF LimitReachedBy, SubscriptionsInv
      <4>2. Saving(u)' \in SUBSET Requests
        BY DEF Saving
      <4>3. Cardinality(Saving(u)') \in Nat
            /\ Cardinality(Saving(u)') <= Cardinality(Requests)
        BY <4>2, RequestsAssumption, FS_Subset, FS_CardinalityType
      <4>4. QED
        BY <3>1, <4>1, <4>3, Counts, LimitAssumption DEF SubscriptionsInv
    <3>3. CASE u # op[r].userId
      <4>1. Saving(u)' = Saving(u)
        BY <3>3, <2>1 DEF GoTo, Saving, SubscriptionsInv, SubscriptionsTypeOK
      <4>2. QED
        BY <3>1, <4>1 DEF SubscriptionsInv, SavesAreCounted
    <3>4. QED
      BY <3>2, <3>3
  <2>4. QED
    BY <2>1, <2>2, <2>3
      DEF SubscriptionsInv, GoTo, OneSubscriptionPerRoute, SavesAreCounted
<1>3. QED
  BY <1>1, <1>2

\* The insert turns a pending save into a document.
LEMMA SaveKeepsInv ==
  ASSUME SubscriptionsInv, NEW r \in Requests, SaveSubscription(r)
  PROVE  SubscriptionsInv'
<1>1. CASE Reject(r)
  BY <1>1, EndingKeepsInv DEF Reject
<1>2. CASE /\ IndexAllows(op[r]) /\ UnusedIds # {}
           /\ Respond(r, subscriptions \cup {NewSubscription(op[r])})
  <2> DEFINE new == NewSubscription(op[r])
  <2>1. op[r] \in Operations
    BY DEF SaveSubscription, SubscriptionsInv, SubscriptionsTypeOK, NoOperation
  <2>2. /\ new \in Subscription
        /\ new.userId = op[r].userId
        /\ new.routeId = op[r].routeId
    BY <1>2, <2>1 DEF NewSubscription, UnusedIds, Subscription, Operations
  <2> HIDE DEF new
  <2>3. subscriptions' = subscriptions \cup {new}
    BY <1>2 DEF Respond, new
  <2>4. SubscriptionsTypeOK'
    BY <1>2, <2>2, <2>3
      DEF SubscriptionsInv, SubscriptionsTypeOK, Respond, HandlerPoints, NoOperation, Operations
  <2>5. IsFiniteSet(subscriptions')
    BY <2>3, FS_AddElement DEF SubscriptionsInv
  <2>6. new \notin subscriptions
    BY <1>2, <2>2 DEF IndexAllows, Matching, SubscriptionsOf
  <2>7. OneSubscriptionPerRoute'
    BY <1>2, <2>2, <2>3
      DEF SubscriptionsInv, OneSubscriptionPerRoute, IndexAllows, Matching, SubscriptionsOf
  <2>8. ASSUME NEW u \in Users
        PROVE  Cardinality(SubscriptionsOf(u)') + Cardinality(Saving(u)')
                 < Limit + Cardinality(Requests)
    <3>1. CASE u = op[r].userId
      <4>1. SubscriptionsOf(u)' = SubscriptionsOf(u) \cup {new}
        BY <3>1, <2>2, <2>3 DEF SubscriptionsOf
      <4>2. Saving(u)' = Saving(u) \ {r} /\ r \in Saving(u)
        BY <3>1, <1>2, <2>1
          DEF SaveSubscription, Respond, Saving, SubscriptionsInv, SubscriptionsTypeOK
      <4>3. new \notin SubscriptionsOf(u)
        BY <2>6 DEF SubscriptionsOf
      <4>4. Cardinality(SubscriptionsOf(u)') = Cardinality(SubscriptionsOf(u)) + 1
        BY <4>1, <4>3, Counts, FS_AddElement DEF SubscriptionsInv
      <4>5. Cardinality(Saving(u)') = Cardinality(Saving(u)) - 1
        BY <4>2, Counts, FS_RemoveElement DEF SubscriptionsInv
      <4>6. QED
        BY <4>4, <4>5, Counts DEF SubscriptionsInv, SavesAreCounted
    <3>2. CASE u # op[r].userId
      <4>1. SubscriptionsOf(u)' = SubscriptionsOf(u)
        BY <3>2, <2>2, <2>3 DEF SubscriptionsOf
      <4>2. Saving(u)' = Saving(u)
        BY <3>2, <1>2
          DEF SaveSubscription, Respond, Saving, SubscriptionsInv, SubscriptionsTypeOK
      <4>3. QED
        BY <4>1, <4>2 DEF SubscriptionsInv, SavesAreCounted
    <3>3. QED
      BY <3>1, <3>2
  <2>9. QED
    BY <2>4, <2>5, <2>7, <2>8 DEF SubscriptionsInv, SavesAreCounted
<1>3. QED
  BY <1>1, <1>2 DEF SaveSubscription

\* Every step of the server preserves the invariant.
LEMMA SubscriptionsNextInv ==
  SubscriptionsInv /\ [SubscriptionsNext]_subscriptionsVars => SubscriptionsInv'
<1> SUFFICES ASSUME SubscriptionsInv, [SubscriptionsNext]_subscriptionsVars
             PROVE  SubscriptionsInv'
  OBVIOUS
<1>1. ASSUME NEW r \in Requests, Receive(r) PROVE SubscriptionsInv'
  <2>1. SubscriptionsTypeOK'
    BY <1>1
      DEF SubscriptionsInv, SubscriptionsTypeOK, Receive, HandlerPoints, NoOperation, Operations
  <2>2. \A u \in Users : /\ SubscriptionsOf(u)' = SubscriptionsOf(u)
                         /\ Saving(u)' \subseteq Saving(u)
    BY <1>1 DEF SubscriptionsInv, SubscriptionsTypeOK, Receive, SubscriptionsOf, Saving
  <2>3. SavesAreCounted'
    BY <1>1, <2>2, ShrinkingKeepsCount DEF SubscriptionsInv, Receive
  <2>4. QED
    BY <1>1, <2>1, <2>3 DEF SubscriptionsInv, Receive, OneSubscriptionPerRoute
<1>2. ASSUME NEW r \in Requests, CheckRoute(r) PROVE SubscriptionsInv'
  BY <1>2, MovingKeepsInv, EndingKeepsInv
    DEF CheckRoute, Reject, HandlerPoints, SubscriptionsInv, SubscriptionsTypeOK
<1>3. ASSUME NEW r \in Requests, FindSubscription(r) PROVE SubscriptionsInv'
  BY <1>3, MovingKeepsInv, EndingKeepsInv
    DEF FindSubscription, Reject, HandlerPoints, SubscriptionsInv, SubscriptionsTypeOK
<1>4. ASSUME NEW r \in Requests, CountSubscriptions(r) PROVE SubscriptionsInv'
  BY <1>4, CountKeepsInv
<1>5. ASSUME NEW r \in Requests, SaveSubscription(r) PROVE SubscriptionsInv'
  BY <1>5, SaveKeepsInv
<1>6. ASSUME NEW r \in Requests, DeleteSubscription(r) PROVE SubscriptionsInv'
  BY <1>6, EndingKeepsInv DEF DeleteSubscription, Reject
<1>7. CASE Restart
  <2>1. SubscriptionsTypeOK'
    BY <1>7
      DEF SubscriptionsInv, SubscriptionsTypeOK, Restart, HandlerPoints, NoOperation
  <2>2. \A u \in Users : /\ SubscriptionsOf(u)' = SubscriptionsOf(u)
                         /\ Saving(u)' \subseteq Saving(u)
    BY <1>7 DEF SubscriptionsInv, SubscriptionsTypeOK, Restart, SubscriptionsOf, Saving
  <2>3. SavesAreCounted'
    BY <1>7, <2>2, ShrinkingKeepsCount DEF SubscriptionsInv, Restart
  <2>4. QED
    BY <1>7, <2>1, <2>3 DEF SubscriptionsInv, Restart, OneSubscriptionPerRoute
<1>8. CASE UNCHANGED subscriptionsVars
  BY <1>8
    DEF SubscriptionsInv, subscriptionsVars, SubscriptionsTypeOK,
        OneSubscriptionPerRoute, SavesAreCounted,
              SubscriptionsOf, Saving
<1>9. QED
  BY <1>1, <1>2, <1>3, <1>4, <1>5, <1>6, <1>7, <1>8 DEF SubscriptionsNext, Handle

\* The inductive invariant holds in every reachable state.
THEOREM SubscriptionsInvariance == SubscriptionsSpec => []SubscriptionsInv
BY SubscriptionsInitInv, SubscriptionsNextInv, PTL DEF SubscriptionsSpec

-----------------------------------------------------------------------------
(* The properties *)

\* Type correctness of the collection and of the handlers.
THEOREM SubscriptionsTypeCorrectness == SubscriptionsSpec => []SubscriptionsTypeOK
<1>1. SubscriptionsInv => SubscriptionsTypeOK
  BY DEF SubscriptionsInv
<1>2. QED
  BY <1>1, SubscriptionsInvariance, PTL

\* R2 holds however many subscribe requests race with each other.
THEOREM NoDuplicates == SubscriptionsSpec => []OneSubscriptionPerRoute
<1>1. SubscriptionsInv => OneSubscriptionPerRoute
  BY DEF SubscriptionsInv
<1>2. QED
  BY <1>1, SubscriptionsInvariance, PTL

\* Requests that race between the count and the insert exceed R1's limit by
\* less than their number.
THEOREM LimitWithRaces == SubscriptionsSpec => []OvershootIsBounded
<1>1. SubscriptionsInv => OvershootIsBounded
  <2> SUFFICES ASSUME SubscriptionsInv, NEW u \in Users
               PROVE  Cardinality(SubscriptionsOf(u)) < Limit + Cardinality(Requests)
    BY DEF OvershootIsBounded
  <2>1. QED
    BY Counts, LimitAssumption DEF SubscriptionsInv, SavesAreCounted
<1>2. QED
  BY <1>1, SubscriptionsInvariance, PTL

\* The single deleteOne of an unsubscribe is enough.
THEOREM UnsubscribeIsComplete == SubscriptionsSpec => UnsubscribeLeavesNone
<1> DEFINE Leaves ==
      \A r \in Requests :
        pc[r] = "delete" /\ subscriptions' # subscriptions /\ pc'[r] = "idle"
          => \A s \in subscriptions' : ~(s.userId = op[r].userId /\
                                         s.routeId = op[r].routeId)
<1>1. SubscriptionsInv /\ [SubscriptionsNext]_subscriptionsVars => [Leaves]_subscriptionsVars
  <2> SUFFICES ASSUME SubscriptionsInv, SubscriptionsNext,
                      NEW r \in Requests, pc[r] = "delete",
                      subscriptions' # subscriptions, pc'[r] = "idle"
               PROVE  \A s \in subscriptions' : ~(s.userId = op[r].userId /\
                                                  s.routeId = op[r].routeId)
    OBVIOUS
  <2>1. PICK q \in Requests : Handle(q)
    BY DEF SubscriptionsNext, Restart
  <2>2. q = r
    BY <2>1 DEF Handle, Receive, CheckRoute, FindSubscription, CountSubscriptions,
                SaveSubscription, DeleteSubscription, GoTo, Reject, Respond,
                SubscriptionsInv, SubscriptionsTypeOK
  <2>3. DeleteSubscription(r)
    BY <2>1, <2>2 DEF Handle, Receive, CheckRoute, FindSubscription,
                      CountSubscriptions, SaveSubscription
  <2>4. PICK s \in Matching(op[r]) : subscriptions' = subscriptions \ {s}
    BY <2>3 DEF DeleteSubscription, Reject, Respond
  <2>5. QED
    BY <2>4 DEF SubscriptionsInv, OneSubscriptionPerRoute, Matching, SubscriptionsOf
<1>2. QED
  BY <1>1, SubscriptionsInvariance, PTL DEF SubscriptionsSpec, UnsubscribeLeavesNone
=============================================================================
