---------------------------- MODULE Subscriptions ----------------------------
(***************************************************************************)
(* Route subscriptions: the MongoDB collection and the two handlers of     *)
(* NotificationModel that change it.  subscribe() asks three questions of  *)
(* the outside world (is the route known, is it already subscribed to, how *)
(* many subscriptions are there) and inserts a document in a fourth round  *)
(* trip; other handlers run in between.  Only the unique index on          *)
(* (userId, routeId) is checked again by the insert: the limit is not.     *)
(***************************************************************************)
EXTENDS Naturals, FiniteSets

CONSTANTS
  Users,            \* userIds of the members that subscribe
  Routes,           \* route ids that requests name
  SubscriptionIds,  \* the _id values (uuids) that documents get
  Limit,            \* rule R1: subscriptions a member may have (10 in the code)
  Requests          \* slots for requests that are being handled concurrently

ASSUME LimitAssumption           == Limit \in Nat \ {0}
ASSUME RequestsAssumption        == IsFiniteSet(Requests)
ASSUME SubscriptionIdsAssumption == IsFiniteSet(SubscriptionIds)

VARIABLES
  subscriptions,  \* the subscriptions collection
  pc,             \* the call each request's handler awaits
  op              \* what each request asks for

subscriptionsVars == <<subscriptions, pc, op>>

-----------------------------------------------------------------------------
(* The collection *)

Subscription == [_id : SubscriptionIds, userId : Users, routeId : Routes]

SubscriptionsOf(user) == {s \in subscriptions : s.userId = user}

Matching(o) ==
  {s \in SubscriptionsOf(o.userId) : s.routeId = o.routeId}

UnusedIds == SubscriptionIds \ {s._id : s \in subscriptions}

\* Mutant: the document does not say whose it is.
NewSubscriptionOfNobody(o) ==
  [_id |-> CHOOSE id \in UnusedIds : TRUE, routeId |-> o.routeId]

\* The document an insert adds: uuidV4() is an _id no document has.
NewSubscription(o) ==
  [_id |-> CHOOSE id \in UnusedIds : TRUE, userId |-> o.userId, routeId |-> o.routeId]

\* Mutant: a collection without its unique index.
IndexAllowsAnything(o) == TRUE

\* The compound unique index accepts a document for this user and route.
IndexAllows(o) == Matching(o) = {}

-----------------------------------------------------------------------------
(* The requests *)

Operations == [kind : {"subscribe", "unsubscribe"}, userId : Users, routeId : Routes]

NoOperation == [kind |-> "none"]

HandlerPoints == {"idle", "routes", "find", "count", "save", "delete"}

SubscriptionsTypeOK ==
  /\ subscriptions \subseteq Subscription
  /\ pc \in [Requests -> HandlerPoints]
  /\ op \in [Requests -> Operations \cup {NoOperation}]
  /\ \A r \in Requests :
       /\ pc[r] = "idle" <=> op[r] = NoOperation
       /\ pc[r] \in {"routes", "find", "count", "save"} => op[r].kind = "subscribe"
       /\ pc[r] = "delete" => op[r].kind = "unsubscribe"

GoTo(r, point) ==
  /\ pc' = [pc EXCEPT ![r] = point]
  /\ UNCHANGED <<subscriptions, op>>

\* The handler answers and ends, leaving the collection as `after`.
Respond(r, after) ==
  /\ subscriptions' = after
  /\ pc' = [pc EXCEPT ![r] = "idle"]
  /\ op' = [op EXCEPT ![r] = NoOperation]

Reject(r) == Respond(r, subscriptions)

SubscriptionsInit ==
  /\ subscriptions = {}
  /\ pc = [r \in Requests |-> "idle"]
  /\ op = [r \in Requests |-> NoOperation]

Receive(r) ==
  /\ pc[r] = "idle"
  /\ \E o \in Operations :
       /\ op' = [op EXCEPT ![r] = o]
       /\ pc' = [pc EXCEPT ![r] =
                   IF o.kind = "subscribe" THEN "routes" ELSE "delete"]
  /\ UNCHANGED subscriptions

\* RouteNotFound, or a route source that fails: either ends the request.
CheckRoute(r) ==
  /\ pc[r] = "routes"
  /\ GoTo(r, "find") \/ Reject(r)

FindSubscription(r) ==
  /\ pc[r] = "find"
  /\ IF Matching(op[r]) # {} THEN Reject(r) ELSE GoTo(r, "count")

\* Mutant: the limit is off by one.
LimitExceededBy(user) == Cardinality(SubscriptionsOf(user)) > Limit

LimitReachedBy(user) == Cardinality(SubscriptionsOf(user)) >= Limit

CountSubscriptions(r) ==
  /\ pc[r] = "count"
  /\ IF LimitReachedBy(op[r].userId) THEN Reject(r) ELSE GoTo(r, "save")

\* saveSubscription: the insert that the unique index may refuse.
SaveSubscription(r) ==
  /\ pc[r] = "save"
  /\ \/ ~IndexAllows(op[r]) /\ Reject(r)
     \/ /\ IndexAllows(op[r])
        /\ UnusedIds # {}
        /\ Respond(r, subscriptions \cup {NewSubscription(op[r])})

\* deleteOne: removes one matching document, or answers SubscriptionNotFound.
DeleteSubscription(r) ==
  /\ pc[r] = "delete"
  /\ \/ Matching(op[r]) = {} /\ Reject(r)
     \/ \E s \in Matching(op[r]) : Respond(r, subscriptions \ {s})

\* The process dies and starts again: handlers are lost, documents are not.
Restart ==
  /\ pc' = [r \in Requests |-> "idle"]
  /\ op' = [r \in Requests |-> NoOperation]
  /\ UNCHANGED subscriptions

Handle(r) ==
  \/ Receive(r) \/ CheckRoute(r) \/ FindSubscription(r)
  \/ CountSubscriptions(r) \/ SaveSubscription(r) \/ DeleteSubscription(r)

SubscriptionsNext == (\E r \in Requests : Handle(r)) \/ Restart

SubscriptionsSpec == SubscriptionsInit /\ [][SubscriptionsNext]_subscriptionsVars

-----------------------------------------------------------------------------
(* Properties *)

\* R2: no member has two subscriptions to a route, although several handlers
\* may have found none before any of them inserts.
OneSubscriptionPerRoute ==
  \A s, t \in subscriptions :
    s.userId = t.userId /\ s.routeId = t.routeId => s = t

\* R1 bounds the subscriptions of a member, but the count is read one await before
\* the insert.  What the code does keep: however many requests race between the count and
\* the insert, a member exceeds the limit by less than the number of requests
\* the server handles at once, also over many rounds of subscribing.
OvershootIsBounded ==
  \A u \in Users :
    Cardinality(SubscriptionsOf(u)) < Limit + Cardinality(Requests)

\* An unsubscribe that found its subscription leaves none behind: deleteOne
\* removes a single document, so this rests on there being no duplicates, which
\* the racy findSubscription alone would not ensure.
UnsubscribeLeavesNone ==
  [][\A r \in Requests :
       pc[r] = "delete" /\ subscriptions' # subscriptions /\ pc'[r] = "idle"
         => \A s \in subscriptions' : ~(s.userId = op[r].userId /\
                                        s.routeId = op[r].routeId)]_subscriptionsVars
=============================================================================
