-------------------------------- MODULE Alerts --------------------------------
(***************************************************************************)
(* The service-alert poller (AlertsService) and the alertUpdate events it  *)
(* causes.  One feed is fetched at a time; each fetched feed is compared,  *)
(* to decide whether to push it to the connected clients, with             *)
(* `previousAlerts`.  That is the feed before the one being replaced, not  *)
(* the one being replaced.                                                 *)
(*                                                                         *)
(* The remote feed is the environment: its content changes and it becomes  *)
(* unreachable at any time.  A feed is one value: the code compares the    *)
(* JSON of the whole list.                                                 *)
(***************************************************************************)
EXTENDS Naturals

CONSTANTS
  Feeds,    \* the contents the feed may have
  NoAlerts  \* the empty list, which the service starts with

ASSUME NoAlertsAssumption == NoAlerts \in Feeds

VARIABLES
  feed,            \* environment: what the remote feed contains
  reachable,       \* environment: whether it answers with a decodable feed
  polling,         \* the interval is set
  isStopping,
  fetch,           \* the fetch in progress, if any (fetchInProgress)
  alerts,          \* what getAlerts() returns
  previousAlerts,
  healthy,         \* getAlerts answers 503 AlertFeedUnavailable if not
  pushed           \* the payload of the last alertUpdate the clients received

environment == <<feed, reachable>>
service     == <<alerts, previousAlerts, healthy, pushed>>
alertsVars        == <<environment, polling, isStopping, fetch, service>>

-----------------------------------------------------------------------------
(* A fetch waits for the response, holds a whole body, was refused, or was  *)
(* aborted by stop().  The body is the feed when it was sent.               *)

NoFetch  == [state |-> "none", body |-> NoAlerts]
Waiting  == [state |-> "waiting", body |-> NoAlerts]
Failed   == [state |-> "failed", body |-> NoAlerts]
Aborted  == [state |-> "aborted", body |-> NoAlerts]
Body(f)  == [state |-> "body", body |-> f]

AlertsTypeOK ==
  /\ feed \in Feeds
  /\ reachable \in BOOLEAN
  /\ polling \in BOOLEAN
  /\ isStopping \in BOOLEAN
  /\ fetch \in {NoFetch, Waiting, Failed, Aborted} \cup {Body(f) : f \in Feeds}
  /\ alerts \in Feeds
  /\ previousAlerts \in Feeds
  /\ healthy \in BOOLEAN
  /\ pushed \in Feeds

AlertsInit ==
  /\ feed \in Feeds
  /\ reachable \in BOOLEAN
  /\ polling = FALSE
  /\ isStopping = FALSE
  /\ fetch = NoFetch
  /\ alerts = NoAlerts
  /\ previousAlerts = NoAlerts
  /\ healthy = FALSE
  /\ pushed = NoAlerts

-----------------------------------------------------------------------------
(* The environment *)

FeedChanges ==
  /\ feed' \in Feeds \ {feed}
  /\ UNCHANGED <<reachable, polling, isStopping, fetch, service>>

ReachabilityChanges ==
  /\ reachable' = ~reachable
  /\ UNCHANGED <<feed, polling, isStopping, fetch, service>>

\* Mutant: a response that is not a feed is taken for one.
AnswerUndecoded ==
  /\ fetch = Waiting
  /\ fetch' = Body("response")
  /\ UNCHANGED <<environment, polling, isStopping, service>>

\* The response of the fetch arrives.
Answer ==
  /\ fetch = Waiting
  /\ fetch' = IF reachable THEN Body(feed) ELSE Failed
  /\ UNCHANGED <<environment, polling, isStopping, service>>

-----------------------------------------------------------------------------
(* The service *)

\* start() of the start-up chain, with its initial fetch.
Start ==
  /\ ~polling /\ ~isStopping
  /\ polling' = TRUE
  /\ fetch' = Waiting
  /\ UNCHANGED <<environment, isStopping, service>>

\* The interval fires; a tick during a fetch does nothing.
Tick ==
  /\ polling
  /\ fetch = NoFetch
  /\ fetch' = Waiting
  /\ UNCHANGED <<environment, polling, isStopping, service>>

\* Mutant: the feed to compare with is never moved forward.
ReplaceAlertsOnly(new) ==
  /\ previousAlerts' = previousAlerts
  /\ alerts' = new

ReplaceAlerts(new) ==
  /\ previousAlerts' = alerts
  /\ alerts' = new

\* applyFetchedAlerts, and the finally clause of fetchAlerts.
Apply ==
  /\ fetch.state = "body"
  /\ ReplaceAlerts(fetch.body)
  /\ pushed' = IF fetch.body # previousAlerts THEN fetch.body ELSE pushed
  /\ healthy' = TRUE
  /\ fetch' = NoFetch
  /\ UNCHANGED <<environment, polling, isStopping>>

\* handleFetchError, and the finally clause: an abort is not a failure.
HandleError ==
  /\ fetch \in {Failed, Aborted}
  /\ healthy' = (healthy /\ isStopping)
  /\ fetch' = NoFetch
  /\ UNCHANGED <<environment, polling, isStopping, alerts, previousAlerts, pushed>>

\* stop() when the server closes, possibly during start-up, which then ends
\* without start().  A body that is complete is still applied.
Stop ==
  /\ ~isStopping
  /\ polling' = FALSE
  /\ isStopping' = TRUE
  /\ fetch' = IF fetch = Waiting THEN Aborted ELSE fetch
  /\ UNCHANGED <<environment, service>>

AlertsNext == \/ FeedChanges \/ ReachabilityChanges \/ Answer
        \/ Start \/ Tick \/ Apply \/ HandleError \/ Stop

\* The start-up chain reaches start(), the interval keeps firing, the event loop
\* keeps running continuations, and fetch() gives up on a silent server (the
\* runtime's own limit on waiting for headers and bodies).
AlertsFairness ==
  /\ WF_alertsVars(Start) /\ WF_alertsVars(Tick) /\ WF_alertsVars(Answer)
  /\ WF_alertsVars(Apply) /\ WF_alertsVars(HandleError)

AlertsSpec == AlertsInit /\ [][AlertsNext]_alertsVars /\ AlertsFairness

-----------------------------------------------------------------------------
(* Properties *)

\* A feed that returns to what it was two fetches ago is not pushed.  What the
\* comparison with the feed before the last one still guarantees:
\* clients have one of the last two feeds, and the same feed fetched twice in a
\* row is one they have.
ClientsLagOneFetch ==
  /\ pushed \in {alerts, previousAlerts}
  /\ alerts = previousAlerts => pushed = alerts

\* Once the feed is reachable and stays as it is, the service recovers from
\* failed fetches, and what it serves and what clients were sent become the feed.
ClientsGetTheFeed ==
  \A f \in Feeds :
    <>[](feed = f /\ reachable /\ ~isStopping)
      => <>[](alerts = f /\ pushed = f /\ healthy)
=============================================================================
