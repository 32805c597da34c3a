----------------------------- MODULE RouteColors -----------------------------
(***************************************************************************)
(* The in-memory snapshot of routes, patterns and stops (TransitModel),    *)
(* and where the colours in it come from: one call of the TrueTime API per *)
(* build.  A build whose call fails uses default colours and starts a      *)
(* timer that retries the call.  Builds are made by the start-up chain, by *)
(* the daily refresh and, as long as there is no snapshot, by requests;    *)
(* their calls overlap with each other and with the retries.               *)
(*                                                                         *)
(* Left out: the detours that a refresh stores after the snapshot.         *)
(***************************************************************************)
EXTENDS Naturals

CONSTANTS
  RouteRequests,  \* requests for the routes only: their build is not kept
  BulkRequests,   \* requests for everything: their build becomes the snapshot
  Refresh,        \* the start-up or daily refresh (no two of them overlap)
  Retry,          \* a retry (the API call times out long before the next one)
  MaxRetries      \* attempts before giving up (12 in the code)

ASSUME MaxRetriesAssumption == MaxRetries \in Nat \ {0}
ASSUME CallersAssumption ==
  /\ Refresh # Retry
  /\ RouteRequests \cap BulkRequests = {}
  /\ {Refresh, Retry} \cap (RouteRequests \cup BulkRequests) = {}

AllRequests == RouteRequests \cup BulkRequests
Callers  == AllRequests \cup {Refresh, Retry}

\* Builds that become the snapshot.
Kept == BulkRequests \cup {Refresh}

VARIABLES
  up,          \* environment: TrueTime answers in time
  gtfs,        \* the schedule: "loading", "loaded" or "failed"
  chain,       \* the start-up chain: "starting", "refreshing", "scheduled"
  snapshot,    \* bulkDataCache: "none", or its routes' colours
  hasColors,   \* what the health endpoint reports
  timer,       \* the retry timer is set
  retryCount,
  waiting,     \* callers that await TrueTime
  gaveUp       \* history: the last timer was stopped after MaxRetries failures

vars == <<up, gtfs, chain, snapshot, hasColors, timer, retryCount, waiting, gaveUp>>

TypeOK ==
  /\ up \in BOOLEAN
  /\ gtfs \in {"loading", "loaded", "failed"}
  /\ chain \in {"starting", "refreshing", "scheduled"}
  /\ snapshot \in {"none", "default", "colored"}
  /\ hasColors \in BOOLEAN
  /\ timer \in BOOLEAN
  /\ retryCount \in 0..MaxRetries
  /\ waiting \subseteq Callers
  /\ gaveUp \in BOOLEAN

Init ==
  /\ up \in BOOLEAN
  /\ gtfs = "loading"
  /\ chain = "starting"
  /\ snapshot = "none"
  /\ hasColors = FALSE
  /\ timer = FALSE
  /\ retryCount = 0
  /\ waiting = {}
  /\ gaveUp = FALSE

-----------------------------------------------------------------------------
(* The environment *)

AvailabilityChanges ==
  /\ up' = ~up
  /\ UNCHANGED <<gtfs, chain, snapshot, hasColors, timer, retryCount, waiting, gaveUp>>

\* gtfsService.load() settles; it is called once.
GtfsSettles ==
  /\ gtfs = "loading"
  /\ gtfs' \in {"loaded", "failed"}
  /\ UNCHANGED <<up, chain, snapshot, hasColors, timer, retryCount, waiting, gaveUp>>

-----------------------------------------------------------------------------
(* The retry timer *)

\* stopColorRetry
StopRetry ==
  /\ timer' = FALSE
  /\ retryCount' = IF timer THEN 0 ELSE retryCount

\* startColorRetry: nothing if it is already running.
StartRetry ==
  /\ timer' = TRUE
  /\ retryCount' = IF timer THEN retryCount ELSE 0
  /\ gaveUp' = (timer /\ gaveUp)

\* Mutant: success is not remembered.
HaveColorsUnnoted == hasColors' = hasColors /\ StopRetry /\ gaveUp' = FALSE

HaveColors == hasColors' = TRUE /\ StopRetry /\ gaveUp' = FALSE

-----------------------------------------------------------------------------
(* Builds and retries up to their call of TrueTime *)

Call(caller) ==
  /\ caller \notin waiting
  /\ waiting' = waiting \cup {caller}
  /\ UNCHANGED <<up, gtfs, snapshot, hasColors, timer, gaveUp>>

\* A request without a snapshot to answer from.
RequestMisses(request) ==
  /\ gtfs = "loaded"
  /\ snapshot = "none"
  /\ Call(request)
  /\ UNCHANGED <<chain, retryCount>>

\* The chain waits for the schedule; without it, there is nothing to refresh.
StartupRefresh ==
  /\ chain = "starting"
  /\ \/ /\ gtfs = "loaded"
        /\ chain' = "refreshing"
        /\ Call(Refresh)
     \/ /\ gtfs = "failed"
        /\ chain' = "scheduled"
        /\ UNCHANGED <<up, gtfs, snapshot, hasColors, timer, waiting, gaveUp>>
  /\ UNCHANGED retryCount

\* Mutant: colours that were fetched once are not fetched again.
DailyRefreshUnlessColored ==
  /\ chain = "scheduled" /\ gtfs = "loaded" /\ ~hasColors
  /\ Call(Refresh)
  /\ UNCHANGED <<chain, retryCount>>

DailyRefresh ==
  /\ chain = "scheduled" /\ gtfs = "loaded"
  /\ Call(Refresh)
  /\ UNCHANGED <<chain, retryCount>>

RetryTick ==
  /\ timer
  /\ retryCount' = retryCount + 1
  /\ Call(Retry)
  /\ UNCHANGED chain

-----------------------------------------------------------------------------
(* The answer, and the rest of the build or retry *)

Settle(caller) ==
  /\ caller \in waiting
  /\ waiting' = waiting \ {caller}
  /\ chain' = IF caller = Refresh THEN "scheduled" ELSE chain
  /\ UNCHANGED <<up, gtfs>>

\* A retry recolours the snapshot if there is one.
Recolors(caller) == caller \in Kept \/ (caller = Retry /\ snapshot # "none")

Succeed(caller) ==
  /\ up
  /\ Settle(caller)
  /\ HaveColors
  /\ snapshot' = IF Recolors(caller) THEN "colored" ELSE snapshot

\* A build goes on with the default colours.
FailBuild(caller) ==
  /\ ~up
  /\ caller # Retry
  /\ Settle(caller)
  /\ StartRetry
  /\ snapshot' = IF caller \in Kept THEN "default" ELSE snapshot
  /\ UNCHANGED hasColors

\* Mutant: one retry too many.
RetriesExceeded == retryCount > MaxRetries

RetriesExhausted == retryCount >= MaxRetries

FailRetry ==
  /\ ~up
  /\ Settle(Retry)
  /\ \/ RetriesExhausted /\ StopRetry /\ gaveUp' = (timer \/ gaveUp)
     \/ ~RetriesExhausted /\ UNCHANGED <<timer, retryCount, gaveUp>>
  /\ UNCHANGED <<snapshot, hasColors>>

Answered(caller) == Succeed(caller) \/ FailBuild(caller) \/ (caller = Retry /\ FailRetry)

Next ==
  \/ AvailabilityChanges \/ GtfsSettles
  \/ \E request \in AllRequests : RequestMisses(request)
  \/ StartupRefresh \/ DailyRefresh \/ RetryTick
  \/ \E caller \in Callers : Answered(caller)

\* Timers keep firing, and a call of TrueTime ends within its own timeout.
Fairness ==
  /\ WF_vars(DailyRefresh) /\ WF_vars(RetryTick)
  /\ \A caller \in Callers : WF_vars(Answered(caller))

Spec == Init /\ [][Next]_vars /\ Fairness

-----------------------------------------------------------------------------
(* Properties *)

\* TUC 2 says that the server retries for up to MaxRetries attempts and uses the
\* default colours until TrueTime recovers.  A success of a build that is not
\* kept stops the retries too and leaves the default colours in the snapshot: this
\* holds only where no other build runs, and is proved for that case.
DefaultColorsAreRetried == snapshot = "default" => timer \/ gaveUp

\* What the code does guarantee: health and snapshot agree while colours were
\* never fetched.  Then no snapshot is coloured, and one with default colours is
\* being retried, or has been for all attempts.
MissingColorsAreReported ==
  ~hasColors => snapshot = "none" \/ (snapshot = "default" /\ (timer \/ gaveUp))

\* Once TrueTime stays up, the snapshot gets its colours for good, whatever
\* builds and retries were under way, given the schedule and a finished start-up.
ColorsRecover ==
  <>[](up /\ chain = "scheduled" /\ gtfs = "loaded")
    => <>[](snapshot = "colored" /\ hasColors /\ ~timer)
=============================================================================
