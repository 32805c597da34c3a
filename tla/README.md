# ScottyGo: TLA+ models, checks and proofs

ScottyGo is a transit tracker: a Node.js server (Express, Socket.io, MongoDB)
that caches schedules, polls real-time feeds, and pushes notifications to a
browser client. This directory holds TLA+ modules of its stateful parts, the TLC
configurations that check them on small instances, and theorems about them that
TLAPS checks for every value of the constants. Paths below are relative to the
repository.

To check a model: `tlc -config MCAccounts.cfg MCAccounts`. To check the proofs:
`tlapm AccountsProofs.tla`. `PROJECT.json` lists the runs, the source lines each
definition stands for, the hazards the properties are aimed at, and for each
property a plausible bug (a mutant of a definition) that breaks it.

## 1. The system

The server is one Node process. Its handlers, timers and feed callbacks run one
at a time, but each `await` lets the others run: between two awaits of a handler
anything else may have changed the database or the process's memory. That is the
concurrency the models are about, and an action is what runs between two awaits.

| Component | State | Operations | Interacts with | What is hard |
|---|---|---|---|---|
| Accounts (`server/models/user.*`, `account.controller`, `auth.controller`) | users collection | register, login, status, privilege, username, email, password, default-admin seed | MongoDB, sockets, email | authorization and the last-administrator rule are checked awaits before the write |
| Route subscriptions (`notification.model`, `notification.controller`) | subscriptions collection | subscribe, unsubscribe | MongoDB, route sources, client | limit and duplicates are checked awaits before the insert |
| Bus reports (`notification.model`) | last-known status map, reports, notifications | submitReport, initialize, search | MongoDB, vehicles, moderation, sockets | overlapping reports, failing saves, restart |
| Service alerts (`alerts.service`) | current and previous alerts | poll, push, stop | remote feed, sockets | change detection, recovery, abort |
| GTFS-realtime pollers (`vehicle-positions.service`, `trip-updates.service`) | in-memory index, in-progress and pending flags | poll, stop | remote feed, transit and health controllers | overlapping fetches, a wedged flag |
| TripShot services (`server/services/tripshot*`) | index of shuttles, metadata cache | poll, vehicles, predictions and schedules of a route | remote API, clock | an index of an earlier clock, Eastern time |
| Transit data (`transit.model`) | snapshot of routes and stops, colour-retry timer, detour cache | refresh, get, retry | GTFS, TrueTime, MongoDB, health | builds and retries that overlap |
| GTFS schedule, static shuttle data (`gtfs.service`, `cmu-static-data.service`) | maps filled by one load | load, schedule queries | transit model, search | a stream that ends in several ways, times past midnight |
| Contextual search (`server/search`) | none of its own | one strategy per search box | schedule, notifications, alerts | stop words, caps, loading schedule |
| Sockets and rooms (`app.ts`, `account.controller`) | rooms of each socket | connect, subscribe and unsubscribe account or route, rename, forced logout | accounts, client | joins awaited, leaves not |
| Lifecycle (`app.ts`, `serve.ts`) | start-up chain, intervals | start, close | everything with a timer | close during start-up |
| Validation, moderation, email, health, memory monitor | little or none | checks, one outgoing call, sampling | the above | - |
| Live-notification client (`live-notifications.ts`, `subscriptions.ts`, `route-bell.ts`) | joined rooms, cards, bell, muted routes | subscribe, unsubscribe, refetch, reconnect | server, sockets, a second page | answers of overlapping requests |
| Map page: filters (`map.ts`, `filter-controller`, `map-state`, `route-renderer`, `vehicle-tracker`) | selection, drawn routes, polls | select, deselect, toggle, load, poll | server, Google Maps | late answers of superseded requests |
| Map page: panels (`prediction-`, `directions-controller`, `map-popup`) | popups and tabs, arrivals, walking directions | open, minimize, restore, close, navigate | server, Google Maps | one popup that everything writes into |
| Account and auth pages | forms, stored token, socket | select, edit, save, toggle, log in and out | server, sockets | events and loads during edits |

What would make each of them correct:

- accounts: names are unique; a write changes only what its requester may change;
  an active Administrator remains;
- subscriptions: one per member and route, at most ten per member, an
  unsubscribe is complete;
- bus reports: a change is announced once, and what is announced is a change;
  subscribers of a bus's route end up with the status the server knows;
- alerts and feeds: at most one fetch runs, data never goes back, a failure is
  recovered from, clients hear of every change, everything rests after a close;
- caches: readers see a whole snapshot, a missing part is eventually filled in;
- schedule and search: what is loaded is what the feed says, functions that
  answer the same question agree, narrowing a search narrows its answer;
- sockets and client: a browser is in exactly the rooms of its subscriptions, and
  a page shows the account that is stored;
- map page: what the member chose last is what is drawn, whatever it overtook.

## 2. The modules

| Module | Models | Kind |
|---|---|---|
| `Accounts` | users collection and the handlers that write it | state machine |
| `Subscriptions` | subscriptions collection, subscribe and unsubscribe | state machine |
| `BusReports` | report handlers, status map, notifications | state machine |
| `Alerts` | alert poller and its pushes | state machine with fairness |
| `FeedStore` | what readers of a GTFS-realtime store rely on | abstract specification |
| `FeedPoller` | the two GTFS-realtime pollers | state machine with fairness, implements `FeedStore` |
| `RouteColors` | snapshot of routes, its colours and the retry timer | state machine with fairness |
| `TripShot` (extends `FeedPoller`) | the shuttles' index with its clock, and the service that answers from it | state machine and operators |
| `GtfsService` | the load of the schedule, and its queries | state machine and operators |
| `Lists` | filter and slice of arrays | operators |
| `CmuStaticData` (extends `Lists`) | stops of the shuttles | operators |
| `Search` (extends these) | the search strategies over schedule, shuttles, notifications and alerts | state machine and operators |
| `RouteRooms` | the socket of one page: emits in order, rooms, drops | operators on a record |
| `LiveSubscriptions` (extends `RouteRooms`) | two pages of one member, their requests, rooms and reconnects | state machine |
| `AccountPage` | one account page, its socket, the account rooms and the side effects of writes | state machine |
| `TransitRoutes` | routes, systems and directions | constants |
| `RouteRenderer`, `VehicleTracker` | what is drawn, what is polled | operators on records |
| `MapPage` (extends these) | the filters of the map page | state machine with fairness |
| `MapPopup` | popups, tabs and their cache | operators on a record |
| `Panels` (extends `MapPopup`) | stop, route and bus popups, arrivals and walking directions | state machine with fairness |
| `MC*` | constants and symmetry for TLC | - |
| `*Proofs` | theorems about the modules they extend, and their proofs (section 5) | - |

**Conventions.** A handler is a process in a slot of `Requests`; `pc[r]` names
the call it awaits. `GoTo` continues a handler, `Respond` and `Reject` end it.
Values the code only stores (profiles, routes, feed contents) are model values.
`Restart`, where there is one, ends every handler at an arbitrary point, clears
memory and keeps the database. Requests that fail validation before their first
await change nothing and are left out.

**Accounts.** `accounts` maps the immutable `_id`s to documents. Each handler is
the code's sequence of round trips: `Authorize` (the requester is read and
checked), `ReadTarget` (only `updateStatus` reads its target first),
`FindTarget` and `CountAdmins` (the two reads of `ensureNotLastAdmin`, for
inactivations and demotions), `CheckName` (registrations and renames), `Update`
or `Save`. Writes find their document by *name*, as the code does, which is why
renames matter to every other request. `SeedFind` and `SeedSave` are
`seedDefaultAdmin`, concurrent with requests because the server listens before
the start-up chain ends. `disturbed` is a history variable used only in
properties.

**Subscriptions.** `CheckRoute`, `FindSubscription`, `CountSubscriptions` and
`SaveSubscription` are the four awaits of `subscribe`; `DeleteSubscription` is
`deleteOne`. Only the unique index is evaluated in the same step as the insert.

**BusReports.** `Compare` is what `submitReport` does between its two saves,
which runs without an await: the comparison with the map, its update and the
choice whether to notify. The map is kept per bus and notifications go to the room
of the report's route. `heard` and `astray` are history variables: what each room
was last told, which outlives a restart as the memory of those who read it, and
the rooms that may be out of step with the map: by a restart, a report on another
route, a save that failed or two that overlapped. Pushing a change to the room
alone takes it off the list.

**Alerts.** `fetch` is the fetch in progress with the body it holds. The remote
feed and its reachability are environment variables that change at any time.

**RouteColors.** Only what the colours of the snapshot depend on. A caller (a
request, a refresh or a retry) first calls TrueTime and is then in `waiting`;
`Answered` is everything it does after the answer, which runs without a further
await. `Kept` are the builds that become the snapshot: those of refreshes and of
`getAllTransitData`, not those of `getRoutes`. `gaveUp` is a history variable:
the last timer was stopped after its last attempt.

**FeedPoller.** `flights` has a second slot so that fetches *could* overlap; the
flags are what prevents it. Versions number the contents of the feed, so that
"older" is meaningful. `remembersTicks` says which poller it is: the GTFS pollers
note a tick that comes during a fetch, TripShot's drops it.

**TripShot** adds the clock and `lastFetched`. `BuildIndex` is a function of the
body and the clock at the time it was stored; the getters filter once more by the
present clock, and `Admits` and `FindCmuRouteIdByTripshotRouteId` translate
between CMU ids and UUIDs, of which two CMU ids may share one. `Offset` gives
Eastern time at each instant, with one of its two changes a year in the instance.

**GtfsService, CmuStaticData, Search.** The load is one step per event of its
stream: a row read, the end of the unzip process, of the parser, an error. The
queries are operators over the maps the load leaves, and the searches operators
over these, so their properties are invariants of the load. Texts are sequences
of words, and three constants say what the code knows about letters (stop words,
aliases, which word occurs within which). The lists that are searched are walked by
recursive functions (`Lists`, `RouteStops`) and the stops are sorted by a CHOOSE
among the sorted lists, rather than by the library's `SelectSeq`, folds and
`SetToSortSeq`, which the provers cannot unfold. A row of stop_times.txt may have no departure time,
which `timeToMinutes` makes NaN; comparisons with it (`Below`) are false.

**LiveSubscriptions.** A step is what runs between two answers. A request is
served and answered in two steps, so that answers cross. `channel[p]` is the
socket of a page with its emits under way; a page that is `orderly` did one thing
at a time and saw every answer, which is history for `OrderlyPagesAgree`.

**AccountPage.** The page's requests (`loads`, `patches`), the server's half of
them with the side effects in the order of the code (forced logout, events, room
moves), and the socket both ways. An answer may be lost although the write landed.
`orderly` and `doomed` are history: no write crossed a load, a save or another
write, no answer to a save was lost and no connection dropped; the names under which
an inactivation found the connected owner active.

**MapPage.** The page is a record, its synchronous functions are operators on it,
and each activation of an operation is a record in `flows` that says which await
it is at. `undisturbed` is history: the last operation ran alone.

**Panels.** `popups.windows` is a sequence because a popup can come up beside one
that the code believes closed; all have one element id, and the code reaches the
oldest. Each knows what it is about, whose arrivals it lists and what its buttons act
for. `AnswerFilter` is `applyRouteFilter` after its last request, of which several may
be under way; a request for arrivals that fails answers with none, as `getPredictions`
does. `bus` is `openPopupVehicleId` with its ticker, which may outlast the popup.
`overwritten` is history: how often an automatic minimize took a slot in use; so is
what a popup awaits of refreshes.

## 3. The runs

| Run | Instance | Shows |
|---|---|---|
| `accounts` | 2 accounts, 3 names, 2 profiles, 2 concurrent requests of 6 kinds | names stay unique; a write nobody overtook changes only what its requester may change; the last active Administrator is lost only by a request that another write overtook |
| `last_admin` (violation) | as above, no renames | two Administrators removed at once leave none |
| `subscriptions` | 2 members, 4 routes, limit 2, 2 requests | no duplicates, overshoot of the limit below the number of requests |
| `bus_reports` | 1 bus on 2 routes, 2 fields of 2 values, 2 requests | pushes are news; rooms know the status; both but for rooms led astray in one of four named ways |
| `alerts` | 3 feed contents | clients lag one fetch at most, and get the feed in the end |
| `feed_poller` | both pollers, 2 flights, 3 bodies, a clock of three hours around midnight | implements `FeedStore`; follows the feed; the answers about shuttles agree with each other and with the timetable |
| `route_colors` | 2 `getRoutes` requests, 1 bulk request, 3 retries | missing colours are reported and retried; the snapshot gets its colours in the end |
| `search` | 8 feeds of 3 trips, half with a row without a time, 3 dates of 4 hours, 8 queries | a loaded schedule is the feed's; its queries agree; so do the searches |
| `map_page` | a PRT and a CMU route, 3 operations, 2 at a time, 2 vehicle requests | an operation that runs alone leaves the map as chosen; overlaps leave no wrong stop markers, and no wrong vehicles for good |
| `panels` | 2 stops, 2 routes, 1 bus, 4 taps | minimized popups come back unless an automatic minimize overwrote them; arrivals are of their stop but for a race; directions serve their target and can be left |
| `live` | 2 pages, 2 routes, limit 1, 3 taps, 1 fault | rooms follow the browser's list over reconnects; a page that does one thing at a time agrees with the server |
| `account_page` | 2 accounts, 3 taps, 1 foreign write, 1 fault | an orderly page shows the stored account and is in its room, also after overlapping selections; an inactivation ends the session of every owner but a renamed one |

**Why the bounds are enough.** The races here are between two handlers: one
reads, the other writes, the first uses what it read. Two requests show them all;
the properties that depend on the number of requests (`OvershootIsBounded`,
`SingleFlight`) are proved for any number. Two accounts suffice to remove both
Administrators and to register, rename and demote in any order; three names let
a name be freed and taken by another account. Four routes against a limit of two
let a member exceed the limit and be refused afterwards. One bus suffices
because no step of a report reads another bus's state. Three feed contents
distinguish the new feed, the current one and the one before. Document ids in
`MCSubscriptions` (six) exceed the subscriptions that can exist at a time.
`MaxVersion` in `FeedPoller` ends the counting of versions; the three bodies of
the feed have rides of each state, with and without positions, times and vehicle
ids, around midnight and on the date of a change of Eastern time.
`RouteColors` has every kind of caller and two of the kind that is not kept;
three attempts have a first, a middle and a last one, where the code has twelve.
The dates of `search` have a calendar with added and removed services, and a trip
that runs past midnight; every order of its rows is read. On the pages, `MaxTaps`
and `MaxOperations` bound what the member does, not what the code does with it:
two operations overlap and a third starts from whatever they left, which is where
the properties ask; four taps open, minimize and replace popups of two stops and
leave a last one to restore or navigate. One foreign write and one dropped
connection can fall between any two steps of the others.

**Deadlock** is checked in every run but `live` and `account_page`, where the
bounds on taps and faults leave a quiet page with nothing to do.

**Fairness.** `Alerts`, `FeedPoller`, `RouteColors`, `MapPage` and `Panels` state
it, and only of what the runtime does: the start-up chain reaches `start()`, an
interval keeps firing (`Tick`, `RetryTick`, `DailyRefresh`, `PollVehicles`,
`Reroute`), a continuation whose promise has settled runs, and a request settles
(the pollers of `Alerts` and the GTFS feeds set no timeout of their own, but the
runtime's HTTP client gives up on headers and on bodies that do not come;
TripShot's poller and the TrueTime client set one, and browsers end requests too).
`RouteColors` assumes nothing of the start-up: `ColorsRecover` asks for recovery
only once the daily refresh is scheduled. Nothing is assumed of the remote feed,
the network or the member: the liveness properties ask for recovery only when the
servers stay reachable, and no fairness is given to `Stop`.

## 4. Findings

One run ends in a violation. `last_admin`: documents say that an active
Administrator always remains; `ensureNotLastAdmin` counts in one database call
and the handler writes in a later one, so two concurrent removals leave none
(`server/models/user.admin-rules.ts:25`). The run `accounts` shows what does
hold: the last one is lost only by a request that another write overtook.

Further differences between code and documents, met while modelling and kept in
the models as the code has them; no run of their own states them:

- *"A privilege change takes effect only next time the user logs into the app"*
  (`docs/UC/UC_ ManageAcct.md:58`, `docs/REST_API/REST_ManageAcct.md:121`): every
  handler reads the requester's stored privilege, so a change takes effect with
  the next request. `UndisturbedChangesFollowR3` speaks of the stored privilege.
- *"Administrators cannot change usernames"*, nor email addresses
  (`docs/REST_API/REST_ManageAcct.md:81`, `docs/UC/UC_ ManageAcct.md:53`): the
  handlers ask for the owner, whatever his privilege
  (`server/controllers/account.controller.ts:572`, `:618`), so an Administrator can
  rename himself.
- *"Only an Administrator can reactivate an account"*
  (`docs/REST_API/REST_ManageAcct.md:114`, `docs/UC/UC_ ManageAcct.md:71`):
  `updateStatus` lets an owner set either status, and no handler looks at the
  requester's own (`server/controllers/account.controller.ts:442`), so an
  inactive owner whose token is still valid reactivates himself.
- *"If a logged-in user is set to 'Inactive', they are logged out immediately"*
  (`docs/REST_API/REST_ManageAcct.md:112`, `:235`, `:256`,
  `docs/UC/UC_ ManageAcct.md:69`): `forceLogoutUser` compares the account's present
  name with that of the socket's token
  (`server/controllers/account.controller.ts:284`, `:488`), so an owner who was
  renamed since the login stays. `OnlyRenamedOwnersStay` says that this is the only
  way to stay.
- *A failed answer to a save* (`client/scripts/account.ts:566`): when the answer to a
  field is lost, or the email after the write fails, the write has landed and was
  announced; the save goes on from the account it had before and shows it, over the
  one from the event (`client/scripts/account.ts:1127`), until the next event. This is
  an exception of `OrderlyPageShowsTheAccount`; TLC shows it when `Answered` of
  `AccountPage` leaves `orderly` alone.
- *Leaving a room* (`server/app.ts:387`): a subscription awaits the account, its
  cancellation awaits nothing, so a page that moves on quickly may stay in the room of
  an account it has left; its events are ignored there, by name and id.
- *Limit of ten subscriptions* (`server/models/notification.model.ts:139`): same
  shape as above. `OvershootIsBounded` says by how much it can be exceeded.
- *Status map "rebuilt from latest reports on startup"*
  (`server/models/notification.model.ts:56`, likewise `:82`): `initialize` reads no
  report, so after a restart the first report of each field is announced once more
  to those who know it. `RoomsHearOnlyNews` names this as an exception; TLC shows
  it when `Restart` of `BusReports` leaves `astray` alone.
- *"Publish via Socket.io to the route's room"*
  (`server/controllers/notification.controller.ts:151`): the status map is kept per
  bus (`server/models/notification.model.ts:430`), so when a bus changes its route
  a report there that says nothing new is not announced, and subscribers of the new
  route are not told the status the server knows. This and an announcement whose
  save failed are exceptions of `RoomsKnowTheStatus`.
- *Changed alerts are pushed* (`server/services/alerts.service.ts:183`): a feed is
  compared with the one before the feed it replaces, so a change back (A, B, A) is
  not pushed. `ClientsLagOneFetch` says what clients do have.
- *Twelve attempts to get colours* (`server/models/transit.model.ts:617`): any
  successful build stops the retries, also one whose colours are not stored.
  `KeptBuildsLoseNoRetries` proves this to be the only cause: if every build were
  stored, default colours would always be retried.
- *"Only one full popup is visible at a time"*
  (`client/scripts/utils/map-popup.ts:6`): `_minimizeActive` docks a tab without
  removing the one its type has, and a popup that a route selection took away without
  unregistering it can be docked once more; `restorePopup` then brings a popup back
  beside one that is shown. The two have one element id, and what is meant for one is
  read from and written into the other. `ArrivalsNeedARace` covers any number of
  popups and names the three races by which one lists another stop's arrivals.
- *"Multiple minimized tabs can coexist"* (`client/scripts/utils/map-popup.ts:4`):
  of one type they cannot. The cache has one slot per type, which an automatic
  minimize overwrites (`client/scripts/utils/map-popup.ts:179`, `:251`): the popup
  docked before is lost, and its tab stays and brings back the other one or nothing.
  `MinimizedCanBeRestored` says that only this loses a popup whose tab is there.
- *A bus that is gone* (`client/scripts/trackers/vehicle-tracker.ts:338`):
  `openPopupVehicleId` is still set after the bus's popup was minimized or closed, so
  when the bus leaves the answers, `closeVehiclePopup` takes away the oldest popup,
  whatever it is about.
- *Joins "will be retried on reconnect"*
  (`client/scripts/components/live-notifications.ts:220`): a reconnect joins the
  rooms of the browser's list, which a failed first load leaves empty.
- *"Handles overnight routes"*
  (`server/services/tripshot-livestatus.service.ts:509`): a stop after midnight of
  a ride that started before it is put at the previous midnight, a day early.
  Likewise a time written past 24:00 makes the refresh fail as a
  whole, and on the two dates a year on which Eastern time changes the recovered
  time may be off by an hour. `ShuttlesKeepTheirTimetable` therefore speaks of
  rides on one date under one offset.
- *Searches*: a query of stop words only is answered differently by a strategy
  that drops stop words and by one that composes it with a filter; the transit
  search finds "ave" and "avenue" but not "aven", as aliases are whole words. `NotificationSearchStrategy` names route and vehicle ids
  among its criteria (`server/search/search-strategy.ts:214`), and looks at the
  message only.
  `SearchesAgree` states the agreement that is left.
- *Schedule*: a trip whose first row has no departure time keeps NaN for a range
  (`server/services/gtfs.service.ts:330`): it never runs, and one such trip makes both
  times of its direction NaN. `LoadedScheduleIsTrue` and `ScheduleAnswersAgree` name
  it as an exception. Trips of yesterday's service day that run past midnight are missed
  by the filter on date and time; a stream that ends early without an error
  counts as loaded when the parser's end overtakes the exit code.
- Without a caller: `SubscriptionSearchStrategy`, `getStopsByTsRouteId`,
  `FilterController.resetFilters`, and the socket's `searchAutocomplete`, which no
  script of the client emits.

## 5. The proofs

Every theorem is `Spec => [](...)` or `Spec => [][...]_vars` for all values of
the constants, from the named assumptions in the modules (finiteness of the sets
whose members are counted, a positive limit, null values outside the sets they
stand beside, which the proofs need only to tell "none" from "some").

- `AccountsProofs`: `IInv` adds to `TypeOK` and `UniqueUsernames` that a request
  nobody disturbed is still authorized (the checks of its earlier steps hold in
  the current collection), and that one past the administrator count still has
  another active Administrator to rely on. `UniqueUsernames` alone is not
  enough for the other two: they need that a name picks one account.
- `ServerDataProofs` is about `Subscriptions`, `RouteColors` and `Alerts`.
  - The overshoot bound needs `SavesAreCounted`: the subscriptions of a member
    *plus* the requests of his that are past the count stay below the limit plus
    the number of slots. A count step below the limit adds at most one such
    request, and an insert turns one of them into a subscription.
    `UnsubscribeIsComplete` is proved here and checked by no run.
  - For the colours the invariant adds `AttemptsAreLeft`, without which the count
    of attempts is not bounded: a set timer has attempts left unless its last one
    is under way. `KeptBuildsLoseNoRetries` is described under Findings.
  - `ClientsLagOneFetch` with the types is inductive.
- `NotificationProofs` is about two modules, `LiveSubscriptions` and
  `BusReports`.
  - `RoomsFollowTheList` speaks of pages with a connection; `Follows` adds that
    what a page without one has in its socket's buffer leads to no room it does
    not list, for it is sent before the connect handler asks for the list. The
    lemmas say what one more ask, a loop of asks and an ask that arrives do to
    `RoomsToBe`, for every length of the wire. The types include the server's limit.
  - `OrderlyPagesAgree` speaks of pages at rest. `OrderInv` says where an orderly
    page's only operation stands in between: it opens and has asked for what it
    does not know yet; or it awaits one write, and knows the server's list but
    for the route that this write is about, whose outcome depends on whether the
    server has run it; or it agrees. That no operation crosses it (`OneByOne`) is
    a statement about all requests under way, which are a sequence: the lemmas
    say what adding, replacing and removing one do to the set of them.
  - `RoomsHearOnlyNews` and `RoomsKnowTheStatus` need each other: a change is news
    to a room because the room knew the old status, and the push of it leaves the
    room with the new one. The latter needs `SoleAnnouncements`: to a room that is
    not astray at most one handler announces a field, and it announces the map's
    value; the former `UnknownIsUnheard`, for the fields the map does not know.
- `PollerProofs` is about `FeedPoller` and `TripShot`. The types, `SingleFlight`,
  and that no body in flight is older than the stored data give the step
  simulation of `FeedStore`; single flight is what makes the answer in flight the
  newest. Every behaviour of TripShot's poller is one of `FeedPoller`
  (`TripShotPolls`), which carries the types and the refinement over.
  `AnswersAlwaysAgree` and `TimetablesAreKept` need in addition that the index
  was built at an instant that is past (`IndexIsPast`), and facts about the
  arithmetic: that the shifted hour is read back, that a minimum of instants
  exists, that the clock does not go back. They hold for every offset function,
  timetable and feed that the named assumptions admit.
- `SearchProofs` is about `GtfsService` and `Search`. During the load
  every row read is in the four maps and the range of a trip's times is *tight*
  (some row attains each end), unless its first row had no time; nothing else is in them. Once the load has ended
  without an error and with all rows, this determines the maps: two ranges that
  bound the same times and are attained are equal, which turns "is in the range"
  into "is the smallest". `ScheduleAnswersAgree` then follows for every query.
  `FeedsAssumption` says what a feed is: finitely many rows about trips and stops
  that the other files declare. Every row's trip is known, as the loader of the
  code takes for granted too.

  `SearchesAgree` is proved for lists of any length, from what the searches do to
  lists. `AtIs`, `FlattenIs` and `RouteStopsIs` show that the recursive functions
  exist; by induction along the list (`Upwards`) a filter has the elements at its
  positions in their order (`AtKeepsOrder`), and a stop of a shuttle the least
  order of its rows (`RouteStopsAre`). A finite set of stops can be sorted, its
  first element being one of least order and then of least name (`FirstStop`,
  `SortedStops`), and the sorted list has all of them because an injection
  between sets of one size is onto (`StopsOfAShuttle`). Then `NarrowingNarrows` is
  an equation of sets; a suggestion is followed back to the report it was made
  from; and what is called by its id is in the filtered list, of which the answer
  either is the whole or as long as the limit (`FoundOrCrowdedOut`). The
  assumptions say that ids are no stop words, in either spelling (those of routes,
  stops and vehicles have digits or are no English words), and that no shuttle has
  the id of a route of the feed. Without the first a route would not be found by
  its id; without the second a route search, which looks at the feed alone, could
  miss it while the schedule loads.
- `AccountPageProofs`: the types include where each request under way stands.
  `DoomIsNear` says what is left of the side effects of an inactivation that found
  its owner connected under the token's name: the forced logout is queued, on the
  wire, or done. `OrderlyPageShowsTheAccount` speaks of pages at rest; in between,
  `OpensInOrder` and `StaysInOrder` say where the stored account can be found. While
  the owner moves between accounts (`Moving`) nothing is written, each load has the
  stored account or none, and the asks on their way lead to the room of the account
  on show (`Heading`: the last ask about it, or the room or a join with no leave to
  come). While the page follows writes (`Following`) the account is on the page, in
  the last event on its way, in the answer of the server, or in the request that has
  just been written; events about an account whose room the socket has stayed in
  change nothing (`EventsElsewhere`).
- `MapPageProofs`: every synchronous part of the controller is an operator, and
  gets three lemmas: what it returns is well typed, it adds no stop markers per
  direction but those of the selected route (`Keeps`), and, where it belongs to a
  selection or a deselection, it leads from one stage of it to the next
  (`Selecting`, `Restoring`: the await it is at, with all that is on the map by
  then). `DirectionalStopsFollowTheSelection` is inductive with the types because
  the answer about a route's metadata clears the map whoever runs; for
  `UndisturbedPageShowsTheChoice` the invariant says that the last operation, if
  it runs alone, is in one of its stages and every other slot is idle.

- `PanelsProofs`: each operation of `MapPopup` gets a lemma that says what it
  returns and that the tabs still fit the cache. A button runs a callback for each
  subject bound to it, by recursive functions; that these exist, and that what one
  callback keeps they all keep, follows from the well-foundedness of the numbers
  (`Upwards`: the first callback that broke it would have found it intact).
  `DirectionsServeTheTarget` is inductive with the types, as every exit and every
  new target clears or re-aims the request. For `ArrivalsNeedARace`, `Own` follows the
  arrivals through the cache: whoever can still write into a popup that lists arrivals,
  the stop that is polled and the refreshes under way, is the popup's own stop or noted
  with it, be it shown or cached, and be it the only popup or not.

A module about several components shares a file and nothing else: the theorems
about each use the definitions and the assumptions of that component alone.

Every invariant and every action property of the runs is the subject of a theorem.
Only model-checked are liveness under fairness (`ClientsGetTheFeed`,
`FollowsTheFeed`, `ColorsRecover`, `VehiclesFollowThePoll`,
`NavigationCanBeLeft`) and the absence of deadlock, which are out of the prover's
reach.

## 6. What is not modelled

Per component, with reasons, in `PROJECT.json` under `components`. In short:

- *Server*: login, token issue and account search (they write nothing); the flags for
  terms of service and onboarding, which no modelled request reads; wording
  of notifications, moderation and email (one call whose answer changes no step);
  decoding of feeds (a GTFS-realtime body is one value); two spellings of one
  vehicle id; detours, nearby stops and `clearCache` in the transit model; the
  fallbacks of the transit controllers, which are stateless; shapes and shuttle
  polylines; warm-up of TripShot's metadata and its index of stops, which nobody
  reads; the TrueTime client, which is the environment of `RouteColors`; user
  search; input validation (models start from requests that passed it); memory
  monitoring; the start-up chain as such; and the development mode in which
  `init()` drops collections and their indexes. Accounts are never deleted, in
  the code either.
- *Client*: the date and time filter, `clearRouteFilter` and the URL's state; the
  subscribe button inside a route popup; the administrators' list of names with
  its `usernameChanged` and `userCreated` events; the debounced validation of
  account fields; onboarding; the login and registration forms; the notification
  search page; pickers, layout and Google's map calls.

## 7. Plan

1. `Lifecycle`: the start-up chain against close, over the pollers.
2. `MapPage`: the date and time filter and the URL's state, whose answers race
   with those of the route filter; the subscribe button of the route popup, as a
   third writer of the list in `LiveSubscriptions`.
3. `AccountPage`: the debounced checks of fields against saves; the forms of
   `auth.ts`; the administrators' list.
4. Proofs: the existence of the recursive functions, now shown for each of them in
   the same way, once a backend can instantiate the library's theorem about
   recursive definitions.
