------------------------------ MODULE BusReports ------------------------------
(***************************************************************************)
(* Bus reports (NotificationModel.submitReport): a report is stored, then  *)
(* compared with the last known status of its bus, an in-memory map, and   *)
(* each field that differs is announced in a notification that is saved    *)
(* and then pushed to the room of the report's route.  The comparison and  *)
(* the update of the map run without an await between them; the two saves  *)
(* around them are awaits, so handlers of one bus overlap and their saves  *)
(* may end in any order, or fail.  A restart empties the map, but not the  *)
(* memory of those who have read the notifications.                        *)
(*                                                                         *)
(* The map is kept by bus and the rooms by route: a bus that serves one    *)
(* route after another has one status and several rooms.                   *)
(*                                                                         *)
(* Left out: the text of a notification with the moderated comment in it,  *)
(* the stored reports, which nothing reads, and NotificationModel's        *)
(* initialize(), which sets a flag that only itself reads.                 *)
(***************************************************************************)
EXTENDS Naturals, FiniteSets

CONSTANTS
  Vids,      \* vehicle ids, as reports spell them
  RouteIds,    \* routes with a live vehicle to report on
  Fields,    \* crowdedness, prioritySeating, condition
  Values,    \* the answers a field may have
  Skipped,   \* no answer; in the map: not known
  Requests   \* slots for reports that are being handled concurrently

ASSUME SkippedAssumption == Skipped \notin Values

Status == [Fields -> Values \cup {Skipped}]

NothingKnown == [f \in Fields |-> Skipped]

VARIABLES
  lastKnown,    \* the map lastKnownStatus: Vids -> Status
  pc,           \* the call each report's handler awaits
  report,       \* the report each handler is about
  changed,      \* the handler's changedFields
  heard,        \* history: per room and bus, the answers last pushed
  astray        \* history: <<route, vid, field>> that may be out of step

reportsVars == <<lastKnown, pc, report, changed, heard, astray>>

history == <<heard, astray>>

-----------------------------------------------------------------------------

Report == [vid : Vids, routeId : RouteIds, answers : Status]

NoReport == [vid |-> Skipped, routeId |-> Skipped, answers |-> NothingKnown]

HandlerPoints == {"idle", "checks", "saveReport", "saveNotification"}

ReportsTypeOK ==
  /\ lastKnown \in [Vids -> Status]
  /\ pc \in [Requests -> HandlerPoints]
  /\ report \in [Requests -> Report \cup {NoReport}]
  /\ \A r \in Requests : pc[r] # "idle" => report[r] \in Report
  /\ changed \in [Requests -> SUBSET Fields]
  /\ heard \in [RouteIds -> [Vids -> Status]]
  /\ astray \subseteq RouteIds \X Vids \X Fields

\* The fields a report answers, or a status knows.
Answered(answers) == {f \in Fields : answers[f] # Skipped}

\* Mutants: the report replaces the status, forgetting what it leaves out; and
\* the status has only the fields that were answered.
MergeForgetting(status, answers) == answers
MergeDropping(status, answers) == [f \in Answered(answers) |-> answers[f]]

\* updateLastKnownStatus: answers win, skipped fields keep what was known.
Merge(status, answers) ==
  [f \in Fields |-> IF answers[f] # Skipped THEN answers[f] ELSE status[f]]

\* determineChangedFields
ChangedFields(answers, status) == {f \in Answered(answers) : answers[f] # status[f]}

-----------------------------------------------------------------------------

GoTo(r, point) == pc' = [pc EXCEPT ![r] = point]

\* The handler of r ends.
End(r) == GoTo(r, "idle") /\ report' = [report EXCEPT ![r] = NoReport]

ReportsInit ==
  /\ lastKnown = [v \in Vids |-> NothingKnown]
  /\ pc = [r \in Requests |-> "idle"]
  /\ report = [r \in Requests |-> NoReport]
  /\ changed = [r \in Requests |-> {}]
  /\ heard = [p \in RouteIds |-> [v \in Vids |-> NothingKnown]]
  /\ astray = {}

\* A valid report arrives; one with a comment only answers no field.
Receive(r) ==
  /\ pc[r] = "idle"
  /\ \E rep \in Report : report' = [report EXCEPT ![r] = rep]
  /\ GoTo(r, "checks")
  /\ UNCHANGED <<lastKnown, changed, history>>

\* The requester, the live vehicles of the route and the moderation of the
\* comment are awaited; VehicleNotFound or ProximityViolation ends the request.
Check(r) ==
  /\ pc[r] = "checks"
  /\ \/ GoTo(r, "saveReport") /\ UNCHANGED report
     \/ End(r)
  /\ UNCHANGED <<lastKnown, changed, history>>

\* The handler of r is about to push field f of a bus to a room.
Announcing(r, route, vid, f) ==
  report[r].routeId = route /\ report[r].vid = vid /\ f \in changed[r]

\* History of a change to `fields` of a bus that r will announce: the rooms of
\* other routes do not hear of it, and a room to which another handler is still
\* announcing an earlier value may hear the two in either order.
RecordChange(r, fields) ==
  LET vid     == report[r].vid
      unaware == (RouteIds \ {report[r].routeId}) \X {vid} \X fields
      racing  == {x \in {report[r].routeId} \X {vid} \X fields :
                    \E q \in Requests : Announcing(q, x[1], x[2], x[3])}
  IN astray' = astray \cup unaware \cup racing /\ UNCHANGED heard

\* Back from the insert: compare with the map, update it, prepare a notification.
Compare(r) ==
  LET vid     == report[r].vid
      answers == report[r].answers
      fields  == ChangedFields(answers, lastKnown[vid])
  IN
  /\ lastKnown' = [lastKnown EXCEPT ![vid] = Merge(@, answers)]
  /\ \/ fields = {} /\ End(r) /\ UNCHANGED <<changed, history>>
     \/ /\ fields # {}
        /\ changed' = [changed EXCEPT ![r] = fields]
        /\ GoTo(r, "saveNotification")
        /\ RecordChange(r, fields)
        /\ UNCHANGED report

\* The insert of the report succeeds, or fails and the handler ends.
SaveReport(r) ==
  /\ pc[r] = "saveReport"
  /\ \/ Compare(r)
     \/ End(r) /\ UNCHANGED <<lastKnown, changed, history>>

\* Mutant: the notification leaves out all but one of the changed fields.
PushFirstFieldOnly(r) ==
  LET first == CHOOSE f \in changed[r] : TRUE
  IN heard' = [heard EXCEPT ![report[r].routeId][report[r].vid][first] =
                 report[r].answers[first]]

\* saveNotification succeeded: the changed fields are pushed to the room.
Push(r) ==
  heard' = [heard EXCEPT ![report[r].routeId][report[r].vid] =
    [f \in Fields |-> IF f \in changed[r] THEN report[r].answers[f] ELSE @[f]]]

\* History of a push: the room knows the status again, if what it heard is what
\* the map says and no other handler is announcing the field to it.
RecordPush(r) ==
  astray' = astray \ {x \in astray :
    /\ Announcing(r, x[1], x[2], x[3])
    /\ report[r].answers[x[3]] = lastKnown[x[2]][x[3]]
    /\ \A q \in Requests \ {r} : ~Announcing(q, x[1], x[2], x[3])}

\* History of a save that failed: the map keeps the change, the room never
\* hears of it.
RecordLoss(r) ==
  /\ astray' = astray \cup ({report[r].routeId} \X {report[r].vid} \X changed[r])
  /\ UNCHANGED heard

\* If the save fails the handler ends, and the map keeps the change.
SaveNotification(r) ==
  /\ pc[r] = "saveNotification"
  /\ \/ Push(r) /\ RecordPush(r)
     \/ RecordLoss(r)
  /\ changed' = [changed EXCEPT ![r] = {}]
  /\ End(r)
  /\ UNCHANGED lastKnown

\* The process dies and starts again with an empty map; nothing rebuilds it
\* from the reports.  What a room has heard may be announced to it once more.
Restart ==
  /\ lastKnown' = [v \in Vids |-> NothingKnown]
  /\ pc' = [r \in Requests |-> "idle"]
  /\ report' = [r \in Requests |-> NoReport]
  /\ changed' = [r \in Requests |-> {}]
  /\ astray' = {x \in RouteIds \X Vids \X Fields : heard[x[1]][x[2]][x[3]] # Skipped}
  /\ UNCHANGED heard

Handle(r) == Receive(r) \/ Check(r) \/ SaveReport(r) \/ SaveNotification(r)

ReportsNext == (\E r \in Requests : Handle(r)) \/ Restart

ReportsSpec == ReportsInit /\ [][ReportsNext]_reportsVars

-----------------------------------------------------------------------------
(* Properties *)

\* A18: what is about to be pushed to a room is news there, whatever the
\* interleaving of reports.  A room may hear what it has heard before only where
\* it is astray: once per field after a restart, which empties the map; after
\* the bus was reported on another route; after an announcement that was not
\* saved; or while two announcements of the field were under way together.
RoomsHearOnlyNews ==
  \A r \in Requests : \A p \in RouteIds, v \in Vids, f \in Fields :
    Announcing(r, p, v, f) =>
      \/ heard[p][v][f] # report[r].answers[f]
      \/ <<p, v, f>> \in astray

\* R6: the room of a route is told of the status the server knows.  If the last
\* it heard of a field is something else, then its announcement is under way,
\* or the room is astray: the change was reported on another route, its save
\* failed, the older of two announcements may come last, or the server has
\* restarted; and it stays so until a change of the field is pushed to it alone.
RoomsKnowTheStatus ==
  \A p \in RouteIds, v \in Vids : \A f \in Answered(lastKnown[v]) :
    \/ heard[p][v][f] = lastKnown[v][f]
    \/ \E r \in Requests : /\ Announcing(r, p, v, f)
                           /\ report[r].answers[f] = lastKnown[v][f]
    \/ <<p, v, f>> \in astray
=============================================================================
