------------------------------ MODULE AccountPage ------------------------------
(***************************************************************************)
(* One account page (account.ts) with its socket, and the half of          *)
(* account.controller.ts and app.ts that talks to it: the account rooms,   *)
(* the accountUpdated events and the forced logout that follow a write.    *)
(* The page's owner is a member or an administrator, who may look at other *)
(* accounts; other sessions write the same accounts.  "details" stands for *)
(* the email, the password and the privilege level.  Accounts models the   *)
(* rules that refuse a write: here a write may be refused for no reason.   *)
(***************************************************************************)
EXTENDS Naturals, SequencesExt

CONSTANTS
  Ids, Me,   \* the accounts; the page's owner
  FirstName, \* the name each account starts with
  NewName,   \* the name a rename asks for
  MaxTaps, MaxWrites, MaxFaults \* bound the user, the other sessions, the network

ASSUME AccountPageAssumption ==
  /\ Me \in Ids /\ NewName \notin {FirstName[i] : i \in Ids}
  /\ \A i, j \in Ids : i # j => FirstName[i] # FirstName[j]
  /\ MaxTaps \in Nat /\ MaxWrites \in Nat /\ MaxFaults \in Nat

Names    == {FirstName[i] : i \in Ids} \cup {NewName}
Statuses == {"Active", "Inactive"}
Details  == {"these", "those"}
Fields   == {"name", "details", "status"}
Account  == [id : Ids, name : Names, status : Statuses, details : Details]
Form     == [name : Names, status : Statuses, details : Details]

None    == [id |-> "none"]
NoName  == "no name"
Maybe   == Account \cup {None}

VARIABLES
  accounts, \* the users collection
  admin,    \* whether the owner is an administrator
  token,    \* the name in the owner's token: the one of the login
  page, loads, patches,               \* the page, its GETs, everybody's PATCHes
  connected, up, joining, rooms, down, \* the page's socket, both ways
  orderly, doomed,                    \* history, see the properties
  taps, writes, faults

socket   == <<connected, up, joining, rooms, down>>
counters == <<taps, writes, faults>>
vars     == <<accounts, admin, token, page, loads, patches, socket, orderly, doomed, counters>>

Page  == [stage : {"opening", "ready", "out"}, current : Maybe, viewing : Maybe,
          editing : BOOLEAN, savable : BOOLEAN, form : Form \cup {None},
          confirm : Names \cup {NoName, "viewing"}]
Load  == [kind : {"open", "users", "select"}, name : Names,
          step : {"sent", "served"}, account : Maybe]
Patch == [by : {"save", "toggle", "confirm", "others"}, name : Names, field : Fields,
          value : Names \cup Statuses \cup Details,
          step : {"sent", "read", "written", "answered"}, seen : Statuses,
          account : Maybe, base : Maybe, left : Seq(Fields), failed : BOOLEAN, own : BOOLEAN]
Event == [event : {"accountUpdated", "forceLogout"}, account : Account]
Ask   == [event : {"subscribeAccount", "unsubscribeAccount"}, name : Names]

TypeOK ==
  /\ accounts \in [Ids -> Account]
  /\ \A i, j \in Ids : i # j => accounts[i].name # accounts[j].name
  /\ admin \in BOOLEAN /\ token \in Names
  /\ page \in Page
  /\ page.stage = "ready" => page.current # None /\ page.viewing # None
  /\ page.editing => page.stage = "ready" /\ page.form # None
  /\ loads \in Seq(Load) /\ patches \in Seq(Patch)
  /\ connected \in BOOLEAN /\ up \in Seq(Ask) /\ joining \in Seq(Names)
  /\ rooms \subseteq Names /\ down \in Seq(Event)
  /\ orderly \in BOOLEAN /\ doomed \subseteq Names
  /\ taps \in 0..MaxTaps /\ writes \in 0..MaxWrites /\ faults \in 0..MaxFaults

Opening(name) ==
  <<[kind |-> "open", name |-> name, step |-> "sent", account |-> None]>>

Closed == [stage |-> "opening", current |-> None, viewing |-> None, editing |-> FALSE,
           savable |-> FALSE, form |-> None, confirm |-> NoName]

\* The owner may have changed names since the login.
Init ==
  /\ accounts = [i \in Ids |-> [id |-> i, name |-> FirstName[i], status |-> "Active", details |-> "these"]]
  /\ admin \in BOOLEAN /\ token \in {FirstName[Me], NewName}
  /\ page = Closed /\ loads = Opening(FirstName[Me]) /\ patches = <<>>
  /\ connected = FALSE /\ up = <<>> /\ joining = <<>> /\ rooms = {} /\ down = <<>>
  /\ orderly = (token = FirstName[Me]) /\ doomed = {}
  /\ taps = 0 /\ writes = 0 /\ faults = 0

Named(name) == {i \in Ids : accounts[i].name = name}

Quiet == patches = <<>> /\ loads = <<>> /\ up = <<>> /\ joining = <<>> /\ down = <<>>

-----------------------------------------------------------------------------
(* The server's requests *)

\* getUserAccount of the controller.
ServeLoad(n) ==
  LET l == loads[n]
      allowed == admin \/ accounts[Me].name = l.name
      found   == IF allowed /\ Named(l.name) # {}
                 THEN accounts[CHOOSE i \in Named(l.name) : TRUE] ELSE None
  IN /\ l.step = "sent"
     /\ loads' = [loads EXCEPT ![n].step = "served", ![n].account = found]
     /\ UNCHANGED <<accounts, admin, token, page, patches, socket, orderly, doomed, counters>>

Advance(n, p) == patches' = [patches EXCEPT ![n] = p]

Refused(p) == [p EXCEPT !.step = "answered"]

\* updateStatus reads the account for its status before it writes.
ReadStatus(n) ==
  LET p == patches[n] IN
  /\ p.step = "sent" /\ p.field = "status"
  /\ \/ Advance(n, Refused(p))
     \/ \E i \in Named(p.name) : Advance(n, [p EXCEPT !.step = "read", !.seen = accounts[i].status])
  /\ UNCHANGED <<accounts, admin, token, page, loads, socket, orderly, doomed, counters>>

Inactivates(p) == p.field = "status" /\ p.seen = "Active" /\ p.value = "Inactive"

\* Mutant: a rename may take a name that is taken.
FitsAnything(p) == TRUE

\* The unique index on the names.
Fits(p) == p.field = "name" => Named(p.value) = {}

Write(n) ==
  LET p == patches[n] IN
  /\ p.step = (IF p.field = "status" THEN "read" ELSE "sent")
  /\ \/ /\ Advance(n, Refused(p))
        /\ UNCHANGED <<accounts, doomed>>
     \/ \E i \in Named(p.name) :
          /\ Fits(p)
          /\ accounts' = [accounts EXCEPT ![i][p.field] = p.value]
          /\ Advance(n, [p EXCEPT !.step = "written", !.account = accounts'[i]])
          /\ doomed' = doomed \cup (IF Inactivates(p) /\ i = Me /\ connected /\ page.stage # "out"
                                    THEN {accounts[i].name} ELSE {})
  /\ UNCHANGED <<admin, token, page, loads, socket, orderly, counters>>

-----------------------------------------------------------------------------
(* The events that follow a write *)

Updated(name, a) == IF name \in rooms THEN <<[event |-> "accountUpdated", account |-> a]>> ELSE <<>>

\* Mutant: the sockets in the account's room are told.
ForcedLogoutOfTheRoom(p) ==
  IF Inactivates(p) /\ p.account.name \in rooms /\ token = p.account.name
  THEN <<[event |-> "forceLogout", account |-> p.account]>> ELSE <<>>

\* forceLogoutUser: every socket whose token carries the account's name.
ForcedLogout(p) ==
  IF Inactivates(p) /\ connected /\ token = p.account.name
  THEN <<[event |-> "forceLogout", account |-> p.account]>> ELSE <<>>

\* Mutant: the sockets stay in the room of the old name.
StayInRoom(old, new) == rooms' = rooms

MoveSocketsToRoom(old, new) ==
  rooms' = IF old \in rooms THEN (rooms \ {old}) \cup {new} ELSE rooms

\* The handler answers with the account; or the email that it sends fails it, or
\* the answer is lost, and patchAccount says 500 of a write that has landed.  The
\* page's own save then goes on from the account it had before the write.
Answered(n) ==
  LET p == patches[n] IN
  \/ /\ Advance(n, [p EXCEPT !.step = "answered"])
     /\ UNCHANGED <<orderly, faults>>
  \/ /\ faults < MaxFaults /\ faults' = faults + 1
     /\ Advance(n, [p EXCEPT !.step = "answered", !.account = None])
     /\ orderly' = (orderly /\ p.by # "save")

\* The handlers end in the order their writes' answers came back, or another.
Announce(n) ==
  LET p == patches[n] IN
  /\ p.step = "written"
  /\ IF p.field = "name"
     THEN /\ down' = down \o Updated(p.name, p.account)
          /\ MoveSocketsToRoom(p.name, p.account.name)
     ELSE /\ down' = down \o Updated(p.account.name, p.account) \o ForcedLogout(p)
          /\ UNCHANGED rooms
  /\ Answered(n)
  /\ UNCHANGED <<accounts, admin, token, page, loads, connected, up, joining, doomed, taps, writes>>

-----------------------------------------------------------------------------
(* The socket *)

Connect ==
  /\ ~connected /\ page.stage # "out"
  /\ connected' = TRUE
  /\ UNCHANGED <<accounts, admin, token, page, loads, patches, up, joining, rooms, down,
                 orderly, doomed, counters>>

\* A connection that comes back is in no room, and the page does not ask again.
Drop ==
  /\ connected
  /\ faults < MaxFaults /\ faults' = faults + 1
  /\ connected' = FALSE /\ up' = <<>> /\ joining' = <<>> /\ rooms' = {} /\ down' = <<>>
  /\ orderly' = FALSE /\ doomed' = {}
  /\ UNCHANGED <<accounts, admin, token, page, loads, patches, taps, writes>>

\* subscribeAccount awaits the account of the token's name; unsubscribeAccount awaits nothing.
Receive ==
  /\ connected /\ up # <<>>
  /\ up' = Tail(up)
  /\ IF Head(up).event = "subscribeAccount"
     THEN joining' = Append(joining, Head(up).name) /\ UNCHANGED rooms
     ELSE rooms' = rooms \ {Head(up).name} /\ UNCHANGED joining
  /\ UNCHANGED <<accounts, admin, token, page, loads, patches, connected, down, orderly,
                 doomed, counters>>

MayJoin(name) == \E i \in Named(token) : (i = Me /\ admin) \/ token = name

JoinRoom(n) ==
  /\ joining' = RemoveAt(joining, n)
  /\ rooms' = rooms \cup {m \in {joining[n]} : MayJoin(m)}
  /\ UNCHANGED <<accounts, admin, token, page, loads, patches, connected, up, down, orderly,
                 doomed, counters>>

\* The page leaves for /auth: its socket closes and its answers come to nobody.
Leave ==
  /\ page' = [Closed EXCEPT !.stage = "out"]
  /\ loads' = <<>>
  /\ connected' = FALSE /\ up' = <<>> /\ joining' = <<>> /\ rooms' = {} /\ down' = <<>>

\* Mutant: an update counts only under the name that is shown.
ShownByName(a, shown) == shown # None /\ a.name = shown.name

\* The account on show was updated: under its name or, after a rename, its _id.
Shown(a, shown) == shown # None /\ (a.name = shown.name \/ a.id = shown.id)

HandleEvent ==
  LET a == Head(down).account IN
  /\ down # <<>> /\ connected
  /\ IF Head(down).event = "forceLogout" THEN Leave
     ELSE /\ page' = [page EXCEPT
               !.viewing = IF Shown(a, @) THEN a ELSE @,
               !.current = IF @ # None /\ a.id = @.id THEN a ELSE @]
          /\ down' = Tail(down)
          /\ UNCHANGED <<loads, connected, up, joining, rooms>>
  /\ UNCHANGED <<accounts, admin, token, patches, orderly, doomed, counters>>

-----------------------------------------------------------------------------
(* Looking at an account *)

Subscribe(name)   == <<[event |-> "subscribeAccount", name |-> name]>>
Unsubscribe(name) == <<[event |-> "unsubscribeAccount", name |-> name]>>

IsOwn == page.viewing.name = page.current.name

Tap == taps < MaxTaps /\ taps' = taps + 1 /\ UNCHANGED <<accounts, admin, token, doomed, writes, faults>>

Crossing == orderly' = (orderly /\ Quiet)

\* loadAccount of an account of the list, also while others are loading.  A token
\* of an old name joins no room.
Select(name) ==
  /\ page.stage = "ready" /\ admin /\ Named(name) # {}
  /\ Tap
  /\ loads' = Append(loads, [kind |-> "select", name |-> name, step |-> "sent", account |-> None])
  /\ orderly' = (orderly /\ patches = <<>> /\ down = <<>> /\ token = accounts[Me].name)
  /\ UNCHANGED <<page, patches, socket>>

MoveOn(a) == up' = up \o Unsubscribe(page.viewing.name) \o Subscribe(a.name)

\* Start-up: an administrator's page fetches the list of names before it subscribes.
Loaded(n) ==
  LET l == loads[n] IN
  /\ l.step = "served"
  /\ \/ /\ l.kind = "open" /\ l.account # None
        /\ page' = [page EXCEPT !.current = l.account, !.viewing = l.account,
                                !.stage = IF admin THEN "opening" ELSE "ready"]
        /\ up' = IF admin THEN up ELSE up \o Subscribe(l.account.name)
        /\ loads' = IF admin THEN [loads EXCEPT ![n].kind = "users"] ELSE RemoveAt(loads, n)
     \/ /\ l.kind = "users"
        /\ page' = [page EXCEPT !.stage = "ready"]
        /\ up' = up \o Subscribe(page.current.name)
        /\ loads' = RemoveAt(loads, n)
     \/ /\ l.kind = "select" /\ l.account # None
        /\ page' = [page EXCEPT !.viewing = l.account, !.editing = FALSE]
        /\ MoveOn(l.account)
        /\ loads' = RemoveAt(loads, n)
     \/ /\ l.account = None
        /\ loads' = RemoveAt(loads, n)
        /\ UNCHANGED <<page, up>>
  /\ UNCHANGED <<accounts, admin, token, patches, connected, joining, rooms, down, orderly,
                 doomed, counters>>

-----------------------------------------------------------------------------
(* Saving *)

Begun(by, name, field, value) ==
  [by |-> by, name |-> name, field |-> field, value |-> value, step |-> "sent",
   seen |-> "Active", account |-> None, base |-> None, left |-> <<>>, failed |-> FALSE, own |-> FALSE]

\* Edit, and what the user types before saving.
Edit ==
  /\ page.stage = "ready" /\ ~page.editing
  /\ Tap
  /\ \E f \in Form :
       /\ f.name \in {page.viewing.name} \cup (IF IsOwn THEN {NewName} ELSE {})
       /\ ~admin => f.status = page.viewing.status
       /\ page' = [page EXCEPT !.editing = TRUE, !.savable = TRUE, !.form = f]
  /\ UNCHANGED <<loads, patches, socket, orderly>>

Cancel ==
  /\ page.editing
  /\ Tap
  /\ page' = [page EXCEPT !.editing = FALSE]
  /\ UNCHANGED <<loads, patches, socket, orderly>>

\* The fields a save sends, in the order it sends them.
FieldsToSave == (IF admin /\ ~IsOwn THEN <<>> ELSE <<"name">>) \o <<"details">>
                  \o (IF admin THEN <<"status">> ELSE <<>>)

\* The rest of handleSave: the fields are read from the form as it is by now.
\* An administrator's own inactivation is left to the confirmation dialog.
Resume(pg, base, left, failed, own, others) ==
  LET changed     == {i \in DOMAIN left : pg.form[left[i]] # base[left[i]]}
      deferred(f) == f = "status" /\ own /\ pg.form.status = "Inactive"
  IN \/ /\ changed = {}
        /\ page' = [pg EXCEPT !.viewing = base, !.editing = @ /\ failed, !.savable = TRUE]
        /\ patches' = others
     \/ \E i \in changed :
          /\ \A j \in changed : i <= j
          /\ IF deferred(left[i])
             THEN /\ page' = [pg EXCEPT !.viewing = base, !.savable = TRUE, !.confirm = base.name]
                  /\ patches' = others
             ELSE /\ page' = pg
                  /\ patches' = Append(others,
                       [Begun("save", base.name, left[i], pg.form[left[i]]) EXCEPT !.base = base,
                          !.left = SubSeq(left, i + 1, Len(left)), !.failed = failed, !.own = own])

Save ==
  /\ page.editing /\ page.savable
  /\ Tap
  /\ Resume([page EXCEPT !.savable = FALSE], page.viewing, FieldsToSave, FALSE, IsOwn, patches)
  /\ Crossing
  /\ UNCHANGED <<loads, socket>>

\* Mutant: the save goes on with the account it started from.
SavedKeepingBase(p) == p.base

SavedSoFar(p) == IF p.account = None THEN p.base ELSE p.account

SaveAnswered(n) ==
  LET p == patches[n] IN
  /\ p.by = "save"
  /\ Resume(page, SavedSoFar(p), p.left, p.failed \/ p.account = None, p.own,
            RemoveAt(patches, n))
  /\ UNCHANGED <<loads, socket>>

-----------------------------------------------------------------------------
(* The status toggle of a member, and the confirmation dialog *)

Toggle ==
  /\ page.stage = "ready" /\ ~admin
  /\ Tap
  /\ Crossing
  /\ IF page.viewing.status = "Active"
     THEN page' = [page EXCEPT !.confirm = "viewing"] /\ UNCHANGED patches
     ELSE /\ patches' = Append(patches, Begun("toggle", page.viewing.name, "status", "Active"))
          /\ UNCHANGED page
  /\ UNCHANGED <<loads, socket>>

Confirm ==
  /\ page.confirm # NoName
  /\ Tap
  /\ Crossing
  /\ LET name == IF page.confirm = "viewing" THEN page.viewing.name ELSE page.confirm IN
     patches' = Append(patches, Begun("confirm", name, "status", "Inactive"))
  /\ page' = [page EXCEPT !.confirm = NoName]
  /\ UNCHANGED <<loads, socket>>

Decline ==
  /\ page.confirm # NoName
  /\ Tap
  /\ page' = [page EXCEPT !.confirm = NoName]
  /\ UNCHANGED <<loads, patches, socket, orderly>>

ToggleAnswered(n) ==
  LET p == patches[n] IN
  /\ p.by = "toggle"
  /\ page' = IF p.account = None THEN page ELSE [page EXCEPT !.viewing = p.account]
  /\ patches' = RemoveAt(patches, n)
  /\ UNCHANGED <<loads, socket>>

\* handleLogout once the owner's own inactivation succeeded.
ConfirmAnswered(n) ==
  LET p == patches[n] IN
  /\ p.by = "confirm"
  /\ patches' = RemoveAt(patches, n)
  /\ IF p.account = None THEN UNCHANGED <<page, loads, socket>> ELSE Leave

OthersAnswered(n) ==
  /\ patches[n].by = "others"
  /\ patches' = RemoveAt(patches, n)
  /\ UNCHANGED <<page, loads, socket>>

\* The answers to the requests of a page that has gone come to nobody.
Answer(n) ==
  /\ patches[n].step = "answered"
  /\ IF page.stage = "out"
     THEN patches' = RemoveAt(patches, n) /\ UNCHANGED <<page, loads, socket>>
     ELSE SaveAnswered(n) \/ ToggleAnswered(n) \/ ConfirmAnswered(n) \/ OthersAnswered(n)
  /\ UNCHANGED <<accounts, admin, token, orderly, doomed, counters>>

-----------------------------------------------------------------------------
(* The other sessions *)

OthersPatch(i) ==
  /\ writes < MaxWrites /\ writes' = writes + 1
  /\ \E f \in Fields :
     \E v \in CASE f = "name" -> {NewName} [] f = "status" -> Statuses [] OTHER -> Details :
       patches' = Append(patches, Begun("others", accounts[i].name, f, v))
  /\ Crossing
  /\ UNCHANGED <<accounts, admin, token, page, loads, socket, doomed, taps, faults>>

-----------------------------------------------------------------------------
Next ==
  \/ \E n \in DOMAIN loads : ServeLoad(n) \/ Loaded(n)
  \/ \E n \in DOMAIN patches : ReadStatus(n) \/ Write(n) \/ Announce(n) \/ Answer(n)
  \/ Connect \/ Drop \/ Receive \/ HandleEvent
  \/ \E n \in DOMAIN joining : JoinRoom(n)
  \/ \E name \in Names : Select(name)
  \/ Edit \/ Cancel \/ Save \/ Toggle \/ Confirm \/ Decline
  \/ \E i \in Ids : OthersPatch(i)

Spec == Init /\ [][Next]_vars

-----------------------------------------------------------------------------
(* Properties *)

\* However the member's own selections overlap: where no write crossed a load, a
\* save or another write, no answer of a save was lost and no connection dropped,
\* the page shows the account as it is stored, and its socket is in that account's
\* room, also after renames (account.ts:1144, app.ts:387).
OrderlyPageShowsTheAccount ==
  orderly /\ Quiet /\ connected /\ page.stage = "ready" =>
    /\ page.viewing = accounts[page.viewing.id]
    /\ page.viewing.name \in rooms

\* A page that stays in its session although its owner was found active and was
\* inactivated while it was connected has an owner who then bore another name
\* than at the login; no room it is in, no connection of the events and no other
\* write makes a forced logout miss it (account.controller.ts:278, :488).
OnlyRenamedOwnersStay ==
  Quiet /\ page.stage # "out" => token \notin doomed
=============================================================================
