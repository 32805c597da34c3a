------------------------------- MODULE Accounts -------------------------------
(***************************************************************************)
(* The user accounts of the server: the MongoDB collection, and the        *)
(* handlers of account.controller.ts, auth.controller.ts and user.model.ts *)
(* that change it.  Each handler is an async function; between two awaits  *)
(* Node runs other handlers, so a handler is a process (one per slot of    *)
(* Requests) whose steps are its database round trips.  What a handler     *)
(* read in one step may no longer hold in the next.                        *)
(*                                                                         *)
(* `disturbed` is a history variable: it tells the properties whether some *)
(* other writer changed the collection while a request was being handled. *)
(* No action's guard reads it.                                             *)
(***************************************************************************)
EXTENDS Naturals, FiniteSets

CONSTANTS
  UserIds,      \* immutable _id values; their number bounds the accounts
  Usernames,    \* lower-cased usernames, every one of them well-formed
  DefaultAdmin, \* the username 'admin' of the seeded Administrator
  Profiles,     \* values of the fields only their owner reads (email, password)
  Kinds,        \* the kinds of requests clients send (all six in the code)
  Requests,     \* slots for requests that are being handled concurrently
  NoAccount     \* the _id is in no document of the collection

Statuses   == {"Active", "Inactive"}

\* "Member" stands for Coordinator too: the handlers tell only Administrator apart.
Privileges == {"Administrator", "Member"}

Account == [username : Usernames, status : Statuses,
            privilege : Privileges, profile : Profiles]

ASSUME DefaultAdminAssumption == DefaultAdmin \in Usernames
ASSUME NoAccountAssumption    == NoAccount \notin Account
ASSUME UserIdsAssumption      == IsFiniteSet(UserIds)

VARIABLES
  accounts,   \* the users collection
  pc,         \* where each request's handler is: the database call it awaits
  op,         \* what each request asks for
  disturbed,  \* history: another write landed since the request was authorized
  seeding     \* where seedDefaultAdmin of the start-up chain is

vars == <<accounts, pc, op, disturbed, seeding>>

-----------------------------------------------------------------------------
(* The requests *)

Change(kind, values) ==
  [kind : {kind}, by : UserIds, target : Usernames, value : values]

StatusChanges    == Change("status", Statuses)
PrivilegeChanges == Change("privilege", Privileges)
ProfileChanges   == Change("rename", Usernames) \cup Change("email", Profiles)
PasswordChanges  == Change("password", Profiles)
Registrations    == [kind : {"register"}, value : Usernames, profile : Profiles]

Operations ==
  StatusChanges \cup PrivilegeChanges \cup ProfileChanges \cup PasswordChanges
    \cup Registrations

NoOperation == [kind |-> "none"]

HandlerPoints == {"idle", "authorize", "readTarget", "findTarget",
                  "countAdmins", "checkName", "update"}

TypeOK ==
  /\ accounts \in [UserIds -> Account \cup {NoAccount}]
  /\ pc \in [Requests -> HandlerPoints]
  /\ op \in [Requests -> Operations \cup {NoOperation}]
  /\ \A r \in Requests : pc[r] = "idle" <=> op[r] = NoOperation
  /\ \A r \in Requests :
       op[r].kind = "register" => pc[r] \in {"checkName", "update"}
  /\ disturbed \in [Requests -> BOOLEAN]
  /\ seeding \in {"find", "save", "done", "failed"}

-----------------------------------------------------------------------------
(* The collection *)

Registered == {u \in UserIds : accounts[u] # NoAccount}

Holders(name) == {u \in Registered : accounts[u].username = name}

IsAdmin(u) == accounts[u].privilege = "Administrator"

ActiveAdmins == {u \in Registered : IsAdmin(u) /\ accounts[u].status = "Active"}

\* Mutants: the collection without its unique index (db.init() drops it), and
\* a schema without defaults.
NameIsFreeForAnyone(name, u) == TRUE
NewAccountWithoutDefaults(name, privilege, profile) ==
  [username |-> name, privilege |-> privilege, profile |-> profile]

\* The unique index on credentials.username lets a write give `name` to u.
NameIsFreeFor(name, u) == Holders(name) \subseteq {u}

\* The document an insert leaves, with the schema's defaults.
NewAccount(name, privilege, profile) ==
  [username |-> name, status |-> "Active",
   privilege |-> privilege, profile |-> profile]

Updated(account, o) ==
  LET written(kinds, old) == IF o.kind \in kinds THEN o.value ELSE old
  IN [username  |-> written({"rename"}, account.username),
      status    |-> written({"status"}, account.status),
      privilege |-> written({"privilege"}, account.privilege),
      profile   |-> written({"email", "password"}, account.profile)]

-----------------------------------------------------------------------------
(* Who may ask for what: requireAdmin, requireOwnUser, requireAdminOrOwnUser *)

Owns(u, name) == accounts[u].username = name

Authorized(o) ==
  /\ o.by \in Registered
  /\ \/ o.kind \in {"status", "password", "privilege"} /\ IsAdmin(o.by)
     \/ o.kind \in {"status", "password", "rename", "email"} /\ Owns(o.by, o.target)

\* Operations that R1 (At-Least-One-Administrator) guards.
Removes(o) ==
  \/ o.kind = "status" /\ o.value = "Inactive"
  \/ o.kind = "privilege" /\ o.value # "Administrator"

AfterAuthorization(o) ==
  IF o.kind = "status" THEN "readTarget"
  ELSE IF o.kind = "rename" THEN "checkName"
  ELSE IF Removes(o) THEN "findTarget" ELSE "update"

-----------------------------------------------------------------------------
(* Control of a handler *)

GoTo(r, point) ==
  /\ pc' = [pc EXCEPT ![r] = point]
  /\ UNCHANGED <<accounts, op, disturbed, seeding>>

\* The handler answers and ends, having changed the collection to `after`.
Respond(r, after) ==
  /\ accounts' = after
  /\ pc' = [pc EXCEPT ![r] = "idle"]
  /\ op' = [op EXCEPT ![r] = NoOperation]
  /\ disturbed' = [q \in Requests |->
       q # r /\ (disturbed[q] \/ (pc[q] # "idle" /\ after # accounts))]
  /\ UNCHANGED seeding

Reject(r) == Respond(r, accounts)

Init ==
  /\ accounts = [u \in UserIds |-> NoAccount]
  /\ pc = [r \in Requests |-> "idle"]
  /\ op = [r \in Requests |-> NoOperation]
  /\ disturbed = [r \in Requests |-> FALSE]
  /\ seeding = "find"

\* A request with a valid token (or a registration) arrives.  Its requester
\* has an account: tokens name an _id, and accounts are never deleted.
Receive(r) ==
  /\ pc[r] = "idle"
  /\ \E o \in Operations :
       /\ o.kind \in Kinds
       /\ o.kind # "register" => o.by \in Registered
       /\ op' = [op EXCEPT ![r] = o]
       /\ pc' = [pc EXCEPT ![r] =
                   IF o.kind = "register" THEN "checkName" ELSE "authorize"]
  /\ UNCHANGED <<accounts, disturbed, seeding>>

\* Mutant: the handler reads the requester and forgets to check it.
AuthorizeAnyone(r) ==
  pc[r] = "authorize" /\ GoTo(r, AfterAuthorization(op[r]))

\* getRequestingUserAccount, then the handler's require... guard.
Authorize(r) ==
  /\ pc[r] = "authorize"
  /\ IF Authorized(op[r]) THEN GoTo(r, AfterAuthorization(op[r])) ELSE Reject(r)

\* updateStatus reads the target for its previous status.
ReadTarget(r) ==
  /\ pc[r] = "readTarget"
  /\ IF Holders(op[r].target) = {}
       THEN Reject(r)
       ELSE GoTo(r, IF Removes(op[r]) THEN "findTarget" ELSE "update")

\* Mutant: only demotions are guarded, inactivations are not.
FindTargetOfDemotionsOnly(r) ==
  GoTo(r, IF op[r].kind = "privilege" /\ \E u \in Holders(op[r].target) : IsAdmin(u)
            THEN "countAdmins" ELSE "update")

\* First read of ensureNotLastAdmin: does the rule apply to the target?
FindTargetOf(r) ==
  LET guarded(u) == IsAdmin(u) /\ (op[r].kind = "status" \/ u \in ActiveAdmins)
  IN GoTo(r, IF \E u \in Holders(op[r].target) : guarded(u)
               THEN "countAdmins" ELSE "update")

FindTarget(r) == pc[r] = "findTarget" /\ FindTargetOf(r)

\* Second read of ensureNotLastAdmin: countAdministrators.
CountAdmins(r) ==
  /\ pc[r] = "countAdmins"
  /\ IF Cardinality(ActiveAdmins) <= 1 THEN Reject(r) ELSE GoTo(r, "update")

\* join() and updateUsername look the new username up before they write.
CheckName(r) ==
  /\ pc[r] = "checkName"
  /\ IF Holders(op[r].value) # {} THEN Reject(r) ELSE GoTo(r, "update")

\* findOneAndUpdate by username: no document, or the unique index, fails it.
Update(r) ==
  /\ pc[r] = "update"
  /\ op[r].kind # "register"
  /\ LET writable(u) == op[r].kind = "rename" => NameIsFreeFor(op[r].value, u)
     IN \/ /\ \A u \in Holders(op[r].target) : ~writable(u)
           /\ Reject(r)
        \/ \E u \in Holders(op[r].target) :
             /\ writable(u)
             /\ Respond(r, [accounts EXCEPT ![u] = Updated(@, op[r])])

\* saveUser at the end of join(): an insert, which the unique index may refuse.
Save(r) ==
  /\ pc[r] = "update"
  /\ op[r].kind = "register"
  /\ \/ /\ Holders(op[r].value) # {}
        /\ Reject(r)
     \/ /\ Holders(op[r].value) = {}
        /\ \E u \in UserIds \ Registered :
             Respond(r, [accounts EXCEPT ![u] =
                           NewAccount(op[r].value, "Member", op[r].profile)])

-----------------------------------------------------------------------------
(* Start-up: seedDefaultAdmin runs while the server already accepts requests *)

SeedFind ==
  /\ seeding = "find"
  /\ seeding' = IF Holders(DefaultAdmin) = {} THEN "save" ELSE "done"
  /\ UNCHANGED <<accounts, pc, op, disturbed>>

SeedSave ==
  /\ seeding = "save"
  /\ \/ /\ Holders(DefaultAdmin) # {}
        /\ seeding' = "failed"
        /\ UNCHANGED <<accounts, disturbed>>
     \/ /\ Holders(DefaultAdmin) = {}
        /\ \E u \in UserIds \ Registered, p \in Profiles :
             accounts' = [accounts EXCEPT ![u] =
                            NewAccount(DefaultAdmin, "Administrator", p)]
        /\ seeding' = "done"
        /\ disturbed' = [r \in Requests |-> pc[r] # "idle"]
  /\ UNCHANGED <<pc, op>>

\* The process dies at any point and starts again: handlers are lost, the
\* collection is not.
Restart ==
  /\ pc' = [r \in Requests |-> "idle"]
  /\ op' = [r \in Requests |-> NoOperation]
  /\ disturbed' = [r \in Requests |-> FALSE]
  /\ seeding' = "find"
  /\ UNCHANGED accounts

Handle(r) ==
  \/ Receive(r)    \/ Authorize(r)   \/ ReadTarget(r) \/ FindTarget(r)
  \/ CountAdmins(r) \/ CheckName(r)  \/ Update(r)     \/ Save(r)

Next ==
  \/ \E r \in Requests : Handle(r)
  \/ SeedFind \/ SeedSave \/ Restart

Spec == Init /\ [][Next]_vars

-----------------------------------------------------------------------------
(* Properties *)

\* The unique index and the write paths keep usernames unique, so that
\* "the account of that name" is well defined for every name-keyed write.
UniqueUsernames ==
  \A u, v \in Registered : accounts[u].username = accounts[v].username => u = v

\* The step in which request r's handler ends.
Ends(r) == pc[r] # "idle" /\ pc'[r] = "idle"

\* R1 as UC_ ManageAcct.md states it and ensureNotLastAdmin promises it: no
\* operation leaves zero active Administrators.  The code does not keep it.
R1AtLeastOneAdministrator ==
  [][ActiveAdmins # {} => ActiveAdmins' # {}]_vars

\* What the code does guarantee: ensureNotLastAdmin is right unless another
\* write overtakes the request between its authorization and its own write.
LastAdminLostOnlyToARace ==
  [][ActiveAdmins # {} /\ ActiveAdmins' = {}
       => \E r \in Requests : Ends(r) /\ disturbed[r]]_vars

\* R3 (UC_ ManageAcct.md), of what a write does rather than of the check awaits
\* before it: a request that nobody overtook changes only the account it names,
\* names and email addresses only of the requester, privileges only for someone
\* who is an Administrator at that moment, and the rest for one of the two.  A
\* requester's privilege counts as it is stored, not as it was at login (R4), an
\* Administrator counts as the owner of his account, and an owner's status
\* counts for nothing, as in the handlers.
UndisturbedChangesFollowR3 ==
  [][\A r \in Requests : \A u \in Registered :
       Ends(r) /\ ~disturbed[r] /\ op[r].kind # "register" /\ accounts'[u] # accounts[u]
         => /\ accounts[u].username = op[r].target
            /\ u = op[r].by \/ IsAdmin(op[r].by)
            /\ accounts'[u].username # accounts[u].username => u = op[r].by
            /\ op[r].kind = "email" => u = op[r].by
            /\ accounts'[u].privilege # accounts[u].privilege => IsAdmin(op[r].by)]_vars
=============================================================================
