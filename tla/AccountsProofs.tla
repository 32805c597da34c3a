---------------------------- MODULE AccountsProofs ----------------------------
(***************************************************************************)
(* Proofs about Accounts, for any sets of users, usernames and requests.   *)
(*                                                                         *)
(* The properties are not inductive.  What a handler has checked holds only *)
(* until another write lands, so the inductive invariant says, of a request *)
(* that is not `disturbed`, that its earlier checks still hold:            *)
(* StillAuthorized for the requester, StillSafe for the R1 rule.           *)
(***************************************************************************)
EXTENDS Accounts, FiniteSetTheorems, TLAPS

\* Which handler can be at which point.
Routing ==
  \A r \in Requests :
    /\ pc[r] = "readTarget" => op[r].kind = "status"
    /\ pc[r] = "checkName" => op[r].kind \in {"rename", "register"}
    /\ pc[r] \in {"findTarget", "countAdmins"} => Removes(op[r])
    /\ pc[r] = "authorize" => op[r].kind # "register"

\* The guard of the requester, re-evaluated now.
StillAuthorized ==
  \A r \in Requests :
    /\ ~disturbed[r]
    /\ op[r].kind # "register"
    /\ pc[r] \notin {"idle", "authorize"}
    => Authorized(op[r])

\* The guard of R1, re-evaluated now: the removal leaves an Administrator.
SafeToRemove(o) ==
  \/ Cardinality(ActiveAdmins) > 1
  \/ Holders(o.target) \cap ActiveAdmins = {}

StillSafe ==
  \A r \in Requests :
    ~disturbed[r] /\ pc[r] = "update" /\ Removes(op[r]) => SafeToRemove(op[r])

IInv == TypeOK /\ UniqueUsernames /\ Routing /\ StillAuthorized /\ StillSafe

-----------------------------------------------------------------------------
(* Facts about the operators *)

\* A write to an account yields an account.
LEMMA UpdatedIsAccount ==
  ASSUME NEW a \in Account, NEW o \in Operations, o.kind # "register"
  PROVE  Updated(a, o) \in Account
BY DEF Updated, Account, Operations, StatusChanges, PrivilegeChanges,
   ProfileChanges, PasswordChanges, Registrations, Change, Statuses, Privileges

\* Only a rename changes a username.
LEMMA UpdatedUsername ==
  ASSUME NEW a \in Account, NEW o \in Operations, o.kind # "register"
  PROVE  Updated(a, o).username = IF o.kind = "rename" THEN o.value ELSE a.username
BY DEF Updated, Account, Operations, StatusChanges, PrivilegeChanges,
   ProfileChanges, PasswordChanges, Registrations, Change, Statuses, Privileges

\* Only a removal takes an active Administrator's standing away.
LEMMA UpdatedKeepsAdmin ==
  ASSUME NEW a \in Account, NEW o \in Operations, o.kind # "register",
         ~Removes(o), a.privilege = "Administrator", a.status = "Active"
  PROVE  /\ Updated(a, o).privilege = "Administrator"
         /\ Updated(a, o).status = "Active"
BY DEF Updated, Account, Operations, StatusChanges, PrivilegeChanges,
   ProfileChanges, PasswordChanges, Registrations, Change, Statuses, Privileges, Removes

\* A set of more than one element has one besides any given u.
LEMMA AnotherElement ==
  ASSUME NEW S, IsFiniteSet(S), Cardinality(S) > 1, NEW u
  PROVE  \E v \in S : v # u
<1> SUFFICES ASSUME \A v \in S : v = u
             PROVE  FALSE
  OBVIOUS
<1>1. S \subseteq {u}
  OBVIOUS
<1>2. IsFiniteSet({u}) /\ Cardinality({u}) = 1
  BY FS_Singleton
<1>3. Cardinality(S) <= 1 /\ Cardinality(S) \in Nat
  BY <1>1, <1>2, FS_Subset, FS_CardinalityType
<1> QED
  BY <1>3

\* The conditions on pc and op of a handler that is not idle.
LEMMA NoOperationIsNone == NoOperation \notin Operations
BY DEF NoOperation, Operations, StatusChanges, PrivilegeChanges,
   ProfileChanges, PasswordChanges, Registrations, Change

-----------------------------------------------------------------------------
(* How a handler's step keeps the invariant *)

\* A step that only moves one handler on, to a point its checks allow.
LEMMA GoToKeepsInvariant ==
  ASSUME IInv, NEW r \in Requests, NEW point \in HandlerPoints \ {"idle"},
         pc[r] # "idle", GoTo(r, point), point # "authorize",
         op[r].kind = "register" => point = "update",
         point = "readTarget" => op[r].kind = "status",
         point = "checkName" => op[r].kind = "rename",
         point \in {"findTarget", "countAdmins"} => Removes(op[r]),
         pc[r] = "authorize" => Authorized(op[r]),
         point = "update" /\ Removes(op[r]) => SafeToRemove(op[r])
  PROVE  IInv'
<1> USE DEF IInv, GoTo
<1>1. TypeOK'
  BY DEF TypeOK, HandlerPoints
<1>2. UniqueUsernames'
  BY DEF UniqueUsernames, Registered
<1>3. Routing'
  BY DEF Routing, TypeOK, Removes
<1>4. StillAuthorized'
  <2> SUFFICES ASSUME NEW q \in Requests, ~disturbed[q],
                      op[q].kind # "register", pc'[q] \notin {"idle", "authorize"}
               PROVE  Authorized(op[q])
    BY DEF StillAuthorized, Authorized, Registered, IsAdmin, Owns
  <2>1. CASE q = r
    BY <2>1 DEF StillAuthorized, TypeOK
  <2>2. CASE q # r
    BY <2>2 DEF StillAuthorized, TypeOK
  <2> QED
    BY <2>1, <2>2
<1>5. StillSafe'
  <2> SUFFICES ASSUME NEW q \in Requests, ~disturbed[q], pc'[q] = "update",
                      Removes(op[q])
               PROVE  SafeToRemove(op[q])
    BY DEF StillSafe, SafeToRemove, Removes, ActiveAdmins, Holders, Registered, IsAdmin
  <2>1. CASE q = r
    BY <2>1 DEF TypeOK
  <2>2. CASE q # r
    BY <2>2 DEF StillSafe, TypeOK
  <2> QED
    BY <2>1, <2>2
<1> QED
  BY <1>1, <1>2, <1>3, <1>4, <1>5

\* The step that ends a handler: requests it overtakes become disturbed, so
\* nothing is claimed of them any more.
LEMMA RespondKeepsInvariant ==
  ASSUME IInv, NEW r \in Requests, pc[r] # "idle",
         NEW after \in [UserIds -> Account \cup {NoAccount}],
         Respond(r, after), UniqueUsernames'
  PROVE  IInv'
<1> USE DEF IInv, Respond
<1>1. TypeOK'
  BY NoOperationIsNone DEF TypeOK, HandlerPoints, NoOperation
<1>2. Routing'
  BY DEF Routing, TypeOK, Removes
<1>3. ASSUME NEW q \in Requests, ~disturbed'[q], pc'[q] # "idle"
      PROVE  /\ q # r /\ ~disturbed[q]
             /\ pc'[q] = pc[q] /\ op'[q] = op[q] /\ accounts' = accounts
  BY <1>3 DEF TypeOK
<1>4. StillAuthorized'
  BY <1>3 DEF StillAuthorized, Authorized, Registered, IsAdmin, Owns
<1>5. StillSafe'
  BY <1>3 DEF StillSafe, SafeToRemove, Removes, ActiveAdmins, Holders, Registered, IsAdmin
<1> QED
  BY <1>1, <1>2, <1>4, <1>5

\* A rejection changes no account.
LEMMA RejectKeepsInvariant ==
  ASSUME IInv, NEW r \in Requests, pc[r] # "idle", Reject(r)
  PROVE  IInv'
<1>1. accounts' = accounts
  BY DEF Reject, Respond
<1>2. UniqueUsernames'
  BY <1>1 DEF IInv, UniqueUsernames, Registered
<1> QED
  BY <1>2, RespondKeepsInvariant DEF Reject, IInv, TypeOK

-----------------------------------------------------------------------------
(* The invariant *)

LEMMA ReceiveKeepsInvariant ==
  ASSUME IInv, NEW r \in Requests, Receive(r)
  PROVE  IInv'
<1> USE DEF IInv, Receive
<1>1. PICK o \in Operations :
        /\ o.kind # "register" => o.by \in Registered
        /\ op' = [op EXCEPT ![r] = o]
        /\ pc' = [pc EXCEPT ![r] =
                    IF o.kind = "register" THEN "checkName" ELSE "authorize"]
  OBVIOUS
<1>2. TypeOK'
  BY <1>1, NoOperationIsNone DEF TypeOK, HandlerPoints
<1>3. UniqueUsernames'
  BY DEF UniqueUsernames, Registered
<1>4. Routing'
  BY <1>1 DEF Routing, TypeOK, Removes
<1>5. StillAuthorized'
  BY <1>1 DEF StillAuthorized, TypeOK, Authorized, Registered, IsAdmin, Owns
<1>6. StillSafe'
  BY <1>1 DEF StillSafe, SafeToRemove, TypeOK, Removes, ActiveAdmins, Holders,
              Registered, IsAdmin
<1> QED
  BY <1>2, <1>3, <1>4, <1>5, <1>6

LEMMA UpdateKeepsInvariant ==
  ASSUME IInv, NEW r \in Requests, Update(r)
  PROVE  IInv'
<1>1. op[r] \in Operations /\ op[r].kind # "register" /\ pc[r] # "idle"
  BY DEF IInv, TypeOK, Update
<1>2. CASE Reject(r)
  BY <1>1, <1>2, RejectKeepsInvariant
<1>3. ASSUME NEW u \in Holders(op[r].target),
             op[r].kind = "rename" => NameIsFreeFor(op[r].value, u),
             Respond(r, [accounts EXCEPT ![u] = Updated(@, op[r])])
      PROVE  IInv'
  <2> DEFINE after == [accounts EXCEPT ![u] = Updated(accounts[u], op[r])]
  <2>1. u \in UserIds /\ accounts[u] \in Account /\ accounts[u] # NoAccount
    BY DEF Holders, Registered, IInv, TypeOK
  <2>2. Updated(accounts[u], op[r]) \in Account
    BY <1>1, <2>1, UpdatedIsAccount
  <2>3. after \in [UserIds -> Account \cup {NoAccount}]
    BY <2>1, <2>2 DEF IInv, TypeOK
  <2>4. accounts' = after
    BY <1>3 DEF Respond
  <2>5. UniqueUsernames'
    <3> SUFFICES ASSUME NEW v \in UserIds, NEW w \in UserIds, v # w,
                        after[v] # NoAccount, after[w] # NoAccount,
                        after[v].username = after[w].username
                 PROVE  FALSE
      BY <2>4 DEF UniqueUsernames, Registered
    <3>1. after[u].username =
            IF op[r].kind = "rename" THEN op[r].value ELSE accounts[u].username
      BY <1>1, <2>1, UpdatedUsername DEF IInv, TypeOK
    <3>2. \A x \in UserIds : x # u => after[x] = accounts[x]
      BY DEF IInv, TypeOK
    <3>3. \A x \in UserIds : after[x] # NoAccount => accounts[x] # NoAccount
      BY <2>1, <3>2
    <3>4. CASE v # u /\ w # u
      BY <3>2, <3>4 DEF IInv, UniqueUsernames, Registered
    <3>5. ASSUME NEW x \in UserIds, x # u, accounts[x] # NoAccount,
                 accounts[x].username = after[u].username
          PROVE  FALSE
      <4>1. CASE op[r].kind = "rename"
        BY <1>3, <3>1, <3>5, <4>1 DEF NameIsFreeFor, Holders, Registered
      <4>2. CASE op[r].kind # "rename"
        BY <2>1, <3>1, <3>5, <4>2 DEF IInv, UniqueUsernames, Registered
      <4> QED
        BY <4>1, <4>2
    <3> QED
      BY <3>2, <3>3, <3>4, <3>5
  <2> QED
    BY <1>1, <1>3, <2>3, <2>5, RespondKeepsInvariant
<1> QED
  BY <1>2, <1>3 DEF Update

LEMMA SaveKeepsInvariant ==
  ASSUME IInv, NEW r \in Requests, Save(r)
  PROVE  IInv'
<1>1. op[r] \in Operations /\ op[r].kind = "register" /\ pc[r] # "idle"
  BY DEF IInv, TypeOK, Save
<1>2. CASE Reject(r)
  BY <1>1, <1>2, RejectKeepsInvariant
<1>3. ASSUME Holders(op[r].value) = {}, NEW u \in UserIds \ Registered,
             Respond(r, [accounts EXCEPT ![u] =
                           NewAccount(op[r].value, "Member", op[r].profile)])
      PROVE  IInv'
  <2> DEFINE new == NewAccount(op[r].value, "Member", op[r].profile)
             after == [accounts EXCEPT ![u] = new]
  <2>1. new \in Account /\ new.username = op[r].value
    BY <1>1 DEF NewAccount, Account, Operations, StatusChanges, PrivilegeChanges,
   ProfileChanges, PasswordChanges, Registrations, Change, Statuses, Privileges
  <2>2. after \in [UserIds -> Account \cup {NoAccount}]
    BY <2>1 DEF IInv, TypeOK
  <2>3. accounts' = after
    BY <1>3 DEF Respond
  <2>4. UniqueUsernames'
    BY <1>3, <2>1, <2>2, <2>3 DEF IInv, TypeOK, UniqueUsernames, Registered, Holders
  <2> QED
    BY <1>1, <1>3, <2>2, <2>4, RespondKeepsInvariant
<1> QED
  BY <1>2, <1>3 DEF Save

LEMMA SeedSaveKeepsInvariant ==
  ASSUME IInv, SeedSave
  PROVE  IInv'
<1>1. CASE accounts' = accounts /\ UNCHANGED <<pc, op, disturbed>> /\ seeding' = "failed"
  <2> USE <1>1
  <2>1. TypeOK' /\ UniqueUsernames' /\ Routing'
    BY DEF IInv, TypeOK, UniqueUsernames, Registered, Routing, Removes
  <2>2. StillAuthorized'
    BY DEF IInv, StillAuthorized, Authorized, Registered, IsAdmin, Owns
  <2>3. StillSafe'
    BY DEF IInv, StillSafe, SafeToRemove, Removes, ActiveAdmins, Holders,
           Registered, IsAdmin
  <2> QED
    BY <2>1, <2>2, <2>3 DEF IInv
<1>2. ASSUME Holders(DefaultAdmin) = {}, seeding' = "done", UNCHANGED <<pc, op>>,
             disturbed' = [r \in Requests |-> pc[r] # "idle"],
             NEW u \in UserIds \ Registered, NEW p \in Profiles,
             accounts' = [accounts EXCEPT ![u] =
                            NewAccount(DefaultAdmin, "Administrator", p)]
      PROVE  IInv'
  <2> DEFINE new == NewAccount(DefaultAdmin, "Administrator", p)
  <2>1. new \in Account /\ new.username = DefaultAdmin
    BY DefaultAdminAssumption DEF NewAccount, Account, Statuses, Privileges
  <2>2. TypeOK'
    BY <1>2, <2>1 DEF IInv, TypeOK
  <2>3. UniqueUsernames'
    BY <1>2, <2>1 DEF IInv, TypeOK, UniqueUsernames, Registered, Holders
  <2>4. Routing'
    BY <1>2 DEF IInv, Routing, Removes
  <2>5. \A r \in Requests : ~disturbed'[r] => pc'[r] = "idle"
    BY <1>2
  <2>6. StillAuthorized' /\ StillSafe'
    BY <2>5 DEF StillAuthorized, StillSafe
  <2> QED
    BY <2>2, <2>3, <2>4, <2>6 DEF IInv
<1> QED
  BY <1>1, <1>2 DEF SeedSave

LEMMA StepKeepsInvariant ==
  ASSUME IInv, Next
  PROVE  IInv'
<1>1. ASSUME NEW r \in Requests, Handle(r)
      PROVE  IInv'
  <2> USE DEF HandlerPoints
  <2>1. CASE Receive(r)
    BY <2>1, ReceiveKeepsInvariant
  <2>2. CASE Authorize(r)
    <3>1. op[r] \in Operations /\ op[r].kind # "register" /\ pc[r] # "idle"
      BY <2>2 DEF Authorize, IInv, TypeOK, Routing
    <3>2. CASE Authorized(op[r])
      <4>1. AfterAuthorization(op[r]) = "update" => ~Removes(op[r])
        BY DEF AfterAuthorization, Removes
      <4> QED
        BY <2>2, <3>1, <3>2, <4>1, GoToKeepsInvariant
           DEF Authorize, AfterAuthorization
    <3>3. CASE ~Authorized(op[r])
      BY <2>2, <3>1, <3>3, RejectKeepsInvariant DEF Authorize
    <3> QED
      BY <3>2, <3>3
  <2>3. CASE ReadTarget(r)
    <3>1. op[r].kind = "status" /\ pc[r] # "idle" /\ pc[r] # "authorize"
      BY <2>3 DEF ReadTarget, IInv, Routing
    <3>2. CASE Holders(op[r].target) = {}
      BY <2>3, <3>1, <3>2, RejectKeepsInvariant DEF ReadTarget
    <3>3. CASE Holders(op[r].target) # {}
      BY <2>3, <3>1, <3>3, GoToKeepsInvariant DEF ReadTarget
    <3> QED
      BY <3>2, <3>3
  <2>4. CASE FindTarget(r)
    <3>1. Removes(op[r]) /\ pc[r] # "idle" /\ pc[r] # "authorize"
      BY <2>4 DEF FindTarget, IInv, Routing
    <3>2. op[r].kind # "register"
      BY <3>1 DEF Removes
    <3>3. CASE \E u \in Holders(op[r].target) :
                 IsAdmin(u) /\ (op[r].kind = "status" \/ u \in ActiveAdmins)
      BY <2>4, <3>1, <3>2, <3>3, GoToKeepsInvariant DEF FindTarget, FindTargetOf
    <3>4. CASE ~\E u \in Holders(op[r].target) :
                 IsAdmin(u) /\ (op[r].kind = "status" \/ u \in ActiveAdmins)
      <4>1. SafeToRemove(op[r])
        BY <3>1, <3>4 DEF SafeToRemove, Removes, ActiveAdmins
      <4> QED
        BY <2>4, <3>1, <3>2, <3>4, <4>1, GoToKeepsInvariant
           DEF FindTarget, FindTargetOf
    <3> QED
      BY <3>3, <3>4
  <2>5. CASE CountAdmins(r)
    <3>1. Removes(op[r]) /\ pc[r] # "idle" /\ pc[r] # "authorize"
      BY <2>5 DEF CountAdmins, IInv, Routing
    <3>2. op[r].kind # "register"
      BY <3>1 DEF Removes
    <3>3. CASE Cardinality(ActiveAdmins) <= 1
      BY <2>5, <3>1, <3>3, RejectKeepsInvariant DEF CountAdmins
    <3>4. CASE ~(Cardinality(ActiveAdmins) <= 1)
      <4>1. Cardinality(ActiveAdmins) \in Nat
        BY UserIdsAssumption, FS_Subset, FS_CardinalityType
           DEF ActiveAdmins, Registered
      <4>2. SafeToRemove(op[r])
        BY <3>4, <4>1 DEF SafeToRemove
      <4> QED
        BY <2>5, <3>1, <3>2, <3>4, <4>2, GoToKeepsInvariant DEF CountAdmins
    <3> QED
      BY <3>3, <3>4
  <2>6. CASE CheckName(r)
    <3>1. op[r].kind \in {"rename", "register"} /\ pc[r] # "idle" /\ pc[r] # "authorize"
      BY <2>6 DEF CheckName, IInv, Routing
    <3>2. ~Removes(op[r])
      BY <3>1 DEF Removes
    <3>3. CASE Holders(op[r].value) # {}
      BY <2>6, <3>1, <3>3, RejectKeepsInvariant DEF CheckName
    <3>4. CASE Holders(op[r].value) = {}
      BY <2>6, <3>1, <3>2, <3>4, GoToKeepsInvariant DEF CheckName
    <3> QED
      BY <3>3, <3>4
  <2>7. CASE Update(r)
    BY <2>7, UpdateKeepsInvariant
  <2>8. CASE Save(r)
    BY <2>8, SaveKeepsInvariant
  <2> QED
    BY <1>1, <2>1, <2>2, <2>3, <2>4, <2>5, <2>6, <2>7, <2>8 DEF Handle
<1>2. CASE SeedFind
  <2>1. TypeOK' /\ UniqueUsernames' /\ Routing'
    BY <1>2 DEF SeedFind, IInv, TypeOK, UniqueUsernames, Registered, Routing, Removes
  <2>2. StillAuthorized'
    BY <1>2 DEF SeedFind, IInv, StillAuthorized, Authorized, Registered, IsAdmin, Owns
  <2>3. StillSafe'
    BY <1>2 DEF SeedFind, IInv, StillSafe, SafeToRemove, Removes, ActiveAdmins,
                Holders, Registered, IsAdmin
  <2> QED
    BY <2>1, <2>2, <2>3 DEF IInv
<1>3. CASE SeedSave
  BY <1>3, SeedSaveKeepsInvariant
<1>4. CASE Restart
  <2>1. TypeOK' /\ UniqueUsernames' /\ Routing'
    BY <1>4 DEF Restart, IInv, TypeOK, HandlerPoints, UniqueUsernames, Registered,
                Routing, NoOperation
  <2>2. StillAuthorized' /\ StillSafe'
    BY <1>4 DEF Restart, StillAuthorized, StillSafe
  <2> QED
    BY <2>1, <2>2 DEF IInv
<1> QED
  BY <1>1, <1>2, <1>3, <1>4 DEF Next

\* The inductive invariant holds in every reachable state.
THEOREM Invariance == Spec => []IInv
<1>1. Init => IInv
  BY DEF Init, IInv, TypeOK, HandlerPoints, UniqueUsernames, Registered, Routing,
         StillAuthorized, StillSafe, NoOperation
<1>2. ASSUME IInv, UNCHANGED vars
      PROVE  IInv'
  <2> USE <1>2 DEF vars, IInv
  <2>1. TypeOK' /\ UniqueUsernames' /\ Routing'
    BY DEF TypeOK, UniqueUsernames, Registered, Routing, Removes
  <2>2. StillAuthorized'
    BY DEF StillAuthorized, Authorized, Registered, IsAdmin, Owns
  <2>3. StillSafe'
    BY DEF StillSafe, SafeToRemove, Removes, ActiveAdmins, Holders, Registered, IsAdmin
  <2> QED
    BY <2>1, <2>2, <2>3
<1>3. IInv /\ [Next]_vars => IInv'
  BY <1>2, StepKeepsInvariant
<1> QED
  BY <1>1, <1>3, PTL DEF Spec

\* Every value the collection and the handlers hold has its type.
THEOREM TypeCorrectness == Spec => []TypeOK
BY Invariance, PTL DEF IInv

\* Usernames stay unique under every interleaving of renames, registrations
\* and the seeding of the default administrator.
THEOREM UsernamesAreUnique == Spec => []UniqueUsernames
BY Invariance, PTL DEF IInv

-----------------------------------------------------------------------------
(* The action properties *)

\* A write that succeeds: the account it changes, and what it was then.
LEMMA WriteOfAnAccount ==
  ASSUME IInv, Next, NEW r \in Requests, Ends(r), accounts' # accounts,
         ~disturbed[r], op[r].kind # "register"
  PROVE  /\ Update(r)
         /\ Authorized(op[r])
         /\ \E u \in Holders(op[r].target) :
              accounts' = [accounts EXCEPT ![u] = Updated(@, op[r])]
<1>1. ~Restart /\ ~SeedFind /\ ~SeedSave
  BY DEF Restart, SeedFind, SeedSave, Ends
<1>2. PICK q \in Requests : Handle(q)
  BY <1>1 DEF Next
<1>3. q = r
  BY <1>2 DEF Handle, Receive, Authorize, ReadTarget, FindTarget, FindTargetOf,
              CountAdmins, CheckName, Update, Save, Reject, Respond, GoTo, Ends, IInv,
              TypeOK
<1>4. Update(r)
  BY <1>2, <1>3 DEF Handle, Receive, Authorize, ReadTarget, FindTarget, FindTargetOf,
              CountAdmins, CheckName, Save, Reject, Respond, GoTo
<1>5. Authorized(op[r])
  BY <1>4 DEF Update, IInv, StillAuthorized
<1> QED
  BY <1>4, <1>5 DEF Update, Reject, Respond

\* What a write of each kind may change.
LEMMA UpdatedFields ==
  ASSUME NEW a \in Account, NEW o \in Operations, o.kind # "register"
  PROVE  /\ Updated(a, o).username # a.username => o.kind = "rename"
         /\ Updated(a, o).privilege # a.privilege => o.kind = "privilege"
BY DEF Updated, Account, Operations, StatusChanges, PrivilegeChanges,
   ProfileChanges, PasswordChanges, Registrations, Change, Statuses, Privileges

\* What a handler checked of its requester still bounds what its write changes,
\* unless another write came in between (require... of account.controller.ts).
THEOREM ChangesFollowR3 == Spec => UndisturbedChangesFollowR3
<1>1. ASSUME IInv, Next, NEW r \in Requests, NEW u \in Registered, Ends(r),
             ~disturbed[r], op[r].kind # "register", accounts'[u] # accounts[u]
      PROVE  /\ accounts[u].username = op[r].target
             /\ u = op[r].by \/ IsAdmin(op[r].by)
             /\ accounts'[u].username # accounts[u].username => u = op[r].by
             /\ op[r].kind = "email" => u = op[r].by
             /\ accounts'[u].privilege # accounts[u].privilege => IsAdmin(op[r].by)
  <2>1. Authorized(op[r])
    BY <1>1, WriteOfAnAccount
  <2>2. PICK v \in Holders(op[r].target) :
          accounts' = [accounts EXCEPT ![v] = Updated(@, op[r])]
    BY <1>1, WriteOfAnAccount
  <2>3. /\ op[r] \in Operations /\ u \in UserIds /\ accounts[u] \in Account
        /\ v = u /\ accounts'[u] = Updated(accounts[u], op[r])
    BY <1>1, <2>2 DEF IInv, TypeOK, Registered, Ends, Holders
  <2>4. accounts[u].username = op[r].target
    BY <2>2, <2>3 DEF Holders
  <2>5. op[r].by \in Registered /\ (Owns(op[r].by, op[r].target) => op[r].by = u)
    BY <1>1, <2>1, <2>4 DEF Authorized, Owns, IInv, UniqueUsernames
  <2>6. u = op[r].by \/ IsAdmin(op[r].by)
    BY <2>1, <2>5 DEF Authorized
  <2>7. op[r].kind \in {"rename", "email"} => u = op[r].by
    BY <2>1, <2>5 DEF Authorized
  <2>8. op[r].kind = "privilege" => IsAdmin(op[r].by)
    BY <2>1 DEF Authorized
  <2> QED
    BY <1>1, <2>3, <2>4, <2>6, <2>7, <2>8, UpdatedFields
<1>2. IInv /\ [Next]_vars =>
        [\A r \in Requests : \A u \in Registered :
           Ends(r) /\ ~disturbed[r] /\ op[r].kind # "register" /\ accounts'[u] # accounts[u]
             => /\ accounts[u].username = op[r].target
                /\ u = op[r].by \/ IsAdmin(op[r].by)
                /\ accounts'[u].username # accounts[u].username => u = op[r].by
                /\ op[r].kind = "email" => u = op[r].by
                /\ accounts'[u].privilege # accounts[u].privilege => IsAdmin(op[r].by)]_vars
  BY <1>1
<1> QED
  BY <1>2, Invariance, PTL DEF Spec, UndisturbedChangesFollowR3

\* Adding an account, or changing the account of another user, leaves an active
\* Administrator what it was.
LEMMA OthersStayAdministrators ==
  ASSUME IInv, NEW u \in UserIds, NEW a \in Account,
         accounts' = [accounts EXCEPT ![u] = a],
         NEW v \in ActiveAdmins, v # u
  PROVE  v \in ActiveAdmins'
BY DEF IInv, TypeOK, ActiveAdmins, Registered, IsAdmin

\* R1 can only be lost to a race: a removal that no other write overtook always
\* leaves an active Administrator.
THEOREM LastAdminIsGuarded == Spec => LastAdminLostOnlyToARace
<1>1. IInv /\ [Next]_vars =>
        [ActiveAdmins # {} /\ ActiveAdmins' = {}
           => \E r \in Requests : Ends(r) /\ disturbed[r]]_vars
  <2> SUFFICES ASSUME IInv, Next, ActiveAdmins # {}, ActiveAdmins' = {},
                      \A r \in Requests : Ends(r) => ~disturbed[r]
               PROVE  FALSE
    OBVIOUS
  <2>1. accounts' # accounts
    BY DEF ActiveAdmins, Registered, IsAdmin
  <2>2. ASSUME NEW r \in Requests, Update(r)
        PROVE  FALSE
    <3>1. Ends(r)
      BY <2>1, <2>2 DEF Update, Reject, Respond, Ends, IInv, TypeOK
    <3>2. op[r] \in Operations /\ op[r].kind # "register" /\ ~disturbed[r]
      BY <2>2, <3>1 DEF Update, IInv, TypeOK
    <3>3. PICK u \in Holders(op[r].target) :
            accounts' = [accounts EXCEPT ![u] = Updated(@, op[r])]
      BY <2>1, <3>1, <3>2, WriteOfAnAccount
    <3>4. u \in UserIds /\ accounts[u] \in Account
      BY DEF Holders, Registered, IInv, TypeOK
    <3>5. Updated(accounts[u], op[r]) \in Account
      BY <3>2, <3>4, UpdatedIsAccount
    <3>6. ActiveAdmins \subseteq {u}
      BY <3>3, <3>4, <3>5, OthersStayAdministrators
    <3>7. u \in ActiveAdmins
      BY <3>6
    <3>8. Removes(op[r])
      <4> SUFFICES ASSUME ~Removes(op[r])
                   PROVE  FALSE
        OBVIOUS
      <4>1. /\ Updated(accounts[u], op[r]).privilege = "Administrator"
            /\ Updated(accounts[u], op[r]).status = "Active"
        BY <3>2, <3>4, <3>7, UpdatedKeepsAdmin DEF ActiveAdmins, IsAdmin
      <4>2. u \in ActiveAdmins'
        BY <3>3, <3>4, <3>5, <4>1, NoAccountAssumption
           DEF ActiveAdmins, Registered, IsAdmin, IInv, TypeOK
      <4> QED
        BY <4>2
    <3>9. SafeToRemove(op[r])
      BY <2>2, <3>2, <3>8 DEF Update, IInv, StillSafe
    <3>10. Cardinality(ActiveAdmins) > 1
      BY <3>7, <3>9 DEF SafeToRemove
    <3>11. IsFiniteSet(ActiveAdmins)
      BY UserIdsAssumption, FS_Subset DEF ActiveAdmins, Registered
    <3> QED
      BY <3>6, <3>10, <3>11, AnotherElement
  <2>3. ASSUME NEW u \in UserIds \ Registered, NEW a \in Account,
               accounts' = [accounts EXCEPT ![u] = a]
        PROVE  FALSE
    BY <2>3, OthersStayAdministrators DEF ActiveAdmins
  <2>4. ASSUME NEW r \in Requests, Save(r)
        PROVE  FALSE
    <3>1. PICK u \in UserIds \ Registered :
            accounts' = [accounts EXCEPT ![u] =
                           NewAccount(op[r].value, "Member", op[r].profile)]
      BY <2>1, <2>4 DEF Save, Reject, Respond
    <3>2. op[r] \in Operations /\ op[r].kind = "register"
      BY <2>4 DEF Save, IInv, TypeOK
    <3>3. NewAccount(op[r].value, "Member", op[r].profile) \in Account
      BY <3>2 DEF NewAccount, Account, Operations, StatusChanges, PrivilegeChanges,
   ProfileChanges, PasswordChanges, Registrations, Change, Statuses, Privileges
    <3> QED
      BY <2>3, <3>1, <3>3
  <2>5. CASE SeedSave
    <3>1. PICK u \in UserIds \ Registered, p \in Profiles :
            accounts' = [accounts EXCEPT ![u] =
                           NewAccount(DefaultAdmin, "Administrator", p)]
      BY <2>1, <2>5 DEF SeedSave
    <3>2. NewAccount(DefaultAdmin, "Administrator", p) \in Account
      BY DefaultAdminAssumption DEF NewAccount, Account, Statuses, Privileges
    <3> QED
      BY <2>3, <3>1, <3>2
  <2>6. ~SeedFind /\ ~Restart
    BY <2>1 DEF SeedFind, Restart
  <2>7. ASSUME NEW r \in Requests, Handle(r)
        PROVE  Update(r) \/ Save(r)
    BY <2>1, <2>7 DEF Handle, Receive, Authorize, ReadTarget, FindTarget, FindTargetOf,
                      CountAdmins, CheckName, Reject, Respond, GoTo
  <2> QED
    BY <2>2, <2>4, <2>5, <2>6, <2>7 DEF Next
<1> QED
  BY <1>1, Invariance, PTL DEF Spec, LastAdminLostOnlyToARace

=============================================================================
