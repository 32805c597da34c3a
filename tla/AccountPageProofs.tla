--------------------------- MODULE AccountPageProofs ---------------------------
(***************************************************************************)
(* Proofs about AccountPage, for any accounts and any number of taps,      *)
(* writes and faults: the page of an orderly session shows the stored      *)
(* account and its socket is in that account's room, and an inactivation   *)
(* ends the session of an owner who still bears the name of the login.     *)
(* The inductive invariant says, for every point                           *)
(* between a tap and its last event, where the account that is stored can  *)
(* be found: on the page, in the last event on its way, in the answer of   *)
(* the server or in the request that has just been written.                *)
(***************************************************************************)
EXTENDS AccountPage, SequenceTheorems, TLAPS

\* What a request may ask for in a field.
ValuesOf(field) ==
  {v \in Names : field = "name"} \cup {v \in Statuses : field = "status"}
    \cup {v \in Details : field = "details"}

Stored ==
  /\ \A i \in Ids : accounts[i].id = i
  /\ \A i, j \in Ids : accounts[i].name = accounts[j].name => i = j

\* A page that has gone has no socket and waits for nothing; one that is opening
\* waits for at most one answer.
Stages ==
  /\ page.stage = "out" =>
       ~connected /\ rooms = {} /\ joining = <<>> /\ down = <<>> /\ loads = <<>>
  /\ page.confirm # NoName => page.stage = "ready"
  /\ page.stage = "ready" => \A n \in DOMAIN loads : loads[n].kind = "select"
  /\ page.stage = "opening" =>
       /\ Len(loads) <= 1
       /\ \A n \in DOMAIN loads :
            \/ loads[n].kind = "open"
            \/ loads[n].kind = "users" /\ page.current # None /\ page.viewing # None

Sent(p) ==
  /\ p.value \in ValuesOf(p.field)
  /\ p.step = "written" => p.account # None
  /\ p.by = "save" => /\ p.base # None
                      /\ page.stage # "out" => page.stage = "ready" /\ page.form # None

Sents == \A n \in DOMAIN patches : Sent(patches[n])

Base == TypeOK /\ Stored /\ Stages /\ Sents

-----------------------------------------------------------------------------
(* The inductive invariant *)

ToLogOut(p) == p.step = "written" /\ Inactivates(p) /\ p.account.name = token

\* The forced logout of an owner who still bears the token's name is in the request
\* that was written or on its way to the page.
DoomIsNear ==
  token \in doomed => \/ page.stage = "out"
                      \/ /\ connected
                         /\ \/ \E n \in DOMAIN patches : ToLogOut(patches[n])
                            \/ \E n \in DOMAIN down : down[n].event = "forceLogout"

Viewed == accounts[page.viewing.id]

\* Until the page is up it has the owner's account, or is about to get it.
OpensInOrder ==
  orderly /\ page.stage = "opening" /\ loads # <<>> =>
    /\ patches = <<>> /\ up = <<>> /\ joining = <<>> /\ down = <<>>
    /\ rooms = {} /\ token = accounts[Me].name
    /\ \/ /\ loads[1].kind = "open" /\ loads[1].name = token
          /\ loads[1].account # None => loads[1].account = accounts[Me]
       \/ /\ loads[1].kind = "users" /\ admin
          /\ page.current = accounts[Me] /\ page.viewing = accounts[Me]

Asking(name)  == [event |-> "subscribeAccount", name |-> name]
Leaving(name) == [event |-> "unsubscribeAccount", name |-> name]

\* Once all that is on its way has arrived, the socket is in the room of that name.
Heading(name) ==
  \/ \E n \in DOMAIN up : /\ up[n] = Asking(name)
                          /\ \A m \in DOMAIN up : m > n => up[m] # Leaving(name)
  \/ /\ \A n \in DOMAIN up : up[n] # Leaving(name)
     /\ name \in rooms \/ \E n \in DOMAIN joining : joining[n] = name

\* The owner selects accounts, any number of them at a time.
Moving ==
  /\ patches = <<>> /\ down = <<>>
  /\ page.viewing = Viewed /\ Heading(Viewed.name)
  /\ token = accounts[Me].name /\ (admin \/ page.viewing.id = Me)
  /\ loads # <<>> => admin
  /\ \A n \in DOMAIN loads :
       loads[n].account # None => loads[n].account = accounts[loads[n].account.id]

\* The account the page shows once it has handled what is on its way.
Latest == IF down = <<>> THEN page.viewing ELSE down[Len(down)].account

\* What is on its way is about the account on show ...
EventsHere ==
  /\ \A n \in DOMAIN down : down[n].account.id = page.viewing.id
  /\ Latest = Viewed

\* ... or about another, whose room the socket has stayed in.
EventsElsewhere ==
  /\ page.viewing = Viewed
  /\ \A n \in DOMAIN down : /\ down[n].account.id \in Ids \ {page.viewing.id}
                            /\ down[n].account = accounts[down[n].account.id]

UpToDate == (EventsHere \/ EventsElsewhere) /\ Viewed.name \in rooms

NotWritten(p) ==
  /\ p.step # "written" /\ UpToDate
  /\ p.step # "answered" => /\ EventsHere /\ p.account = None
                            /\ p.by \in {"save", "toggle"} => p.name = Viewed.name
                            /\ p.by \in {"confirm", "others"} => down = <<>>
  /\ p.by = "save" => EventsHere /\ SavedSoFar(p) = Viewed
  /\ p.by = "toggle" => EventsHere /\ p.account \in {None, Viewed}

WrittenHere(p) ==
  /\ p.step = "written" /\ p.account = Viewed /\ p.name \in rooms
  /\ p.field # "name" => p.account.name = p.name
  /\ \A n \in DOMAIN down : down[n].account.id = page.viewing.id

WrittenElsewhere(p) ==
  /\ p.step = "written" /\ p.by \in {"confirm", "others"}
  /\ down = <<>> /\ page.viewing = Viewed /\ Viewed.name \in rooms
  /\ p.account.id # page.viewing.id /\ p.account = accounts[p.account.id]
  /\ p.name # Viewed.name

OnTheWay(p) == NotWritten(p) \/ WrittenHere(p) \/ WrittenElsewhere(p)

Following ==
  /\ loads = <<>> /\ up = <<>> /\ joining = <<>>
  /\ \/ patches = <<>> /\ UpToDate
     \/ Len(patches) = 1 /\ OnTheWay(patches[1])

NoLogout == \A n \in DOMAIN down : down[n].event = "accountUpdated"

StaysInOrder ==
  orderly /\ page.stage = "ready" /\ NoLogout => Moving \/ Following

IInv == Base /\ DoomIsNear /\ OpensInOrder /\ StaysInOrder

-----------------------------------------------------------------------------
(* Sequences *)

LEMMA RemoveAtProperties ==
  ASSUME NEW S, NEW s \in Seq(S), NEW i \in DOMAIN s
  PROVE  /\ RemoveAt(s, i) \in Seq(S)
         /\ Len(RemoveAt(s, i)) = Len(s) - 1
         /\ \A j \in DOMAIN RemoveAt(s, i) : \E k \in DOMAIN s : k # i /\ RemoveAt(s, i)[j] = s[k]
         /\ \A k \in DOMAIN s : k # i => \E j \in DOMAIN RemoveAt(s, i) : RemoveAt(s, i)[j] = s[k]
<1> DEFINE r == RemoveAt(s, i)
           h == SubSeq(s, 1, i - 1)
           t == SubSeq(s, i + 1, Len(s))
<1>1. Len(s) \in Nat /\ DOMAIN s = 1..Len(s) /\ i \in 1..Len(s) /\ \A k \in 1..Len(s) : s[k] \in S
  BY LenProperties
<1>2. r = h \o t
  BY DEF RemoveAt
<1>3. h \in Seq(S) /\ Len(h) = i - 1 /\ \A j \in 1..i - 1 : h[j] = s[j]
  <2>1. \A j \in 1..i - 1 : s[j] \in S
    BY <1>1
  <2>2. i - 1 \in Int /\ 1 \in Int /\ (i - 1) - 1 + 1 = i - 1
    BY <1>1
  <2>3. /\ h \in Seq(S) /\ Len(h) = IF 1 <= i - 1 THEN (i - 1) - 1 + 1 ELSE 0
        /\ \A j \in 1..(i - 1) - 1 + 1 : h[j] = s[1 + j - 1]
    BY <2>1, <2>2, SubSeqProperties
  <2> QED
    BY <1>1, <2>2, <2>3
<1>4. t \in Seq(S) /\ Len(t) = Len(s) - i /\ \A j \in 1..Len(s) - i : t[j] = s[i + j]
  <2>1. \A j \in i + 1..Len(s) : s[j] \in S
    BY <1>1
  <2>2. i + 1 \in Int /\ Len(s) \in Int
    BY <1>1
  <2>3. /\ t \in Seq(S) /\ Len(t) = IF i + 1 <= Len(s) THEN Len(s) - (i + 1) + 1 ELSE 0
        /\ \A j \in 1..Len(s) - (i + 1) + 1 : t[j] = s[(i + 1) + j - 1]
    BY <2>1, <2>2, SubSeqProperties
  <2> QED
    BY <1>1, <2>3
<1> HIDE DEF r, h, t
<1>5. /\ r \in Seq(S) /\ Len(r) = Len(s) - 1
      /\ \A j \in 1..Len(s) - 1 : r[j] = IF j <= i - 1 THEN h[j] ELSE t[j - (i - 1)]
  <2>1. /\ h \o t \in Seq(S) /\ Len(h \o t) = Len(h) + Len(t)
        /\ \A j \in 1..Len(h) + Len(t) : (h \o t)[j] = IF j <= Len(h) THEN h[j] ELSE t[j - Len(h)]
    BY <1>3, <1>4, ConcatProperties
  <2>2. Len(h) + Len(t) = Len(s) - 1
    BY <1>1, <1>3, <1>4
  <2> QED
    BY <1>2, <1>3, <2>1, <2>2
<1>6. DOMAIN r = 1..Len(s) - 1
  BY <1>5, LenProperties
<1>7. \A j \in 1..Len(s) - 1 : r[j] = s[IF j < i THEN j ELSE j + 1]
  <2> SUFFICES ASSUME NEW j \in 1..Len(s) - 1 PROVE r[j] = s[IF j < i THEN j ELSE j + 1]
    OBVIOUS
  <2>1. CASE j < i
    <3>1. j \in 1..i - 1 /\ j <= i - 1
      BY <1>1, <2>1
    <3> QED
      BY <1>3, <1>5, <2>1, <3>1
  <2>2. CASE ~(j < i)
    <3>1. j - (i - 1) \in 1..Len(s) - i /\ ~(j <= i - 1) /\ i + (j - (i - 1)) = j + 1
      BY <1>1, <2>2
    <3>2. r[j] = t[j - (i - 1)]
      BY <1>5, <3>1
    <3> QED
      BY <1>4, <2>2, <3>1, <3>2
  <2> QED
    BY <2>1, <2>2
<1>8. \A j \in DOMAIN r : \E k \in DOMAIN s : k # i /\ r[j] = s[k]
  BY <1>1, <1>6, <1>7
<1>9. \A k \in DOMAIN s : k # i => \E j \in DOMAIN r : r[j] = s[k]
  <2> SUFFICES ASSUME NEW k \in 1..Len(s), k # i PROVE \E j \in 1..Len(s) - 1 : r[j] = s[k]
    BY <1>1, <1>6
  <2>1. CASE k < i
    BY <1>1, <1>7, <2>1
  <2>2. CASE k > i
    <3>1. k - 1 \in 1..Len(s) - 1 /\ r[k - 1] = s[k]
      BY <1>1, <1>7, <2>2
    <3> QED
      BY <3>1
  <2> QED
    BY <1>1, <2>1, <2>2
<1> QED
  BY <1>5, <1>8, <1>9 DEF r

LEMMA OneLess ==
  ASSUME NEW S, NEW s \in Seq(S), NEW n \in DOMAIN s, Len(s) = 1
  PROVE  RemoveAt(s, n) = <<>> /\ n = 1
<1>1. RemoveAt(s, n) \in Seq(S) /\ Len(RemoveAt(s, n)) = 0
  BY RemoveAtProperties
<1> QED
  BY <1>1

LEMMA AppendedSequence ==
  ASSUME NEW S, NEW s \in Seq(S), NEW x \in S
  PROVE  /\ Append(s, x) \in Seq(S) /\ Len(Append(s, x)) = Len(s) + 1
         /\ \A n \in DOMAIN Append(s, x) : Append(s, x)[n] = x \/ (n \in DOMAIN s /\ Append(s, x)[n] = s[n])
         /\ \A n \in DOMAIN s : n \in DOMAIN Append(s, x) /\ Append(s, x)[n] = s[n]
<1> DEFINE t == Append(s, x)
<1>1. t \in Seq(S) /\ Len(t) = Len(s) + 1 /\ t[Len(s) + 1] = x /\ \A n \in 1..Len(s) : t[n] = s[n]
  OBVIOUS
<1>2. DOMAIN t = 1..Len(s) + 1 /\ DOMAIN s = 1..Len(s) /\ Len(s) \in Nat
  BY <1>1, LenProperties
<1> HIDE DEF t
<1>3. \A n \in DOMAIN t : t[n] = x \/ (n \in DOMAIN s /\ t[n] = s[n])
  BY <1>1, <1>2
<1>4. \A n \in DOMAIN s : n \in DOMAIN t /\ t[n] = s[n]
  BY <1>1, <1>2
<1> QED
  BY <1>1, <1>3, <1>4 DEF t

-----------------------------------------------------------------------------
(* Accounts *)

LEMMA NoneIsNoAccount == None \notin Account /\ None \notin Form
<1>1. \A a \in Account : "name" \in DOMAIN a
  BY DEF Account
<1>2. \A a \in Form : "name" \in DOMAIN a
  BY DEF Form
<1>3. "name" \notin DOMAIN None
  BY DEF None
<1> QED
  BY <1>1, <1>2, <1>3

\* A write of one field leaves the others alone.
LEMMA WrittenField ==
  ASSUME NEW a \in Account, NEW field \in Fields, NEW v \in ValuesOf(field)
  PROVE  LET b == [a EXCEPT ![field] = v] IN
         /\ b \in Account /\ b.id = a.id
         /\ b.name = IF field = "name" THEN v ELSE a.name
<1>1. CASE field = "name"
  BY <1>1 DEF Account, Fields, ValuesOf
<1>2. CASE field = "status"
  BY <1>2 DEF Account, Fields, ValuesOf
<1>3. CASE field = "details"
  BY <1>3 DEF Account, Fields, ValuesOf
<1> QED
  BY <1>1, <1>2, <1>3 DEF Fields

\* The value of a field of an account or of the form.
LEMMA FieldOfForm ==
  ASSUME NEW f \in Form, NEW field \in Fields
  PROVE  f[field] \in ValuesOf(field) /\ ValuesOf(field) \subseteq Names \cup Statuses \cup Details
<1>1. CASE field = "name"
  BY <1>1 DEF Form, Fields, ValuesOf
<1>2. CASE field = "status"
  BY <1>2 DEF Form, Fields, ValuesOf
<1>3. CASE field = "details"
  BY <1>3 DEF Form, Fields, ValuesOf
<1> QED
  BY <1>1, <1>2, <1>3 DEF Fields

LEMMA TypeOfNames ==
  /\ NewName \in Names /\ Me \in Ids
  /\ \A i \in Ids : FirstName[i] \in Names
BY AccountPageAssumption DEF Names

LEMMA BegunIsPatch ==
  ASSUME NEW by \in {"save", "toggle", "confirm", "others"}, NEW name \in Names,
         NEW field \in Fields, NEW v \in ValuesOf(field)
  PROVE  Begun(by, name, field, v) \in Patch
<1>1. v \in Names \cup Statuses \cup Details
  BY DEF ValuesOf
<1>2. <<>> \in Seq(Fields)
  OBVIOUS
<1> QED
  BY <1>1, <1>2 DEF Begun, Patch, Maybe, Statuses

-----------------------------------------------------------------------------
(* The types *)

LEMMA InitBase == Init => Base
<1> SUFFICES ASSUME Init PROVE Base
  OBVIOUS
<1> USE TypeOfNames, NoneIsNoAccount DEF Init
<1>1. accounts \in [Ids -> Account] /\ Stored
  BY AccountPageAssumption DEF Stored, Account, Statuses, Details
<1>2. page \in Page /\ page.stage = "opening" /\ ~page.editing /\ page.confirm = NoName
  BY DEF Closed, Page, Maybe
<1>3. loads \in Seq(Load) /\ Len(loads) = 1 /\ DOMAIN loads = {1} /\ loads[1].kind = "open"
  BY DEF Opening, Load, Maybe
<1>4. patches \in Seq(Patch) /\ DOMAIN patches = {}
  OBVIOUS
<1>5. up \in Seq(Ask) /\ joining \in Seq(Names) /\ down \in Seq(Event)
  OBVIOUS
<1>6. token \in Names
  OBVIOUS
<1>7. TypeOK
  <2>1. \A i, j \in Ids : i # j => accounts[i].name # accounts[j].name
    BY AccountPageAssumption
  <2>2. taps \in 0..MaxTaps /\ writes \in 0..MaxWrites /\ faults \in 0..MaxFaults
    BY AccountPageAssumption
  <2>3. admin \in BOOLEAN /\ connected \in BOOLEAN /\ rooms \subseteq Names
    OBVIOUS
  <2>4. orderly \in BOOLEAN /\ doomed \subseteq Names
    OBVIOUS
  <2>5. page.stage = "ready" => FALSE
    BY <1>2
  <2> QED
    BY ONLY <1>1, <1>2, <1>3, <1>4, <1>5, <1>6, <2>1, <2>2, <2>3, <2>4, <2>5 DEF TypeOK
<1>8. Stages /\ Sents
  BY <1>2, <1>3, <1>4 DEF Stages, Sents
<1> QED
  BY <1>1, <1>7, <1>8 DEF Base

\* A patch that moves on.
LEMMA Advanced ==
  ASSUME Base, NEW n \in DOMAIN patches, NEW q \in Patch, Sent(q), Advance(n, q),
         UNCHANGED page
  PROVE  /\ patches' \in Seq(Patch) /\ Sents' /\ DOMAIN patches' = DOMAIN patches
         /\ Len(patches') = Len(patches)
         /\ patches'[n] = q /\ \A m \in DOMAIN patches : m # n => patches'[m] = patches[m]
<1>1. patches \in Seq(Patch) /\ DOMAIN patches = 1..Len(patches)
  BY LenProperties DEF Base, TypeOK
<1>2. /\ patches' \in Seq(Patch) /\ Len(patches') = Len(patches)
      /\ \A m \in 1..Len(patches) : patches'[m] = IF m = n THEN q ELSE patches[m]
  BY <1>1, ExceptSeq DEF Advance
<1>3. DOMAIN patches' = 1..Len(patches)
  BY <1>2, LenProperties
<1>4. Sents'
  BY <1>1, <1>2, <1>3 DEF Base, Sents, Sent
<1> QED
  BY <1>1, <1>2, <1>3, <1>4

\* A patch in its sequence.
LEMMA APatch ==
  ASSUME Base, NEW n \in DOMAIN patches
  PROVE  patches[n] \in Patch /\ Sent(patches[n])
<1>1. patches \in Seq(Patch)
  BY DEF Base, TypeOK
<1> QED
  BY <1>1, ElementOfSeq, LenProperties DEF Base, Sents

LEMMA ALoad ==
  ASSUME Base, NEW n \in DOMAIN loads
  PROVE  loads[n] \in Load
<1>1. loads \in Seq(Load)
  BY DEF Base, TypeOK
<1> QED
  BY <1>1, ElementOfSeq, LenProperties

\* Names are unique.
LEMMA OneIsNamed ==
  ASSUME Base, NEW i \in Ids, NEW j \in Named(accounts[i].name)
  PROVE  j = i
BY DEF Base, Stored, Named

\* What a GET finds.
LEMMA ServedLoad ==
  ASSUME Base, NEW n \in DOMAIN loads, ServeLoad(n)
  PROVE  /\ loads' \in Seq(Load) /\ Len(loads') = Len(loads) /\ DOMAIN loads' = DOMAIN loads
         /\ \A m \in DOMAIN loads : loads'[m].kind = loads[m].kind /\ loads'[m].name = loads[m].name
         /\ \A m \in DOMAIN loads : m # n => loads'[m] = loads[m]
         /\ loads'[n].account # None => /\ loads'[n].account.id \in Ids
                                        /\ loads'[n].account = accounts[loads'[n].account.id]
                                        /\ loads'[n].account.name = loads[n].name
<1> DEFINE l == loads[n]
           allowed == admin \/ accounts[Me].name = l.name
           found == IF allowed /\ Named(l.name) # {}
                    THEN accounts[CHOOSE i \in Named(l.name) : TRUE] ELSE None
           q == [l EXCEPT !.step = "served", !.account = found]
<1>1. l \in Load
  BY ALoad
<1>2. found = None \/ \E i \in Ids : found = accounts[i] /\ found.name = l.name /\ found.id = i
  BY DEF Named, Base, Stored
<1>3. found \in Maybe
  BY <1>2 DEF Base, TypeOK, Maybe
<1> HIDE DEF found
<1>4. q \in Load /\ q.kind = l.kind /\ q.name = l.name /\ q.account = found
  BY <1>1, <1>3 DEF Load
<1>5. loads' = [loads EXCEPT ![n] = q]
  <2>1. loads' = [loads EXCEPT ![n].step = "served", ![n].account = found]
    BY DEF ServeLoad, found
  <2> QED
    BY <2>1, <1>1 DEF Load
<1>6. loads \in Seq(Load) /\ DOMAIN loads = 1..Len(loads)
  BY LenProperties DEF Base, TypeOK
<1>7. /\ loads' \in Seq(Load) /\ Len(loads') = Len(loads)
      /\ \A m \in 1..Len(loads) : loads'[m] = IF m = n THEN q ELSE loads[m]
  BY <1>4, <1>5, <1>6, ExceptSeq
<1>8. DOMAIN loads' = DOMAIN loads
  BY <1>6, <1>7, LenProperties
<1> QED
  BY <1>2, <1>4, <1>6, <1>7, <1>8

LEMMA ServeLoadKeepsBase ==
  ASSUME Base, NEW n \in DOMAIN loads, ServeLoad(n)
  PROVE  Base'
<1>1. loads' \in Seq(Load) /\ Len(loads') = Len(loads) /\ DOMAIN loads' = DOMAIN loads
      /\ \A m \in DOMAIN loads : loads'[m].kind = loads[m].kind
  BY ServedLoad
<1>2. UNCHANGED <<accounts, admin, token, page, patches, connected, up, joining, rooms, down, orderly,
                  doomed, taps, writes, faults>>
  BY DEF ServeLoad, socket, counters
<1>3. loads' = <<>> <=> loads = <<>>
  BY <1>1 DEF Base, TypeOK
<1>4. TypeOK'
  BY <1>1, <1>2 DEF Base, TypeOK
<1>5. Stages'
  BY <1>1, <1>2, <1>3 DEF Base, Stages
<1> QED
  BY <1>2, <1>4, <1>5 DEF Base, Stored, Sents, Sent

LEMMA ReadStatusKeepsBase ==
  ASSUME Base, NEW n \in DOMAIN patches, ReadStatus(n)
  PROVE  /\ Base'
         /\ \E q \in Patch : /\ Advance(n, q) /\ q.step \in {"read", "answered"}
                             /\ q.account = patches[n].account
                             /\ q.by = patches[n].by /\ q.name = patches[n].name
                             /\ q.base = patches[n].base
<1> DEFINE p == patches[n]
<1>1. p \in Patch /\ Sent(p)
  BY APatch
<1>2. PICK q : /\ Advance(n, q)
               /\ \/ q = Refused(p)
                  \/ \E i \in Named(p.name) : q = [p EXCEPT !.step = "read", !.seen = accounts[i].status]
  BY DEF ReadStatus
<1>3. \A i \in Named(p.name) : accounts[i].status \in Statuses
  BY DEF Base, TypeOK, Named, Account
<1>4. /\ q \in Patch /\ Sent(q) /\ q.step \in {"read", "answered"} /\ q.account = p.account
      /\ q.by = p.by /\ q.name = p.name /\ q.base = p.base
  BY <1>1, <1>2, <1>3 DEF Refused, Sent, Patch
<1>5. UNCHANGED <<accounts, admin, token, page, loads, connected, up, joining, rooms, down, orderly,
                  doomed, taps, writes, faults>>
  BY DEF ReadStatus, socket, counters
<1>6. patches' \in Seq(Patch) /\ Sents'
  BY <1>2, <1>4, <1>5, Advanced
<1>7. Base'
  BY <1>5, <1>6 DEF Base, TypeOK, Stored, Stages
<1> QED
  BY <1>2, <1>4, <1>7

\* What a write does: it is refused, or it changes a field of the account of that name.
Writes(n, i, a, q) ==
  LET p == patches[n] IN
  /\ accounts[i].name = p.name
  /\ a \in Account /\ a.id = i /\ a.name = IF p.field = "name" THEN p.value ELSE accounts[i].name
  /\ accounts' = [accounts EXCEPT ![i] = a]
  /\ \A j \in Ids : j # i => accounts[j].name # a.name
  /\ q \in Patch /\ Advance(n, q)
  /\ q.step = "written" /\ q.account = a /\ q.name = p.name /\ q.field = p.field /\ q.by = p.by
  /\ q.value = p.value /\ q.seen = p.seen /\ q.base = p.base
  /\ doomed' = doomed \cup (IF Inactivates(p) /\ i = Me /\ connected /\ page.stage # "out"
                            THEN {accounts[i].name} ELSE {})

RefusedWrite(n, q) ==
  LET p == patches[n] IN
  /\ q \in Patch /\ Advance(n, q) /\ q.step = "answered"
  /\ q.account = p.account /\ q.base = p.base /\ q.by = p.by
  /\ UNCHANGED <<accounts, doomed>>

LEMMA WriteEffect ==
  ASSUME Base, NEW n \in DOMAIN patches, Write(n)
  PROVE  /\ Base'
         /\ patches[n].step \in {"sent", "read"}
         /\ UNCHANGED <<admin, token, page, loads, connected, up, joining, rooms, down, orderly>>
         /\ \/ \E q \in Patch : RefusedWrite(n, q)
            \/ \E i \in Ids, a \in Account, q \in Patch : Writes(n, i, a, q)
<1> DEFINE p == patches[n]
<1>1. p \in Patch /\ Sent(p)
  BY APatch
<1>2. /\ p.step \in {"sent", "read"}
      /\ UNCHANGED <<admin, token, page, loads, connected, up, joining, rooms, down, orderly, taps, writes, faults>>
  BY DEF Write, socket, counters
<1>3. CASE Advance(n, Refused(p)) /\ UNCHANGED <<accounts, doomed>>
  <2> DEFINE q == Refused(p)
  <2>1. q \in Patch /\ Sent(q) /\ q.step = "answered" /\ q.account = p.account /\ q.base = p.base /\ q.by = p.by
    BY <1>1 DEF Refused, Patch, Sent
  <2>2. patches' \in Seq(Patch) /\ Sents'
    BY <1>2, <1>3, <2>1, Advanced
  <2>3. Base'
    BY <1>2, <1>3, <2>2 DEF Base, TypeOK, Stored, Stages
  <2>4. RefusedWrite(n, q)
    BY <1>3, <2>1 DEF RefusedWrite
  <2> QED
    BY <1>2, <2>1, <2>3, <2>4
<1>4. CASE ~(Advance(n, Refused(p)) /\ UNCHANGED <<accounts, doomed>>)
  <2>1. PICK i \in Named(p.name) :
           /\ Fits(p)
           /\ accounts' = [accounts EXCEPT ![i][p.field] = p.value]
           /\ Advance(n, [p EXCEPT !.step = "written", !.account = accounts'[i]])
           /\ doomed' = doomed \cup (IF Inactivates(p) /\ i = Me /\ connected /\ page.stage # "out"
                                   THEN {accounts[i].name} ELSE {})
    BY <1>4 DEF Write
  <2> DEFINE a == [accounts[i] EXCEPT ![p.field] = p.value]
             q == [p EXCEPT !.step = "written", !.account = a]
  <2>2. i \in Ids /\ accounts[i].name = p.name /\ accounts \in [Ids -> Account] /\ accounts[i].id = i
    BY DEF Named, Base, TypeOK, Stored
  <2>3. accounts' = [accounts EXCEPT ![i] = a] /\ accounts'[i] = a
    BY <2>1, <2>2
  <2>4. p.field \in Fields /\ p.value \in ValuesOf(p.field)
    BY <1>1 DEF Patch, Sent
  <2>5. a \in Account /\ a.id = i /\ a.name = IF p.field = "name" THEN p.value ELSE accounts[i].name
    BY <2>2, <2>4, WrittenField
  <2>6. \A j \in Ids : j # i => accounts[j].name # a.name
    BY <2>1, <2>2, <2>5 DEF Fits, Named, Base, Stored
  <2> HIDE DEF a
  <2>7. /\ q \in Patch /\ q.step = "written" /\ q.account = a /\ q.name = p.name /\ q.field = p.field
        /\ q.by = p.by /\ q.value = p.value /\ q.seen = p.seen /\ q.base = p.base
    BY <1>1, <2>5 DEF Patch, Maybe
  <2>8. Sent(q)
    BY <1>1, <2>5, <2>7, NoneIsNoAccount DEF Sent
  <2>9. Advance(n, q)
    BY <2>1, <2>3
  <2>10. patches' \in Seq(Patch) /\ Sents'
    BY <1>2, <2>7, <2>8, <2>9, Advanced
  <2> HIDE DEF q
  <2>11. accounts' \in [Ids -> Account]
    BY <2>2, <2>3, <2>5
  <2>12. Stored' /\ \A k, j \in Ids : k # j => accounts'[k].name # accounts'[j].name
    BY <2>2, <2>3, <2>5, <2>6 DEF Base, Stored
  <2>13. doomed' \subseteq Names
    BY <2>1, <2>2 DEF Base, TypeOK, Account
  <2>14. Base'
    BY <1>2, <2>10, <2>11, <2>12, <2>13 DEF Base, TypeOK, Stages
  <2>15. Writes(n, i, a, q)
    BY <2>1, <2>2, <2>3, <2>5, <2>6, <2>7, <2>9 DEF Writes
  <2> QED
    BY <1>2, <2>2, <2>5, <2>7, <2>14, <2>15
<1> QED
  BY <1>3, <1>4

LEMMA AnnounceKeepsBase ==
  ASSUME Base, NEW n \in DOMAIN patches, Announce(n)
  PROVE  /\ Base'
         /\ UNCHANGED <<accounts, admin, token, page, loads, connected, up, joining, doomed>>
         /\ orderly' => orderly
         /\ \E q \in Patch : /\ Advance(n, q) /\ q.step = "answered"
                             /\ q.by = patches[n].by /\ q.account \in {None, patches[n].account}
                             /\ orderly' /\ q.by = "save" => q.account = patches[n].account
<1> DEFINE p == patches[n]
<1>1. p \in Patch /\ Sent(p) /\ p.step = "written"
  BY APatch DEF Announce
<1>2. UNCHANGED <<accounts, admin, token, page, loads, connected, up, joining, doomed, taps, writes>>
  BY DEF Announce
<1>3. \E q \in Patch : /\ Advance(n, q) /\ Sent(q) /\ q.step = "answered"
                       /\ q.by = p.by /\ q.account \in {None, p.account}
                       /\ orderly' /\ q.by = "save" => q.account = p.account
  <2> DEFINE q == [p EXCEPT !.step = "answered"]
             l == [p EXCEPT !.step = "answered", !.account = None]
  <2>1. q \in Patch /\ Sent(q) /\ q.step = "answered" /\ q.by = p.by /\ q.account = p.account
    BY <1>1 DEF Patch, Sent
  <2>2. l \in Patch /\ Sent(l) /\ l.step = "answered" /\ l.by = p.by /\ l.account = None
    BY <1>1 DEF Patch, Sent, Maybe
  <2>3. Advance(n, q) \/ (Advance(n, l) /\ orderly' = (orderly /\ p.by # "save"))
    BY DEF Announce, Answered
  <2> HIDE DEF p, q, l
  <2> QED
    BY <2>1, <2>2, <2>3
<1>4. orderly' \in BOOLEAN /\ (orderly' => orderly) /\ faults' \in 0..MaxFaults
  <2>1. orderly \in BOOLEAN /\ faults \in 0..MaxFaults
    BY DEF Base, TypeOK
  <2>2. CASE UNCHANGED <<orderly, faults>>
    BY <2>1, <2>2
  <2>3. CASE faults < MaxFaults /\ faults' = faults + 1 /\ orderly' = (orderly /\ p.by # "save")
    <3>1. faults' \in 0..MaxFaults
      BY <2>1, <2>3, AccountPageAssumption
    <3>2. orderly' \in BOOLEAN /\ (orderly' => orderly)
      BY <2>3
    <3> QED
      BY <3>1, <3>2
  <2> QED
    BY <2>2, <2>3 DEF Announce, Answered
<1>5. patches' \in Seq(Patch) /\ Sents'
  BY <1>2, <1>3, Advanced
<1>6. p.account \in Account
  BY <1>1 DEF Patch, Sent, Maybe
<1>7. /\ Updated(p.name, p.account) \in Seq(Event) /\ Updated(p.account.name, p.account) \in Seq(Event)
      /\ ForcedLogout(p) \in Seq(Event)
  <2>1. \A e \in {"accountUpdated", "forceLogout"} : <<[event |-> e, account |-> p.account]>> \in Seq(Event)
    BY <1>6 DEF Event
  <2>2. <<>> \in Seq(Event)
    OBVIOUS
  <2> QED
    BY <2>1, <2>2 DEF Updated, ForcedLogout
<1>8. down \in Seq(Event) /\ rooms \subseteq Names /\ p.account.name \in Names
  BY <1>6 DEF Base, TypeOK, Account
<1>9. down' \in Seq(Event) /\ rooms' \subseteq Names
  <2>1. CASE p.field = "name"
    <3>1. down' = down \o Updated(p.name, p.account) /\ MoveSocketsToRoom(p.name, p.account.name)
      BY <2>1 DEF Announce
    <3>2. down' \in Seq(Event)
      BY <1>7, <1>8, <3>1, ConcatProperties
    <3>3. rooms' \subseteq Names
      BY <1>8, <3>1 DEF MoveSocketsToRoom
    <3> QED
      BY <3>2, <3>3
  <2>2. CASE p.field # "name"
    <3>1. down' = down \o Updated(p.account.name, p.account) \o ForcedLogout(p) /\ UNCHANGED rooms
      BY <2>2 DEF Announce
    <3>2. down \o Updated(p.account.name, p.account) \in Seq(Event)
      BY <1>7, <1>8, ConcatProperties
    <3>3. down' \in Seq(Event)
      BY <1>7, <3>1, <3>2, ConcatProperties
    <3> QED
      BY <1>8, <3>1, <3>3
  <2> QED
    BY <2>1, <2>2
<1>10. page.stage = "out" => down' = <<>> /\ rooms' = {}
  BY DEF Base, Stages, Announce, Updated, ForcedLogout, MoveSocketsToRoom
<1>11. Base'
  BY <1>2, <1>4, <1>5, <1>9, <1>10 DEF Base, TypeOK, Stored, Stages
<1> QED
  BY <1>2, <1>3, <1>4, <1>11

\* What the rest of a save does: it shows the account, or it sends the next field.
Resumed(pg, base, others) ==
  /\ page' \in Page /\ page'.stage = pg.stage /\ page'.current = pg.current
  /\ page'.form = pg.form /\ page'.editing \in {pg.editing, FALSE}
  /\ \/ page'.viewing = base /\ patches' = others
     \/ /\ page' = pg
        /\ \E q \in Patch : /\ patches' = Append(others, q)
                            /\ q.by = "save" /\ q.step = "sent" /\ q.account = None
                            /\ q.base = base /\ q.name = base.name /\ q.value \in ValuesOf(q.field)

LEMMA ResumeEffect ==
  ASSUME NEW pg \in Page, pg.form # None, NEW base \in Account, NEW left \in Seq(Fields),
         NEW failed \in BOOLEAN, NEW own \in BOOLEAN, NEW others \in Seq(Patch),
         Resume(pg, base, left, failed, own, others)
  PROVE  Resumed(pg, base, others)
<1> DEFINE changed == {i \in DOMAIN left : pg.form[left[i]] # base[left[i]]}
           deferred(f) == f = "status" /\ own /\ pg.form.status = "Inactive"
<1>1. pg.form \in Form /\ base \in Maybe /\ base.name \in Names
  BY DEF Page, Maybe, Account
<1>2. CASE /\ page' = [pg EXCEPT !.viewing = base, !.editing = @ /\ failed, !.savable = TRUE]
           /\ patches' = others
  BY <1>1, <1>2 DEF Resumed, Page
<1>3. ASSUME NEW i \in changed, deferred(left[i]),
             page' = [pg EXCEPT !.viewing = base, !.savable = TRUE, !.confirm = base.name],
             patches' = others
      PROVE  Resumed(pg, base, others)
  BY <1>1, <1>3 DEF Resumed, Page
<1>4. ASSUME NEW i \in changed, page' = pg,
             patches' = Append(others,
                       [Begun("save", base.name, left[i], pg.form[left[i]]) EXCEPT !.base = base,
                          !.left = SubSeq(left, i + 1, Len(left)), !.failed = failed, !.own = own])
      PROVE  Resumed(pg, base, others)
  <2> DEFINE b == Begun("save", base.name, left[i], pg.form[left[i]])
             q == [b EXCEPT !.base = base,
                          !.left = SubSeq(left, i + 1, Len(left)), !.failed = failed, !.own = own]
  <2>1. Len(left) \in Nat /\ i \in 1..Len(left) /\ \A j \in 1..Len(left) : left[j] \in Fields
    BY LenProperties
  <2>2. pg.form[left[i]] \in ValuesOf(left[i])
    BY <1>1, <2>1, FieldOfForm
  <2>3. /\ b \in Patch /\ b.by = "save" /\ b.step = "sent" /\ b.account = None /\ b.name = base.name
        /\ b.field = left[i] /\ b.value = pg.form[left[i]]
    <3>1. b \in Patch
      BY <1>1, <2>1, <2>2, BegunIsPatch
    <3> QED
      BY <3>1 DEF Begun
  <2>4. SubSeq(left, i + 1, Len(left)) \in Seq(Fields)
    BY <2>1, SubSeqProperties
  <2> HIDE DEF b
  <2>5. /\ q \in Patch /\ q.by = "save" /\ q.step = "sent" /\ q.account = None /\ q.name = base.name
        /\ q.base = base /\ q.field = left[i] /\ q.value = pg.form[left[i]]
    BY <1>1, <2>3, <2>4 DEF Patch
  <2>6. patches' = Append(others, q)
    BY <1>4 DEF b
  <2> QED
    BY <1>4, <2>2, <2>5, <2>6 DEF Resumed, Page
<1> QED
  BY <1>2, <1>3, <1>4 DEF Resume

\* The patches of a page that has resumed.
LEMMA ResumedPatches ==
  ASSUME NEW pg, NEW base \in Account, NEW others \in Seq(Patch), Resumed(pg, base, others),
         pg.stage = "ready", pg.form # None, \A n \in DOMAIN others : Sent(others[n])
  PROVE  patches' \in Seq(Patch) /\ Sents'
<1>1. page'.stage = "ready" /\ page'.form # None
  BY DEF Resumed
<1>2. CASE patches' = others
  BY <1>1, <1>2 DEF Sents, Sent
<1>3. CASE patches' # others
  <2>1. PICK q \in Patch : /\ patches' = Append(others, q)
                           /\ q.by = "save" /\ q.step = "sent" /\ q.account = None
                           /\ q.base = base /\ q.name = base.name /\ q.value \in ValuesOf(q.field)
    BY <1>3 DEF Resumed
  <2>2. /\ patches' \in Seq(Patch)
        /\ \A n \in DOMAIN patches' : patches'[n] = q \/ (n \in DOMAIN others /\ patches'[n] = others[n])
    BY <2>1, AppendedSequence
  <2>3. Sents'
    BY <1>1, <2>1, <2>2, NoneIsNoAccount DEF Sents, Sent
  <2> QED
    BY <2>2, <2>3
<1> QED
  BY <1>2, <1>3

LEMMA RemovedPatch ==
  ASSUME Base, NEW n \in DOMAIN patches
  PROVE  /\ RemoveAt(patches, n) \in Seq(Patch) /\ Len(RemoveAt(patches, n)) = Len(patches) - 1
         /\ \A m \in DOMAIN RemoveAt(patches, n) : Sent(RemoveAt(patches, n)[m])
         /\ \A k \in DOMAIN patches : k # n =>
              \E m \in DOMAIN RemoveAt(patches, n) : RemoveAt(patches, n)[m] = patches[k]
<1>1. patches \in Seq(Patch)
  BY DEF Base, TypeOK
<1> QED
  BY <1>1, RemoveAtProperties DEF Base, Sents

LEMMA SavedSoFarIsAccount ==
  ASSUME Base, NEW n \in DOMAIN patches, patches[n].by = "save"
  PROVE  SavedSoFar(patches[n]) \in Account
BY APatch DEF SavedSoFar, Sent, Patch, Maybe

LEMMA SaveAnsweredEffect ==
  ASSUME Base, page.stage # "out", NEW n \in DOMAIN patches, SaveAnswered(n)
  PROVE  /\ Resumed(page, SavedSoFar(patches[n]), RemoveAt(patches, n))
         /\ page.stage = "ready" /\ page.form # None
         /\ patches' \in Seq(Patch) /\ Sents'
<1>1. patches[n] \in Patch /\ Sent(patches[n]) /\ patches[n].by = "save"
  BY APatch DEF SaveAnswered
<1>2. page.stage = "ready" /\ page.form # None /\ page \in Page
  BY <1>1 DEF Sent, Base, TypeOK
<1>3. SavedSoFar(patches[n]) \in Account
  BY <1>1, SavedSoFarIsAccount
<1>4. patches[n].left \in Seq(Fields) /\ patches[n].own \in BOOLEAN /\ patches[n].failed \in BOOLEAN
  BY <1>1 DEF Patch
<1>5. (patches[n].failed \/ patches[n].account = None) \in BOOLEAN
  BY <1>4
<1>6. RemoveAt(patches, n) \in Seq(Patch) /\ \A m \in DOMAIN RemoveAt(patches, n) : Sent(RemoveAt(patches, n)[m])
  BY RemovedPatch
<1>7. Resume(page, SavedSoFar(patches[n]), patches[n].left, patches[n].failed \/ patches[n].account = None,
             patches[n].own, RemoveAt(patches, n))
  BY DEF SaveAnswered
<1>8. Resumed(page, SavedSoFar(patches[n]), RemoveAt(patches, n))
  BY <1>2, <1>3, <1>4, <1>5, <1>6, <1>7, ResumeEffect
<1> QED
  BY <1>2, <1>3, <1>6, <1>8, ResumedPatches

LEMMA LeaveIsOut ==
  ASSUME Base, Leave, patches' \in Seq(Patch),
         \A m \in DOMAIN patches' : Sent(patches'[m]),
         UNCHANGED <<accounts, admin, token>>, orderly' \in BOOLEAN, doomed' \subseteq Names,
         UNCHANGED counters
  PROVE  Base' /\ page'.stage = "out"
<1>1. page' \in Page /\ page'.stage = "out" /\ ~page'.editing /\ page'.confirm = NoName
  BY DEF Leave, Closed, Page, Maybe
<1>2. /\ loads' = <<>> /\ ~connected' /\ connected' \in BOOLEAN /\ up' = <<>> /\ joining' = <<>>
      /\ rooms' = {} /\ down' = <<>>
  BY DEF Leave
<1>3. loads' \in Seq(Load) /\ up' \in Seq(Ask) /\ joining' \in Seq(Names) /\ down' \in Seq(Event)
  BY <1>2
<1>4. Sents'
  BY <1>1 DEF Sents, Sent
<1>5. Stages'
  BY <1>1, <1>2 DEF Stages
<1>6. page'.stage # "ready"
  BY <1>1
<1>7. TypeOK'
  BY <1>1, <1>2, <1>3, <1>6 DEF TypeOK, Base, counters
<1> QED
  BY <1>1, <1>4, <1>5, <1>7 DEF Base, Stored

LEMMA AnswerKeepsBase ==
  ASSUME Base, NEW n \in DOMAIN patches, Answer(n)
  PROVE  Base'
<1>1. patches[n] \in Patch /\ Sent(patches[n]) /\ page \in Page
  BY APatch DEF Base, TypeOK
<1>2. UNCHANGED <<accounts, admin, token, orderly, doomed, taps, writes, faults>>
  BY DEF Answer, counters
<1>3. RemoveAt(patches, n) \in Seq(Patch) /\ \A m \in DOMAIN RemoveAt(patches, n) : Sent(RemoveAt(patches, n)[m])
  BY RemovedPatch
<1>4. CASE patches' = RemoveAt(patches, n) /\ UNCHANGED <<page, loads, connected, up, joining, rooms, down>>
  <2>1. Sents'
    BY <1>3, <1>4 DEF Sents, Sent
  <2> QED
    BY <1>2, <1>3, <1>4, <2>1 DEF Base, TypeOK, Stored, Stages
<1>5. CASE page.stage # "out" /\ SaveAnswered(n)
  <2>1. /\ Resumed(page, SavedSoFar(patches[n]), RemoveAt(patches, n))
        /\ page.stage = "ready" /\ page.form # None
        /\ patches' \in Seq(Patch) /\ Sents'
    BY <1>5, SaveAnsweredEffect
  <2>2. SavedSoFar(patches[n]) # None
    BY <1>5, SavedSoFarIsAccount, NoneIsNoAccount DEF SaveAnswered
  <2>3. page' \in Page /\ page'.stage = "ready" /\ page'.form # None /\ page'.viewing # None /\ page'.current # None
    BY <2>1, <2>2 DEF Resumed, Base, TypeOK
  <2>4. UNCHANGED <<loads, connected, up, joining, rooms, down>>
    BY <1>5 DEF SaveAnswered, socket
  <2>5. TypeOK'
    BY <1>2, <2>1, <2>3, <2>4 DEF Base, TypeOK
  <2>6. Stages'
    BY <2>1, <2>3, <2>4 DEF Base, Stages
  <2> QED
    BY <1>2, <2>1, <2>5, <2>6 DEF Base, Stored
<1>6. CASE page.stage # "out" /\ ToggleAnswered(n)
  <2>1. /\ patches' = RemoveAt(patches, n) /\ UNCHANGED <<loads, connected, up, joining, rooms, down>>
        /\ page' = IF patches[n].account = None THEN page ELSE [page EXCEPT !.viewing = patches[n].account]
    BY <1>6 DEF ToggleAnswered, socket
  <2>2. /\ page' \in Page /\ page'.stage = page.stage /\ page'.form = page.form /\ page'.editing = page.editing
        /\ page'.current = page.current /\ page'.confirm = page.confirm
        /\ page.viewing # None => page'.viewing # None
    BY <1>1, <2>1 DEF Page, Patch
  <2>3. Sents'
    BY <1>3, <2>1, <2>2 DEF Sents, Sent
  <2>4. TypeOK'
    BY <1>2, <1>3, <2>1, <2>2 DEF Base, TypeOK
  <2>5. Stages'
    BY <2>1, <2>2 DEF Base, Stages
  <2> QED
    BY <1>2, <2>3, <2>4, <2>5 DEF Base, Stored
<1>7. CASE patches' = RemoveAt(patches, n) /\ Leave
  BY <1>2, <1>3, <1>7, LeaveIsOut DEF Base, TypeOK, counters
<1> QED
  BY <1>4, <1>5, <1>6, <1>7 DEF Answer, ConfirmAnswered, OthersAnswered, socket

LEMMA SubscribeAsks ==
  ASSUME NEW name \in Names
  PROVE  Subscribe(name) \in Seq(Ask) /\ Unsubscribe(name) \in Seq(Ask)
BY DEF Subscribe, Unsubscribe, Ask

LEMMA LoadedKeepsBase ==
  ASSUME Base, NEW n \in DOMAIN loads, Loaded(n)
  PROVE  Base'
<1> DEFINE l == loads[n]
<1>1. l \in Load /\ page \in Page /\ loads \in Seq(Load) /\ Len(loads) \in Nat /\ DOMAIN loads = 1..Len(loads)
  BY ALoad, LenProperties DEF Base, TypeOK
<1>2. UNCHANGED <<accounts, admin, token, patches, connected, joining, rooms, down, orderly, doomed,
                  taps, writes, faults>>
  BY DEF Loaded, counters
<1>3. page.stage # "out" /\ page.stage \in {"opening", "ready"}
  BY <1>1 DEF Base, Stages, Page
<1>4. /\ RemoveAt(loads, n) \in Seq(Load) /\ Len(RemoveAt(loads, n)) = Len(loads) - 1
      /\ \A j \in DOMAIN RemoveAt(loads, n) : \E k \in DOMAIN loads : RemoveAt(loads, n)[j] = loads[k]
  BY <1>1, RemoveAtProperties
<1>5. up \in Seq(Ask)
  BY DEF Base, TypeOK
<1>6. page.stage = "opening" => Len(loads) = 1 /\ n = 1 /\ RemoveAt(loads, n) = <<>>
  <2> SUFFICES ASSUME page.stage = "opening"
               PROVE  Len(loads) = 1 /\ n = 1 /\ RemoveAt(loads, n) = <<>>
    OBVIOUS
  <2>1. Len(loads) = 1
    BY <1>1 DEF Base, Stages
  <2> QED
    BY <1>1, <2>1, OneLess
<1>7. l.kind # "select" => page.stage = "opening"
  BY <1>3 DEF Base, Stages
<1>8. page.editing => page.stage = "ready"
  BY DEF Base, TypeOK
<1>9. CASE l.kind = "open" /\ l.account # None
  <2>1. l.account \in Account /\ l.account.name \in Names
    BY <1>1, <1>9 DEF Load, Maybe, Account
  <2>2. /\ page' = [page EXCEPT !.current = l.account, !.viewing = l.account,
                                !.stage = IF admin THEN "opening" ELSE "ready"]
        /\ up' = IF admin THEN up ELSE up \o Subscribe(l.account.name)
        /\ loads' = IF admin THEN [loads EXCEPT ![n].kind = "users"] ELSE RemoveAt(loads, n)
    BY <1>9 DEF Loaded
  <2>3. /\ page' \in Page /\ page'.current # None /\ page'.viewing # None /\ ~page'.editing
        /\ page'.confirm = NoName /\ page'.stage = IF admin THEN "opening" ELSE "ready"
    BY <1>1, <1>7, <1>8, <1>9, <2>1, <2>2, NoneIsNoAccount DEF Page, Maybe, Base, TypeOK, Stages
  <2>4. up' \in Seq(Ask)
    BY <1>5, <2>1, <2>2, SubscribeAsks, ConcatProperties
  <2>5. /\ loads' \in Seq(Load)
        /\ admin => Len(loads') = 1 /\ loads'[1].kind = "users"
        /\ ~admin => loads' = <<>>
    <3>1. CASE admin
      <4> DEFINE q == [l EXCEPT !.kind = "users"]
      <4>1. q \in Load /\ q.kind = "users"
        BY <1>1 DEF Load
      <4>2. loads' = [loads EXCEPT ![n] = q]
        BY <2>2, <3>1
      <4> HIDE DEF q
      <4>3. loads' \in Seq(Load) /\ Len(loads') = Len(loads) /\ loads'[1] = q
        BY <1>1, <1>6, <1>7, <1>9, <4>1, <4>2, ExceptSeq
      <4> QED
        BY <1>6, <1>7, <1>9, <3>1, <4>1, <4>3
    <3>2. CASE ~admin
      BY <1>4, <1>6, <1>7, <1>9, <2>2, <3>2
    <3> QED
      BY <3>1, <3>2
  <2>6. DOMAIN loads' = 1..Len(loads')
    BY <2>5, LenProperties
  <2>7. Stages'
    BY <2>3, <2>5, <2>6 DEF Stages
  <2>8. Sents'
    <3>1. \A m \in DOMAIN patches : patches[m].by # "save"
      BY <1>3, <1>7, <1>9 DEF Base, Sents, Sent
    <3> QED
      BY <1>2, <3>1 DEF Base, Sents, Sent
  <2>9. TypeOK'
    BY <1>2, <2>3, <2>4, <2>5 DEF Base, TypeOK
  <2> QED
    BY <1>2, <2>7, <2>8, <2>9 DEF Base, Stored
<1>10. CASE /\ l.kind = "users"
            /\ page' = [page EXCEPT !.stage = "ready"]
            /\ up' = up \o Subscribe(page.current.name)
            /\ loads' = RemoveAt(loads, n)
  <2>1. page.current # None /\ page.viewing # None /\ page.current.name \in Names
    BY <1>1, <1>7, <1>10 DEF Base, Stages, Page, Maybe, Account
  <2>3. /\ page' \in Page /\ page'.current # None /\ page'.viewing # None /\ page'.stage = "ready"
        /\ page'.editing = page.editing /\ page'.form = page.form
    BY <1>1, <1>10, <2>1 DEF Page
  <2>4. up' \in Seq(Ask)
    BY <1>5, <1>10, <2>1, SubscribeAsks, ConcatProperties
  <2>5. loads' = <<>>
    BY <1>6, <1>7, <1>10
  <2>6. Stages'
    BY <2>3, <2>5 DEF Stages
  <2>7. Sents'
    BY <1>2, <1>3, <2>3 DEF Base, Sents, Sent
  <2>8. TypeOK'
    BY <1>2, <1>4, <1>10, <2>3, <2>4 DEF Base, TypeOK
  <2> QED
    BY <1>2, <2>6, <2>7, <2>8 DEF Base, Stored
<1>11. CASE l.kind = "select" /\ l.account # None
  <2>1. l.account \in Account /\ l.account.name \in Names
    BY <1>1, <1>11 DEF Load, Maybe, Account
  <2>2. page.stage = "ready"
    BY <1>3, <1>11 DEF Base, Stages
  <2>3. page.viewing.name \in Names
    BY <1>1, <2>2 DEF Base, TypeOK, Page, Maybe, Account
  <2>4. /\ page' = [page EXCEPT !.viewing = l.account, !.editing = FALSE]
        /\ up' = up \o Unsubscribe(page.viewing.name) \o Subscribe(l.account.name)
        /\ loads' = RemoveAt(loads, n)
    BY <1>11 DEF Loaded, MoveOn
  <2>5. /\ page' \in Page /\ page'.stage = "ready" /\ page'.current = page.current
        /\ page'.viewing # None /\ ~page'.editing /\ page'.form = page.form
    BY <1>1, <2>1, <2>2, <2>4, NoneIsNoAccount DEF Page, Maybe
  <2>6. up' \in Seq(Ask)
    <3>1. up \o Unsubscribe(page.viewing.name) \in Seq(Ask)
      BY <1>5, <2>3, SubscribeAsks, ConcatProperties
    <3> QED
      BY <2>1, <2>4, <3>1, SubscribeAsks, ConcatProperties
  <2>7. Stages'
    BY <1>2, <1>4, <2>2, <2>4, <2>5 DEF Base, Stages
  <2>8. Sents'
    BY <1>2, <2>2, <2>5 DEF Base, Sents, Sent
  <2>9. TypeOK'
    BY <1>2, <1>4, <2>2, <2>4, <2>5, <2>6 DEF Base, TypeOK
  <2> QED
    BY <1>2, <2>7, <2>8, <2>9 DEF Base, Stored
<1>12. CASE loads' = RemoveAt(loads, n) /\ UNCHANGED <<page, up>>
  <2>1. Stages'
    BY <1>2, <1>3, <1>4, <1>6, <1>12 DEF Base, Stages
  <2>2. TypeOK'
    BY <1>2, <1>4, <1>12 DEF Base, TypeOK
  <2> QED
    BY <1>2, <1>12, <2>1, <2>2 DEF Base, Stored, Sents, Sent
<1> QED
  BY <1>9, <1>10, <1>11, <1>12 DEF Loaded

LEMMA SocketKeepsBase ==
  ASSUME Base, Connect \/ Drop \/ Receive \/ HandleEvent \/ \E n \in DOMAIN joining : JoinRoom(n)
  PROVE  Base'
<1>1. CASE Connect
  BY <1>1 DEF Connect, Base, TypeOK, Stored, Stages, Sents, Sent, counters
<1>2. CASE Drop
  <2>1. faults' \in 0..MaxFaults
    BY <1>2, AccountPageAssumption DEF Drop, Base, TypeOK
  <2>2. /\ connected' = FALSE /\ orderly' = FALSE /\ doomed' = {}
        /\ up' = <<>> /\ rooms' = {} /\ joining' = <<>> /\ down' = <<>>
    BY <1>2 DEF Drop
  <2>3. UNCHANGED <<accounts, admin, token, page, loads, patches, taps, writes>>
    BY <1>2 DEF Drop
  <2> QED
    <3>1. /\ up' \in Seq(Ask) /\ joining' \in Seq(Names) /\ down' \in Seq(Event)
          /\ rooms' \subseteq Names
      BY <2>2
    <3>2. TypeOK'
      BY <2>1, <2>2, <2>3, <3>1 DEF Base, TypeOK
    <3>3. Stages'
      BY <2>2, <2>3 DEF Base, Stages
    <3> QED
      BY <2>3, <3>2, <3>3 DEF Base, Stored, Sents, Sent
<1>3. CASE Receive
  <2>1. up \in Seq(Ask) /\ up # <<>> /\ joining \in Seq(Names) /\ page.stage # "out"
    BY <1>3 DEF Receive, Base, TypeOK, Stages
  <2>2. Head(up) \in Ask /\ Tail(up) \in Seq(Ask)
    BY <2>1, HeadTailProperties
  <2>3. Append(joining, Head(up).name) \in Seq(Names)
    BY <2>1, <2>2, AppendedSequence DEF Ask
  <2>4. up' \in Seq(Ask) /\ joining' \in Seq(Names) /\ rooms' \subseteq rooms
    BY <1>3, <2>1, <2>2, <2>3 DEF Receive
  <2> QED
    BY <1>3, <2>1, <2>4 DEF Receive, Base, TypeOK, Stored, Stages, Sents, Sent, counters
<1>4. CASE HandleEvent
  <2> DEFINE a == Head(down).account
  <2>1. down \in Seq(Event) /\ down # <<>> /\ page \in Page /\ connected
    BY <1>4 DEF HandleEvent, Base, TypeOK
  <2>2. Head(down) \in Event /\ Tail(down) \in Seq(Event) /\ a \in Account
    <3>1. Head(down) \in Event /\ Tail(down) \in Seq(Event)
      BY <2>1, HeadTailProperties
    <3> QED
      BY <3>1 DEF Event
  <2>3. UNCHANGED <<accounts, admin, token, patches, orderly, doomed, taps, writes, faults>>
    BY <1>4 DEF HandleEvent, counters
  <2>4. CASE Leave
    BY <2>3, <2>4, LeaveIsOut DEF Base, TypeOK, Sents, counters
  <2>5. CASE ~Leave
    <3>1. /\ page' = [page EXCEPT
               !.viewing = IF Shown(a, @) THEN a ELSE @,
               !.current = IF @ # None /\ a.id = @.id THEN a ELSE @]
          /\ down' = Tail(down)
          /\ UNCHANGED <<loads, connected, up, joining, rooms>>
      BY <1>4, <2>5 DEF HandleEvent
    <3>2. /\ page' \in Page /\ page'.stage = page.stage /\ page'.form = page.form
          /\ page'.editing = page.editing /\ page'.confirm = page.confirm
          /\ page.viewing # None => page'.viewing # None
          /\ page.current # None => page'.current # None
      BY <2>1, <2>2, <3>1, NoneIsNoAccount DEF Page, Maybe
    <3>3. TypeOK'
      BY <2>2, <2>3, <3>1, <3>2 DEF Base, TypeOK
    <3>4. Stages'
      BY <2>1, <3>1, <3>2 DEF Base, Stages
    <3> QED
      BY <2>3, <3>2, <3>3, <3>4 DEF Base, Stored, Sents, Sent
  <2> QED
    BY <2>4, <2>5
<1>5. ASSUME NEW n \in DOMAIN joining, JoinRoom(n) PROVE Base'
  <2>1. joining \in Seq(Names) /\ joining[n] \in Names /\ joining # <<>>
    <3>1. joining \in Seq(Names)
      BY DEF Base, TypeOK
    <3> QED
      BY <3>1, ElementOfSeq, LenProperties
  <2>2. joining' \in Seq(Names)
    BY <1>5, <2>1, RemoveAtProperties DEF JoinRoom
  <2>3. rooms' \subseteq Names
    BY <1>5, <2>1 DEF JoinRoom, Base, TypeOK
  <2>4. page.stage # "out"
    BY <2>1 DEF Base, Stages
  <2> QED
    BY <1>5, <2>2, <2>3, <2>4 DEF JoinRoom, Base, TypeOK, Stored, Stages, Sents, Sent, counters
<1> QED
  BY <1>1, <1>2, <1>3, <1>4, <1>5

\* One more request.
LEMMA PatchBegins ==
  ASSUME Base, NEW q \in Patch, q.by # "save", q.step = "sent", q.value \in ValuesOf(q.field),
         patches' = Append(patches, q),
         page'.stage = page.stage, page'.form = page.form
  PROVE  patches' \in Seq(Patch) /\ Sents'
<1>1. patches \in Seq(Patch)
  BY DEF Base, TypeOK
<1>2. /\ patches' \in Seq(Patch)
      /\ \A n \in DOMAIN patches' : patches'[n] = q \/ (n \in DOMAIN patches /\ patches'[n] = patches[n])
  BY <1>1, AppendedSequence
<1> QED
  BY <1>2 DEF Base, Sents, Sent

LEMMA ReadyPage ==
  ASSUME Base, page.stage = "ready"
  PROVE  /\ page.viewing \in Account /\ page.viewing.name \in Names /\ page.viewing.id \in Ids
         /\ page.viewing.status \in Statuses /\ page.current \in Account
BY DEF Base, TypeOK, Page, Maybe, Account

LEMMA TapCounts == ASSUME Base, Tap PROVE taps' \in 0..MaxTaps
BY AccountPageAssumption DEF Tap, Base, TypeOK

LEMMA SaveEffect ==
  ASSUME Base, Save
  PROVE  /\ Resumed([page EXCEPT !.savable = FALSE], page.viewing, patches)
         /\ page.stage = "ready" /\ page.form # None
         /\ patches' \in Seq(Patch) /\ Sents'
<1> DEFINE pg == [page EXCEPT !.savable = FALSE]
<1>1. page \in Page /\ page.stage = "ready" /\ page.form # None /\ patches \in Seq(Patch)
  BY DEF Save, Base, TypeOK
<1>2. pg \in Page /\ pg.stage = "ready" /\ pg.form = page.form
  BY <1>1 DEF Page
<1>3. FieldsToSave \in Seq(Fields)
  <2>1. <<>> \in Seq(Fields) /\ <<"name">> \in Seq(Fields) /\ <<"details">> \in Seq(Fields)
        /\ <<"status">> \in Seq(Fields)
    BY DEF Fields
  <2>2. (IF admin /\ ~IsOwn THEN <<>> ELSE <<"name">>) \in Seq(Fields)
        /\ (IF admin THEN <<"status">> ELSE <<>>) \in Seq(Fields)
    BY <2>1
  <2>3. (IF admin /\ ~IsOwn THEN <<>> ELSE <<"name">>) \o <<"details">> \in Seq(Fields)
    BY <2>1, <2>2, ConcatProperties
  <2> QED
    BY <2>2, <2>3, ConcatProperties DEF FieldsToSave
<1>4. page.viewing \in Account
  BY <1>1, ReadyPage
<1>5. IsOwn \in BOOLEAN
  BY DEF IsOwn
<1>6. Resume(pg, page.viewing, FieldsToSave, FALSE, IsOwn, patches)
  BY DEF Save
<1>7. Resumed(pg, page.viewing, patches)
  BY <1>1, <1>2, <1>3, <1>4, <1>5, <1>6, ResumeEffect
<1>8. \A n \in DOMAIN patches : Sent(patches[n])
  BY DEF Base, Sents
<1> QED
  BY <1>1, <1>2, <1>4, <1>7, <1>8, ResumedPatches

LEMMA TapKeepsBase ==
  ASSUME Base, Edit \/ Cancel \/ Save \/ Toggle \/ Confirm \/ Decline
  PROVE  Base'
<1>1. /\ UNCHANGED <<accounts, admin, token, doomed, writes, faults>> /\ taps' \in 0..MaxTaps
      /\ UNCHANGED <<loads, connected, up, joining, rooms, down>>
  BY TapCounts DEF Tap, Edit, Cancel, Save, Toggle, Confirm, Decline, socket
<1>2. page \in Page /\ patches \in Seq(Patch)
  BY DEF Base, TypeOK
<1>3. orderly' \in BOOLEAN
  BY DEF Edit, Cancel, Save, Toggle, Confirm, Decline, Crossing, Base, TypeOK
<1>4. CASE Edit
  <2>1. PICK f \in Form : page' = [page EXCEPT !.editing = TRUE, !.savable = TRUE, !.form = f]
    BY <1>4 DEF Edit
  <2>2. page.stage = "ready" /\ UNCHANGED patches
    BY <1>4 DEF Edit
  <2>3. /\ page' \in Page /\ page'.stage = "ready" /\ page'.form # None
        /\ page'.viewing = page.viewing /\ page'.current = page.current
    BY <1>2, <2>1, <2>2, NoneIsNoAccount DEF Page
  <2>4. TypeOK'
    BY <1>1, <1>3, <2>2, <2>3 DEF Base, TypeOK
  <2>5. Stages'
    BY <1>1, <2>2, <2>3 DEF Base, Stages
  <2> QED
    BY <1>1, <2>2, <2>3, <2>4, <2>5 DEF Base, Stored, Sents, Sent
<1>5. CASE Cancel \/ Decline
  <2>1. /\ page' \in Page /\ page'.stage = page.stage /\ page'.form = page.form
        /\ page'.viewing = page.viewing /\ page'.current = page.current
        /\ page'.editing \in {page.editing, FALSE} /\ page'.confirm \in {page.confirm, NoName}
        /\ UNCHANGED patches
    BY <1>2, <1>5 DEF Cancel, Decline, Page
  <2>2. TypeOK'
    BY <1>1, <1>3, <2>1 DEF Base, TypeOK
  <2>3. Stages'
    BY <1>1, <2>1 DEF Base, Stages
  <2> QED
    BY <1>1, <2>1, <2>2, <2>3 DEF Base, Stored, Sents, Sent
<1>6. CASE Save
  <2>1. /\ Resumed([page EXCEPT !.savable = FALSE], page.viewing, patches)
        /\ page.stage = "ready" /\ page.form # None /\ patches' \in Seq(Patch) /\ Sents'
    BY <1>6, SaveEffect
  <2>2. /\ page' \in Page /\ page'.stage = "ready" /\ page'.current = page.current
        /\ page'.form = page.form /\ page'.viewing = page.viewing
    BY <1>2, <2>1 DEF Resumed, Page
  <2>3. TypeOK'
    BY <1>1, <1>3, <2>1, <2>2 DEF Base, TypeOK
  <2>4. Stages'
    BY <1>1, <2>1, <2>2 DEF Base, Stages
  <2> QED
    BY <1>1, <2>1, <2>3, <2>4 DEF Base, Stored
<1>7. CASE Toggle
  <2>1. page.stage = "ready" /\ page.viewing.name \in Names
    BY <1>7, ReadyPage DEF Toggle
  <2>2. CASE page' = [page EXCEPT !.confirm = "viewing"] /\ UNCHANGED patches
    <3>1. /\ page' \in Page /\ page'.stage = page.stage /\ page'.form = page.form
          /\ page'.viewing = page.viewing /\ page'.current = page.current /\ page'.editing = page.editing
      BY <1>2, <2>2 DEF Page
    <3>2. TypeOK'
      BY <1>1, <1>3, <2>2, <3>1 DEF Base, TypeOK
    <3>3. Stages'
      BY <1>1, <2>1, <3>1 DEF Base, Stages
    <3> QED
      BY <1>1, <2>2, <3>1, <3>2, <3>3 DEF Base, Stored, Sents, Sent
  <2>3. CASE ~(page' = [page EXCEPT !.confirm = "viewing"] /\ UNCHANGED patches)
    <3> DEFINE q == Begun("toggle", page.viewing.name, "status", "Active")
    <3>1. patches' = Append(patches, q) /\ UNCHANGED page
      BY <1>7, <2>3 DEF Toggle
    <3>2. /\ q \in Patch /\ q.by = "toggle" /\ q.step = "sent" /\ q.field = "status"
          /\ q.value \in ValuesOf(q.field)
      <4>1. "Active" \in ValuesOf("status") /\ "status" \in Fields
        BY DEF ValuesOf, Statuses, Fields
      <4>2. q \in Patch
        BY <2>1, <4>1, BegunIsPatch
      <4> QED
        BY <4>1, <4>2 DEF Begun
    <3> HIDE DEF q
    <3>3. patches' \in Seq(Patch) /\ Sents'
      BY <3>1, <3>2, PatchBegins
    <3> QED
      BY <1>1, <1>3, <3>1, <3>3 DEF Base, TypeOK, Stages, Stored
  <2> QED
    BY <2>2, <2>3
<1>8. CASE Confirm
  <2> DEFINE name == IF page.confirm = "viewing" THEN page.viewing.name ELSE page.confirm
             q == Begun("confirm", name, "status", "Inactive")
  <2>1. page.stage = "ready" /\ page.viewing.name \in Names /\ page.confirm # NoName
    BY <1>8, ReadyPage DEF Confirm, Base, Stages
  <2>2. name \in Names
    BY <1>2, <2>1 DEF Page
  <2>3. patches' = Append(patches, q) /\ page' = [page EXCEPT !.confirm = NoName]
    BY <1>8 DEF Confirm
  <2> HIDE DEF name
  <2>4. /\ q \in Patch /\ q.by = "confirm" /\ q.step = "sent" /\ q.field = "status"
        /\ q.value \in ValuesOf(q.field)
    <3>1. "Inactive" \in ValuesOf("status") /\ "status" \in Fields
      BY DEF ValuesOf, Statuses, Fields
    <3>2. q \in Patch
      BY <2>2, <3>1, BegunIsPatch
    <3> QED
      BY <3>1, <3>2 DEF Begun
  <2> HIDE DEF q
  <2>5. /\ page' \in Page /\ page'.stage = page.stage /\ page'.form = page.form
        /\ page'.viewing = page.viewing /\ page'.current = page.current /\ page'.editing = page.editing
        /\ page'.confirm = NoName
    BY <1>2, <2>3 DEF Page
  <2>6. patches' \in Seq(Patch) /\ Sents'
    BY <2>3, <2>4, <2>5, PatchBegins
  <2>7. TypeOK'
    BY <1>1, <1>3, <2>5, <2>6 DEF Base, TypeOK
  <2>8. Stages'
    BY <1>1, <2>5 DEF Base, Stages
  <2> QED
    BY <1>1, <2>6, <2>7, <2>8 DEF Base, Stored
<1> QED
  BY <1>4, <1>5, <1>6, <1>7, <1>8

LEMMA SelectKeepsBase ==
  ASSUME Base, NEW name \in Names, Select(name)
  PROVE  Base'
<1> DEFINE l == [kind |-> "select", name |-> name, step |-> "sent", account |-> None]
<1>1. loads \in Seq(Load) /\ l \in Load /\ page.stage = "ready"
  BY DEF Base, TypeOK, Load, Maybe, Select
<1>2. loads' = Append(loads, l)
  BY DEF Select
<1>3. /\ loads' \in Seq(Load)
      /\ \A n \in DOMAIN loads' : loads'[n] = l \/ (n \in DOMAIN loads /\ loads'[n] = loads[n])
  BY <1>1, <1>2, AppendedSequence
<1>4. /\ UNCHANGED <<accounts, admin, token, doomed, writes, faults>> /\ taps' \in 0..MaxTaps
      /\ UNCHANGED <<page, patches, connected, up, joining, rooms, down>>
  BY TapCounts DEF Tap, Select, socket
<1>5. orderly' \in BOOLEAN
  BY DEF Select, Base, TypeOK
<1>6. TypeOK'
  BY <1>3, <1>4, <1>5 DEF Base, TypeOK
<1>7. Stages'
  BY <1>1, <1>3, <1>4 DEF Base, Stages
<1> QED
  BY <1>4, <1>6, <1>7 DEF Base, Stored, Sents, Sent

LEMMA OthersPatchKeepsBase ==
  ASSUME Base, NEW i \in Ids, OthersPatch(i)
  PROVE  /\ Base'
         /\ \E q \in Patch : /\ patches' = Append(patches, q) /\ q.by = "others" /\ q.step = "sent"
                             /\ q.account = None
<1>1. PICK f \in Fields : \E v \in CASE f = "name" -> {NewName} [] f = "status" -> Statuses [] OTHER -> Details :
         patches' = Append(patches, Begun("others", accounts[i].name, f, v))
  BY DEF OthersPatch
<1>2. PICK v \in CASE f = "name" -> {NewName} [] f = "status" -> Statuses [] OTHER -> Details :
         patches' = Append(patches, Begun("others", accounts[i].name, f, v))
  BY <1>1
<1>3. v \in ValuesOf(f)
  BY TypeOfNames DEF ValuesOf, Fields
<1> DEFINE q == Begun("others", accounts[i].name, f, v)
<1>4. accounts[i].name \in Names
  BY DEF Base, TypeOK, Account
<1>5. q \in Patch
  BY <1>3, <1>4, BegunIsPatch
<1>6. /\ q.by = "others" /\ q.step = "sent" /\ q.value \in ValuesOf(q.field) /\ q.account = None
  BY <1>3 DEF Begun
<1> HIDE DEF q
<1>7. /\ UNCHANGED <<accounts, admin, token, page, loads, connected, up, joining, rooms, down, doomed, taps, faults>>
      /\ writes' \in 0..MaxWrites /\ orderly' \in BOOLEAN
  BY AccountPageAssumption DEF OthersPatch, socket, Base, TypeOK, Crossing
<1>8. patches' \in Seq(Patch) /\ Sents'
  BY <1>2, <1>5, <1>6, <1>7, PatchBegins DEF q
<1>9. Base'
  BY <1>7, <1>8 DEF Base, TypeOK, Stored, Stages
<1> QED
  BY <1>2, <1>5, <1>6, <1>9 DEF q

LEMMA NextBase == Base /\ [Next]_vars => Base'
<1> SUFFICES ASSUME Base, [Next]_vars PROVE Base'
  OBVIOUS
<1>1. ASSUME NEW n \in DOMAIN loads, ServeLoad(n) \/ Loaded(n) PROVE Base'
  BY <1>1, ServeLoadKeepsBase, LoadedKeepsBase
<1>2. ASSUME NEW n \in DOMAIN patches, ReadStatus(n) \/ Write(n) \/ Announce(n) \/ Answer(n) PROVE Base'
  BY <1>2, ReadStatusKeepsBase, WriteEffect, AnnounceKeepsBase, AnswerKeepsBase
<1>3. CASE Connect \/ Drop \/ Receive \/ HandleEvent \/ \E n \in DOMAIN joining : JoinRoom(n)
  BY <1>3, SocketKeepsBase
<1>4. CASE Edit \/ Cancel \/ Save \/ Toggle \/ Confirm \/ Decline
  BY <1>4, TapKeepsBase
<1>5. ASSUME NEW name \in Names, Select(name) PROVE Base'
  BY <1>5, SelectKeepsBase
<1>6. ASSUME NEW i \in Ids, OthersPatch(i) PROVE Base'
  BY <1>6, OthersPatchKeepsBase
<1>7. CASE UNCHANGED vars
  BY <1>7 DEF vars, socket, counters, Base, TypeOK, Stored, Stages, Sents, Sent
<1> QED
  BY <1>1, <1>2, <1>3, <1>4, <1>5, <1>6, <1>7 DEF Next

-----------------------------------------------------------------------------
(* The forced logout *)

LEMMA DoomStaysNear ==
  ASSUME DoomIsNear, token' \in doomed' => token \in doomed, token' = token, connected => connected',
         page.stage = "out" => page'.stage = "out",
         \A m \in DOMAIN patches : ToLogOut(patches[m]) =>
            \/ \E k \in DOMAIN patches' : patches'[k] = patches[m]
            \/ \E k \in DOMAIN down' : down'[k].event = "forceLogout",
         \A m \in DOMAIN down : down[m].event = "forceLogout" =>
            \E k \in DOMAIN down' : down'[k].event = "forceLogout"
  PROVE  DoomIsNear'
<1>1. CASE \E m \in DOMAIN patches : ToLogOut(patches[m])
  <2>1. PICK m \in DOMAIN patches : ToLogOut(patches[m])
    BY <1>1
  <2>2. \A k \in DOMAIN patches' : patches'[k] = patches[m] => ToLogOut(patches[k])'
    BY <2>1 DEF ToLogOut, Inactivates
  <2> QED
    BY <2>1, <2>2 DEF DoomIsNear
<1>2. CASE ~\E m \in DOMAIN patches : ToLogOut(patches[m])
  BY <1>2 DEF DoomIsNear
<1> QED
  BY <1>1, <1>2

\* Requests that move on, end or begin.
LEMMA OtherPatchesStay ==
  ASSUME Base, NEW n \in DOMAIN patches, NEW q \in Patch, Advance(n, q)
  PROVE  \A m \in DOMAIN patches : m # n => m \in DOMAIN patches' /\ patches'[m] = patches[m]
<1>1. patches \in Seq(Patch) /\ DOMAIN patches = 1..Len(patches)
  BY LenProperties DEF Base, TypeOK
<1> QED
  BY <1>1 DEF Advance

LEMMA ResumedKeepsOthers ==
  ASSUME NEW pg, NEW base \in Account, NEW others \in Seq(Patch), Resumed(pg, base, others)
  PROVE  \A m \in DOMAIN others : m \in DOMAIN patches' /\ patches'[m] = others[m]
BY AppendedSequence DEF Resumed

LEMMA ConcatKeeps ==
  ASSUME NEW S, NEW s \in Seq(S), NEW t \in Seq(S)
  PROVE  /\ s \o t \in Seq(S)
         /\ \A n \in DOMAIN s : n \in DOMAIN (s \o t) /\ (s \o t)[n] = s[n]
         /\ \A n \in DOMAIN t : \E k \in DOMAIN (s \o t) : (s \o t)[k] = t[n]
<1> DEFINE r == s \o t
<1>1. /\ r \in Seq(S) /\ Len(r) = Len(s) + Len(t)
      /\ \A n \in 1..Len(s) + Len(t) : r[n] = IF n <= Len(s) THEN s[n] ELSE t[n - Len(s)]
  BY ConcatProperties
<1> HIDE DEF r
<1>2. /\ Len(s) \in Nat /\ Len(t) \in Nat /\ DOMAIN s = 1..Len(s) /\ DOMAIN t = 1..Len(t)
      /\ DOMAIN r = 1..Len(s) + Len(t)
  BY <1>1, LenProperties
<1>3. \A n \in DOMAIN s : n \in DOMAIN r /\ r[n] = s[n]
  BY <1>1, <1>2
<1>4. \A n \in DOMAIN t : \E k \in DOMAIN r : r[k] = t[n]
  <2> SUFFICES ASSUME NEW n \in 1..Len(t) PROVE \E k \in DOMAIN r : r[k] = t[n]
    BY <1>2
  <2>1. Len(s) + n \in 1..Len(s) + Len(t) /\ ~(Len(s) + n <= Len(s)) /\ (Len(s) + n) - Len(s) = n
    BY <1>2
  <2>2. r[Len(s) + n] = t[n]
    BY <1>1, <2>1
  <2> QED
    BY <1>2, <2>1, <2>2
<1> QED
  BY <1>1, <1>3, <1>4 DEF r

LEMMA ConcatOne ==
  ASSUME NEW S, NEW s \in Seq(S), NEW x \in S
  PROVE  /\ s \o <<x>> \in Seq(S) /\ s \o <<>> = s
         /\ s \o <<x>> # <<>> /\ (s \o <<x>>)[Len(s \o <<x>>)] = x
         /\ \E k \in DOMAIN (s \o <<x>>) : (s \o <<x>>)[k] = x
         /\ \A k \in DOMAIN (s \o <<x>>) : (s \o <<x>>)[k] = x \/ (k \in DOMAIN s /\ (s \o <<x>>)[k] = s[k])
<1> DEFINE r == s \o <<x>>
<1>1. Len(s) \in Nat /\ DOMAIN s = 1..Len(s) /\ <<x>> \in Seq(S) /\ Len(<<x>>) = 1 /\ <<x>>[1] = x
  BY LenProperties
<1>2. /\ r \in Seq(S) /\ Len(r) = Len(s) + 1
      /\ \A n \in 1..Len(s) + 1 : r[n] = IF n <= Len(s) THEN s[n] ELSE <<x>>[n - Len(s)]
  BY <1>1, ConcatProperties
<1>3. s \o <<>> = s
  BY ConcatEmptySeq
<1> HIDE DEF r
<1>4. DOMAIN r = 1..Len(s) + 1 /\ r # <<>>
  BY <1>1, <1>2, LenProperties, EmptySeq
<1>5. Len(s) + 1 \in DOMAIN r /\ r[Len(s) + 1] = x
  BY <1>1, <1>2, <1>4
<1>6. \A k \in DOMAIN r : r[k] = x \/ (k \in DOMAIN s /\ r[k] = s[k])
  <2> SUFFICES ASSUME NEW k \in 1..Len(s) + 1, k # Len(s) + 1 PROVE k \in DOMAIN s /\ r[k] = s[k]
    BY <1>4, <1>5
  <2>1. k <= Len(s) /\ k \in 1..Len(s)
    BY <1>1
  <2> QED
    BY <1>1, <1>2, <2>1
<1> QED
  BY <1>2, <1>3, <1>4, <1>5, <1>6 DEF r

\* What an announcement adds to the events.
Announced(p) ==
  IF p.field = "name" THEN Updated(p.name, p.account)
  ELSE Updated(p.account.name, p.account) \o ForcedLogout(p)

LEMMA AnnouncedEvents ==
  ASSUME Base, NEW n \in DOMAIN patches, Announce(n)
  PROVE  LET p == patches[n] IN
         /\ p \in Patch /\ p.account \in Account
         /\ down \in Seq(Event) /\ Announced(p) \in Seq(Event) /\ down' = down \o Announced(p)
         /\ p.field # "name" => /\ down \o Updated(p.account.name, p.account) \in Seq(Event)
                                /\ ForcedLogout(p) \in Seq(Event)
                                /\ down' = down \o Updated(p.account.name, p.account) \o ForcedLogout(p)
<1> DEFINE p == patches[n]
<1>1. p \in Patch /\ p.account \in Account
  BY APatch DEF Announce, Sent, Patch, Maybe
<1>2. /\ Updated(p.name, p.account) \in Seq(Event) /\ Updated(p.account.name, p.account) \in Seq(Event)
      /\ ForcedLogout(p) \in Seq(Event)
  <2>1. \A e \in {"accountUpdated", "forceLogout"} : <<[event |-> e, account |-> p.account]>> \in Seq(Event)
    BY <1>1 DEF Event
  <2>2. <<>> \in Seq(Event)
    OBVIOUS
  <2> QED
    BY <2>1, <2>2 DEF Updated, ForcedLogout
<1>3. down \in Seq(Event)
  BY DEF Base, TypeOK
<1> HIDE DEF p
<1>4. CASE p.field = "name"
  BY <1>1, <1>2, <1>3, <1>4 DEF Announce, Announced, p
<1>5. CASE p.field # "name"
  <2>1. down' = down \o Updated(p.account.name, p.account) \o ForcedLogout(p)
    BY <1>5 DEF Announce, p
  <2>2. (down \o Updated(p.account.name, p.account)) \o ForcedLogout(p)
          = down \o (Updated(p.account.name, p.account) \o ForcedLogout(p))
    BY <1>2, <1>3, ConcatAssociative
  <2>3. Updated(p.account.name, p.account) \o ForcedLogout(p) \in Seq(Event)
    BY <1>2, ConcatProperties
  <2> QED
    BY <1>1, <1>2, <1>3, <1>5, <2>1, <2>2, <2>3, ConcatProperties DEF Announced, p
<1> QED
  BY <1>4, <1>5 DEF p

LEMMA PatchesKeepDoom ==
  ASSUME Base, DoomIsNear, NEW n \in DOMAIN patches,
         ReadStatus(n) \/ Write(n) \/ Announce(n) \/ Answer(n)
  PROVE  DoomIsNear'
<1> DEFINE p == patches[n]
<1>1. CASE ReadStatus(n)
  <2>1. PICK q \in Patch : Advance(n, q)
    BY <1>1, ReadStatusKeepsBase
  <2>2. ~ToLogOut(p)
    BY <1>1 DEF ReadStatus, ToLogOut
  <2>3. UNCHANGED <<token, page, connected, down, doomed>>
    BY <1>1 DEF ReadStatus, socket
  <2> QED
    BY <2>1, <2>2, <2>3, OtherPatchesStay, DoomStaysNear
<1>2. CASE Write(n)
  <2>1. ~ToLogOut(p) /\ UNCHANGED <<token, page, connected, down>>
    BY <1>2, WriteEffect DEF ToLogOut
  <2>2. ASSUME NEW q \in Patch, RefusedWrite(n, q) PROVE DoomIsNear'
    BY <2>1, <2>2, OtherPatchesStay, DoomStaysNear DEF RefusedWrite
  <2>3. ASSUME NEW i \in Ids, NEW a \in Account, NEW q \in Patch, Writes(n, i, a, q) PROVE DoomIsNear'
    <3>1. \A m \in DOMAIN patches : m # n => m \in DOMAIN patches' /\ patches'[m] = patches[m]
      BY <2>3, OtherPatchesStay DEF Writes
    <3>2. CASE token \in doomed \/ token \notin doomed'
      BY <2>1, <3>1, <3>2, DoomStaysNear DEF DoomIsNear
    <3>3. CASE token \notin doomed /\ token \in doomed'
      <4>1. Inactivates(p) /\ connected /\ token = accounts[i].name
        BY <2>3, <3>3 DEF Writes
      <4>2. q.step = "written" /\ Inactivates(q) /\ q.account.name = token
        BY <2>3, <4>1 DEF Writes, Inactivates
      <4>3. n \in DOMAIN patches' /\ patches'[n] = q
        <5>1. patches \in Seq(Patch) /\ DOMAIN patches = 1..Len(patches)
          BY LenProperties DEF Base, TypeOK
        <5> QED
          BY <2>3, <5>1 DEF Writes, Advance
      <4>4. ToLogOut(patches[n])'
        BY <2>1, <4>2, <4>3 DEF ToLogOut, Inactivates
      <4> QED
        BY <2>1, <4>1, <4>3, <4>4 DEF DoomIsNear
    <3> QED
      BY <3>2, <3>3
  <2> QED
    BY <1>2, <2>2, <2>3, WriteEffect
<1>3. CASE Announce(n)
  <2>1. /\ p \in Patch /\ p.account \in Account /\ down \in Seq(Event) /\ Announced(p) \in Seq(Event)
        /\ down' = down \o Announced(p)
        /\ p.field # "name" => /\ down \o Updated(p.account.name, p.account) \in Seq(Event)
                               /\ ForcedLogout(p) \in Seq(Event)
                               /\ down' = down \o Updated(p.account.name, p.account) \o ForcedLogout(p)
    BY <1>3, AnnouncedEvents
  <2>2. UNCHANGED <<token, page, connected, doomed>>
    BY <1>3, AnnounceKeepsBase
  <2>3. \A m \in DOMAIN down : m \in DOMAIN down' /\ down'[m] = down[m]
    BY <2>1, ConcatKeeps
  <2>4. \A m \in DOMAIN patches : m # n => m \in DOMAIN patches' /\ patches'[m] = patches[m]
    BY <1>3, AnnounceKeepsBase, OtherPatchesStay
  <2>5. CASE connected /\ ToLogOut(p)
    <3>1. /\ p.field # "name" /\ ForcedLogout(p) = <<[event |-> "forceLogout", account |-> p.account]>>
      BY <2>5 DEF ToLogOut, ForcedLogout, Inactivates
    <3>3. /\ down \o Updated(p.account.name, p.account) \in Seq(Event)
          /\ down' = down \o Updated(p.account.name, p.account) \o ForcedLogout(p)
          /\ [event |-> "forceLogout", account |-> p.account] \in Event
      BY <2>1, <3>1 DEF Event
    <3>4. \E k \in DOMAIN down' : down'[k] = [event |-> "forceLogout", account |-> p.account]
      <4>1. \A w \in Seq(Event), x \in Event : \E k \in DOMAIN (w \o <<x>>) : (w \o <<x>>)[k] = x
        BY ConcatOne
      <4> DEFINE w == down \o Updated(p.account.name, p.account)
                 x == [event |-> "forceLogout", account |-> p.account]
      <4>2. w \in Seq(Event) /\ x \in Event /\ down' = w \o <<x>>
        BY <3>1, <3>3
      <4> HIDE DEF w, x
      <4>3. \E k \in DOMAIN (w \o <<x>>) : (w \o <<x>>)[k] = x
        BY <4>1, <4>2
      <4>4. \E k \in DOMAIN down' : down'[k] = x
        BY <4>2, <4>3
      <4> QED
        BY <4>4 DEF x
    <3>5. \E k \in DOMAIN down' : down'[k].event = "forceLogout"
      BY <3>4
    <3> QED
      BY <2>2, <2>5, <3>5 DEF DoomIsNear
  <2>6. CASE connected /\ ~ToLogOut(p)
    BY <2>2, <2>3, <2>4, <2>6, DoomStaysNear
  <2>7. CASE ~connected
    BY <2>2, <2>7 DEF DoomIsNear
  <2> QED
    BY <2>5, <2>6, <2>7
<1>4. CASE Answer(n)
  <2>1. p.step = "answered" /\ ~ToLogOut(p) /\ UNCHANGED <<token, doomed>>
    BY <1>4 DEF Answer, ToLogOut
  <2>2. \A k \in DOMAIN patches : k # n =>
              \E m \in DOMAIN RemoveAt(patches, n) : RemoveAt(patches, n)[m] = patches[k]
    BY RemovedPatch
  <2>3. CASE page.stage # "out" /\ SaveAnswered(n)
    <3>1. SavedSoFar(patches[n]) \in Account /\ RemoveAt(patches, n) \in Seq(Patch)
      BY <2>3, SavedSoFarIsAccount, RemovedPatch DEF SaveAnswered
    <3>2. Resumed(page, SavedSoFar(patches[n]), RemoveAt(patches, n)) /\ UNCHANGED <<connected, down>>
      BY <2>3, SaveAnsweredEffect DEF SaveAnswered, socket
    <3>3. \A m \in DOMAIN RemoveAt(patches, n) : m \in DOMAIN patches' /\ patches'[m] = RemoveAt(patches, n)[m]
      BY <3>1, <3>2, ResumedKeepsOthers
    <3>4. page'.stage = page.stage
      BY <3>2 DEF Resumed
    <3> QED
      BY <2>1, <2>2, <3>2, <3>3, <3>4, DoomStaysNear
  <2>4. CASE patches' = RemoveAt(patches, n) /\ UNCHANGED <<connected, down>> /\ page'.stage = page.stage
    BY <2>1, <2>2, <2>4, DoomStaysNear
  <2>5. CASE Leave
    BY <2>5 DEF Leave, DoomIsNear
  <2>6. ToggleAnswered(n) => page'.stage = page.stage
    BY DEF ToggleAnswered, Base, TypeOK, Page
  <2> QED
    BY <1>4, <2>3, <2>4, <2>5, <2>6 DEF Answer, ToggleAnswered, ConfirmAnswered, OthersAnswered, socket
<1> QED
  BY <1>1, <1>2, <1>3, <1>4

LEMMA NextDoom == Base /\ DoomIsNear /\ [Next]_vars => DoomIsNear'
<1> SUFFICES ASSUME Base, DoomIsNear, [Next]_vars PROVE DoomIsNear'
  OBVIOUS
<1>0. page \in Page /\ patches \in Seq(Patch) /\ down \in Seq(Event)
  BY DEF Base, TypeOK
<1>1. CASE UNCHANGED <<token, patches, connected, down, doomed>> /\ page'.stage = page.stage
  BY <1>1, DoomStaysNear
<1>2. ASSUME NEW n \in DOMAIN loads, Loaded(n) PROVE DoomIsNear'
  <2>1. page.stage # "out" /\ UNCHANGED <<token, patches, connected, down, doomed>>
    BY <1>2 DEF Loaded, Base, Stages
  <2> QED
    BY <2>1, DoomStaysNear
<1>3. ASSUME NEW n \in DOMAIN patches, ReadStatus(n) \/ Write(n) \/ Announce(n) \/ Answer(n) PROVE DoomIsNear'
  BY <1>3, PatchesKeepDoom
<1>4. CASE Connect
  BY <1>4, DoomStaysNear DEF Connect, counters
<1>5. CASE Drop
  BY <1>5 DEF Drop, DoomIsNear
<1>6. CASE HandleEvent
  <2>1. CASE Leave
    BY <2>1 DEF Leave, DoomIsNear
  <2>2. CASE ~Leave
    <3>1. /\ down # <<>> /\ down' = Tail(down) /\ Head(down).event # "forceLogout"
          /\ UNCHANGED <<token, patches, connected, doomed>> /\ page'.stage = page.stage
      BY <1>0, <1>6, <2>2 DEF HandleEvent, Page
    <3>2. \A m \in DOMAIN down : m # 1 => m - 1 \in DOMAIN Tail(down) /\ Tail(down)[m - 1] = down[m]
      <4>1. /\ Len(down) \in Nat /\ DOMAIN down = 1..Len(down) /\ DOMAIN Tail(down) = 1..Len(down) - 1
            /\ \A i \in 1..Len(down) - 1 : Tail(down)[i] = down[i + 1]
        BY <1>0, <3>1, HeadTailProperties, LenProperties
      <4> QED
        BY <4>1
    <3>3. Head(down) = down[1]
      BY <1>0, <3>1
    <3>4. \A m \in DOMAIN down : down[m].event = "forceLogout" =>
            \E k \in DOMAIN down' : down'[k].event = "forceLogout"
      BY <3>1, <3>2, <3>3
    <3> QED
      BY <3>1, <3>4, DoomStaysNear
  <2> QED
    BY <2>1, <2>2
<1>7. CASE Save
  <2>1. Resumed([page EXCEPT !.savable = FALSE], page.viewing, patches) /\ page.viewing \in Account
    BY <1>7, SaveEffect, ReadyPage
  <2>2. \A m \in DOMAIN patches : m \in DOMAIN patches' /\ patches'[m] = patches[m]
    BY <1>0, <2>1, ResumedKeepsOthers
  <2>3. page'.stage = page.stage /\ UNCHANGED <<token, connected, down, doomed>>
    BY <1>0, <1>7, <2>1 DEF Resumed, Save, Tap, socket, Page
  <2> QED
    BY <2>2, <2>3, DoomStaysNear
<1>8. CASE Toggle \/ Confirm \/ \E i \in Ids : OthersPatch(i)
  <2>1. /\ page'.stage = page.stage /\ UNCHANGED <<token, connected, down, doomed>>
        /\ patches' = patches \/ \E q : patches' = Append(patches, q)
    BY <1>0, <1>8 DEF Toggle, Confirm, OthersPatch, Tap, socket, Page
  <2>2. \A m \in DOMAIN patches : m \in DOMAIN patches' /\ patches'[m] = patches[m]
    BY <1>0, <2>1
  <2> QED
    BY <2>1, <2>2, DoomStaysNear
<1>9. ASSUME NEW n \in DOMAIN loads, ServeLoad(n) PROVE DoomIsNear'
  BY <1>1, <1>9 DEF ServeLoad, socket
<1>10. CASE Receive \/ \E n \in DOMAIN joining : JoinRoom(n)
  BY <1>1, <1>10 DEF Receive, JoinRoom
<1>11. CASE Edit \/ Cancel \/ Decline \/ \E name \in Names : Select(name)
  BY <1>0, <1>1, <1>11 DEF Edit, Cancel, Decline, Select, Tap, socket, Page
<1>12. CASE UNCHANGED vars
  BY <1>1, <1>12 DEF vars, socket
<1> QED
  BY <1>2, <1>3, <1>4, <1>5, <1>6, <1>7, <1>8, <1>9, <1>10, <1>11, <1>12 DEF Next

-----------------------------------------------------------------------------
(* Opening the page *)

LEMMA OpenLoad ==
  ASSUME Base, OpensInOrder, orderly, page.stage = "opening", loads # <<>>
  PROVE  /\ Len(loads) = 1 /\ DOMAIN loads = {1} /\ loads \in Seq(Load)
         /\ patches = <<>> /\ up = <<>> /\ joining = <<>> /\ down = <<>>
         /\ rooms = {} /\ token = accounts[Me].name
<1>1. loads \in Seq(Load) /\ Len(loads) <= 1
  BY DEF Base, TypeOK, Stages
<1>2. Len(loads) = 1
  <2>1. Len(loads) \in Nat /\ Len(loads) # 0
    BY <1>1, EmptySeq
  <2>2. Len(loads) <= 1
    BY <1>1
  <2>3. \A k \in Nat : k # 0 /\ k <= 1 => k = 1
    OBVIOUS
  <2> QED
    BY <2>1, <2>2, <2>3
<1>3. DOMAIN loads = {1}
  <2>1. DOMAIN loads = 1..1
    BY <1>1, <1>2, LenProperties
  <2> QED
    BY <2>1
<1> QED
  BY <1>1, <1>2, <1>3 DEF OpensInOrder

\* An admin's page goes on to the list of names, with the owner's account.
LEMMA OpenLoaded ==
  ASSUME Base, OpensInOrder, orderly, page.stage = "opening", NEW n \in DOMAIN loads, Loaded(n)
  PROVE  /\ patches = <<>> /\ up = <<>> /\ joining = <<>> /\ down = <<>> /\ rooms = {}
         /\ token = accounts[Me].name
         /\ \/ loads' = <<>> /\ UNCHANGED page
            \/ /\ page'.stage = "opening" /\ admin
               /\ page'.current = accounts[Me] /\ page'.viewing = accounts[Me]
               /\ up' = <<>> /\ loads'[1].kind = "users"
            \/ /\ page'.stage = "ready" /\ page'.viewing = accounts[Me]
               /\ up' = Subscribe(accounts[Me].name) /\ loads' = <<>>
<1> DEFINE l == loads[1]
<1>1. loads # <<>>
  OBVIOUS
<1>2. /\ Len(loads) = 1 /\ n = 1 /\ loads \in Seq(Load) /\ l \in Load /\ page \in Page
      /\ patches = <<>> /\ up = <<>> /\ joining = <<>> /\ down = <<>> /\ rooms = {}
      /\ token = accounts[Me].name
  BY <1>1, OpenLoad, ALoad DEF Base, TypeOK
<1>3. RemoveAt(loads, n) = <<>>
  BY <1>2, OneLess
<1>4. accounts[Me] \in Account /\ accounts[Me].name \in Names /\ accounts[Me] # None
  BY AccountPageAssumption, NoneIsNoAccount DEF Base, TypeOK, Account
<1>5. up \o Subscribe(accounts[Me].name) = Subscribe(accounts[Me].name)
  BY <1>2, <1>4, SubscribeAsks, ConcatEmptySeq
<1>6. CASE l.kind = "open" /\ l.account # None /\ admin
  <2>1. l.account = accounts[Me]
    BY <1>1, <1>6 DEF OpensInOrder
  <2>2. /\ page' = [page EXCEPT !.current = l.account, !.viewing = l.account, !.stage = "opening"]
        /\ up' = up /\ loads' = [loads EXCEPT ![1].kind = "users"]
    BY <1>2, <1>6 DEF Loaded
  <2>3. loads'[1].kind = "users"
    BY <1>2, <2>2 DEF Load
  <2> QED
    BY <1>2, <1>6, <2>1, <2>2, <2>3 DEF Page
<1>7. CASE l.kind = "open" /\ l.account # None /\ ~admin
  <2>1. l.account = accounts[Me]
    BY <1>1, <1>7 DEF OpensInOrder
  <2>2. /\ page' = [page EXCEPT !.current = l.account, !.viewing = l.account, !.stage = "ready"]
        /\ up' = up \o Subscribe(l.account.name) /\ loads' = RemoveAt(loads, n)
    BY <1>2, <1>7 DEF Loaded
  <2> QED
    BY <1>2, <1>3, <1>5, <2>1, <2>2 DEF Page
<1>8. CASE /\ l.kind = "users"
           /\ page' = [page EXCEPT !.stage = "ready"]
           /\ up' = up \o Subscribe(page.current.name) /\ loads' = RemoveAt(loads, n)
  <2>1. page.current = accounts[Me] /\ page.viewing = accounts[Me]
    BY <1>1, <1>8 DEF OpensInOrder
  <2> QED
    BY <1>2, <1>3, <1>5, <1>8, <2>1 DEF Page
<1>9. CASE loads' = RemoveAt(loads, n) /\ UNCHANGED <<page, up>>
  BY <1>2, <1>3, <1>9
<1>10. l.kind # "select"
  BY <1>1 DEF OpensInOrder
<1> QED
  BY <1>2, <1>6, <1>7, <1>8, <1>9, <1>10 DEF Loaded

LEMMA NextOpens == Base /\ OpensInOrder /\ [Next]_vars => OpensInOrder'
<1> SUFFICES ASSUME Base, OpensInOrder, [Next]_vars,
                    orderly', page'.stage = "opening", loads' # <<>>
             PROVE  OpensInOrder'
  BY DEF OpensInOrder
<1>1. page \in Page
  BY DEF Base, TypeOK
<1>2. ASSUME NEW n \in DOMAIN loads, Loaded(n), orderly, page.stage = "opening" PROVE OpensInOrder'
  <2>1. loads # <<>>
    OBVIOUS
  <2>2. UNCHANGED <<accounts, admin, token, patches, joining, rooms, down>>
    BY <1>2 DEF Loaded
  <2> QED
    BY <1>2, <2>1, <2>2, OpenLoaded DEF OpensInOrder
<1>3. ASSUME NEW n \in DOMAIN loads, ServeLoad(n), orderly, page.stage = "opening" PROVE OpensInOrder'
  <2>1. loads # <<>>
    OBVIOUS
  <2>2. n = 1 /\ DOMAIN loads = {1}
    BY <1>3, <2>1, OpenLoad
  <2>3. UNCHANGED <<accounts, admin, token, page, patches, up, joining, rooms, down>>
    BY <1>3 DEF ServeLoad, socket
  <2>4. /\ loads'[1].kind = loads[1].kind /\ loads'[1].name = loads[1].name
        /\ loads'[1].account # None => /\ loads'[1].account.id \in Ids
                                       /\ loads'[1].account = accounts[loads'[1].account.id]
                                       /\ loads'[1].account.name = loads[1].name
    BY <1>3, <2>2, ServedLoad
  <2>5. loads'[1].account # None /\ loads[1].name = accounts[Me].name => loads'[1].account = accounts[Me]
    BY <2>4, AccountPageAssumption DEF Base, Stored
  <2> QED
    BY <1>3, <2>1, <2>3, <2>4, <2>5 DEF OpensInOrder
<1>4. CASE UNCHANGED <<accounts, admin, token, patches, loads, up, joining, rooms, down, page, orderly>>
  BY <1>4 DEF OpensInOrder
<1>5. ASSUME NEW n \in DOMAIN loads, ServeLoad(n) \/ Loaded(n) PROVE OpensInOrder'
  <2>1. orderly /\ (page.stage = "opening" \/ page.stage = "ready" \/ page.stage = "out")
    BY <1>1, <1>5 DEF ServeLoad, Loaded, Page
  <2>2. CASE page.stage = "opening"
    BY <1>2, <1>3, <1>5, <2>1, <2>2
  <2>3. CASE page.stage # "opening"
    <3>1. page.stage = "ready" => loads[n].kind = "select"
      BY DEF Base, Stages
    <3>2. page.stage # "out"
      BY DEF Base, Stages
    <3>3. Loaded(n) => page'.stage = "ready"
      BY <1>1, <2>1, <2>3, <3>1, <3>2 DEF Loaded, Page
    <3> QED
      BY <1>5, <2>3, <3>3 DEF ServeLoad
  <2> QED
    BY <2>2, <2>3
<1>6. CASE ~(\E n \in DOMAIN loads : ServeLoad(n) \/ Loaded(n)) /\ page.stage # "opening"
  \* The page does not open again.
  <2>1. page'.stage \in {page.stage, "out"}
    <3>1. ASSUME NEW n \in DOMAIN patches, Answer(n) PROVE page'.stage \in {page.stage, "out"}
      <4>1. page.stage # "out" /\ SaveAnswered(n) => page'.stage = page.stage
        BY SaveAnsweredEffect DEF Resumed
      <4>2. ToggleAnswered(n) => page'.stage = page.stage
        BY <1>1 DEF ToggleAnswered, Page
      <4>3. Leave => page'.stage = "out"
        BY DEF Leave, Closed
      <4> QED
        BY <3>1, <4>1, <4>2, <4>3 DEF Answer, ConfirmAnswered, OthersAnswered
    <3>2. CASE HandleEvent
      BY <1>1, <3>2 DEF HandleEvent, Leave, Closed, Page
    <3>3. CASE Save
      BY <1>1, <3>3, SaveEffect DEF Resumed, Page
    <3>4. CASE Edit \/ Cancel \/ Toggle \/ Confirm \/ Decline
      BY <1>1, <3>4 DEF Edit, Cancel, Toggle, Confirm, Decline, Page
    <3>5. CASE UNCHANGED page
      BY <3>5
    <3> QED
      BY <1>6, <3>1, <3>2, <3>3, <3>4, <3>5
         DEF Next, vars, ReadStatus, Write, Announce, Connect, Drop, Receive, JoinRoom, Select, OthersPatch
  <2> QED
    BY <1>6, <2>1
<1>7. CASE ~(\E n \in DOMAIN loads : ServeLoad(n) \/ Loaded(n)) /\ page.stage = "opening"
  <2>1. CASE orderly /\ loads # <<>>
    <3>1. /\ patches = <<>> /\ up = <<>> /\ joining = <<>> /\ down = <<>>
          /\ DOMAIN patches = {} /\ DOMAIN joining = {}
      BY <1>7, <2>1, OpenLoad
    <3>2. ~page.editing /\ page.confirm = NoName
      BY <1>7 DEF Base, TypeOK, Stages
    <3>3. CASE Connect
      BY <1>4, <3>3 DEF Connect
    <3>4. ~\E i \in Ids : OthersPatch(i)
      BY <2>1 DEF OthersPatch, Crossing, Quiet
    <3>5. ~Drop
      BY DEF Drop
    <3>6. CASE UNCHANGED vars
      BY <1>4, <3>6 DEF vars, socket
    <3> QED
      BY <1>7, <3>1, <3>2, <3>3, <3>4, <3>5, <3>6
         DEF Next, Receive, HandleEvent, Select, Edit, Cancel, Save, Toggle, Confirm, Decline
  <2>2. CASE ~(orderly /\ loads # <<>>)
    <3>1. orderly' => orderly
      BY <1>7 DEF Next, vars, ReadStatus, Write, Announce, Answered, Answer, Connect, Drop, Receive, HandleEvent,
                  JoinRoom, Select, Edit, Cancel, Save, Toggle, Confirm, Decline, OthersPatch, Crossing
    <3>2. loads = <<>> => loads' = <<>>
      <4>1. ASSUME NEW n \in DOMAIN patches, Answer(n) PROVE loads' \in {loads, <<>>}
        BY <4>1 DEF Answer, SaveAnswered, ToggleAnswered, ConfirmAnswered, OthersAnswered, Leave
      <4>2. HandleEvent => loads' \in {loads, <<>>}
        BY DEF HandleEvent, Leave
      <4> QED
        BY <1>7, <4>1, <4>2 DEF Next, vars, ReadStatus, Write, Announce, Connect, Drop, Receive,
                  JoinRoom, Select, Edit, Cancel, Save, Toggle, Confirm, Decline, OthersPatch
    <3> QED
      BY <2>2, <3>1, <3>2
  <2> QED
    BY <2>1, <2>2
<1> QED
  BY <1>5, <1>6, <1>7

-----------------------------------------------------------------------------
(* The page in order *)

InOrder == Moving \/ Following

LEMMA OneElement ==
  ASSUME NEW S, NEW s \in Seq(S), Len(s) = 1
  PROVE  s # <<>> /\ DOMAIN s = {1} /\ s[1] \in S
<1>1. DOMAIN s = 1..1 /\ s \in [1..Len(s) -> S]
  BY LenProperties
<1>2. Len(<<>>) = 0
  OBVIOUS
<1> QED
  BY <1>1, <1>2

LEMMA EmptyDomain == DOMAIN <<>> = {} /\ Len(<<>>) = 0
OBVIOUS

\* A page that is in order while something is under way.
LEMMA OrderByPart ==
  ASSUME Base, page.stage = "ready", InOrder
  PROVE  /\ loads # <<>> \/ up # <<>> \/ joining # <<>> => Moving
         /\ patches # <<>> \/ down # <<>> => Following
         /\ patches # <<>> => Len(patches) = 1 /\ DOMAIN patches = {1} /\ OnTheWay(patches[1])
<1>1. patches \in Seq(Patch)
  BY DEF Base, TypeOK
<1>2. patches # <<>> => Following
  BY DEF InOrder, Moving
<1>3. patches # <<>> => Len(patches) = 1 /\ DOMAIN patches = {1} /\ OnTheWay(patches[1])
  BY <1>1, <1>2, OneElement DEF Following
<1> QED
  BY <1>2, <1>3 DEF InOrder, Moving, Following

\* Nothing is written: the page shows the account, and its socket is going to its room.
LEMMA UnwrittenOrder ==
  ASSUME InOrder, patches = <<>>, down = <<>>
  PROVE  page.viewing = Viewed /\ Heading(Viewed.name) /\ (loads # <<>> => Moving)
<1>1. CASE Following
  <2>1. page.viewing = Viewed /\ Viewed.name \in rooms
    BY <1>1, EmptyDomain DEF Following, UpToDate, EventsHere, EventsElsewhere, Latest
  <2> QED
    BY <1>1, <2>1, EmptyDomain DEF Following, Heading
<1>2. CASE Moving
  BY <1>2 DEF Moving
<1> QED
  BY <1>1, <1>2 DEF InOrder

LEMMA QuietOrder ==
  ASSUME InOrder, Quiet
  PROVE  /\ page.viewing = Viewed /\ Viewed.name \in rooms
         /\ EventsHere /\ UpToDate /\ DOMAIN down = {}
<1>1. page.viewing = Viewed /\ Heading(Viewed.name)
  BY UnwrittenOrder DEF Quiet
<1>2. Viewed.name \in rooms
  BY <1>1, EmptyDomain DEF Heading, Quiet
<1>3. EventsHere
  BY <1>1, EmptyDomain DEF EventsHere, Latest, Quiet
<1> QED
  BY <1>1, <1>2, <1>3, EmptyDomain DEF UpToDate, Quiet

\* What the page shows and the server has is all that the order is about.
LEMMA SameOrder ==
  ASSUME InOrder, UNCHANGED <<accounts, admin, token, patches, loads, up, joining, rooms, down>>,
         page'.viewing = page.viewing
  PROVE  InOrder'
<1>1. Viewed' = Viewed /\ Latest' = Latest
  BY DEF Viewed, Latest
<1>2. EventsHere' = EventsHere /\ EventsElsewhere' = EventsElsewhere
  BY <1>1 DEF EventsHere, EventsElsewhere
<1>3. UpToDate' = UpToDate
  BY <1>1, <1>2 DEF UpToDate
<1>4. Moving => Moving'
  BY <1>1 DEF Moving, Heading
<1>5. Following => Following'
  BY <1>1, <1>2, <1>3 DEF Following, OnTheWay, NotWritten, WrittenHere, WrittenElsewhere, SavedSoFar
<1> QED
  BY <1>4, <1>5 DEF InOrder

\* One request that is under way.
LEMMA FirstOnTheWay ==
  ASSUME NEW q \in Patch, patches' = Append(<<>>, q) \/ (patches' \in Seq(Patch) /\ Len(patches') = 1 /\ patches'[1] = q),
         OnTheWay(q)', loads' = <<>>, up' = <<>>, joining' = <<>>
  PROVE  InOrder'
<1>1. Len(patches') = 1 /\ patches'[1] = q
  OBVIOUS
<1> QED
  BY <1>1 DEF InOrder, Following

\* Nothing is left of a request.
LEMMA NoneOnTheWay ==
  ASSUME patches' = <<>>, UpToDate', loads' = <<>>, up' = <<>>, joining' = <<>>
  PROVE  InOrder'
BY DEF InOrder, Following

LEMMA ViewedAccount ==
  ASSUME Base, page.stage = "ready"
  PROVE  Viewed \in Account /\ page.viewing.id \in Ids /\ Viewed.id = page.viewing.id /\ Viewed.name \in Names
BY ReadyPage DEF Viewed, Base, TypeOK, Stored, Account

LEMMA ServeLoadInOrder ==
  ASSUME Base, page.stage = "ready", InOrder, NEW n \in DOMAIN loads, ServeLoad(n)
  PROVE  InOrder'
<1>1. Moving /\ admin
  BY OrderByPart, EmptyDomain DEF Moving
<1>2. /\ DOMAIN loads' = DOMAIN loads
      /\ \A m \in DOMAIN loads : m # n => loads'[m] = loads[m]
      /\ loads'[n].account # None => loads'[n].account = accounts[loads'[n].account.id]
  BY ServedLoad
<1>3. UNCHANGED <<accounts, admin, token, page, patches, up, joining, rooms, down>>
  BY DEF ServeLoad, socket
<1>4. \A m \in DOMAIN loads' :
        loads'[m].account # None => loads'[m].account = accounts[loads'[m].account.id]
  BY <1>1, <1>2 DEF Moving
<1> QED
  BY <1>1, <1>3, <1>4 DEF InOrder, Moving, Viewed, Heading

\* A socket that asks for a room last comes into it.
LEMMA AsksLast ==
  ASSUME NEW s \in Seq(Ask), NEW name \in Names, up' = s \o Subscribe(name)
  PROVE  \E n \in DOMAIN up' : /\ up'[n] = Asking(name)
                               /\ \A m \in DOMAIN up' : m > n => up'[m] # Leaving(name)
<1> DEFINE r == s \o <<Asking(name)>>
<1>1. Asking(name) \in Ask
  BY DEF Asking, Ask
<1>2. r \in Seq(Ask) /\ r # <<>> /\ r[Len(r)] = Asking(name)
  BY <1>1, ConcatOne
<1>3. up' = r
  BY DEF Subscribe, Asking
<1> HIDE DEF r
<1>4. Len(r) \in Nat /\ DOMAIN r = 1..Len(r) /\ Len(r) # 0
  BY <1>2, LenProperties, EmptySeq
<1>5. Len(r) \in DOMAIN r /\ \A m \in DOMAIN r : ~(m > Len(r))
  BY <1>4
<1> QED
  BY <1>2, <1>3, <1>5

LEMMA LoadedInOrder ==
  ASSUME Base, page.stage = "ready", InOrder, NEW n \in DOMAIN loads, Loaded(n)
  PROVE  InOrder'
<1> DEFINE l == loads[n]
<1>1. Moving /\ admin
  BY OrderByPart, EmptyDomain DEF Moving
<1>2. loads \in Seq(Load) /\ l \in Load /\ l.kind = "select" /\ page \in Page /\ up \in Seq(Ask)
  BY ALoad DEF Base, TypeOK, Stages
<1>3. loads' = RemoveAt(loads, n)
  BY <1>2 DEF Loaded
<1>4. UNCHANGED <<accounts, admin, token, patches, joining, rooms, down>>
  BY DEF Loaded
<1>5. \A j \in DOMAIN loads' : \E k \in DOMAIN loads : loads'[j] = loads[k]
  BY <1>2, <1>3, RemoveAtProperties
<1>6. \A j \in DOMAIN loads' :
        loads'[j].account # None => loads'[j].account = accounts[loads'[j].account.id]
  BY <1>1, <1>5 DEF Moving
<1>7. CASE l.account = None
  <2>1. UNCHANGED <<page, up>>
    BY <1>2, <1>7 DEF Loaded
  <2> QED
    BY <1>1, <1>4, <1>6, <2>1 DEF InOrder, Moving, Viewed, Heading
<1>8. CASE l.account # None
  <2>1. l.account = accounts[l.account.id] /\ l.account \in Account
    BY <1>1, <1>2, <1>8 DEF Moving, Load, Maybe
  <2>2. l.account.name \in Names /\ page.viewing.name \in Names
    BY <2>1, ReadyPage DEF Account
  <2>3. /\ page' = [page EXCEPT !.viewing = l.account, !.editing = FALSE]
        /\ up' = up \o Unsubscribe(page.viewing.name) \o Subscribe(l.account.name)
    BY <1>2, <1>8 DEF Loaded, MoveOn
  <2>4. up \o Unsubscribe(page.viewing.name) \in Seq(Ask)
    BY <1>2, <2>2, SubscribeAsks, ConcatProperties
  <2>5. page'.viewing = l.account /\ Viewed' = l.account
    BY <1>2, <1>4, <2>1, <2>3 DEF Page, Viewed
  <2>6. \E k \in DOMAIN up' : /\ up'[k] = Asking(l.account.name)
                              /\ \A m \in DOMAIN up' : m > k => up'[m] # Leaving(l.account.name)
    BY <2>2, <2>3, <2>4, AsksLast
  <2>7. Heading(Viewed.name)'
    BY <2>5, <2>6 DEF Heading
  <2> QED
    BY <1>1, <1>4, <1>6, <2>5, <2>7 DEF InOrder, Moving
<1> QED
  BY <1>7, <1>8

\* The one request of a page that is in order, before and after it has moved on.
LEMMA TheRequest ==
  ASSUME Base, page.stage = "ready", InOrder, NEW n \in DOMAIN patches
  PROVE  /\ Following /\ n = 1 /\ Len(patches) = 1 /\ OnTheWay(patches[n])
         /\ patches[n] \in Patch /\ Sent(patches[n])
         /\ \A q \in Patch : Advance(n, q) => /\ patches' \in Seq(Patch)
                                              /\ Len(patches') = 1 /\ patches'[1] = q
         /\ RemoveAt(patches, n) = <<>>
<1>1. patches # <<>> /\ patches \in Seq(Patch)
  BY EmptyDomain DEF Base, TypeOK
<1>2. Following /\ n = 1 /\ Len(patches) = 1 /\ OnTheWay(patches[n])
  BY <1>1, OrderByPart
<1>3. ASSUME NEW q \in Patch, Advance(n, q)
      PROVE  patches' \in Seq(Patch) /\ Len(patches') = 1 /\ patches'[1] = q
  BY <1>1, <1>2, <1>3, ExceptSeq DEF Advance
<1> QED
  BY <1>1, <1>2, <1>3, APatch, OneLess

\* What has been told stays true while the page, its events and its rooms stay.
LEMMA SameNews ==
  ASSUME UNCHANGED <<page, down, rooms>>, Viewed' = Viewed
  PROVE  /\ Latest' = Latest /\ EventsHere' = EventsHere
         /\ UNCHANGED accounts => EventsElsewhere' = EventsElsewhere /\ UpToDate' = UpToDate
BY DEF Latest, EventsHere, EventsElsewhere, UpToDate

LEMMA ReadStatusInOrder ==
  ASSUME Base, page.stage = "ready", InOrder, NEW n \in DOMAIN patches, ReadStatus(n)
  PROVE  InOrder'
<1> DEFINE p == patches[n]
<1>1. Following /\ OnTheWay(p) /\ p \in Patch
  BY TheRequest
<1>2. NotWritten(p) /\ p.step = "sent"
  BY <1>1 DEF ReadStatus, OnTheWay, WrittenHere, WrittenElsewhere
<1>3. PICK q \in Patch : /\ Advance(n, q) /\ q.step \in {"read", "answered"} /\ q.account = p.account
                         /\ q.by = p.by /\ q.name = p.name /\ q.base = p.base
  BY ReadStatusKeepsBase
<1>4. UNCHANGED <<accounts, page, loads, up, joining, rooms, down>> /\ Viewed' = Viewed
  BY DEF ReadStatus, socket, Viewed
<1>5. OnTheWay(q)'
  BY <1>2, <1>3, <1>4, SameNews DEF OnTheWay, NotWritten, SavedSoFar
<1>6. patches' \in Seq(Patch) /\ Len(patches') = 1 /\ patches'[1] = q
  BY <1>3, TheRequest
<1> QED
  BY <1>1, <1>4, <1>5, <1>6, FirstOnTheWay DEF Following

LEMMA WriteInOrder ==
  ASSUME Base, page.stage = "ready", InOrder, NEW n \in DOMAIN patches, Write(n)
  PROVE  InOrder'
<1> DEFINE p == patches[n]
<1>1. Following /\ OnTheWay(p) /\ p \in Patch /\ p.step \in {"sent", "read"}
  BY TheRequest, WriteEffect
<1>2. NotWritten(p) /\ p.account = None /\ EventsHere /\ UpToDate
  BY <1>1 DEF OnTheWay, NotWritten, WrittenHere, WrittenElsewhere
<1>3. UNCHANGED <<page, loads, up, joining, rooms, down>>
  BY WriteEffect
<1>4. ASSUME NEW q \in Patch, RefusedWrite(n, q) PROVE InOrder'
  <2>1. UNCHANGED accounts /\ Viewed' = Viewed
    BY <1>3, <1>4 DEF RefusedWrite, Viewed
  <2>2. OnTheWay(q)'
    BY <1>2, <1>3, <1>4, <2>1, SameNews DEF RefusedWrite, OnTheWay, NotWritten, SavedSoFar
  <2>3. patches' \in Seq(Patch) /\ Len(patches') = 1 /\ patches'[1] = q
    BY <1>4, TheRequest DEF RefusedWrite
  <2> QED
    BY <1>1, <1>3, <2>2, <2>3, FirstOnTheWay DEF Following
<1>5. ASSUME NEW i \in Ids, NEW a \in Account, NEW q \in Patch, Writes(n, i, a, q) PROVE InOrder'
  <2> DEFINE v == page.viewing.id
  <2>1. v \in Ids /\ accounts \in [Ids -> Account]
    BY ReadyPage DEF Base, TypeOK
  <2>2. patches' \in Seq(Patch) /\ Len(patches') = 1 /\ patches'[1] = q
    BY <1>5, TheRequest DEF Writes
  <2>3. accounts' = [accounts EXCEPT ![i] = a] /\ accounts[i].name = p.name
    BY <1>5 DEF Writes
  <2>4. Viewed.name \in rooms /\ \A m \in DOMAIN down : down[m].account.id = v
    BY <1>2 DEF UpToDate, EventsHere
  <2>5. CASE i = v
    <3>1. Viewed' = a /\ Viewed.name = p.name
      BY <1>3, <2>1, <2>3, <2>5 DEF Viewed
    <3>2. WrittenHere(q)'
      BY <1>3, <1>5, <2>4, <2>5, <3>1 DEF Writes, WrittenHere
    <3> QED
      BY <1>1, <1>3, <2>2, <3>2, FirstOnTheWay DEF Following, OnTheWay
  <2>6. CASE i # v
    <3>1. Viewed' = Viewed /\ Viewed = accounts[v] /\ accounts'[i] = a
      BY <1>3, <2>1, <2>3, <2>6 DEF Viewed
    <3>2. p.name # Viewed.name
      BY <2>1, <2>3, <2>6, <3>1 DEF Base, Stored
    <3>3. p.by \in {"confirm", "others"}
      BY <1>1, <1>2, <3>2 DEF NotWritten, Patch
    <3>4. down = <<>> /\ page.viewing = Viewed
      BY <1>1, <1>2, <3>3 DEF NotWritten, EventsHere, Latest
    <3>5. a.id = i /\ q.account = a /\ q.name = p.name /\ q.by = p.by /\ q.step = "written"
      BY <1>5 DEF Writes
    <3>6. WrittenElsewhere(q)'
      BY <1>3, <2>4, <2>6, <3>1, <3>2, <3>3, <3>4, <3>5 DEF WrittenElsewhere
    <3> QED
      BY <1>1, <1>3, <2>2, <3>6, FirstOnTheWay DEF Following, OnTheWay
  <2> QED
    BY <2>5, <2>6
<1> QED
  BY <1>4, <1>5, WriteEffect

Update(a) == [event |-> "accountUpdated", account |-> a]

\* Without a forced logout the page is told of the account or of nothing.
LEMMA Told ==
  ASSUME Base, NEW n \in DOMAIN patches, Announce(n), NoLogout'
  PROVE  LET p == patches[n]
             name == IF p.field = "name" THEN p.name ELSE p.account.name
         IN /\ Update(p.account) \in Event /\ down \in Seq(Event)
            /\ name \in rooms => down' = down \o <<Update(p.account)>>
            /\ name \notin rooms => down' = down
<1> DEFINE p == patches[n]
           e == Update(p.account)
           logout == [event |-> "forceLogout", account |-> p.account]
<1>1. /\ p \in Patch /\ p.account \in Account /\ down \in Seq(Event)
      /\ p.field # "name" => down' = down \o Updated(p.account.name, p.account) \o ForcedLogout(p)
  BY AnnouncedEvents
<1>2. e \in Event /\ logout \in Event
  BY <1>1 DEF Event, Update
<1>3. down \o <<>> = down /\ down \o <<e>> \in Seq(Event)
  BY <1>1, <1>2, ConcatOne
<1>4. \A name : Updated(name, p.account) = IF name \in rooms THEN <<e>> ELSE <<>>
  BY DEF Updated, Update
<1>5. CASE p.field = "name"
  <2>1. down' = down \o Updated(p.name, p.account)
    BY <1>5 DEF Announce
  <2> QED
    BY <1>1, <1>2, <1>3, <1>4, <1>5, <2>1
<1>6. CASE p.field # "name"
  <2> DEFINE told == down \o Updated(p.account.name, p.account)
  <2>1. told \in Seq(Event) /\ told = IF p.account.name \in rooms THEN down \o <<e>> ELSE down
    BY <1>1, <1>3, <1>4
  <2>2. told \o <<>> = told
    BY <2>1, ConcatOne
  <2>3. ForcedLogout(p) = <<>>
    <3>1. SUFFICES ASSUME ForcedLogout(p) = <<logout>> PROVE FALSE
      BY DEF ForcedLogout
    <3>2. down' = told \o <<logout>>
      BY <1>1, <1>6, <3>1
    <3>3. \A w \in Seq(Event), x \in Event : \E k \in DOMAIN (w \o <<x>>) : (w \o <<x>>)[k] = x
      BY ConcatOne
    <3> HIDE DEF told, logout
    <3>4. \E k \in DOMAIN (told \o <<logout>>) : (told \o <<logout>>)[k] = logout
      BY <1>2, <2>1, <3>3
    <3>5. \E k \in DOMAIN down' : down'[k] = logout
      BY <3>2, <3>4
    <3>6. logout.event # "accountUpdated"
      BY DEF logout
    <3> QED
      BY <3>5, <3>6 DEF NoLogout
  <2>4. down' = told
    BY <1>1, <1>6, <2>2, <2>3
  <2> QED
    BY <1>1, <1>2, <1>6, <2>1, <2>4
<1> QED
  BY <1>5, <1>6

\* One more event about the account on show.
LEMMA OneMoreEvent ==
  ASSUME down \in Seq(Event), NEW a, Update(a) \in Event, down' = down \o <<Update(a)>>,
         \A n \in DOMAIN down : down[n].account.id = page.viewing.id, a.id = page.viewing.id,
         UNCHANGED page
  PROVE  /\ Latest' = a
         /\ \A n \in DOMAIN down' : down'[n].account.id = page'.viewing.id
<1> DEFINE r == down \o <<Update(a)>>
<1>1. /\ r # <<>> /\ r[Len(r)] = Update(a)
      /\ \A k \in DOMAIN r : r[k] = Update(a) \/ (k \in DOMAIN down /\ r[k] = down[k])
  BY ConcatOne
<1> HIDE DEF r
<1>2. down' = r /\ Update(a).account = a
  BY DEF r, Update
<1>3. Latest' = a
  BY <1>1, <1>2 DEF Latest
<1> QED
  BY <1>1, <1>2, <1>3

LEMMA AnnounceInOrder ==
  ASSUME Base, page.stage = "ready", InOrder, NoLogout', orderly', NEW n \in DOMAIN patches, Announce(n)
  PROVE  InOrder'
<1> DEFINE p == patches[n]
           name == IF p.field = "name" THEN p.name ELSE p.account.name
<1>1. Following /\ OnTheWay(p) /\ p \in Patch /\ p.step = "written"
  BY TheRequest DEF Announce
<1>2. PICK q \in Patch : /\ Advance(n, q) /\ q.step = "answered" /\ q.by = p.by
                         /\ q.account \in {None, p.account}
                         /\ q.by = "save" => q.account = p.account
  BY AnnounceKeepsBase
<1>3. p.account \in Account /\ p.account # None
  BY <1>1, TheRequest, NoneIsNoAccount DEF Sent, Patch, Maybe
<1>4. UNCHANGED <<accounts, page, loads, up, joining>>
  BY AnnounceKeepsBase
<1>5. patches' \in Seq(Patch) /\ Len(patches') = 1 /\ patches'[1] = q
  BY <1>2, TheRequest
<1>6. /\ Update(p.account) \in Event /\ down \in Seq(Event)
      /\ name \in rooms => down' = down \o <<Update(p.account)>>
      /\ name \notin rooms => down' = down
  BY Told
<1>7. rooms' = IF p.field = "name" /\ p.name \in rooms THEN (rooms \ {p.name}) \cup {p.account.name} ELSE rooms
  BY DEF Announce, MoveSocketsToRoom
<1>8. page.viewing.id \in Ids /\ Viewed' = Viewed /\ Viewed.id = page.viewing.id
  BY <1>4, ReadyPage DEF Viewed, Base, Stored
<1> HIDE DEF name
<1>9. CASE WrittenHere(p)
  <2>1. p.account = Viewed /\ p.name \in rooms /\ name = p.name
    BY <1>9 DEF WrittenHere, name
  <2>2. down' = down \o <<Update(p.account)>> /\ Viewed.name \in rooms'
    BY <1>6, <1>7, <1>9, <2>1 DEF WrittenHere
  <2>3. Latest' = p.account /\ \A m \in DOMAIN down' : down'[m].account.id = page'.viewing.id
    BY <1>4, <1>6, <1>8, <1>9, <2>1, <2>2, OneMoreEvent DEF WrittenHere
  <2>4. EventsHere' /\ UpToDate'
    BY <1>8, <2>1, <2>2, <2>3 DEF EventsHere, UpToDate
  <2>5. NotWritten(q)'
    BY <1>2, <1>3, <1>8, <2>1, <2>4 DEF NotWritten, SavedSoFar
  <2> QED
    BY <1>1, <1>4, <1>5, <2>5, FirstOnTheWay DEF Following, OnTheWay
<1>10. CASE WrittenElsewhere(p)
  <2>1. /\ Viewed.name \in rooms /\ page.viewing = Viewed /\ down = <<>> /\ p.name # Viewed.name
        /\ p.account = accounts[p.account.id] /\ p.account.id # page.viewing.id
        /\ p.by \in {"confirm", "others"}
    BY <1>10 DEF WrittenElsewhere
  <2>2. p.account.id \in Ids
    BY <1>3 DEF Account
  <2>3. \A m \in DOMAIN down' : down'[m] = Update(p.account)
    BY <1>6, <2>1, ConcatOne, EmptyDomain
  <2>4. Viewed.name \in rooms'
    BY <1>7, <2>1
  <2>5. EventsElsewhere' /\ UpToDate'
    BY <1>4, <1>8, <2>1, <2>2, <2>3, <2>4 DEF EventsElsewhere, UpToDate, Update
  <2>6. NotWritten(q)'
    BY <1>2, <2>1, <2>5 DEF NotWritten
  <2> QED
    BY <1>1, <1>4, <1>5, <2>6, FirstOnTheWay DEF Following, OnTheWay
<1> QED
  BY <1>1, <1>9, <1>10 DEF OnTheWay, NotWritten

\* A save that resumes while the page is in order.
LEMMA ResumedInOrder ==
  ASSUME Base, page.stage = "ready", NEW pg, pg.viewing = page.viewing,
         EventsHere, UpToDate, Resumed(pg, Viewed, <<>>),
         UNCHANGED <<accounts, loads, up, joining, rooms, down>>,
         loads = <<>>, up = <<>>, joining = <<>>
  PROVE  InOrder'
<1>1. page.viewing.id \in Ids /\ Viewed.id = page.viewing.id
  BY ReadyPage DEF Viewed, Base, Stored
<1>2. CASE page'.viewing = Viewed /\ patches' = <<>>
  <2>1. Viewed' = Viewed /\ page'.viewing.id = page.viewing.id
    BY <1>1, <1>2 DEF Viewed
  <2>2. UpToDate'
    BY <1>2, <2>1 DEF EventsHere, UpToDate, Latest
  <2> QED
    BY <1>2, <2>2, NoneOnTheWay
<1>3. CASE ~(page'.viewing = Viewed /\ patches' = <<>>)
  <2>1. PICK q \in Patch : /\ patches' = Append(<<>>, q)
                           /\ q.by = "save" /\ q.step = "sent" /\ q.account = None
                           /\ q.base = Viewed /\ q.name = Viewed.name
    BY <1>3 DEF Resumed
  <2>2. page'.viewing = page.viewing /\ Viewed' = Viewed
    BY <1>3 DEF Resumed, Viewed
  <2>3. EventsHere' /\ UpToDate'
    BY <2>2 DEF EventsHere, UpToDate, Latest
  <2>4. NotWritten(q)'
    BY <2>1, <2>2, <2>3 DEF NotWritten, SavedSoFar
  <2> QED
    BY <2>1, <2>4, FirstOnTheWay DEF OnTheWay
<1> QED
  BY <1>2, <1>3

LEMMA AnswerInOrder ==
  ASSUME Base, page.stage = "ready", InOrder, NEW n \in DOMAIN patches, Answer(n), page'.stage = "ready"
  PROVE  InOrder'
<1> DEFINE p == patches[n]
<1>1. Following /\ OnTheWay(p) /\ p \in Patch /\ p.step = "answered" /\ RemoveAt(patches, n) = <<>>
  BY TheRequest DEF Answer
<1>2. NotWritten(p) /\ UpToDate
  BY <1>1 DEF OnTheWay, NotWritten, WrittenHere, WrittenElsewhere
<1>3. UNCHANGED accounts
  BY DEF Answer
<1>4. CASE patches' = <<>> /\ UNCHANGED <<page, loads, up, joining, rooms, down>>
  <2>1. Viewed' = Viewed
    BY <1>3, <1>4 DEF Viewed
  <2>2. UpToDate'
    BY <1>2, <1>3, <1>4, <2>1, SameNews
  <2> QED
    BY <1>1, <1>4, <2>2, NoneOnTheWay DEF Following
<1>5. CASE SaveAnswered(n)
  <2>1. SavedSoFar(p) = Viewed /\ EventsHere
    BY <1>2, <1>5 DEF NotWritten, SaveAnswered
  <2>2. Resumed(page, SavedSoFar(p), RemoveAt(patches, n))
    BY <1>5, SaveAnsweredEffect
  <2>3. UNCHANGED <<loads, up, joining, rooms, down>>
    BY <1>5 DEF SaveAnswered, socket
  <2> QED
    BY <1>1, <1>2, <1>3, <2>1, <2>2, <2>3, ResumedInOrder DEF Following
<1>6. CASE ToggleAnswered(n)
  <2>1. /\ patches' = <<>> /\ UNCHANGED <<loads, up, joining, rooms, down>> /\ p.by = "toggle"
        /\ page' = IF p.account = None THEN page ELSE [page EXCEPT !.viewing = p.account]
    BY <1>1, <1>6 DEF ToggleAnswered, socket
  <2>2. EventsHere /\ (page'.viewing = page.viewing \/ page'.viewing = Viewed)
    BY <1>2, <2>1 DEF NotWritten, Base, TypeOK, Page
  <2>3. page'.viewing.id = page.viewing.id /\ Viewed' = Viewed
    BY <1>3, <2>2, ViewedAccount DEF Viewed
  <2>4. UpToDate'
    BY <1>2, <2>1, <2>2, <2>3 DEF EventsHere, UpToDate, Latest
  <2> QED
    BY <1>1, <2>1, <2>4, NoneOnTheWay DEF Following
<1>7. ~Leave
  BY DEF Leave, Closed
<1> QED
  BY <1>1, <1>4, <1>5, <1>6, <1>7 DEF Answer, ConfirmAnswered, OthersAnswered, socket

LEMMA ReceiveInOrder ==
  ASSUME Base, page.stage = "ready", InOrder, Receive
  PROVE  InOrder'
<1> DEFINE name == Viewed.name
<1>1. Moving /\ up # <<>> /\ Heading(name)
  BY OrderByPart DEF Receive, Moving
<1>2. UNCHANGED <<accounts, admin, token, page, loads, patches, down>> /\ up' = Tail(up)
  BY DEF Receive
<1>3. Viewed' = Viewed /\ name \in Names
  BY <1>2, ViewedAccount DEF Viewed
<1>4. up \in Seq(Ask) /\ joining \in Seq(Names)
  BY DEF Base, TypeOK
<1>5. /\ Len(up) \in Nat /\ Len(up) # 0 /\ DOMAIN up = 1..Len(up) /\ Head(up) = up[1] /\ Head(up) \in Ask
      /\ DOMAIN up' = 1..Len(up) - 1 /\ \A i \in 1..Len(up) - 1 : up'[i] = up[i + 1]
  <2>1. /\ Tail(up) \in Seq(Ask) /\ Len(Tail(up)) = Len(up) - 1 /\ Head(up) \in Ask
        /\ \A i \in 1..Len(up) - 1 : Tail(up)[i] = up[i + 1]
    BY <1>1, <1>4, HeadTailProperties
  <2> QED
    BY <1>1, <1>2, <1>4, <2>1, LenProperties, EmptySeq
<1>6. Head(up).name \in Names /\ Append(joining, Head(up).name) \in Seq(Names)
  BY <1>4, <1>5, AppendedSequence DEF Ask
<1>7. Head(up) = Asking(name) => \E k \in DOMAIN joining' : joining'[k] = name
  <2> SUFFICES ASSUME Head(up) = Asking(name) PROVE \E k \in DOMAIN joining' : joining'[k] = name
    OBVIOUS
  <2>1. joining' = Append(joining, name)
    BY DEF Receive, Asking
  <2>2. Len(joining) + 1 \in DOMAIN joining' /\ joining'[Len(joining) + 1] = name
    BY <1>3, <1>4, <2>1, LenProperties
  <2> QED
    BY <2>2
<1>8. (\E k \in DOMAIN joining : joining[k] = name) => \E k \in DOMAIN joining' : joining'[k] = name
  <2> SUFFICES ASSUME NEW k \in DOMAIN joining, joining[k] = name
               PROVE  k \in DOMAIN joining' /\ joining'[k] = name
    OBVIOUS
  <2>1. k \in DOMAIN Append(joining, Head(up).name) /\ Append(joining, Head(up).name)[k] = joining[k]
    BY <1>4, <1>6, AppendedSequence
  <2> QED
    BY <2>1 DEF Receive
<1>9. name \in rooms /\ Head(up) # Leaving(name) => name \in rooms'
  <2>1. Head(up).event # "subscribeAccount" /\ Head(up).name = name => Head(up) = Leaving(name)
    BY <1>5 DEF Ask, Leaving
  <2> QED
    BY <2>1 DEF Receive
<1>10. Heading(name)'
  <2> HIDE DEF name
  <2>1. ASSUME NEW n \in DOMAIN up, up[n] = Asking(name), \A m \in DOMAIN up : m > n => up[m] # Leaving(name)
        PROVE  \/ \E k \in DOMAIN up' : /\ up'[k] = Asking(name)
                                        /\ \A m \in DOMAIN up' : m > k => up'[m] # Leaving(name)
               \/ /\ \A k \in DOMAIN up' : up'[k] # Leaving(name)
                  /\ \E k \in DOMAIN joining' : joining'[k] = name
    <3>1. CASE n = 1
      BY <1>5, <1>7, <2>1, <3>1
    <3>2. CASE n # 1
      <4>1. n - 1 \in DOMAIN up' /\ up'[n - 1] = Asking(name)
        BY <1>5, <2>1, <3>2
      <4>2. \A m \in DOMAIN up' : m > n - 1 => up'[m] # Leaving(name)
        BY <1>5, <2>1
      <4> QED
        BY <4>1, <4>2
    <3> QED
      BY <3>1, <3>2
  <2>2. ASSUME \A k \in DOMAIN up : up[k] # Leaving(name),
               name \in rooms \/ \E k \in DOMAIN joining : joining[k] = name
        PROVE  /\ \A k \in DOMAIN up' : up'[k] # Leaving(name)
               /\ name \in rooms' \/ \E k \in DOMAIN joining' : joining'[k] = name
    <3>1. Head(up) # Leaving(name) /\ \A k \in DOMAIN up' : up'[k] # Leaving(name)
      BY <1>5, <2>2
    <3> QED
      BY <1>8, <1>9, <2>2, <3>1
  <2>3. name' = name
    BY <1>3 DEF name
  <2> QED
    BY <1>1, <2>1, <2>2, <2>3 DEF Heading
<1> QED
  BY <1>1, <1>2, <1>3, <1>10 DEF InOrder, Moving

LEMMA JoinRoomInOrder ==
  ASSUME Base, page.stage = "ready", InOrder, NEW n \in DOMAIN joining, JoinRoom(n)
  PROVE  InOrder'
<1> DEFINE name == Viewed.name
<1>1. Moving /\ Heading(name)
  BY OrderByPart, EmptyDomain DEF Moving
<1>2. UNCHANGED <<accounts, admin, token, page, loads, patches, up, down>>
  BY DEF JoinRoom
<1>3. Viewed' = Viewed
  BY <1>2 DEF Viewed
<1>4. joining \in Seq(Names)
  BY DEF Base, TypeOK
<1>5. MayJoin(name)
  <2>1. Me \in Named(token)
    BY <1>1, AccountPageAssumption DEF Moving, Named
  <2>2. admin \/ token = name
    BY <1>1 DEF Moving, Viewed
  <2> QED
    BY <2>1, <2>2 DEF MayJoin
<1>6. rooms \subseteq rooms' /\ (joining[n] = name => name \in rooms')
  BY <1>5 DEF JoinRoom
<1>7. \A k \in DOMAIN joining : k # n => \E j \in DOMAIN joining' : joining'[j] = joining[k]
  BY <1>4, RemoveAtProperties DEF JoinRoom
<1>8. Heading(name)'
  <2> HIDE DEF name
  <2>1. name' = name
    BY <1>3 DEF name
  <2> QED
    BY <1>1, <1>2, <1>6, <1>7, <2>1 DEF Heading
<1> QED
  BY <1>1, <1>2, <1>3, <1>8 DEF InOrder, Moving

\* An accountUpdated event of a page that is in order is about the account on show,
\* or about one that the page has left.
LEMMA HandleEventInOrder ==
  ASSUME Base, page.stage = "ready", InOrder, HandleEvent, Head(down).event # "forceLogout"
  PROVE  InOrder'
<1> DEFINE a == Head(down).account
<1>1. Following /\ down # <<>> /\ down \in Seq(Event) /\ page \in Page /\ page.viewing # None
  BY OrderByPart DEF HandleEvent, Base, TypeOK
<1>2. /\ page' = [page EXCEPT
               !.viewing = IF Shown(a, @) THEN a ELSE @,
               !.current = IF @ # None /\ a.id = @.id THEN a ELSE @]
      /\ down' = Tail(down)
      /\ UNCHANGED <<accounts, admin, token, patches, loads, up, joining, rooms>>
  BY DEF HandleEvent
<1>3. /\ Len(down) \in Nat /\ Len(down) > 0 /\ DOMAIN down = 1..Len(down) /\ Head(down) = down[1]
      /\ Tail(down) \in Seq(Event)
      /\ Len(Tail(down)) = Len(down) - 1 /\ \A i \in 1..Len(down) - 1 : Tail(down)[i] = down[i + 1]
  BY <1>1, HeadTailProperties, EmptySeq, LenProperties
<1>4. DOMAIN down' = 1..Len(down) - 1 /\ (down' = <<>> <=> Len(down) = 1)
  <2>1. DOMAIN down' = 1..Len(down') /\ Len(down') = Len(down) - 1
    BY <1>2, <1>3, LenProperties
  <2>2. down' = <<>> <=> Len(down') = 0
    BY <1>2, <1>3, EmptySeq
  <2> QED
    BY <1>3, <2>1, <2>2
<1>5. \A m \in DOMAIN down' : m + 1 \in DOMAIN down /\ down'[m] = down[m + 1]
  BY <1>2, <1>3, <1>4
<1>6. ASSUME \A m \in DOMAIN down : down[m].account.id = page.viewing.id
      PROVE  /\ page'.viewing.id = page.viewing.id /\ Latest' = Latest
             /\ \A m \in DOMAIN down' : down'[m].account.id = page'.viewing.id
  <2>1. a.id = page.viewing.id
    BY <1>3, <1>6
  <2>2. page'.viewing = a
    BY <1>1, <1>2, <2>1 DEF Shown, Page
  <2>3. CASE Len(down) = 1
    BY <1>1, <1>3, <1>4, <1>5, <1>6, <2>1, <2>2, <2>3 DEF Latest
  <2>4. CASE Len(down) # 1
    <3>1. down' # <<>> /\ Len(down') = Len(down) - 1 /\ down'[Len(down) - 1] = down[Len(down)]
      BY <1>2, <1>3, <1>4, <2>4
    <3> QED
      BY <1>1, <1>5, <1>6, <2>1, <2>2, <3>1 DEF Latest
  <2> QED
    BY <2>3, <2>4
<1>7. ASSUME EventsElsewhere
      PROVE  page'.viewing = page.viewing /\ EventsElsewhere'
  <2>1. a.id \in Ids \ {page.viewing.id} /\ a = accounts[a.id] /\ page.viewing = Viewed
    BY <1>3, <1>7 DEF EventsElsewhere
  <2>2. a.name # page.viewing.name
    BY <2>1, ViewedAccount DEF Viewed, Base, Stored
  <2>3. page'.viewing = page.viewing
    BY <1>1, <1>2, <2>1, <2>2 DEF Shown, Page
  <2>4. Viewed' = Viewed
    BY <1>2, <2>3 DEF Viewed
  <2> QED
    BY <1>2, <1>5, <1>7, <2>3, <2>4 DEF EventsElsewhere
<1>8. EventsHere => EventsHere' /\ page'.viewing.id = page.viewing.id
  <2> SUFFICES ASSUME EventsHere PROVE EventsHere' /\ page'.viewing.id = page.viewing.id
    OBVIOUS
  <2>1. /\ page'.viewing.id = page.viewing.id /\ Latest' = Latest
        /\ \A m \in DOMAIN down' : down'[m].account.id = page'.viewing.id
    BY <1>6 DEF EventsHere
  <2>2. Viewed' = Viewed
    BY <1>2, <2>1 DEF Viewed
  <2> QED
    BY <2>1, <2>2 DEF EventsHere
<1>9. page'.viewing.id = page.viewing.id => Viewed' = Viewed
  BY <1>2 DEF Viewed
<1>10. UpToDate => UpToDate' /\ Viewed' = Viewed
  BY <1>2, <1>7, <1>8, <1>9 DEF UpToDate
<1>11. CASE patches = <<>>
  <2>1. UpToDate'
    BY <1>1, <1>10, <1>11, EmptyDomain DEF Following
  <2> QED
    BY <1>1, <1>2, <1>11, <2>1, NoneOnTheWay DEF Following
<1>12. CASE Len(patches) = 1 /\ OnTheWay(patches[1])
  <2> DEFINE p == patches[1]
  <2>1. p' = p
    BY <1>2
  <2> HIDE DEF p
  <2>2. NotWritten(p) => NotWritten(p)'
    BY <1>1, <1>8, <1>10, <2>1 DEF NotWritten, SavedSoFar
  <2>3. WrittenHere(p) => WrittenHere(p)'
    BY <1>2, <1>6, <1>9, <2>1 DEF WrittenHere
  <2>4. ~WrittenElsewhere(p)
    BY <1>1 DEF WrittenElsewhere
  <2>5. OnTheWay(p)'
    BY <1>12, <2>2, <2>3, <2>4 DEF OnTheWay, p
  <2> QED
    BY <1>1, <1>2, <1>12, <2>5 DEF Following, InOrder, p
<1> QED
  BY <1>1, <1>11, <1>12 DEF Following

LEMMA TapInOrder ==
  ASSUME Base, page.stage = "ready", InOrder, orderly',
         Edit \/ Cancel \/ Save \/ Toggle \/ Confirm \/ Decline
  PROVE  InOrder'
<1>1. page \in Page /\ UNCHANGED <<accounts, admin, token, loads, up, joining, rooms, down>>
  BY DEF Edit, Cancel, Save, Toggle, Confirm, Decline, Tap, socket, Base, TypeOK
<1>2. CASE page'.viewing = page.viewing /\ UNCHANGED patches
  BY <1>1, <1>2, SameOrder
<1>3. Edit \/ Cancel \/ Decline => page'.viewing = page.viewing /\ UNCHANGED patches
  BY <1>1 DEF Edit, Cancel, Decline, Page
<1>4. ASSUME Quiet
      PROVE  /\ UpToDate /\ EventsHere /\ page.viewing = Viewed /\ patches = <<>> /\ down = <<>>
             /\ loads = <<>> /\ up = <<>> /\ joining = <<>>
  BY <1>4, QuietOrder DEF Quiet
<1>5. CASE Save
  <2>1. Quiet
    BY <1>5 DEF Save, Crossing
  <2>2. Resumed([page EXCEPT !.savable = FALSE], page.viewing, patches)
    BY <1>5, SaveEffect
  <2>3. [page EXCEPT !.savable = FALSE].viewing = page.viewing
    BY <1>1 DEF Page
  <2> QED
    BY <1>1, <1>4, <2>1, <2>2, <2>3, ResumedInOrder
<1>6. ASSUME NEW q \in Patch, patches' = Append(patches, q), q.by \in {"toggle", "confirm"},
             q.by = "toggle" => q.name = page.viewing.name, q.step = "sent", q.account = None,
             page'.viewing = page.viewing, Quiet
      PROVE  InOrder'
  <2>1. Viewed' = Viewed
    BY <1>1, <1>6 DEF Viewed
  <2>2. EventsHere' /\ UpToDate'
    BY <1>1, <1>4, <1>6, <2>1 DEF EventsHere, UpToDate, Latest
  <2>3. NotWritten(q)'
    BY <1>1, <1>4, <1>6, <2>1, <2>2 DEF NotWritten
  <2> QED
    BY <1>1, <1>4, <1>6, <2>3, FirstOnTheWay DEF OnTheWay
<1>7. "Active" \in ValuesOf("status") /\ "Inactive" \in ValuesOf("status") /\ "status" \in Fields
  BY DEF ValuesOf, Statuses, Fields
<1>8. CASE Toggle
  <2>1. Quiet /\ page.viewing.name \in Names
    BY <1>8, ReadyPage DEF Toggle, Crossing
  <2>2. CASE page' = [page EXCEPT !.confirm = "viewing"] /\ UNCHANGED patches
    BY <1>1, <1>2, <2>2 DEF Page
  <2>3. CASE ~(page' = [page EXCEPT !.confirm = "viewing"] /\ UNCHANGED patches)
    <3> DEFINE q == Begun("toggle", page.viewing.name, "status", "Active")
    <3>1. patches' = Append(patches, q) /\ UNCHANGED page
      BY <1>8, <2>3 DEF Toggle
    <3>2. q \in Patch
      BY <1>7, <2>1, BegunIsPatch
    <3>3. q.by = "toggle" /\ q.name = page.viewing.name /\ q.step = "sent" /\ q.account = None
      BY DEF Begun
    <3> HIDE DEF q
    <3> QED
      BY <1>6, <2>1, <3>1, <3>2, <3>3
  <2> QED
    BY <2>2, <2>3
<1>9. CASE Confirm
  <2> DEFINE name == IF page.confirm = "viewing" THEN page.viewing.name ELSE page.confirm
             q == Begun("confirm", name, "status", "Inactive")
  <2>1. Quiet /\ page.viewing.name \in Names /\ page.confirm # NoName
    BY <1>9, ReadyPage DEF Confirm, Crossing
  <2>2. name \in Names
    BY <1>1, <2>1 DEF Page
  <2>3. patches' = Append(patches, q) /\ page'.viewing = page.viewing
    BY <1>1, <1>9 DEF Confirm, Page
  <2> HIDE DEF name
  <2>4. q \in Patch
    BY <1>7, <2>2, BegunIsPatch
  <2>5. q.by = "confirm" /\ q.step = "sent" /\ q.account = None
    BY DEF Begun
  <2> HIDE DEF q
  <2> QED
    BY <1>6, <2>1, <2>3, <2>4, <2>5
<1> QED
  BY <1>2, <1>3, <1>5, <1>8, <1>9

LEMMA SelectInOrder ==
  ASSUME Base, page.stage = "ready", InOrder, orderly', NEW name \in Names, Select(name)
  PROVE  InOrder'
<1> DEFINE l == [kind |-> "select", name |-> name, step |-> "sent", account |-> None]
<1>1. patches = <<>> /\ down = <<>> /\ admin /\ token = accounts[Me].name
  BY DEF Select
<1>2. UNCHANGED <<accounts, admin, token, page, patches, up, joining, rooms, down>>
  BY DEF Select, Tap, socket
<1>3. page.viewing = Viewed /\ Heading(Viewed.name) /\ (loads # <<>> => Moving)
  BY <1>1, UnwrittenOrder
<1>4. loads \in Seq(Load) /\ l \in Load /\ loads' = Append(loads, l)
  BY DEF Select, Base, TypeOK, Load, Maybe
<1>5. \A m \in DOMAIN loads' :
        loads'[m].account # None => loads'[m].account = accounts[loads'[m].account.id]
  <2>1. \A m \in DOMAIN loads' : loads'[m] = l \/ (m \in DOMAIN loads /\ loads'[m] = loads[m])
    BY <1>4, AppendedSequence
  <2>2. \A m \in DOMAIN loads :
          loads[m].account # None => loads[m].account = accounts[loads[m].account.id]
    BY <1>3, EmptyDomain DEF Moving
  <2> QED
    BY <2>1, <2>2
<1> QED
  BY <1>1, <1>2, <1>3, <1>5 DEF InOrder, Moving, Viewed, Heading

LEMMA OthersPatchInOrder ==
  ASSUME Base, page.stage = "ready", InOrder, orderly', NEW i \in Ids, OthersPatch(i)
  PROVE  InOrder'
<1>1. Quiet
  BY DEF OthersPatch, Crossing
<1>2. UNCHANGED <<accounts, admin, token, page, loads, up, joining, rooms, down>> /\ Viewed' = Viewed
  BY DEF OthersPatch, socket, Viewed
<1>3. PICK q \in Patch : patches' = Append(patches, q) /\ q.by = "others" /\ q.step = "sent" /\ q.account = None
  BY OthersPatchKeepsBase
<1>4. EventsHere' /\ UpToDate'
  BY <1>1, <1>2, QuietOrder, SameNews
<1>5. NotWritten(q)'
  BY <1>1, <1>2, <1>3, <1>4 DEF NotWritten, Quiet
<1> QED
  BY <1>1, <1>2, <1>3, <1>5, FirstOnTheWay DEF OnTheWay, Quiet

\* The page comes up in order.
LEMMA ComesUpInOrder ==
  ASSUME Base, OpensInOrder, orderly, page.stage = "opening", NEW n \in DOMAIN loads, Loaded(n),
         page'.stage = "ready"
  PROVE  InOrder'
<1>1. /\ patches = <<>> /\ up = <<>> /\ joining = <<>> /\ down = <<>> /\ rooms = {}
      /\ token = accounts[Me].name
      /\ page'.viewing = accounts[Me] /\ up' = Subscribe(accounts[Me].name) /\ loads' = <<>>
  BY OpenLoaded
<1>2. UNCHANGED <<accounts, admin, token, patches, joining, rooms, down>>
  BY DEF Loaded
<1>3. Viewed' = accounts[Me] /\ page'.viewing.id = Me /\ accounts[Me].name \in Names
  BY <1>1, <1>2, AccountPageAssumption DEF Viewed, Base, Stored, TypeOK, Account
<1>4. up' = <<>> \o Subscribe(accounts[Me].name) /\ <<>> \in Seq(Ask)
  BY <1>1, <1>3, SubscribeAsks, ConcatEmptySeq
<1>5. \E k \in DOMAIN up' : /\ up'[k] = Asking(accounts[Me].name)
                           /\ \A m \in DOMAIN up' : m > k => up'[m] # Leaving(accounts[Me].name)
  BY <1>3, <1>4, AsksLast
<1> QED
  BY <1>1, <1>2, <1>3, <1>5, EmptyDomain DEF InOrder, Moving, Heading

LEMMA EventsRemain ==
  ASSUME Base, [Next]_vars, NoLogout', ~HandleEvent, page'.stage = "ready", ~Drop
  PROVE  NoLogout
<1>1. CASE UNCHANGED down
  BY <1>1 DEF NoLogout
<1>2. ASSUME NEW n \in DOMAIN patches, Announce(n) PROVE NoLogout
  <2>1. down \in Seq(Event) /\ Announced(patches[n]) \in Seq(Event) /\ down' = down \o Announced(patches[n])
    BY <1>2, AnnouncedEvents
  <2>2. \A m \in DOMAIN down : m \in DOMAIN down' /\ down'[m] = down[m]
    BY <2>1, ConcatKeeps
  <2> QED
    BY <2>2 DEF NoLogout
<1>3. ASSUME NEW n \in DOMAIN patches, Answer(n) PROVE NoLogout
  <2>1. ~Leave
    BY DEF Leave, Closed
  <2> QED
    BY <1>1, <1>3, <2>1 DEF Answer, SaveAnswered, ToggleAnswered, ConfirmAnswered, OthersAnswered, socket
<1>4. ASSUME NEW n \in DOMAIN patches, ReadStatus(n) \/ Write(n) PROVE NoLogout
  BY <1>1, <1>4 DEF ReadStatus, Write, socket
<1>5. ASSUME NEW n \in DOMAIN loads, ServeLoad(n) \/ Loaded(n) PROVE NoLogout
  BY <1>1, <1>5 DEF ServeLoad, Loaded, socket
<1>6. CASE Connect \/ Receive \/ \E n \in DOMAIN joining : JoinRoom(n)
  BY <1>1, <1>6 DEF Connect, Receive, JoinRoom
<1>7. CASE \/ \E name \in Names : Select(name)
           \/ \E i \in Ids : OthersPatch(i)
           \/ Edit \/ Cancel \/ Save \/ Toggle \/ Confirm \/ Decline
  BY <1>1, <1>7 DEF Select, OthersPatch, Edit, Cancel, Save, Toggle, Confirm, Decline, socket
<1>8. CASE UNCHANGED vars
  BY <1>1, <1>8 DEF vars, socket
<1> QED
  BY <1>2, <1>3, <1>4, <1>5, <1>6, <1>7, <1>8 DEF Next

LEMMA NextStaysInOrder == Base /\ OpensInOrder /\ StaysInOrder /\ [Next]_vars => StaysInOrder'
<1> SUFFICES ASSUME Base, OpensInOrder, StaysInOrder, [Next]_vars,
                    orderly', page'.stage = "ready", NoLogout'
             PROVE  InOrder'
  BY DEF StaysInOrder, InOrder
<1>1. ~Drop
  BY DEF Drop
<1>2. orderly
  BY DEF Next, vars, ServeLoad, Loaded, ReadStatus, Write, Announce, Answered, Answer, Connect, Drop, Receive, HandleEvent,
         JoinRoom, Select, Edit, Cancel, Save, Toggle, Confirm, Decline, OthersPatch, Crossing
<1>3. page \in Page /\ page.stage \in {"opening", "ready", "out"} /\ down \in Seq(Event)
  BY DEF Base, TypeOK, Page
<1>4. CASE page.stage # "ready"
  <2>1. ASSUME NEW n \in DOMAIN patches, Answer(n) PROVE FALSE
    <3>1. page.stage # "out" /\ SaveAnswered(n) => page'.stage = page.stage
      BY SaveAnsweredEffect DEF Resumed
    <3>2. ToggleAnswered(n) => page'.stage = page.stage
      BY <1>3 DEF ToggleAnswered, Page
    <3>3. ~Leave
      BY DEF Leave, Closed
    <3> QED
      BY <1>4, <2>1, <3>1, <3>2, <3>3 DEF Answer, ConfirmAnswered, OthersAnswered
  <2>2. ~HandleEvent
    BY <1>3, <1>4 DEF HandleEvent, Leave, Closed, Page
  <2>3. ~Save
    BY <1>4, SaveEffect
  <2>4. ~(Edit \/ Cancel \/ Toggle \/ Confirm \/ Decline)
    BY <1>3, <1>4 DEF Edit, Cancel, Toggle, Confirm, Decline, Page
  <2>5. page' # page
    BY <1>4
  <2>6. PICK n \in DOMAIN loads : Loaded(n)
    BY <2>1, <2>2, <2>3, <2>4, <2>5, <1>1
       DEF Next, vars, ServeLoad, ReadStatus, Write, Announce, Connect, Receive, JoinRoom, Select, OthersPatch
  <2>7. page.stage # "out"
    BY <2>6, EmptyDomain DEF Base, Stages
  <2> QED
    BY <1>2, <1>3, <1>4, <2>6, <2>7, ComesUpInOrder
<1>5. CASE page.stage = "ready"
  <2>1. CASE HandleEvent
    <3>1. Head(down).event # "forceLogout"
      BY <2>1 DEF HandleEvent, Leave, Closed
    <3>2. NoLogout
      <4>1. down # <<>> /\ down' = Tail(down)
        BY <2>1, <3>1 DEF HandleEvent
      <4>2. /\ Len(down) \in Nat /\ DOMAIN down = 1..Len(down) /\ DOMAIN Tail(down) = 1..Len(down) - 1
            /\ Head(down) = down[1] /\ \A i \in 1..Len(down) - 1 : Tail(down)[i] = down[i + 1]
        BY <1>3, <4>1, HeadTailProperties, LenProperties
      <4>3. \A m \in DOMAIN down : m # 1 => m - 1 \in DOMAIN down' /\ down'[m - 1] = down[m]
        BY <4>1, <4>2
      <4>4. Head(down) \in Event
        BY <1>3, <4>1, HeadTailProperties
      <4>5. Head(down).event = "accountUpdated"
        BY <3>1, <4>4 DEF Event
      <4> QED
        BY <4>2, <4>3, <4>5 DEF NoLogout
    <3>3. InOrder
      BY <1>2, <1>5, <3>2 DEF StaysInOrder, InOrder
    <3> QED
      BY <1>5, <2>1, <3>1, <3>3, HandleEventInOrder
  <2>2. CASE ~HandleEvent
    <3>1. InOrder
      BY <1>1, <1>2, <1>5, <2>2, EventsRemain DEF StaysInOrder, InOrder
    <3>2. ASSUME NEW n \in DOMAIN loads, ServeLoad(n) \/ Loaded(n) PROVE InOrder'
      BY <1>5, <3>1, <3>2, ServeLoadInOrder, LoadedInOrder
    <3>3. ASSUME NEW n \in DOMAIN patches, ReadStatus(n) \/ Write(n) PROVE InOrder'
      BY <1>5, <3>1, <3>3, ReadStatusInOrder, WriteInOrder
    <3>4. ASSUME NEW n \in DOMAIN patches, Announce(n) \/ Answer(n) PROVE InOrder'
      BY <1>5, <3>1, <3>4, AnnounceInOrder, AnswerInOrder
    <3>5. CASE Connect
      BY <3>1, <3>5, SameOrder DEF Connect
    <3>6. CASE Receive \/ \E n \in DOMAIN joining : JoinRoom(n)
      BY <1>5, <3>1, <3>6, ReceiveInOrder, JoinRoomInOrder
    <3>7. ASSUME NEW name \in Names, Select(name) PROVE InOrder'
      BY <1>5, <3>1, <3>7, SelectInOrder
    <3>8. ASSUME NEW i \in Ids, OthersPatch(i) PROVE InOrder'
      BY <1>5, <3>1, <3>8, OthersPatchInOrder
    <3>9. CASE Edit \/ Cancel \/ Save \/ Toggle \/ Confirm \/ Decline
      BY <1>5, <3>1, <3>9, TapInOrder
    <3>10. CASE UNCHANGED vars
      BY <3>1, <3>10, SameOrder DEF vars, socket
    <3> QED
      BY <1>1, <2>2, <3>2, <3>3, <3>4, <3>5, <3>6, <3>7, <3>8, <3>9, <3>10 DEF Next
  <2> QED
    BY <2>1, <2>2
<1> QED
  BY <1>4, <1>5

-----------------------------------------------------------------------------
(* The theorems *)

LEMMA InitInv == Init => IInv
<1> SUFFICES ASSUME Init PROVE IInv
  OBVIOUS
<1>1. Base /\ DoomIsNear
  BY InitBase DEF Init, DoomIsNear
<1>2. page.stage = "opening" /\ loads[1].kind = "open" /\ loads[1].name = FirstName[Me] /\ loads[1].account = None
  BY DEF Init, Closed, Opening
<1>3. OpensInOrder
  BY <1>2, AccountPageAssumption DEF Init, OpensInOrder
<1>4. StaysInOrder
  BY <1>2 DEF StaysInOrder
<1> QED
  BY <1>1, <1>3, <1>4 DEF IInv

\* The inductive invariant holds in every reachable state.
THEOREM Invariance == Spec => []IInv
<1>1. IInv /\ [Next]_vars => IInv'
  BY NextBase, NextDoom, NextOpens, NextStaysInOrder DEF IInv
<1> QED
  BY InitInv, <1>1, PTL DEF Spec

\* Type correctness, with the unique names (user.model.ts:273).
THEOREM TypeCorrectness == Spec => []TypeOK
<1>1. IInv => TypeOK
  BY DEF IInv, Base
<1> QED
  BY <1>1, Invariance, PTL

\* An orderly page shows the stored account and is in that account's room, after any
\* renames and selections (account.ts:603, account.controller.ts:323).
THEOREM OrderlyPage == Spec => []OrderlyPageShowsTheAccount
<1>1. IInv => OrderlyPageShowsTheAccount
  <2> SUFFICES ASSUME IInv, orderly, Quiet, page.stage = "ready"
               PROVE  page.viewing = accounts[page.viewing.id] /\ page.viewing.name \in rooms
    BY DEF OrderlyPageShowsTheAccount
  <2>1. NoLogout
    BY EmptyDomain DEF NoLogout, Quiet
  <2>2. InOrder
    BY <2>1 DEF IInv, StaysInOrder, InOrder
  <2> QED
    BY <2>2, QuietOrder DEF Viewed
<1> QED
  BY <1>1, Invariance, PTL

\* Of the owners found active and inactivated while they are connected, only those
\* renamed since their login stay (account.controller.ts:278, account.controller.ts:488).
THEOREM UnrenamedOwnersLeave == Spec => []OnlyRenamedOwnersStay
<1>1. IInv => OnlyRenamedOwnersStay
  BY EmptyDomain DEF IInv, DoomIsNear, OnlyRenamedOwnersStay, Quiet
<1> QED
  BY <1>1, Invariance, PTL
=============================================================================
