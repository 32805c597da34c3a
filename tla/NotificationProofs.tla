--------------------------- MODULE NotificationProofs ---------------------------
(***************************************************************************)
(* Proofs about the notifications of a member, on the page and on the      *)
(* server: LiveSubscriptions, for any routes and length of the wire, and   *)
(* BusReports, for any number of buses, fields, answers and concurrent     *)
(* reports.  The two modules share nothing but what they are about.        *)
(*                                                                         *)
(* The rooms of a page's socket follow the page's list, whatever the pages *)
(* do, the requests answer and the connections drop.  With the types, the  *)
(* inductive invariant says of a page without a connection that the asks   *)
(* in its socket's buffer lead to no room that is not listed: a connection *)
(* that comes back asks for the rest.                                      *)
(*                                                                         *)
(* Of a page that nothing crosses, the second part of the invariant says   *)
(* where its operation stands: it opens, it awaits one write, of which it  *)
(* knows what the server has made so far, or it agrees with the server.    *)
(*                                                                         *)
(* RoomsHearOnlyNews and RoomsKnowTheStatus need each other: a change is   *)
(* news because the room knew the old status, and a push leaves the room   *)
(* with the new one because, while the room is not `astray`, at most one   *)
(* handler announces a field to it, and it announces what the map says     *)
(* (SoleAnnouncements).                                                    *)
(***************************************************************************)
EXTENDS LiveSubscriptions, BusReports, FiniteSetTheorems, SequenceTheorems, TLAPS

\* The requests that are about a route name one.
RoutedFlow == {f \in Flow : f.ask \in {"join rooms", "sync", "load"} \/ f.route \in Routes}

\* What is asked for on the way leads to no room that is not listed, and with a
\* connection to every one that is.
Follows(c) ==
  /\ c \in Channel
  /\ RoomsToBe(c) \subseteq c.active
  /\ c.connected => RoomsToBe(c) = c.active

Server  == subscribed \subseteq Routes /\ Cardinality(subscribed) <= Limit
Shown   == /\ muted \subseteq Routes
           /\ known \in [Pages -> SUBSET Routes]
           /\ selected \in Routes \cup {NoRoute}
           /\ bell \in [route : Routes \cup {NoRoute}, on : BOOLEAN]
Flows   == flows \in Seq(RoutedFlow)
Sockets == channel \in [Pages -> Channel] /\ \A p \in Pages : Follows(channel[p])
Counts  == orderly \in [Pages -> BOOLEAN] /\ taps \in 0..MaxTaps /\ faults \in 0..MaxFaults

IInv == Server /\ Shown /\ Flows /\ Sockets /\ Counts

-----------------------------------------------------------------------------
(* Sequences *)

\* SetToSeq lists the elements of a finite set, each once.
LEMMA SetToSeqLists ==
  ASSUME NEW S, IsFiniteSet(S)
  PROVE  /\ SetToSeq(S) \in Seq(S)
         /\ \A i, j \in DOMAIN SetToSeq(S) : SetToSeq(S)[i] = SetToSeq(S)[j] => i = j
         /\ \A x \in S : \E i \in DOMAIN SetToSeq(S) : SetToSeq(S)[i] = x
<1> DEFINE n == Cardinality(S)
           s == SetToSeq(S)
<1>1. n \in Nat /\ Bijection(1..n, S) # {}
  BY FS_CardinalityType DEF ExistsBijection
<1>2. \E f \in [1..n -> S] : IsInjective(f)
  BY <1>1 DEF Bijection, Injection
<1>3. s \in [1..n -> S] /\ IsInjective(s)
  BY <1>2 DEF SetToSeq
<1>4. s \in Seq(S) /\ DOMAIN s = 1..n
  BY <1>1, <1>3, SeqDef
<1>5. IsFiniteSet(1..n) /\ Cardinality(1..n) = n
  BY <1>1, FS_Interval
<1>6. s \in Surjection(1..n, S)
  BY <1>3, <1>5, FS_Injection DEF Injection
<1> QED
  BY <1>3, <1>4, <1>6 DEF IsInjective, Surjection

\* Taking an element out of a sequence leaves a sequence.
LEMMA RemoveAtKeepsType ==
  ASSUME NEW S, NEW s \in Seq(S), NEW i \in DOMAIN s
  PROVE  RemoveAt(s, i) \in Seq(S)
<1>1. SubSeq(s, 1, i - 1) \in Seq(S) /\ SubSeq(s, i + 1, Len(s)) \in Seq(S)
  OBVIOUS
<1> QED
  BY <1>1 DEF RemoveAt

-----------------------------------------------------------------------------
(* The socket of a page *)

\* One more ask decides about its route and no other.
LEMMA AppendedAsk ==
  ASSUME NEW c \in Channel, NEW a \in Emitted
  PROVE  LET d == [c EXCEPT !.wire = Append(@, a)] IN
         /\ d \in Channel
         /\ RoomsToBe(d) = IF a.event = "subscribeRoute"
                           THEN RoomsToBe(c) \cup {a.routeId}
                           ELSE RoomsToBe(c) \ {a.routeId}
<1> DEFINE d == [c EXCEPT !.wire = Append(@, a)]
           w == c.wire
           v == Append(w, a)
<1>1. /\ w \in Seq(Emitted) /\ v \in Seq(Emitted)
      /\ DOMAIN w = 1..Len(w) /\ Len(w) \in Nat /\ DOMAIN v = 1..Len(w) + 1
      /\ \A i \in 1..Len(w) : v[i] = w[i]
      /\ v[Len(w) + 1] = a
  BY DEF Channel
<1>2. d \in Channel /\ d.wire = v /\ d.rooms = c.rooms
  BY <1>1 DEF Channel
<1>3. ASSUME NEW r \in Routes
      PROVE  r \in RoomsToBe(d) <=> IF a.routeId = r THEN a.event = "subscribeRoute"
                                    ELSE r \in RoomsToBe(c)
  <2>1. ASSUME NEW n \in 0..Len(w)
        PROVE  AskedLater(v, n, r) <=> a.routeId = r \/ AskedLater(w, n, r)
    BY <1>1 DEF AskedLater
  <2>2. ~AskedLater(v, Len(w) + 1, r)
    BY <1>1 DEF AskedLater
  <2>3. CASE a.routeId = r
    BY <1>1, <1>2, <2>1, <2>2, <2>3 DEF RoomsToBe
  <2>4. CASE a.routeId # r
    BY <1>1, <1>2, <2>1, <2>4 DEF RoomsToBe
  <2> QED
    BY <2>3, <2>4
<1>4. RoomsToBe(d) \subseteq Routes /\ RoomsToBe(c) \subseteq Routes /\ a.routeId \in Routes
  BY DEF RoomsToBe, Emitted
<1> QED
  BY <1>2, <1>3, <1>4

\* subscribeAll emits one ask per route.
LEMMA SubscribeAllAsks ==
  ASSUME NEW R \in SUBSET Routes
  PROVE  LET w == SubscribeAll(R) IN
         /\ w \in Seq(Emitted)
         /\ \A i \in DOMAIN w : w[i].event = "subscribeRoute" /\ w[i].routeId \in R
         /\ \A i, j \in DOMAIN w : w[i].routeId = w[j].routeId => i = j
         /\ \A r \in R : \E i \in DOMAIN w : w[i].routeId = r
<1> DEFINE S == [event : {"subscribeRoute"}, routeId : R]
           w == SubscribeAll(R)
           f == [r \in R |-> [event |-> "subscribeRoute", routeId |-> r]]
<1>1. IsFiniteSet(S)
  <2>1. IsFiniteSet(R)
    BY RoutesAssumption, FS_Subset
  <2>2. f \in Surjection(R, S)
    BY DEF Surjection
  <2> QED
    BY <2>1, <2>2, FS_Surjection
<1>2. /\ w \in Seq(S)
      /\ \A i, j \in DOMAIN w : w[i] = w[j] => i = j
      /\ \A x \in S : \E i \in DOMAIN w : w[i] = x
  BY <1>1, SetToSeqLists DEF SubscribeAll
<1>3. \A i \in DOMAIN w : w[i] \in S
  <2> HIDE DEF w, S
  <2>1. w \in [1..Len(w) -> S]
    BY <1>2, LenProperties
  <2> QED
    BY <2>1
<1>4. S \subseteq Emitted
  BY DEF Emitted
<1>5. w \in Seq(Emitted)
  BY <1>2, <1>4, SeqMonotonic
<1>6. \A r \in R : [event |-> "subscribeRoute", routeId |-> r] \in S
  OBVIOUS
<1>7. ASSUME NEW r \in R
      PROVE  \E i \in DOMAIN w : w[i].routeId = r
  <2>1. PICK i \in DOMAIN w : w[i] = [event |-> "subscribeRoute", routeId |-> r]
    BY <1>2, <1>6
  <2> QED
    BY <2>1
<1> QED
  BY <1>2, <1>3, <1>5, <1>7

\* Asking for routes adds them to the rooms that will be.
LEMMA AppendedAsks ==
  ASSUME NEW c \in Channel, NEW R \in SUBSET Routes
  PROVE  LET d == [c EXCEPT !.wire = @ \o SubscribeAll(R)] IN
         d \in Channel /\ RoomsToBe(d) = RoomsToBe(c) \cup R
<1> DEFINE d == [c EXCEPT !.wire = @ \o SubscribeAll(R)]
           w == c.wire
           u == SubscribeAll(R)
           v == w \o u
<1>1. /\ u \in Seq(Emitted) /\ DOMAIN u = 1..Len(u) /\ Len(u) \in Nat
      /\ \A i \in 1..Len(u) : u[i].event = "subscribeRoute" /\ u[i].routeId \in R
      /\ \A i, j \in 1..Len(u) : u[i].routeId = u[j].routeId => i = j
      /\ \A r \in R : \E i \in 1..Len(u) : u[i].routeId = r
  BY SubscribeAllAsks, LenProperties
<1> HIDE DEF u
<1>2. /\ w \in Seq(Emitted) /\ v \in Seq(Emitted)
      /\ DOMAIN w = 1..Len(w) /\ Len(w) \in Nat /\ DOMAIN v = 1..(Len(w) + Len(u))
      /\ \A i \in 1..Len(w) : v[i] = w[i]
      /\ \A i \in 1..Len(u) : v[Len(w) + i] = u[i]
      /\ \A i \in Len(w) + 1..Len(w) + Len(u) : v[i] = u[i - Len(w)] /\ i - Len(w) \in 1..Len(u)
  BY <1>1 DEF Channel
<1>3. d \in Channel /\ d.wire = v /\ d.rooms = c.rooms
  BY <1>2 DEF Channel, u
<1> HIDE DEF v, w, d
<1>4. ASSUME NEW r \in Routes
      PROVE  r \in RoomsToBe(d) <=> r \in R \/ r \in RoomsToBe(c)
  <2>1. CASE r \in R
    <3>1. PICK i \in 1..Len(u) : u[i].routeId = r
      BY <1>1, <2>1
    <3>2. v[Len(w) + i].event = "subscribeRoute" /\ v[Len(w) + i].routeId = r
      BY <1>1, <1>2, <3>1
    <3>3. ASSUME NEW m \in DOMAIN v, m > Len(w) + i
          PROVE  v[m].routeId # r
      <4>1. v[m] = u[m - Len(w)] /\ m - Len(w) \in 1..Len(u) /\ m - Len(w) # i
        BY <1>1, <1>2, <3>3
      <4> QED
        BY <1>1, <3>1, <4>1
    <3>4. ~AskedLater(v, Len(w) + i, r)
      BY <3>3 DEF AskedLater
    <3>5. Len(w) + i \in DOMAIN v
      BY <1>1, <1>2
    <3>6. \E n \in DOMAIN d.wire :
             /\ d.wire[n].event = "subscribeRoute" /\ d.wire[n].routeId = r
             /\ ~AskedLater(d.wire, n, r)
      BY <1>3, <3>2, <3>4, <3>5
    <3> QED
      BY <2>1, <3>6 DEF RoomsToBe
  <2>2. CASE r \notin R
    <3>1. ASSUME NEW n \in DOMAIN v, v[n].routeId = r
          PROVE  n \in DOMAIN w
      <4>1. CASE n \in Len(w) + 1..Len(w) + Len(u)
        <5>1. v[n] = u[n - Len(w)] /\ n - Len(w) \in 1..Len(u)
          BY <1>2, <4>1
        <5> QED
          BY <1>1, <2>2, <3>1, <5>1
      <4> QED
        BY <1>1, <1>2, <4>1
    <3>2. \A n \in DOMAIN w : n \in DOMAIN v /\ v[n] = w[n]
      BY <1>1, <1>2
    <3>3. ASSUME NEW n
          PROVE  AskedLater(v, n, r) <=> AskedLater(w, n, r)
      BY <3>1, <3>2 DEF AskedLater
    <3> QED
      BY <1>3, <2>2, <3>1, <3>2, <3>3 DEF RoomsToBe, w
  <2> QED
    BY <2>1, <2>2
<1>5. RoomsToBe(d) \subseteq Routes /\ RoomsToBe(c) \subseteq Routes
  BY DEF RoomsToBe
<1> QED
  BY <1>3, <1>4, <1>5 DEF d

\* An ask that arrives does what it was counted for.
LEMMA DeliveredAsk ==
  ASSUME NEW c \in Channel, c.wire # <<>>
  PROVE  Deliver(c) \in Channel /\ RoomsToBe(Deliver(c)) = RoomsToBe(c)
<1> DEFINE d == Deliver(c)
           w == c.wire
           t == Tail(w)
<1>1. /\ w \in Seq(Emitted) /\ t \in Seq(Emitted) /\ Head(w) = w[1] /\ w[1] \in Emitted
      /\ DOMAIN w = 1..Len(w) /\ Len(w) \in Nat \ {0} /\ DOMAIN t = 1..Len(w) - 1
      /\ \A i \in DOMAIN t : t[i] = w[i + 1]
  BY HeadTailProperties, LenProperties DEF Channel
<1>2. d \in Channel /\ d.wire = t /\ d.rooms = Handled(c.rooms, w[1])
  BY <1>1 DEF Deliver, Handled, Channel, Emitted
<1> HIDE DEF d, t, w
<1>3. ASSUME NEW r \in Routes
      PROVE  r \in RoomsToBe(d) <=> r \in RoomsToBe(c)
  <2>1. ASSUME NEW n \in Nat
        PROVE  AskedLater(t, n, r) <=> AskedLater(w, n + 1, r)
    <3>1. ASSUME AskedLater(t, n, r)
          PROVE  AskedLater(w, n + 1, r)
      <4>1. PICK m \in DOMAIN t : m > n /\ t[m].routeId = r
        BY <3>1 DEF AskedLater
      <4> QED
        BY <1>1, <4>1 DEF AskedLater
    <3>2. ASSUME AskedLater(w, n + 1, r)
          PROVE  AskedLater(t, n, r)
      <4>1. PICK m \in DOMAIN w : m > n + 1 /\ w[m].routeId = r
        BY <3>2 DEF AskedLater
      <4>2. m - 1 \in DOMAIN t /\ m - 1 > n /\ t[m - 1] = w[m]
        BY <1>1, <4>1
      <4> QED
        BY <4>1, <4>2 DEF AskedLater
    <3> QED
      BY <3>1, <3>2
  <2>2. AskedLater(w, 0, r) <=> w[1].routeId = r \/ AskedLater(w, 1, r)
    BY <1>1 DEF AskedLater
  <2>3. AskedLater(t, 0, r) <=> AskedLater(w, 1, r)
    BY <2>1
  <2> DEFINE Asks(v) == \E n \in DOMAIN v :
                          /\ v[n].event = "subscribeRoute" /\ v[n].routeId = r
                          /\ ~AskedLater(v, n, r)
  <2>4. r \in RoomsToBe(d) <=> (r \in Handled(c.rooms, w[1]) /\ ~AskedLater(t, 0, r)) \/ Asks(t)
    BY <1>2 DEF RoomsToBe
  <2>5. r \in RoomsToBe(c) <=> (r \in c.rooms /\ ~AskedLater(w, 0, r)) \/ Asks(w)
    BY DEF RoomsToBe, w
  <2>6. Asks(w) <=> \/ Asks(t)
                    \/ /\ w[1].event = "subscribeRoute" /\ w[1].routeId = r
                       /\ ~AskedLater(w, 1, r)
    <3>1. ASSUME NEW n \in DOMAIN t
          PROVE  n + 1 \in DOMAIN w /\ t[n] = w[n + 1]
                   /\ (AskedLater(t, n, r) <=> AskedLater(w, n + 1, r))
      <4>1. n \in Nat /\ n + 1 \in DOMAIN w /\ t[n] = w[n + 1]
        BY <1>1
      <4> QED
        BY <2>1, <4>1
    <3>2. ASSUME NEW n \in DOMAIN w, n # 1
          PROVE  n - 1 \in DOMAIN t /\ t[n - 1] = w[n]
                   /\ (AskedLater(t, n - 1, r) <=> AskedLater(w, n, r))
      <4>1. n - 1 \in Nat /\ n - 1 \in DOMAIN t /\ (n - 1) + 1 = n
        BY <1>1, <3>2
      <4>2. AskedLater(t, n - 1, r) <=> AskedLater(w, (n - 1) + 1, r)
        BY <2>1, <4>1
      <4> QED
        BY <1>1, <4>1, <4>2
    <3>3. 1 \in DOMAIN w
      BY <1>1
    <3> QED
      BY <3>1, <3>2, <3>3
  <2> HIDE DEF Asks
  <2>7. r \in Handled(c.rooms, w[1]) <=> IF w[1].routeId = r THEN w[1].event = "subscribeRoute"
                                         ELSE r \in c.rooms
    BY DEF Handled
  <2> QED
    BY <2>2, <2>3, <2>4, <2>5, <2>6, <2>7
<1>4. RoomsToBe(d) \subseteq Routes /\ RoomsToBe(c) \subseteq Routes
  BY DEF RoomsToBe
<1> QED
  BY <1>2, <1>3, <1>4 DEF d

\* Whatever a page or the server does with its socket keeps its rooms to the list.
LEMMA SocketsFollow ==
  /\ Follows(NoChannel)
  /\ \A c : Follows(c) =>
       /\ \A r \in Routes : Follows(JoinRoute(c, r)) /\ Follows(LeaveRoute(c, r))
       /\ \A R \in SUBSET Routes : Follows(JoinAll(c, R))
       /\ ~c.connected => Follows(Connect(c))
       /\ Follows(Disconnect(c))
       /\ c.wire # <<>> => Follows(Deliver(c))
<1>1. Follows(NoChannel)
  <2>1. NoChannel \in Channel
    BY DEF NoChannel, Channel
  <2>2. RoomsToBe(NoChannel) = {}
    BY DEF NoChannel, RoomsToBe
  <2> QED
    BY <2>1, <2>2 DEF Follows, NoChannel
<1>2. ASSUME NEW c, Follows(c), NEW r \in Routes
      PROVE  Follows(JoinRoute(c, r))
  <2> DEFINE a == [event |-> "subscribeRoute", routeId |-> r]
             b == [c EXCEPT !.active = @ \cup {r}]
  <2>1. b \in Channel /\ RoomsToBe(b) = RoomsToBe(c) /\ b.connected = c.connected
        /\ b.active = c.active \cup {r} /\ a \in Emitted
    BY <1>2 DEF Follows, Channel, Emitted, RoomsToBe
  <2>2. JoinRoute(c, r) = [b EXCEPT !.wire = Append(@, a)]
    BY DEF JoinRoute, Emit
  <2>3. JoinRoute(c, r) \in Channel /\ RoomsToBe(JoinRoute(c, r)) = RoomsToBe(c) \cup {r}
    BY <2>1, <2>2, AppendedAsk
  <2>4. JoinRoute(c, r).active = c.active \cup {r} /\ JoinRoute(c, r).connected = c.connected
    BY <2>1, <2>2 DEF Channel
  <2> QED
    BY <1>2, <2>3, <2>4 DEF Follows
<1>3. ASSUME NEW c, Follows(c), NEW r \in Routes
      PROVE  Follows(LeaveRoute(c, r))
  <2> DEFINE a == [event |-> "unsubscribeRoute", routeId |-> r]
             b == [c EXCEPT !.active = @ \ {r}]
  <2>1. b \in Channel /\ RoomsToBe(b) = RoomsToBe(c) /\ b.connected = c.connected
        /\ b.active = c.active \ {r} /\ a \in Emitted
    BY <1>3 DEF Follows, Channel, Emitted, RoomsToBe
  <2>2. LeaveRoute(c, r) = [b EXCEPT !.wire = Append(@, a)]
    BY DEF LeaveRoute, Emit
  <2>3. LeaveRoute(c, r) \in Channel /\ RoomsToBe(LeaveRoute(c, r)) = RoomsToBe(c) \ {r}
    BY <2>1, <2>2, AppendedAsk
  <2>4. LeaveRoute(c, r).active = c.active \ {r} /\ LeaveRoute(c, r).connected = c.connected
    BY <2>1, <2>2 DEF Channel
  <2> QED
    BY <1>3, <2>3, <2>4 DEF Follows
<1>4. ASSUME NEW c, Follows(c), NEW R \in SUBSET Routes
      PROVE  Follows(JoinAll(c, R))
  <2> DEFINE b == [c EXCEPT !.active = @ \cup R]
  <2>1. b \in Channel /\ RoomsToBe(b) = RoomsToBe(c) /\ b.connected = c.connected
        /\ b.active = c.active \cup R
    BY <1>4 DEF Follows, Channel, RoomsToBe
  <2>2. JoinAll(c, R) = [b EXCEPT !.wire = @ \o SubscribeAll(R)]
    BY DEF JoinAll
  <2>3. JoinAll(c, R) \in Channel /\ RoomsToBe(JoinAll(c, R)) = RoomsToBe(c) \cup R
    BY <2>1, <2>2, AppendedAsks
  <2>4. JoinAll(c, R).active = c.active \cup R /\ JoinAll(c, R).connected = c.connected
    BY <2>1, <2>2 DEF Channel
  <2> QED
    BY <1>4, <2>3, <2>4 DEF Follows
<1>5. ASSUME NEW c, Follows(c)
      PROVE  Follows(Connect(c))
  <2> DEFINE b == [c EXCEPT !.connected = TRUE]
  <2>1. b \in Channel /\ RoomsToBe(b) = RoomsToBe(c) /\ b.active = c.active /\ c.active \subseteq Routes
    BY <1>5 DEF Follows, Channel, RoomsToBe
  <2>2. Connect(c) = [b EXCEPT !.wire = @ \o SubscribeAll(c.active)]
    BY DEF Connect
  <2>3. Connect(c) \in Channel /\ RoomsToBe(Connect(c)) = RoomsToBe(c) \cup c.active
    <3> HIDE DEF b
    <3>1. c.active \in SUBSET Routes
      BY <2>1
    <3> QED
      BY <2>1, <2>2, <3>1, AppendedAsks
  <2>4. Connect(c).active = c.active
    BY <2>1, <2>2 DEF Channel
  <2> QED
    BY <1>5, <2>3, <2>4 DEF Follows
<1>6. ASSUME NEW c, Follows(c)
      PROVE  Follows(Disconnect(c))
  <2>1. Disconnect(c) \in Channel /\ ~Disconnect(c).connected
    <3>1. <<>> \in Seq(Emitted)
      OBVIOUS
    <3> QED
      BY <1>6, <3>1 DEF Follows, Channel, Disconnect
  <2>2. RoomsToBe(Disconnect(c)) = {}
    BY <1>6 DEF Follows, Channel, Disconnect, RoomsToBe
  <2> QED
    BY <2>1, <2>2 DEF Follows
<1>7. ASSUME NEW c, Follows(c), c.wire # <<>>
      PROVE  Follows(Deliver(c))
  <2>1. Deliver(c) \in Channel /\ RoomsToBe(Deliver(c)) = RoomsToBe(c)
    BY <1>7, DeliveredAsk DEF Follows
  <2>2. Deliver(c).active = c.active /\ Deliver(c).connected = c.connected
    BY <1>7 DEF Follows, Channel, Deliver
  <2> QED
    BY <1>7, <2>1, <2>2 DEF Follows
<1> QED
  BY <1>1, <1>2, <1>3, <1>4, <1>5, <1>6, <1>7

-----------------------------------------------------------------------------
(* The parts of the invariant under the steps of the pages *)

\* The invariant types the variables and keeps the rooms.
LEMMA WhatIInvSays == IInv => TypeOK /\ RoomsFollowTheList
<1>1. Flows => flows \in Seq(Flow)
  <2>1. RoutedFlow \subseteq Flow
    BY DEF RoutedFlow
  <2> QED
    BY <2>1, SeqMonotonic DEF Flows
<1> QED
  BY <1>1 DEF IInv, Server, Shown, Sockets, Counts, TypeOK, RoomsFollowTheList, Follows

\* A request that begins is about a route when it has to be.
LEMMA BegunFlow ==
  ASSUME NEW p \in Pages, NEW ask \in Writes \cup Reads, NEW r \in Routes \cup {NoRoute},
         NEW from \in {"bell", "card", "sheet", "page"},
         ask \in {"join rooms", "sync", "load"} \/ r \in Routes
  PROVE  Begun(p, ask, r, from) \in RoutedFlow
BY DEF Begun, RoutedFlow, Flow

\* What is under way stays a list of such requests.
LEMMA FlowsStay ==
  ASSUME Flows
  PROVE  /\ \A n \in DOMAIN flows : flows[n] \in RoutedFlow
         /\ \A f \in RoutedFlow : Append(flows, f) \in Seq(RoutedFlow)
         /\ \A n \in DOMAIN flows, f \in RoutedFlow : Onward(n, f) => Flows'
         /\ \A n \in DOMAIN flows : Done(n) => Flows'
<1>1. DOMAIN flows = 1..Len(flows)
  BY LenProperties DEF Flows
<1>2. \A n \in DOMAIN flows : flows[n] \in RoutedFlow
  BY <1>1, ElementOfSeq DEF Flows
<1>3. \A f \in RoutedFlow : Append(flows, f) \in Seq(RoutedFlow)
  BY AppendProperties DEF Flows
<1>4. \A n \in DOMAIN flows, f \in RoutedFlow : Onward(n, f) => Flows'
  BY <1>1, ExceptSeq DEF Flows, Onward
<1>5. \A n \in DOMAIN flows : Done(n) => Flows'
  BY RemoveAtKeepsType DEF Flows, Done
<1> QED
  BY <1>2, <1>3, <1>4, <1>5

\* An operation marks the pages it crosses.
LEMMA CrossingType ==
  ASSUME Counts
  PROVE  /\ \A p \in Pages : Crossing(p) \in [Pages -> BOOLEAN]
         /\ [orderly EXCEPT !["map"] = @ /\ UnderWay("map") = {}] \in [Pages -> BOOLEAN]
         /\ \A p \in Pages : [orderly EXCEPT ![p] = FALSE] \in [Pages -> BOOLEAN]
BY Zenon DEF Counts, Crossing, Pages

\* One page's socket changes and keeps its rooms to its list.
LEMMA SocketsStay ==
  ASSUME Sockets, NEW p \in Pages, NEW c, Follows(c), channel' = [channel EXCEPT ![p] = c]
  PROVE  Sockets'
BY DEF Sockets, Follows

\* Joining, leaving and muting keep the rooms to the lists and the muted routes to the routes.
LEMMA JoinedOrLeft ==
  ASSUME Sockets, Shown, NEW p \in Pages, NEW r \in Routes, Join(p, r) \/ Leave(p, r) \/ Stay
  PROVE  Sockets' /\ muted' \subseteq Routes
<1>1. Follows(JoinRoute(channel[p], r)) /\ Follows(LeaveRoute(channel[p], r))
  BY SocketsFollow DEF Sockets
<1>2. CASE Join(p, r)
  BY <1>1, <1>2, SocketsStay DEF Join, Shown
<1>3. CASE Leave(p, r)
  BY <1>1, <1>3, SocketsStay DEF Leave, Shown
<1>4. CASE Stay
  BY <1>4 DEF Stay, Shown, Sockets
<1> QED
  BY <1>2, <1>3, <1>4

\* The bell shows a route or none.
LEMMA ShowBellType ==
  ASSUME NEW r \in Routes \cup {NoRoute}, NEW on \in BOOLEAN
  PROVE  ShowBell(r, on) \in [route : Routes \cup {NoRoute}, on : BOOLEAN]
BY DEF ShowBell, NoBell

-----------------------------------------------------------------------------
(* The steps *)

\* There are four requests of the start.
LEMMA LoadingIsFinite == IsFiniteSet(Loading)
<1> DEFINE a == Begun("map", "join rooms", NoRoute, "page")
           b == Begun("map", "sync", NoRoute, "page")
           c == Begun("list", "join rooms", NoRoute, "page")
           d == Begun("list", "load", NoRoute, "page")
<1>1. Loading = (({a} \cup {b}) \cup {c}) \cup {d}
  BY DEF Loading
<1> HIDE DEF a, b, c, d
<1>2. IsFiniteSet({a})
  BY FS_Singleton
<1>3. IsFiniteSet({a} \cup {b})
  BY <1>2, FS_AddElement
<1>4. IsFiniteSet(({a} \cup {b}) \cup {c})
  BY <1>3, FS_AddElement
<1> QED
  BY <1>1, <1>4, FS_AddElement

\* What the requests of the pages' start ask for is about no route.
LEMMA InitEstablishesIInv == Init => IInv
<1> SUFFICES ASSUME Init PROVE IInv
  OBVIOUS
<1>1. Flows
  <2>1. IsFiniteSet(Loading)
    BY LoadingIsFinite
  <2>2. Loading \subseteq RoutedFlow
    BY BegunFlow DEF Loading, Pages, Reads
  <2> HIDE DEF Loading
  <2>3. flows \in Seq(Loading)
    BY <2>1, SetToSeqLists DEF Init
  <2> QED
    BY <2>2, <2>3, SeqMonotonic DEF Flows
<1>2. Sockets
  BY SocketsFollow DEF Init, Sockets, Follows
<1>3. Server /\ Shown /\ Counts
  BY LiveAssumption DEF Init, Server, Shown, Counts, NoBell, LiveAssumption
<1> QED
  BY <1>1, <1>2, <1>3 DEF IInv

\* What the user does.
LEMMA UserKeepsIInv ==
  ASSUME IInv
  PROVE  /\ \A r \in Routes : RemoveCard(r) \/ ToggleMute(r) \/ ToggleFromSheet(r) => IInv'
         /\ \A r \in Routes \cup {NoRoute} : SelectRoute(r) => IInv'
         /\ ClickBell => IInv'
<1> USE DEF IInv
<1>1. Tap => Server' /\ taps' \in 0..MaxTaps /\ faults' \in 0..MaxFaults
  BY LiveAssumption DEF Tap, Server, Counts, LiveAssumption
<1>2. ASSUME NEW p \in Pages, NEW ask \in Writes, NEW r \in Routes, NEW from \in {"bell", "card", "sheet"},
             Ask(p, ask, r, from)
      PROVE  Flows' /\ orderly' \in [Pages -> BOOLEAN]
  <2>1. Begun(p, ask, r, from) \in RoutedFlow
    BY BegunFlow
  <2> QED
    BY <1>2, <2>1, FlowsStay, CrossingType DEF Ask, Flows
<1>3. ASSUME NEW r \in Routes, RemoveCard(r)
      PROVE  IInv'
  BY <1>1, <1>2, <1>3 DEF RemoveCard, Pages, Writes, pages, Shown, Sockets, Counts
<1>4. ASSUME NEW r \in Routes, ToggleMute(r)
      PROVE  IInv'
  <2>1. "list" \in Pages
    BY DEF Pages
  <2>2. Follows(JoinRoute(channel["list"], r)) /\ Follows(LeaveRoute(channel["list"], r))
    BY <2>1, SocketsFollow DEF Sockets
  <2>3. Sockets'
    BY <1>4, <2>1, <2>2, SocketsStay DEF ToggleMute
  <2>4. muted' \subseteq Routes /\ UNCHANGED <<pages, flows>>
    BY <1>4 DEF ToggleMute, Shown
  <2>5. orderly' \in [Pages -> BOOLEAN]
    BY <1>4, <2>1, CrossingType DEF ToggleMute
  <2>6. Tap
    BY <1>4 DEF ToggleMute
  <2> QED
    BY <1>1, <2>3, <2>4, <2>5, <2>6 DEF Shown, Flows, Counts, pages
<1>5. ASSUME NEW r \in Routes, ToggleFromSheet(r)
      PROVE  IInv'
  <2>1. PICK ask \in Writes : Ask("list", ask, r, "sheet")
    BY <1>5 DEF ToggleFromSheet, Writes
  <2>2. Flows' /\ orderly' \in [Pages -> BOOLEAN]
    BY <1>2, <2>1 DEF Pages
  <2>3. Tap /\ UNCHANGED <<muted, channel, pages>>
    BY <1>5 DEF ToggleFromSheet
  <2> QED
    BY <1>1, <2>2, <2>3 DEF Shown, Sockets, Counts, pages
<1>6. ASSUME NEW r \in Routes \cup {NoRoute}, SelectRoute(r)
      PROVE  IInv'
  <2>1. bell' \in [route : Routes \cup {NoRoute}, on : BOOLEAN]
    <3>1. bell' = ShowBell(r, r \in known["map"]) /\ (r \in known["map"]) \in BOOLEAN
      BY <1>6 DEF SelectRoute
    <3> QED
      BY <3>1, ShowBellType
  <2>2. orderly' \in [Pages -> BOOLEAN]
    BY <1>6, CrossingType DEF SelectRoute
  <2>3. Tap /\ selected' = r /\ UNCHANGED <<muted, channel, known, flows>>
    BY <1>6 DEF SelectRoute
  <2> QED
    BY <1>1, <2>1, <2>2, <2>3 DEF Shown, Flows, Sockets, Counts
<1>7. ASSUME ClickBell
      PROVE  IInv'
  <2>1. bell.route \in Routes /\ bell' \in [route : Routes \cup {NoRoute}, on : BOOLEAN]
    BY <1>7 DEF ClickBell, Shown
  <2>2. PICK ask \in Writes : Ask("map", ask, bell.route, "bell")
    BY <1>7 DEF ClickBell, Writes
  <2>3. Flows' /\ orderly' \in [Pages -> BOOLEAN]
    BY <1>2, <2>1, <2>2 DEF Pages
  <2>4. Tap /\ UNCHANGED <<muted, channel, known, selected>>
    BY <1>7 DEF ClickBell
  <2> QED
    BY <1>1, <2>1, <2>3, <2>4 DEF Shown, Sockets, Counts
<1> QED
  BY <1>3, <1>4, <1>5, <1>6, <1>7

\* What the server does: it stays within the limit.
LEMMA ServerKeepsIInv ==
  ASSUME IInv, NEW n \in DOMAIN flows, Serve(n)
  PROVE  IInv'
<1> USE DEF IInv
<1> DEFINE f == flows[n]
<1>1. f \in RoutedFlow /\ f \in Flow
  BY FlowsStay DEF RoutedFlow
<1>2. IsFiniteSet(subscribed) /\ Cardinality(subscribed) \in Nat
  BY RoutesAssumption, FS_Subset, FS_CardinalityType DEF Server
<1>3. Server'
  <2>1. CASE f.ask = "subscribe"
    <3>1. f.route \in Routes
      BY <1>1, <2>1 DEF RoutedFlow
    <3>2. CASE AnswerToSubscribe(f.route) = "done"
      <4>1. subscribed' = subscribed \cup {f.route} /\ ~(Cardinality(subscribed) >= Limit)
        BY <2>1, <3>2 DEF Serve, AnswerToSubscribe
      <4>2. Cardinality(subscribed') <= Cardinality(subscribed) + 1
        BY <1>2, <4>1, FS_AddElement
      <4>3. Cardinality(subscribed') \in Nat
        BY <1>2, <4>1, FS_AddElement, FS_CardinalityType
      <4> QED
        BY <1>2, <3>1, <4>1, <4>2, <4>3, LiveAssumption DEF Server, LiveAssumption
    <3>3. CASE AnswerToSubscribe(f.route) # "done"
      BY <2>1, <3>3 DEF Serve, Server
    <3> QED
      BY <3>2, <3>3
  <2>2. CASE f.ask = "unsubscribe"
    <3>1. subscribed' = subscribed \ {f.route}
      BY <2>2 DEF Serve
    <3>2. Cardinality(subscribed') <= Cardinality(subscribed)
      BY <1>2, <3>1, FS_RemoveElement
    <3>3. Cardinality(subscribed') \in Nat
      BY <1>2, <3>1, FS_RemoveElement, FS_CardinalityType
    <3> QED
      BY <1>2, <3>1, <3>2, <3>3, LiveAssumption DEF Server, LiveAssumption
  <2>3. CASE f.ask \notin Writes
    BY <2>3 DEF Serve, Server, Writes
  <2> QED
    BY <2>1, <2>2, <2>3 DEF Writes
<1>4. Flows'
  <2>1. \A a \in {"done", "limit", "duplicate"} : [f EXCEPT !.answer = a] \in RoutedFlow
    BY <1>1 DEF RoutedFlow, Flow
  <2>2. [f EXCEPT !.answer = "done", !.routes = subscribed] \in RoutedFlow
    BY <1>1 DEF RoutedFlow, Flow, Server
  <2>3. \/ \E a \in {"done", "limit", "duplicate"} : flows' = [flows EXCEPT ![n] = [f EXCEPT !.answer = a]]
        \/ flows' = [flows EXCEPT ![n] = [f EXCEPT !.answer = "done", !.routes = subscribed]]
    <3>1. CASE f.ask = "subscribe"
      BY <3>1 DEF Serve, AnswerToSubscribe
    <3>2. CASE f.ask = "unsubscribe"
      BY <3>2 DEF Serve
    <3>3. CASE f.ask \notin Writes
      BY <3>3 DEF Serve, Writes
    <3> QED
      BY <3>1, <3>2, <3>3 DEF Writes
  <2> QED
    BY <2>1, <2>2, <2>3, FlowsStay DEF Onward
<1> QED
  BY <1>3, <1>4 DEF Serve, Shown, Sockets, Counts, pages

\* What the pages make of the routes a read brought.
LEMMA PagesTakeRoutes ==
  ASSUME IInv, NEW n \in DOMAIN flows, NEW routes \in SUBSET Routes,
         \/ JoinRooms(n, routes) \/ Loaded(n, routes)
         \/ flows[n].ask = "refetch" /\ Refetched(n, routes)
  PROVE  Shown' /\ Flows' /\ Sockets'
<1> USE DEF IInv
<1> DEFINE f == flows[n]
           p == f.page
<1>1. f \in RoutedFlow /\ p \in Pages
  BY FlowsStay DEF RoutedFlow, Flow
<1>2. "list" \in Pages
  BY DEF Pages
<1>3. CASE JoinRooms(n, routes)
  <2>1. Follows(JoinAll(channel[p], routes \ muted))
    BY <1>1, SocketsFollow DEF Sockets
  <2> QED
    BY <1>1, <1>3, <2>1, SocketsStay, FlowsStay DEF JoinRooms, Shown, pages
<1>4. CASE Loaded(n, routes)
  BY <1>1, <1>4, FlowsStay DEF Loaded, Stay, Shown, Sockets
<1>5. CASE f.ask = "refetch" /\ Refetched(n, routes)
  <2>1. f.route \in Routes
    BY <1>1, <1>5 DEF RoutedFlow
  <2>2. Join("list", f.route) \/ Leave("list", f.route) \/ Stay
    BY <1>5 DEF Refetched
  <2>3. Sockets' /\ muted' \subseteq Routes
    BY <1>2, <2>1, <2>2, JoinedOrLeft
  <2> QED
    BY <1>5, <2>3, FlowsStay DEF Refetched, Shown
<1> QED
  BY <1>3, <1>4, <1>5

\* What the pages make of an answer.
LEMMA AnswersKeepIInv ==
  ASSUME IInv, NEW n \in DOMAIN flows, Answer(n)
  PROVE  IInv'
<1> USE DEF IInv
<1> DEFINE f == flows[n]
<1>1. f \in RoutedFlow /\ f \in Flow
  BY FlowsStay DEF RoutedFlow
<1>2. Shown' /\ Flows' /\ Sockets'
  <2>1. CASE f.ask \in Reads
    <3>1. f.routes \in SUBSET Routes
      BY <1>1 DEF Flow
    <3>2. \/ JoinRooms(n, f.routes) \/ Loaded(n, f.routes)
          \/ f.ask = "refetch" /\ Refetched(n, f.routes)
      BY <2>1 DEF Answer, Reads, Writes
    <3> QED
      BY <3>1, <3>2, PagesTakeRoutes
  <2>2. CASE f.ask \in Writes
    <3>1. f.route \in Routes
      BY <1>1, <2>2 DEF RoutedFlow, Writes
    <3>2. "map" \in Pages /\ "list" \in Pages
      BY DEF Pages
    <3>3. CASE BellAnswered(n)
      <4>1. Join("map", f.route) \/ Leave("map", f.route) \/ Stay
        BY <3>3 DEF BellAnswered
      <4>2. Sockets' /\ muted' \subseteq Routes
        BY <3>1, <3>2, <4>1, JoinedOrLeft
      <4>3. known' \in [Pages -> SUBSET Routes]
        <5>1. \/ known' = [known EXCEPT !["map"] = @ \cup {f.route}]
              \/ known' = [known EXCEPT !["map"] = @ \ {f.route}]
              \/ known' = known
          BY <3>3 DEF BellAnswered
        <5> QED
          BY <3>1, <3>2, <5>1 DEF Shown
      <4>4. bell' \in [route : Routes \cup {NoRoute}, on : BOOLEAN]
        <5>1. bell' = bell \/ bell' = ShowBell(f.route, FALSE)
          BY <3>3 DEF BellAnswered, TakeBack
        <5> QED
          BY <3>1, <5>1, ShowBellType DEF Shown
      <4>5. Done(n) /\ UNCHANGED selected
        BY <3>3 DEF BellAnswered
      <4> QED
        BY <4>2, <4>3, <4>4, <4>5, FlowsStay DEF Shown
    <3>4. CASE ListAnswered(n)
      <4>1. Join("list", f.route) \/ Leave("list", f.route) \/ Stay
        BY <3>4 DEF ListAnswered
      <4>2. Sockets' /\ muted' \subseteq Routes
        BY <3>1, <3>2, <4>1, JoinedOrLeft
      <4>3. known' \in [Pages -> SUBSET Routes] /\ UNCHANGED <<selected, bell>>
        BY <3>1, <3>4 DEF ListAnswered, Shown
      <4>4. [f EXCEPT !.answer = "sent", !.ask = "refetch", !.ok = f.answer = "done"] \in RoutedFlow
        BY <1>1, <3>1 DEF RoutedFlow, Flow, Reads
      <4>5. Flows'
        BY <3>4, <4>4, FlowsStay DEF ListAnswered
      <4> QED
        BY <4>2, <4>3, <4>5 DEF Shown
    <3> QED
      BY <2>2, <3>3, <3>4 DEF Answer, Writes
  <2> QED
    BY <1>1, <2>1, <2>2 DEF Flow
<1> QED
  BY <1>2 DEF Answer, Server, Counts

\* What the pages make of a request that failed.
LEMMA FailuresKeepIInv ==
  ASSUME IInv, NEW n \in DOMAIN flows, Fail(n)
  PROVE  IInv'
<1> USE DEF IInv
<1> DEFINE f == flows[n]
<1>1. f \in RoutedFlow /\ f \in Flow
  BY FlowsStay DEF RoutedFlow
<1>2. Server' /\ Counts'
  <2>1. f.page \in Pages
    BY <1>1 DEF Flow
  <2>2. orderly' \in [Pages -> BOOLEAN]
    BY <2>1, CrossingType DEF Fail
  <2>3. faults' \in 0..MaxFaults /\ UNCHANGED <<subscribed, taps>>
    BY LiveAssumption DEF Fail, Fault, Counts, LiveAssumption
  <2> QED
    BY <2>2, <2>3 DEF Server, Counts
<1>3. Shown' /\ Flows' /\ Sockets'
  <2>1. CASE TakeBack(f.route, f.ask = "unsubscribe") /\ Done(n) /\ UNCHANGED <<known, selected>> /\ Stay
    <3>1. f.route \in Routes \cup {NoRoute} /\ (f.ask = "unsubscribe") \in BOOLEAN
      BY <1>1 DEF Flow
    <3>2. bell' \in [route : Routes \cup {NoRoute}, on : BOOLEAN]
      BY <2>1, <3>1, ShowBellType DEF TakeBack
    <3> QED
      BY <2>1, <3>2, FlowsStay DEF Stay, Shown, Sockets
  <2>2. CASE /\ f.ask = "unsubscribe"
             /\ Onward(n, [f EXCEPT !.answer = "sent", !.ask = "refetch", !.ok = FALSE])
             /\ UNCHANGED pages /\ Stay
    <3>1. [f EXCEPT !.answer = "sent", !.ask = "refetch", !.ok = FALSE] \in RoutedFlow
      BY <1>1, <2>2 DEF RoutedFlow, Flow, Reads
    <3> QED
      BY <2>2, <3>1, FlowsStay DEF Stay, Shown, Sockets, pages
  <2>3. CASE f.ask = "refetch" /\ Refetched(n, known["list"])
    <3>1. known["list"] \in SUBSET Routes
      BY DEF Shown, Pages
    <3> QED
      BY <2>3, <3>1, PagesTakeRoutes
  <2>4. CASE Done(n) /\ UNCHANGED pages /\ Stay
    BY <2>4, FlowsStay DEF Stay, Shown, Sockets, pages
  <2> QED
    BY <2>1, <2>2, <2>3, <2>4 DEF Fail
<1> QED
  BY <1>2, <1>3

\* What the sockets do.
LEMMA SocketsKeepIInv ==
  ASSUME IInv, NEW p \in Pages, Reconnect(p) \/ Drop(p) \/ Arrive(p)
  PROVE  IInv'
<1> USE DEF IInv
<1>1. faults' \in 0..MaxFaults
  BY LiveAssumption DEF Reconnect, Drop, Arrive, Fault, Counts, LiveAssumption
<1>2. PICK c : Follows(c) /\ SocketStep(p, c)
  BY SocketsFollow DEF Sockets, Reconnect, Drop, Arrive
<1>3. Sockets'
  BY <1>2, SocketsStay DEF SocketStep
<1> QED
  BY <1>1, <1>2, <1>3 DEF SocketStep, Server, Shown, Flows, Counts, pages

-----------------------------------------------------------------------------
(* An orderly page *)

Starts == {"join rooms", "sync", "load"}

Undertaken == Range(flows)
Of(p)    == {f \in Undertaken : f.page = p}

\* Where a request comes from says what it can ask for.
Kind(f) ==
  \/ f.ask \in Starts /\ f.from = "page"
  \/ f.page = "map" /\ f.from = "bell" /\ f.ask \in Writes
  \/ f.page = "list" /\ f.from = "card" /\ f.ask \in {"unsubscribe", "refetch"}
  \/ f.page = "list" /\ f.from = "sheet" /\ f.ask \in Writes \cup {"refetch"}

Kinds == \A f \in Undertaken : Kind(f)

\* What the page shows and listens to is what the server keeps.
Agrees(p) ==
  /\ known[p] = subscribed
  /\ channel[p].active = subscribed \ muted
  /\ p = "map" => bell = ShowBell(selected, selected \in subscribed)

\* The page still opens, in either order: it lists the member's routes, and joins their rooms.
Opens(p) ==
  /\ \A f \in Of(p) :
       f.ask \in Starts /\ (f.answer = "sent" \/ (f.answer = "done" /\ f.routes = subscribed))
  /\ known[p] = subscribed \/ \E f \in Of(p) : f.ask \in {"sync", "load"}
  /\ channel[p].active = IF \E f \in Of(p) : f.ask = "join rooms" THEN {} ELSE subscribed \ muted
  /\ p = "map" => selected = NoRoute /\ bell = NoBell

\* A request that subscribes; and one that the server has carried out.
Adds(f)       == f.ask = "subscribe" \/ (f.ask = "refetch" /\ f.from = "sheet")
CarriedOut(f) == f.answer = "done" \/ f.ask = "refetch"

\* The page has one write under way and is itself as it was before, but for the bell.
Awaits(p, f) ==
  /\ f.ask \notin Starts
  /\ subscribed = IF ~CarriedOut(f) THEN known[p]
                  ELSE IF Adds(f) THEN known[p] \cup {f.route} ELSE known[p] \ {f.route}
  /\ channel[p].active = known[p] \ muted
  /\ Adds(f) <=> f.route \notin known[p]
  /\ f.answer # "duplicate" /\ (f.answer = "limit" => f.ask = "subscribe")
  /\ f.ask = "refetch" => f.ok /\ (f.answer = "done" => f.routes = subscribed)
  /\ p = "map" => /\ f.route = selected /\ selected # NoRoute
                  /\ bell = [route |-> selected, on |-> Adds(f)]

Keyed(s) == \A i, j \in DOMAIN s : s[i].page = s[j].page /\ s[i].ask = s[j].ask => i = j

\* The requests under way when nothing has crossed p's: no page asks the same twice, and
\* the other page still opens.
OneByOne(p) ==
  /\ Keyed(flows)
  /\ \A f \in Undertaken : f.page # p => f.ask \in Starts

InOrder(p) ==
  orderly[p] =>
    /\ OneByOne(p)
    /\ \/ Of(p) = {} /\ Agrees(p)
       \/ Opens(p)
       \/ \E f \in Undertaken : Of(p) = {f} /\ Awaits(p, f)

OrderInv == Kinds /\ \A p \in Pages : InOrder(p)

\* One more request.
LEMMA OneMore ==
  ASSUME NEW S, NEW s \in Seq(S), NEW x \in S
  PROVE  /\ Range(Append(s, x)) = Range(s) \cup {x}
         /\ Keyed(s) /\ (\A y \in Range(s) : y.page # x.page \/ y.ask # x.ask) => Keyed(Append(s, x))
<1> DEFINE t == Append(s, x)
<1>1. /\ DOMAIN s = 1..Len(s) /\ Len(s) \in Nat /\ DOMAIN t = 1..Len(s) + 1
      /\ t[Len(s) + 1] = x /\ \A i \in 1..Len(s) : t[i] = s[i]
  BY LenProperties, AppendProperties
<1> HIDE DEF t
<1>2. \A i \in DOMAIN s : i \in DOMAIN t /\ t[i] = s[i]
  BY <1>1
<1>3. \A i \in DOMAIN t : i = Len(s) + 1 \/ i \in DOMAIN s
  BY <1>1
<1>4. Len(s) + 1 \in DOMAIN t
  BY <1>1
<1>5. Range(t) = Range(s) \cup {x}
  BY <1>1, <1>2, <1>3, <1>4 DEF Range
<1>6. Keyed(s) /\ (\A y \in Range(s) : y.page # x.page \/ y.ask # x.ask) => Keyed(t)
  BY <1>1, <1>2, <1>3 DEF Keyed, Range
<1> QED
  BY <1>5, <1>6 DEF t

\* A request in the place of another.
LEMMA OneChanged ==
  ASSUME NEW S, NEW s \in Seq(S), NEW n \in DOMAIN s, NEW x
  PROVE  LET t == [s EXCEPT ![n] = x] IN
         /\ Range(t) \subseteq Range(s) \cup {x}
         /\ Keyed(s) => Range(t) = (Range(s) \ {s[n]}) \cup {x}
         /\ Keyed(s) /\ x.page = s[n].page /\ x.ask = s[n].ask => Keyed(t)
         /\ Keyed(s) /\ (\A y \in Range(s) \ {s[n]} : y.page # x.page \/ y.ask # x.ask) => Keyed(t)
<1> DEFINE t == [s EXCEPT ![n] = x]
<1>1. DOMAIN t = DOMAIN s /\ t[n] = x /\ \A i \in DOMAIN s : i # n => t[i] = s[i]
  OBVIOUS
<1> HIDE DEF t
<1>2. Keyed(s) => \A i \in DOMAIN s : i # n => s[i] # s[n]
  BY DEF Keyed
<1>3. Range(t) \subseteq Range(s) \cup {x}
  BY <1>1 DEF Range
<1>4. Keyed(s) => Range(t) = (Range(s) \ {s[n]}) \cup {x}
  BY <1>1, <1>2 DEF Range
<1>5. ASSUME Keyed(s), \A y \in Range(s) \ {s[n]} : y.page # x.page \/ y.ask # x.ask
      PROVE  Keyed(t)
  <2>1. \A i \in DOMAIN s : i # n => s[i].page # x.page \/ s[i].ask # x.ask
    BY <1>2, <1>5 DEF Range
  <2> QED
    BY <1>1, <1>5, <2>1 DEF Keyed
<1>6. Keyed(s) /\ x.page = s[n].page /\ x.ask = s[n].ask => Keyed(t)
  BY <1>1 DEF Keyed
<1> QED
  BY <1>3, <1>4, <1>5, <1>6 DEF t

\* One request less.
LEMMA OneLess ==
  ASSUME NEW S, NEW s \in Seq(S), NEW n \in DOMAIN s
  PROVE  /\ Range(RemoveAt(s, n)) \subseteq Range(s)
         /\ Keyed(s) => Range(RemoveAt(s, n)) = Range(s) \ {s[n]} /\ Keyed(RemoveAt(s, n))
<1> DEFINE r == RemoveAt(s, n)
           h == SubSeq(s, 1, n - 1)
           u == SubSeq(s, n + 1, Len(s))
           g(j) == IF j < n THEN j ELSE j + 1
<1>1. Len(s) \in Nat /\ DOMAIN s = 1..Len(s) /\ n \in 1..Len(s) /\ \A k \in 1..Len(s) : s[k] \in S
  BY LenProperties
<1>2. r = h \o u
  BY DEF RemoveAt
<1>3. h \in Seq(S) /\ Len(h) = n - 1 /\ \A j \in 1..n - 1 : h[j] = s[j]
  <2>1. \A j \in 1..n - 1 : s[j] \in S
    BY <1>1
  <2>2. n - 1 \in Int /\ 1 \in Int /\ (n - 1) - 1 + 1 = n - 1
    BY <1>1
  <2>3. /\ h \in Seq(S) /\ Len(h) = IF 1 <= n - 1 THEN (n - 1) - 1 + 1 ELSE 0
        /\ \A j \in 1..(n - 1) - 1 + 1 : h[j] = s[1 + j - 1]
    BY <2>1, <2>2, SubSeqProperties
  <2> QED
    BY <1>1, <2>2, <2>3
<1>4. u \in Seq(S) /\ Len(u) = Len(s) - n /\ \A j \in 1..Len(s) - n : u[j] = s[n + j]
  <2>1. \A j \in n + 1..Len(s) : s[j] \in S
    BY <1>1
  <2>2. n + 1 \in Int /\ Len(s) \in Int
    BY <1>1
  <2>3. /\ u \in Seq(S) /\ Len(u) = IF n + 1 <= Len(s) THEN Len(s) - (n + 1) + 1 ELSE 0
        /\ \A j \in 1..Len(s) - (n + 1) + 1 : u[j] = s[(n + 1) + j - 1]
    BY <2>1, <2>2, SubSeqProperties
  <2> QED
    BY <1>1, <2>3
<1> HIDE DEF r, h, u
<1>5. /\ r \in Seq(S) /\ Len(r) = Len(s) - 1
      /\ \A j \in 1..Len(s) - 1 : r[j] = IF j <= n - 1 THEN h[j] ELSE u[j - (n - 1)]
  <2>1. /\ h \o u \in Seq(S) /\ Len(h \o u) = Len(h) + Len(u)
        /\ \A j \in 1..Len(h) + Len(u) : (h \o u)[j] = IF j <= Len(h) THEN h[j] ELSE u[j - Len(h)]
    BY <1>3, <1>4, ConcatProperties
  <2>2. Len(h) + Len(u) = Len(s) - 1
    BY <1>1, <1>3, <1>4
  <2> QED
    BY <1>2, <1>3, <2>1, <2>2
<1>6. DOMAIN r = 1..Len(s) - 1
  BY <1>5, LenProperties
<1>7. \A j \in DOMAIN r : g(j) \in DOMAIN s /\ g(j) # n /\ r[j] = s[g(j)]
  <2> SUFFICES ASSUME NEW j \in 1..Len(s) - 1 PROVE g(j) \in DOMAIN s /\ g(j) # n /\ r[j] = s[g(j)]
    BY <1>6
  <2>1. CASE j < n
    <3>1. j \in 1..n - 1 /\ j <= n - 1
      BY <1>1, <2>1
    <3> QED
      BY <1>1, <1>3, <1>5, <2>1, <3>1
  <2>2. CASE ~(j < n)
    <3>1. j - (n - 1) \in 1..Len(s) - n /\ ~(j <= n - 1) /\ n + (j - (n - 1)) = j + 1
      BY <1>1, <2>2
    <3>2. r[j] = u[j - (n - 1)]
      BY <1>5, <3>1
    <3> QED
      BY <1>1, <1>4, <2>2, <3>1, <3>2
  <2> QED
    BY <2>1, <2>2
<1>8. \A i, j \in DOMAIN r : g(i) = g(j) => i = j
  BY <1>1, <1>6
<1>9. \A k \in DOMAIN s : k # n => \E j \in DOMAIN r : g(j) = k
  <2> SUFFICES ASSUME NEW k \in 1..Len(s), k # n PROVE \E j \in 1..Len(s) - 1 : g(j) = k
    BY <1>1, <1>6
  <2>1. CASE k < n
    BY <1>1, <2>1
  <2>2. CASE k > n
    <3>1. k - 1 \in 1..Len(s) - 1 /\ g(k - 1) = k
      BY <1>1, <2>2
    <3> QED
      BY <3>1
  <2> QED
    BY <1>1, <2>1, <2>2
<1> HIDE DEF g
<1>10. Range(r) \subseteq Range(s)
  BY <1>7 DEF Range
<1>11. ASSUME Keyed(s)
       PROVE  Range(r) = Range(s) \ {s[n]} /\ Keyed(r)
  <2>1. \A i \in DOMAIN s : i # n => s[i] # s[n]
    BY <1>11 DEF Keyed
  <2>2. Range(r) \subseteq Range(s) \ {s[n]}
    BY <1>7, <2>1 DEF Range
  <2>3. Range(s) \ {s[n]} \subseteq Range(r)
    BY <1>7, <1>9 DEF Range
  <2>4. Keyed(r)
    BY <1>7, <1>8, <1>11 DEF Keyed
  <2> QED
    BY <2>2, <2>3, <2>4
<1> QED
  BY <1>10, <1>11 DEF r

\* What the steps do to the requests under way.
LEMMA RequestSteps ==
  ASSUME Flows
  PROVE  /\ Undertaken \subseteq RoutedFlow
         /\ \A x \in RoutedFlow : flows' = Append(flows, x) =>
              /\ Undertaken' = Undertaken \cup {x}
              /\ Keyed(flows) /\ (\A y \in Undertaken : y.page # x.page) => Keyed(flows')
         /\ \A n \in DOMAIN flows : flows[n] \in Undertaken
         /\ \A n \in DOMAIN flows : \A x : Onward(n, x) =>
              /\ Undertaken' \subseteq Undertaken \cup {x}
              /\ Keyed(flows) => Undertaken' = (Undertaken \ {flows[n]}) \cup {x}
              /\ Keyed(flows) /\ x.page = flows[n].page /\ x.ask = flows[n].ask => Keyed(flows')
              /\ Keyed(flows) /\ (\A y \in Undertaken \ {flows[n]} : y.page # x.page) => Keyed(flows')
         /\ \A n \in DOMAIN flows : Done(n) =>
              /\ Undertaken' \subseteq Undertaken
              /\ Keyed(flows) => Undertaken' = Undertaken \ {flows[n]} /\ Keyed(flows')
<1>1. flows \in Seq(RoutedFlow)
  BY DEF Flows
<1>2. Undertaken \subseteq RoutedFlow
  BY <1>1, RangeOfSeq DEF Undertaken
<1>3. ASSUME NEW x \in RoutedFlow, flows' = Append(flows, x)
      PROVE  /\ Undertaken' = Undertaken \cup {x}
             /\ Keyed(flows) /\ (\A y \in Undertaken : y.page # x.page) => Keyed(flows')
  BY <1>1, <1>3, OneMore DEF Undertaken
<1>4. \A n \in DOMAIN flows : flows[n] \in Undertaken
  BY DEF Undertaken, Range
<1>5. ASSUME NEW n \in DOMAIN flows, NEW x, Onward(n, x)
      PROVE  /\ Undertaken' \subseteq Undertaken \cup {x}
             /\ Keyed(flows) => Undertaken' = (Undertaken \ {flows[n]}) \cup {x}
             /\ Keyed(flows) /\ x.page = flows[n].page /\ x.ask = flows[n].ask => Keyed(flows')
             /\ Keyed(flows) /\ (\A y \in Undertaken \ {flows[n]} : y.page # x.page) => Keyed(flows')
  BY <1>1, <1>5, OneChanged DEF Undertaken, Onward
<1>6. ASSUME NEW n \in DOMAIN flows, Done(n)
      PROVE  /\ Undertaken' \subseteq Undertaken
             /\ Keyed(flows) => Undertaken' = Undertaken \ {flows[n]} /\ Keyed(flows')
  BY <1>1, <1>6, OneLess DEF Undertaken, Done
<1> QED
  BY <1>2, <1>3, <1>4, <1>5, <1>6

\* The server's answer to a request.
LEMMA ServeEffect ==
  ASSUME Flows, NEW n \in DOMAIN flows, Serve(n)
  PROVE  LET f == flows[n] IN
         /\ f.answer = "sent" /\ UNCHANGED <<muted, channel, pages, orderly>>
         /\ \/ /\ f.ask = "subscribe"
               /\ Onward(n, [f EXCEPT !.answer = AnswerToSubscribe(f.route)])
               /\ subscribed' = IF AnswerToSubscribe(f.route) = "done"
                                THEN subscribed \cup {f.route} ELSE subscribed
            \/ /\ f.ask = "unsubscribe"
               /\ Onward(n, [f EXCEPT !.answer = "done"])
               /\ subscribed' = subscribed \ {f.route}
            \/ /\ f.ask \in Reads
               /\ Onward(n, [f EXCEPT !.answer = "done", !.routes = subscribed])
               /\ subscribed' = subscribed
<1> DEFINE f == flows[n]
<1>1. f.ask \in Writes \cup Reads
  BY FlowsStay DEF RoutedFlow, Flow
<1>2. CASE f.ask = "subscribe"
  BY <1>2 DEF Serve, Onward
<1>3. CASE f.ask = "unsubscribe"
  BY <1>3 DEF Serve, Onward
<1>4. CASE f.ask \in Reads
  BY <1>4 DEF Serve, Onward, Reads
<1> QED
  BY <1>1, <1>2, <1>3, <1>4 DEF Writes

\* Every request asks for what it can.
LEMMA NextKinds ==
  ASSUME IInv, Kinds, [Next]_vars
  PROVE  Kinds'
<1> USE DEF IInv
<1>1. ASSUME NEW p \in Pages, NEW ask \in Writes, NEW r \in Routes, NEW from, Ask(p, ask, r, from),
             \/ p = "map" /\ from = "bell"
             \/ p = "list" /\ from = "sheet"
             \/ p = "list" /\ from = "card" /\ ask = "unsubscribe"
      PROVE  Kinds'
  <2> DEFINE x == Begun(p, ask, r, from)
  <2>1. x \in RoutedFlow
    BY <1>1, BegunFlow
  <2>2. Kind(x)
    BY <1>1 DEF Kind, Begun, Writes
  <2>3. Undertaken' = Undertaken \cup {x}
    BY <1>1, <2>1, RequestSteps DEF Ask
  <2> QED
    BY <2>2, <2>3 DEF Kinds
<1>2. ASSUME NEW n \in DOMAIN flows
      PROVE  Kind(flows[n]) /\ flows[n] \in Flow
  BY RequestSteps, FlowsStay DEF Kinds, RoutedFlow
<1>3. ASSUME NEW n \in DOMAIN flows, Done(n)
      PROVE  Kinds'
  BY <1>3, RequestSteps DEF Kinds
<1>4. ASSUME NEW n \in DOMAIN flows, NEW x, Kind(x), Onward(n, x)
      PROVE  Kinds'
  BY <1>4, RequestSteps DEF Kinds
<1>5. ASSUME NEW r \in Routes, RemoveCard(r)
      PROVE  Kinds'
  BY <1>1, <1>5 DEF RemoveCard, Pages, Writes
<1>6. ASSUME NEW r \in Routes, ToggleFromSheet(r)
      PROVE  Kinds'
  BY <1>1, <1>6 DEF ToggleFromSheet, Pages, Writes
<1>7. ASSUME ClickBell
      PROVE  Kinds'
  <2>1. bell.route \in Routes
    BY <1>7 DEF ClickBell, Shown
  <2> QED
    BY <1>1, <1>7, <2>1 DEF ClickBell, Pages, Writes
<1>8. ASSUME UNCHANGED flows
      PROVE  Kinds'
  BY <1>8 DEF Kinds, Undertaken
<1>9. ASSUME NEW n \in DOMAIN flows, Serve(n)
      PROVE  Kinds'
  <2>1. PICK x : Onward(n, x) /\ x.page = flows[n].page /\ x.ask = flows[n].ask /\ x.from = flows[n].from
    <3> DEFINE f == flows[n]
    <3> DEFINE g(a) == [f EXCEPT !.answer = a]
               h(a, R) == [f EXCEPT !.answer = a, !.routes = R]
    <3>1. \/ \E a : Onward(n, g(a))
          \/ \E a, R : Onward(n, h(a, R))
      BY <1>9, ServeEffect
    <3>2. f \in Flow
      BY <1>2
    <3>3. /\ \A a : g(a).page = f.page /\ g(a).ask = f.ask /\ g(a).from = f.from
          /\ \A a, R : h(a, R).page = f.page /\ h(a, R).ask = f.ask /\ h(a, R).from = f.from
      BY <3>2 DEF Flow
    <3> HIDE DEF g, h
    <3> QED
      BY <3>1, <3>3
  <2>2. Kind(x)
    BY <1>2, <2>1 DEF Kind
  <2> QED
    BY <1>4, <2>1, <2>2
<1>10. ASSUME NEW n \in DOMAIN flows, Answer(n)
       PROVE  Kinds'
  <2> DEFINE f == flows[n]
             x == [f EXCEPT !.answer = "sent", !.ask = "refetch", !.ok = f.answer = "done"]
  <2>1. Done(n) \/ (f.ask \in Writes /\ f.from # "bell" /\ Onward(n, x))
    BY <1>10 DEF Answer, JoinRooms, Loaded, Refetched, BellAnswered, ListAnswered
  <2>2. ASSUME f.ask \in Writes, f.from # "bell"
        PROVE  Kind(x)
    BY <1>2, <2>2 DEF Kind, Flow, Writes, Starts
  <2> QED
    BY <1>3, <1>4, <2>1, <2>2
<1>11. ASSUME NEW n \in DOMAIN flows, Fail(n)
       PROVE  Kinds'
  <2> DEFINE f == flows[n]
             x == [f EXCEPT !.answer = "sent", !.ask = "refetch", !.ok = FALSE]
  <2>1. Done(n) \/ (f.from = "card" /\ Onward(n, x))
    BY <1>11 DEF Fail, Refetched
  <2>2. ASSUME f.from = "card"
        PROVE  Kind(x)
    BY <1>2, <2>2 DEF Kind, Flow
  <2> QED
    BY <1>3, <1>4, <2>1, <2>2
<1> QED
  BY <1>5, <1>6, <1>7, <1>8, <1>9, <1>10, <1>11
     DEF Next, vars, ToggleMute, SelectRoute, Reconnect, Drop, Arrive, SocketStep

\* A page that nothing crosses and that has nothing under way agrees with the server.
LEMMA IdleAgrees ==
  ASSUME NEW p, InOrder(p), orderly[p], Of(p) = {}
  PROVE  Agrees(p)
<1>1. Agrees(p) \/ Opens(p)
  BY DEF InOrder
<1>2. CASE Opens(p)
  BY <1>2 DEF Opens, Agrees, ShowBell
<1> QED
  BY <1>1, <1>2

\* What does not concern the page leaves it in order.
LEMMA StaysInOrder ==
  ASSUME NEW p, InOrder(p), orderly'[p] => orderly[p] /\ OneByOne(p)', Of(p)' = Of(p),
         UNCHANGED <<subscribed, muted>>, known'[p] = known[p], channel'[p].active = channel[p].active,
         p = "map" => UNCHANGED <<selected, bell>>
  PROVE  InOrder(p)'
<1> SUFFICES ASSUME orderly'[p] PROVE InOrder(p)'
  BY DEF InOrder
<1>1. CASE Of(p) = {} /\ Agrees(p)
  BY <1>1 DEF InOrder, Agrees
<1>2. CASE Opens(p)
  BY <1>2 DEF InOrder, Opens
<1>3. ASSUME NEW f \in Undertaken, Of(p) = {f}, Awaits(p, f)
      PROVE  InOrder(p)'
  <2>1. f \in Undertaken'
    BY <1>3 DEF Of
  <2>2. Awaits(p, f)'
    BY <1>3 DEF Awaits
  <2> QED
    BY <1>3, <2>1, <2>2 DEF InOrder
<1> QED
  BY <1>1, <1>2, <1>3 DEF InOrder

\* The first requests are those of the start.
LEMMA InitInOrder == Init => OrderInv
<1> SUFFICES ASSUME Init PROVE OrderInv
  OBVIOUS
<1>1. IsFiniteSet(Loading)
  BY LoadingIsFinite
<1>2. flows \in Seq(Loading) /\ \A i, j \in DOMAIN flows : flows[i] = flows[j] => i = j
  BY <1>1, SetToSeqLists DEF Init
<1>3. \A x \in Loading : \E i \in DOMAIN flows : flows[i] = x
  BY <1>1, SetToSeqLists DEF Init
<1>4. Undertaken = Loading
  <2>1. Undertaken \subseteq Loading
    BY <1>2, RangeOfSeq DEF Undertaken
  <2> QED
    BY <1>3, <2>1 DEF Undertaken, Range
<1> DEFINE a == Begun("map", "join rooms", NoRoute, "page")
           b == Begun("map", "sync", NoRoute, "page")
           c == Begun("list", "join rooms", NoRoute, "page")
           d == Begun("list", "load", NoRoute, "page")
<1>0. /\ a.page = "map" /\ a.ask = "join rooms" /\ b.page = "map" /\ b.ask = "sync"
      /\ c.page = "list" /\ c.ask = "join rooms" /\ d.page = "list" /\ d.ask = "load"
      /\ \A x \in {a, b, c, d} : x.from = "page" /\ x.answer = "sent"
  BY DEF Begun
<1>9. Loading = {a, b, c, d}
  BY DEF Loading
<1> HIDE DEF a, b, c, d
<1>5. Keyed(flows)
  <2>1. \A x, y \in Loading : x.page = y.page /\ x.ask = y.ask => x = y
    <3>1. /\ a.page # c.page /\ a.page # d.page /\ b.page # c.page /\ b.page # d.page
          /\ a.ask # b.ask /\ c.ask # d.ask
      BY <1>0
    <3>2. \A x, y \in {a, b, c, d} : x.page = y.page /\ x.ask = y.ask => x = y
      BY <3>1, Zenon
    <3> QED
      BY <1>9, <3>2
  <2>2. \A i \in DOMAIN flows : flows[i] \in Loading
    BY <1>4 DEF Undertaken, Range
  <2> QED
    BY <1>2, <2>1, <2>2 DEF Keyed
<1>6. Kinds
  BY <1>0, <1>4, <1>9 DEF Kinds, Kind, Starts
<1>7. ASSUME NEW p \in Pages
      PROVE  InOrder(p)
  <2>1. \A f \in Loading : f.ask \in Starts /\ f.answer = "sent"
    BY <1>0, <1>9 DEF Starts
  <2>2. /\ \E f \in Of(p) : f.ask \in {"sync", "load"}
        /\ \E f \in Of(p) : f.ask = "join rooms"
    BY <1>0, <1>4, <1>9 DEF Of, Pages
  <2>3. channel[p].active = {} /\ selected = NoRoute /\ bell = NoBell
    BY DEF Init, NoChannel
  <2>4. Opens(p)
    BY <1>4, <2>1, <2>2, <2>3 DEF Opens, Of
  <2>5. OneByOne(p)
    BY <1>4, <1>5, <2>1 DEF OneByOne
  <2> QED
    BY <2>4, <2>5 DEF InOrder
<1> QED
  BY <1>6, <1>7 DEF OrderInv

\* A page with nothing under way begins a write.
LEMMA AskInOrder ==
  ASSUME IInv, NEW p \in Pages, InOrder(p), NEW q \in Pages, NEW ask \in Writes, NEW r \in Routes,
         NEW from \in {"bell", "card", "sheet"}, Ask(q, ask, r, from),
         UNCHANGED <<subscribed, muted, channel, known, selected>>,
         ask = "subscribe" <=> r \notin known[q],
         q = "map" => r # NoRoute /\ (Of(q) = {} /\ orderly[q] => r = selected /\ bell' = [route |-> r, on |-> ask = "subscribe"])
  PROVE  InOrder(p)'
<1> SUFFICES ASSUME orderly'[p] PROVE InOrder(p)'
  BY DEF InOrder
<1> DEFINE x == Begun(p, ask, r, from)
<1>1. q = p /\ orderly[p] /\ UnderWay(p) = {}
  BY DEF Ask, Crossing
<1>2. Of(p) = {}
  BY <1>1 DEF Of, UnderWay, Undertaken, Range
<1>3. Agrees(p) /\ OneByOne(p)
  BY <1>1, <1>2, IdleAgrees DEF InOrder
<1>4. x \in RoutedFlow
  BY BegunFlow
<1>5. Undertaken' = Undertaken \cup {x} /\ Keyed(flows')
  <2>1. \A y \in Undertaken : y.page # x.page
    BY <1>2 DEF Of, Begun
  <2> QED
    BY <1>1, <1>3, <1>4, <2>1, RequestSteps DEF IInv, Ask, OneByOne
<1>6. Of(p)' = {x}
  BY <1>2, <1>5 DEF Of, Begun
<1>7. OneByOne(p)'
  BY <1>3, <1>5 DEF OneByOne, Begun
<1>8. Awaits(p, x)'
  <2>1. /\ x.ask = ask /\ x.route = r /\ x.answer = "sent" /\ ask # "refetch" /\ ask \notin Starts
        /\ Adds(x) <=> ask = "subscribe"
    BY DEF Begun, Writes, Starts, Adds
  <2>2. ~CarriedOut(x)
    BY <2>1 DEF CarriedOut
  <2>3. p = "map" => r = selected' /\ r # NoRoute /\ bell' = [route |-> selected', on |-> Adds(x)]
    BY <1>1, <1>2, <2>1 DEF Adds
  <2> QED
    BY <1>1, <1>3, <2>1, <2>2, <2>3 DEF Awaits, Agrees
<1> QED
  BY <1>5, <1>6, <1>7, <1>8 DEF InOrder

\* What the user does.
LEMMA UserInOrder ==
  ASSUME IInv, NEW p \in Pages, InOrder(p),
         \/ ClickBell
         \/ \E r \in Routes : RemoveCard(r) \/ ToggleMute(r) \/ ToggleFromSheet(r)
         \/ \E r \in Routes \cup {NoRoute} : SelectRoute(r)
  PROVE  InOrder(p)'
<1>1. ASSUME NEW r \in Routes, RemoveCard(r)
      PROVE  InOrder(p)'
  BY <1>1, AskInOrder DEF RemoveCard, Tap, pages, Pages, Writes
<1>2. ASSUME NEW r \in Routes, ToggleFromSheet(r)
      PROVE  InOrder(p)'
  <2> DEFINE ask == IF r \in known["list"] THEN "unsubscribe" ELSE "subscribe"
  <2>1. Ask("list", ask, r, "sheet") /\ UNCHANGED <<subscribed, muted, channel, known, selected>>
    BY <1>2 DEF ToggleFromSheet, Tap, pages
  <2>2. ask \in Writes /\ (ask = "subscribe" <=> r \notin known["list"]) /\ "list" \in Pages
    BY DEF Writes, Pages
  <2> QED
    BY <2>1, <2>2, AskInOrder
<1>3. ASSUME ClickBell
      PROVE  InOrder(p)'
  <2> DEFINE ask == IF bell'.on THEN "subscribe" ELSE "unsubscribe"
             r == bell.route
  <2>1. /\ Ask("map", ask, r, "bell") /\ UNCHANGED <<subscribed, muted, channel, known, selected>>
        /\ bell' = [bell EXCEPT !.on = ~@] /\ r # NoRoute
    BY <1>3 DEF ClickBell, Tap
  <2>2. r \in Routes /\ ask \in Writes /\ "map" \in Pages
    BY <2>1 DEF Writes, Pages, IInv, Shown
  <2> HIDE DEF ask
  <2>3. CASE p = "map" /\ orderly["map"] /\ UnderWay("map") = {}
    <3>1. Of("map") = {}
      BY <2>3 DEF Of, UnderWay, Undertaken, Range
    <3>2. Agrees("map")
      BY <2>3, <3>1, IdleAgrees
    <3>3. r = selected /\ bell = [route |-> r, on |-> r \in known["map"]]
      BY <2>1, <3>2 DEF Agrees, ShowBell, NoBell
    <3>4. bell' = [route |-> r, on |-> r \notin known["map"]]
      <4>1. bell \in [route : Routes \cup {NoRoute}, on : BOOLEAN] /\ (bell.on <=> r \in known["map"])
        BY <3>3 DEF IInv, Shown
      <4>2. /\ bell' \in [route : Routes \cup {NoRoute}, on : BOOLEAN]
            /\ bell'.route = r /\ (bell'.on <=> r \notin known["map"])
        BY <2>1, <4>1
      <4> QED
        BY <4>2
    <3>5. ask = "subscribe" <=> r \notin known["map"]
      BY <3>4 DEF ask
    <3>6. bell' = [route |-> r, on |-> ask = "subscribe"]
      BY <3>4, <3>5
    <3> QED
      BY <2>1, <2>2, <3>3, <3>5, <3>6, AskInOrder
  <2>4. CASE ~(p = "map" /\ orderly["map"] /\ UnderWay("map") = {})
    <3>1. ~orderly'[p]
      BY <2>1, <2>4 DEF Ask, Crossing
    <3> QED
      BY <3>1 DEF InOrder
  <2> QED
    BY <2>3, <2>4
<1>4. ASSUME NEW r \in Routes, ToggleMute(r)
      PROVE  InOrder(p)'
  <2> SUFFICES ASSUME orderly'[p] PROVE InOrder(p)'
    BY DEF InOrder
  <2>1. p = "list" /\ orderly[p] /\ UnderWay(p) = {} /\ UNCHANGED <<subscribed, pages, flows>>
    BY <1>4 DEF ToggleMute, Crossing, Tap
  <2>2. Of(p) = {} /\ Undertaken' = Undertaken
    BY <2>1 DEF Of, UnderWay, Undertaken, Range
  <2>3. Agrees(p) /\ OneByOne(p)
    BY <2>1, <2>2, IdleAgrees DEF InOrder
  <2>4. channel["list"] \in Channel /\ channel \in [Pages -> Channel]
    BY <2>1 DEF IInv, Sockets, Pages
  <2>5. r \in subscribed
    BY <1>4, <2>1, <2>3 DEF ToggleMute, Agrees
  <2>6. channel'["list"].active = subscribed \ muted'
    <3>1. CASE r \in muted
      <4>1. muted' = muted \ {r} /\ channel'["list"] = JoinRoute(channel["list"], r)
        BY <1>4, <2>1, <2>4, <3>1 DEF ToggleMute
      <4>2. channel'["list"].active = channel["list"].active \cup {r}
        BY <2>4, <4>1 DEF JoinRoute, Emit, Channel
      <4> QED
        BY <2>1, <2>3, <2>5, <4>1, <4>2 DEF Agrees
    <3>2. CASE r \notin muted
      <4>1. muted' = muted \cup {r} /\ channel'["list"] = LeaveRoute(channel["list"], r)
        BY <1>4, <2>1, <2>4, <3>2 DEF ToggleMute
      <4>2. channel'["list"].active = channel["list"].active \ {r}
        BY <2>4, <4>1 DEF LeaveRoute, Emit, Channel
      <4> QED
        BY <2>1, <2>3, <2>5, <4>1, <4>2 DEF Agrees
    <3> QED
      BY <3>1, <3>2
  <2>7. Agrees(p)'
    BY <2>1, <2>3, <2>6 DEF Agrees, pages
  <2>8. Of(p)' = {} /\ OneByOne(p)'
    BY <2>1, <2>2, <2>3 DEF Of, OneByOne
  <2> QED
    BY <2>7, <2>8 DEF InOrder
<1>5. ASSUME NEW r \in Routes \cup {NoRoute}, SelectRoute(r)
      PROVE  InOrder(p)'
  <2>1. /\ UNCHANGED <<subscribed, muted, channel, known, flows>> /\ selected' = r
        /\ bell' = ShowBell(r, r \in known["map"])
        /\ orderly' = [orderly EXCEPT !["map"] = @ /\ UnderWay("map") = {}]
    BY <1>5 DEF SelectRoute, Tap
  <2>2. Undertaken' = Undertaken
    BY <2>1 DEF Undertaken
  <2>3. Of(p)' = Of(p) /\ (OneByOne(p) => OneByOne(p)')
    BY <2>1, <2>2 DEF Of, OneByOne
  <2>4. CASE p = "map"
    <3> SUFFICES ASSUME orderly'[p] PROVE InOrder(p)'
      BY DEF InOrder
    <3>1. orderly["map"] /\ UnderWay("map") = {}
      BY <2>1, <2>4 DEF IInv, Counts
    <3>2. Of(p) = {}
      BY <2>4, <3>1 DEF Of, UnderWay, Undertaken, Range
    <3>3. Agrees(p) /\ OneByOne(p)
      BY <2>4, <3>1, <3>2, IdleAgrees DEF InOrder
    <3>4. Agrees(p)'
      BY <2>1, <2>4, <3>3 DEF Agrees
    <3> QED
      BY <2>3, <3>2, <3>3, <3>4 DEF InOrder
  <2>5. CASE p # "map"
    <3>1. orderly'[p] = orderly[p]
      BY <2>1, <2>5 DEF IInv, Counts
    <3>2. orderly'[p] => orderly[p] /\ OneByOne(p)'
      BY <2>3, <3>1 DEF InOrder
    <3> QED
      BY <2>1, <2>3, <2>5, <3>2, StaysInOrder
  <2> QED
    BY <2>4, <2>5
<1> QED
  BY <1>1, <1>2, <1>3, <1>4, <1>5

\* The server serves the other page's opening, a request of the page's opening, or its write.
LEMMA ServeInOrder ==
  ASSUME IInv, Kinds, NEW p \in Pages, InOrder(p), NEW n \in DOMAIN flows, Serve(n)
  PROVE  InOrder(p)'
<1> SUFFICES ASSUME orderly'[p] PROVE InOrder(p)'
  BY DEF InOrder
<1> DEFINE f == flows[n]
<1>1. /\ f \in Undertaken /\ f \in RoutedFlow /\ f \in Flow /\ f.answer = "sent" /\ orderly[p]
      /\ UNCHANGED <<muted, channel, known, selected, bell, orderly>>
  BY RequestSteps, ServeEffect DEF IInv, RoutedFlow, pages
<1>2. OneByOne(p) /\ Keyed(flows) /\ \A g \in Undertaken : g.page # p => g.ask \in Starts
  BY <1>1 DEF InOrder, OneByOne
<1>3. ASSUME NEW x, Onward(n, x), x.page = f.page, x.ask = f.ask
      PROVE  OneByOne(p)' /\ Undertaken' = (Undertaken \ {f}) \cup {x}
  <2>1. Undertaken' = (Undertaken \ {f}) \cup {x} /\ Keyed(flows')
    BY <1>2, <1>3, RequestSteps DEF IInv
  <2> QED
    BY <1>1, <1>2, <1>3, <2>1 DEF OneByOne
<1>4. CASE f.ask \in Starts
  <2> DEFINE x == [f EXCEPT !.answer = "done", !.routes = subscribed]
  <2>1. Onward(n, x) /\ subscribed' = subscribed
    BY <1>4, ServeEffect DEF IInv, Starts
  <2>2. x.page = f.page /\ x.ask = f.ask /\ x.answer = "done" /\ x.routes = subscribed
    BY <1>1 DEF Flow
  <2> HIDE DEF x, f
  <2>3. OneByOne(p)' /\ Undertaken' = (Undertaken \ {f}) \cup {x}
    BY <1>3, <2>1, <2>2
  <2>4. CASE f.page # p
    <3>1. Of(p)' = Of(p)
      BY <2>2, <2>3, <2>4 DEF Of
    <3> QED
      BY <1>1, <2>1, <2>3, <3>1, StaysInOrder
  <2>5. CASE f.page = p
    <3>1. f \in Of(p) /\ Of(p)' = (Of(p) \ {f}) \cup {x}
      BY <1>1, <2>2, <2>3, <2>5 DEF Of
    <3>2. Opens(p)
      BY <1>1, <1>4, <3>1 DEF InOrder, Awaits
    <3>3. Opens(p)'
      <4>1. \A g \in Of(p)' :
               g.ask \in Starts /\ (g.answer = "sent" \/ (g.answer = "done" /\ g.routes = subscribed'))
        BY <1>4, <2>1, <2>2, <3>1, <3>2 DEF Opens
      <4>2. \A a : (\E g \in Of(p)' : g.ask = a) <=> (\E g \in Of(p) : g.ask = a)
        BY <2>2, <3>1
      <4> QED
        BY <1>1, <2>1, <3>2, <4>1, <4>2 DEF Opens
    <3> QED
      BY <2>3, <3>3 DEF InOrder
  <2> QED
    BY <2>4, <2>5
<1>5. CASE f.ask \notin Starts
  <2> HIDE DEF f
  <2>1. f.page = p /\ f \in Of(p)
    BY <1>1, <1>2, <1>5 DEF Of
  <2>2. Of(p) = {f} /\ Awaits(p, f)
    BY <1>1, <1>5, <2>1 DEF InOrder, Opens
  <2>3. ASSUME NEW x, Onward(n, x), x.page = f.page, x.ask = f.ask, Awaits(p, x)'
        PROVE  InOrder(p)'
    <3>1. OneByOne(p)' /\ Undertaken' = (Undertaken \ {f}) \cup {x}
      BY <1>3, <2>3 DEF f
    <3>2. Of(p)' = {x}
      BY <2>1, <2>2, <2>3, <3>1 DEF Of
    <3> QED
      BY <2>3, <3>1, <3>2 DEF InOrder
  <2>4. ASSUME NEW x, Onward(n, x), x.page = f.page, x.ask = f.ask, x.route = f.route, x.from = f.from, x.ok = f.ok,
               x.answer \in {"done", "limit"}, x.answer = "limit" => f.ask = "subscribe",
               f.ask = "refetch" => x.routes = subscribed',
               subscribed' = IF f.ask = "refetch" \/ x.answer # "done" THEN subscribed
                             ELSE IF f.ask = "subscribe" THEN subscribed \cup {f.route}
                             ELSE subscribed \ {f.route}
        PROVE  InOrder(p)'
    <3>1. Adds(x) <=> Adds(f)
      BY <2>4 DEF Adds
    <3>2. p = "map" => x.route = selected' /\ selected' # NoRoute /\ bell' = [route |-> selected', on |-> Adds(x)]
      <4>1. p = "map" => f.route = selected /\ selected # NoRoute /\ bell = [route |-> selected, on |-> Adds(f)]
        BY <2>2 DEF Awaits
      <4> QED
        BY <1>1, <2>4, <4>1, Zenon DEF Adds
    <3>3. subscribed' = IF ~CarriedOut(x) THEN known'[p]
                        ELSE IF Adds(x) THEN known'[p] \cup {x.route} ELSE known'[p] \ {x.route}
      <4>1. CASE f.ask = "refetch"
        BY <1>1, <2>2, <2>4, <3>1, <4>1 DEF Awaits, CarriedOut
      <4>2. CASE f.ask # "refetch"
        <5>1. subscribed = known[p] /\ (Adds(x) <=> f.ask = "subscribe")
          BY <1>1, <2>2, <3>1, <4>2 DEF Awaits, CarriedOut, Adds
        <5> QED
          BY <1>1, <2>4, <4>2, <5>1 DEF CarriedOut
      <4> QED
        BY <4>1, <4>2
    <3>4. Awaits(p, x)'
      BY <1>1, <2>2, <2>4, <3>1, <3>2, <3>3 DEF Awaits
    <3> QED
      BY <2>3, <2>4, <3>4
  <2>5. CASE f.ask = "subscribe"
    <3>1. PICK a : a = AnswerToSubscribe(f.route)
      OBVIOUS
    <3>2. PICK x : x = [f EXCEPT !.answer = a]
      OBVIOUS
    <3>3. Onward(n, x) /\ subscribed' = IF a = "done" THEN subscribed \cup {f.route} ELSE subscribed
      BY <2>5, <3>1, <3>2, ServeEffect DEF IInv, f, Reads
    <3>4. /\ x.page = f.page /\ x.ask = f.ask /\ x.answer = a /\ x.route = f.route /\ x.from = f.from
          /\ x.ok = f.ok
      BY <1>1, <3>2 DEF Flow
    <3>5. subscribed = known[p] /\ f.route \notin known[p]
      BY <1>1, <2>2, <2>5 DEF Awaits, CarriedOut, Adds
    <3>6. a \in {"done", "limit"}
      BY <3>1, <3>5 DEF AnswerToSubscribe
    <3> QED
      BY <2>4, <2>5, <3>3, <3>4, <3>6
  <2>6. CASE f.ask = "unsubscribe"
    <3>1. PICK x : x = [f EXCEPT !.answer = "done"]
      OBVIOUS
    <3>2. Onward(n, x) /\ subscribed' = subscribed \ {f.route}
      BY <2>6, <3>1, ServeEffect DEF IInv, f, Reads
    <3>3. /\ x.page = f.page /\ x.ask = f.ask /\ x.answer = "done" /\ x.route = f.route /\ x.from = f.from
          /\ x.ok = f.ok
      BY <1>1, <3>1 DEF Flow
    <3> QED
      BY <2>4, <2>6, <3>2, <3>3
  <2>7. CASE f.ask = "refetch"
    <3>1. PICK x : x = [f EXCEPT !.answer = "done", !.routes = subscribed]
      OBVIOUS
    <3>2. Onward(n, x) /\ subscribed' = subscribed
      BY <2>7, <3>1, ServeEffect DEF IInv, f, Reads
    <3>3. /\ x.page = f.page /\ x.ask = f.ask /\ x.answer = "done" /\ x.route = f.route /\ x.from = f.from
          /\ x.ok = f.ok /\ x.routes = subscribed
      BY <1>1, <3>1 DEF Flow
    <3> QED
      BY <2>4, <2>7, <3>2, <3>3
  <2> QED
    BY <1>1, <1>5, <2>5, <2>6, <2>7 DEF Flow, Writes, Reads, Starts
<1> QED
  BY <1>4, <1>5

\* The bell of a selected route.
LEMMA SameBell ==
  ASSUME NEW r, r # NoRoute, NEW a \in BOOLEAN, NEW b \in BOOLEAN, a <=> b
  PROVE  [route |-> r, on |-> a] = ShowBell(r, b)
<1>1. a = b
  OBVIOUS
<1> QED
  BY <1>1 DEF ShowBell

\* A request that ends leaves the others as they were.
LEMMA DoneInOrder ==
  ASSUME Flows, NEW p, OneByOne(p), NEW n \in DOMAIN flows, Done(n)
  PROVE  /\ OneByOne(p)' /\ Of(p)' = Of(p) \ {flows[n]}
         /\ flows[n].page # p => Of(p)' = Of(p)
<1>1. Undertaken' = Undertaken \ {flows[n]} /\ Keyed(flows')
  BY RequestSteps DEF OneByOne
<1> QED
  BY <1>1 DEF OneByOne, Of

\* The rooms asked for on one page's socket are no other page's.
LEMMA RoomsAsked ==
  ASSUME Sockets, NEW q \in Pages
  PROVE  /\ \A r : Join(q, r) => /\ muted' = muted \ {r}
                                 /\ channel'[q].active = channel[q].active \cup {r}
         /\ \A r : Leave(q, r) => /\ muted' = muted
                                  /\ channel'[q].active = channel[q].active \ {r}
         /\ \A R : channel' = [channel EXCEPT ![q] = JoinAll(@, R)] =>
                  /\ channel'[q].active = channel[q].active \cup R
                  /\ \A p \in Pages : p # q => channel'[p] = channel[p]
<1>1. channel \in [Pages -> Channel] /\ channel[q] \in Channel
  BY DEF Sockets
<1>2. /\ \A r : JoinRoute(channel[q], r).active = channel[q].active \cup {r}
      /\ \A r : LeaveRoute(channel[q], r).active = channel[q].active \ {r}
      /\ \A R : JoinAll(channel[q], R).active = channel[q].active \cup R
  BY <1>1 DEF JoinRoute, LeaveRoute, JoinAll, Emit, Channel
<1> QED
  BY <1>1, <1>2 DEF Join, Leave

\* The answer of a request of the start.
LEMMA StartAnswered ==
  ASSUME IInv, NEW p \in Pages, InOrder(p), orderly[p], NEW n \in DOMAIN flows,
         flows[n].ask \in Starts, Answer(n)
  PROVE  InOrder(p)'
<1> DEFINE f == flows[n]
<1>1. /\ f \in Undertaken /\ f \in Flow /\ f.page \in Pages /\ f.answer # "sent"
      /\ UNCHANGED <<subscribed, orderly, selected, bell, muted>>
      /\ Done(n)
      /\ \/ /\ f.ask = "join rooms" /\ known' = known
            /\ channel' = [channel EXCEPT ![f.page] = JoinAll(@, f.routes \ muted)]
         \/ /\ f.ask \in {"sync", "load"} /\ channel' = channel
            /\ known' = [known EXCEPT ![f.page] = f.routes]
  <2>1. f \in Undertaken /\ f \in Flow /\ f.page \in Pages
    BY RequestSteps DEF IInv, RoutedFlow, Flow
  <2>2. f.answer # "sent" /\ UNCHANGED <<subscribed, orderly>>
    BY DEF Answer
  <2>3. \/ f.ask = "join rooms" /\ JoinRooms(n, f.routes)
        \/ f.ask \in {"sync", "load"} /\ Loaded(n, f.routes)
    BY DEF Answer, Starts, Writes
  <2> QED
    BY <2>1, <2>2, <2>3 DEF JoinRooms, Loaded, Stay, pages
<1>2. /\ OneByOne(p) /\ OneByOne(p)' /\ Of(p)' = Of(p) \ {f}
      /\ f.page # p => Of(p)' = Of(p)
  BY <1>1, DoneInOrder DEF IInv, InOrder
<1>3. known \in [Pages -> SUBSET Routes] /\ channel \in [Pages -> Channel]
  BY DEF IInv, Shown, Sockets
<1>4. CASE f.page # p
  <2>1. known'[p] = known[p] /\ channel'[p].active = channel[p].active
    BY <1>1, <1>3, <1>4
  <2> QED
    BY <1>1, <1>2, <1>4, <2>1, StaysInOrder
<1>5. CASE f.page = p
  <2>1. f \in Of(p)
    BY <1>1, <1>5 DEF Of
  <2>2. Opens(p)
    BY <2>1 DEF InOrder, Awaits
  <2>3. f.routes = subscribed
    BY <1>1, <2>1, <2>2 DEF Opens
  <2>4. ASSUME NEW g \in Of(p), g.ask = f.ask PROVE g = f
    <3>1. PICK i \in DOMAIN flows : flows[i] = g
      BY DEF Of, Undertaken, Range
    <3> QED
      BY <1>2, <1>5, <2>4, <3>1 DEF OneByOne, Keyed, Of
  <2>5. CASE f.ask = "join rooms"
    <3>1. channel'[p].active = channel[p].active \cup (subscribed \ muted) /\ known' = known
      BY <1>1, <1>5, <2>3, <2>5, RoomsAsked DEF IInv
    <3>2. channel[p].active = {}
      BY <2>1, <2>2, <2>5 DEF Opens
    <3>3. ~\E g \in Of(p)' : g.ask = "join rooms"
      BY <1>2, <2>4, <2>5
    <3>4. (\E g \in Of(p) : g.ask \in {"sync", "load"}) => \E g \in Of(p)' : g.ask \in {"sync", "load"}
      BY <1>2, <2>5
    <3>5. Opens(p)'
      BY <1>1, <1>2, <2>2, <3>1, <3>2, <3>3, <3>4 DEF Opens
    <3> QED
      BY <1>2, <3>5 DEF InOrder
  <2>6. CASE f.ask \in {"sync", "load"}
    <3>1. known'[p] = subscribed /\ channel' = channel
      BY <1>1, <1>3, <1>5, <2>3, <2>6
    <3>2. (\E g \in Of(p)' : g.ask = "join rooms") <=> (\E g \in Of(p) : g.ask = "join rooms")
      BY <1>2, <2>6
    <3>3. Opens(p)'
      BY <1>1, <1>2, <2>2, <3>1, <3>2 DEF Opens
    <3> QED
      BY <1>2, <3>3 DEF InOrder
  <2> QED
    BY <1>1, <2>5, <2>6
<1> QED
  BY <1>4, <1>5

\* The answer of a write that the page awaits.
LEMMA WriteAnswered ==
  ASSUME IInv, Kinds, NEW p \in Pages, InOrder(p), orderly[p], NEW n \in DOMAIN flows,
         flows[n].ask \notin Starts, Answer(n)
  PROVE  InOrder(p)'
<1> DEFINE f == flows[n]
<1>1. /\ f \in Undertaken /\ f \in Flow /\ f \in RoutedFlow /\ f.answer # "sent" /\ Kind(f)
      /\ UNCHANGED <<subscribed, orderly>>
  BY RequestSteps DEF IInv, RoutedFlow, Answer, Kinds
<1>2. OneByOne(p) /\ f.page = p /\ f \in Of(p)
  BY <1>1 DEF InOrder, OneByOne, Of
<1>3. Of(p) = {f} /\ Awaits(p, f) /\ f.route \in Routes
  BY <1>1, <1>2 DEF InOrder, Opens, RoutedFlow, Starts
<1>4. known \in [Pages -> SUBSET Routes] /\ channel \in [Pages -> Channel] /\ "map" \in Pages /\ "list" \in Pages
  BY DEF IInv, Shown, Sockets, Pages
<1>5. ASSUME Done(n), Agrees(p)'
      PROVE  InOrder(p)'
  <2>1. OneByOne(p)' /\ Of(p)' = {}
    BY <1>2, <1>3, <1>5, DoneInOrder DEF IInv
  <2> QED
    BY <1>5, <2>1 DEF InOrder
<1> HIDE DEF f
<1>6. CASE f.from = "bell"
  <2>1. p = "map" /\ f.ask \in Writes /\ BellAnswered(n)
    BY <1>1, <1>2, <1>6 DEF Kind, Answer, f, Writes, Starts
  <2>2. /\ f.route = selected /\ selected # NoRoute /\ bell = [route |-> selected, on |-> Adds(f)]
        /\ Adds(f) <=> f.ask = "subscribe"
    BY <1>3, <2>1 DEF Awaits, Adds, Writes
  <2>3. Done(n) /\ UNCHANGED selected
    BY <2>1 DEF BellAnswered
  <2>4. CASE f.ask = "subscribe" /\ f.answer = "limit"
    <3>1. bell' = ShowBell(selected, FALSE) /\ UNCHANGED <<known, muted, channel>>
      BY <2>1, <2>2, <2>4 DEF BellAnswered, TakeBack, Stay, f
    <3>2. known[p] = subscribed /\ channel[p].active = subscribed \ muted /\ selected \notin subscribed
      BY <1>3, <2>2, <2>4 DEF Awaits, CarriedOut
    <3>3. bell' = ShowBell(selected, selected \in subscribed)
      <4>1. (selected \in subscribed) = FALSE
        BY <3>2
      <4> QED
        BY <3>1, <4>1, Zenon
    <3>4. Agrees(p)'
      BY <1>1, <2>3, <3>1, <3>2, <3>3 DEF Agrees
    <3> QED
      BY <1>5, <2>3, <3>4
  <2>5. CASE f.ask = "subscribe" /\ f.answer # "limit"
    <3>1. /\ known' = [known EXCEPT !["map"] = @ \cup {f.route}] /\ Join("map", f.route) /\ bell' = bell
      BY <2>1, <2>5 DEF BellAnswered, f
    <3>2. /\ muted' = muted \ {f.route} /\ channel'[p].active = channel[p].active \cup {f.route}
          /\ known'[p] = known[p] \cup {f.route}
      BY <1>4, <2>1, <3>1, RoomsAsked DEF IInv
    <3>3. f.answer = "done"
      BY <1>1, <1>3, <2>5 DEF Awaits, Flow
    <3>4. subscribed = known[p] \cup {f.route} /\ channel[p].active = known[p] \ muted
      BY <1>3, <2>2, <2>5, <3>3 DEF Awaits, CarriedOut
    <3>5. bell = ShowBell(selected, selected \in subscribed)
      BY <2>2, <2>5, <3>4, SameBell DEF Adds
    <3>6. Agrees(p)'
      BY <1>1, <2>3, <3>1, <3>2, <3>4, <3>5 DEF Agrees
    <3> QED
      BY <1>5, <2>3, <3>6
  <2>6. CASE f.ask = "unsubscribe"
    <3>1. /\ known' = [known EXCEPT !["map"] = @ \ {f.route}] /\ Leave("map", f.route) /\ bell' = bell
      BY <2>1, <2>6 DEF BellAnswered, f
    <3>2. /\ muted' = muted /\ channel'[p].active = channel[p].active \ {f.route}
          /\ known'[p] = known[p] \ {f.route}
      BY <1>4, <2>1, <3>1, RoomsAsked DEF IInv
    <3>3. f.answer = "done"
      BY <1>1, <1>3, <2>6 DEF Awaits, Flow
    <3>4. subscribed = known[p] \ {f.route} /\ channel[p].active = known[p] \ muted
      BY <1>3, <2>2, <2>6, <3>3 DEF Awaits, CarriedOut
    <3>5. bell = ShowBell(selected, selected \in subscribed)
      <4>1. Adds(f) \in BOOLEAN
        BY DEF Adds
      <4>2. Adds(f) <=> selected \in subscribed
        BY <2>2, <2>6, <3>4
      <4> QED
        BY <2>2, <4>1, <4>2, SameBell
    <3>6. Agrees(p)'
      BY <1>1, <2>3, <3>1, <3>2, <3>4, <3>5 DEF Agrees
    <3> QED
      BY <1>5, <2>3, <3>6
  <2> QED
    BY <2>1, <2>4, <2>5, <2>6 DEF Writes
<1>7. CASE f.from # "bell" /\ f.ask \in Writes
  <2>1. p = "list" /\ f.from \in {"card", "sheet"} /\ (f.from = "card" => f.ask = "unsubscribe")
    BY <1>1, <1>2, <1>3, <1>7 DEF Kind, Awaits, Writes, Starts
  <2>2. ListAnswered(n)
    BY <1>7 DEF Answer, f, Writes
  <2>3. f.answer \in {"done", "limit"} /\ (f.answer = "limit" => f.ask = "subscribe" /\ f.from = "sheet")
    BY <1>1, <1>3, <2>1 DEF Awaits, Flow
  <2>4. CASE f.from = "card" \/ (f.ask = "subscribe" /\ f.answer # "limit")
    <3>1. PICK x : x = [f EXCEPT !.answer = "sent", !.ask = "refetch", !.ok = f.answer = "done"]
      OBVIOUS
    <3>2. Onward(n, x) /\ UNCHANGED <<known, muted, channel>>
      BY <2>1, <2>2, <2>3, <2>4, <3>1 DEF ListAnswered, Stay, f
    <3>3. /\ x.page = p /\ x.ask = "refetch" /\ x.answer = "sent" /\ x.ok /\ x.route = f.route /\ x.from = f.from
      BY <1>1, <1>2, <2>3, <2>4, <3>1 DEF Flow
    <3>4. Undertaken' = (Undertaken \ {f}) \cup {x} /\ Keyed(flows')
      <4>1. \A y \in Undertaken \ {f} : y.page # x.page
        BY <1>3, <3>3 DEF Of
      <4> QED
        BY <1>2, <3>2, <4>1, RequestSteps DEF IInv, OneByOne, f
    <3>5. OneByOne(p)' /\ Of(p)' = {x}
      BY <1>2, <1>3, <3>3, <3>4 DEF OneByOne, Of
    <3>6. Awaits(p, x)'
      <4>1. (Adds(x) <=> Adds(f)) /\ CarriedOut(x) /\ CarriedOut(f)
        BY <1>7, <2>1, <2>3, <2>4, <3>3 DEF Adds, CarriedOut, Writes
      <4>2. /\ subscribed = IF Adds(f) THEN known[p] \cup {f.route} ELSE known[p] \ {f.route}
            /\ channel[p].active = known[p] \ muted /\ (Adds(f) <=> f.route \notin known[p])
        BY <1>3, <4>1 DEF Awaits
      <4> QED
        BY <1>1, <2>1, <3>2, <3>3, <4>1, <4>2 DEF Awaits, Starts
    <3> QED
      BY <3>4, <3>5, <3>6 DEF InOrder
  <2>5. CASE f.answer = "limit"
    <3>1. Done(n) /\ UNCHANGED <<known, muted, channel>>
      BY <2>2, <2>3, <2>5 DEF ListAnswered, Stay, f
    <3>2. Agrees(p)'
      BY <1>1, <1>3, <2>1, <2>3, <2>5, <3>1 DEF Agrees, Awaits, CarriedOut
    <3> QED
      BY <1>5, <3>1, <3>2
  <2>6. CASE f.from = "sheet" /\ f.ask = "unsubscribe"
    <3>1. Done(n) /\ known' = [known EXCEPT !["list"] = @ \ {f.route}] /\ Leave("list", f.route)
      BY <2>2, <2>3, <2>6 DEF ListAnswered, f
    <3>2. /\ muted' = muted /\ channel'[p].active = channel[p].active \ {f.route}
          /\ known'[p] = known[p] \ {f.route}
      BY <1>4, <2>1, <3>1, RoomsAsked DEF IInv
    <3>3. subscribed = known[p] \ {f.route} /\ channel[p].active = known[p] \ muted
      BY <1>3, <2>3, <2>6 DEF Awaits, CarriedOut, Adds
    <3>4. Agrees(p)'
      BY <1>1, <2>1, <3>2, <3>3 DEF Agrees
    <3> QED
      BY <1>5, <3>1, <3>4
  <2> QED
    BY <1>7, <2>1, <2>4, <2>5, <2>6 DEF Writes
<1>8. CASE f.ask = "refetch"
  <2>1. p = "list" /\ f.from \in {"card", "sheet"} /\ f.ok /\ f.answer = "done" /\ f.routes = subscribed
    <3>1. f.answer = "done"
      BY <1>1, <1>3, <1>8 DEF Awaits, Flow
    <3> QED
      BY <1>1, <1>2, <1>3, <1>8, <3>1 DEF Kind, Awaits, Writes, Starts
  <2>2. Refetched(n, f.routes)
    BY <1>8 DEF Answer, f, Writes
  <2>3. /\ Done(n) /\ known' = [known EXCEPT !["list"] = subscribed]
        /\ IF f.from = "sheet" THEN Join("list", f.route)
           ELSE IF f.route \notin subscribed THEN Leave("list", f.route) ELSE Stay
    BY <2>1, <2>2 DEF Refetched, f
  <2>4. /\ subscribed = IF f.from = "sheet" THEN known[p] \cup {f.route} ELSE known[p] \ {f.route}
        /\ channel[p].active = known[p] \ muted
    BY <1>3, <1>8, <2>1 DEF Awaits, CarriedOut, Adds
  <2>5. known'[p] = subscribed
    BY <1>4, <2>1, <2>3
  <2>6. channel'[p].active = subscribed \ muted'
    <3>1. CASE f.from = "sheet"
      BY <1>4, <2>1, <2>3, <2>4, <3>1, RoomsAsked DEF IInv
    <3>2. CASE f.from # "sheet"
      BY <1>4, <2>1, <2>3, <2>4, <3>2, RoomsAsked DEF IInv
    <3> QED
      BY <3>1, <3>2
  <2>7. Agrees(p)'
    BY <1>1, <2>1, <2>5, <2>6 DEF Agrees
  <2> QED
    BY <1>5, <2>3, <2>7
<1> QED
  BY <1>1, <1>3, <1>6, <1>7, <1>8 DEF Awaits, Flow, Writes, Reads, Starts

\* A failure makes its page disorderly and touches no other.
LEMMA FailInOrder ==
  ASSUME IInv, Kinds, NEW p \in Pages, InOrder(p), NEW n \in DOMAIN flows, Fail(n)
  PROVE  InOrder(p)'
<1> SUFFICES ASSUME orderly'[p] PROVE InOrder(p)'
  BY DEF InOrder
<1> DEFINE f == flows[n]
<1>1. f \in Undertaken /\ f \in Flow /\ Kind(f) /\ f.page \in Pages
  BY RequestSteps DEF IInv, RoutedFlow, Kinds, Flow
<1>2. f.page # p /\ orderly[p]
  BY <1>1 DEF Fail, IInv, Counts
<1>3. OneByOne(p) /\ f.ask \in Starts
  BY <1>1, <1>2 DEF InOrder, OneByOne
<1>4. f.from = "page"
  BY <1>1, <1>3 DEF Kind, Starts, Writes
<1>5. Done(n) /\ UNCHANGED pages /\ Stay /\ UNCHANGED subscribed
  BY <1>3, <1>4 DEF Fail, Starts
<1>6. OneByOne(p)' /\ Of(p)' = Of(p)
  BY <1>2, <1>3, <1>5, DoneInOrder DEF IInv
<1> QED
  BY <1>2, <1>5, <1>6, StaysInOrder DEF Stay, pages

\* A socket that connects, drops or delivers changes no list.
LEMMA SocketInOrder ==
  ASSUME IInv, NEW p \in Pages, InOrder(p), NEW q \in Pages, Reconnect(q) \/ Drop(q) \/ Arrive(q)
  PROVE  InOrder(p)'
<1>1. channel \in [Pages -> Channel] /\ channel[q] \in Channel
  BY DEF IInv, Sockets
<1>2. PICK c : SocketStep(q, c) /\ c.active = channel[q].active
  <2>1. /\ Connect(channel[q]).active = channel[q].active
        /\ Disconnect(channel[q]).active = channel[q].active
        /\ Deliver(channel[q]).active = channel[q].active
    BY <1>1 DEF Connect, Disconnect, Deliver, Channel
  <2> QED
    BY <2>1 DEF Reconnect, Drop, Arrive
<1>3. channel'[p].active = channel[p].active /\ UNCHANGED <<subscribed, muted, pages, flows, orderly>>
  BY <1>1, <1>2 DEF SocketStep
<1>4. Of(p)' = Of(p) /\ (OneByOne(p) => OneByOne(p)')
  BY <1>3 DEF Of, Undertaken, OneByOne
<1> QED
  BY <1>3, <1>4, StaysInOrder DEF InOrder, pages

\* Every step leaves the pages in order.
LEMMA NextInOrder ==
  ASSUME IInv, OrderInv, [Next]_vars
  PROVE  OrderInv'
<1>1. Kinds'
  BY NextKinds DEF OrderInv
<1>2. ASSUME NEW p \in Pages
      PROVE  InOrder(p)'
  <2>1. InOrder(p) /\ Kinds
    BY DEF OrderInv
  <2>2. ASSUME NEW n \in DOMAIN flows, Answer(n)
        PROVE  InOrder(p)'
    <3>1. orderly' = orderly
      BY <2>2 DEF Answer
    <3>2. CASE orderly[p]
      BY <2>1, <2>2, <3>2, StartAnswered, WriteAnswered
    <3> QED
      BY <3>1, <3>2 DEF InOrder
  <2>3. CASE UNCHANGED vars
    <3>1. Of(p)' = Of(p) /\ (OneByOne(p) => OneByOne(p)')
      BY <2>3 DEF Of, Undertaken, OneByOne, vars
    <3> QED
      BY <2>1, <2>3, <3>1, StaysInOrder DEF vars, pages, InOrder
  <2>4. CASE Next
    BY <2>1, <2>2, <2>4, UserInOrder, ServeInOrder, FailInOrder, SocketInOrder DEF Next
  <2> QED
    BY <2>3, <2>4
<1> QED
  BY <1>1, <1>2 DEF OrderInv

-----------------------------------------------------------------------------
(* The theorems *)

\* Every step keeps the invariant.
LEMMA NextKeepsIInv == IInv /\ [Next]_vars => IInv'
<1> SUFFICES ASSUME IInv, [Next]_vars PROVE IInv'
  OBVIOUS
<1>1. CASE UNCHANGED vars
  BY <1>1 DEF vars, pages, IInv, Server, Shown, Flows, Sockets, Counts
<1>2. CASE Next
  BY <1>2, UserKeepsIInv, ServerKeepsIInv, AnswersKeepIInv, FailuresKeepIInv, SocketsKeepIInv DEF Next
<1> QED
  BY <1>1, <1>2

\* The server never keeps more subscriptions than the limit, whichever pages ask, and
\* the pages' state has its types.
THEOREM TypeCorrectness == Spec => []TypeOK
<1>1. IInv => TypeOK
  BY WhatIInvSays
<1> QED
  BY <1>1, InitEstablishesIInv, NextKeepsIInv, PTL DEF Spec

\* With a connection, once everything on its way has arrived the server has the page's
\* socket in the rooms of the routes the page lists: after drops, reconnects, failed
\* requests and answers in any order (live-notifications.ts:66).
THEOREM RoomsAreKept == Spec => []RoomsFollowTheList
<1>1. IInv => RoomsFollowTheList
  BY WhatIInvSays
<1> QED
  BY <1>1, InitEstablishesIInv, NextKeepsIInv, PTL DEF Spec

\* A page that did one thing at a time, that no other operation of the member crossed
\* and that got every answer lists, shows on its bell and listens to what the server
\* keeps, whatever its socket went through (route-bell.ts, subscriptions.ts).
THEOREM OrderlyPages == Spec => []OrderlyPagesAgree
<1>1. ASSUME OrderInv
      PROVE  OrderlyPagesAgree
  <2> SUFFICES ASSUME NEW p \in Pages, orderly[p], UnderWay(p) = {}
               PROVE  Agrees(p)
    BY DEF OrderlyPagesAgree, Agrees
  <2>1. Of(p) = {} /\ InOrder(p)
    BY <1>1 DEF Of, UnderWay, Undertaken, Range, OrderInv
  <2> QED
    BY <2>1, IdleAgrees
<1>2. IInv /\ OrderInv /\ [Next]_vars => (IInv /\ OrderInv)'
  BY NextKeepsIInv, NextInOrder
<1>3. Init => IInv /\ OrderInv
  BY InitEstablishesIInv, InitInOrder
<1>4. IInv /\ OrderInv => OrderlyPagesAgree
  BY <1>1
<1> QED
  BY <1>2, <1>3, <1>4, PTL DEF Spec

-----------------------------------------------------------------------------
(* Reports about buses *)

\* A handler announces fields only while it saves a notification, and only
\* fields its report answers, which the map knows.
Announcements ==
  \A r \in Requests :
    /\ changed[r] # {} => pc[r] = "saveNotification"
    /\ changed[r] \subseteq Answered(report[r].answers)
    /\ \A f \in changed[r] : lastKnown[report[r].vid][f] # Skipped

SoleAnnouncements ==
  \A p \in RouteIds, v \in Vids, f \in Fields, r \in Requests :
    Announcing(r, p, v, f) /\ <<p, v, f>> \notin astray
      => /\ report[r].answers[f] = lastKnown[v][f]
         /\ \A q \in Requests : Announcing(q, p, v, f) => q = r

\* Of what the map does not know, only a room astray has heard.
UnknownIsUnheard ==
  \A p \in RouteIds, v \in Vids, f \in Fields :
    lastKnown[v][f] = Skipped => heard[p][v][f] = Skipped \/ <<p, v, f>> \in astray

ReportsInv ==
  /\ ReportsTypeOK
  /\ Announcements
  /\ SoleAnnouncements
  /\ UnknownIsUnheard
  /\ RoomsHearOnlyNews
  /\ RoomsKnowTheStatus

-----------------------------------------------------------------------------
(* Facts about the operators *)

LEMMA NothingKnownIsStatus == NothingKnown \in Status
BY DEF NothingKnown, Status

\* Merging keeps a status a status; it differs only in the changed fields, where
\* it is what the report answered.
LEMMA MergeChanges ==
  ASSUME NEW s \in Status, NEW a \in Status
  PROVE  /\ Merge(s, a) \in Status
         /\ \A f \in Fields :
              Merge(s, a)[f] = IF f \in ChangedFields(a, s) THEN a[f] ELSE s[f]
BY DEF Merge, Status, Answered, ChangedFields

-----------------------------------------------------------------------------
(* The invariant *)

LEMMA InitReportsInv == ReportsInit => ReportsInv
<1> SUFFICES ASSUME ReportsInit PROVE ReportsInv
  OBVIOUS
<1>1. ReportsTypeOK
  BY NothingKnownIsStatus DEF ReportsInit, ReportsTypeOK, HandlerPoints
<1>2. Announcements /\ SoleAnnouncements /\ RoomsHearOnlyNews
  BY DEF ReportsInit, Announcements, SoleAnnouncements, RoomsHearOnlyNews, Announcing
<1>3. RoomsKnowTheStatus
  BY DEF ReportsInit, RoomsKnowTheStatus, Answered, NothingKnown
<1>4. UnknownIsUnheard
  BY DEF ReportsInit, UnknownIsUnheard, NothingKnown
<1> QED
  BY <1>1, <1>2, <1>3, <1>4 DEF ReportsInv

\* Steps of a handler that announces nothing leave every announcement alone.
LEMMA QuietStepKeepsInv ==
  ASSUME ReportsInv, ReportsTypeOK', NEW r \in Requests,
         changed[r] = {}, UNCHANGED <<lastKnown, changed, history>>,
         \A q \in Requests \ {r} : pc'[q] = pc[q] /\ report'[q] = report[q]
  PROVE  ReportsInv'
<1>1. UNCHANGED <<lastKnown, changed, heard, astray>>
  BY DEF history
<1>2. \A q \in Requests, p \in RouteIds, v \in Vids, f \in Fields :
        /\ Announcing(q, p, v, f)' <=> Announcing(q, p, v, f)
        /\ Announcing(q, p, v, f) => report'[q] = report[q]
  BY <1>1 DEF Announcing
<1>3. Announcements'
  BY <1>1 DEF ReportsInv, Announcements, Answered
<1>4. SoleAnnouncements'
  BY <1>1, <1>2 DEF ReportsInv, SoleAnnouncements
<1>5. UnknownIsUnheard'
  BY <1>1 DEF ReportsInv, UnknownIsUnheard
<1>6. RoomsHearOnlyNews'
  BY <1>1, <1>2 DEF ReportsInv, RoomsHearOnlyNews
<1>7. RoomsKnowTheStatus'
  BY <1>1, <1>2 DEF ReportsInv, RoomsKnowTheStatus, Answered
<1> QED
  BY <1>3, <1>4, <1>5, <1>6, <1>7 DEF ReportsInv

\* The end of a handler keeps the types.
LEMMA EndKeepsTypes ==
  ASSUME ReportsTypeOK, NEW r \in Requests, End(r)
  PROVE  /\ pc' \in [Requests -> HandlerPoints]
         /\ report' \in [Requests -> Report \cup {NoReport}]
         /\ \A q \in Requests : pc'[q] # "idle" => report'[q] \in Report
         /\ \A q \in Requests \ {r} : pc'[q] = pc[q] /\ report'[q] = report[q]
         /\ pc'[r] = "idle" /\ report'[r] = NoReport
BY DEF End, GoTo, ReportsTypeOK, HandlerPoints

\* The comparison and the update of the map, when a field has changed.
LEMMA CompareKeepsInv ==
  ASSUME ReportsInv, NEW r \in Requests, pc[r] = "saveReport", Compare(r)
  PROVE  ReportsInv'
<1> DEFINE vid     == report[r].vid
           route   == report[r].routeId
           answers == report[r].answers
           fields  == ChangedFields(answers, lastKnown[vid])
<1>1. /\ vid \in Vids /\ route \in RouteIds /\ answers \in Status /\ lastKnown[vid] \in Status
      /\ fields \subseteq Answered(answers) /\ fields \subseteq Fields
      /\ changed[r] = {}
  BY DEF ReportsInv, ReportsTypeOK, Report, ChangedFields, Answered, Announcements
<1>2. lastKnown' = [lastKnown EXCEPT ![vid] = Merge(@, answers)]
  BY DEF Compare
<1>3. /\ lastKnown' \in [Vids -> Status]
      /\ \A f \in Fields :
           lastKnown'[vid][f] = IF f \in fields THEN answers[f] ELSE lastKnown[vid][f]
      /\ \A v \in Vids : v # vid => lastKnown'[v] = lastKnown[v]
  BY <1>1, <1>2, MergeChanges DEF ReportsInv, ReportsTypeOK
<1>4. CASE fields = {}
  <2>1. End(r) /\ UNCHANGED <<changed, history>>
    BY <1>4 DEF Compare
  <2>2. lastKnown' = lastKnown
    <3>1. lastKnown'[vid] \in Status /\ \A f \in Fields : lastKnown'[vid][f] = lastKnown[vid][f]
      BY <1>1, <1>3, <1>4
    <3>2. lastKnown'[vid] = lastKnown[vid]
      BY <1>1, <3>1 DEF Status
    <3> QED
      BY <1>3, <3>2 DEF ReportsInv, ReportsTypeOK
  <2>3. ReportsTypeOK'
    BY <2>1, <2>2, EndKeepsTypes DEF ReportsInv, ReportsTypeOK, history
  <2> QED
    BY <1>1, <2>1, <2>2, <2>3, EndKeepsTypes, QuietStepKeepsInv DEF ReportsInv
<1>5. CASE fields # {}
  <2> DEFINE Here(p, v, f) == p = route /\ v = vid /\ f \in fields
             Else(p, v, f) == p # route /\ v = vid /\ f \in fields
             Others(p, v, f) == \E q \in Requests : Announcing(q, p, v, f)
  <2>1. /\ changed' = [changed EXCEPT ![r] = fields]
        /\ pc' = [pc EXCEPT ![r] = "saveNotification"]
        /\ report' = report /\ heard' = heard
        /\ RecordChange(r, fields)
    BY <1>5 DEF Compare, RecordChange, GoTo
  <2>2. \A p \in RouteIds, v \in Vids, f \in Fields :
          <<p, v, f>> \in astray' <=>
            \/ <<p, v, f>> \in astray \/ Else(p, v, f)
            \/ Here(p, v, f) /\ Others(p, v, f)
    BY <2>1 DEF RecordChange
  <2>3. astray' \subseteq RouteIds \X Vids \X Fields
    BY <1>1, <2>1 DEF RecordChange, ReportsInv, ReportsTypeOK
  <2>4. \A q \in Requests, p \in RouteIds, v \in Vids, f \in Fields :
          Announcing(q, p, v, f)' <=> IF q = r THEN Here(p, v, f)
                                      ELSE Announcing(q, p, v, f)
    BY <2>1 DEF ReportsInv, ReportsTypeOK, Announcing
  <2>5. \A p \in RouteIds, v \in Vids, f \in Fields : ~Announcing(r, p, v, f)
    BY <1>1 DEF Announcing
  <2>6. \A f \in fields : answers[f] # Skipped /\ answers[f] # lastKnown[vid][f]
    BY DEF ChangedFields, Answered
  <2>7. ReportsTypeOK'
    BY <1>1, <1>3, <2>1, <2>3 DEF ReportsInv, ReportsTypeOK, HandlerPoints
  <2>8. Announcements'
    <3> SUFFICES ASSUME NEW q \in Requests
                 PROVE  /\ changed'[q] # {} => pc'[q] = "saveNotification"
                        /\ changed'[q] \subseteq Answered(report'[q].answers)
                        /\ \A f \in changed'[q] : lastKnown'[report'[q].vid][f] # Skipped
      BY DEF Announcements, Answered
    <3>1. CASE q = r
      BY <1>1, <1>3, <2>1, <2>6, <3>1 DEF ReportsInv, ReportsTypeOK
    <3>2. CASE q # r
      <4>1. changed'[q] = changed[q] /\ pc'[q] = pc[q] /\ report'[q] = report[q]
        BY <2>1, <3>2 DEF ReportsInv, ReportsTypeOK
      <4>2. ASSUME NEW f \in changed[q]
            PROVE  lastKnown'[report[q].vid][f] # Skipped
        <5>1. f \in Fields /\ report[q].vid \in Vids /\ lastKnown[report[q].vid][f] # Skipped
          BY <4>2 DEF ReportsInv, ReportsTypeOK, Announcements, Report
        <5> QED
          BY <1>3, <2>6, <5>1
      <4> QED
        BY <4>1, <4>2 DEF ReportsInv, Announcements
    <3> QED
      BY <3>1, <3>2
  <2> HIDE DEF fields, vid, route, answers
  <2>9. SoleAnnouncements'
    <3> SUFFICES ASSUME NEW p \in RouteIds, NEW v \in Vids, NEW f \in Fields,
                        NEW q \in Requests, Announcing(q, p, v, f)', <<p, v, f>> \notin astray'
                 PROVE  /\ report'[q].answers[f] = lastKnown'[v][f]
                        /\ \A s \in Requests : Announcing(s, p, v, f)' => s = q
      BY DEF SoleAnnouncements
    <3>1. CASE v = vid /\ f \in fields
      <4>1. Here(p, v, f) /\ ~Others(p, v, f)
        BY <2>2, <3>1
      <4>2. q = r /\ \A s \in Requests : Announcing(s, p, v, f)' => s = r
        BY <2>4, <4>1
      <4> QED
        BY <1>3, <2>1, <3>1, <4>2 DEF answers
    <3>2. CASE ~(v = vid /\ f \in fields)
      <4>1. q # r /\ Announcing(q, p, v, f) /\ <<p, v, f>> \notin astray
        BY <2>2, <2>4, <3>2
      <4>2. lastKnown'[v][f] = lastKnown[v][f]
        BY <1>3, <3>2
      <4>3. \A s \in Requests : Announcing(s, p, v, f)' => Announcing(s, p, v, f)
        BY <2>4, <3>2
      <4> QED
        BY <2>1, <4>1, <4>2, <4>3 DEF ReportsInv, SoleAnnouncements
    <3> QED
      BY <3>1, <3>2
  <2>10. UnknownIsUnheard'
    <3> SUFFICES ASSUME NEW p \in RouteIds, NEW v \in Vids, NEW f \in Fields,
                        lastKnown'[v][f] = Skipped
                 PROVE  heard[p][v][f] = Skipped \/ <<p, v, f>> \in astray'
      BY <2>1 DEF UnknownIsUnheard
    <3>1. lastKnown[v][f] = Skipped
      BY <1>3, <2>6
    <3> QED
      BY <2>2, <3>1 DEF ReportsInv, UnknownIsUnheard
  <2>11. RoomsHearOnlyNews'
    <3> SUFFICES ASSUME NEW p \in RouteIds, NEW v \in Vids, NEW f \in Fields,
                        NEW q \in Requests, Announcing(q, p, v, f)', <<p, v, f>> \notin astray'
                 PROVE  heard[p][v][f] # report[q].answers[f]
      BY <2>1 DEF RoomsHearOnlyNews
    <3>1. <<p, v, f>> \notin astray
      BY <2>2
    <3>2. CASE q # r
      BY <2>4, <3>1, <3>2 DEF ReportsInv, RoomsHearOnlyNews
    <3>3. CASE q = r
      <4>1. Here(p, v, f) /\ ~Others(p, v, f)
        BY <2>2, <2>4, <3>3
      <4>2. report[q].answers = answers /\ answers[f] # Skipped /\ answers[f] # lastKnown[v][f]
        BY <2>6, <3>3, <4>1 DEF answers
      <4>3. CASE lastKnown[v][f] = Skipped
        BY <3>1, <4>2, <4>3 DEF ReportsInv, UnknownIsUnheard
      <4>4. CASE lastKnown[v][f] # Skipped
        BY <3>1, <4>1, <4>2, <4>4 DEF ReportsInv, RoomsKnowTheStatus, Answered
      <4> QED
        BY <4>3, <4>4
    <3> QED
      BY <3>2, <3>3
  <2>12. RoomsKnowTheStatus'
    <3> SUFFICES ASSUME NEW p \in RouteIds, NEW v \in Vids, NEW f \in Fields,
                        lastKnown'[v][f] # Skipped, <<p, v, f>> \notin astray'
                 PROVE  \/ heard[p][v][f] = lastKnown'[v][f]
                        \/ \E q \in Requests : /\ Announcing(q, p, v, f)'
                                               /\ report[q].answers[f] = lastKnown'[v][f]
      BY <2>1 DEF RoomsKnowTheStatus, Answered
    <3>1. CASE v = vid /\ f \in fields
      <4>1. Here(p, v, f)
        BY <2>2, <3>1
      <4> QED
        BY <1>3, <2>4, <3>1, <4>1 DEF answers
    <3>2. CASE ~(v = vid /\ f \in fields)
      <4>1. lastKnown'[v][f] = lastKnown[v][f]
        BY <1>3, <3>2
      <4>2. \A q \in Requests : Announcing(q, p, v, f) => Announcing(q, p, v, f)'
        BY <2>4, <2>5
      <4> QED
        BY <2>2, <4>1, <4>2 DEF ReportsInv, RoomsKnowTheStatus, Answered
    <3> QED
      BY <3>1, <3>2
  <2> QED
    BY <2>7, <2>8, <2>9, <2>10, <2>11, <2>12 DEF ReportsInv
<1> QED
  BY <1>4, <1>5

\* The end of saveNotification, with a push or with a failure.
LEMMA SaveNotificationKeepsInv ==
  ASSUME ReportsInv, NEW r \in Requests, SaveNotification(r)
  PROVE  ReportsInv'
<1> DEFINE vid     == report[r].vid
           route   == report[r].routeId
           answers == report[r].answers
           Mine(p, v, f) == Announcing(r, p, v, f)
           Alone(p, v, f) == \A q \in Requests \ {r} : ~Announcing(q, p, v, f)
<1>1. vid \in Vids /\ route \in RouteIds /\ answers \in Status /\ changed[r] \subseteq Fields
  BY DEF SaveNotification, ReportsInv, ReportsTypeOK, Report
<1>2. /\ End(r)
      /\ changed' = [changed EXCEPT ![r] = {}]
      /\ lastKnown' = lastKnown
  BY DEF SaveNotification
<1>3. \A q \in Requests, p \in RouteIds, v \in Vids, f \in Fields :
        /\ Announcing(q, p, v, f)' <=> q # r /\ Announcing(q, p, v, f)
        /\ q # r => report'[q] = report[q]
  BY <1>2, EndKeepsTypes DEF ReportsInv, ReportsTypeOK, Announcing
<1>4. \/ Push(r) /\ RecordPush(r)
      \/ RecordLoss(r)
  BY DEF SaveNotification
<1>5. /\ heard' \in [RouteIds -> [Vids -> Status]]
      /\ \A p \in RouteIds, v \in Vids, f \in Fields :
           ~Mine(p, v, f) => heard'[p][v][f] = heard[p][v][f]
  <2>1. CASE Push(r)
    <3> DEFINE new == [f \in Fields |-> IF f \in changed[r] THEN answers[f]
                                        ELSE heard[route][vid][f]]
    <3>1. new \in Status
      BY <1>1 DEF ReportsInv, ReportsTypeOK, Status
    <3>2. heard' = [heard EXCEPT ![route][vid] = new]
      BY <1>1, <2>1 DEF Push, ReportsInv, ReportsTypeOK
    <3>3. heard' \in [RouteIds -> [Vids -> Status]]
      BY <1>1, <3>1, <3>2 DEF ReportsInv, ReportsTypeOK
    <3>4. ASSUME NEW p \in RouteIds, NEW v \in Vids, NEW f \in Fields, ~Mine(p, v, f)
          PROVE  heard'[p][v][f] = heard[p][v][f]
      <4>1. CASE p = route /\ v = vid
        <5>1. f \notin changed[r]
          BY <3>4, <4>1 DEF Announcing
        <5> QED
          BY <1>1, <3>2, <4>1, <5>1 DEF ReportsInv, ReportsTypeOK
      <4>2. CASE ~(p = route /\ v = vid)
        BY <1>1, <3>2, <4>2 DEF ReportsInv, ReportsTypeOK
      <4> QED
        BY <4>1, <4>2
    <3> QED
      BY <3>3, <3>4
  <2>2. CASE RecordLoss(r)
    BY <2>2 DEF RecordLoss, ReportsInv, ReportsTypeOK
  <2> QED
    BY <1>4, <2>1, <2>2
<1>6. \A p \in RouteIds, v \in Vids, f \in Fields :
        Mine(p, v, f) => \/ <<p, v, f>> \in astray'
                         \/ /\ heard'[p][v][f] = answers[f]
                            /\ answers[f] = lastKnown[v][f]
                            /\ Alone(p, v, f)
  <2> SUFFICES ASSUME NEW p \in RouteIds, NEW v \in Vids, NEW f \in Fields, Mine(p, v, f),
                      <<p, v, f>> \notin astray'
               PROVE  /\ heard'[p][v][f] = answers[f]
                      /\ answers[f] = lastKnown[v][f]
                      /\ Alone(p, v, f)
    OBVIOUS
  <2>1. p = route /\ v = vid /\ f \in changed[r]
    BY DEF Announcing
  <2>2. CASE Push(r) /\ RecordPush(r)
    <3>1. heard'[p][v][f] = answers[f]
      BY <1>1, <2>1, <2>2 DEF Push, ReportsInv, ReportsTypeOK
    <3>2. CASE <<p, v, f>> \in astray
      BY <2>2, <3>1, <3>2 DEF RecordPush
    <3>3. CASE <<p, v, f>> \notin astray
      BY <3>1, <3>3 DEF ReportsInv, SoleAnnouncements
    <3> QED
      BY <3>2, <3>3
  <2>3. CASE RecordLoss(r)
    BY <2>1, <2>3 DEF RecordLoss
  <2> QED
    BY <1>4, <2>2, <2>3
<1>7. \A p \in RouteIds, v \in Vids, f \in Fields :
        ~Mine(p, v, f) => (<<p, v, f>> \in astray' <=> <<p, v, f>> \in astray)
  <2>1. CASE RecordPush(r)
    BY <2>1 DEF RecordPush
  <2>2. CASE RecordLoss(r)
    BY <2>2 DEF RecordLoss, Announcing
  <2> QED
    BY <1>4, <2>1, <2>2
<1>8. astray' \subseteq RouteIds \X Vids \X Fields
  BY <1>1, <1>4 DEF RecordPush, RecordLoss, ReportsInv, ReportsTypeOK
<1>9. ReportsTypeOK'
  BY <1>2, <1>5, <1>8, EndKeepsTypes DEF ReportsInv, ReportsTypeOK
<1> HIDE DEF vid, route, answers, Mine, Alone
<1>10. Announcements'
  <2> SUFFICES ASSUME NEW q \in Requests
               PROVE  /\ changed'[q] # {} => pc'[q] = "saveNotification"
                      /\ changed'[q] \subseteq Answered(report'[q].answers)
                      /\ \A f \in changed'[q] : lastKnown'[report'[q].vid][f] # Skipped
    BY DEF Announcements, Answered
  <2>1. CASE q = r
    BY <1>2, <2>1 DEF ReportsInv, ReportsTypeOK
  <2>2. CASE q # r
    <3>1. changed'[q] = changed[q] /\ pc'[q] = pc[q] /\ report'[q] = report[q]
      BY <1>2, <2>2, EndKeepsTypes DEF ReportsInv, ReportsTypeOK
    <3> QED
      BY <1>2, <3>1 DEF ReportsInv, Announcements
  <2> QED
    BY <2>1, <2>2
<1>11. SoleAnnouncements'
  <2> SUFFICES ASSUME NEW p \in RouteIds, NEW v \in Vids, NEW f \in Fields,
                      NEW q \in Requests, Announcing(q, p, v, f)', <<p, v, f>> \notin astray'
               PROVE  /\ report'[q].answers[f] = lastKnown'[v][f]
                      /\ \A s \in Requests : Announcing(s, p, v, f)' => s = q
    BY DEF SoleAnnouncements
  <2>1. q # r /\ Announcing(q, p, v, f) /\ report'[q] = report[q]
    BY <1>3
  <2>2. ~Mine(p, v, f)
    BY <1>6, <2>1 DEF Alone
  <2>3. <<p, v, f>> \notin astray
    BY <1>7, <2>2
  <2> QED
    BY <1>2, <1>3, <2>1, <2>3 DEF ReportsInv, SoleAnnouncements
<1>12. UnknownIsUnheard'
  <2> SUFFICES ASSUME NEW p \in RouteIds, NEW v \in Vids, NEW f \in Fields,
                      lastKnown[v][f] = Skipped
               PROVE  heard'[p][v][f] = Skipped \/ <<p, v, f>> \in astray'
    BY <1>2 DEF UnknownIsUnheard
  <2>1. ~Mine(p, v, f)
    BY DEF Mine, Announcing, ReportsInv, Announcements
  <2> QED
    BY <1>5, <1>7, <2>1 DEF ReportsInv, UnknownIsUnheard
<1>13. RoomsHearOnlyNews'
  <2> SUFFICES ASSUME NEW p \in RouteIds, NEW v \in Vids, NEW f \in Fields,
                      NEW q \in Requests, Announcing(q, p, v, f)', <<p, v, f>> \notin astray'
               PROVE  heard'[p][v][f] # report'[q].answers[f]
    BY DEF RoomsHearOnlyNews
  <2>1. q # r /\ Announcing(q, p, v, f) /\ report'[q] = report[q]
    BY <1>3
  <2>2. ~Mine(p, v, f)
    BY <1>6, <2>1 DEF Alone
  <2> QED
    BY <1>5, <1>7, <2>1, <2>2 DEF ReportsInv, RoomsHearOnlyNews
<1>14. RoomsKnowTheStatus'
  <2> SUFFICES ASSUME NEW p \in RouteIds, NEW v \in Vids, NEW f \in Fields,
                      lastKnown[v][f] # Skipped, <<p, v, f>> \notin astray'
               PROVE  \/ heard'[p][v][f] = lastKnown[v][f]
                      \/ \E q \in Requests : /\ Announcing(q, p, v, f)'
                                             /\ report'[q].answers[f] = lastKnown[v][f]
    BY <1>2 DEF RoomsKnowTheStatus, Answered
  <2>1. CASE Mine(p, v, f)
    BY <1>6, <2>1
  <2>2. CASE ~Mine(p, v, f)
    <3>1. <<p, v, f>> \notin astray /\ heard'[p][v][f] = heard[p][v][f]
      BY <1>5, <1>7, <2>2
    <3>2. \/ heard[p][v][f] = lastKnown[v][f]
          \/ \E q \in Requests : /\ Announcing(q, p, v, f)
                                 /\ report[q].answers[f] = lastKnown[v][f]
      BY <3>1 DEF ReportsInv, RoomsKnowTheStatus, Answered
    <3>3. ~Announcing(r, p, v, f)
      BY <2>2 DEF Mine
    <3> QED
      BY <1>3, <3>1, <3>2, <3>3
  <2> QED
    BY <2>1, <2>2
<1> QED
  BY <1>9, <1>10, <1>11, <1>12, <1>13, <1>14 DEF ReportsInv

\* A restart forgets what was known and what was under way.
LEMMA RestartKeepsInv ==
  ASSUME ReportsInv, Restart
  PROVE  ReportsInv'
<1>1. \A p \in RouteIds, v \in Vids, f \in Fields :
        /\ lastKnown'[v][f] = Skipped
        /\ heard'[p][v][f] = Skipped \/ <<p, v, f>> \in astray'
        /\ \A q \in Requests : ~Announcing(q, p, v, f)'
  BY DEF Restart, NothingKnown, Announcing
<1>2. ReportsTypeOK'
  BY NothingKnownIsStatus DEF Restart, ReportsInv, ReportsTypeOK, HandlerPoints
<1>3. Announcements'
  BY DEF Restart, Announcements
<1>4. SoleAnnouncements' /\ UnknownIsUnheard' /\ RoomsHearOnlyNews'
  BY <1>1 DEF SoleAnnouncements, UnknownIsUnheard, RoomsHearOnlyNews
<1>5. RoomsKnowTheStatus'
  BY <1>1 DEF RoomsKnowTheStatus, Answered
<1> QED
  BY <1>2, <1>3, <1>4, <1>5 DEF ReportsInv

\* Every step preserves the invariant.
LEMMA NextReportsInv == ReportsInv /\ [ReportsNext]_reportsVars => ReportsInv'
<1> SUFFICES ASSUME ReportsInv, [ReportsNext]_reportsVars PROVE ReportsInv'
  OBVIOUS
<1>1. ASSUME NEW r \in Requests, Receive(r) PROVE ReportsInv'
  <2>1. changed[r] = {}
    BY <1>1 DEF Receive, ReportsInv, Announcements
  <2>2. ReportsTypeOK'
    BY <1>1 DEF Receive, GoTo, ReportsInv, ReportsTypeOK, HandlerPoints, history
  <2> QED
    BY <1>1, <2>1, <2>2, QuietStepKeepsInv DEF Receive, GoTo, ReportsInv, ReportsTypeOK
<1>2. ASSUME NEW r \in Requests, Check(r) PROVE ReportsInv'
  <2>1. changed[r] = {}
    BY <1>2 DEF Check, ReportsInv, Announcements
  <2>2. CASE GoTo(r, "saveReport") /\ UNCHANGED report
    <3>1. ReportsTypeOK'
      BY <1>2, <2>2 DEF Check, GoTo, ReportsInv, ReportsTypeOK, HandlerPoints, history
    <3> QED
      BY <1>2, <2>1, <2>2, <3>1, QuietStepKeepsInv DEF Check, GoTo, ReportsInv, ReportsTypeOK
  <2>3. CASE End(r)
    <3>1. ReportsTypeOK'
      BY <1>2, <2>3, EndKeepsTypes DEF Check, ReportsInv, ReportsTypeOK, history
    <3> QED
      BY <1>2, <2>1, <2>3, <3>1, EndKeepsTypes, QuietStepKeepsInv DEF Check, ReportsInv
  <2> QED
    BY <1>2, <2>2, <2>3 DEF Check
<1>3. ASSUME NEW r \in Requests, SaveReport(r) PROVE ReportsInv'
  <2>1. changed[r] = {}
    BY <1>3 DEF SaveReport, ReportsInv, Announcements
  <2>2. CASE Compare(r)
    BY <1>3, <2>2, CompareKeepsInv DEF SaveReport
  <2>3. CASE End(r) /\ UNCHANGED <<lastKnown, changed, history>>
    <3>1. ReportsTypeOK'
      BY <2>3, EndKeepsTypes DEF ReportsInv, ReportsTypeOK, history
    <3> QED
      BY <2>1, <2>3, <3>1, EndKeepsTypes, QuietStepKeepsInv DEF ReportsInv
  <2> QED
    BY <1>3, <2>2, <2>3 DEF SaveReport
<1>4. ASSUME NEW r \in Requests, SaveNotification(r) PROVE ReportsInv'
  BY <1>4, SaveNotificationKeepsInv
<1>5. CASE Restart
  BY <1>5, RestartKeepsInv
<1>6. CASE UNCHANGED reportsVars
  BY <1>6 DEF reportsVars, ReportsInv, ReportsTypeOK, Announcements, SoleAnnouncements,
              UnknownIsUnheard, RoomsHearOnlyNews, RoomsKnowTheStatus, Announcing, Answered
<1> QED
  BY <1>1, <1>2, <1>3, <1>4, <1>5, <1>6 DEF ReportsNext, Handle

\* The inductive invariant holds in every reachable state.
THEOREM ReportsInvariance == ReportsSpec => []ReportsInv
BY InitReportsInv, NextReportsInv, PTL DEF ReportsSpec

-----------------------------------------------------------------------------
(* The properties *)

\* Type correctness of the map, of the handlers and of what the rooms heard.
THEOREM ReportsTypeCorrectness == ReportsSpec => []ReportsTypeOK
<1>1. ReportsInv => ReportsTypeOK
  BY DEF ReportsInv
<1>2. QED
  BY <1>1, ReportsInvariance, PTL

\* What is about to be pushed to a room is news there, unless the room is astray
\* (submitReport's comparison with lastKnownStatus).
THEOREM AnnouncementsAreNews == ReportsSpec => []RoomsHearOnlyNews
<1>1. ReportsInv => RoomsHearOnlyNews
  BY DEF ReportsInv
<1>2. QED
  BY <1>1, ReportsInvariance, PTL

\* A room is behind the map only while an announcement is under way, or astray.
THEOREM RoomsFollowTheMap == ReportsSpec => []RoomsKnowTheStatus
<1>1. ReportsInv => RoomsKnowTheStatus
  BY DEF ReportsInv
<1>2. QED
  BY <1>1, ReportsInvariance, PTL
=============================================================================
