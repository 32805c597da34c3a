------------------------------ MODULE SearchProofs ------------------------------
(***************************************************************************)
(* Proofs about Search and the schedule of GtfsService it searches, for    *)
(* any consistent feeds and any notifications: the types, that a loaded    *)
(* schedule is true to the feed, that its answers agree, and that the      *)
(* searches agree.                                                         *)
(*                                                                         *)
(* What is inductive speaks of the rows the parser has handled so far: the *)
(* range of a trip is tight around the times of its rows, unless the first *)
(* of them had no time.  The searches need no more than the types of the   *)
(* lists they filter, and what filters, first results and the sort of the  *)
(* stops do (AtKeepsOrder, UpToElements, StopsOfAShuttle), each by         *)
(* induction along the list (Upwards).                                     *)
(***************************************************************************)
EXTENDS Search, FiniteSetTheorems, SequenceTheorems, WellFoundedInduction, TLAPS

Directions == {"INBOUND", "OUTBOUND"}

RowsRead == feed.rows \ unread

Place(row) == <<TripRoute[row.trip], TripDirection[row.trip], row.stop>>

\* The range of t is tight around the times of its rows; or its first row had none.
AroundItsRows(t) ==
  /\ tripTimeRange[t] \in [first : Nat, last : Nat]
  /\ \E row \in RowsRead : row.trip = t /\ row.time = tripTimeRange[t].first
  /\ \E row \in RowsRead : row.trip = t /\ row.time = tripTimeRange[t].last
  /\ \A row \in RowsRead : row.trip = t /\ row.time # NaN =>
       tripTimeRange[t].first <= row.time /\ row.time <= tripTimeRange[t].last

WithoutTimes(t) ==
  /\ tripTimeRange[t] = [first |-> NaN, last |-> NaN]
  /\ \E row \in RowsRead : row.trip = t /\ row.time = NaN

Tight(t) == AroundItsRows(t) \/ WithoutTimes(t)

NothingRead ==
  stage \in {"idle", "downloading"} => DOMAIN tripTimeRange = {} /\ stopIds = {}

RowsAreRecorded ==
  stage \in {"streaming", "loaded"} =>
    /\ parsed = 5 /\ operatingDays = ComputeOperatingDays(feed.calendar)
    /\ DOMAIN tripTimeRange = {row.trip : row \in RowsRead}
    /\ \A t \in DOMAIN tripTimeRange : Tight(t)
    /\ stopIds = {Place(row) : row \in RowsRead}

LoadIsComplete ==
  stage = "loaded" =>
    /\ routeDirectionStops = stopIds
    /\ unzip = "complete" => unread = {}

GtfsInv == GtfsTypeOK /\ NothingRead /\ RowsAreRecorded /\ LoadIsComplete

NotificationsOK ==
  notifications \in Seq(Notifications) /\ Len(notifications) <= MaxNotifications

IInv == GtfsInv /\ NotificationsOK

-----------------------------------------------------------------------------
(* The feed *)

\* The rows of a published feed name its trips and stops.
LEMMA RowsOfTheFeed ==
  ASSUME feed \in Feeds
  PROVE  /\ IsFiniteSet(feed.rows)
         /\ \A row \in feed.rows : row.trip \in Trips /\ row.time \in Nat \cup {NaN} /\ row.stop \in Stops
         /\ feed.calendar \in [Services -> [days : SUBSET Weekdays, start : Int, end : Int]]
<1>1. feed.rows \subseteq [trip : Trips, time : Nat \cup {NaN}, stop : Stops]
  BY FeedsAssumption
<1>2. QED
  BY <1>1, FeedsAssumption

\* A stop is placed on a route, in a direction.
LEMMA PlacesOfTheFeed ==
  ASSUME feed \in Feeds, NEW row \in feed.rows
  PROVE  Place(row) \in Routes \X Directions \X Stops
BY RowsOfTheFeed, GtfsAssumption DEF Place, Directions

\* computeOperatingDays gives every route days of the week.
LEMMA OperatingDaysType ==
  ASSUME feed \in Feeds
  PROVE  ComputeOperatingDays(feed.calendar) \in [Routes -> SUBSET Weekdays]
<1>1. \A t \in Trips : feed.calendar[TripService[t]].days \subseteq Weekdays
  <2>1. TAKE t \in Trips
  <2>2. feed.calendar[TripService[t]] \in [days : SUBSET Weekdays, start : Int, end : Int]
    BY RowsOfTheFeed, GtfsAssumption
  <2>3. QED
    BY <2>2
<1>2. ASSUME NEW r \in Routes
      PROVE  UNION {feed.calendar[TripService[t]].days : t \in {u \in Trips : TripRoute[u] = r}}
               \in SUBSET Weekdays
  BY <1>1
<1>3. QED
  BY <1>2 DEF ComputeOperatingDays

-----------------------------------------------------------------------------
(* The inductive invariant *)

\* Nothing is loaded at first.
LEMMA InitInv == Init => IInv
<1> SUFFICES ASSUME Init PROVE IInv
  OBVIOUS
<1> USE DEF Init, GtfsInit
<1>1. GtfsTypeOK
  BY DEF GtfsTypeOK
<1>2. NothingRead /\ RowsAreRecorded /\ LoadIsComplete
  BY DEF NothingRead, RowsAreRecorded, LoadIsComplete
<1>3. NotificationsOK
  BY SearchAssumption DEF NotificationsOK
<1>4. QED
  BY <1>1, <1>2, <1>3 DEF IInv, GtfsInv

\* Up to the first row nothing is recorded.
LEMMA ParsingKeepsInv ==
  ASSUME GtfsInv, Load \/ DownloadFails \/ ParseFails
  PROVE  GtfsInv'
BY DEF GtfsInv, GtfsTypeOK, NothingRead, RowsAreRecorded, LoadIsComplete,
       Load, DownloadFails, ParseFails

\* The small files are parsed before any row is read.
LEMMA ParsedKeepsInv ==
  ASSUME GtfsInv, ParseStaticFiles
  PROVE  GtfsInv'
<1> USE DEF GtfsInv, ParseStaticFiles
<1>1. GtfsTypeOK'
  <2>1. operatingDays' \in [Routes -> SUBSET Weekdays]
    BY OperatingDaysType DEF GtfsTypeOK
  <2>2. QED
    BY <2>1 DEF GtfsTypeOK
<1>2. RowsRead' = {}
  BY DEF RowsRead
<1>3. DOMAIN tripTimeRange = {} /\ stopIds = {}
  BY DEF NothingRead
<1>4. RowsAreRecorded'
  BY <1>2, <1>3 DEF RowsAreRecorded, ComputeOperatingDays
<1>5. QED
  BY <1>1, <1>4 DEF NothingRead, LoadIsComplete

\* A row widens the range of its trip and of no other.
LEMMA ReadRowKeepsInv ==
  ASSUME GtfsInv, NEW row \in unread, ReadRow(row)
  PROVE  GtfsInv'
<1> USE DEF GtfsInv
<1>1. feed \in Feeds /\ unread \subseteq feed.rows /\ row \in feed.rows
  BY DEF GtfsTypeOK
<1>2. row.trip \in Trips /\ row.time \in Nat \cup {NaN} /\ row.stop \in Stops /\ NaN \notin Int
  BY <1>1, RowsOfTheFeed, GtfsAssumption
<1>3. RowsRead' = RowsRead \cup {row}
  BY <1>1 DEF ReadRow, RowsRead
<1>4. /\ DOMAIN tripTimeRange = {x.trip : x \in RowsRead}
      /\ \A t \in DOMAIN tripTimeRange : Tight(t)
      /\ stopIds = {Place(x) : x \in RowsRead}
      /\ parsed = 5 /\ operatingDays = ComputeOperatingDays(feed.calendar)
  BY DEF ReadRow, RowsAreRecorded
<1>5. \A x \in RowsRead : x.time \in Nat \cup {NaN}
  BY <1>1, RowsOfTheFeed DEF RowsRead
<1> DEFINE Old(t) == tripTimeRange[t]
           new == tripTimeRange'[row.trip]
<1>6. /\ DOMAIN tripTimeRange' = DOMAIN tripTimeRange \cup {row.trip}
      /\ \A t \in DOMAIN tripTimeRange : t # row.trip => tripTimeRange'[t] = tripTimeRange[t]
      /\ row.trip \in DOMAIN tripTimeRange => new = Widened(tripTimeRange[row.trip], row.time)
      /\ row.trip \notin DOMAIN tripTimeRange => new = [first |-> row.time, last |-> row.time]
  BY DEF ReadRow
<1>7. ASSUME NEW t \in DOMAIN tripTimeRange'
      PROVE  Tight(t)'
  <2>1. CASE t # row.trip
    BY <1>3, <1>4, <1>6, <1>7, <2>1 DEF Tight, AroundItsRows, WithoutTimes
  <2>2. CASE t = row.trip /\ t \notin DOMAIN tripTimeRange
    <3>1. \A x \in RowsRead : x.trip # t
      BY <1>4, <2>2
    <3>2. CASE row.time = NaN
      BY <1>3, <1>6, <2>2, <3>2 DEF Tight, WithoutTimes
    <3>3. CASE row.time \in Nat
      BY <1>3, <1>6, <2>2, <3>1, <3>3 DEF Tight, AroundItsRows
    <3>4. QED
      BY <1>2, <3>2, <3>3
  <2>3. CASE t = row.trip /\ t \in DOMAIN tripTimeRange /\ WithoutTimes(t)
    <3>1. new = [first |-> NaN, last |-> NaN]
      BY <1>6, <2>3 DEF Widened, Below, WithoutTimes
    <3>2. QED
      BY <1>3, <2>3, <3>1 DEF Tight, WithoutTimes
  <2>4. CASE t = row.trip /\ t \in DOMAIN tripTimeRange /\ AroundItsRows(t)
    <3>1. Old(t).first \in Nat /\ Old(t).last \in Nat /\ Old(t) = [first |-> Old(t).first, last |-> Old(t).last]
      BY <2>4 DEF AroundItsRows
    <3>2. CASE row.time = NaN
      <4>1. new = Old(t)
        BY <1>6, <2>4, <3>1, <3>2 DEF Widened, Below
      <4>2. QED
        BY <1>3, <2>4, <3>2, <4>1 DEF Tight, AroundItsRows
    <3>3. CASE row.time \in Nat
      <4>1. /\ new.first = IF row.time < Old(t).first THEN row.time ELSE Old(t).first
            /\ new.last  = IF row.time > Old(t).last THEN row.time ELSE Old(t).last
            /\ new = [first |-> new.first, last |-> new.last]
        BY <1>2, <1>6, <2>4, <3>1, <3>3 DEF Widened, Below
      <4>2. new \in [first : Nat, last : Nat]
        BY <3>1, <3>3, <4>1
      <4>3. \E x \in RowsRead' : x.trip = t /\ x.time = new.first
        BY <1>3, <2>4, <4>1 DEF AroundItsRows
      <4>4. \E x \in RowsRead' : x.trip = t /\ x.time = new.last
        BY <1>3, <2>4, <4>1 DEF AroundItsRows
      <4>5. \A x \in RowsRead' : x.trip = t /\ x.time # NaN => new.first <= x.time /\ x.time <= new.last
        BY <1>2, <1>3, <1>5, <2>4, <3>1, <3>3, <4>1 DEF AroundItsRows
      <4>6. QED
        BY <2>4, <4>2, <4>3, <4>4, <4>5 DEF Tight, AroundItsRows
    <3>4. QED
      BY <1>2, <3>2, <3>3
  <2>5. QED
    BY <1>4, <2>1, <2>2, <2>3, <2>4 DEF Tight
<1>8. DOMAIN tripTimeRange' = {x.trip : x \in RowsRead'}
  BY <1>3, <1>4, <1>6
<1>9. stopIds' = {Place(x) : x \in RowsRead'}
  BY <1>3, <1>4 DEF ReadRow, Place
<1>10. RowsAreRecorded'
  <2>1. parsed' = 5 /\ operatingDays' = ComputeOperatingDays(feed'.calendar)
    BY <1>4 DEF ReadRow
  <2>2. QED
    BY <1>7, <1>8, <1>9, <2>1 DEF RowsAreRecorded
<1>11. GtfsTypeOK'
  <2>1. DOMAIN tripTimeRange' \subseteq Trips
    BY <1>2, <1>6 DEF GtfsTypeOK
  <2>2. ASSUME NEW t \in DOMAIN tripTimeRange'
        PROVE  LET range == tripTimeRange'[t] IN
                 IF Timed(range) THEN range.first <= range.last ELSE range.last = NaN
    <3>1. Tight(t)'
      BY <1>7
    <3>2. CASE WithoutTimes(t)'
      BY <3>2 DEF WithoutTimes, Timed
    <3>3. CASE AroundItsRows(t)'
      <4>1. PICK x \in RowsRead' : x.trip = t /\ x.time = tripTimeRange'[t].first
        BY <3>3 DEF AroundItsRows
      <4>2. x.time # NaN /\ x.time <= tripTimeRange'[t].last
        BY <1>2, <3>3, <4>1 DEF AroundItsRows
      <4>3. QED
        BY <4>1, <4>2 DEF Timed
    <3>4. QED
      BY <3>1, <3>2, <3>3 DEF Tight
  <2>3. QED
    BY <2>1, <2>2 DEF GtfsTypeOK, ReadRow
<1>12. QED
  BY <1>10, <1>11 DEF NothingRead, LoadIsComplete, ReadRow

\* The end of the process and that of the load touch no row.
LEMMA EndsKeepInv ==
  ASSUME GtfsInv, UnzipEnds \/ StreamFails \/ ParserEnds
  PROVE  GtfsInv'
<1>1. CASE UnzipEnds \/ StreamFails
  <2>1. GtfsTypeOK' /\ NothingRead' /\ LoadIsComplete'
    BY <1>1 DEF GtfsInv, GtfsTypeOK, NothingRead, LoadIsComplete, UnzipEnds, StreamFails
  <2>2. RowsAreRecorded'
    <3>1. stage = "streaming" /\ UNCHANGED <<feed, parsed, unread, operatingDays, tripTimeRange, stopIds>>
      BY <1>1 DEF UnzipEnds, StreamFails
    <3>2. RowsRead' = RowsRead
      BY <3>1 DEF RowsRead
    <3>3. \A t \in DOMAIN tripTimeRange : Tight(t) => Tight(t)'
      BY <3>1, <3>2 DEF Tight, AroundItsRows, WithoutTimes
    <3>4. QED
      BY <3>1, <3>2, <3>3 DEF GtfsInv, RowsAreRecorded, ComputeOperatingDays, Place
  <2>3. QED
    BY <2>1, <2>2 DEF GtfsInv
<1>2. CASE ParserEnds
  <2>1. routeDirectionStops' \subseteq stopIds
    BY <1>2 DEF ParserEnds
  <2>2. stopIds \subseteq Routes \X Directions \X Stops
    BY <1>2, PlacesOfTheFeed DEF ParserEnds, GtfsInv, GtfsTypeOK, RowsAreRecorded, RowsRead
  <2>3. routeDirectionStops' = stopIds
    <3>1. StopMap = Stops
      BY <1>2 DEF ParserEnds, GtfsInv, RowsAreRecorded, StopMap
    <3>2. QED
      BY <1>2, <2>2, <3>1 DEF ParserEnds
  <2>4. GtfsTypeOK'
    BY <1>2, <2>1, <2>2 DEF ParserEnds, GtfsInv, GtfsTypeOK, Directions
  <2>5. LoadIsComplete'
    BY <1>2, <2>3 DEF ParserEnds, LoadIsComplete
  <2>6. RowsAreRecorded' /\ NothingRead'
    BY <1>2 DEF GtfsInv, NothingRead, RowsAreRecorded, Tight, AroundItsRows, WithoutTimes,
                RowsRead, ParserEnds, ComputeOperatingDays, Place
  <2>7. QED
    BY <2>4, <2>5, <2>6 DEF GtfsInv
<1>3. QED
  BY <1>1, <1>2

\* Loading goes on while notifications come and expire.
LEMMA NextInv == IInv /\ [Next]_vars => IInv'
<1> SUFFICES ASSUME IInv, [Next]_vars PROVE IInv'
  OBVIOUS
<1>1. CASE GtfsNext /\ UNCHANGED notifications
  <2>1. GtfsInv'
    BY <1>1, ParsingKeepsInv, ParsedKeepsInv, ReadRowKeepsInv, EndsKeepInv
       DEF IInv, GtfsNext
  <2>2. QED
    BY <1>1, <2>1 DEF IInv, NotificationsOK
<1>2. CASE UNCHANGED gtfsVars /\ NotificationsOK'
  BY <1>2 DEF IInv, gtfsVars, GtfsInv, GtfsTypeOK, NothingRead, RowsAreRecorded, LoadIsComplete,
              Tight, AroundItsRows, WithoutTimes, RowsRead, ComputeOperatingDays, Place, Timed
<1>3. ASSUME NEW n \in Notifications, Post(n)
      PROVE  NotificationsOK'
  BY <1>3, SearchAssumption DEF Post, IInv, NotificationsOK
<1>4. CASE Expire
  <2>1. notifications \in Seq(Notifications) /\ notifications # <<>>
    BY <1>4 DEF Expire, IInv, NotificationsOK
  <2> DEFINE len == Len(notifications)
  <2>2. len \in Nat \ {0} /\ \A i \in 1..(len - 1) : notifications[i] \in Notifications
    BY <2>1
  <2>3. SubSeq(notifications, 1, len - 1) \in Seq(Notifications)
        /\ Len(SubSeq(notifications, 1, len - 1)) = IF 1 <= len - 1 THEN (len - 1) - 1 + 1 ELSE 0
    <3> HIDE DEF len
    <3>1. len - 1 \in Int
      BY <2>2
    <3>2. QED
      BY <2>2, <3>1, SubSeqProperties
  <2>4. NotificationsOK'
    BY <1>4, <2>2, <2>3, SearchAssumption DEF Expire, Front, IInv, NotificationsOK
  <2>5. QED
    BY <1>2, <1>4, <2>4 DEF Expire
<1>5. CASE \E n \in Notifications : Post(n)
  BY <1>2, <1>3, <1>5 DEF Post
<1>6. CASE UNCHANGED vars
  BY <1>2, <1>6 DEF vars, IInv, NotificationsOK
<1>7. QED
  BY <1>1, <1>4, <1>5, <1>6 DEF Next

\* Every reachable state satisfies the inductive invariant.
THEOREM Invariance == Spec => []IInv
BY InitInv, NextInv, PTL DEF Spec

\* Type correctness of the schedule and of the notifications.
THEOREM TypeCorrectness == Spec => []TypeOK
<1>1. IInv => TypeOK
  BY DEF IInv, GtfsInv, NotificationsOK, TypeOK
<1>2. QED
  BY <1>1, Invariance, PTL

-----------------------------------------------------------------------------
(* Loaded schedules.  First the least and the greatest of some times.      *)

\* Any numbers have a least one.
LEMMA MinOfNaturals ==
  ASSUME NEW S, S \subseteq Nat, S # {}
  PROVE  Min(S) \in S /\ \A y \in S : Min(S) <= y
<1> DEFINE R == OpToRel(<, Nat)
<1>1. \E x \in S : \A y \in S : <<y, x>> \notin R
  <2>1. IsWellFoundedOn(R, Nat)
    BY NatLessThanWellFounded
  <2> HIDE DEF R
  <2>2. QED
    BY <2>1, WFMin
<1>2. \A x, y \in S : y < x => <<y, x>> \in R
  BY DEF OpToRel
<1> HIDE DEF R
<1>3. PICK x \in S : \A y \in S : ~(y < x)
  BY <1>1, <1>2
<1>4. \A y \in S : x <= y
  BY <1>3
<1>5. QED
  BY <1>4 DEF Min

\* The greatest element is found by taking elements away: a smallest subset
\* without one would be that of fewer elements and one more.
LEMMA MaxOfNaturals ==
  ASSUME NEW S, S \subseteq Nat, IsFiniteSet(S), S # {}
  PROVE  Max(S) \in S /\ \A y \in S : y <= Max(S)
<1> DEFINE HasMax(T) == \E x \in T : \A y \in T : y <= x
           Without == {T \in SUBSET S : T # {} /\ ~HasMax(T)}
           sizes == {Cardinality(T) : T \in Without}
<1>1. \A T \in SUBSET S : IsFiniteSet(T) /\ Cardinality(T) \in Nat
  BY FS_Subset, FS_CardinalityType
<1>2. Without = {}
  <2> SUFFICES ASSUME Without # {} PROVE FALSE
    OBVIOUS
  <2>1. sizes \subseteq Nat /\ sizes # {}
    BY <1>1
  <2>2. PICK T \in Without : Cardinality(T) = Min(sizes)
    <3> HIDE DEF Without
    <3>1. Min(sizes) \in sizes
      BY <2>1, MinOfNaturals
    <3>2. QED
      BY <3>1
  <2>3. \A U \in Without : Cardinality(T) <= Cardinality(U)
    <3> HIDE DEF Without
    <3>1. \A n \in sizes : Min(sizes) <= n
      <4> HIDE DEF sizes
      <4>1. QED
        BY <2>1, MinOfNaturals
    <3>2. QED
      BY <2>2, <3>1
  <2>4. PICK x \in T : TRUE
    OBVIOUS
  <2> DEFINE U == T \ {x}
  <2>5. Cardinality(U) = Cardinality(T) - 1
    BY <1>1, <2>4, FS_RemoveElement
  <2>6. U \notin Without
    <3> HIDE DEF U
    <3>1. Cardinality(T) \in Nat
      BY <1>1
    <3>2. QED
      BY <2>3, <2>5, <3>1
  <2>7. CASE U = {}
    <3>1. T = {x} /\ x <= x
      BY <2>4, <2>7
    <3>2. HasMax(T)
      BY <3>1
    <3>3. QED
      BY <3>2
  <2>8. CASE HasMax(U)
    <3>1. PICK m \in U : \A y \in U : y <= m
      BY <2>8
    <3>2. m \in Nat /\ x \in Nat /\ T \subseteq Nat
      BY <2>4, <3>1
    <3>3. CASE x <= m
      BY <2>4, <3>1, <3>2, <3>3
    <3>4. CASE m < x
      <4>1. \A y \in T : y <= x
        BY <3>1, <3>2, <3>4
      <4>2. QED
        BY <2>4, <4>1
    <3>5. QED
      BY <3>2, <3>3, <3>4
  <2>9. QED
    BY <2>6, <2>7, <2>8
<1>3. PICK x \in S : \A y \in S : y <= x
  BY <1>2
<1>4. \A y \in S : x >= y
  BY <1>3
<1>5. QED
  BY <1>4 DEF Max

\* An element that none is below is the least one, and likewise the greatest.
LEMMA ExtremesAreUnique ==
  ASSUME NEW S, S \subseteq Nat, NEW m \in S
  PROVE  /\ (\A y \in S : m <= y) => Min(S) = m
         /\ (\A y \in S : y <= m) => Max(S) = m
<1>1. ASSUME \A y \in S : m <= y
      PROVE  Min(S) = m
  <2>1. Min(S) \in S /\ Min(S) <= m
    BY MinOfNaturals
  <2>2. m <= Min(S)
    BY <1>1, <2>1
  <2>3. m \in Nat /\ Min(S) \in Nat
    BY <2>1
  <2>4. QED
    BY <2>1, <2>2, <2>3
<1>2. ASSUME \A y \in S : y <= m
      PROVE  Max(S) = m
  <2> DEFINE IsMax(x) == \A y \in S : x >= y
  <2>1. IsMax(m)
    BY <1>2
  <2>2. \A x \in S : IsMax(x) => x = m
    BY <1>2
  <2>3. Max(S) = CHOOSE x \in S : IsMax(x)
    BY DEF Max
  <2> HIDE DEF IsMax
  <2>4. QED
    BY <2>1, <2>2, <2>3
<1>3. QED
  BY <1>1, <1>2

\* The times of a trip's rows are numbers, finitely many.
LEMMA TimesOfATrip ==
  ASSUME feed \in Feeds, NEW t
  PROVE  TimesOfTrip(t) \subseteq Nat /\ IsFiniteSet(TimesOfTrip(t))
<1>1. TimesOfTrip(t) \subseteq Nat
  BY RowsOfTheFeed DEF TimesOfTrip, RowsOfTrip
<1> DEFINE timed == {row \in RowsOfTrip(t) : row.time # NaN}
<1>2. IsFiniteSet(timed)
  <2>1. timed \in SUBSET feed.rows
    BY DEF RowsOfTrip
  <2>2. QED
    BY <2>1, RowsOfTheFeed, FS_Subset
<1> DEFINE time == [row \in timed |-> row.time]
<1>3. time \in Surjection(timed, TimesOfTrip(t))
  BY DEF Surjection, TimesOfTrip
<1> HIDE DEF time, timed
<1>4. QED
  BY <1>1, <1>2, <1>3, FS_Surjection

\* A trip in the map has rows; one without a range had a row without a time.
LEMMA TripsInTheMap ==
  ASSUME GtfsInv, IsLoaded, NEW t \in DOMAIN tripTimeRange
  PROVE  /\ t \in Trips /\ NaN \notin Int
         /\ Timed(tripTimeRange[t]) => AroundItsRows(t)
         /\ ~Timed(tripTimeRange[t]) => Untimed(t)
<1>1. t \in Trips /\ Tight(t)
  BY DEF GtfsInv, GtfsTypeOK, RowsAreRecorded, IsLoaded
<1>2. WithoutTimes(t) => ~Timed(tripTimeRange[t]) /\ Untimed(t)
  BY DEF WithoutTimes, Timed, Untimed, RowsOfTrip, RowsRead
<1>3. AroundItsRows(t) => Timed(tripTimeRange[t])
  BY GtfsAssumption DEF AroundItsRows, Timed
<1>4. QED
  BY <1>1, <1>2, <1>3, GtfsAssumption DEF Tight

\* A range that is known lies within the times of the trip, and is all of them
\* once every row was read.
LEMMA RangesAreOfTheFeed ==
  ASSUME GtfsInv, IsLoaded, NEW t \in DOMAIN tripTimeRange, Timed(tripTimeRange[t])
  PROVE  /\ tripTimeRange[t].first \in Nat /\ tripTimeRange[t].last \in Nat
         /\ t \in Trips /\ TimesOfTrip(t) # {}
         /\ Min(TimesOfTrip(t)) <= tripTimeRange[t].first
         /\ tripTimeRange[t].last <= Max(TimesOfTrip(t))
         /\ Min(TimesOfTrip(t)) \in Nat /\ Max(TimesOfTrip(t)) \in Nat
         /\ unread = {} =>
              tripTimeRange[t] = [first |-> Min(TimesOfTrip(t)), last |-> Max(TimesOfTrip(t))]
<1> DEFINE range == tripTimeRange[t]
           times == TimesOfTrip(t)
<1>1. feed \in Feeds /\ t \in Trips
  BY DEF GtfsInv, GtfsTypeOK
<1>2. AroundItsRows(t) /\ NaN \notin Int
  BY TripsInTheMap
<1>3. range.first \in times /\ range.last \in times
  BY <1>2 DEF AroundItsRows, RowsRead, TimesOfTrip, RowsOfTrip
<1>4. times \subseteq Nat /\ IsFiniteSet(times)
  BY <1>1, TimesOfATrip
<1>5. /\ Min(times) \in times /\ Min(times) <= range.first
      /\ Max(times) \in times /\ range.last <= Max(times)
  <2> HIDE DEF times
  <2>1. QED
    BY <1>3, <1>4, MinOfNaturals, MaxOfNaturals
<1>6. ASSUME unread = {}
      PROVE  range = [first |-> Min(times), last |-> Max(times)]
  <2>1. \A m \in times : range.first <= m /\ m <= range.last
    BY <1>2, <1>6 DEF AroundItsRows, RowsRead, TimesOfTrip, RowsOfTrip
  <2>2. Min(times) = range.first /\ Max(times) = range.last
    <3> HIDE DEF times
    <3>1. QED
      BY <1>3, <1>4, <2>1, ExtremesAreUnique
  <2>3. QED
    BY <1>2, <2>2 DEF AroundItsRows
<1>7. QED
  BY <1>1, <1>2, <1>3, <1>4, <1>5, <1>6 DEF AroundItsRows

\* What the calendar and its exceptions say of a date.
LEMMA ActiveServicesRun ==
  ASSUME NEW d, NEW s \in Services, feed \in Feeds, d \in Dates
  PROVE  s \in GetActiveServiceIds(d) <=> ServiceRuns(s, d)
<1>1. /\ feed.calendar[s] \in [days : SUBSET Weekdays, start : Int, end : Int] /\ d \in Int
  BY RowsOfTheFeed, GtfsAssumption
<1>2. d \in feed.calendar[s].start..feed.calendar[s].end <=>
        feed.calendar[s].start <= d /\ d <= feed.calendar[s].end
  BY <1>1
<1>3. QED
  BY <1>2 DEF GetActiveServiceIds, ServiceRuns

\* The rows of a complete stream are in the maps.
LEMMA CompleteScheduleMatches ==
  ASSUME GtfsInv
  PROVE  LoadedMatchesFeed
<1> SUFFICES ASSUME IsLoaded, unzip = "complete"
             PROVE  /\ \A t \in Trips : RowsOfTrip(t) # {} =>
                         /\ t \in DOMAIN tripTimeRange
                         /\ \/ Untimed(t) /\ ~Timed(tripTimeRange[t])
                            \/ tripTimeRange[t] = [first |-> Min(TimesOfTrip(t)), last |-> Max(TimesOfTrip(t))]
                    /\ routeDirectionStops = {Place(row) : row \in feed.rows}
                    /\ \A s \in Stops :
                         GetAllStops[s] = {TripRoute[row.trip] : row \in {x \in feed.rows : x.stop = s}}
  BY DEF LoadedMatchesFeed, Place
<1>1. feed \in Feeds /\ unread = {} /\ RowsRead = feed.rows
  BY DEF GtfsInv, GtfsTypeOK, LoadIsComplete, IsLoaded, RowsRead
<1>2. ASSUME NEW t \in Trips, RowsOfTrip(t) # {}
      PROVE  t \in DOMAIN tripTimeRange
  BY <1>1, <1>2 DEF GtfsInv, RowsAreRecorded, IsLoaded, RowsOfTrip
<1>3. routeDirectionStops = {Place(row) : row \in feed.rows}
  BY <1>1 DEF GtfsInv, RowsAreRecorded, LoadIsComplete, IsLoaded
<1>4. ASSUME NEW s \in Stops
      PROVE  GetAllStops[s] = {TripRoute[row.trip] : row \in {x \in feed.rows : x.stop = s}}
  <2>1. StopMap = Stops
    BY DEF StopMap, GtfsInv, RowsAreRecorded, IsLoaded
  <2>2. GetAllStops[s] = {r \in Routes : s \in GetStops(r)}
    BY <2>1 DEF GetAllStops
  <2>3. ASSUME NEW r \in Routes
        PROVE  s \in GetStops(r) <=> \E row \in feed.rows : TripRoute[row.trip] = r /\ row.stop = s
    <3>1. s \in GetStops(r) <=> \E dir \in {"INBOUND", "OUTBOUND"} : <<r, dir, s>> \in routeDirectionStops
      BY DEF GetStops, GetStopsByDirection
    <3>2. \A row \in feed.rows : TripDirection[row.trip] \in {"INBOUND", "OUTBOUND"}
      BY <1>1, RowsOfTheFeed, GtfsAssumption
    <3>3. QED
      BY <1>3, <3>1, <3>2 DEF Place
  <2>4. \A row \in feed.rows : TripRoute[row.trip] \in Routes
    BY <1>1, RowsOfTheFeed, GtfsAssumption
  <2>5. QED
    BY <2>2, <2>3, <2>4
<1>5. QED
  BY <1>1, <1>2, <1>3, <1>4, TripsInTheMap, RangesAreOfTheFeed

\* What the ranges say runs at a moment runs there, having left that day.
LEMMA KnownTripsRun ==
  ASSUME GtfsInv, IsLoaded, NEW d \in Dates, NEW time \in Clock, NEW t \in DOMAIN tripTimeRange,
         Timed(tripTimeRange[t]), tripTimeRange[t].first <= time, time <= tripTimeRange[t].last,
         TripService[t] \in GetActiveServiceIds(d)
  PROVE  Running(t, d, time)
<1>1. feed \in Feeds /\ t \in Trips /\ TripService[t] \in Services
  BY RangesAreOfTheFeed, GtfsAssumption DEF GtfsInv, GtfsTypeOK
<1>2. ServiceRuns(TripService[t], d)
  BY <1>1, ActiveServicesRun
<1>3. (d - d) * DayLength + time = time /\ time \in Nat
  BY GtfsAssumption DEF Clock
<1>4. Min(TimesOfTrip(t)) <= time /\ time <= Max(TimesOfTrip(t))
  <2>1. /\ tripTimeRange[t].first \in Nat /\ tripTimeRange[t].last \in Nat
        /\ Min(TimesOfTrip(t)) \in Nat /\ Max(TimesOfTrip(t)) \in Nat
        /\ Min(TimesOfTrip(t)) <= tripTimeRange[t].first
        /\ tripTimeRange[t].last <= Max(TimesOfTrip(t))
    BY RangesAreOfTheFeed
  <2>2. QED
    BY <1>3, <2>1
<1>5. QED
  BY <1>2, <1>3, <1>4, RangesAreOfTheFeed DEF Running

\* filterRoutesByDateTime, in terms of the feed.
LEMMA LoadedSchedulesRun ==
  ASSUME GtfsInv
  PROVE  RunningRoutesRun
<1> SUFFICES ASSUME IsLoaded, NEW d \in Dates, NEW time \in Clock
             PROVE  LET running == {t \in Trips : Running(t, d, time)}
                    IN /\ FilterRoutesByDateTime(d, time) \subseteq RoutesOf(running)
                       /\ unzip = "complete" =>
                            \A t \in running :
                              \/ Untimed(t) \/ TripRoute[t] \in FilterRoutesByDateTime(d, time)
                              \/ \A day \in Dates : ServiceRuns(TripService[t], day) =>
                                   (d # day \/ time < Min(TimesOfTrip(t)) \/ Max(TimesOfTrip(t)) < time)
  BY DEF RunningRoutesRun
<1> DEFINE running == {t \in Trips : Running(t, d, time)}
           known == {t \in DOMAIN tripTimeRange :
                       /\ Timed(tripTimeRange[t])
                       /\ tripTimeRange[t].first <= time /\ time <= tripTimeRange[t].last
                       /\ TripService[t] \in GetActiveServiceIds(d)}
<1>1. FilterRoutesByDateTime(d, time) = RoutesOf(known)
  BY DEF FilterRoutesByDateTime
<1>2. known \subseteq running
  BY KnownTripsRun, RangesAreOfTheFeed
<1>3. FilterRoutesByDateTime(d, time) \subseteq RoutesOf(running)
  <2> HIDE DEF known, running
  <2>1. QED
    BY <1>1, <1>2 DEF RoutesOf
<1>4. ASSUME unzip = "complete", NEW t \in running, ServiceRuns(TripService[t], d),
             ~Untimed(t), ~(time < Min(TimesOfTrip(t))), ~(Max(TimesOfTrip(t)) < time)
      PROVE  TripRoute[t] \in FilterRoutesByDateTime(d, time)
  <2>1. t \in Trips /\ RowsOfTrip(t) # {} /\ feed \in Feeds
    BY DEF GtfsInv, GtfsTypeOK, Running, TimesOfTrip
  <2>2. /\ t \in DOMAIN tripTimeRange
        /\ tripTimeRange[t] = [first |-> Min(TimesOfTrip(t)), last |-> Max(TimesOfTrip(t))]
        /\ Timed(tripTimeRange[t])
    BY <1>4, <2>1, CompleteScheduleMatches, TripsInTheMap DEF LoadedMatchesFeed
  <2>3. Min(TimesOfTrip(t)) \in Nat /\ Max(TimesOfTrip(t)) \in Nat /\ time \in Nat
    BY <2>2, RangesAreOfTheFeed, GtfsAssumption DEF Clock
  <2>4. TripService[t] \in GetActiveServiceIds(d)
    BY <1>4, <2>1, ActiveServicesRun, GtfsAssumption
  <2>5. t \in known
    BY <1>4, <2>2, <2>3, <2>4
  <2>6. TripRoute[t] \in RouteMap
    BY <2>1, GtfsAssumption DEF RouteMap, GtfsInv, RowsAreRecorded, IsLoaded
  <2>7. QED
    BY <1>1, <2>5, <2>6 DEF RoutesOf
<1>5. ASSUME unzip = "complete", NEW t \in running
      PROVE  \/ Untimed(t) \/ TripRoute[t] \in FilterRoutesByDateTime(d, time)
             \/ \A day \in Dates : ServiceRuns(TripService[t], day) =>
                  (d # day \/ time < Min(TimesOfTrip(t)) \/ Max(TimesOfTrip(t)) < time)
  BY <1>4, <1>5
<1>6. QED
  BY <1>3, <1>5

\* For every consistent feed and any order of its rows: a loaded schedule holds
\* what the feed says, and what it says is running now is running.
THEOREM LoadedSchedule == Spec => []LoadedScheduleIsTrue
<1>1. IInv => LoadedScheduleIsTrue
  BY CompleteScheduleMatches, LoadedSchedulesRun DEF IInv, LoadedScheduleIsTrue
<1>2. QED
  BY <1>1, Invariance, PTL

-----------------------------------------------------------------------------
(* What the endpoints answer *)

\* A route that runs on a date has its weekday, or a service added for the date.
LEMMA RoutesOfADate ==
  ASSUME GtfsInv, IsLoaded, NEW d \in Dates, NEW r \in FilterRoutesByDate(d)
  PROVE  \/ Weekday[d] \in operatingDays[r]
         \/ \E t \in Trips : TripRoute[t] = r /\ <<d, TripService[t]>> \in feed.added
<1>1. PICK t \in KnownTrips : TripService[t] \in GetActiveServiceIds(d) /\ r = TripRoute[t]
  BY DEF FilterRoutesByDate, RoutesOf
<1>2. t \in Trips /\ r \in Routes
  BY <1>1, GtfsAssumption DEF KnownTrips
<1>3. CASE Weekday[d] \in feed.calendar[TripService[t]].days
  <2>1. operatingDays[r] = UNION {feed.calendar[TripService[u]].days : u \in {x \in Trips : TripRoute[x] = r}}
    BY <1>2 DEF GtfsInv, RowsAreRecorded, IsLoaded, ComputeOperatingDays
  <2>2. QED
    BY <1>1, <1>2, <1>3, <2>1
<1>4. CASE <<d, TripService[t]>> \in feed.added
  BY <1>1, <1>2, <1>4
<1>5. QED
  BY <1>1, <1>3, <1>4 DEF GetActiveServiceIds

\* Of trips that end before midnight, the times of day are the times.
LEMMA ScheduleOfADirection ==
  ASSUME GtfsInv, IsLoaded, NEW t \in DOMAIN tripTimeRange,
         \A u \in DOMAIN tripTimeRange :
           TripRoute[u] = TripRoute[t] =>
             Timed(tripTimeRange[u]) /\ ~(tripTimeRange[u].last >= DayLength)
  PROVE  LET schedule == GetRouteSchedule(TripRoute[t])
         IN /\ TripDirection[t] \in DOMAIN schedule
            /\ schedule[TripDirection[t]] \in [firstTrip : Nat, lastTrip : Nat]
            /\ schedule[TripDirection[t]].firstTrip <= tripTimeRange[t].first
            /\ tripTimeRange[t].last <= schedule[TripDirection[t]].lastTrip
<1> DEFINE dir == TripDirection[t]
           trips == TripsOfDirection(TripRoute[t], dir)
           firsts == {tripTimeRange[u].first : u \in trips}
           lasts == {tripTimeRange[u].last : u \in trips}
<1>1. dir \in {"INBOUND", "OUTBOUND"} /\ DayLength \in Nat \ {0}
  BY TripsInTheMap, GtfsAssumption
<1>2. t \in trips
  BY DEF TripsOfDirection
<1>3. \A u \in trips : /\ tripTimeRange[u].first \in 0..(DayLength - 1)
                       /\ tripTimeRange[u].last \in 0..(DayLength - 1)
  <2>1. TAKE u \in trips
  <2>2. u \in DOMAIN tripTimeRange /\ TripRoute[u] = TripRoute[t] /\ Timed(tripTimeRange[u])
    BY DEF TripsOfDirection
  <2>3. tripTimeRange[u].first \in Nat /\ tripTimeRange[u].last \in Nat
    BY <2>2, RangesAreOfTheFeed
  <2>4. tripTimeRange[u].first <= tripTimeRange[u].last
    BY <2>2 DEF GtfsInv, GtfsTypeOK
  <2>5. ~(tripTimeRange[u].last >= DayLength)
    BY <2>2
  <2>6. QED
    BY <1>1, <2>3, <2>4, <2>5
<1>4. /\ firsts \subseteq 0..(DayLength - 1) /\ tripTimeRange[t].first \in firsts
      /\ lasts \subseteq 0..(DayLength - 1) /\ tripTimeRange[t].last \in lasts
  BY <1>2, <1>3
<1>5. /\ Min(firsts) \in firsts /\ Min(firsts) <= tripTimeRange[t].first
      /\ Max(lasts) \in lasts /\ tripTimeRange[t].last <= Max(lasts)
  <2> HIDE DEF firsts, lasts
  <2>1. firsts \subseteq Nat /\ lasts \subseteq Nat
    BY <1>1, <1>4
  <2>2. IsFiniteSet(lasts)
    <3>1. DayLength - 1 \in Nat /\ \A n \in lasts : n <= DayLength - 1
      BY <1>1, <1>4
    <3>2. QED
      BY <2>1, <3>1, FS_BoundedSetOfNaturals
  <2>3. QED
    BY <1>4, <2>1, <2>2, MinOfNaturals, MaxOfNaturals
<1>6. /\ Min(firsts) % DayLength = Min(firsts) /\ Min(firsts) \in Nat
      /\ Max(lasts) % DayLength = Max(lasts) /\ Max(lasts) \in Nat
  <2>1. \A n \in 0..(DayLength - 1) : n % DayLength = n /\ n \in Nat
    BY <1>1
  <2> HIDE DEF firsts, lasts
  <2>2. QED
    BY <1>4, <1>5, <2>1
<1>7. /\ dir \in DOMAIN GetRouteSchedule(TripRoute[t])
      /\ GetRouteSchedule(TripRoute[t])[dir] =
           [firstTrip |-> Min(firsts) % DayLength, lastTrip |-> Max(lasts) % DayLength]
  <2>1. \A u \in trips : Timed(tripTimeRange[u])
    BY DEF TripsOfDirection
  <2>2. QED
    BY <1>1, <1>2, <2>1 DEF GetRouteSchedule
<1>8. QED
  BY <1>5, <1>6, <1>7

\* getRouteSchedule and the two filters, in terms of each other.
LEMMA LoadedAnswersAgree ==
  ASSUME GtfsInv
  PROVE  ScheduleAnswersAgree
<1> SUFFICES ASSUME IsLoaded, NEW d \in Dates, NEW time \in Clock,
                    NEW r \in FilterRoutesByDateTime(d, time)
             PROVE  /\ r \in FilterRoutesByDate(d)
                    /\ \/ \E t \in DOMAIN tripTimeRange :
                            TripRoute[t] = r /\ (Timed(tripTimeRange[t]) => tripTimeRange[t].last >= DayLength)
                       \/ \E dir \in DOMAIN GetRouteSchedule(r) :
                            /\ GetRouteSchedule(r)[dir].firstTrip # NaN
                            /\ GetRouteSchedule(r)[dir].firstTrip <= time
                            /\ time <= GetRouteSchedule(r)[dir].lastTrip
  BY RoutesOfADate DEF ScheduleAnswersAgree
<1>1. PICK t \in DOMAIN tripTimeRange :
        /\ Timed(tripTimeRange[t])
        /\ tripTimeRange[t].first <= time /\ time <= tripTimeRange[t].last
        /\ TripService[t] \in GetActiveServiceIds(d) /\ r = TripRoute[t] /\ r \in RouteMap
  BY DEF FilterRoutesByDateTime, RoutesOf
<1>2. t \in Trips /\ tripTimeRange[t].first \in Nat /\ tripTimeRange[t].last \in Nat
  BY <1>1, RangesAreOfTheFeed
<1>3. r \in FilterRoutesByDate(d)
  <2>1. KnownTrips = Trips
    BY DEF KnownTrips, GtfsInv, RowsAreRecorded, IsLoaded
  <2>2. QED
    BY <1>1, <1>2, <2>1 DEF FilterRoutesByDate, RoutesOf
<1>4. ASSUME ~ \E u \in DOMAIN tripTimeRange :
                  TripRoute[u] = r /\ (Timed(tripTimeRange[u]) => tripTimeRange[u].last >= DayLength)
      PROVE  \E dir \in DOMAIN GetRouteSchedule(r) :
               /\ GetRouteSchedule(r)[dir].firstTrip # NaN
               /\ GetRouteSchedule(r)[dir].firstTrip <= time
               /\ time <= GetRouteSchedule(r)[dir].lastTrip
  <2> DEFINE dir == TripDirection[t]
             first == GetRouteSchedule(r)[dir].firstTrip
             last  == GetRouteSchedule(r)[dir].lastTrip
  <2>1. /\ dir \in DOMAIN GetRouteSchedule(r)
        /\ first <= tripTimeRange[t].first /\ tripTimeRange[t].last <= last
        /\ first \in Nat /\ last \in Nat
    BY <1>1, <1>4, ScheduleOfADirection
  <2>2. first \in Int /\ last \in Int /\ time \in Int /\ first # NaN
    BY <2>1, GtfsAssumption DEF Clock
  <2> HIDE DEF first, last
  <2>3. first <= time /\ time <= last
    BY <1>1, <1>2, <2>1, <2>2
  <2>4. QED
    BY <2>1, <2>2, <2>3 DEF first, last
<1>5. QED
  BY <1>3, <1>4

\* For every consistent feed: the endpoints that say when a route runs agree.
THEOREM ScheduleAnswers == Spec => []ScheduleAnswersAgree
<1>1. IInv => ScheduleAnswersAgree
  BY LoadedAnswersAgree DEF IInv
<1>2. QED
  BY <1>1, Invariance, PTL

-----------------------------------------------------------------------------
(* Lists: filters, first results, lists one after the other *)

\* Induction over the numbers up to n, for a set.
LEMMA Upwards ==
  ASSUME NEW n \in Nat, NEW G, 0 \in G, \A k \in 1..n : k - 1 \in G => k \in G
  PROVE  0..n \subseteq G
<1> DEFINE R == OpToRel(<, Nat)
           Bad == {k \in 0..n : k \notin G}
<1> SUFFICES ASSUME Bad # {} PROVE FALSE
  OBVIOUS
<1>1. IsWellFoundedOn(R, Nat)
  BY NatLessThanWellFounded
<1>2. Bad \subseteq Nat
  OBVIOUS
<1>3. \A x, y \in Bad : y < x => <<y, x>> \in R
  BY <1>2 DEF OpToRel
<1> HIDE DEF R, Bad
<1>4. PICK x \in Bad : \A y \in Bad : <<y, x>> \notin R
  BY <1>1, <1>2, WFMin
<1>5. x \in 1..n /\ x - 1 \in 0..n /\ x - 1 < x
  BY DEF Bad
<1>6. x - 1 \notin Bad
  BY <1>3, <1>4, <1>5
<1>7. QED
  BY <1>5, <1>6 DEF Bad

\* The recursive function of At exists: its initial parts do.
LEMMA AtIs ==
  ASSUME NEW T, NEW list \in Seq(T), NEW positions
  PROVE  \E at :
           /\ at[0] = << >>
           /\ \A n \in 1..Len(list) :
                at[n] = IF n \in positions THEN Append(at[n - 1], list[n]) ELSE at[n - 1]
           /\ At(list, positions) = at[Len(list)]
<1> DEFINE Walk(x, n) == IF n \in positions THEN Append(x, list[n]) ELSE x
           Step(f, k) == [n \in 0..k |-> IF n = 0 THEN << >> ELSE Walk(f[n - 1], n)]
           G == {k \in 0..Len(list) : \E f : f = Step(f, k)}
<1> HIDE DEF Walk
<1>1. Len(list) \in Nat
  OBVIOUS
<1>2. 0 \in G
  <2> DEFINE f == [n \in 0..0 |-> << >>]
  <2>1. f = Step(f, 0)
    OBVIOUS
  <2> HIDE DEF f
  <2>2. QED
    BY <1>1, <2>1
<1>3. ASSUME NEW k \in 1..Len(list), k - 1 \in G
      PROVE  k \in G
  <2>1. PICK f : f = Step(f, k - 1)
    BY <1>3
  <2> DEFINE g == [n \in 0..k |-> IF n = k THEN Walk(f[k - 1], k) ELSE f[n]]
  <2>2. DOMAIN f = 0..(k - 1) /\ \A n \in 0..(k - 1) :
          f[n] = IF n = 0 THEN << >> ELSE Walk(f[n - 1], n)
    BY <2>1
  <2>3. \A n \in 0..k : g[n] = IF n = 0 THEN << >> ELSE Walk(g[n - 1], n)
    <3>1. \A n \in 0..(k - 1) : g[n] = f[n]
      OBVIOUS
    <3>2. g[k] = Walk(f[k - 1], k)
      OBVIOUS
    <3> HIDE DEF g
    <3>3. QED
      BY <2>2, <3>1, <3>2
  <2>4. DOMAIN g = 0..k /\ g = [n \in 0..k |-> g[n]]
    OBVIOUS
  <2> HIDE DEF g
  <2>5. g = Step(g, k)
    BY <2>3, <2>4
  <2>6. QED
    BY <2>5
<1> HIDE DEF G
<1>4. 0..Len(list) \subseteq G
  BY <1>1, <1>2, <1>3, Upwards
<1>5. \E f : f = Step(f, Len(list))
  BY <1>1, <1>4 DEF G
<1> DEFINE at == CHOOSE f : f = Step(f, Len(list))
<1>6. at = Step(at, Len(list))
  BY <1>5
<1>7. At(list, positions) = at[Len(list)]
  BY DEF At, Walk
<1> HIDE DEF at
<1>8. at[0] = << >> /\ \A n \in 1..Len(list) : at[n] = Walk(at[n - 1], n)
  BY <1>1, <1>6
<1>9. QED
  BY <1>7, <1>8 DEF Walk

\* At keeps the elements at the positions, and their order.
LEMMA AtKeepsOrder ==
  ASSUME NEW T, NEW list \in Seq(T), NEW positions \in SUBSET DOMAIN list
  PROVE  LET a == At(list, positions) IN
         /\ a \in Seq(T)
         /\ \E pos \in [1..Len(a) -> positions] :
              /\ \A i \in 1..Len(a) : a[i] = list[pos[i]]
              /\ \A i, j \in 1..Len(a) : i < j => pos[i] < pos[j]
              /\ \A p \in positions : \E i \in 1..Len(a) : pos[i] = p
<1> DEFINE Picks(a, S) ==
             /\ a \in Seq(T)
             /\ \E pos \in [1..Len(a) -> S] :
                  /\ \A i \in 1..Len(a) : a[i] = list[pos[i]]
                  /\ \A i, j \in 1..Len(a) : i < j => pos[i] < pos[j]
                  /\ \A p \in S : \E i \in 1..Len(a) : pos[i] = p
<1>1. PICK at :
        /\ at[0] = << >>
        /\ \A n \in 1..Len(list) :
             at[n] = IF n \in positions THEN Append(at[n - 1], list[n]) ELSE at[n - 1]
        /\ At(list, positions) = at[Len(list)]
  BY AtIs
<1> DEFINE G == {n \in 0..Len(list) : Picks(at[n], positions \cap 1..n)}
<1>2. Len(list) \in Nat /\ DOMAIN list = 1..Len(list)
  OBVIOUS
<1>3. 0 \in G
  <2>1. at[0] = << >> /\ positions \cap 1..0 = {}
    BY <1>1
  <2> DEFINE pos == [i \in 1..0 |-> i]
  <2>2. pos \in [1..Len(<< >>) -> {}]
    BY EmptySeq
  <2>3. Picks(<< >>, {})
    <3>1. Len(<< >>) = 0 /\ << >> \in Seq(T)
      BY EmptySeq
    <3>2. \A p \in {} : \E i \in 1..Len(<< >>) : pos[i] = p
      OBVIOUS
    <3>3. QED
      BY <2>2, <3>1, <3>2
  <2> HIDE DEF Picks
  <2>4. QED
    BY <1>2, <2>1, <2>3
<1>4. ASSUME NEW n \in 1..Len(list), n - 1 \in G
      PROVE  n \in G
  <2> DEFINE a == at[n - 1]
             S == positions \cap 1..(n - 1)
  <2>1. Picks(a, S)
    BY <1>4
  <2>2. at[n] = IF n \in positions THEN Append(a, list[n]) ELSE a
    BY <1>1
  <2>3. CASE n \notin positions
    <3>1. positions \cap 1..n = S /\ at[n] = a
      BY <2>2, <2>3
    <3> HIDE DEF a, S, Picks
    <3>2. Picks(at[n], positions \cap 1..n)
      BY <2>1, <3>1, Zenon
    <3>3. QED
      BY <1>2, <3>2
  <2>4. CASE n \in positions
    <3> DEFINE b == Append(a, list[n])
    <3>1. a \in Seq(T) /\ list[n] \in T /\ Len(a) \in Nat
      BY <2>1
    <3>2. PICK pos \in [1..Len(a) -> S] :
            /\ \A i \in 1..Len(a) : a[i] = list[pos[i]]
            /\ \A i, j \in 1..Len(a) : i < j => pos[i] < pos[j]
            /\ \A p \in S : \E i \in 1..Len(a) : pos[i] = p
      BY <2>1
    <3>3. positions \cap 1..n = S \cup {n} /\ at[n] = b
      BY <2>2, <2>4
    <3> HIDE DEF a
    <3>4. /\ b \in Seq(T) /\ Len(b) = Len(a) + 1
          /\ \A i \in 1..Len(a) : b[i] = a[i]
          /\ b[Len(a) + 1] = list[n]
      BY <3>1, AppendProperties
    <3>5. S \subseteq 1..(n - 1)
      OBVIOUS
    <3> HIDE DEF b, S
    <3> DEFINE new == [i \in 1..Len(b) |-> IF i = Len(b) THEN n ELSE pos[i]]
    <3>6. Len(b) \in Nat \ {0} /\ 1..Len(a) = 1..(Len(b) - 1)
      BY <3>1, <3>4
    <3>7. \A i \in 1..(Len(b) - 1) : pos[i] \in S /\ pos[i] \in 1..(n - 1)
      BY <3>2, <3>5, <3>6
    <3>8. /\ new \in [1..Len(b) -> S \cup {n}] /\ new[Len(b)] = n
          /\ \A i \in 1..Len(a) : new[i] = pos[i] /\ new[i] \in 1..(n - 1)
      BY <3>6, <3>7
    <3> HIDE DEF new
    <3>9. \A i \in 1..Len(b) : b[i] = list[new[i]]
      <4>1. TAKE i \in 1..Len(b)
      <4>2. CASE i = Len(b)
        BY <3>4, <3>8, <4>2
      <4>3. CASE i \in 1..Len(a)
        BY <3>2, <3>4, <3>8, <4>3
      <4>4. QED
        BY <3>1, <3>4, <4>2, <4>3
    <3>10. \A i, j \in 1..Len(b) : i < j => new[i] < new[j]
      <4>1. TAKE i, j \in 1..Len(b)
      <4>2. HAVE i < j
      <4>3. i \in 1..Len(a) /\ (j = Len(b) \/ j \in 1..Len(a))
        BY <3>6, <4>2
      <4>4. CASE j = Len(b)
        BY <3>8, <4>3, <4>4
      <4>5. CASE j \in 1..Len(a)
        BY <3>2, <3>8, <4>2, <4>3, <4>5
      <4>6. QED
        BY <4>3, <4>4, <4>5
    <3>11. \A p \in S \cup {n} : \E i \in 1..Len(b) : new[i] = p
      BY <3>1, <3>2, <3>4, <3>8
    <3>12. Picks(b, S \cup {n})
      BY <3>4, <3>8, <3>9, <3>10, <3>11
    <3> HIDE DEF Picks
    <3>13. Picks(at[n], positions \cap 1..n)
      BY <3>3, <3>12, Zenon
    <3>14. QED
      BY <1>2, <3>13
  <2> HIDE DEF Picks
  <2>5. QED
    BY <2>3, <2>4
<1> HIDE DEF Picks
<1>5. 0..Len(list) \subseteq G
  <2> HIDE DEF G
  <2>1. QED
    BY <1>2, <1>3, <1>4, Upwards
<1>6. Picks(at[Len(list)], positions \cap 1..Len(list))
  <2>1. Len(list) \in 0..Len(list)
    BY <1>2
  <2>2. QED
    BY <1>5, <2>1
<1>7. positions \cap 1..Len(list) = positions
  BY <1>2
<1>8. QED
  BY <1>1, <1>6, <1>7 DEF Picks

\* A filter has the elements it keeps.
LEMMA AtElements ==
  ASSUME NEW T, NEW list \in Seq(T), NEW positions \in SUBSET DOMAIN list
  PROVE  /\ At(list, positions) \in Seq(T)
         /\ ToSet(At(list, positions)) = {list[i] : i \in positions}
<1> DEFINE a == At(list, positions)
<1>1. a \in Seq(T)
  BY AtKeepsOrder
<1>2. PICK pos \in [1..Len(a) -> positions] :
        /\ \A i \in 1..Len(a) : a[i] = list[pos[i]]
        /\ \A p \in positions : \E i \in 1..Len(a) : pos[i] = p
  BY AtKeepsOrder
<1>3. DOMAIN a = 1..Len(a)
  BY <1>1
<1> HIDE DEF a
<1>4. ToSet(a) = {list[i] : i \in positions}
  BY <1>2, <1>3 DEF ToSet
<1>5. QED
  BY <1>1, <1>4 DEF a

\* The first results have everything or are as many as asked for.
LEMMA UpToElements ==
  ASSUME NEW T, NEW list \in Seq(T), NEW n \in Nat
  PROVE  LET u == UpTo(n, list) IN
         /\ u \in Seq(T) /\ Len(u) <= n /\ Len(u) <= Len(list)
         /\ \A i \in 1..Len(u) : u[i] = list[i]
         /\ ToSet(u) \subseteq ToSet(list)
         /\ Len(u) # n => u = list
<1> DEFINE u == UpTo(n, list)
           m == IF n < Len(list) THEN n ELSE Len(list)
<1>1. Len(list) \in Nat /\ DOMAIN list = 1..Len(list)
  OBVIOUS
<1>2. m \in Nat /\ m <= n /\ m <= Len(list)
  BY <1>1
<1>3. \A i \in 1..m : list[i] \in T
  BY <1>1, <1>2, ElementOfSeq
<1> HIDE DEF m
<1>4. /\ SubSeq(list, 1, m) \in Seq(T)
      /\ Len(SubSeq(list, 1, m)) = IF 1 <= m THEN m - 1 + 1 ELSE 0
      /\ \A i \in 1..(m - 1 + 1) : SubSeq(list, 1, m)[i] = list[1 + i - 1]
  BY <1>2, <1>3, SubSeqProperties
<1>5. u \in Seq(T) /\ Len(u) = m /\ \A i \in 1..m : u[i] = list[i]
  <2>1. u = SubSeq(list, 1, m)
    BY DEF UpTo, m
  <2>2. QED
    BY <1>2, <1>4, <2>1
<1> HIDE DEF u
<1>6. DOMAIN u = 1..m
  BY <1>5
<1>7. ToSet(u) \subseteq ToSet(list)
  BY <1>1, <1>2, <1>5, <1>6 DEF ToSet
<1>8. ASSUME Len(u) # n PROVE u = list
  <2>1. m = Len(list)
    BY <1>5, <1>8 DEF m
  <2>2. list = [i \in 1..m |-> list[i]] /\ u = [i \in 1..m |-> u[i]]
    BY <1>1, <1>5, <2>1
  <2>3. QED
    BY <1>5, <2>2
<1>9. QED
  BY <1>2, <1>5, <1>7, <1>8 DEF u

\* Two lists one after the other have the elements of both.
LEMMA ConcatElements ==
  ASSUME NEW T, NEW s \in Seq(T), NEW t \in Seq(T)
  PROVE  s \o t \in Seq(T) /\ ToSet(s \o t) = ToSet(s) \cup ToSet(t)
<1> DEFINE st == s \o t
<1>1. /\ st \in Seq(T) /\ Len(st) = Len(s) + Len(t)
      /\ \A i \in 1..(Len(s) + Len(t)) : st[i] = IF i <= Len(s) THEN s[i] ELSE t[i - Len(s)]
  BY ConcatProperties
<1>2. /\ Len(s) \in Nat /\ Len(t) \in Nat
      /\ DOMAIN s = 1..Len(s) /\ DOMAIN t = 1..Len(t)
  OBVIOUS
<1> HIDE DEF st
<1>3. DOMAIN st = 1..(Len(s) + Len(t))
  BY <1>1
<1>4. ToSet(st) \subseteq ToSet(s) \cup ToSet(t)
  <2>1. ASSUME NEW i \in 1..(Len(s) + Len(t)) PROVE st[i] \in ToSet(s) \cup ToSet(t)
    <3>1. CASE i <= Len(s)
      BY <1>1, <1>2, <3>1 DEF ToSet
    <3>2. CASE ~(i <= Len(s))
      <4>1. i - Len(s) \in 1..Len(t)
        BY <1>2, <3>2
      <4>2. QED
        BY <1>1, <1>2, <3>2, <4>1 DEF ToSet
    <3>3. QED
      BY <3>1, <3>2
  <2>2. QED
    BY <1>3, <2>1 DEF ToSet
<1>5. ToSet(s) \subseteq ToSet(st)
  <2>1. \A i \in 1..Len(s) : i \in 1..(Len(s) + Len(t)) /\ st[i] = s[i]
    BY <1>1, <1>2
  <2>2. QED
    BY <1>2, <1>3, <2>1 DEF ToSet
<1>6. ToSet(t) \subseteq ToSet(st)
  <2>1. \A i \in 1..Len(t) : /\ i + Len(s) \in 1..(Len(s) + Len(t))
                             /\ st[i + Len(s)] = t[i]
    BY <1>1, <1>2
  <2>2. QED
    BY <1>2, <1>3, <2>1 DEF ToSet
<1>7. QED
  BY <1>1, <1>4, <1>5, <1>6 DEF st

\* What is kept where it comes first is everything, each once.
LEMMA FirstsElements ==
  ASSUME NEW T, NEW list \in Seq(T)
  PROVE  {list[i] : i \in FirstsOf(list)} = ToSet(list)
<1>1. Len(list) \in Nat /\ DOMAIN list = 1..Len(list)
  OBVIOUS
<1>2. ASSUME NEW i \in DOMAIN list
      PROVE  \E j \in FirstsOf(list) : list[j] = list[i]
  <2> DEFINE S == {j \in DOMAIN list : list[j] = list[i]}
  <2>1. S \subseteq Nat /\ i \in S
    BY <1>1
  <2>2. PICK j \in S : \A k \in S : j <= k
    <3> HIDE DEF S
    <3>1. QED
      BY <2>1, MinOfNaturals
  <2>3. \A k \in 1..(j - 1) : k \notin S
    <3>1. TAKE k \in 1..(j - 1)
    <3>2. j \in Nat /\ k \in Int /\ ~(j <= k)
      BY <2>1
    <3> HIDE DEF S
    <3>3. QED
      BY <2>2, <3>2
  <2>4. \A k \in 1..(j - 1) : k \in DOMAIN list
    BY <1>1
  <2>5. j \in FirstsOf(list)
    BY <2>3, <2>4 DEF FirstsOf
  <2>6. QED
    BY <2>5
<1>3. FirstsOf(list) \subseteq DOMAIN list
  BY DEF FirstsOf
<1>4. QED
  BY <1>2, <1>3 DEF ToSet

\* The recursive function of FlattenSeq exists.
LEMMA FlattenIs ==
  ASSUME NEW T, NEW lists \in Seq(T), lists # << >>
  PROVE  \E flat :
           /\ flat[1] = lists[1]
           /\ \A n \in 2..Len(lists) : flat[n] = flat[n - 1] \o lists[n]
           /\ FlattenSeq(lists) = flat[Len(lists)]
<1> DEFINE Walk(x, n) == x \o lists[n]
           Step(f, k) == [n \in 1..k |-> IF n = 1 THEN lists[n] ELSE Walk(f[n - 1], n)]
           G == {k \in 0..Len(lists) : \E f : f = Step(f, k)}
<1>1. Len(lists) \in Nat \ {0}
  BY EmptySeq
<1> HIDE DEF Walk
<1>2. 0 \in G
  <2> DEFINE f == [n \in 1..0 |-> n]
  <2>1. f = Step(f, 0)
    OBVIOUS
  <2> HIDE DEF f, Step
  <2>2. \E g : g = Step(g, 0)
    BY <2>1, Zenon
  <2>3. QED
    BY <1>1, <2>2
<1>3. ASSUME NEW k \in 1..Len(lists), k - 1 \in G
      PROVE  k \in G
  <2>1. PICK f : f = Step(f, k - 1)
    BY <1>3
  <2> DEFINE new == IF k = 1 THEN lists[k] ELSE Walk(f[k - 1], k)
             g == [n \in 1..k |-> IF n = k THEN new ELSE f[n]]
  <2>2. DOMAIN f = 1..(k - 1) /\ \A n \in 1..(k - 1) :
          f[n] = IF n = 1 THEN lists[n] ELSE Walk(f[n - 1], n)
    BY <2>1
  <2>3. \A n \in 1..k : g[n] = IF n = 1 THEN lists[n] ELSE Walk(g[n - 1], n)
    <3>1. \A n \in 1..(k - 1) : g[n] = f[n]
      OBVIOUS
    <3>2. g[k] = new
      OBVIOUS
    <3> HIDE DEF g
    <3>3. QED
      BY <2>2, <3>1, <3>2
  <2>4. DOMAIN g = 1..k /\ g = [n \in 1..k |-> g[n]]
    OBVIOUS
  <2> HIDE DEF g
  <2>5. g = Step(g, k)
    BY <2>3, <2>4
  <2>6. QED
    BY <2>5
<1> HIDE DEF G
<1>4. 0..Len(lists) \subseteq G
  BY <1>1, <1>2, <1>3, Upwards
<1>5. \E f : f = Step(f, Len(lists))
  BY <1>1, <1>4 DEF G
<1> DEFINE flat == CHOOSE f : f = Step(f, Len(lists))
<1>6. flat = Step(flat, Len(lists))
  BY <1>5
<1>7. FlattenSeq(lists) = flat[Len(lists)]
  BY <1>1 DEF FlattenSeq, Walk
<1> HIDE DEF flat
<1>8. flat[1] = lists[1] /\ \A n \in 2..Len(lists) : flat[n] = Walk(flat[n - 1], n)
  BY <1>1, <1>6
<1>9. QED
  BY <1>7, <1>8 DEF Walk

\* All lists one after the other have the elements of each.
LEMMA FlattenElements ==
  ASSUME NEW T, NEW lists \in Seq(Seq(T))
  PROVE  /\ FlattenSeq(lists) \in Seq(T)
         /\ ToSet(FlattenSeq(lists)) = UNION {ToSet(lists[i]) : i \in DOMAIN lists}
<1>1. Len(lists) \in Nat /\ DOMAIN lists = 1..Len(lists)
  OBVIOUS
<1>2. CASE lists = << >>
  <2>1. FlattenSeq(lists) = << >> /\ DOMAIN lists = {}
    BY <1>2, EmptySeq DEF FlattenSeq
  <2>2. QED
    BY <1>2, <2>1, EmptySeq DEF ToSet
<1>3. CASE lists # << >>
  <2>1. PICK flat :
          /\ flat[1] = lists[1]
          /\ \A n \in 2..Len(lists) : flat[n] = flat[n - 1] \o lists[n]
          /\ FlattenSeq(lists) = flat[Len(lists)]
    BY <1>3, FlattenIs
  <2> DEFINE Joins(f, n) == f \in Seq(T) /\ ToSet(f) = UNION {ToSet(lists[i]) : i \in 1..n}
             G == {n \in 0..Len(lists) : n = 0 \/ Joins(flat[n], n)}
  <2>2. 0 \in G
    BY <1>1
  <2>3. ASSUME NEW n \in 1..Len(lists), n - 1 \in G
        PROVE  n \in G
    <3>1. lists[n] \in Seq(T)
      OBVIOUS
    <3>2. CASE n = 1
      <4>1. UNION {ToSet(lists[i]) : i \in 1..1} = ToSet(lists[1])
        OBVIOUS
      <4>2. QED
        BY <1>1, <2>1, <3>1, <3>2, <4>1
    <3>3. CASE n # 1
      <4>1. Joins(flat[n - 1], n - 1) /\ n \in 2..Len(lists)
        BY <1>1, <2>3, <3>3
      <4>2. flat[n] = flat[n - 1] \o lists[n]
        BY <2>1, <4>1
      <4>3. /\ flat[n] \in Seq(T)
            /\ ToSet(flat[n]) = ToSet(flat[n - 1]) \cup ToSet(lists[n])
        BY <3>1, <4>1, <4>2, ConcatElements
      <4>4. 1..n = (1..(n - 1)) \cup {n}
        BY <4>1
      <4>5. UNION {ToSet(lists[i]) : i \in 1..n}
              = (UNION {ToSet(lists[i]) : i \in 1..(n - 1)}) \cup ToSet(lists[n])
        BY <4>4
      <4>6. Joins(flat[n], n)
        BY <4>1, <4>3, <4>5
      <4> HIDE DEF Joins
      <4>7. QED
        BY <1>1, <4>6
    <3>4. QED
      BY <3>2, <3>3
  <2>4. 0..Len(lists) \subseteq G
    <3> HIDE DEF G
    <3>1. QED
      BY <1>1, <2>2, <2>3, Upwards
  <2>5. Len(lists) \in 0..Len(lists) /\ Len(lists) # 0
    BY <1>1, <1>3, EmptySeq
  <2>6. Joins(flat[Len(lists)], Len(lists))
    <3> HIDE DEF Joins
    <3>1. QED
      BY <2>4, <2>5
  <2>7. QED
    BY <1>1, <2>1, <2>6
<1>4. QED
  BY <1>2, <1>3

\* The first results that differ in their labels are no two with the same.
LEMMA FirstsDiffer ==
  ASSUME NEW T, NEW list \in Seq(T), NEW n \in Nat
  PROVE  LET labels == [i \in DOMAIN list |-> list[i].label]
             u == UpTo(n, At(list, FirstsOf(labels)))
         IN /\ u \in Seq(T) /\ Len(u) <= n /\ ToSet(u) \subseteq ToSet(list)
            /\ \A i, j \in 1..Len(u) : i # j => u[i].label # u[j].label
<1> DEFINE labels == [i \in DOMAIN list |-> list[i].label]
           firsts == FirstsOf(labels)
           a == At(list, firsts)
           u == UpTo(n, a)
<1>1. /\ DOMAIN list = 1..Len(list) /\ Len(list) \in Nat
      /\ firsts \in SUBSET DOMAIN list
  BY DEF FirstsOf
<1>2. \A i, j \in firsts : i < j => list[i].label # list[j].label
  <2>1. TAKE i, j \in firsts
  <2>2. HAVE i < j
  <2>3. i \in 1..(j - 1)
    BY <1>1, <2>2
  <2>4. QED
    BY <1>1, <2>3 DEF FirstsOf
<1> HIDE DEF firsts
<1>3. a \in Seq(T) /\ ToSet(a) = {list[i] : i \in firsts}
  BY <1>1, AtElements
<1>4. PICK pos \in [1..Len(a) -> firsts] :
        /\ \A i \in 1..Len(a) : a[i] = list[pos[i]]
        /\ \A i, j \in 1..Len(a) : i < j => pos[i] < pos[j]
  BY <1>1, AtKeepsOrder
<1> HIDE DEF a
<1>5. /\ u \in Seq(T) /\ Len(u) <= n /\ Len(u) <= Len(a) /\ ToSet(u) \subseteq ToSet(a)
      /\ \A i \in 1..Len(u) : u[i] = a[i]
  BY <1>3, UpToElements
<1> HIDE DEF u
<1>6. Len(u) \in Nat /\ Len(a) \in Nat
  BY <1>3, <1>5
<1>7. ToSet(u) \subseteq ToSet(list)
  BY <1>1, <1>3, <1>5 DEF ToSet
<1>8. \A i \in 1..Len(u) : i \in 1..Len(a) /\ pos[i] \in firsts /\ u[i] = list[pos[i]]
  BY <1>4, <1>5, <1>6
<1>9. \A i, j \in 1..Len(u) : i < j => u[i].label # u[j].label
  BY <1>2, <1>4, <1>8
<1>10. \A i, j \in 1..Len(u) : i # j => u[i].label # u[j].label
  BY <1>6, <1>9
<1>11. QED
  BY <1>5, <1>7, <1>10 DEF u, a, firsts

\* So there are as many labels as results.
LEMMA LabelsOfFirsts ==
  ASSUME NEW T, NEW u \in Seq(T), \A i, j \in 1..Len(u) : i # j => u[i].label # u[j].label
  PROVE  Cardinality({s.label : s \in ToSet(u)}) = Len(u)
<1> DEFINE S == {s.label : s \in ToSet(u)}
           m == Len(u)
           f == [i \in 1..m |-> u[i].label]
<1>1. m \in Nat /\ DOMAIN u = 1..m
  OBVIOUS
<1>2. S = {u[i].label : i \in 1..m}
  BY <1>1 DEF ToSet
<1>3. f \in Surjection(1..m, S)
  BY <1>2 DEF Surjection
<1>4. f \in Injection(1..m, S)
  BY <1>2 DEF Injection, IsInjective
<1> HIDE DEF f, S, m
<1>5. IsFiniteSet(1..m) /\ Cardinality(1..m) = m
  BY <1>1, FS_Interval
<1>6. Cardinality(S) = m
  BY <1>3, <1>4, <1>5, FS_Surjection
<1>7. QED
  BY <1>6 DEF S, m
-----------------------------------------------------------------------------
(* The stops of the shuttles *)

\* The rows of a route, as a set and as the service walks them.
RowsOf(route) == {row \in ToSet(StopRows) : row.route = route}
FileRows(route) == At(StopRows, {i \in DOMAIN StopRows : StopRows[i].route = route})
NoOrders == [s \in {} |-> 0]

\* The recursive function of RouteStops exists.
LEMMA RouteStopsIs ==
  ASSUME NEW route, Len(FileRows(route)) \in Nat
  PROVE  LET rows == FileRows(route) IN
         \E seen :
           /\ seen[0] = NoOrders
           /\ \A n \in 1..Len(rows) : seen[n] = Seen(seen[n - 1], rows[n])
           /\ RouteStops(route) = seen[Len(rows)]
<1> DEFINE rows == FileRows(route)
           Step(f, k) == [n \in 0..k |-> IF n = 0 THEN NoOrders ELSE Seen(f[n - 1], rows[n])]
           G == {k \in 0..Len(rows) : \E f : f = Step(f, k)}
<1>1. Len(rows) \in Nat
  OBVIOUS
<1>2. RouteStops(route) = (CHOOSE f : f = Step(f, Len(rows)))[Len(rows)]
  BY DEF RouteStops, FileRows, NoOrders
<1> HIDE DEF rows
<1>3. 0 \in G
  <2> DEFINE f == [n \in 0..0 |-> NoOrders]
  <2>1. f = Step(f, 0)
    OBVIOUS
  <2> HIDE DEF f, Step
  <2>2. \E g : g = Step(g, 0)
    BY <2>1, Zenon
  <2>3. QED
    BY <1>1, <2>2
<1>4. ASSUME NEW k \in 1..Len(rows), k - 1 \in G
      PROVE  k \in G
  <2>1. PICK f : f = Step(f, k - 1)
    BY <1>4
  <2> DEFINE g == [n \in 0..k |-> IF n = k THEN Seen(f[k - 1], rows[k]) ELSE f[n]]
  <2>2. DOMAIN f = 0..(k - 1) /\ \A n \in 0..(k - 1) :
          f[n] = IF n = 0 THEN NoOrders ELSE Seen(f[n - 1], rows[n])
    BY <2>1
  <2>3. \A n \in 0..k : g[n] = IF n = 0 THEN NoOrders ELSE Seen(g[n - 1], rows[n])
    <3>1. \A n \in 0..(k - 1) : g[n] = f[n]
      OBVIOUS
    <3>2. g[k] = Seen(f[k - 1], rows[k])
      OBVIOUS
    <3> HIDE DEF g
    <3>3. QED
      BY <2>2, <3>1, <3>2
  <2>4. DOMAIN g = 0..k /\ g = [n \in 0..k |-> g[n]]
    OBVIOUS
  <2> HIDE DEF g
  <2>5. g = Step(g, k)
    BY <2>3, <2>4
  <2>6. QED
    BY <2>5
<1> HIDE DEF G
<1>5. 0..Len(rows) \subseteq G
  BY <1>1, <1>3, <1>4, Upwards
<1>6. \E f : f = Step(f, Len(rows))
  BY <1>1, <1>5 DEF G
<1> DEFINE seen == CHOOSE f : f = Step(f, Len(rows))
<1>7. seen = Step(seen, Len(rows))
  BY <1>6
<1>8. RouteStops(route) = seen[Len(rows)]
  BY <1>2
<1> HIDE DEF seen
<1>9. seen[0] = NoOrders /\ \A n \in 1..Len(rows) : seen[n] = Seen(seen[n - 1], rows[n])
  BY <1>1, <1>7
<1>10. QED
  BY <1>8, <1>9 DEF rows

\* A stop of a route has the least order of its rows.
LEMMA RouteStopsAre ==
  ASSUME NEW route
  PROVE  LET orders == RouteStops(route) IN
         /\ IsFiniteSet(DOMAIN orders) /\ DOMAIN orders \subseteq DOMAIN NameRank
         /\ DOMAIN orders = {row.stop : row \in RowsOf(route)}
         /\ \A row \in RowsOf(route) : row.order \in Nat /\ orders[row.stop] <= row.order
         /\ \A s \in DOMAIN orders :
              /\ orders[s] \in Nat
              /\ \E row \in RowsOf(route) : row.stop = s /\ row.order = orders[s]
<1> DEFINE rows == FileRows(route)
           Row == ToSet(StopRows)
           Least(o, k) ==
             /\ IsFiniteSet(DOMAIN o)
             /\ \A s \in DOMAIN o :
                  o[s] \in Nat /\ \E i \in 1..k : rows[i].stop = s /\ rows[i].order = o[s]
             /\ \A i \in 1..k : rows[i].stop \in DOMAIN o /\ o[rows[i].stop] <= rows[i].order
<1>1. rows \in Seq(Row) /\ ToSet(rows) = RowsOf(route)
  <2> DEFINE positions == {i \in DOMAIN StopRows : StopRows[i].route = route}
  <2>1. StopRows \in Seq(Row) /\ positions \in SUBSET DOMAIN StopRows
    BY StopRowsAssumption
  <2> HIDE DEF Row
  <2>2. /\ At(StopRows, positions) \in Seq(Row)
        /\ ToSet(At(StopRows, positions)) = {StopRows[i] : i \in positions}
    <3> HIDE DEF positions
    <3>1. QED
      BY <2>1, AtElements
  <2>3. {StopRows[i] : i \in positions} = RowsOf(route)
    BY DEF RowsOf, ToSet
  <2>4. QED
    BY <2>2, <2>3 DEF FileRows
<1> HIDE DEF rows
<1>2. /\ Len(rows) \in Nat /\ DOMAIN rows = 1..Len(rows)
      /\ \A i \in 1..Len(rows) : /\ rows[i].stop \in DOMAIN NameRank /\ rows[i].order \in Nat
                                 /\ rows[i] \in RowsOf(route)
      /\ \A row \in RowsOf(route) : \E i \in 1..Len(rows) : rows[i] = row
  <2>1. Len(rows) \in Nat /\ DOMAIN rows = 1..Len(rows)
    BY <1>1
  <2>2. \A i \in 1..Len(rows) : rows[i] \in Row
    BY <1>1, ElementOfSeq
  <2>3. \A i \in 1..Len(rows) : rows[i].stop \in DOMAIN NameRank /\ rows[i].order \in Nat
    BY <2>2, StopRowsAssumption
  <2>4. QED
    BY <1>1, <2>1, <2>3 DEF ToSet
<1>3. PICK seen :
        /\ seen[0] = NoOrders
        /\ \A n \in 1..Len(rows) : seen[n] = Seen(seen[n - 1], rows[n])
        /\ RouteStops(route) = seen[Len(rows)]
  BY <1>2, RouteStopsIs DEF rows
<1> HIDE DEF Row
<1> DEFINE G == {n \in 0..Len(rows) : Least(seen[n], n)}
<1>4. 0 \in G
  <2>1. DOMAIN NoOrders = {}
    BY DEF NoOrders
  <2>2. IsFiniteSet({})
    BY FS_EmptySet
  <2>3. Least(seen[0], 0)
    BY <1>3, <2>1, <2>2
  <2> HIDE DEF Least
  <2>4. QED
    BY <1>2, <2>3
<1>5. ASSUME NEW n \in 1..Len(rows), n - 1 \in G
      PROVE  n \in G
  <2> DEFINE o == seen[n - 1]
             row == rows[n]
             new == [s \in DOMAIN o \cup {row.stop} |->
                       IF s = row.stop THEN row.order ELSE o[s]]
  <2>1. Least(o, n - 1)
    BY <1>5
  <2>2. seen[n] = IF row.stop \in DOMAIN o /\ o[row.stop] <= row.order THEN o ELSE new
    BY <1>3 DEF Seen
  <2>3. row.order \in Nat /\ n \in Nat
    BY <1>2
  <2>4. \A i \in 1..(n - 1) : i \in 1..n /\ rows[i].order \in Nat
    BY <1>2
  <2>5. CASE row.stop \in DOMAIN o /\ o[row.stop] <= row.order
    <3>1. seen[n] = o
      BY <2>2, <2>5
    <3>2. \A i \in 1..n : i = n \/ i \in 1..(n - 1)
      BY <2>3
    <3> HIDE DEF o
    <3>3. Least(o, n)
      BY <2>1, <2>4, <2>5, <3>2
    <3> HIDE DEF Least
    <3>4. QED
      BY <1>2, <3>1, <3>3
  <2>6. CASE ~(row.stop \in DOMAIN o /\ o[row.stop] <= row.order)
    <3>1. seen[n] = new
      BY <2>2, <2>6
    <3>2. DOMAIN new = DOMAIN o \cup {row.stop} /\ new[row.stop] = row.order
          /\ \A s \in DOMAIN o : s # row.stop => new[s] = o[s]
      OBVIOUS
    <3> HIDE DEF o, new
    <3>3. IsFiniteSet(DOMAIN new)
      <4>1. IsFiniteSet(DOMAIN o)
        BY <2>1
      <4>2. IsFiniteSet(DOMAIN o \cup {row.stop})
        BY <4>1, FS_AddElement
      <4>3. QED
        BY <3>2, <4>2, Zenon
    <3>4. \A s \in DOMAIN new :
            new[s] \in Nat /\ \E i \in 1..n : rows[i].stop = s /\ rows[i].order = new[s]
      <4>1. TAKE s \in DOMAIN new
      <4>2. CASE s = row.stop
        <5>1. n \in 1..n
          BY <2>3
        <5>2. QED
          BY <2>3, <3>2, <4>2, <5>1
      <4>3. CASE s # row.stop
        <5>1. s \in DOMAIN o /\ new[s] = o[s]
          BY <3>2, <4>3
        <5>2. o[s] \in Nat /\ \E i \in 1..(n - 1) : rows[i].stop = s /\ rows[i].order = o[s]
          BY <2>1, <5>1
        <5>3. QED
          BY <2>4, <5>1, <5>2
      <4>4. QED
        BY <4>2, <4>3
    <3>5. \A i \in 1..n :
            rows[i].stop \in DOMAIN new /\ new[rows[i].stop] <= rows[i].order
      <4>1. TAKE i \in 1..n
      <4>2. CASE i = n
        BY <2>3, <3>2, <4>2
      <4>3. CASE i \in 1..(n - 1) /\ rows[i].stop # row.stop
        BY <2>1, <3>2, <4>3
      <4>4. CASE i \in 1..(n - 1) /\ rows[i].stop = row.stop
        <5>1. /\ row.stop \in DOMAIN o /\ o[row.stop] \in Nat /\ o[row.stop] <= rows[i].order
              /\ rows[i].order \in Nat
          BY <2>1, <2>4, <4>4
        <5>2. row.order <= rows[i].order
          BY <2>3, <2>6, <5>1
        <5>3. QED
          BY <3>2, <4>4, <5>2
      <4>5. QED
        BY <2>3, <4>2, <4>3, <4>4
    <3>6. Least(new, n)
      BY <3>3, <3>4, <3>5
    <3> HIDE DEF Least
    <3>7. QED
      BY <1>2, <3>1, <3>6
  <2>7. QED
    BY <2>5, <2>6
<1>6. 0..Len(rows) \subseteq G
  <2> HIDE DEF G
  <2>1. QED
    BY <1>2, <1>4, <1>5, Upwards
<1> DEFINE orders == RouteStops(route)
<1>7. Least(orders, Len(rows))
  <2>1. Len(rows) \in 0..Len(rows)
    BY <1>2
  <2> HIDE DEF Least
  <2>2. Least(seen[Len(rows)], Len(rows))
    BY <1>6, <2>1
  <2>3. QED
    BY <1>3, <2>2
<1> HIDE DEF orders
<1>8. \A row \in RowsOf(route) :
        row.stop \in DOMAIN orders /\ row.order \in Nat /\ orders[row.stop] <= row.order
  BY <1>2, <1>7
<1>9. \A s \in DOMAIN orders :
        /\ orders[s] \in Nat /\ s \in DOMAIN NameRank
        /\ \E row \in RowsOf(route) : row.stop = s /\ row.order = orders[s]
  BY <1>2, <1>7
<1>10. DOMAIN orders = {row.stop : row \in RowsOf(route)}
  BY <1>8, <1>9
<1>11. IsFiniteSet(DOMAIN orders)
  BY <1>7
<1>12. QED
  BY <1>8, <1>9, <1>10, <1>11 DEF orders

\* Among stops with orders there is one that comes before no other.
LEMMA FirstStop ==
  ASSUME NEW orders, DOMAIN orders \subseteq DOMAIN NameRank,
         \A s \in DOMAIN orders : orders[s] \in Nat,
         NEW D \in SUBSET DOMAIN orders, D # {}
  PROVE  \E m \in D : \A s \in D : ~Before(s, m, orders)
<1>1. \A s \in D : orders[s] \in Nat /\ NameRank[s] \in Nat
  BY StopRowsAssumption
<1>2. PICK least \in {orders[s] : s \in D} : \A n \in {orders[s] : s \in D} : least <= n
  <2> DEFINE S == {orders[s] : s \in D}
  <2>1. S \subseteq Nat /\ S # {}
    BY <1>1
  <2> HIDE DEF S
  <2>2. \E x \in S : \A y \in S : x <= y
    BY <2>1, MinOfNaturals
  <2>3. QED
    BY <2>2 DEF S
<1> DEFINE E == {s \in D : orders[s] = least}
<1>3. PICK rank \in {NameRank[s] : s \in E} : \A n \in {NameRank[s] : s \in E} : rank <= n
  <2> DEFINE S == {NameRank[s] : s \in E}
  <2>1. S \subseteq Nat /\ S # {}
    BY <1>1, <1>2
  <2> HIDE DEF S
  <2>2. \E x \in S : \A y \in S : x <= y
    BY <2>1, MinOfNaturals
  <2>3. QED
    BY <2>2 DEF S
<1>4. PICK m \in D : orders[m] = least /\ NameRank[m] = rank
  BY <1>3
<1>5. \A s \in D : ~Before(s, m, orders)
  <2>1. TAKE s \in D
  <2>2. least <= orders[s] /\ (orders[s] = least => rank <= NameRank[s])
    BY <1>2, <1>3
  <2>3. QED
    BY <1>1, <1>4, <2>2 DEF Before
<1>6. QED
  BY <1>5

\* So the stops can be sorted, the first of them before the others.
LEMMA SortedStops ==
  ASSUME NEW orders, DOMAIN orders \subseteq DOMAIN NameRank, IsFiniteSet(DOMAIN orders),
         \A s \in DOMAIN orders : orders[s] \in Nat
  PROVE  \E list \in [1..Cardinality(DOMAIN orders) -> DOMAIN orders] :
           \A i, j \in DOMAIN list :
             i < j => list[i] # list[j] /\ ~Before(list[j], list[i], orders)
<1> DEFINE all == DOMAIN orders
           N == Cardinality(all)
           Sorted(list, D, k) ==
             /\ list \in [1..k -> D]
             /\ \A i, j \in 1..k :
                  i < j => list[i] # list[j] /\ ~Before(list[j], list[i], orders)
           G == {k \in 0..N : \A D \in SUBSET all :
                                Cardinality(D) = k => \E list : Sorted(list, D, k)}
<1>1. N \in Nat
  BY FS_CardinalityType
<1>2. 0 \in G
  <2> DEFINE none == [i \in 1..0 |-> i]
  <2>1. \A D \in SUBSET all : Sorted(none, D, 0)
    OBVIOUS
  <2> HIDE DEF Sorted
  <2>2. QED
    BY <1>1, <2>1
<1>3. ASSUME NEW k \in 1..N, k - 1 \in G
      PROVE  k \in G
  <2>1. ASSUME NEW D \in SUBSET all, Cardinality(D) = k
        PROVE  \E list : Sorted(list, D, k)
    <3>1. IsFiniteSet(D) /\ D # {} /\ k \in Nat
      BY <1>1, <2>1, FS_Subset, FS_EmptySet
    <3>2. PICK m \in D : \A s \in D : ~Before(s, m, orders)
      BY <3>1, FirstStop
    <3>3. Cardinality(D \ {m}) = k - 1 /\ D \ {m} \in SUBSET all
      BY <2>1, <3>1, FS_RemoveElement
    <3>4. PICK list : Sorted(list, D \ {m}, k - 1)
      <4> HIDE DEF Sorted
      <4>1. QED
        BY <1>3, <3>3
    <3> DEFINE new == [i \in 1..k |-> IF i = 1 THEN m ELSE list[i - 1]]
    <3>5. \A i \in 2..k : i - 1 \in 1..(k - 1) /\ new[i] = list[i - 1] /\ new[i] \in D \ {m}
      <4>1. \A i \in 2..k : i - 1 \in 1..(k - 1) /\ i \in 1..k /\ i # 1
        BY <3>1
      <4>2. QED
        BY <3>4, <4>1
    <3>6. new[1] = m /\ DOMAIN new = 1..k /\ new \in [1..k -> D]
      <4>1. \A i \in 1..k : i = 1 \/ i \in 2..k
        BY <3>1
      <4>2. 1 \in 1..k
        BY <1>3
      <4>3. QED
        BY <3>5, <4>1, <4>2
    <3> HIDE DEF new
    <3>7. ASSUME NEW i \in 1..k, NEW j \in 1..k, i < j
          PROVE  new[i] # new[j] /\ ~Before(new[j], new[i], orders)
      <4>1. j \in 2..k /\ (i = 1 \/ (i \in 2..k /\ i - 1 < j - 1))
        BY <3>1, <3>7
      <4>2. CASE i = 1
        BY <3>2, <3>5, <3>6, <4>1, <4>2
      <4>3. CASE i \in 2..k /\ i - 1 < j - 1
        BY <3>4, <3>5, <4>1, <4>3
      <4>4. QED
        BY <4>1, <4>2, <4>3
    <3>8. QED
      BY <3>6, <3>7
  <2> HIDE DEF Sorted
  <2>2. QED
    BY <1>1, <2>1
<1>4. 0..N \subseteq G
  <2> HIDE DEF G, N
  <2>1. QED
    BY <1>1, <1>2, <1>3, Upwards
<1>5. \E list : Sorted(list, all, N)
  <2>1. N \in 0..N /\ all \in SUBSET all
    BY <1>1
  <2> HIDE DEF Sorted
  <2>2. QED
    BY <1>4, <2>1
<1>6. QED
  BY <1>5

\* The stops of a shuttle: each once, in the order of the least orders.
LEMMA StopsOfAShuttle ==
  ASSUME NEW route
  PROVE  LET orders == RouteStops(route)
             list == GetStopsForTripshotRoute(route)
         IN /\ list \in Seq(DOMAIN NameRank)
            /\ ToSet(list) = DOMAIN orders
            /\ \A i, j \in DOMAIN list :
                 i < j => list[i] # list[j] /\ orders[list[i]] <= orders[list[j]]
<1> DEFINE orders == RouteStops(route)
           list == GetStopsForTripshotRoute(route)
           all == DOMAIN orders
           n == Cardinality(all)
<1>1. /\ IsFiniteSet(all) /\ all \subseteq DOMAIN NameRank
      /\ \A s \in all : orders[s] \in Nat
  BY RouteStopsAre
<1>2. /\ list \in [1..n -> all]
      /\ \A i, j \in DOMAIN list :
           i < j => list[i] # list[j] /\ ~Before(list[j], list[i], orders)
  <2> DEFINE Lists == [1..n -> all]
             Sorted(l) == \A i, j \in DOMAIN l :
                            i < j => l[i] # l[j] /\ ~Before(l[j], l[i], orders)
  <2>1. list = CHOOSE l \in Lists : Sorted(l)
    BY DEF GetStopsForTripshotRoute
  <2>2. \E l \in Lists : Sorted(l)
    <3> HIDE DEF orders
    <3>1. QED
      BY <1>1, SortedStops
  <2> HIDE DEF Lists, Sorted, list
  <2>3. list \in Lists /\ Sorted(list)
    BY <2>1, <2>2
  <2>4. QED
    BY <2>3 DEF Lists, Sorted
<1> HIDE DEF list, orders
<1>3. n \in Nat /\ DOMAIN list = 1..n
  BY <1>1, <1>2, FS_CardinalityType
<1>4. list \in Injection(1..n, all)
  <2>1. \A i, j \in 1..n : i # j => list[i] # list[j]
    <3>1. \A i, j \in 1..n : i < j => list[i] # list[j]
      BY <1>2, <1>3
    <3>2. \A i, j \in 1..n : i # j => i < j \/ j < i
      BY <1>3
    <3>3. QED
      BY <3>1, <3>2
  <2>2. QED
    BY <1>2, <2>1 DEF Injection, IsInjective
<1>5. list \in Surjection(1..n, all)
  <2> HIDE DEF n
  <2>1. IsFiniteSet(1..n) /\ Cardinality(1..n) = n
    BY <1>3, FS_Interval
  <2>2. Cardinality(1..n) = Cardinality(all)
    BY <2>1 DEF n
  <2>3. QED
    BY <1>1, <1>4, <2>1, <2>2, FS_Injection
<1>6. ToSet(list) = all
  BY <1>2, <1>3, <1>5 DEF ToSet, Surjection
<1>7. list \in Seq(DOMAIN NameRank)
  <2>1. list \in [1..n -> DOMAIN NameRank]
    BY <1>1, <1>2
  <2>2. QED
    BY <1>3, <2>1, SeqDef
<1>8. \A i, j \in DOMAIN list : i < j => orders[list[i]] <= orders[list[j]]
  <2>1. \A i \in DOMAIN list : orders[list[i]] \in Nat
    BY <1>1, <1>2
  <2>2. QED
    BY <1>2, <2>1 DEF Before
<1>9. QED
  BY <1>2, <1>6, <1>7, <1>8 DEF list, orders

-----------------------------------------------------------------------------
(* What the searches find *)

\* A result is among the first ones or these are as many as asked for.
LEMMA FoundOrCrowdedOut ==
  ASSUME NEW T, NEW list \in Seq(T), NEW positions \in SUBSET DOMAIN list,
         NEW i \in positions, NEW n \in Nat
  PROVE  LET found == UpTo(n, At(list, positions)) IN
         list[i] \in ToSet(found) \/ Len(found) = n
<1> DEFINE a == At(list, positions)
           found == UpTo(n, a)
<1>1. a \in Seq(T) /\ list[i] \in ToSet(a)
  BY AtElements
<1> HIDE DEF a
<1>2. Len(found) # n => found = a
  BY <1>1, UpToElements
<1>3. QED
  BY <1>1, <1>2 DEF a

\* A list made from another has the elements that were made.
LEMMA MadeList ==
  ASSUME NEW T, NEW list \in Seq(T), NEW made, made = [i \in DOMAIN list |-> made[i]], NEW U,
         ToSet(made) \subseteq U
  PROVE  made \in Seq(U)
<1>1. Len(list) \in Nat /\ DOMAIN list = 1..Len(list)
  OBVIOUS
<1> DEFINE n == Len(list)
<1>2. DOMAIN made = 1..n /\ \A i \in 1..n : made[i] \in U
  BY <1>1 DEF ToSet
<1>3. made \in [1..n -> U]
  BY <1>1, <1>2
<1>4. QED
  BY <1>1, <1>3, SeqDef

\* filterStopWords keeps the words that are none.
LEMMA MeaningfulWords ==
  ASSUME NEW q \in Seq(Words)
  PROVE  /\ FilterStopWords(q) \in Seq(Words)
         /\ ToSet(FilterStopWords(q)) = ToSet(q) \ StopWords
<1> DEFINE positions == {i \in DOMAIN q : q[i] \notin StopWords}
<1>1. positions \in SUBSET DOMAIN q
  OBVIOUS
<1>2. {q[i] : i \in positions} = ToSet(q) \ StopWords
  BY DEF ToSet
<1> HIDE DEF positions
<1>3. /\ At(q, positions) \in Seq(Words)
      /\ ToSet(At(q, positions)) = {q[i] : i \in positions}
  BY <1>1, AtElements
<1>4. QED
  BY <1>2, <1>3 DEF FilterStopWords, positions

\* Nothing is left of nothing.
LEMMA NoWords == FilterStopWords(<< >>) = << >>
<1>1. << >> \in Seq(Words) /\ ToSet(<< >>) = {}
  BY EmptySeq DEF ToSet
<1>2. FilterStopWords(<< >>) \in Seq(Words) /\ ToSet(FilterStopWords(<< >>)) = {}
  BY <1>1, MeaningfulWords
<1> DEFINE f == FilterStopWords(<< >>)
<1> HIDE DEF f
<1>3. ASSUME f # << >> PROVE FALSE
  <2>1. f \in Seq(Words) /\ ToSet(f) = {}
    BY <1>2 DEF f
  <2>2. 1 \in DOMAIN f
    BY <1>3, <2>1, EmptySeq
  <2>3. QED
    BY <2>1, <2>2 DEF ToSet
<1>4. QED
  BY <1>3 DEF f

\* A meaningful word stays as it is.
LEMMA OneWord ==
  ASSUME NEW w \in Words \ StopWords
  PROVE  FilterStopWords(<<w>>) = <<w>>
<1> DEFINE q == <<w>>
           f == FilterStopWords(q)
           positions == {i \in DOMAIN q : q[i] \notin StopWords}
<1>1. q \in Seq(Words) /\ Len(q) = 1 /\ DOMAIN q = {1} /\ q[1] = w
  OBVIOUS
<1>2. positions = {1} /\ f = At(q, positions)
  BY <1>1 DEF FilterStopWords
<1> HIDE DEF positions, q
<1>3. PICK pos \in [1..Len(f) -> positions] :
        /\ \A i \in 1..Len(f) : f[i] = q[pos[i]]
        /\ \A i, j \in 1..Len(f) : i < j => pos[i] < pos[j]
        /\ \A p \in positions : \E i \in 1..Len(f) : pos[i] = p
  <2>1. positions \in SUBSET DOMAIN q
    BY <1>1, <1>2
  <2>2. QED
    BY <1>1, <1>2, <2>1, AtKeepsOrder
<1>4. f \in Seq(Words)
  BY <1>1, MeaningfulWords
<1> HIDE DEF f
<1>5. Len(f) \in Nat
  BY <1>4
<1>6. Len(f) = 1
  <2>1. \E i \in 1..Len(f) : TRUE
    BY <1>2, <1>3
  <2>2. ASSUME Len(f) > 1 PROVE FALSE
    <3>1. 1 \in 1..Len(f) /\ 2 \in 1..Len(f) /\ 1 < 2
      BY <1>5, <2>2
    <3>2. pos[1] = 1 /\ pos[2] = 1 /\ pos[1] < pos[2]
      BY <1>2, <1>3, <3>1
    <3>3. QED
      BY <3>2
  <2>3. QED
    BY <1>5, <2>1, <2>2
<1>7. f[1] = w
  BY <1>1, <1>2, <1>3, <1>6
<1>8. f = <<w>>
  BY <1>4, <1>6, <1>7
<1>9. QED
  BY <1>8 DEF f, q

-----------------------------------------------------------------------------
(* The notifications *)

\* searchNotifications finds the notifications that meet every criterion given.
LEMMA NotificationsFound ==
  ASSUME NotificationsOK, NEW rs, NEW vs, NEW q
  PROVE  ToSet(SearchNotifications(rs, vs, q)) =
           {n \in ToSet(notifications) : /\ rs = {} \/ n.routeId \in rs
                                         /\ vs = {} \/ n.vid \in vs
                                         /\ q = << >> \/ Includes(n.message, q)}
<1> DEFINE positions == {i \in DOMAIN notifications :
                           /\ rs = {} \/ notifications[i].routeId \in rs
                           /\ vs = {} \/ notifications[i].vid \in vs
                           /\ q = << >> \/ Includes(notifications[i].message, q)}
           found == {n \in ToSet(notifications) : /\ rs = {} \/ n.routeId \in rs
                                                  /\ vs = {} \/ n.vid \in vs
                                                  /\ q = << >> \/ Includes(n.message, q)}
<1>1. positions \in SUBSET DOMAIN notifications
  OBVIOUS
<1>2. {notifications[i] : i \in positions} = found
  BY DEF ToSet
<1>3. SearchNotifications(rs, vs, q) = At(notifications, positions)
  BY DEF SearchNotifications
<1> HIDE DEF positions, found
<1>4. ToSet(At(notifications, positions)) = {notifications[i] : i \in positions}
  BY <1>1, AtElements DEF NotificationsOK
<1>5. ToSet(SearchNotifications(rs, vs, q)) = found
  BY <1>2, <1>3, <1>4
<1>6. QED
  BY <1>5 DEF found

\* With every criterion, a search finds what it finds with some of them and meets
\* the others.
LEMMA Narrowing ==
  ASSUME NotificationsOK
  PROVE  NarrowingNarrows
<1> SUFFICES ASSUME NEW r \in Routes, NEW v \in Vids, NEW q \in Queries, FilterStopWords(q) # << >>
             PROVE  LET by(rs, vs, text) == ToSet(NotificationSearch(rs, vs, text)) IN
                    /\ by({r}, {v}, q) = by({r}, {v}, << >>) \cap by({r}, {}, q) \cap by({}, {v}, q)
                    /\ by({r}, {v}, << >>) = by({r}, {}, << >>) \cap by({}, {v}, << >>)
                    /\ by({r}, {}, q) = by({r}, {}, << >>) \cap by({}, {}, q)
                    /\ by({}, {}, q) \subseteq by({}, {}, << >>)
  BY DEF NarrowingNarrows
<1> DEFINE f == FilterStopWords(q)
           Met(rs, vs, text) ==
             {n \in ToSet(notifications) : /\ rs = {} \/ n.routeId \in rs
                                           /\ vs = {} \/ n.vid \in vs
                                           /\ text = << >> \/ Includes(n.message, text)}
<1>1. \A rs, vs : /\ ToSet(NotificationSearch(rs, vs, q)) = Met(rs, vs, f)
                  /\ ToSet(NotificationSearch(rs, vs, << >>)) = Met(rs, vs, << >>)
  <2>1. TAKE rs, vs
  <2>2. NotificationSearch(rs, vs, q) = SearchNotifications(rs, vs, f)
    BY DEF NotificationSearch
  <2>3. NotificationSearch(rs, vs, << >>) = SearchNotifications(rs, vs, << >>)
    BY NoWords DEF NotificationSearch
  <2> HIDE DEF f
  <2>4. QED
    BY <2>2, <2>3, NotificationsFound
<1> HIDE DEF f
<1>2. /\ Met({r}, {v}, f) = Met({r}, {v}, << >>) \cap Met({r}, {}, f) \cap Met({}, {v}, f)
      /\ Met({r}, {v}, << >>) = Met({r}, {}, << >>) \cap Met({}, {v}, << >>)
      /\ Met({r}, {}, f) = Met({r}, {}, << >>) \cap Met({}, {}, f)
      /\ Met({}, {}, f) \subseteq Met({}, {}, << >>)
  OBVIOUS
<1> HIDE DEF Met
<1>3. QED
  BY <1>1, <1>2

AllRoutes == Routes \cup ToSet(ShuttleList)

\* Routes of the feed and shuttles, as getAllSubscribableRoutes lists them.
LEMMA SubscribableRoutes ==
  /\ GetRoutes \in Seq(Routes)
  /\ GetAllSubscribableRoutes \in Seq(AllRoutes)
  /\ ToSet(GetAllSubscribableRoutes) = ToSet(GetRoutes) \cup ToSet(ShuttleList)
<1> DEFINE positions == {i \in DOMAIN RouteList : RouteList[i] \in RouteMap}
<1>1. positions \in SUBSET DOMAIN RouteList
  OBVIOUS
<1> HIDE DEF positions
<1>2. At(RouteList, positions) \in Seq(Routes)
  BY <1>1, AtElements, ListsAssumption
<1>3. GetRoutes \in Seq(Routes)
  BY <1>2 DEF GetRoutes, positions
<1>4. GetRoutes \in Seq(AllRoutes) /\ ShuttleList \in Seq(AllRoutes)
  BY <1>3, ListsAssumption, SeqMonotonic DEF AllRoutes
<1>5. /\ GetRoutes \o ShuttleList \in Seq(AllRoutes)
      /\ ToSet(GetRoutes \o ShuttleList) = ToSet(GetRoutes) \cup ToSet(ShuttleList)
  BY <1>4, ConcatElements
<1>6. QED
  BY <1>3, <1>5 DEF GetAllSubscribableRoutes

\* The candidates are made from lists.
LEMMA ListsOfCandidates ==
  ASSUME NotificationsOK, NEW q
  PROVE  /\ UpTo(Caps.routes, RoutesNamed(GetAllSubscribableRoutes, q)) \in Seq(AllRoutes)
         /\ UpTo(Caps.vehicles, LiveVehiclesNamed(q)) \in Seq(Vids)
         /\ UpTo(Caps.reports, MatchingReports(q)) \in Seq(Notifications)
         /\ LET matching == UpTo(Caps.alerts, MatchingAlerts(q))
            IN \E T : At(matching, {i \in DOMAIN matching : matching[i].header # << >>}) \in Seq(T)
<1>1. /\ Caps.routes \in Nat /\ Caps.vehicles \in Nat /\ Caps.reports \in Nat
      /\ Caps.alerts \in Nat
  BY SearchAssumption
<1>2. UpTo(Caps.routes, RoutesNamed(GetAllSubscribableRoutes, q)) \in Seq(AllRoutes)
  <2> DEFINE list == GetAllSubscribableRoutes
             positions == {i \in DOMAIN list : \/ Includes(<<IdOf[list[i]]>>, q)
                                               \/ Includes(NameOf[list[i]], q)}
  <2>1. list \in Seq(AllRoutes) /\ positions \in SUBSET DOMAIN list
    BY SubscribableRoutes
  <2>2. RoutesNamed(list, q) = At(list, positions)
    BY DEF RoutesNamed
  <2> HIDE DEF list, positions
  <2>3. RoutesNamed(list, q) \in Seq(AllRoutes)
    BY <2>1, <2>2, AtElements
  <2>4. UpTo(Caps.routes, RoutesNamed(list, q)) \in Seq(AllRoutes)
    BY <1>1, <2>3, UpToElements
  <2>5. QED
    BY <2>4 DEF list
<1>3. UpTo(Caps.vehicles, LiveVehiclesNamed(q)) \in Seq(Vids)
  <2> DEFINE positions == {i \in DOMAIN LiveVehicles : Includes(<<IdOf[LiveVehicles[i]]>>, q)}
  <2>1. positions \in SUBSET DOMAIN LiveVehicles
    OBVIOUS
  <2>2. LiveVehiclesNamed(q) = At(LiveVehicles, positions)
    BY DEF LiveVehiclesNamed
  <2> HIDE DEF positions
  <2>3. LiveVehiclesNamed(q) \in Seq(Vids)
    BY <2>1, <2>2, AtElements, ListsAssumption
  <2>4. QED
    BY <1>1, <2>3, UpToElements
<1>4. UpTo(Caps.reports, MatchingReports(q)) \in Seq(Notifications)
  <2> DEFINE positions ==
               {i \in DOMAIN notifications : MatchesNotificationText(notifications[i], q)}
  <2>1. positions \in SUBSET DOMAIN notifications
    OBVIOUS
  <2>2. MatchingReports(q) = At(notifications, positions)
    BY DEF MatchingReports
  <2> HIDE DEF positions
  <2>3. MatchingReports(q) \in Seq(Notifications)
    BY <2>1, <2>2, AtElements DEF NotificationsOK
  <2>4. QED
    BY <1>1, <2>3, UpToElements
<1>5. LET matching == UpTo(Caps.alerts, MatchingAlerts(q))
      IN \E T : At(matching, {i \in DOMAIN matching : matching[i].header # << >>}) \in Seq(T)
  <2> DEFINE positions == {i \in DOMAIN Alerts :
               \/ Includes(Alerts[i].header, q) \/ Includes(Alerts[i].description, q)
               \/ \E r \in Alerts[i].routes : Includes(<<IdOf[r]>>, q)}
             matching == UpTo(Caps.alerts, MatchingAlerts(q))
             headed == {i \in DOMAIN matching : matching[i].header # << >>}
  <2>1. PICK T : Alerts \in Seq(T)
    BY ListsAssumption
  <2>2. positions \in SUBSET DOMAIN Alerts /\ MatchingAlerts(q) = At(Alerts, positions)
    BY DEF MatchingAlerts
  <2>3. headed \in SUBSET DOMAIN matching
    OBVIOUS
  <2> HIDE DEF positions
  <2>4. MatchingAlerts(q) \in Seq(T)
    BY <2>1, <2>2, AtElements
  <2>5. matching \in Seq(T)
    BY <1>1, <2>4, UpToElements
  <2> HIDE DEF matching, headed
  <2>6. At(matching, headed) \in Seq(T)
    BY <2>3, <2>5, AtElements
  <2>7. QED
    BY <2>6 DEF matching, headed
<1>6. QED
  BY <1>2, <1>3, <1>4, <1>5

\* The reports that are suggested are notifications that match the query.
LEMMA ReportsMatch ==
  ASSUME NotificationsOK, NEW q
  PROVE  ToSet(UpTo(Caps.reports, MatchingReports(q)))
           \subseteq {n \in ToSet(notifications) : MatchesNotificationText(n, q)}
<1> DEFINE positions ==
             {i \in DOMAIN notifications : MatchesNotificationText(notifications[i], q)}
<1>1. positions \in SUBSET DOMAIN notifications /\ Caps.reports \in Nat
  BY SearchAssumption
<1>2. MatchingReports(q) = At(notifications, positions)
  BY DEF MatchingReports
<1>3. {notifications[i] : i \in positions}
        \subseteq {n \in ToSet(notifications) : MatchesNotificationText(n, q)}
  BY DEF ToSet
<1> HIDE DEF positions
<1>4. /\ MatchingReports(q) \in Seq(Notifications)
      /\ ToSet(MatchingReports(q)) = {notifications[i] : i \in positions}
  BY <1>1, <1>2, AtElements DEF NotificationsOK
<1>5. ToSet(UpTo(Caps.reports, MatchingReports(q))) \subseteq ToSet(MatchingReports(q))
  BY <1>1, <1>4, UpToElements
<1>6. QED
  BY <1>3, <1>4, <1>5

\* A suggestion with a route and a bus was made from a report that matches.
LEMMA CandidatesAre ==
  ASSUME NotificationsOK, NEW q
  PROVE  /\ Candidates(q) \in Seq(ToSet(Candidates(q)))
         /\ \A s \in ToSet(Candidates(q)) : \A of \in s.of :
              \E n \in ToSet(notifications) :
                MatchesNotificationText(n, q) /\ of = <<n.routeId, n.vid>>
<1> DEFINE routes   == UpTo(Caps.routes, RoutesNamed(GetAllSubscribableRoutes, q))
           vehicles == UpTo(Caps.vehicles, LiveVehiclesNamed(q))
           reports  == UpTo(Caps.reports, MatchingReports(q))
           matching == UpTo(Caps.alerts, MatchingAlerts(q))
           alerts   == At(matching, {i \in DOMAIN matching : matching[i].header # << >>})
           A == [i \in DOMAIN routes   |-> Suggestion("route", <<IdOf[routes[i]]>>, {})]
           B == [i \in DOMAIN vehicles |-> Suggestion("vehicle", <<IdOf[vehicles[i]]>>, {})]
           C == [i \in DOMAIN reports  |->
                   Suggestion("notification", <<IdOf[reports[i].routeId], IdOf[reports[i].vid]>>,
                              {<<reports[i].routeId, reports[i].vid>>})]
           D == [i \in DOMAIN alerts   |-> Suggestion("alert", alerts[i].header, {})]
           U == ToSet(A) \cup ToSet(B) \cup ToSet(C) \cup ToSet(D)
<1>1. Candidates(q) = A \o B \o C \o D
  BY DEF Candidates
<1>2. PICK T1, T2, T3, T4 : routes \in Seq(T1) /\ vehicles \in Seq(T2) /\ reports \in Seq(T3)
                            /\ alerts \in Seq(T4)
  BY ListsOfCandidates
<1>3. ToSet(reports) \subseteq {n \in ToSet(notifications) : MatchesNotificationText(n, q)}
  BY ReportsMatch
<1>4. /\ \A s \in ToSet(A) : s.of = {}
      /\ \A s \in ToSet(B) : s.of = {}
      /\ \A s \in ToSet(D) : s.of = {}
      /\ \A s \in ToSet(C) : \E n \in ToSet(reports) : s.of = {<<n.routeId, n.vid>>}
  <2> HIDE DEF routes, vehicles, reports, alerts
  <2>1. /\ DOMAIN A = DOMAIN routes /\ \A i \in DOMAIN routes : A[i].of = {}
        /\ DOMAIN B = DOMAIN vehicles /\ \A i \in DOMAIN vehicles : B[i].of = {}
        /\ DOMAIN D = DOMAIN alerts /\ \A i \in DOMAIN alerts : D[i].of = {}
    BY DEF Suggestion
  <2>2. /\ DOMAIN C = DOMAIN reports
        /\ \A i \in DOMAIN reports : C[i].of = {<<reports[i].routeId, reports[i].vid>>}
    BY DEF Suggestion
  <2> HIDE DEF A, B, C, D
  <2>3. QED
    BY <2>1, <2>2 DEF ToSet
<1>5. A \in Seq(U) /\ B \in Seq(U) /\ C \in Seq(U) /\ D \in Seq(U)
  <2>1. /\ A = [i \in DOMAIN routes |-> A[i]] /\ B = [i \in DOMAIN vehicles |-> B[i]]
        /\ C = [i \in DOMAIN reports |-> C[i]] /\ D = [i \in DOMAIN alerts |-> D[i]]
    OBVIOUS
  <2> HIDE DEF A, B, C, D, routes, vehicles, reports, alerts
  <2>2. ToSet(A) \subseteq U /\ ToSet(B) \subseteq U /\ ToSet(C) \subseteq U /\ ToSet(D) \subseteq U
    OBVIOUS
  <2> HIDE DEF U
  <2>3. A \in Seq(U)
    BY <1>2, <2>1, <2>2, MadeList
  <2>4. B \in Seq(U)
    BY <1>2, <2>1, <2>2, MadeList
  <2>5. C \in Seq(U)
    BY <1>2, <2>1, <2>2, MadeList
  <2>6. D \in Seq(U)
    BY <1>2, <2>1, <2>2, MadeList
  <2>7. QED
    BY <2>3, <2>4, <2>5, <2>6
<1> HIDE DEF A, B, C, D, reports
<1>6. A \o B \o C \o D \in Seq(U) /\ ToSet(A \o B \o C \o D) = U
  <2> DEFINE AB == A \o B
             ABC == AB \o C
  <2> HIDE DEF U
  <2>1. AB \in Seq(U) /\ ToSet(AB) = ToSet(A) \cup ToSet(B)
    BY <1>5, ConcatElements
  <2> HIDE DEF AB
  <2>2. ABC \in Seq(U) /\ ToSet(ABC) = ToSet(AB) \cup ToSet(C)
    BY <1>5, <2>1, ConcatElements
  <2> HIDE DEF ABC
  <2>3. ABC \o D \in Seq(U) /\ ToSet(ABC \o D) = ToSet(ABC) \cup ToSet(D)
    BY <1>5, <2>2, ConcatElements
  <2>4. ToSet(ABC \o D) = U
    BY <2>1, <2>2, <2>3 DEF U
  <2>5. QED
    BY <2>3, <2>4 DEF ABC, AB
<1>7. \A s \in U : \A of \in s.of :
        \E n \in ToSet(notifications) :
          MatchesNotificationText(n, q) /\ of = <<n.routeId, n.vid>>
  BY <1>3, <1>4
<1> HIDE DEF U
<1>8. QED
  BY <1>1, <1>6, <1>7

\* A suggestion of a report leads to it.
LEMMA Suggesting ==
  ASSUME NotificationsOK
  PROVE  SuggestionsLeadToReports
<1> SUFFICES ASSUME NEW q \in Queries
             PROVE  LET chosen == Autocomplete(q) IN
                    /\ Len(chosen) <= Caps.total
                    /\ Cardinality({s.label : s \in ToSet(chosen)}) = Len(chosen)
                    /\ \A s \in ToSet(chosen) : \A of \in s.of :
                         \E n \in ToSet(NotificationSearch({of[1]}, {of[2]}, << >>)) :
                           MatchesNotificationText(n, FilterStopWords(q))
  BY DEF SuggestionsLeadToReports
<1> DEFINE f == FilterStopWords(q)
           list == Candidates(f)
           labels == [i \in DOMAIN list |-> list[i].label]
           chosen == UpTo(Caps.total, At(list, FirstsOf(labels)))
           T == ToSet(list)
<1>1. Autocomplete(q) = IF f = << >> THEN << >> ELSE chosen
  BY DEF Autocomplete
<1>2. Caps.total \in Nat
  BY SearchAssumption
<1>3. /\ list \in Seq(T)
      /\ \A s \in ToSet(list) : \A of \in s.of :
           \E n \in ToSet(notifications) :
             MatchesNotificationText(n, f) /\ of = <<n.routeId, n.vid>>
  <2> HIDE DEF f
  <2>1. QED
    BY CandidatesAre
<1> HIDE DEF f, list, T
<1>4. /\ chosen \in Seq(T) /\ Len(chosen) <= Caps.total /\ ToSet(chosen) \subseteq ToSet(list)
      /\ \A i, j \in 1..Len(chosen) : i # j => chosen[i].label # chosen[j].label
  BY <1>2, <1>3, FirstsDiffer
<1> HIDE DEF chosen
<1>5. CASE f = << >>
  <2>1. /\ Autocomplete(q) = << >> /\ Len(<< >>) = 0 /\ ToSet(<< >>) = {}
        /\ << >> \in Seq(T)
    BY <1>1, <1>5, EmptySeq DEF ToSet
  <2>2. Cardinality({s.label : s \in ToSet(<< >>)}) = 0
    <3>1. {s.label : s \in ToSet(<< >>)} = {}
      BY <2>1
    <3>2. QED
      BY <3>1, FS_EmptySet
  <2>3. QED
    BY <1>2, <2>1, <2>2
<1>6. CASE f # << >>
  <2>1. Autocomplete(q) = chosen
    BY <1>1, <1>6
  <2>2. Cardinality({s.label : s \in ToSet(chosen)}) = Len(chosen)
    BY <1>4, LabelsOfFirsts
  <2>3. ASSUME NEW s \in ToSet(chosen), NEW of \in s.of
        PROVE  \E n \in ToSet(NotificationSearch({of[1]}, {of[2]}, << >>)) :
                 MatchesNotificationText(n, f)
    <3>1. PICK n \in ToSet(notifications) :
            MatchesNotificationText(n, f) /\ of = <<n.routeId, n.vid>>
      BY <1>3, <1>4, <2>3
    <3>2. NotificationSearch({of[1]}, {of[2]}, << >>)
            = SearchNotifications({of[1]}, {of[2]}, << >>)
      BY NoWords DEF NotificationSearch
    <3>3. n \in ToSet(SearchNotifications({of[1]}, {of[2]}, << >>))
      <4>1. of[1] = n.routeId /\ of[2] = n.vid
        BY <3>1
      <4>2. QED
        BY <3>1, <4>1, NotificationsFound
    <3>4. QED
      BY <3>1, <3>2, <3>3
  <2>4. QED
    BY <1>4, <2>1, <2>2, <2>3 DEF f
<1>7. QED
  BY <1>5, <1>6

-----------------------------------------------------------------------------
(* The schedule and the shuttles *)

\* An id matches every text that has it as a word.
LEMMA IdsMatch ==
  ASSUME NEW x \in DOMAIN IdOf, NEW text \in Seq(Words), IdOf[x] \in ToSet(text)
  PROVE  MatchesAllQueryTokens(ToSearchTokens(<<IdOf[x]>>), text)
<1> DEFINE w == IdOf[x]
           one == [i \in DOMAIN <<w>> |-> AliasOf[<<w>>[i]]]
           all == [i \in DOMAIN text |-> AliasOf[text[i]]]
<1>1. w \in Words /\ AliasOf[w] \in Words \ StopWords
  BY NamesAssumption, SearchAssumption
<1>2. one \in Seq(Words) /\ ToSet(one) = {AliasOf[w]}
  <2> HIDE DEF w
  <2>1. DOMAIN <<w>> = {1} /\ <<w>>[1] = w
    OBVIOUS
  <2>2. one = <<AliasOf[w]>>
    BY <2>1
  <2>3. <<AliasOf[w]>> \in Seq(Words) /\ ToSet(<<AliasOf[w]>>) = {AliasOf[w]}
    BY <1>1 DEF ToSet
  <2>4. QED
    BY <2>2, <2>3
<1>3. all \in Seq(Words) /\ AliasOf[w] \in ToSet(all)
  <2>1. PICK k \in DOMAIN text : text[k] = w
    BY DEF ToSet
  <2>2. \A i \in DOMAIN text : text[i] \in Words
    BY ElementOfSeq, LenProperties
  <2>3. DOMAIN all = DOMAIN text /\ \A i \in DOMAIN text : all[i] = AliasOf[text[i]]
    OBVIOUS
  <2>4. all = [i \in DOMAIN text |-> all[i]]
    OBVIOUS
  <2> HIDE DEF all, w
  <2>5. ToSet(all) \subseteq Words
    BY <2>2, <2>3, SearchAssumption DEF ToSet
  <2>6. all \in Seq(Words)
    BY <2>4, <2>5, MadeList
  <2>7. QED
    BY <2>1, <2>3, <2>6 DEF ToSet
<1>4. /\ ToSearchTokens(<<w>>) = FilterStopWords(one)
      /\ ToSearchTokens(text) = FilterStopWords(all)
  BY DEF ToSearchTokens
<1> HIDE DEF one, all, w
<1>5. /\ ToSearchTokens(<<w>>) \in Seq(Words) /\ ToSet(ToSearchTokens(<<w>>)) = {AliasOf[w]}
      /\ AliasOf[w] \in ToSet(ToSearchTokens(text))
  <2>1. /\ FilterStopWords(one) \in Seq(Words)
        /\ ToSet(FilterStopWords(one)) = ToSet(one) \ StopWords
    BY <1>2, MeaningfulWords
  <2>2. ToSet(FilterStopWords(all)) = ToSet(all) \ StopWords
    BY <1>3, MeaningfulWords
  <2>3. QED
    BY <1>1, <1>2, <1>3, <1>4, <2>1, <2>2
<1>6. ToSearchTokens(<<w>>) # << >>
  <2>1. ToSet(<< >>) = {}
    BY DEF ToSet
  <2>2. QED
    BY <1>5, <2>1
<1>7. MatchesAllQueryTokens(ToSearchTokens(<<w>>), text)
  BY <1>5, <1>6 DEF MatchesAllQueryTokens, Within
<1>8. QED
  BY <1>7 DEF w

\* Both searches of the map page find a route by its id.
LEMMA RoutesFound == RoutesAreFoundById
<1> SUFFICES ASSUME NEW r \in ToSet(GetAllSubscribableRoutes)
             PROVE  LET Answers(found) == r \in ToSet(found) \/ Len(found) = Caps.results IN
                    /\ Answers(TransitSearch(<<IdOf[r]>>).routes)
                    /\ r \in Routes => Answers(RouteSearch(<<IdOf[r]>>))
  BY DEF RoutesAreFoundById
<1> DEFINE w == IdOf[r]
           list == GetAllSubscribableRoutes
<1>1. /\ list \in Seq(AllRoutes) /\ ToSet(list) = ToSet(GetRoutes) \cup ToSet(ShuttleList)
      /\ GetRoutes \in Seq(Routes)
  BY SubscribableRoutes
<1>2. PICK i \in DOMAIN list : list[i] = r
  BY DEF ToSet
<1>3. r \in AllRoutes /\ Caps.results \in Nat
  BY <1>1, <1>2, ElementOfSeq, LenProperties, SearchAssumption
<1>4. r \in DOMAIN IdOf /\ w \in Words \ StopWords /\ NameOf[r] \in Seq(Words)
  BY <1>3, NamesAssumption DEF AllRoutes
<1>5. LET found == TransitSearch(<<w>>).routes IN r \in ToSet(found) \/ Len(found) = Caps.results
  <2> DEFINE tokens == ToSearchTokens(<<w>>)
             positions == {k \in DOMAIN list :
                             MatchesAllQueryTokens(tokens, <<IdOf[list[k]]>> \o NameOf[list[k]])}
  <2>1. MatchesAllQueryTokens(tokens, <<w>> \o NameOf[r])
    <3>1. <<w>> \in Seq(Words) /\ w \in ToSet(<<w>>)
      BY <1>4 DEF ToSet
    <3>2. <<w>> \o NameOf[r] \in Seq(Words) /\ w \in ToSet(<<w>> \o NameOf[r])
      <4> DEFINE one == <<w>>
                 name == NameOf[r]
      <4>1. one \in Seq(Words) /\ name \in Seq(Words) /\ w \in ToSet(one)
        BY <1>4, <3>1
      <4> HIDE DEF one, name, w
      <4>2. one \o name \in Seq(Words) /\ w \in ToSet(one \o name)
        BY <4>1, ConcatElements
      <4>3. QED
        BY <4>2 DEF one, name
    <3>3. QED
      BY <1>4, <3>2, IdsMatch
  <2>2. i \in positions /\ positions \in SUBSET DOMAIN list
    BY <1>2, <2>1
  <2>3. TransitSearch(<<w>>).routes = UpTo(Caps.results, At(list, positions))
    BY DEF TransitSearch
  <2> HIDE DEF list, positions
  <2>4. LET found == UpTo(Caps.results, At(list, positions))
        IN list[i] \in ToSet(found) \/ Len(found) = Caps.results
    BY <1>1, <1>3, <2>2, FoundOrCrowdedOut
  <2>5. QED
    BY <1>2, <2>3, <2>4
<1>6. ASSUME r \in Routes
      PROVE  LET found == RouteSearch(<<w>>) IN r \in ToSet(found) \/ Len(found) = Caps.results
  <2> DEFINE routes == GetRoutes
             positions == {k \in DOMAIN routes : \/ Includes(<<IdOf[routes[k]]>>, <<w>>)
                                                 \/ Includes(NameOf[routes[k]], <<w>>)}
  <2>1. PICK k \in DOMAIN routes : routes[k] = r
    BY <1>1, <1>6, ListsAssumption DEF ToSet
  <2>2. Includes(<<w>>, <<w>>)
    <3>1. Len(<<w>>) = 1 /\ DOMAIN <<w>> = {1} /\ 0 \in 0..(1 - 1)
      OBVIOUS
    <3>2. \A m \in {1} : Within(<<w>>[m], <<w>>[0 + m])
      BY DEF Within
    <3>3. QED
      BY <3>1, <3>2 DEF Includes
  <2>3. k \in positions /\ positions \in SUBSET DOMAIN routes
    BY <2>1, <2>2
  <2>4. RouteSearch(<<w>>) = UpTo(Caps.results, At(routes, positions))
    <3>1. FilterStopWords(<<w>>) = <<w>> /\ <<w>> # << >>
      BY <1>4, OneWord
    <3>2. QED
      BY <3>1 DEF RouteSearch, RoutesNamed
  <2> HIDE DEF routes, positions
  <2>5. LET found == UpTo(Caps.results, At(routes, positions))
        IN routes[k] \in ToSet(found) \/ Len(found) = Caps.results
    <3>1. routes \in Seq(Routes)
      BY <1>1 DEF routes
    <3>2. QED
      BY <1>3, <2>3, <3>1, FoundOrCrowdedOut
  <2>6. QED
    BY <2>1, <2>4, <2>5
<1>7. QED
  BY <1>5, <1>6

\* All stops of the shuttles are searched.
LEMMA ShuttleStopsSearched ==
  /\ ShuttleStops \in Seq(DOMAIN NameRank)
  /\ \A r \in ToSet(ShuttleList) :
       ToSet(GetStopsForTripshotRoute(r)) \subseteq ToSet(ShuttleStops)
<1> DEFINE lists == [i \in DOMAIN ShuttleList |-> GetShuttleStops(ShuttleList[i], "ANY")]
           all == FlattenSeq(lists)
           S == DOMAIN NameRank
<1>1. DOMAIN lists = DOMAIN ShuttleList
      /\ \A i \in DOMAIN lists : lists[i] = GetStopsForTripshotRoute(ShuttleList[i])
  BY DEF GetShuttleStops
<1>2. lists \in Seq(Seq(S))
  <2>1. lists = [i \in DOMAIN ShuttleList |-> lists[i]]
    OBVIOUS
  <2> HIDE DEF lists
  <2>2. \A i \in DOMAIN lists : lists[i] \in Seq(S)
    BY <1>1, StopsOfAShuttle
  <2>3. ToSet(lists) \subseteq Seq(S)
    BY <2>2 DEF ToSet
  <2>4. QED
    BY <2>1, <2>3, ListsAssumption, MadeList
<1> HIDE DEF lists
<1>3. all \in Seq(S) /\ ToSet(all) = UNION {ToSet(lists[i]) : i \in DOMAIN lists}
  BY <1>2, FlattenElements
<1>4. ShuttleStops = At(all, FirstsOf(all))
  BY DEF ShuttleStops, lists
<1> HIDE DEF all
<1>5. /\ At(all, FirstsOf(all)) \in Seq(S)
      /\ ToSet(At(all, FirstsOf(all))) = ToSet(all)
  <2>1. FirstsOf(all) \in SUBSET DOMAIN all
    BY DEF FirstsOf
  <2>2. QED
    BY <1>3, <2>1, AtElements, FirstsElements
<1>6. ASSUME NEW r \in ToSet(ShuttleList)
      PROVE  ToSet(GetStopsForTripshotRoute(r)) \subseteq ToSet(all)
  <2>1. PICK i \in DOMAIN ShuttleList : ShuttleList[i] = r
    BY DEF ToSet
  <2>2. lists[i] = GetStopsForTripshotRoute(r) /\ i \in DOMAIN lists
    BY <1>1, <2>1
  <2>3. QED
    BY <1>3, <2>2
<1>7. QED
  BY <1>4, <1>5, <1>6

\* The map's search finds a stop of a shuttle by its id.
LEMMA ShuttleStopFound ==
  ASSUME NEW r \in ToSet(ShuttleList), NEW s \in ToSet(GetStopsForTripshotRoute(r))
  PROVE  LET found == TransitSearch(<<IdOf[s]>>).stops IN
         s \in ToSet(found) \/ Len(found) = Caps.results
<1> DEFINE w == IdOf[s]
           list == StopsInOrder \o ShuttleStops
           S == Stops \cup DOMAIN NameRank
           tokens == ToSearchTokens(<<w>>)
           positions == {k \in DOMAIN list :
                           MatchesAllQueryTokens(tokens, StopNameOf[list[k]] \o <<IdOf[list[k]]>>)}
<1>1. s \in ToSet(ShuttleStops) /\ s \in DOMAIN NameRank
  <2>1. ToSet(GetStopsForTripshotRoute(r)) \subseteq DOMAIN NameRank
    BY RouteStopsAre, StopsOfAShuttle
  <2>2. QED
    BY <2>1, ShuttleStopsSearched
<1>2. StopsInOrder \in Seq(S)
  <2> DEFINE known == {i \in DOMAIN StopList : StopList[i] \in StopMap}
  <2>1. known \in SUBSET DOMAIN StopList
    OBVIOUS
  <2> HIDE DEF known
  <2>2. At(StopList, known) \in Seq(Stops)
    BY <2>1, ListsAssumption, AtElements
  <2>3. At(StopList, known) \in Seq(S)
    BY <2>2, SeqMonotonic
  <2>4. QED
    BY <2>3 DEF StopsInOrder, known
<1>3. ShuttleStops \in Seq(S)
  BY ShuttleStopsSearched, SeqMonotonic
<1>4. list \in Seq(S) /\ s \in ToSet(list)
  BY <1>1, <1>2, <1>3, ConcatElements
<1>5. TransitSearch(<<w>>).stops = UpTo(Caps.results, At(list, positions))
  BY DEF TransitSearch
<1>6. PICK i \in DOMAIN list : list[i] = s
  BY <1>4 DEF ToSet
<1>7. s \in DOMAIN IdOf /\ w \in Words /\ StopNameOf[s] \in Seq(Words) /\ Caps.results \in Nat
  BY <1>1, NamesAssumption, SearchAssumption
<1>8. MatchesAllQueryTokens(tokens, StopNameOf[s] \o <<w>>)
  <2> DEFINE one == <<w>>
             name == StopNameOf[s]
  <2>1. one \in Seq(Words) /\ name \in Seq(Words) /\ w \in ToSet(one)
    BY <1>7 DEF ToSet
  <2> HIDE DEF one, name
  <2>2. name \o one \in Seq(Words) /\ w \in ToSet(name \o one)
    <3> HIDE DEF w
    <3>1. QED
      BY <2>1, ConcatElements
  <2>3. MatchesAllQueryTokens(tokens, name \o one)
    BY <1>7, <2>2, IdsMatch
  <2>4. QED
    BY <2>3 DEF one, name
<1>9. i \in positions /\ positions \in SUBSET DOMAIN list
  BY <1>6, <1>8
<1> HIDE DEF list, positions
<1>10. LET found == UpTo(Caps.results, At(list, positions))
       IN list[i] \in ToSet(found) \/ Len(found) = Caps.results
  BY <1>4, <1>7, <1>9, FoundOrCrowdedOut
<1>11. QED
  BY <1>5, <1>6, <1>10

\* The stops of a shuttle are those of its rows, where it first calls at them.
LEMMA ShuttlesListed == ShuttleStopsAreListed
<1> SUFFICES ASSUME NEW r \in ToSet(ShuttleList)
             PROVE  LET rows  == {row \in ToSet(StopRows) : row.route = r}
                        stops == GetShuttleStops(r, "OUTBOUND")
                        FirstCall(s) == Min({row.order : row \in {x \in rows : x.stop = s}})
                    IN /\ ToSet(stops) = {row.stop : row \in rows}
                       /\ \A i, j \in DOMAIN stops : i < j =>
                            stops[i] # stops[j] /\ FirstCall(stops[i]) <= FirstCall(stops[j])
                       /\ \A s \in ToSet(stops) :
                            LET found == TransitSearch(<<IdOf[s]>>).stops
                            IN s \in ToSet(found) \/ Len(found) = Caps.results
  BY DEF ShuttleStopsAreListed
<1> DEFINE rows == {row \in ToSet(StopRows) : row.route = r}
           stops == GetShuttleStops(r, "OUTBOUND")
           FirstCall(s) == Min({row.order : row \in {x \in rows : x.stop = s}})
           orders == RouteStops(r)
<1>1. stops = GetStopsForTripshotRoute(r) /\ rows = RowsOf(r)
  BY DEF GetShuttleStops, RowsOf
<1>2. /\ DOMAIN orders = {row.stop : row \in rows}
      /\ \A row \in rows : row.order \in Nat /\ orders[row.stop] <= row.order
      /\ \A s \in DOMAIN orders :
           /\ orders[s] \in Nat
           /\ \E row \in rows : row.stop = s /\ row.order = orders[s]
  BY <1>1, RouteStopsAre
<1>3. /\ ToSet(stops) = DOMAIN orders
      /\ \A i, j \in DOMAIN stops :
           i < j => stops[i] # stops[j] /\ orders[stops[i]] <= orders[stops[j]]
  BY <1>1, StopsOfAShuttle
<1>4. \A s \in ToSet(stops) :
        LET found == TransitSearch(<<IdOf[s]>>).stops
        IN s \in ToSet(found) \/ Len(found) = Caps.results
  BY <1>1, ShuttleStopFound
<1> HIDE DEF rows, stops, orders
<1>5. ASSUME NEW s \in DOMAIN orders
      PROVE  FirstCall(s) = orders[s]
  <2> DEFINE S == {row.order : row \in {x \in rows : x.stop = s}}
  <2>1. S \subseteq Nat /\ orders[s] \in S /\ \A n \in S : orders[s] <= n
    BY <1>2
  <2> HIDE DEF S
  <2>2. Min(S) \in S /\ \A n \in S : Min(S) <= n
    BY <2>1, MinOfNaturals
  <2>3. Min(S) = orders[s]
    <3> DEFINE least == Min(S)
               first == orders[s]
    <3>1. least \in Nat /\ first \in Nat /\ least <= first /\ first <= least
      BY <2>1, <2>2
    <3> HIDE DEF least, first
    <3>2. least = first
      BY <3>1
    <3>3. QED
      BY <3>2 DEF least, first
  <2>4. QED
    BY <2>3 DEF S
<1> HIDE DEF FirstCall
<1>6. \A i, j \in DOMAIN stops : i < j =>
        stops[i] # stops[j] /\ FirstCall(stops[i]) <= FirstCall(stops[j])
  <2>1. \A i \in DOMAIN stops : stops[i] \in DOMAIN orders
    BY <1>3 DEF ToSet
  <2>2. QED
    BY <1>3, <1>5, <2>1
<1>7. QED
  BY <1>2, <1>3, <1>4, <1>6 DEF rows, stops, FirstCall

\* For every schedule, shuttles and notifications: the searches agree with each
\* other, narrowing narrows, suggestions lead to reports, and ids find what they name.
THEOREM SearchesAreConsistent == Spec => []SearchesAgree
<1>1. IInv => SearchesAgree
  BY Narrowing, Suggesting, RoutesFound, ShuttlesListed DEF IInv, SearchesAgree
<1>2. QED
  BY <1>1, Invariance, PTL
=============================================================================
