------------------------------ MODULE PanelsProofs ------------------------------
(***************************************************************************)
(* Proofs about Panels, for any sets of stops, routes and buses.           *)
(*                                                                         *)
(* Each operation of MapPopup gets a lemma that says what it returns and   *)
(* that the tabs still fit the cache.  The buttons of a popup call back    *)
(* once for each subject they are bound to: what holds of one callback     *)
(* holds of all, as the first call that broke it would have found it       *)
(* intact (Upwards).                                                       *)
(*                                                                         *)
(* The invariant of ArrivalsNeedARace, Own, follows the arrivals through   *)
(* the cache, and says of every popup that lists arrivals that whoever     *)
(* can still write into it, the stop that is polled and the refreshes      *)
(* under way, is its own stop or noted with it.                            *)
(***************************************************************************)
EXTENDS Panels, SequenceTheorems, WellFoundedInduction, TLAPS

\* The tabs of a type fit what is cached of it.
Has(p, t) == IF t \in DOMAIN p.slots THEN 1 ELSE 0
Fits(p, t) ==
  /\ t \in DOMAIN p.slots => p.tabs[t] # << >> /\ Last(p.tabs[t]) = p.slots[t].subject
  /\ Len(p.tabs[t]) <= p.overwritten[t] + Has(p, t)
Restorable(p) == \A t \in Types : Fits(p, t)

\* Operations leave a type alone.
SameType(q, p, t) ==
  /\ q.tabs[t] = p.tabs[t] /\ q.overwritten[t] = p.overwritten[t]
  /\ t \in DOMAIN q.slots <=> t \in DOMAIN p.slots
  /\ t \in DOMAIN p.slots => q.slots[t] = p.slots[t]

\* Then its tabs still fit.
LEMMA SameFits ==
  ASSUME NEW q, NEW p, NEW t, Fits(p, t), SameType(q, p, t)
  PROVE  Fits(q, t)
BY DEF Fits, SameType, Has

-----------------------------------------------------------------------------
(* The operations of MapPopup *)

\* Subjects are of one kind each, and NoSubject of none.
LEMMA Kinds ==
  /\ \A s \in Subjects : TypeOf[s] \in Types
  /\ NoSubject \notin Subjects
  /\ Stops \subseteq Subjects /\ Routes \subseteq Subjects /\ Of("bus") \subseteq Subjects
  /\ \A s \in Subjects : s \in Stops <=> TypeOf[s] = "stop"
BY PopupAssumption DEF Stops, Routes, Of

\* An empty cache entry is a content.
LEMMA BlankIsContent == Blank \in Contents
BY DEF Blank, Content, Contents

\* closeMapPopup takes away the oldest popup and nothing else.
LEMMA Closing ==
  ASSUME NEW p, IsPopups(p)
  PROVE  LET q == CloseMapPopup(p) IN
         /\ IsPopups(q)
         /\ q.active = p.active /\ q.tabs = p.tabs /\ q.slots = p.slots
         /\ q.overwritten = p.overwritten
         /\ q.windows = IF p.windows = << >> THEN << >> ELSE Tail(p.windows)
<1> DEFINE ws == IF p.windows = << >> THEN p.windows ELSE Tail(p.windows)
<1>1. ws \in Seq(Windows)
  BY DEF IsPopups
<1>2. CloseMapPopup(p) = [p EXCEPT !.windows = ws]
  BY DEF CloseMapPopup
<1> HIDE DEF ws
<1>3. QED
  BY <1>1, <1>2 DEF IsPopups, ws

\* removeTabForType takes the oldest tab of its type.
LEMMA RemovingATab ==
  ASSUME NEW p, IsPopups(p), NEW t \in Types
  PROVE  LET q == RemoveTab(p, t) IN
         /\ IsPopups(q)
         /\ q.active = p.active /\ q.windows = p.windows /\ q.slots = p.slots
         /\ q.overwritten = p.overwritten
         /\ Len(q.tabs[t]) = IF Len(p.tabs[t]) = 0 THEN 0 ELSE Len(p.tabs[t]) - 1
         /\ \A u \in Types \ {t} : q.tabs[u] = p.tabs[u]
<1> DEFINE old == p.tabs[t]
           new == IF old = << >> THEN old ELSE Tail(old)
           ts == [p.tabs EXCEPT ![t] = new]
<1>1. old \in Seq(Subjects)
  BY DEF IsPopups
<1>2. RemoveTab(p, t) = [p EXCEPT !.tabs = ts]
  BY DEF RemoveTab, IsPopups
<1> HIDE DEF old
<1>3. new \in Seq(Subjects) /\ Len(new) = IF Len(old) = 0 THEN 0 ELSE Len(old) - 1
  BY <1>1
<1> HIDE DEF new
<1>4. ts \in [Types -> Seq(Subjects)] /\ ts[t] = new /\ \A u \in Types \ {t} : ts[u] = p.tabs[u]
  BY <1>3 DEF IsPopups
<1> HIDE DEF ts
<1>5. QED
  BY <1>2, <1>3, <1>4 DEF IsPopups, old

\* _createTab adds the newest tab of its type.
LEMMA CreatingATab ==
  ASSUME NEW p, IsPopups(p), NEW s \in Subjects
  PROVE  LET q == CreateTab(p, s) IN
         /\ IsPopups(q)
         /\ q.active = p.active /\ q.windows = p.windows /\ q.slots = p.slots
         /\ q.overwritten = p.overwritten
         /\ q.tabs[TypeOf[s]] # << >> /\ Last(q.tabs[TypeOf[s]]) = s
         /\ Len(q.tabs[TypeOf[s]]) = Len(p.tabs[TypeOf[s]]) + 1
         /\ \A u \in Types \ {TypeOf[s]} : q.tabs[u] = p.tabs[u]
<1> DEFINE t == TypeOf[s]
           old == p.tabs[t]
           new == Append(old, s)
           ts == [p.tabs EXCEPT ![t] = new]
<1>1. t \in Types /\ old \in Seq(Subjects)
  BY Kinds DEF IsPopups
<1>2. CreateTab(p, s) = [p EXCEPT !.tabs = ts]
  BY DEF CreateTab, IsPopups
<1> HIDE DEF old, t
<1>3. new \in Seq(Subjects) /\ Len(new) = Len(old) + 1 /\ new # << >> /\ new[Len(new)] = s
  BY <1>1
<1> HIDE DEF new
<1>4. ts \in [Types -> Seq(Subjects)] /\ ts[t] = new /\ \A u \in Types \ {t} : ts[u] = p.tabs[u]
  BY <1>1, <1>3 DEF IsPopups
<1> HIDE DEF ts
<1>5. QED
  BY <1>2, <1>3, <1>4 DEF IsPopups, Last, old, t

\* What is registered has no bearing on the rest.
LEMMA Registering ==
  ASSUME NEW p, IsPopups(p), NEW s \in Subjects \cup {NoSubject}
  PROVE  LET q == [p EXCEPT !.active = s] IN
         /\ IsPopups(q)
         /\ q.active = s /\ q.windows = p.windows /\ q.slots = p.slots /\ q.tabs = p.tabs
         /\ q.overwritten = p.overwritten
<1>1. [p EXCEPT !.active = s]
        = [active |-> s, tabs |-> p.tabs, slots |-> p.slots, windows |-> p.windows,
           overwritten |-> p.overwritten]
  BY DEF IsPopups
<1>2. QED
  BY <1>1 DEF IsPopups

\* A type that is forgotten leaves the cache with its tab.
LEMMA Forgetting ==
  ASSUME NEW p, IsPopups(p), NEW t \in Types, Restorable(p)
  PROVE  LET q == Forget(p, t) IN
         /\ IsPopups(q) /\ Restorable(q)
         /\ q.active = p.active /\ q.windows = p.windows
         /\ q.slots = [u \in DOMAIN p.slots \ {t} |-> p.slots[u]]
<1> DEFINE r == RemoveTab(p, t)
           ss == [u \in DOMAIN p.slots \ {t} |-> p.slots[u]]
<1>1. /\ IsPopups(r)
      /\ r.active = p.active /\ r.windows = p.windows /\ r.slots = p.slots
      /\ r.overwritten = p.overwritten
      /\ Len(r.tabs[t]) = IF Len(p.tabs[t]) = 0 THEN 0 ELSE Len(p.tabs[t]) - 1
      /\ \A u \in Types \ {t} : r.tabs[u] = p.tabs[u]
  BY RemovingATab
<1>2. Forget(p, t) = [r EXCEPT !.slots = [u \in DOMAIN r.slots \ {t} |-> r.slots[u]]]
  BY DEF Forget
<1> HIDE DEF r
<1>3. Forget(p, t) = [active |-> r.active, tabs |-> r.tabs, slots |-> ss,
                      windows |-> r.windows, overwritten |-> r.overwritten]
  BY <1>1, <1>2 DEF IsPopups
<1>4. /\ DOMAIN ss = DOMAIN p.slots \ {t}
      /\ \A u \in DOMAIN ss : ss[u] = p.slots[u]
      /\ DOMAIN ss \subseteq Types /\ ss \in [DOMAIN ss -> Slots]
  BY DEF IsPopups
<1>5. QED
  <2> HIDE DEF ss
  <2>1. IsPopups(Forget(p, t))
    BY <1>1, <1>3, <1>4 DEF IsPopups
  <2>2. Fits(Forget(p, t), t)
    <3>1. p.tabs[t] \in Seq(Subjects) /\ p.overwritten[t] \in Nat
      BY DEF IsPopups
    <3>2. Len(p.tabs[t]) \in Nat /\ Len(p.tabs[t]) <= p.overwritten[t] + Has(p, t)
      BY <3>1 DEF Restorable, Fits
    <3>3. QED
      BY <1>1, <1>3, <1>4, <3>1, <3>2 DEF Fits, Has
  <2>3. \A u \in Types \ {t} : Fits(Forget(p, t), u)
    BY <1>1, <1>3, <1>4, SameFits DEF Restorable, SameType
  <2>4. Restorable(Forget(p, t))
    BY <2>2, <2>3 DEF Restorable
  <2>5. QED
    BY <1>1, <1>3, <2>1, <2>4 DEF ss

\* The cached HTML is that of the oldest popup.
Oldest(p) == IF p.windows = << >> THEN Blank ELSE Head(p.windows).content

\* The cached HTML is a content.
LEMMA OldestIsContent ==
  ASSUME NEW p, IsPopups(p)
  PROVE  Oldest(p) \in Contents
<1>1. CASE p.windows = << >>
  BY <1>1, BlankIsContent DEF Oldest
<1>2. CASE p.windows # << >>
  <2>1. Head(p.windows) \in Windows
    BY <1>2 DEF IsPopups
  <2>2. QED
    BY <1>2, <2>1 DEF Oldest, Windows
<1>3. QED
  BY <1>1, <1>2

\* cachePopupState writes the slot of its type only.
LEMMA Caching ==
  ASSUME NEW p, IsPopups(p), NEW s \in Subjects
  PROVE  LET q == CachePopupState(p, s) IN
         /\ IsPopups(q)
         /\ q.active = p.active /\ q.windows = p.windows /\ q.tabs = p.tabs
         /\ q.overwritten = p.overwritten
         /\ q.slots = [t \in DOMAIN p.slots \cup {TypeOf[s]} |->
                         IF t = TypeOf[s] THEN [content |-> Oldest(p), subject |-> s]
                         ELSE p.slots[t]]
<1> DEFINE slot == [content |-> Oldest(p), subject |-> s]
           ss == [t \in DOMAIN p.slots \cup {TypeOf[s]} |->
                    IF t = TypeOf[s] THEN slot ELSE p.slots[t]]
<1>1. slot \in Slots /\ slot.subject = s
  BY OldestIsContent DEF Slots
<1>2. CachePopupState(p, s) = [p EXCEPT !.slots = ss]
  BY DEF CachePopupState, Oldest, IsPopups
<1> HIDE DEF slot
<1>3. /\ DOMAIN ss \subseteq Types /\ ss \in [DOMAIN ss -> Slots]
      /\ \A t \in DOMAIN ss : TypeOf[ss[t].subject] = t
  <2>1. DOMAIN ss = DOMAIN p.slots \cup {TypeOf[s]} /\ DOMAIN ss \subseteq Types
    BY Kinds DEF IsPopups
  <2>2. \A t \in DOMAIN ss : ss[t] \in Slots /\ TypeOf[ss[t].subject] = t
    BY <1>1 DEF IsPopups
  <2>3. QED
    BY <2>1, <2>2
<1> DEFINE q == CachePopupState(p, s)
<1> HIDE DEF ss, q
<1>4. q = [active |-> p.active, tabs |-> p.tabs, slots |-> ss, windows |-> p.windows,
           overwritten |-> p.overwritten]
  BY <1>2 DEF IsPopups, q
<1>5. IsPopups(q)
  BY <1>3, <1>4 DEF IsPopups
<1>6. QED
  BY <1>4, <1>5 DEF q, ss, slot

\* Minimizing: of the active popup, and by a button.
Cached(p, s) ==
  [t \in DOMAIN p.slots \cup {TypeOf[s]} |->
     IF t = TypeOf[s] THEN [content |-> Oldest(p), subject |-> s] ELSE p.slots[t]]

\* _minimizeActive: the registered popup gets a slot and a tab.
LEMMA MinimizingActive ==
  ASSUME NEW p, IsPopups(p), Restorable(p), ~Nothing(p)
  PROVE  LET q == MinimizeActive(p) IN
         /\ IsPopups(q) /\ Restorable(q)
         /\ q.active = NoSubject
         /\ q.windows = CloseMapPopup(p).windows
         /\ q.slots = Cached(p, p.active)
<1> DEFINE a == CachePopupState(p, p.active)
           b == CloseMapPopup(a)
           c == CreateTab(b, p.active)
           t == TypeOf[p.active]
           n == IF t \in DOMAIN p.slots THEN c.overwritten[t] + 1 ELSE c.overwritten[t]
           o == [c.overwritten EXCEPT ![t] = n]
           q == MinimizeActive(p)
<1>1. p.active \in Subjects /\ t \in Types
  BY Kinds DEF Nothing, IsPopups
<1>2. /\ IsPopups(a) /\ a.windows = p.windows /\ a.tabs = p.tabs /\ a.slots = Cached(p, p.active)
      /\ a.overwritten = p.overwritten
  BY <1>1, Caching DEF Cached
<1> HIDE DEF a
<1>3. /\ IsPopups(b) /\ b.tabs = a.tabs /\ b.slots = a.slots /\ b.overwritten = a.overwritten
      /\ b.windows = IF a.windows = << >> THEN << >> ELSE Tail(a.windows)
  BY <1>2, Closing
<1>4. b.windows = CloseMapPopup(p).windows
  BY <1>2, <1>3, Closing
<1> HIDE DEF b
<1>5. /\ IsPopups(c) /\ c.slots = b.slots /\ c.windows = b.windows
      /\ c.overwritten = b.overwritten
      /\ c.tabs[t] # << >> /\ Last(c.tabs[t]) = p.active /\ Len(c.tabs[t]) = Len(b.tabs[t]) + 1
      /\ \A u \in Types \ {t} : c.tabs[u] = b.tabs[u]
  BY <1>1, <1>3, CreatingATab
<1>6. q = [c EXCEPT !.active = NoSubject, !.overwritten = o]
  BY <1>5 DEF MinimizeActive, a, b, IsPopups
<1> HIDE DEF c, t, q
<1>7. /\ o \in [Types -> Nat] /\ o[t] = p.overwritten[t] + Has(p, t)
      /\ \A u \in Types \ {t} : o[u] = p.overwritten[u]
  BY <1>1, <1>2, <1>3, <1>5 DEF IsPopups, Has
<1> HIDE DEF o
<1>8. /\ IsPopups(q) /\ q.active = NoSubject
      /\ q.windows = c.windows /\ q.slots = c.slots /\ q.tabs = c.tabs /\ q.overwritten = o
  BY <1>5, <1>6, <1>7 DEF IsPopups
<1>9. Fits(q, t)
  <2>1. t \in DOMAIN q.slots /\ q.slots[t].subject = p.active
    BY <1>2, <1>3, <1>5, <1>8 DEF Cached, t
  <2>2. p.tabs[t] \in Seq(Subjects) /\ p.overwritten[t] \in Nat
    BY <1>1 DEF IsPopups
  <2>3. Len(p.tabs[t]) \in Nat /\ Len(p.tabs[t]) <= p.overwritten[t] + Has(p, t)
    BY <1>1, <2>2 DEF Restorable, Fits
  <2>4. Has(p, t) \in 0..1 /\ Has(q, t) = 1
    BY <2>1 DEF Has
  <2>5. QED
    BY <1>2, <1>3, <1>5, <1>7, <1>8, <2>1, <2>2, <2>3, <2>4 DEF Fits
<1>10. \A u \in Types \ {t} : Fits(q, u)
  <2>1. \A u \in Types \ {t} : SameType(q, p, u)
    BY <1>2, <1>3, <1>5, <1>7, <1>8 DEF SameType, Cached, t
  <2>2. QED
    BY <2>1, SameFits DEF Restorable
<1>11. QED
  BY <1>2, <1>3, <1>4, <1>5, <1>8, <1>9, <1>10 DEF Restorable, q

\* The slots of q are slots of p, or that which the oldest popup of p was cached in
\* for the subject s.
SlotsFrom(q, p, s) ==
  \A t \in DOMAIN q.slots :
    \/ t \in DOMAIN p.slots /\ q.slots[t] = p.slots[t]
    \/ s # NoSubject /\ q.slots[t] = [content |-> Oldest(p), subject |-> s]

\* An operation closes a popup, or none.
Closes(q, p) == q.windows = p.windows \/ q.windows = CloseMapPopup(p).windows

\* minimizePopup: the subject gets a slot and a tab, and is no longer registered.
LEMMA MinimizingAPopup ==
  ASSUME NEW p, IsPopups(p), Restorable(p), NEW s \in Subjects
  PROVE  LET q == MinimizePopup(p, s) IN
         /\ IsPopups(q) /\ Restorable(q)
         /\ q.active \in {p.active, NoSubject}
         /\ q.windows = CloseMapPopup(p).windows
         /\ SlotsFrom(q, p, s)
<1> DEFINE a == CachePopupState(p, s)
           b == CloseMapPopup(a)
           c == RemoveTab(b, TypeOf[s])
           d == CreateTab(c, s)
           t == TypeOf[s]
           q == MinimizePopup(p, s)
<1>1. t \in Types
  BY Kinds
<1>2. /\ IsPopups(a) /\ a.active = p.active /\ a.windows = p.windows /\ a.tabs = p.tabs
      /\ a.slots = Cached(p, s) /\ a.overwritten = p.overwritten
  BY <1>1, Caching DEF Cached
<1> HIDE DEF a
<1>3. /\ IsPopups(b) /\ b.active = a.active /\ b.tabs = a.tabs /\ b.slots = a.slots
      /\ b.overwritten = a.overwritten
      /\ b.windows = IF a.windows = << >> THEN << >> ELSE Tail(a.windows)
  BY <1>2, Closing
<1>4. b.windows = CloseMapPopup(p).windows
  BY <1>2, <1>3, Closing
<1> HIDE DEF b
<1>5. /\ IsPopups(c) /\ c.active = b.active /\ c.slots = b.slots /\ c.windows = b.windows
      /\ c.overwritten = b.overwritten
      /\ Len(c.tabs[t]) = IF Len(b.tabs[t]) = 0 THEN 0 ELSE Len(b.tabs[t]) - 1
      /\ \A u \in Types \ {t} : c.tabs[u] = b.tabs[u]
  BY <1>1, <1>3, RemovingATab
<1> HIDE DEF c
<1>6. /\ IsPopups(d) /\ d.active = c.active /\ d.slots = c.slots /\ d.windows = c.windows
      /\ d.overwritten = c.overwritten
      /\ d.tabs[t] # << >> /\ Last(d.tabs[t]) = s /\ Len(d.tabs[t]) = Len(c.tabs[t]) + 1
      /\ \A u \in Types \ {t} : d.tabs[u] = c.tabs[u]
  BY <1>1, <1>5, CreatingATab
<1>7. \E x \in {p.active, NoSubject} : q = [d EXCEPT !.active = x]
  <2>1. q = [d EXCEPT !.active =
               IF ~Nothing(d) /\ TypeOf[d.active] = t THEN NoSubject ELSE d.active]
    BY DEF MinimizePopup, a, b, c
  <2> HIDE DEF d, q
  <2>2. QED
    BY <1>2, <1>3, <1>5, <1>6, <2>1
<1> HIDE DEF d, q
<1>8. PICK x \in {p.active, NoSubject} : q = [d EXCEPT !.active = x]
  BY <1>7
<1>9. x \in Subjects \cup {NoSubject}
  BY DEF IsPopups
<1>10. /\ IsPopups(q) /\ q.active = x /\ q.windows = d.windows /\ q.slots = d.slots
       /\ q.tabs = d.tabs /\ q.overwritten = d.overwritten
  BY <1>6, <1>8, <1>9, Registering
<1>11. Restorable(q)
  <2>1. t \in DOMAIN q.slots /\ q.slots[t].subject = s
    BY <1>2, <1>3, <1>5, <1>6, <1>10 DEF Cached
  <2>2. Fits(q, t)
    <3>1. p.tabs[t] \in Seq(Subjects) /\ p.overwritten[t] \in Nat
      BY <1>1 DEF IsPopups
    <3>2. Len(p.tabs[t]) \in Nat /\ Len(p.tabs[t]) <= p.overwritten[t] + Has(p, t)
      BY <1>1, <3>1 DEF Restorable, Fits
    <3>3. Has(p, t) \in 0..1 /\ Has(q, t) = 1
      BY <2>1 DEF Has
    <3> HIDE DEF t
    <3>4. QED
      BY <1>2, <1>3, <1>5, <1>6, <1>10, <2>1, <3>1, <3>2, <3>3 DEF Fits
  <2>3. \A u \in Types \ {t} : SameType(q, p, u)
    BY <1>2, <1>3, <1>5, <1>6, <1>10 DEF SameType, Cached
  <2>4. QED
    BY <2>2, <2>3, SameFits DEF Restorable
<1>12. SlotsFrom(q, p, s)
  BY <1>2, <1>3, <1>5, <1>6, <1>10, Kinds DEF SlotsFrom, Cached
<1>13. QED
  BY <1>4, <1>5, <1>6, <1>8, <1>10, <1>11, <1>12 DEF q

\* prepareForNewPopup: nothing is registered, and what was is in the cache or gone.
LEMMA Preparing ==
  ASSUME NEW p, IsPopups(p), Restorable(p), NEW t \in Types
  PROVE  LET q == PrepareForNewPopup(p, t) IN
         /\ IsPopups(q) /\ Restorable(q)
         /\ q.active = NoSubject
         /\ q.windows = IF Nothing(p) THEN p.windows ELSE CloseMapPopup(p).windows
         /\ SlotsFrom(q, p, p.active)
<1> DEFINE q == PrepareForNewPopup(p, t)
<1>1. CASE Nothing(p)
  <2>1. q = Forget(p, t)
    BY <1>1 DEF PrepareForNewPopup
  <2> HIDE DEF q
  <2>2. /\ IsPopups(q) /\ Restorable(q) /\ q.active = p.active /\ q.windows = p.windows
        /\ q.slots = [u \in DOMAIN p.slots \ {t} |-> p.slots[u]]
    BY <2>1, Forgetting
  <2>3. SlotsFrom(q, p, p.active)
    BY <2>2 DEF SlotsFrom
  <2>4. QED
    BY <1>1, <2>2, <2>3 DEF Nothing, q
<1>2. CASE ~Nothing(p) /\ TypeOf[p.active] = t
  <2> DEFINE a == CloseMapPopup(p)
             b == Forget(a, t)
  <2>1. q = [b EXCEPT !.active = NoSubject]
    BY <1>2 DEF PrepareForNewPopup
  <2>2. IsPopups(a) /\ Restorable(a) /\ a.slots = p.slots
    BY Closing, SameFits DEF Restorable, SameType
  <2> HIDE DEF a, q
  <2>3. /\ IsPopups(b) /\ Restorable(b) /\ b.windows = a.windows
        /\ b.slots = [u \in DOMAIN a.slots \ {t} |-> a.slots[u]]
    BY <2>2, Forgetting
  <2> HIDE DEF b
  <2>4. /\ IsPopups(q) /\ q.active = NoSubject /\ q.windows = b.windows
        /\ q.slots = b.slots /\ q.tabs = b.tabs /\ q.overwritten = b.overwritten
    BY <2>1, <2>3, Registering
  <2>5. Restorable(q)
    BY <2>3, <2>4, SameFits DEF Restorable, SameType
  <2>6. QED
    BY <1>2, <2>2, <2>3, <2>4, <2>5 DEF SlotsFrom, a, q
<1>3. CASE ~Nothing(p) /\ TypeOf[p.active] # t
  <2>1. q = MinimizeActive(p)
    BY <1>3 DEF PrepareForNewPopup
  <2> HIDE DEF q
  <2>2. /\ IsPopups(q) /\ Restorable(q) /\ q.active = NoSubject
        /\ q.windows = CloseMapPopup(p).windows /\ q.slots = Cached(p, p.active)
    BY <1>3, <2>1, MinimizingActive
  <2>3. SlotsFrom(q, p, p.active)
    BY <1>3, <2>2 DEF SlotsFrom, Cached, Nothing
  <2>4. QED
    BY <1>3, <2>2, <2>3 DEF q
<1>4. QED
  BY <1>1, <1>2, <1>3

\* The popups that another comes up beside keep all but what they await.
LEMMA BesideIs ==
  ASSUME NEW ws \in Seq(Windows), NEW s \in Subjects
  PROVE  /\ Beside(ws, s) \in Seq(Windows) /\ Len(Beside(ws, s)) = Len(ws)
         /\ \A i \in 1..Len(ws) :
              LET c == ws[i].content  d == Beside(ws, s)[i].content IN
              /\ d.of = c.of /\ d.arrivals = c.arrivals
              /\ d.awaited = IF TypeOf[s] = "stop" THEN c.awaited \cup {s} ELSE c.awaited
<1>1. Len(ws) \in Nat /\ DOMAIN ws = 1..Len(ws)
  OBVIOUS
<1>2. ASSUME NEW i \in 1..Len(ws)
      PROVE  /\ Beside(ws, s)[i] \in Windows
             /\ LET c == ws[i].content  d == Beside(ws, s)[i].content IN
                /\ d.of = c.of /\ d.arrivals = c.arrivals
                /\ d.awaited = IF TypeOf[s] = "stop" THEN c.awaited \cup {s} ELSE c.awaited
  <2> DEFINE v == ws[i]
             w == [v EXCEPT !.content.awaited = @ \cup {s}]
  <2>1. v \in Windows
    BY <1>1
  <2>2. Beside(ws, s)[i] = IF TypeOf[s] = "stop" THEN w ELSE v
    BY <1>1 DEF Beside
  <2> HIDE DEF v
  <2>3. /\ w \in Windows /\ w.content.of = v.content.of
        /\ w.content.arrivals = v.content.arrivals
        /\ w.content.awaited = v.content.awaited \cup {s}
    BY <2>1 DEF Windows, Contents
  <2> HIDE DEF w
  <2>4. QED
    BY <2>1, <2>2, <2>3 DEF v
<1>3. Beside(ws, s) = [i \in 1..Len(ws) |-> Beside(ws, s)[i]]
  BY <1>1 DEF Beside
<1>4. Beside(ws, s) \in Seq(Windows)
  <2> DEFINE vs == Beside(ws, s)
  <2> HIDE DEF vs
  <2>1. vs \in [1..Len(ws) -> Windows]
    BY <1>2, <1>3 DEF vs
  <2>2. QED
    BY <1>1, <2>1 DEF vs
<1>5. DOMAIN Beside(ws, s) = 1..Len(ws)
  BY <1>1 DEF Beside
<1>6. Len(Beside(ws, s)) = Len(ws)
  BY <1>1, <1>4, <1>5, LenProperties
<1>7. QED
  BY <1>2, <1>4, <1>6

\* A popup is added to what prepareForNewPopup leaves.
Opens(q, p, s, w) ==
  \E ws \in {p.windows, CloseMapPopup(p).windows} : q.windows = Append(Beside(ws, s), w)

\* Open makes room and adds its popup.
LEMMA Opening ==
  ASSUME NEW p, IsPopups(p), Restorable(p), NEW s \in Subjects,
         NEW a \in Subjects \cup {NoSubject}, NEW w \in SUBSET Subjects
  PROVE  LET q == Open(p, s, a, w) IN
         /\ IsPopups(q) /\ Restorable(q)
         /\ q.active = s
         /\ Opens(q, p, s, Window(Content(s, a, w), <<s>>))
         /\ SlotsFrom(q, p, p.active)
<1> DEFINE b == PrepareForNewPopup(p, TypeOf[s])
           ws == Append(Beside(b.windows, s), Window(Content(s, a, w), <<s>>))
           q == Open(p, s, a, w)
<1>1. /\ IsPopups(b) /\ Restorable(b) /\ SlotsFrom(b, p, p.active)
      /\ b.windows \in {p.windows, CloseMapPopup(p).windows}
  BY Kinds, Preparing
<1>2. q = [b EXCEPT !.windows = ws, !.active = s]
  BY DEF Open
<1> HIDE DEF b, q
<1>3. Window(Content(s, a, w), <<s>>) \in Windows
  BY DEF Window, Content, Windows, Contents
<1>4. ws \in Seq(Windows)
  <2>1. Beside(b.windows, s) \in Seq(Windows)
    BY <1>1, BesideIs DEF IsPopups
  <2>2. QED
    BY <1>3, <2>1, AppendProperties
<1> HIDE DEF ws
<1>5. /\ IsPopups(q) /\ q.active = s /\ q.windows = ws /\ q.slots = b.slots /\ q.tabs = b.tabs
      /\ q.overwritten = b.overwritten
  BY <1>1, <1>2, <1>4 DEF IsPopups
<1>6. Restorable(q)
  BY <1>1, <1>5, SameFits DEF Restorable, SameType
<1>7. QED
  BY <1>1, <1>5, <1>6 DEF SlotsFrom, Opens, ws, q

\* dismissPopup: nothing new gets into the cache.
LEMMA Dismissing ==
  ASSUME NEW p, IsPopups(p), Restorable(p), NEW t \in Types
  PROVE  LET q == DismissPopup(p, t) IN
         /\ IsPopups(q) /\ Restorable(q)
         /\ q.active \in {p.active, NoSubject}
         /\ Closes(q, p)
         /\ SlotsFrom(q, p, NoSubject)
<1> DEFINE a == IF ~Nothing(p) /\ TypeOf[p.active] = t
                THEN [CloseMapPopup(p) EXCEPT !.active = NoSubject] ELSE p
           q == DismissPopup(p, t)
<1>1. /\ IsPopups(a) /\ Restorable(a) /\ a.slots = p.slots
      /\ a.active \in {p.active, NoSubject} /\ Closes(a, p)
  <2>1. CASE a = p
    BY <2>1 DEF Closes
  <2>2. CASE a = [CloseMapPopup(p) EXCEPT !.active = NoSubject]
    <3> DEFINE b == CloseMapPopup(p)
    <3>1. IsPopups(b) /\ b.tabs = p.tabs /\ b.slots = p.slots /\ b.overwritten = p.overwritten
      BY Closing
    <3> HIDE DEF b, a
    <3>2. /\ IsPopups(a) /\ a.active = NoSubject /\ a.windows = b.windows
          /\ a.slots = b.slots /\ a.tabs = b.tabs /\ a.overwritten = b.overwritten
      BY <2>2, <3>1, Registering DEF b
    <3>3. Restorable(a)
      BY <3>1, <3>2, SameFits DEF Restorable, SameType
    <3>4. QED
      BY <3>1, <3>2, <3>3 DEF Closes, b
  <2>3. QED
    BY <2>1, <2>2
<1>2. q = Forget(a, t)
  BY DEF DismissPopup
<1> HIDE DEF a, q
<1>3. /\ IsPopups(q) /\ Restorable(q) /\ q.active = a.active /\ q.windows = a.windows
      /\ q.slots = [u \in DOMAIN a.slots \ {t} |-> a.slots[u]]
  BY <1>1, <1>2, Forgetting
<1>4. QED
  BY <1>1, <1>3 DEF SlotsFrom, Closes, q

\* What the restore callback binds are subjects.
LEMMA Rebinding ==
  ASSUME NEW ws \in Seq(Windows), ws # << >>, NEW s \in Subjects,
         NEW tracked \in BOOLEAN
  PROVE  /\ Rebind(ws, s, tracked) \in Seq(Windows)
         /\ Len(Rebind(ws, s, tracked)) = Len(ws)
         /\ \A i \in DOMAIN ws : Rebind(ws, s, tracked)[i].content = ws[i].content
         /\ Rebind(ws, s, tracked)[1].bound \in {ws[1].bound, <<s>>, Append(ws[1].bound, s)}
<1> DEFINE b == IF ~tracked \/ Head(ws).content.of = NoSubject THEN ws[1].bound
                ELSE IF TypeOf[s] = "route" THEN <<s>> ELSE Append(ws[1].bound, s)
           w == [ws[1] EXCEPT !.bound = b]
<1>1. 1 \in 1..Len(ws) /\ ws[1] \in Windows /\ DOMAIN ws = 1..Len(ws) /\ Len(ws) \in Nat
  OBVIOUS
<1>2. b \in Seq(Subjects) /\ b \in {ws[1].bound, <<s>>, Append(ws[1].bound, s)}
  BY <1>1 DEF Windows
<1>3. Rebind(ws, s, tracked) = [ws EXCEPT ![1] = w]
  BY DEF Rebind
<1> HIDE DEF b
<1>4. w \in Windows /\ w.bound = b /\ w.content = ws[1].content
  BY <1>1, <1>2 DEF Windows
<1> HIDE DEF w
<1>5. [ws EXCEPT ![1] = w] \in Seq(Windows) /\ Len([ws EXCEPT ![1] = w]) = Len(ws)
  BY <1>1, <1>4
<1>6. \A i \in DOMAIN ws : [ws EXCEPT ![1] = w][i] = IF i = 1 THEN w ELSE ws[i]
  BY <1>1
<1>7. QED
  BY <1>1, <1>2, <1>3, <1>4, <1>5, <1>6

\* What a restored popup shows: a copy of what was cached.
Restored(slot, awaited) ==
  [slot.content EXCEPT
    !.awaited = awaited \cup {s \in @ \cup {slot.subject} : TypeOf[s] = "stop"}]

Rebound(ws, slot, awaited, tracked) ==
  Rebind(Append(Beside(ws, slot.subject), Window(Restored(slot, awaited), << >>)),
         slot.subject, tracked)

\* It is about the same, lists the same, and awaits the stop it was cached for.
LEMMA RestoredIs ==
  ASSUME NEW slot \in Slots, NEW awaited \in SUBSET Subjects
  PROVE  LET c == Restored(slot, awaited) IN
         /\ c \in Contents /\ c.of = slot.content.of /\ c.arrivals = slot.content.arrivals
         /\ awaited \subseteq c.awaited
         /\ \A s \in slot.content.awaited \cup {slot.subject} :
              TypeOf[s] = "stop" => s \in c.awaited
<1> DEFINE x == slot.content
           a == awaited \cup {s \in x.awaited \cup {slot.subject} : TypeOf[s] = "stop"}
<1>1. x \in Contents /\ slot.subject \in Subjects
  BY DEF Slots
<1>2. Restored(slot, awaited) = [x EXCEPT !.awaited = a]
  BY DEF Restored
<1>3. a \in SUBSET Subjects
  BY <1>1 DEF Contents
<1> HIDE DEF x, a
<1>4. QED
  BY <1>1, <1>2, <1>3 DEF Contents, a, x

\* restorePopup: what is cached besides keeps its tab.
LEMMA Restoring ==
  ASSUME NEW p, IsPopups(p), Restorable(p), NEW t \in Types,
         NEW awaited \in SUBSET Subjects, NEW tracked \in BOOLEAN
  PROVE  LET q == RestorePopup(p, t, awaited, tracked) IN
         /\ IsPopups(q) /\ Restorable(q)
         /\ SlotsFrom(q, p, p.active)
         /\ t \notin DOMAIN p.slots => q.active \in {p.active, NoSubject} /\ Closes(q, p)
         /\ t \in DOMAIN p.slots =>
              /\ q.active = p.slots[t].subject
              /\ \/ q.windows = Rebound(p.windows, p.slots[t], awaited, tracked)
                 \/ q.windows = Rebound(CloseMapPopup(p).windows, p.slots[t], awaited, tracked)
<1> DEFINE r == IF ~Nothing(p) /\ TypeOf[p.active] # t THEN MinimizeActive(p) ELSE p
           c == RemoveTab(r, t)
           q == RestorePopup(p, t, awaited, tracked)
<1>1. /\ IsPopups(r) /\ Restorable(r) /\ SlotsFrom(r, p, p.active)
      /\ r.active \in {p.active, NoSubject} /\ Closes(r, p)
      /\ t \in DOMAIN r.slots <=> t \in DOMAIN p.slots
      /\ t \in DOMAIN p.slots => r.slots[t] = p.slots[t]
  <2>1. CASE ~(~Nothing(p) /\ TypeOf[p.active] # t)
    BY <2>1 DEF Closes, SlotsFrom
  <2>2. CASE ~Nothing(p) /\ TypeOf[p.active] # t
    <3>1. r = MinimizeActive(p)
      BY <2>2
    <3> HIDE DEF r
    <3>2. /\ IsPopups(r) /\ Restorable(r) /\ r.active = NoSubject
          /\ r.windows = CloseMapPopup(p).windows /\ r.slots = Cached(p, p.active)
      BY <2>2, <3>1, MinimizingActive
    <3>3. QED
      BY <2>2, <3>2 DEF Closes, SlotsFrom, Cached, Nothing
  <2>3. QED
    BY <2>1, <2>2
<1> HIDE DEF r
<1>2. /\ IsPopups(c) /\ c.active = r.active /\ c.windows = r.windows /\ c.slots = r.slots
      /\ c.overwritten = r.overwritten
      /\ Len(c.tabs[t]) = IF Len(r.tabs[t]) = 0 THEN 0 ELSE Len(r.tabs[t]) - 1
      /\ \A u \in Types \ {t} : c.tabs[u] = r.tabs[u]
  BY <1>1, RemovingATab
<1>3. q = IF t \notin DOMAIN c.slots THEN c
          ELSE [c EXCEPT !.windows = Rebound(@, c.slots[t], awaited, tracked),
                         !.slots = [u \in DOMAIN @ \ {t} |-> @[u]],
                         !.active = c.slots[t].subject]
  BY DEF RestorePopup, Rebound, Restored, r
<1> HIDE DEF c, q
<1>3a. Len(c.tabs[t]) <= c.overwritten[t]
  <2>1. r.tabs[t] \in Seq(Subjects) /\ r.overwritten[t] \in Nat
    BY <1>1 DEF IsPopups
  <2>2. Len(r.tabs[t]) \in Nat /\ Len(r.tabs[t]) <= r.overwritten[t] + Has(r, t)
    BY <1>1, <2>1 DEF Restorable, Fits
  <2>3. Has(r, t) \in 0..1
    BY DEF Has
  <2>4. QED
    BY <1>2, <2>1, <2>2, <2>3
<1>3b. c.overwritten[t] \in Nat /\ c.tabs[t] \in Seq(Subjects)
  BY <1>2 DEF IsPopups
<1>4. CASE t \notin DOMAIN c.slots
  <2>1. q = c
    BY <1>3, <1>4
  <2>2. Restorable(c)
    <3>1. Fits(c, t)
      BY <1>4, <1>3a, <1>3b DEF Fits, Has
    <3>2. \A u \in Types \ {t} : Fits(c, u)
      BY <1>1, <1>2, SameFits DEF Restorable, SameType
    <3>3. QED
      BY <3>1, <3>2 DEF Restorable
  <2>3. QED
    BY <1>1, <1>2, <1>4, <2>1, <2>2 DEF Closes, SlotsFrom, q
<1>5. CASE t \in DOMAIN c.slots
  <2> DEFINE slot == c.slots[t]
             w == Window(Restored(slot, awaited), << >>)
             ws == Rebound(c.windows, slot, awaited, tracked)
             ss == [u \in DOMAIN c.slots \ {t} |-> c.slots[u]]
  <2>1. slot \in Slots /\ slot = p.slots[t] /\ t \in DOMAIN p.slots
    BY <1>1, <1>2, <1>5 DEF IsPopups
  <2>2. q = [c EXCEPT !.windows = ws, !.slots = ss, !.active = slot.subject]
    BY <1>3, <1>5
  <2>3. ws \in Seq(Windows)
    <3> HIDE DEF slot
    <3>1. w \in Windows
      BY <2>1, RestoredIs DEF Window, Windows
    <3> HIDE DEF w
    <3>2. slot.subject \in Subjects
      BY <2>1 DEF Slots
    <3>3. /\ Append(Beside(c.windows, slot.subject), w) \in Seq(Windows)
          /\ Append(Beside(c.windows, slot.subject), w) # << >>
      <4>1. Beside(c.windows, slot.subject) \in Seq(Windows)
        BY <1>2, <3>2, BesideIs DEF IsPopups
      <4>2. QED
        BY <3>1, <4>1, AppendProperties
    <3>4. QED
      BY <3>2, <3>3, Rebinding DEF Rebound, w
  <2>4. /\ DOMAIN ss = DOMAIN c.slots \ {t} /\ \A u \in DOMAIN ss : ss[u] = c.slots[u]
        /\ DOMAIN ss \subseteq Types /\ ss \in [DOMAIN ss -> Slots]
    BY <1>2 DEF IsPopups
  <2> HIDE DEF ws, ss
  <2>5. /\ IsPopups(q) /\ q.active = slot.subject /\ q.windows = ws /\ q.slots = ss
        /\ q.tabs = c.tabs /\ q.overwritten = c.overwritten
    BY <1>2, <2>1, <2>2, <2>3, <2>4 DEF IsPopups, Slots
  <2>6. Restorable(q)
    <3>1. Fits(q, t)
      BY <1>3a, <1>3b, <2>4, <2>5 DEF Fits, Has
    <3>2. \A u \in Types \ {t} : Fits(q, u)
      BY <1>1, <1>2, <2>4, <2>5, SameFits DEF Restorable, SameType
    <3>3. QED
      BY <3>1, <3>2 DEF Restorable
  <2>7. SlotsFrom(q, p, p.active)
    BY <1>1, <1>2, <2>4, <2>5 DEF SlotsFrom
  <2>8. q.windows \in {Rebound(p.windows, p.slots[t], awaited, tracked),
                       Rebound(CloseMapPopup(p).windows, p.slots[t], awaited, tracked)}
    BY <1>1, <1>2, <2>1, <2>5 DEF Closes, ws
  <2>9. QED
    BY <2>1, <2>5, <2>6, <2>7, <2>8 DEF q
<1>6. QED
  BY <1>4, <1>5

\* dismissPopup without a type empties the cache.
LEMMA DismissingAll ==
  ASSUME NEW p, IsPopups(p)
  PROVE  LET q == DismissAll(p) IN
         /\ IsPopups(q) /\ Restorable(q)
         /\ q.active = NoSubject /\ DOMAIN q.slots = {}
         /\ q.windows = CloseMapPopup(p).windows
<1> DEFINE ts == [t \in Types |-> << >>]
           ss == [t \in {} |-> Blank]
           os == [t \in Types |-> 0]
           q == DismissAll(p)
<1>1. CloseMapPopup(p).windows \in Seq(Windows)
  BY Closing DEF IsPopups
<1>2. /\ ts \in [Types -> Seq(Subjects)] /\ os \in [Types -> Nat]
      /\ \A t \in Types : Len(ts[t]) = 0 /\ os[t] = 0
  OBVIOUS
<1>3. DOMAIN ss \subseteq Types /\ ss \in [DOMAIN ss -> Slots] /\ DOMAIN ss = {}
  OBVIOUS
<1>4. q = [active |-> NoSubject, tabs |-> ts, slots |-> ss,
           windows |-> CloseMapPopup(p).windows, overwritten |-> os]
  BY DEF DismissAll, NoPopups
<1> HIDE DEF ts, ss, os, q
<1>5. QED
  BY <1>1, <1>2, <1>3, <1>4 DEF IsPopups, Restorable, Fits, Has, q

-----------------------------------------------------------------------------
(* Buttons with several callbacks *)

\* Induction over the numbers up to n, for a set.
LEMMA Upwards ==
  ASSUME NEW n \in Nat, NEW G, 0 \in G, \A k \in 1..n : k - 1 \in G => k \in G
  PROVE  0..n \subseteq G
<1> DEFINE R == OpToRel(<, Nat)
           Bad == {k \in 0..n : k \notin G}
<1> SUFFICES ASSUME Bad # {} PROVE FALSE
  OBVIOUS
<1>1. IsWellFoundedOn(R, Nat)
  BY NatLessThanWellFounded
<1>2. Bad \subseteq Nat
  OBVIOUS
<1>3. \A x, y \in Bad : y < x => <<y, x>> \in R
  BY <1>2 DEF OpToRel
<1> HIDE DEF R, Bad
<1>4. PICK x \in Bad : \A y \in Bad : <<y, x>> \notin R
  BY <1>1, <1>2, WFMin
<1>5. x \in 1..n /\ x - 1 \in 0..n /\ x - 1 < x
  BY DEF Bad
<1>6. x - 1 \notin Bad
  BY <1>3, <1>4, <1>5
<1>7. QED
  BY <1>5, <1>6 DEF Bad

\* The recursive function of MinimizeEach exists: its initial parts do, by Upwards.
LEMMA MinimizeEachIs ==
  ASSUME NEW u, NEW bound \in Seq(Subjects)
  PROVE  \E after :
           /\ after = [n \in 0..Len(bound) |->
                         IF n = 0 THEN u ELSE Minimize(after[n - 1], bound[n])]
           /\ MinimizeEach(u, bound) = after[Len(bound)]
<1> DEFINE Step(f, k) == [n \in 0..k |-> IF n = 0 THEN u ELSE Minimize(f[n - 1], bound[n])]
           G == {k \in 0..Len(bound) : \E f : f = Step(f, k)}
<1>1. Len(bound) \in Nat
  OBVIOUS
<1>2. 0 \in G
  <2> DEFINE f == [n \in 0..0 |-> u]
  <2>1. f = Step(f, 0)
    OBVIOUS
  <2> HIDE DEF f
  <2>2. QED
    BY <1>1, <2>1
<1>3. ASSUME NEW k \in 1..Len(bound), k - 1 \in G
      PROVE  k \in G
  <2>1. PICK f : f = Step(f, k - 1)
    BY <1>3
  <2> DEFINE g == [n \in 0..k |-> IF n = k THEN Minimize(f[k - 1], bound[k]) ELSE f[n]]
  <2>2. DOMAIN f = 0..(k - 1) /\ \A n \in 0..(k - 1) :
          f[n] = IF n = 0 THEN u ELSE Minimize(f[n - 1], bound[n])
    BY <2>1
  <2>3. \A n \in 0..k : g[n] = IF n = 0 THEN u ELSE Minimize(g[n - 1], bound[n])
    <3>1. \A n \in 0..(k - 1) : g[n] = f[n]
      OBVIOUS
    <3>2. g[k] = Minimize(f[k - 1], bound[k])
      OBVIOUS
    <3> HIDE DEF g
    <3>3. QED
      BY <2>2, <3>1, <3>2
  <2>4. DOMAIN g = 0..k /\ g = [n \in 0..k |-> g[n]]
    OBVIOUS
  <2> HIDE DEF g
  <2>5. g = Step(g, k)
    BY <2>3, <2>4
  <2>6. QED
    BY <2>5
<1> HIDE DEF G
<1>4. 0..Len(bound) \subseteq G
  BY <1>1, <1>2, <1>3, Upwards
<1>5. \E f : f = Step(f, Len(bound))
  BY <1>1, <1>4 DEF G
<1> DEFINE after == CHOOSE f : f = Step(f, Len(bound))
<1>6. after = Step(after, Len(bound))
  BY <1>5
<1>7. MinimizeEach(u, bound) = after[Len(bound)]
  BY DEF MinimizeEach
<1> HIDE DEF after
<1>8. QED
  BY <1>6, <1>7

\* So does that of DismissEach.
LEMMA DismissEachIs ==
  ASSUME NEW u, NEW bound \in Seq(Subjects)
  PROVE  \E after :
           /\ after = [n \in 0..Len(bound) |->
                         IF n = 0 THEN u ELSE Dismiss(after[n - 1], bound[n])]
           /\ DismissEach(u, bound) = after[Len(bound)]
<1> DEFINE Step(f, k) == [n \in 0..k |-> IF n = 0 THEN u ELSE Dismiss(f[n - 1], bound[n])]
           G == {k \in 0..Len(bound) : \E f : f = Step(f, k)}
<1>1. Len(bound) \in Nat
  OBVIOUS
<1>2. 0 \in G
  <2> DEFINE f == [n \in 0..0 |-> u]
  <2>1. f = Step(f, 0)
    OBVIOUS
  <2> HIDE DEF f
  <2>2. QED
    BY <1>1, <2>1
<1>3. ASSUME NEW k \in 1..Len(bound), k - 1 \in G
      PROVE  k \in G
  <2>1. PICK f : f = Step(f, k - 1)
    BY <1>3
  <2> DEFINE g == [n \in 0..k |-> IF n = k THEN Dismiss(f[k - 1], bound[k]) ELSE f[n]]
  <2>2. DOMAIN f = 0..(k - 1) /\ \A n \in 0..(k - 1) :
          f[n] = IF n = 0 THEN u ELSE Dismiss(f[n - 1], bound[n])
    BY <2>1
  <2>3. \A n \in 0..k : g[n] = IF n = 0 THEN u ELSE Dismiss(g[n - 1], bound[n])
    <3>1. \A n \in 0..(k - 1) : g[n] = f[n]
      OBVIOUS
    <3>2. g[k] = Dismiss(f[k - 1], bound[k])
      OBVIOUS
    <3> HIDE DEF g
    <3>3. QED
      BY <2>2, <3>1, <3>2
  <2>4. DOMAIN g = 0..k /\ g = [n \in 0..k |-> g[n]]
    OBVIOUS
  <2> HIDE DEF g
  <2>5. g = Step(g, k)
    BY <2>3, <2>4
  <2>6. QED
    BY <2>5
<1> HIDE DEF G
<1>4. 0..Len(bound) \subseteq G
  BY <1>1, <1>2, <1>3, Upwards
<1>5. \E f : f = Step(f, Len(bound))
  BY <1>1, <1>4 DEF G
<1> DEFINE after == CHOOSE f : f = Step(f, Len(bound))
<1>6. after = Step(after, Len(bound))
  BY <1>5
<1>7. DismissEach(u, bound) = after[Len(bound)]
  BY DEF DismissEach
<1> HIDE DEF after
<1>8. QED
  BY <1>6, <1>7

-----------------------------------------------------------------------------
(* The page *)

IsArrivals(a) ==
  a \in [minimised : Stops \cup {NoSubject}, polled : Stops \cup {NoSubject},
         clicks : SUBSET Stops, refreshes : SUBSET Stops]

IsDirections(d) ==
  /\ d \in [active : BOOLEAN, target : Stops \cup {NoSubject},
             line : Stops \cup {NoSubject}, request : Stops \cup {NoSubject},
             starting : BOOLEAN, chosen : SUBSET Routes, periodic : BOOLEAN,
             deferred : BOOLEAN]
  /\ d.active <=> d.target # NoSubject
  /\ d.line # NoSubject => d.active
  /\ d.request \in {NoSubject, d.target}

\* The invariant, by the parts of the state.
Sound(p) == IsPopups(p) /\ Restorable(p)

IsBus(b) == b \in [open : Of("bus") \cup {NoSubject}, ticking : BOOLEAN]

Others ==
  /\ rendering \subseteq SUBSET Routes /\ buses \subseteq Routes /\ schedules \subseteq Routes
  /\ filters \subseteq [route : Routes, info : BOOLEAN]
  /\ selected \in Routes \cup {NoSubject} /\ taps \in 0..MaxTaps /\ reachable \in BOOLEAN

IInv ==
  Sound(popups) /\ IsArrivals(arrivals) /\ IsBus(bus) /\ IsDirections(directions) /\ Others

\* The invariant is the three properties, by their parts.
LEMMA IInvImplies == IInv <=> TypeOK /\ MinimizedCanBeRestored /\ DirectionsServeTheTarget
<1>1. Restorable(popups) <=> MinimizedCanBeRestored
  BY DEF Restorable, Fits, Has, MinimizedCanBeRestored
<1>2. QED
  BY <1>1 DEF IInv, TypeOK, DirectionsServeTheTarget, Sound, IsArrivals, IsBus, IsDirections,
              Others

\* The page opens without popups.
LEMMA InitIInv == Init => IInv
<1> SUFFICES ASSUME Init PROVE IInv
  OBVIOUS
<1>1. Sound(popups)
  <2> DEFINE ts == [t \in Types |-> << >>]
             ss == [t \in {} |-> Blank]
             os == [t \in Types |-> 0]
  <2>1. /\ ts \in [Types -> Seq(Subjects)] /\ os \in [Types -> Nat]
        /\ \A t \in Types : Len(ts[t]) = 0 /\ os[t] = 0
    OBVIOUS
  <2>2. DOMAIN ss \subseteq Types /\ ss \in [DOMAIN ss -> Slots] /\ DOMAIN ss = {}
    OBVIOUS
  <2>3. popups = [active |-> NoSubject, tabs |-> ts, slots |-> ss, windows |-> << >>,
                  overwritten |-> os]
    BY DEF Init, NoPopups
  <2> HIDE DEF ts, ss, os
  <2>4. QED
    BY <2>1, <2>2, <2>3 DEF Sound, IsPopups, Restorable, Fits, Has
<1>2. IsArrivals(arrivals) /\ IsBus(bus) /\ IsDirections(directions) /\ Others
  BY PanelsAssumption DEF Init, IsArrivals, IsBus, IsDirections, Others, Idle, NoBus
<1>3. QED
  BY <1>1, <1>2 DEF IInv

-----------------------------------------------------------------------------
(* Popups and arrivals *)

\* Every operation of MapPopup keeps the types and the tabs of cached popups.
LEMMA SoundOperations ==
  ASSUME NEW p, Sound(p)
  PROVE  /\ Sound(CloseMapPopup(p)) /\ Sound(DismissAll(p))
         /\ \A s \in Subjects : Sound(MinimizePopup(p, s))
         /\ \A t \in Types : Sound(DismissPopup(p, t))
         /\ \A s \in Subjects, a \in Subjects \cup {NoSubject}, w \in SUBSET Subjects :
              Sound(Open(p, s, a, w))
         /\ \A t \in Types, w \in SUBSET Subjects, tracked \in BOOLEAN :
              Sound(RestorePopup(p, t, w, tracked))
<1> USE DEF Sound
<1>1. Sound(CloseMapPopup(p))
  BY Closing, SameFits DEF Restorable, SameType
<1>2. Sound(DismissAll(p))
  BY DismissingAll
<1>3. \A s \in Subjects : Sound(MinimizePopup(p, s))
  BY MinimizingAPopup
<1>4. \A t \in Types : Sound(DismissPopup(p, t))
  BY Dismissing
<1>5. \A s \in Subjects, a \in Subjects \cup {NoSubject}, w \in SUBSET Subjects :
        Sound(Open(p, s, a, w))
  BY Opening
<1>6. \A t \in Types, w \in SUBSET Subjects, tracked \in BOOLEAN :
              Sound(RestorePopup(p, t, w, tracked))
  BY Restoring
<1>7. QED
  BY <1>1, <1>2, <1>3, <1>4, <1>5, <1>6

\* So does an update of the popups on the map in place.
LEMMA Replacing ==
  ASSUME NEW p, Sound(p), NEW ws \in Seq(Windows), NEW s \in Subjects \cup {NoSubject}
  PROVE  Sound([p EXCEPT !.windows = ws]) /\ Sound([p EXCEPT !.active = s, !.windows = ws])
<1> DEFINE q == [p EXCEPT !.windows = ws]
           r == [p EXCEPT !.active = s, !.windows = ws]
<1>1. /\ IsPopups(q) /\ q.tabs = p.tabs /\ q.slots = p.slots /\ q.overwritten = p.overwritten
      /\ IsPopups(r) /\ r.tabs = p.tabs /\ r.slots = p.slots /\ r.overwritten = p.overwritten
  BY DEF Sound, IsPopups
<1> HIDE DEF q, r
<1>2. \A t \in Types : SameType(q, p, t) /\ SameType(r, p, t)
  BY <1>1 DEF SameType
<1>3. Restorable(q) /\ Restorable(r)
  BY <1>2, SameFits DEF Sound, Restorable
<1>4. QED
  BY <1>1, <1>3 DEF Sound, q, r

\* A refresh replaces the arrivals of the oldest popup, if it lists any.
LEMMA Refreshing ==
  ASSUME NEW ws \in Seq(Windows), NEW s \in Subjects \cup {NoSubject}
  PROVE  /\ RefreshedWindows(ws, s) \in Seq(Windows)
         /\ Len(RefreshedWindows(ws, s)) = Len(ws)
         /\ \A i \in DOMAIN ws :
              \/ RefreshedWindows(ws, s)[i] = ws[i]
              \/ /\ ws[i].content.arrivals # NoSubject
                 /\ RefreshedWindows(ws, s)[i] = [ws[i] EXCEPT !.content.arrivals = s]
<1>1. CASE ws = << >> \/ Head(ws).content.arrivals = NoSubject
  BY <1>1 DEF RefreshedWindows
<1>2. CASE ws # << >> /\ Head(ws).content.arrivals # NoSubject
  <2> DEFINE c == [ws[1].content EXCEPT !.arrivals = s]
             w == [ws[1] EXCEPT !.content = c]
  <2>1. 1 \in 1..Len(ws) /\ ws[1] \in Windows /\ DOMAIN ws = 1..Len(ws) /\ Len(ws) \in Nat
    BY <1>2
  <2>2. RefreshedWindows(ws, s) = [ws EXCEPT ![1] = w]
    BY <1>2 DEF RefreshedWindows
  <2>3. w \in Windows /\ w = [ws[1] EXCEPT !.content.arrivals = s]
    BY <2>1 DEF Windows, Contents
  <2> HIDE DEF w
  <2>4. [ws EXCEPT ![1] = w] \in Seq(Windows) /\ Len([ws EXCEPT ![1] = w]) = Len(ws)
    BY <2>1, <2>3
  <2>5. \A i \in DOMAIN ws : [ws EXCEPT ![1] = w][i] = IF i = 1 THEN w ELSE ws[i]
    BY <2>1
  <2>6. QED
    BY <1>2, <2>1, <2>2, <2>3, <2>4, <2>5
<1>3. QED
  BY <1>1, <1>2

\* What AnswerSchedule makes of the windows.
Scheduled(ws, r) ==
  [i \in DOMAIN ws |-> IF r \in ws[i].content.awaited
                       THEN [ws[i] EXCEPT !.bound = <<r>>] ELSE ws[i]]

\* A schedule replaces the buttons of the popups that await it.
LEMMA Scheduling ==
  ASSUME NEW ws \in Seq(Windows), NEW r \in Subjects
  PROVE  Scheduled(ws, r) \in Seq(Windows) /\ Len(Scheduled(ws, r)) = Len(ws)
<1>1. \A i \in 1..Len(ws) : Scheduled(ws, r)[i] \in Windows
  <2> TAKE i \in 1..Len(ws)
  <2>1. ws[i] \in Windows /\ DOMAIN ws = 1..Len(ws)
    OBVIOUS
  <2>2. <<r>> \in Seq(Subjects)
    OBVIOUS
  <2>3. [ws[i] EXCEPT !.bound = <<r>>] \in Windows
    BY <2>1, <2>2 DEF Windows
  <2>4. QED
    BY <2>1, <2>3 DEF Scheduled
<1>2. DOMAIN Scheduled(ws, r) = 1..Len(ws) /\ Len(ws) \in Nat
  BY DEF Scheduled
<1>3. Scheduled(ws, r) = [i \in 1..Len(ws) |-> Scheduled(ws, r)[i]]
  BY <1>2 DEF Scheduled
<1>4. Scheduled(ws, r) \in Seq(Windows)
  BY <1>1, <1>2, <1>3
<1>5. QED
  BY <1>2, <1>4, LenProperties

\* Popups with the arrivals and the bus that belong to them, as the callbacks take them.
IsShown(u) == Sound(u.popups) /\ IsArrivals(u.arrivals) /\ IsBus(u.bus)

\* One callback keeps the types and the tabs.
LEMMA OneButton ==
  ASSUME NEW u, IsShown(u), NEW s \in Subjects
  PROVE  IsShown(Minimize(u, s)) /\ IsShown(Dismiss(u, s))
<1>1. Sound(MinimizePopup(u.popups, s)) /\ Sound(DismissPopup(u.popups, TypeOf[s]))
  BY SoundOperations, Kinds DEF IsShown
<1>2. IsArrivals(Minimize(u, s).arrivals) /\ IsArrivals(Dismiss(u, s).arrivals)
  BY DEF IsShown, IsArrivals, Minimize, Dismiss, Polling
<1>3. IsBus(Minimize(u, s).bus) /\ IsBus(Dismiss(u, s).bus)
  BY DEF IsShown, IsBus, Minimize, Dismiss
<1>4. QED
  BY <1>1, <1>2, <1>3 DEF IsShown, Minimize, Dismiss

\* All callbacks of a button do.
LEMMA ButtonsKeep ==
  ASSUME NEW u, IsShown(u), NEW bound \in Seq(Subjects)
  PROVE  IsShown(MinimizeEach(u, bound)) /\ IsShown(DismissEach(u, bound))
<1>1. IsShown(MinimizeEach(u, bound))
  <2>1. PICK after :
          /\ after = [n \in 0..Len(bound) |->
                        IF n = 0 THEN u ELSE Minimize(after[n - 1], bound[n])]
          /\ MinimizeEach(u, bound) = after[Len(bound)]
    BY MinimizeEachIs
  <2>2. /\ Len(bound) \in Nat
        /\ after[0] = u
        /\ \A n \in 1..Len(bound) : /\ n - 1 \in 0..Len(bound)
                                    /\ after[n] = Minimize(after[n - 1], bound[n])
                                    /\ bound[n] \in Subjects
    BY <2>1
  <2> DEFINE G == {n \in 0..Len(bound) : IsShown(after[n])}
  <2>3. 0 \in G
    BY <2>2
  <2>4. ASSUME NEW n \in 1..Len(bound), n - 1 \in G
        PROVE  n \in G
    <3>1. IsShown(after[n - 1]) /\ bound[n] \in Subjects
      BY <2>2, <2>4
    <3>2. IsShown(Minimize(after[n - 1], bound[n]))
      BY <3>1, OneButton
    <3>3. QED
      BY <2>2, <3>2
  <2> HIDE DEF G
  <2>5. 0..Len(bound) \subseteq G
    BY <2>2, <2>3, <2>4, Upwards
  <2>6. QED
    BY <2>1, <2>2, <2>5 DEF G
<1>2. IsShown(DismissEach(u, bound))
  <2>1. PICK after :
          /\ after = [n \in 0..Len(bound) |->
                        IF n = 0 THEN u ELSE Dismiss(after[n - 1], bound[n])]
          /\ DismissEach(u, bound) = after[Len(bound)]
    BY DismissEachIs
  <2>2. /\ Len(bound) \in Nat
        /\ after[0] = u
        /\ \A n \in 1..Len(bound) : /\ n - 1 \in 0..Len(bound)
                                    /\ after[n] = Dismiss(after[n - 1], bound[n])
                                    /\ bound[n] \in Subjects
    BY <2>1
  <2> DEFINE G == {n \in 0..Len(bound) : IsShown(after[n])}
  <2>3. 0 \in G
    BY <2>2
  <2>4. ASSUME NEW n \in 1..Len(bound), n - 1 \in G
        PROVE  n \in G
    <3>1. IsShown(after[n - 1]) /\ bound[n] \in Subjects
      BY <2>2, <2>4
    <3>2. IsShown(Dismiss(after[n - 1], bound[n]))
      BY <3>1, OneButton
    <3>3. QED
      BY <2>2, <3>2
  <2> HIDE DEF G
  <2>5. 0..Len(bound) \subseteq G
    BY <2>2, <2>3, <2>4, Upwards
  <2>6. QED
    BY <2>1, <2>2, <2>5 DEF G
<1>3. QED
  BY <1>1, <1>2

\* The goal of the steps about popups.
PageKept == Sound(popups') /\ IsArrivals(arrivals') /\ IsBus(bus')

\* A stop popup that comes up.
LEMMA ShowingAStop ==
  ASSUME IInv, NEW s \in Stops, NEW rows \in {s, NoSubject}, ShowStop(s, rows), UNCHANGED bus
  PROVE  PageKept
<1>1. Sound(Open(popups, s, rows, arrivals.refreshes))
  BY SoundOperations, Kinds DEF IInv, IsArrivals
<1>2. QED
  BY <1>1 DEF IInv, IsArrivals, ShowStop, PageKept

\* The tracker forgets its bus.
LEMMA NoBusIsBus == IsBus(NoBus)
BY DEF IsBus, NoBus

\* A return to the default state.
LEMMA Restarting ==
  ASSUME IInv, RestoreDefaultState(popups, arrivals)
  PROVE  PageKept
<1>1. Sound(DismissAll(CloseMapPopup(popups)))
  BY SoundOperations DEF IInv
<1>2. QED
  BY <1>1, NoBusIsBus
     DEF IInv, IsArrivals, RestoreDefaultState, StopTracking, Polling, PageKept

\* A route filter.
LEMMA Filtering ==
  ASSUME IInv, NEW f, ApplyRouteFilter(f), UNCHANGED arrivals
  PROVE  PageKept
BY SoundOperations, NoBusIsBus DEF IInv, ApplyRouteFilter, StopTracking, PageKept

\* What the stop's predictions may be.
LEMMA PredictionsAre ==
  ASSUME NEW s \in Stops
  PROVE  Predictions(s) \subseteq {s, NoSubject}
BY DEF Predictions

\* What ClickTab takes for the refreshes under way.
Writing(t) ==
  arrivals.refreshes \cup IF t = "stop" THEN {} ELSE {arrivals.polled} \ {NoSubject}

\* Every step keeps the popups and the arrivals well formed.
LEMMA PopupsKeep ==
  ASSUME IInv, [Next]_vars
  PROVE  PageKept
<1>1. CASE UNCHANGED <<popups, arrivals, bus>>
  BY <1>1 DEF IInv, PageKept
<1>2. ASSUME NEW s \in Stops, ClickStop(s) PROVE PageKept
  <2>1. UNCHANGED bus
    BY <1>2 DEF ClickStop
  <2>2. ASSUME NEW rows \in {s, NoSubject}, ShowStop(s, rows) PROVE PageKept
    BY <2>1, <2>2, ShowingAStop
  <2>3. CASE UNCHANGED popups /\ arrivals' = [arrivals EXCEPT !.clicks = @ \cup {s}]
    BY <2>1, <2>3 DEF IInv, IsArrivals, PageKept
  <2>4. QED
    BY <1>1, <1>2, <2>1, <2>2, <2>3 DEF ClickStop
<1>3. ASSUME NEW s \in Stops, AnswerClick(s) PROVE PageKept
  <2>1. PICK rows \in Predictions(s) : ShowStop(s, rows)
    BY <1>3 DEF AnswerClick
  <2>2. UNCHANGED bus /\ rows \in {s, NoSubject}
    BY <1>3, PredictionsAre DEF AnswerClick
  <2>3. QED
    BY <2>1, <2>2, ShowingAStop
<1>4. ASSUME NEW s \in Stops, AnswerRefresh(s) PROVE PageKept
  <2>1. IsArrivals(arrivals') /\ UNCHANGED bus
    BY <1>4 DEF AnswerRefresh, IInv, IsArrivals
  <2>2. PICK rows \in Predictions(s) :
          popups' = [popups EXCEPT !.windows = RefreshedWindows(popups.windows, rows)]
    BY <1>4 DEF AnswerRefresh
  <2>3. popups.windows \in Seq(Windows) /\ rows \in Subjects \cup {NoSubject}
    BY PredictionsAre, Kinds DEF IInv, Sound, IsPopups
  <2>4. RefreshedWindows(popups.windows, rows) \in Seq(Windows)
    BY <2>3, Refreshing
  <2>5. NoSubject \in Subjects \cup {NoSubject}
    OBVIOUS
  <2>6. Sound(popups')
    BY <2>2, <2>4, <2>5, Replacing DEF IInv
  <2>7. QED
    BY <2>1, <2>6 DEF IInv, PageKept
<1>5. ASSUME NEW s \in Of("bus"), ClickBus(s) PROVE PageKept
  <2>1. Sound(Open(popups, s, NoSubject, {}))
    BY SoundOperations, Kinds DEF IInv
  <2>2. IsBus(bus')
    BY <1>5 DEF ClickBus, IsBus
  <2>3. QED
    BY <1>5, <2>1, <2>2 DEF ClickBus, IInv, PageKept
<1>6. CASE Tick \/ PollArrivals
  BY <1>6, NoBusIsBus DEF Tick, PollArrivals, Polling, IInv, IsArrivals, PageKept
<1>7. CASE LoseBus
  BY <1>7, NoBusIsBus, SoundOperations DEF LoseBus, IInv, PageKept
<1>8. ASSUME NEW i \in DOMAIN popups.windows, ClickMinimize(i) \/ ClickClose(i) PROVE PageKept
  <2> DEFINE u == Shown
  <2>1. IsShown(u)
    BY DEF IInv, IsShown, Shown
  <2>2. Buttons(i) \in Seq(Subjects)
    <3>1. popups.windows \in Seq(Windows)
      BY DEF IInv, Sound, IsPopups
    <3>2. popups.windows[i] \in Windows
      BY <3>1
    <3>3. QED
      BY <3>2 DEF Windows, Buttons
  <2> HIDE DEF u
  <2>3. IsShown(MinimizeEach(u, Buttons(i))) /\ IsShown(DismissEach(u, Buttons(i)))
    BY <2>1, <2>2, ButtonsKeep
  <2>4. QED
    BY <1>8, <2>3 DEF ClickMinimize, ClickClose, IsShown, PageKept, u
<1>9. ASSUME NEW t \in Types, ClickTab(t) PROVE PageKept
  <2>1. Writing(t) \in SUBSET Subjects
    BY Kinds DEF Writing, IInv, IsArrivals
  <2>2. PICK tracked \in BOOLEAN :
          /\ popups' = RestorePopup(popups, t, Writing(t), tracked)
          /\ bus' = [bus EXCEPT !.ticking =
                       @ \/ (t = "bus" /\ t \in DOMAIN popups.slots /\ tracked)]
    BY <1>9 DEF ClickTab, Writing
  <2>3. Sound(popups')
    BY <2>1, <2>2, SoundOperations DEF IInv
  <2>4. t = "stop" /\ t \in DOMAIN popups.slots => popups.slots[t].subject \in Stops
    BY Kinds DEF IInv, Sound, IsPopups, Slots
  <2>5. IsArrivals(arrivals')
    BY <1>9, <2>4 DEF ClickTab, Polling, IInv, IsArrivals
  <2>6. IsBus(bus')
    BY <2>2 DEF IInv, IsBus
  <2>7. QED
    BY <2>3, <2>5, <2>6 DEF PageKept
<1>10. ASSUME NEW r \in Routes, SelectRoute(r) \/ SearchSelectRoute(r) PROVE PageKept
  BY <1>10, Filtering DEF SelectRoute, SearchSelectRoute
<1>11. ASSUME NEW f \in filters, AnswerFilter(f) PROVE PageKept
  <2>1. f.route \in Subjects /\ {f.route} \in SUBSET Subjects
    BY Kinds DEF IInv, Others
  <2>2. Sound(StopTracking(popups))
    BY SoundOperations DEF IInv, StopTracking
  <2>3. Sound(Open(StopTracking(popups), f.route, NoSubject, {f.route}))
    BY <2>1, <2>2, SoundOperations
  <2>4. QED
    BY <1>11, <2>2, <2>3, NoBusIsBus DEF AnswerFilter, IInv, PageKept
<1>12. ASSUME NEW r \in Routes, AnswerSchedule(r) PROVE PageKept
  <2>1. popups.windows \in Seq(Windows) /\ r \in Subjects
    BY Kinds DEF IInv, Sound, IsPopups
  <2>2. Sound([popups EXCEPT !.active = r, !.windows = Scheduled(popups.windows, r)])
    BY <2>1, Scheduling, Replacing DEF IInv
  <2>3. QED
    BY <1>12, <2>2 DEF AnswerSchedule, Scheduled, IInv, PageKept
<1>13. CASE Deselect
  BY <1>13, Restarting DEF Deselect
<1>14. ASSUME NEW i \in DOMAIN popups.windows, NEW chosen \in SUBSET Routes,
              TapDirections(i, chosen)
       PROVE  PageKept
  <2>1. Sound(CloseMapPopup(StopTracking(popups)))
    BY SoundOperations DEF IInv, StopTracking
  <2>2. QED
    BY <1>14, <2>1, NoBusIsBus
       DEF TapDirections, StartDirections, ReturnAtOnce, IInv, PageKept
<1>15. CASE ExitDirections
  BY <1>15, Restarting, Filtering DEF ExitDirections
<1>16. CASE AnswerDirections \/ Reroute \/ Defer \/ DeferredReroute \/ ReachabilityChanges
            \/ \E rs \in rendering : ShowBuses(rs)
  BY <1>1, <1>16 DEF AnswerDirections, Reroute, Defer, DeferredReroute, ReachabilityChanges,
                     ShowBuses
<1>17. CASE UNCHANGED vars
  BY <1>1, <1>17 DEF vars
<1>18. QED
  BY <1>2, <1>3, <1>4, <1>5, <1>6, <1>7, <1>8, <1>9, <1>10, <1>11, <1>12, <1>13, <1>14,
     <1>15, <1>16, <1>17 DEF Next

-----------------------------------------------------------------------------
(* Directions *)

\* What startDirections makes of the directions.
LEMMA StartedIs ==
  ASSUME NEW d, IsDirections(d)
  PROVE  /\ IsDirections(Started(d)) /\ IsDirections(Leave(d))
         /\ d.active => IsDirections(Fetch(d))
         /\ Buses(d) \subseteq SUBSET Routes
BY Kinds DEF IsDirections, Started, Leave, Fetch, Buses, Idle

\* Every step keeps the directions for their target.
LEMMA DirectionsKeep ==
  ASSUME IInv, [Next]_vars
  PROVE  IsDirections(directions')
<1>1. CASE UNCHANGED directions
  BY <1>1 DEF IInv
<1>2. ASSUME NEW i \in DOMAIN popups.windows, NEW chosen \in SUBSET Routes,
              TapDirections(i, chosen)
      PROVE  IsDirections(directions')
  <2>1. ASSUME NEW s \in Stops, StartDirections(s, chosen) PROVE IsDirections(directions')
    BY <2>1, Kinds DEF IInv, IsDirections, StartDirections, Started
  <2>2. CASE ReturnAtOnce(chosen)
    BY <1>1, <2>2 DEF ReturnAtOnce
  <2>3. QED
    BY <1>2, <2>1, <2>2 DEF TapDirections
<1>3. CASE AnswerDirections
  BY <1>3, Kinds DEF AnswerDirections, IInv, IsDirections, Started
<1>4. CASE Reroute
  BY <1>4, StartedIs DEF Reroute, IInv
<1>5. CASE Defer
  BY <1>5 DEF Defer, IInv, IsDirections
<1>6. CASE DeferredReroute
  <2>1. IsDirections(IF directions.active THEN Fetch(directions) ELSE directions)
    BY StartedIs DEF IInv
  <2>2. QED
    BY <1>6, <2>1 DEF DeferredReroute, IsDirections
<1>7. CASE ExitDirections
  BY <1>7, StartedIs DEF ExitDirections, IInv
<1>8. CASE UNCHANGED vars
  BY <1>1, <1>8 DEF vars
<1>9. QED
  BY <1>1, <1>2, <1>3, <1>4, <1>5, <1>6, <1>7, <1>8
     DEF Next, ClickStop, AnswerClick, AnswerRefresh, ClickBus, Tick, LoseBus, PollArrivals,
         ClickMinimize, ClickClose, ClickTab, SelectRoute, AnswerFilter, AnswerSchedule,
         SearchSelectRoute, Deselect, ShowBuses, ReachabilityChanges

\* What a rendering of buses adds.
LEMMA Rendering ==
  ASSUME IInv, NEW d, IsDirections(d), NEW more, more \subseteq SUBSET Routes, Render(d, more)
  PROVE  rendering' \subseteq SUBSET Routes
BY StartedIs DEF Render, IInv, Others

\* So does a route that is applied, to the filters under way.
LEMMA Applying ==
  ASSUME IInv, NEW r \in Routes, NEW info \in BOOLEAN, ApplyRouteFilter(Filter(r, info))
  PROVE  filters' \subseteq [route : Routes, info : BOOLEAN] /\ buses' = {}
<1>1. Filter(r, info) \in [route : Routes, info : BOOLEAN]
  BY DEF Filter
<1>2. QED
  BY <1>1 DEF ApplyRouteFilter, IInv, Others

\* Every step keeps the types of the rest.
LEMMA OthersKeep ==
  ASSUME IInv, [Next]_vars
  PROVE  Others'
<1> USE DEF Others
<1>1. CASE UNCHANGED <<rendering, buses, filters, schedules, selected, taps, reachable>>
  BY <1>1 DEF IInv
<1>2. ASSUME Tap, UNCHANGED <<rendering, buses, filters, schedules, selected>>
      PROVE  Others'
  BY <1>2, PanelsAssumption DEF Tap, IInv
<1>3. ASSUME NEW r \in Routes, SelectRoute(r) \/ AnswerSchedule(r) \/ SearchSelectRoute(r)
      PROVE  Others'
  <2>1. CASE SelectRoute(r) \/ SearchSelectRoute(r)
    <3>1. filters' \subseteq [route : Routes, info : BOOLEAN] /\ buses' = {}
      BY <2>1, Applying DEF SelectRoute, SearchSelectRoute
    <3>2. selected' = r /\ Tap /\ UNCHANGED <<rendering, schedules>>
      BY <2>1 DEF SelectRoute, SearchSelectRoute
    <3>3. QED
      BY <3>1, <3>2, PanelsAssumption DEF Tap, IInv
  <2>2. CASE AnswerSchedule(r)
    BY <2>2 DEF AnswerSchedule, IInv
  <2>3. QED
    BY <1>3, <2>1, <2>2
<1>3a. ASSUME NEW f \in filters, AnswerFilter(f)
       PROVE  Others'
  BY <1>3a DEF AnswerFilter, IInv
<1>4. CASE Deselect
  BY <1>4, PanelsAssumption DEF Deselect, RestoreDefaultState, Tap, IInv
<1>5. ASSUME NEW i \in DOMAIN popups.windows, NEW chosen \in SUBSET Routes,
              TapDirections(i, chosen)
      PROVE  Others'
  <2>1. IsDirections(directions) /\ IsDirections(Idle)
    BY Kinds DEF IInv, IsDirections, Idle
  <2>2. rendering' \subseteq SUBSET Routes
    BY <1>5, <2>1, Rendering DEF TapDirections, StartDirections, ReturnAtOnce
  <2>3. QED
    BY <1>5, <2>2, PanelsAssumption
       DEF TapDirections, StartDirections, ReturnAtOnce, Tap, IInv
<1>6. CASE AnswerDirections \/ Reroute \/ DeferredReroute \/ ExitDirections
  <2>1. rendering' \subseteq SUBSET Routes
    BY <1>6, Rendering DEF AnswerDirections, Reroute, DeferredReroute, ExitDirections, IInv
  <2>2. CASE AnswerDirections \/ Reroute \/ DeferredReroute
    BY <2>1, <2>2 DEF AnswerDirections, Reroute, DeferredReroute, IInv
  <2>3. CASE ExitDirections
    <3>1. CASE selected = NoSubject
      BY <2>1, <2>3, <3>1 DEF ExitDirections, RestoreDefaultState, IInv
    <3>2. CASE selected # NoSubject
      <4>1. ApplyRouteFilter(Filter(selected, FALSE)) /\ selected \in Routes
        BY <2>3, <3>2 DEF ExitDirections, IInv
      <4>2. filters' \subseteq [route : Routes, info : BOOLEAN] /\ buses' = {}
        BY <4>1, Applying
      <4>3. QED
        BY <2>1, <2>3, <3>2, <4>2 DEF ExitDirections, IInv
    <3>3. QED
      BY <3>1, <3>2
  <2>4. QED
    BY <1>6, <2>2, <2>3
<1>7. ASSUME NEW rs \in rendering, ShowBuses(rs)
      PROVE  Others'
  BY <1>7 DEF ShowBuses, IInv
<1>8. CASE ReachabilityChanges
  BY <1>8 DEF ReachabilityChanges, IInv
<1>9. CASE UNCHANGED vars
  BY <1>1, <1>9 DEF vars
<1>10. ASSUME NEW s \in Stops, ClickStop(s) \/ AnswerClick(s) \/ AnswerRefresh(s)
       PROVE  Others'
  BY <1>1, <1>2, <1>10 DEF ClickStop, AnswerClick, AnswerRefresh
<1>11. ASSUME NEW s \in Of("bus"), ClickBus(s) PROVE Others'
  BY <1>2, <1>11 DEF ClickBus
<1>12. CASE Tick \/ LoseBus \/ PollArrivals \/ Defer
  BY <1>1, <1>12 DEF Tick, LoseBus, PollArrivals, Defer
<1>13. ASSUME NEW i \in DOMAIN popups.windows, ClickMinimize(i) \/ ClickClose(i) PROVE Others'
  BY <1>2, <1>13 DEF ClickMinimize, ClickClose
<1>14. ASSUME NEW t \in Types, ClickTab(t) PROVE Others'
  BY <1>2, <1>14 DEF ClickTab
<1> HIDE DEF Others
<1>15. QED
  BY <1>3, <1>3a, <1>4, <1>5, <1>6, <1>7, <1>8, <1>9, <1>10, <1>11, <1>12, <1>13, <1>14
     DEF Next

-----------------------------------------------------------------------------

\* Every step keeps the invariant.
LEMMA NextIInv == IInv /\ [Next]_vars => IInv'
BY PopupsKeep, DirectionsKeep, OthersKeep DEF IInv, PageKept

\* The inductive invariant of the panels.
THEOREM Invariance == Spec => []IInv
BY InitIInv, NextIInv, PTL DEF Spec

\* The types of Panels.
THEOREM TypeCorrectness == Spec => []TypeOK
BY Invariance, IInvImplies, PTL

\* A minimized popup has the newest tab of its type, and any other tab of the type
\* stands for one that was overwritten, for any stops, routes and buses and any taps.
THEOREM Restoration == Spec => []MinimizedCanBeRestored
BY Invariance, IInvImplies, PTL

\* A line is there in directions mode only, and the request under way is for the stop
\* that the panel names.
THEOREM Navigation == Spec => []DirectionsServeTheTarget
BY Invariance, IInvImplies, PTL

-----------------------------------------------------------------------------
(* Arrivals *)

\* A content lists nothing, its own arrivals, or those of a stop noted with it.
Raced(c) ==
  c.arrivals \in Stops \cup {NoSubject} /\ c.arrivals \in c.awaited \cup {c.of, NoSubject}

\* Of the stops in W a listed popup shows its own, or has them noted.
Noted(c, W) == c.arrivals # NoSubject => W \subseteq c.awaited \cup {c.of}

\* The stops whose arrivals can still be written into a popup.
Writers(a) == (a.refreshes \cup {a.polled}) \ {NoSubject}

WindowsOwn(ws, W) == \A i \in DOMAIN ws : Raced(ws[i].content) /\ Noted(ws[i].content, W)
SlotsOwn(p) == \A t \in DOMAIN p.slots : Raced(p.slots[t].content)

\* The invariant of ArrivalsNeedARace, for the stops that can still write.
Own(p, W) == SlotsOwn(p) /\ WindowsOwn(p.windows, W)

\* Fewer can write.
LEMMA FewerIsOwn ==
  ASSUME NEW p, NEW W, NEW V, V \subseteq W, Own(p, W)
  PROVE  Own(p, V)
BY DEF Own, WindowsOwn, Noted

\* Without the oldest popup.
LEMMA ClosedIsOwn ==
  ASSUME NEW p, IsPopups(p), NEW W, WindowsOwn(p.windows, W)
  PROVE  WindowsOwn(CloseMapPopup(p).windows, W)
<1> DEFINE ws == p.windows
           vs == IF ws = << >> THEN << >> ELSE Tail(ws)
<1>1. ws \in Seq(Windows)
  BY DEF IsPopups
<1>2. CloseMapPopup(p).windows = vs
  BY Closing
<1>3. WindowsOwn(ws, W)
  OBVIOUS
<1> HIDE DEF ws
<1>4. ASSUME NEW i \in DOMAIN vs
      PROVE  Raced(vs[i].content) /\ Noted(vs[i].content, W)
  <2>1. ws # << >>
    BY <1>4
  <2>2. /\ DOMAIN ws = 1..Len(ws) /\ Len(ws) \in Nat
        /\ DOMAIN Tail(ws) = 1..(Len(ws) - 1) /\ \A j \in 1..(Len(ws) - 1) : Tail(ws)[j] = ws[j + 1]
    BY <1>1, <2>1
  <2>3. vs[i] = ws[i + 1] /\ i + 1 \in DOMAIN ws
    BY <2>1, <2>2
  <2>4. QED
    BY <1>3, <2>3 DEF WindowsOwn
<1>5. QED
  BY <1>2, <1>4 DEF WindowsOwn

\* What is cached lists as the oldest popup did.
LEMMA CachedAreOwn ==
  ASSUME NEW p, IsPopups(p), NEW W, Own(p, W), NEW s, NEW q, SlotsFrom(q, p, s)
  PROVE  SlotsOwn(q)
<1>1. Raced(Oldest(p))
  <2>1. CASE p.windows = << >>
    BY <2>1 DEF Oldest, Blank, Content, Raced
  <2>2. CASE p.windows # << >>
    <3>1. 1 \in DOMAIN p.windows /\ Head(p.windows) = p.windows[1]
      BY <2>2 DEF IsPopups
    <3>2. QED
      BY <2>2, <3>1 DEF Oldest, Own, WindowsOwn
  <2>3. QED
    BY <2>1, <2>2
<1>2. QED
  BY <1>1 DEF SlotsFrom, SlotsOwn, Own

\* Where a popup comes up, the others note its stop.
LEMMA BesideIsOwn ==
  ASSUME NEW ws \in Seq(Windows), NEW W, WindowsOwn(ws, W), NEW s \in Subjects,
         NEW V, V \subseteq W \cup IF TypeOf[s] = "stop" THEN {s} ELSE {}
  PROVE  WindowsOwn(Beside(ws, s), V)
<1>1. /\ Beside(ws, s) \in Seq(Windows) /\ Len(Beside(ws, s)) = Len(ws)
      /\ DOMAIN ws = 1..Len(ws) /\ DOMAIN Beside(ws, s) = 1..Len(Beside(ws, s))
  BY BesideIs, LenProperties
<1>2. ASSUME NEW i \in DOMAIN ws
      PROVE  Raced(Beside(ws, s)[i].content) /\ Noted(Beside(ws, s)[i].content, V)
  <2>1. Raced(ws[i].content) /\ Noted(ws[i].content, W)
    BY DEF WindowsOwn
  <2>2. i \in 1..Len(ws)
    BY <1>1
  <2>2a. LET c == ws[i].content  d == Beside(ws, s)[i].content IN
         /\ d.of = c.of /\ d.arrivals = c.arrivals
         /\ d.awaited = IF TypeOf[s] = "stop" THEN c.awaited \cup {s} ELSE c.awaited
    BY <2>2, BesideIs
  <2>3. QED
    BY <2>1, <2>2a DEF Raced, Noted
<1>3. QED
  BY <1>1, <1>2 DEF WindowsOwn

\* One more popup.
LEMMA AppendedIsOwn ==
  ASSUME NEW ws \in Seq(Windows), NEW V, WindowsOwn(ws, V),
         NEW w \in Windows, Raced(w.content), Noted(w.content, V)
  PROVE  WindowsOwn(Append(ws, w), V)
<1>1. /\ Len(ws) \in Nat /\ DOMAIN ws = 1..Len(ws)
      /\ DOMAIN Append(ws, w) = 1..(Len(ws) + 1)
      /\ \A i \in 1..(Len(ws) + 1) : Append(ws, w)[i] = IF i = Len(ws) + 1 THEN w ELSE ws[i]
  OBVIOUS
<1>2. \A i \in 1..(Len(ws) + 1) : i # Len(ws) + 1 => i \in 1..Len(ws)
  BY <1>1
<1>3. QED
  BY <1>1, <1>2 DEF WindowsOwn

\* A popup that comes up lists what its stop's answer gave it.
LEMMA OpeningIsOwn ==
  ASSUME NEW p, Sound(p), NEW W, Own(p, W),
         NEW s \in Subjects, NEW rows \in {s, NoSubject}, rows \in Stops \cup {NoSubject},
         NEW noted \in SUBSET Subjects,
         NEW V, V \subseteq W \cup IF TypeOf[s] = "stop" THEN {s} ELSE {},
         rows # NoSubject => V \subseteq noted \cup {s}
  PROVE  Own(Open(p, s, rows, noted), V)
<1> DEFINE q == Open(p, s, rows, noted)
           w == Window(Content(s, rows, noted), <<s>>)
<1>0. rows \in Subjects \cup {NoSubject} /\ IsPopups(p) /\ Restorable(p)
  BY DEF Sound
<1>1. SlotsFrom(q, p, p.active) /\ Opens(q, p, s, w)
  BY <1>0, Opening
<1>2. SlotsOwn(q)
  BY <1>1, CachedAreOwn DEF Sound
<1> HIDE DEF q
<1>3. PICK ws \in {p.windows, CloseMapPopup(p).windows} : q.windows = Append(Beside(ws, s), w)
  BY <1>1 DEF Opens
<1>4. ws \in Seq(Windows) /\ WindowsOwn(ws, W)
  <2>1. WindowsOwn(p.windows, W)
    BY DEF Own
  <2>2. WindowsOwn(CloseMapPopup(p).windows, W)
    BY <1>0, <2>1, ClosedIsOwn
  <2>3. IsPopups(CloseMapPopup(p))
    BY <1>0, Closing
  <2>4. QED
    BY <1>0, <2>1, <2>2, <2>3 DEF IsPopups
<1>5. Beside(ws, s) \in Seq(Windows) /\ WindowsOwn(Beside(ws, s), V)
  BY <1>4, BesideIs, BesideIsOwn
<1>6. w \in Windows /\ Raced(w.content) /\ Noted(w.content, V)
  BY DEF Window, Content, Windows, Contents, Raced, Noted
<1> HIDE DEF w
<1>7. WindowsOwn(q.windows, V)
  BY <1>3, <1>5, <1>6, AppendedIsOwn
<1>8. QED
  BY <1>2, <1>7 DEF Own, q

\* A restored popup lists what it listed.
LEMMA RestoringIsOwn ==
  ASSUME NEW p, Sound(p), NEW W, Own(p, W), NEW t \in Types,
         NEW noted \in SUBSET Subjects, NEW tracked \in BOOLEAN, NEW V,
         t \notin DOMAIN p.slots => V \subseteq W,
         t \in DOMAIN p.slots =>
           LET own == IF t = "stop" THEN {p.slots[t].subject} ELSE {} IN
           V \subseteq W \cup own /\ V \subseteq noted \cup own
  PROVE  Own(RestorePopup(p, t, noted, tracked), V)
<1> DEFINE q == RestorePopup(p, t, noted, tracked)
           slot == p.slots[t]
<1>1. /\ SlotsFrom(q, p, p.active)
      /\ t \notin DOMAIN p.slots => Closes(q, p)
      /\ t \in DOMAIN p.slots =>
           \/ q.windows = Rebound(p.windows, slot, noted, tracked)
           \/ q.windows = Rebound(CloseMapPopup(p).windows, slot, noted, tracked)
  BY Restoring DEF Sound
<1> HIDE DEF q, slot
<1>2. SlotsOwn(q)
  BY <1>1, CachedAreOwn DEF Sound
<1>3. /\ p.windows \in Seq(Windows) /\ CloseMapPopup(p).windows \in Seq(Windows)
      /\ WindowsOwn(p.windows, W) /\ WindowsOwn(CloseMapPopup(p).windows, W)
  BY Closing, ClosedIsOwn DEF Sound, IsPopups, Own
<1>4. CASE t \notin DOMAIN p.slots
  <2>1. WindowsOwn(q.windows, W)
    BY <1>1, <1>3, <1>4 DEF Closes
  <2>2. QED
    BY <1>2, <1>4, <2>1 DEF Own, WindowsOwn, Noted, q
<1>5. CASE t \in DOMAIN p.slots
  <2> DEFINE c == Restored(slot, noted)
             w == Window(c, << >>)
  <2>1. slot \in Slots /\ slot.subject \in Subjects /\ TypeOf[slot.subject] = t /\ Raced(slot.content)
    BY <1>5 DEF Sound, IsPopups, Slots, Own, SlotsOwn, slot
  <2>2. /\ V \subseteq W \cup IF t = "stop" THEN {slot.subject} ELSE {}
        /\ V \subseteq noted \cup IF t = "stop" THEN {slot.subject} ELSE {}
    BY <1>5 DEF slot
  <2>3. /\ c \in Contents /\ c.of = slot.content.of /\ c.arrivals = slot.content.arrivals
        /\ noted \subseteq c.awaited
        /\ \A s \in slot.content.awaited \cup {slot.subject} :
             TypeOf[s] = "stop" => s \in c.awaited
    BY <2>1, RestoredIs
  <2>4. slot.content.arrivals = NoSubject \/ TypeOf[slot.content.arrivals] = "stop"
    BY <2>1, Kinds DEF Raced
  <2> HIDE DEF c
  <2>5. w \in Windows /\ w.content = c
    BY <2>3 DEF Window, Windows
  <2>6. Raced(c) /\ Noted(c, V)
    BY <2>1, <2>2, <2>3, <2>4 DEF Raced, Noted
  <2> HIDE DEF w
  <2>7. PICK ws \in {p.windows, CloseMapPopup(p).windows} :
          q.windows = Rebind(Append(Beside(ws, slot.subject), w), slot.subject, tracked)
    BY <1>1, <1>5 DEF Rebound, w, c
  <2> DEFINE vs == Append(Beside(ws, slot.subject), w)
  <2>8. Beside(ws, slot.subject) \in Seq(Windows) /\ WindowsOwn(Beside(ws, slot.subject), V)
    BY <1>3, <2>1, <2>2, BesideIs, BesideIsOwn
  <2>9. vs \in Seq(Windows) /\ vs # << >> /\ WindowsOwn(vs, V)
    BY <2>5, <2>6, <2>8, AppendProperties, AppendedIsOwn
  <2> HIDE DEF vs
  <2>10. /\ Rebind(vs, slot.subject, tracked) \in Seq(Windows)
         /\ Len(Rebind(vs, slot.subject, tracked)) = Len(vs)
         /\ \A i \in DOMAIN vs : Rebind(vs, slot.subject, tracked)[i].content = vs[i].content
    BY <2>1, <2>9, Rebinding
  <2>11. WindowsOwn(q.windows, V)
    <3>1. DOMAIN Rebind(vs, slot.subject, tracked) = DOMAIN vs
      BY <2>9, <2>10, LenProperties
    <3>2. q.windows = Rebind(vs, slot.subject, tracked)
      BY <2>7 DEF vs
    <3>3. QED
      BY <2>9, <2>10, <3>1, <3>2 DEF WindowsOwn
  <2>12. QED
    BY <1>2, <2>11 DEF Own, q
<1>6. QED
  BY <1>4, <1>5

\* A refresh was for the stop of the popup, or noted with it.
LEMMA RefreshedIsOwn ==
  ASSUME NEW p, Sound(p), NEW W, Own(p, W), NEW s \in W, NEW rows \in {s, NoSubject},
         s \in Stops, NEW q, q = [p EXCEPT !.windows = RefreshedWindows(p.windows, rows)]
  PROVE  Own(q, W)
<1>1. p.windows \in Seq(Windows) /\ rows \in Subjects \cup {NoSubject}
  BY Kinds DEF Sound, IsPopups
<1> DEFINE ws == RefreshedWindows(p.windows, rows)
<1>2. /\ ws \in Seq(Windows) /\ Len(ws) = Len(p.windows)
      /\ \A i \in DOMAIN p.windows :
           \/ ws[i] = p.windows[i]
           \/ /\ p.windows[i].content.arrivals # NoSubject
              /\ ws[i] = [p.windows[i] EXCEPT !.content.arrivals = rows]
  BY <1>1, Refreshing
<1> HIDE DEF ws
<1>3. q.windows = ws /\ q.slots = p.slots /\ DOMAIN ws = DOMAIN p.windows
  BY <1>1, <1>2, LenProperties DEF Sound, IsPopups, ws
<1>4. ASSUME NEW i \in DOMAIN p.windows
      PROVE  Raced(ws[i].content) /\ Noted(ws[i].content, W)
  <2>1. /\ Raced(p.windows[i].content) /\ Noted(p.windows[i].content, W)
        /\ p.windows[i] \in Windows
    BY <1>1 DEF Own, WindowsOwn
  <2>2. CASE ws[i] = p.windows[i]
    BY <2>1, <2>2
  <2>3. CASE /\ p.windows[i].content.arrivals # NoSubject
             /\ ws[i] = [p.windows[i] EXCEPT !.content.arrivals = rows]
    <3>1. /\ ws[i].content.of = p.windows[i].content.of
          /\ ws[i].content.awaited = p.windows[i].content.awaited
          /\ ws[i].content.arrivals = rows
      BY <2>1, <2>3 DEF Windows, Contents
    <3>2. s \in p.windows[i].content.awaited \cup {p.windows[i].content.of}
      BY <2>1, <2>3 DEF Noted
    <3>3. QED
      BY <2>1, <2>3, <3>1, <3>2 DEF Raced, Noted
  <2>4. QED
    BY <1>2, <2>2, <2>3
<1>5. QED
  BY <1>3, <1>4 DEF Own, WindowsOwn, SlotsOwn

\* A schedule changes no arrivals.
LEMMA ScheduledIsOwn ==
  ASSUME NEW p, Sound(p), NEW W, Own(p, W), NEW r,
         NEW q, q = [p EXCEPT !.active = r, !.windows = Scheduled(p.windows, r)]
  PROVE  Own(q, W)
<1> DEFINE ws == Scheduled(p.windows, r)
<1>1. p.windows \in Seq(Windows)
  BY DEF Sound, IsPopups
<1>2. /\ DOMAIN ws = DOMAIN p.windows
      /\ \A i \in DOMAIN p.windows : ws[i] \in {p.windows[i], [p.windows[i] EXCEPT !.bound = <<r>>]}
  BY DEF Scheduled
<1> HIDE DEF ws
<1>3. q.windows = ws /\ q.slots = p.slots
  BY DEF Sound, IsPopups, ws
<1>4. \A i \in DOMAIN p.windows : ws[i].content = p.windows[i].content
  <2> TAKE i \in DOMAIN p.windows
  <2>1. p.windows[i] \in Windows
    BY <1>1
  <2>2. QED
    BY <1>2, <2>1 DEF Windows
<1>5. QED
  BY <1>2, <1>3, <1>4 DEF Own, WindowsOwn, SlotsOwn

\* What one callback of a button leaves.
LEMMA OneButtonIsOwn ==
  ASSUME NEW u, IsShown(u), NEW W, Own(u.popups, W), Writers(u.arrivals) \subseteq W,
         NEW s \in Subjects
  PROVE  /\ Own(Minimize(u, s).popups, W) /\ Writers(Minimize(u, s).arrivals) \subseteq W
         /\ Own(Dismiss(u, s).popups, W) /\ Writers(Dismiss(u, s).arrivals) \subseteq W
<1> DEFINE p == u.popups
<1>1. Sound(p) /\ WindowsOwn(p.windows, W) /\ WindowsOwn(CloseMapPopup(p).windows, W)
  BY ClosedIsOwn DEF IsShown, Sound, Own
<1>2. Own(MinimizePopup(p, s), W)
  <2>1. /\ SlotsFrom(MinimizePopup(p, s), p, s)
        /\ MinimizePopup(p, s).windows = CloseMapPopup(p).windows
    BY <1>1, MinimizingAPopup DEF Sound
  <2>2. QED
    BY <1>1, <2>1, CachedAreOwn DEF Sound, Own
<1>3. Own(DismissPopup(p, TypeOf[s]), W)
  <2>1. /\ SlotsFrom(DismissPopup(p, TypeOf[s]), p, NoSubject)
        /\ Closes(DismissPopup(p, TypeOf[s]), p)
    BY <1>1, Dismissing, Kinds DEF Sound
  <2>2. QED
    BY <1>1, <2>1, CachedAreOwn DEF Sound, Own, Closes
<1>4. /\ Writers(Minimize(u, s).arrivals) \subseteq Writers(u.arrivals)
      /\ Writers(Dismiss(u, s).arrivals) \subseteq Writers(u.arrivals)
  BY DEF IsShown, IsArrivals, Writers, Minimize, Dismiss, Polling
<1>5. QED
  BY <1>2, <1>3, <1>4 DEF Minimize, Dismiss

\* What all callbacks of a button leave.
LEMMA ButtonsAreOwn ==
  ASSUME NEW u, IsShown(u), NEW W, Own(u.popups, W), Writers(u.arrivals) \subseteq W,
         NEW bound \in Seq(Subjects)
  PROVE  LET m == MinimizeEach(u, bound)  d == DismissEach(u, bound) IN
         /\ Own(m.popups, W) /\ Writers(m.arrivals) \subseteq W
         /\ Own(d.popups, W) /\ Writers(d.arrivals) \subseteq W
<1> DEFINE Good(v) == IsShown(v) /\ Own(v.popups, W) /\ Writers(v.arrivals) \subseteq W
<1>1. ASSUME NEW v, Good(v), NEW s \in Subjects
      PROVE  Good(Minimize(v, s)) /\ Good(Dismiss(v, s))
  BY <1>1, OneButton, OneButtonIsOwn
<1>2. Good(u)
  OBVIOUS
<1> HIDE DEF Good
<1>3. Good(MinimizeEach(u, bound))
  <2>1. PICK after :
          /\ after = [n \in 0..Len(bound) |->
                        IF n = 0 THEN u ELSE Minimize(after[n - 1], bound[n])]
          /\ MinimizeEach(u, bound) = after[Len(bound)]
    BY MinimizeEachIs
  <2>2. /\ Len(bound) \in Nat
        /\ after[0] = u
        /\ \A n \in 1..Len(bound) : /\ n - 1 \in 0..Len(bound)
                                    /\ after[n] = Minimize(after[n - 1], bound[n])
                                    /\ bound[n] \in Subjects
    BY <2>1
  <2> DEFINE G == {n \in 0..Len(bound) : Good(after[n])}
  <2>3. 0 \in G
    BY <1>2, <2>2
  <2>4. \A n \in 1..Len(bound) : n - 1 \in G => n \in G
    BY <1>1, <2>2
  <2> HIDE DEF G
  <2>5. 0..Len(bound) \subseteq G
    BY <2>2, <2>3, <2>4, Upwards
  <2>6. QED
    BY <2>1, <2>2, <2>5 DEF G
<1>4. Good(DismissEach(u, bound))
  <2>1. PICK after :
          /\ after = [n \in 0..Len(bound) |->
                        IF n = 0 THEN u ELSE Dismiss(after[n - 1], bound[n])]
          /\ DismissEach(u, bound) = after[Len(bound)]
    BY DismissEachIs
  <2>2. /\ Len(bound) \in Nat
        /\ after[0] = u
        /\ \A n \in 1..Len(bound) : /\ n - 1 \in 0..Len(bound)
                                    /\ after[n] = Dismiss(after[n - 1], bound[n])
                                    /\ bound[n] \in Subjects
    BY <2>1
  <2> DEFINE G == {n \in 0..Len(bound) : Good(after[n])}
  <2>3. 0 \in G
    BY <1>2, <2>2
  <2>4. \A n \in 1..Len(bound) : n - 1 \in G => n \in G
    BY <1>1, <2>2
  <2> HIDE DEF G
  <2>5. 0..Len(bound) \subseteq G
    BY <2>2, <2>3, <2>4, Upwards
  <2>6. QED
    BY <2>1, <2>2, <2>5 DEF G
<1>5. QED
  BY <1>3, <1>4 DEF Good

\* The invariant of ArrivalsNeedARace, for the present page.
PageOwn == Own(popups, Writers(arrivals))

\* A stop popup that comes up.
LEMMA ShownIsOwn ==
  ASSUME IInv, PageOwn, NEW s \in Stops, NEW rows \in {s, NoSubject}, ShowStop(s, rows)
  PROVE  PageOwn'
<1>1. s \in Subjects /\ TypeOf[s] = "stop" /\ arrivals.refreshes \in SUBSET Subjects
  BY Kinds DEF IInv, IsArrivals
<1>2. popups' = Open(popups, s, rows, arrivals.refreshes)
  BY DEF ShowStop
<1>3. Writers(arrivals') = (arrivals.refreshes \cup {s}) \ {NoSubject}
  BY DEF ShowStop, Writers, IInv, IsArrivals
<1>4. /\ Writers(arrivals') \subseteq Writers(arrivals) \cup {s}
      /\ Writers(arrivals') \subseteq arrivals.refreshes \cup {s}
  BY <1>3 DEF Writers
<1>5. Own(Open(popups, s, rows, arrivals.refreshes), Writers(arrivals'))
  BY <1>1, <1>4, OpeningIsOwn DEF IInv, PageOwn
<1>6. QED
  BY <1>2, <1>5 DEF PageOwn

\* Every step keeps the arrivals with their popups.
LEMMA OwnKeeps ==
  ASSUME IInv, PageOwn, [Next]_vars
  PROVE  PageOwn'
<1> USE DEF IInv
<1> DEFINE W == Writers(arrivals)
<1>1. Own(popups, W) /\ IsPopups(popups)
  BY DEF PageOwn, Sound
<1>2. ASSUME NEW p, Own(p, W), popups' = p, Writers(arrivals') \subseteq W
      PROVE  PageOwn'
  BY <1>2, FewerIsOwn DEF PageOwn
<1>3. CASE UNCHANGED <<popups, arrivals>>
  BY <1>3 DEF PageOwn
<1>4. Sound(CloseMapPopup(popups)) /\ Own(CloseMapPopup(popups), W)
      /\ Sound(CloseMapPopup(CloseMapPopup(popups)))
      /\ Own(CloseMapPopup(CloseMapPopup(popups)), W)
  <2>1. \A p : Sound(p) /\ Own(p, W) => Sound(CloseMapPopup(p)) /\ Own(CloseMapPopup(p), W)
    BY SoundOperations, ClosedIsOwn, Closing DEF Own, SlotsOwn, Sound
  <2>2. QED
    BY <1>1, <2>1
<1>5. ASSUME NEW s \in Stops, ClickStop(s) PROVE PageOwn'
  <2>1. ASSUME NEW rows \in {s, NoSubject}, ShowStop(s, rows) PROVE PageOwn'
    BY <2>1, ShownIsOwn
  <2>2. CASE UNCHANGED popups /\ arrivals' = [arrivals EXCEPT !.clicks = @ \cup {s}]
    BY <1>1, <1>2, <2>2 DEF Writers, IsArrivals
  <2>3. QED
    BY <1>3, <1>5, <2>1, <2>2 DEF ClickStop
<1>6. ASSUME NEW s \in Stops, AnswerClick(s) PROVE PageOwn'
  BY <1>6, PredictionsAre, ShownIsOwn DEF AnswerClick
<1>7. ASSUME NEW s \in Stops, AnswerRefresh(s) PROVE PageOwn'
  <2>1. s \in W /\ Writers(arrivals') \subseteq W
    BY <1>7, Kinds DEF AnswerRefresh, Writers, IsArrivals
  <2>2. PICK rows \in Predictions(s) :
          popups' = [popups EXCEPT !.windows = RefreshedWindows(popups.windows, rows)]
    BY <1>7 DEF AnswerRefresh
  <2> DEFINE q == [popups EXCEPT !.windows = RefreshedWindows(popups.windows, rows)]
  <2>3. rows \in {s, NoSubject}
    BY PredictionsAre
  <2>4. Own(q, W)
    BY <1>1, <2>1, <2>3, RefreshedIsOwn
  <2> HIDE DEF W, q
  <2>5. popups' = q
    BY <2>2 DEF q
  <2>6. QED
    BY <1>2, <2>1, <2>4, <2>5
<1>8. ASSUME NEW s \in Of("bus"), ClickBus(s) PROVE PageOwn'
  <2>1. s \in Subjects /\ {} \in SUBSET Subjects
    BY Kinds
  <2>2. Own(Open(popups, s, NoSubject, {}), W)
    BY <1>1, <2>1, OpeningIsOwn
  <2>3. QED
    BY <1>8, <1>2, <2>2 DEF ClickBus
<1>9. CASE Tick \/ PollArrivals
  <2>1. UNCHANGED popups /\ Writers(arrivals') \subseteq W
    BY <1>9 DEF Tick, PollArrivals, Polling, Writers, IsArrivals
  <2>2. QED
    BY <1>1, <1>2, <2>1
<1>10. CASE LoseBus
  BY <1>2, <1>4, <1>10 DEF LoseBus
<1>11. ASSUME NEW i \in DOMAIN popups.windows, ClickMinimize(i) \/ ClickClose(i) PROVE PageOwn'
  <2> DEFINE u == Shown
             m == MinimizeEach(u, Buttons(i))
             d == DismissEach(u, Buttons(i))
  <2>1. IsShown(u) /\ Own(u.popups, W) /\ Writers(u.arrivals) \subseteq W
    BY <1>1 DEF IsShown, Shown
  <2>2. Buttons(i) \in Seq(Subjects)
    <3>1. popups.windows[i] \in Windows
      BY <1>1 DEF IsPopups
    <3>2. QED
      BY <3>1 DEF Windows, Buttons
  <2> HIDE DEF u
  <2>3. /\ Own(m.popups, W) /\ Writers(m.arrivals) \subseteq W
        /\ Own(d.popups, W) /\ Writers(d.arrivals) \subseteq W
    BY <2>1, <2>2, ButtonsAreOwn
  <2>4. \/ popups' = m.popups /\ arrivals' = m.arrivals
        \/ popups' = d.popups /\ arrivals' = d.arrivals
    BY <1>11 DEF ClickMinimize, ClickClose, u
  <2> HIDE DEF m, d, W
  <2>5. QED
    BY <1>2, <2>3, <2>4
<1>12. ASSUME NEW t \in Types, ClickTab(t) PROVE PageOwn'
  <2> DEFINE V == Writers(arrivals')
             cached == t \in DOMAIN popups.slots
             own == IF t = "stop" THEN {popups.slots[t].subject} ELSE {}
  <2>1. PICK tracked \in BOOLEAN : popups' = RestorePopup(popups, t, Writing(t), tracked)
    BY <1>12 DEF ClickTab, Writing
  <2>2. arrivals' = IF t = "stop" /\ cached THEN Polling(arrivals, popups.slots[t].subject)
                    ELSE arrivals
    BY <1>12 DEF ClickTab
  <2>3. Writing(t) \in SUBSET Subjects
    BY Kinds DEF Writing, IsArrivals
  <2>4. ~cached => V \subseteq W
    BY <2>2
  <2>5. cached => V \subseteq W \cup own /\ V \subseteq Writing(t) \cup own
    BY <2>2 DEF Writing, Writers, Polling, IsArrivals
  <2> HIDE DEF V, W
  <2>6. Own(RestorePopup(popups, t, Writing(t), tracked), V)
    BY <1>1, <2>3, <2>4, <2>5, RestoringIsOwn
  <2>7. QED
    BY <2>1, <2>6 DEF PageOwn, V
<1>13. ASSUME NEW f, ApplyRouteFilter(f), UNCHANGED arrivals PROVE PageOwn'
  BY <1>2, <1>4, <1>13 DEF ApplyRouteFilter, StopTracking
<1>14. ASSUME NEW f \in filters, AnswerFilter(f) PROVE PageOwn'
  <2> DEFINE p == StopTracking(popups)
  <2>1. Sound(p) /\ Own(p, W)
    BY <1>4 DEF StopTracking
  <2>2. f.route \in Subjects /\ {f.route} \in SUBSET Subjects
    BY Kinds DEF Others
  <2> HIDE DEF p
  <2>3. Own(Open(p, f.route, NoSubject, {f.route}), W)
    BY <2>1, <2>2, OpeningIsOwn
  <2>4. popups' \in {p, Open(p, f.route, NoSubject, {f.route})} /\ UNCHANGED arrivals
    BY <1>14 DEF AnswerFilter, p
  <2>5. QED
    BY <1>2, <2>1, <2>3, <2>4
<1>15. ASSUME NEW r \in Routes, AnswerSchedule(r) PROVE PageOwn'
  <2> DEFINE q == [popups EXCEPT !.active = r, !.windows = Scheduled(popups.windows, r)]
  <2>1. Own(q, W)
    BY <1>1, ScheduledIsOwn
  <2>2. popups' \in {popups, q} /\ UNCHANGED arrivals
    BY <1>15 DEF AnswerSchedule, Scheduled
  <2> HIDE DEF q
  <2>3. QED
    BY <1>1, <1>2, <2>1, <2>2
<1>16. ASSUME RestoreDefaultState(popups, arrivals) PROVE PageOwn'
  <2> DEFINE p == DismissAll(CloseMapPopup(popups))
  <2>1. popups' = p /\ arrivals' = Polling(arrivals, NoSubject)
    BY <1>16 DEF RestoreDefaultState, StopTracking
  <2>2. DOMAIN p.slots = {} /\ p.windows = CloseMapPopup(CloseMapPopup(popups)).windows
    BY <1>4, DismissingAll DEF Sound
  <2>3. Own(p, W)
    BY <1>4, <2>2 DEF Own, SlotsOwn
  <2>4. Writers(arrivals') \subseteq W
    BY <2>1 DEF Writers, Polling, IsArrivals
  <2> HIDE DEF p, W
  <2>5. QED
    BY <1>2, <2>1, <2>3, <2>4
<1>17. ASSUME NEW i \in DOMAIN popups.windows, NEW chosen \in SUBSET Routes,
              TapDirections(i, chosen)
       PROVE  PageOwn'
  <2>1. CASE popups' = CloseMapPopup(StopTracking(popups)) /\ UNCHANGED arrivals
    BY <1>2, <1>4, <2>1 DEF StopTracking
  <2>2. QED
    BY <1>3, <1>17, <2>1 DEF TapDirections, StartDirections, ReturnAtOnce
<1>18. CASE AnswerDirections \/ Reroute \/ Defer \/ DeferredReroute \/ ReachabilityChanges
            \/ \E rs \in rendering : ShowBuses(rs)
  BY <1>3, <1>18 DEF AnswerDirections, Reroute, Defer, DeferredReroute, ReachabilityChanges,
                     ShowBuses
<1>19. CASE UNCHANGED vars
  BY <1>3, <1>19 DEF vars
<1>20. ASSUME NEW r \in Routes, SelectRoute(r) \/ SearchSelectRoute(r) PROVE PageOwn'
  BY <1>13, <1>20 DEF SelectRoute, SearchSelectRoute
<1>21. CASE Deselect
  BY <1>16, <1>21 DEF Deselect
<1>22. CASE ExitDirections
  BY <1>13, <1>16, <1>22 DEF ExitDirections
<1>23. QED
  BY <1>5, <1>6, <1>7, <1>8, <1>9, <1>10, <1>11, <1>12, <1>14, <1>15, <1>17, <1>18, <1>19,
     <1>20, <1>21, <1>22 DEF Next

-----------------------------------------------------------------------------

\* The page opens without popups.
LEMMA InitOwn == Init => PageOwn
BY DEF Init, NoPopups, PageOwn, Own, SlotsOwn, WindowsOwn

\* The invariant gives the property.
LEMMA OwnAreListed == PageOwn => ArrivalsNeedARace
BY DEF PageOwn, Own, WindowsOwn, Raced, ArrivalsNeedARace

\* For any stops, routes and buses and any number of taps, also with several popups on
\* the map: a popup lists the arrivals of its own stop, or those of a stop that raced
\* with it.
THEOREM ArrivalsAreOfTheStop == Spec => []ArrivalsNeedARace
<1>1. IInv /\ PageOwn /\ [Next]_vars => PageOwn'
  BY OwnKeeps
<1>2. QED
  BY <1>1, InitOwn, Invariance, OwnAreListed, PTL DEF Spec
=============================================================================
