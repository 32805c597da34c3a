-------------------------------- MODULE MapPopup --------------------------------
(***************************************************************************)
(* map-popup: the popups over the map and their docked tabs, as a record   *)
(* and the operations on it.  All popups have the same element id, and the *)
(* code reaches "the" popup by this id: it gets the oldest one.            *)
(***************************************************************************)
EXTENDS Sequences, Integers

CONSTANTS
  Subjects,  \* what popups are about: stops, routes, buses
  TypeOf,    \* the popup type of each
  NoSubject

Types == {"route", "stop", "bus"}

ASSUME PopupAssumption == TypeOf \in [Subjects -> Types] /\ NoSubject \notin Subjects

\* active:  activeType with activeParams, by their subject
\* tabs:    what the docked tabs of each type are labelled with, the oldest first
\* slots:   slotCache: the cached HTML of a type and the subject of its callback
\* windows: the popups in the document, the oldest first
\* overwritten (history): how often a slot in use was taken by an automatic minimize
\* A popup is about a subject, may list the arrivals of a stop, and awaits answers
\* that will change it: its schedule, or (history) refreshes that were under way when
\* it came up, and those of stops whose popup came up beside it.
Content(s, arrivals, awaited) == [of |-> s, arrivals |-> arrivals, awaited |-> awaited]
Blank == Content(NoSubject, NoSubject, {})

\* A window has its content and the subjects its buttons act for.
Window(content, bound) == [content |-> content, bound |-> bound]

NoPopups == [active |-> NoSubject, tabs |-> [t \in Types |-> << >>],
             slots |-> [t \in {} |-> Blank], windows |-> << >>,
             overwritten |-> [t \in Types |-> 0]]

Contents == [of : Subjects \cup {NoSubject}, arrivals : Subjects \cup {NoSubject},
             awaited : SUBSET Subjects]
Slots    == [content : Contents, subject : Subjects]
Windows  == [content : Contents, bound : Seq(Subjects)]

IsPopups(p) ==
  /\ p \in [active : Subjects \cup {NoSubject}, tabs : [Types -> Seq(Subjects)],
            slots : {p.slots}, windows : Seq(Windows), overwritten : [Types -> Nat]]
  /\ DOMAIN p.slots \subseteq Types /\ p.slots \in [DOMAIN p.slots -> Slots]
  /\ \A t \in DOMAIN p.slots : TypeOf[p.slots[t].subject] = t

Nothing(p) == p.active = NoSubject

CloseMapPopup(p) == [p EXCEPT !.windows = IF @ = << >> THEN @ ELSE Tail(@)]

RemoveTab(p, t) == [p EXCEPT !.tabs[t] = IF @ = << >> THEN @ ELSE Tail(@)]
CreateTab(p, s) == [p EXCEPT !.tabs[TypeOf[s]] = Append(@, s)]

Forget(p, t) ==
  [RemoveTab(p, t) EXCEPT !.slots = [u \in DOMAIN @ \ {t} |-> @[u]]]

\* cachePopupState takes the HTML of the oldest popup, whatever it is about.
CachePopupState(p, s) ==
  LET content == IF p.windows = << >> THEN Blank ELSE Head(p.windows).content
  IN [p EXCEPT !.slots = [t \in DOMAIN @ \cup {TypeOf[s]} |->
        IF t = TypeOf[s] THEN [content |-> content, subject |-> s] ELSE @[t]]]

\* The tab of the type is not removed first: there may be a second one, for one slot.
MinimizeActive(p) ==
  [CreateTab(CloseMapPopup(CachePopupState(p, p.active)), p.active)
     EXCEPT !.active = NoSubject,
            !.overwritten[TypeOf[p.active]] =
              IF TypeOf[p.active] \in DOMAIN p.slots THEN @ + 1 ELSE @]

PrepareForNewPopup(p, t) ==
  IF Nothing(p) THEN Forget(p, t)
  ELSE IF TypeOf[p.active] = t
       THEN [Forget(CloseMapPopup(p), t) EXCEPT !.active = NoSubject]
       ELSE MinimizeActive(p)

\* A stop's refreshes write into the oldest popup, which may be one that the stop's
\* own popup came up beside.
Beside(windows, s) ==
  [i \in DOMAIN windows |->
     IF TypeOf[s] = "stop" THEN [windows[i] EXCEPT !.content.awaited = @ \cup {s}]
     ELSE windows[i]]

\* What the show functions share: make room, append a popup, register it.
Open(p, s, arrivals, awaited) ==
  [PrepareForNewPopup(p, TypeOf[s]) EXCEPT
     !.windows = Append(Beside(@, s), Window(Content(s, arrivals, awaited), <<s>>)),
     !.active = s]

\* Mutant: the tab is created before the old one of its type is removed.
MinimizePopupTabFirst(p, s) ==
  LET q == RemoveTab(CreateTab(CloseMapPopup(CachePopupState(p, s)), s), TypeOf[s])
  IN [q EXCEPT !.active = IF ~Nothing(q) /\ TypeOf[@] = TypeOf[s] THEN NoSubject ELSE @]

MinimizePopup(p, s) ==
  LET q == CreateTab(RemoveTab(CloseMapPopup(CachePopupState(p, s)), TypeOf[s]), s)
  IN [q EXCEPT !.active = IF ~Nothing(q) /\ TypeOf[@] = TypeOf[s] THEN NoSubject ELSE @]

\* Buttons are bound again by the callbacks of restorePopup, on the oldest popup.
\* The route popup replaces its buttons, the others add to what is bound; a bus that
\* is no longer tracked binds none.
Rebind(windows, s, tracked) ==
  [windows EXCEPT ![1].bound =
     IF ~tracked \/ Head(windows).content.of = NoSubject THEN @
     ELSE IF TypeOf[s] = "route" THEN <<s>> ELSE Append(@, s)]

RestorePopup(p, t, awaited, tracked) ==
  LET q == RemoveTab(IF ~Nothing(p) /\ TypeOf[p.active] # t THEN MinimizeActive(p) ELSE p, t)
      slot == q.slots[t]
      content == [slot.content EXCEPT   \* a copy gets no schedule
        !.awaited = awaited \cup {s \in @ \cup {slot.subject} : TypeOf[s] = "stop"}]
  IN IF t \notin DOMAIN q.slots THEN q
     ELSE [q EXCEPT
             !.windows = Rebind(Append(Beside(@, slot.subject), Window(content, << >>)),
                                slot.subject, tracked),
             !.slots = [u \in DOMAIN @ \ {t} |-> @[u]],
             !.active = slot.subject]

DismissPopup(p, t) ==
  Forget(IF ~Nothing(p) /\ TypeOf[p.active] = t
         THEN [CloseMapPopup(p) EXCEPT !.active = NoSubject] ELSE p, t)

DismissAll(p) == [NoPopups EXCEPT !.windows = CloseMapPopup(p).windows]
=============================================================================
