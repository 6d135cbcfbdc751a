--------------------------- MODULE Dashboard_proof ---------------------------
(***************************************************************************)
(* Proofs about the board's change detection.  A move can pass unnoticed   *)
(* only if the base of comparison is not what is on screen; the invariant  *)
(* Kept says that it is, whenever the screen shows the selected event.     *)
(***************************************************************************)
EXTENDS Dashboard, TLAPS

Kept == overview # Nothing /\ overview.event = selected => previous = Fingerprint(overview)

\* Nothing is shown and nothing was asked for before an event is selected.
Unselected ==
    selected = NoEvent => overview = Nothing /\ \A s \in Slot : request[s] = Unused

IInv == TypeOK /\ Kept /\ Unselected

-----------------------------------------------------------------------------
\* A fingerprint kept is one of an event.
LEMMA FingerprintTyped ==
    ASSUME NEW view \in View
    PROVE  Fingerprint(view) \in Prints /\ Fingerprint(view) # NoFingerprint
BY NoEventAssumption DEF View, Fingerprint, Prints, NoFingerprint

\* A request that runs is never a free slot.
LEMMA Apart == /\ \A r \in Request : r # Unused /\ r.event \in Event /\ r.version \in 0..MaxVersion
               /\ \A v \in View : v # Nothing /\ v.event \in Event
               /\ \A l \in Listing : l # NoListing /\ l.events \subseteq Event
BY NoEventAssumption DEF Request, Unused, View, Nothing, Listing, NoListing

\* A request in a phase of its own is no free slot.
LEMMA Running ==
    ASSUME TypeOK, NEW s \in Slot, request[s].phase # "idle"
    PROVE  request[s] \in Request
BY DEF TypeOK, Unused

\* Restarting the polling effect keeps the types, and starts requests only
\* for a selected event.
LEMMA RestartKeeps ==
    ASSUME TypeOK, Unselected, NEW e \in Event \cup {NoEvent}, Restart(e),
           e = NoEvent => selected = NoEvent
    PROVE  /\ request' \in [Slot -> Request \cup {Unused}]
           /\ e = NoEvent => \A s \in Slot : request'[s] = Unused
<1>1. Inactive \in [Slot -> Request \cup {Unused}]
  <2>1. ASSUME NEW s \in Slot, request[s] # Unused
        PROVE  [request[s] EXCEPT !.active = FALSE] \in Request
    BY <2>1 DEF TypeOK, Request
  <2> QED
    BY <2>1 DEF Inactive
<1>2. CASE e = NoEvent
  <2>1. request' = Inactive /\ \A s \in Slot : request[s] = Unused
    BY <1>2 DEF Restart, Unselected
  <2>2. \A s \in Slot : Inactive[s] = Unused
    BY <2>1 DEF Inactive
  <2> QED
    BY <1>1, <2>1, <2>2
<1>3. CASE e # NoEvent
  <2>1. PICK s \in Slot : StartIn(s, e)
    BY <1>3 DEF Restart
  <2>2. [event |-> e, active |-> TRUE, phase |-> "asked", version |-> 0] \in Request
    BY <1>3, BoundAssumption DEF Request
  <2> QED
    BY <1>1, <1>3, <2>1, <2>2 DEF StartIn
<1> QED
  BY <1>2, <1>3

LEMMA InitIInv == Init => IInv
<1> SUFFICES ASSUME Init PROVE IInv
  OBVIOUS
<1>1. version \in [Event -> 0..MaxVersion] /\ outages \in 0..MaxOutages
  BY BoundAssumption DEF Init
<1>2. listing \in Listing
  BY DEF Init, Listing
<1>3. request \in [Slot -> Request \cup {Unused}]
  BY DEF Init
<1>4. existing \subseteq Event /\ events \subseteq Event
  BY DEF Init
<1>5. TypeOK
  <2>1. latest \in 0..MaxVersion
    BY BoundAssumption DEF Init
  <2> QED
    BY <1>1, <1>2, <1>3, <1>4, <2>1 DEF Init, TypeOK
<1> QED
  BY <1>5 DEF Init, IInv, Kept, Unselected

-----------------------------------------------------------------------------
LEMMA NextIInv == IInv /\ [Next]_vars => IInv'
<1> SUFFICES ASSUME IInv, [Next]_vars PROVE IInv'
  OBVIOUS
<1>a. TypeOK /\ Kept /\ Unselected
  BY DEF IInv
<1>1. ASSUME NEW e \in Event, CreateEvent(e) \/ ChangeData(e) PROVE IInv'
  <2>1. UNCHANGED <<apiUp, outages, listVars, selected, viewVars, error, request>>
    BY <1>1 DEF CreateEvent, ChangeData
  <2>2. existing' \subseteq Event /\ version' \in [Event -> 0..MaxVersion]
    <3>1. CASE CreateEvent(e)
      BY <3>1, <1>a DEF CreateEvent, TypeOK
    <3>2. CASE ChangeData(e)
      <4>1. version[e] + 1 \in 0..MaxVersion
        BY <3>2, <1>a, BoundAssumption DEF ChangeData, TypeOK
      <4> QED
        BY <3>2, <4>1, <1>a DEF ChangeData, TypeOK
    <3> QED
      BY <1>1, <3>1, <3>2
  <2> QED
    BY <2>1, <2>2, <1>a DEF IInv, TypeOK, Kept, Fingerprint, Unselected, listVars, viewVars
<1>2. ASSUME GoDown \/ ComeUp PROVE IInv'
  <2>1. UNCHANGED <<existing, version, listVars, selected, viewVars, error, request>>
    BY <1>2 DEF GoDown, ComeUp
  <2>2. apiUp' \in BOOLEAN /\ outages' \in 0..MaxOutages
    <3>1. outages \in 0..MaxOutages
      BY <1>a DEF TypeOK
    <3>2. outages' \in 0..MaxOutages
      BY <1>2, <3>1, BoundAssumption DEF GoDown, ComeUp
    <3> QED
      BY <1>2, <3>2 DEF GoDown, ComeUp
  <2> QED
    BY <2>1, <2>2, <1>a DEF IInv, TypeOK, Kept, Fingerprint, Unselected, listVars, viewVars
<1>3. ASSUME NEW s \in Slot, AnswerOverview(s) PROVE IInv'
  <2>1. request[s] \in Request /\ request[s] # Unused
    BY <1>3, <1>a, Running, Apart DEF AnswerOverview
  <2>2. request' \in [Slot -> Request \cup {Unused}]
    <3> DEFINE v == IF apiUp THEN version[request[s].event] ELSE 0
               p == IF apiUp THEN "answered" ELSE "failed"
    <3>1. v \in 0..MaxVersion
      BY <2>1, <1>a, Apart, BoundAssumption DEF TypeOK
    <3>2. [request[s] EXCEPT !.phase = p, !.version = v] \in Request
      BY <2>1, <3>1 DEF Request
    <3> QED
      BY <1>3, <1>a, <3>2 DEF AnswerOverview, TypeOK
  <2>3. selected # NoEvent
    BY <1>a, <2>1 DEF Unselected
  <2>4. UNCHANGED <<apiVars, listVars, selected, viewVars, error>>
    BY <1>3 DEF AnswerOverview
  <2> QED
    BY <2>2, <2>3, <2>4, <1>a DEF IInv, TypeOK, Kept, Fingerprint, Unselected, apiVars, listVars, viewVars
<1>4. ASSUME AnswerList \/ PollEvents \/ Retry \/ EventsFail PROVE IInv'
  <2>1. UNCHANGED <<apiVars, events, selected, viewVars, request>>
    BY <1>4 DEF AnswerList, PollEvents, Retry, EventsFail
  <2>2. error' \in BOOLEAN /\ eventsLoaded' \in BOOLEAN
    BY <1>4, <1>a DEF AnswerList, PollEvents, Retry, EventsFail, TypeOK
  <2>3. listing' \in Listing \cup {NoListing}
    <3>1. CASE AnswerList
      <4> DEFINE p == IF apiUp THEN "answered" ELSE "failed"
                 l == IF apiUp THEN existing ELSE {}
      <4>1. listing \in Listing
        BY <3>1, <1>a DEF AnswerList, TypeOK, NoListing
      <4>2. l \in SUBSET Event /\ p \in {"answered", "failed"}
        BY <1>a DEF TypeOK
      <4>3. [listing EXCEPT !.phase = p, !.events = l] \in Listing
        BY <4>1, <4>2 DEF Listing
      <4> QED
        BY <3>1, <4>3 DEF AnswerList
    <3>2. CASE PollEvents \/ Retry \/ EventsFail
      BY <3>2 DEF PollEvents, Retry, EventsFail, Listing
    <3> QED
      BY <1>4, <3>1, <3>2
  <2> QED
    BY <2>1, <2>2, <2>3, <1>a DEF IInv, TypeOK, Kept, Fingerprint, Unselected, apiVars, viewVars
<1>5. ASSUME EventsArrive PROVE IInv'
  <2>1. /\ listing \in Listing /\ listing.events \subseteq Event
        /\ UNCHANGED <<apiVars, viewVars, error>> /\ listing' = NoListing
        /\ eventsLoaded' \in BOOLEAN /\ events' \subseteq Event
    BY <1>5, <1>a, Apart DEF EventsArrive, TypeOK, NoListing
  <2>2. \/ selected' = selected
        \/ selected = NoEvent /\ selected' \in Event
    BY <1>5, <2>1 DEF EventsArrive
  <2>3. selected' \in Event \cup {NoEvent}
    BY <2>2, <1>a DEF TypeOK
  <2>4. selected' = NoEvent => selected = NoEvent
    BY <2>2, NoEventAssumption
  <2>5. Restart(selected')
    BY <1>5 DEF EventsArrive
  <2>6. /\ request' \in [Slot -> Request \cup {Unused}]
        /\ selected' = NoEvent => \A s \in Slot : request'[s] = Unused
    BY <2>3, <2>4, <2>5, <1>a, RestartKeeps
  <2>7. TypeOK'
    BY <2>1, <2>3, <2>6, <1>a DEF TypeOK, apiVars, viewVars
  <2>8. Kept'
    BY <2>1, <2>2, <1>a DEF Kept, Fingerprint, Unselected, viewVars
  <2>9. Unselected'
    BY <2>1, <2>4, <2>6, <1>a DEF Unselected, viewVars
  <2> QED
    BY <2>7, <2>8, <2>9 DEF IInv
<1>6. ASSUME NEW e \in Event, Select(e) PROVE IInv'
  <2>1. /\ overview.event = selected /\ e # selected /\ selected' = e /\ previous' = NoFingerprint /\ latest' = 0
        /\ Restart(e) /\ UNCHANGED <<apiVars, listVars, overview, noticed, error>>
    BY <1>6 DEF Select, MaySelect
  <2>2. e # NoEvent
    BY NoEventAssumption
  <2>3. request' \in [Slot -> Request \cup {Unused}]
    BY <2>1, <2>2, <1>a, RestartKeeps
  <2>4. TypeOK'
    <3>1. latest' \in 0..MaxVersion
      BY <2>1, BoundAssumption
    <3> QED
      BY <2>1, <2>3, <3>1, <1>a DEF TypeOK, apiVars, listVars
  <2> QED
    BY <2>1, <2>2, <2>4 DEF IInv, Kept, Unselected
<1>7. ASSUME NEW s \in Slot, NEW banner \in BOOLEAN, Ask(s, banner) PROVE IInv'
  <2>1. /\ selected \in Event /\ selected # NoEvent
        /\ UNCHANGED <<apiVars, listVars, selected, viewVars, error>>
    BY <1>7, <1>a, NoEventAssumption DEF Ask, TypeOK
  <2>2. [event |-> selected, active |-> banner, phase |-> "asked", version |-> 0] \in Request
    BY <2>1, BoundAssumption DEF Request
  <2>3. request' \in [Slot -> Request \cup {Unused}]
    BY <1>7, <1>a, <2>2 DEF Ask, TypeOK
  <2> QED
    BY <2>1, <2>3, <1>a DEF IInv, TypeOK, Kept, Fingerprint, Unselected, apiVars, listVars, viewVars
<1>8. ASSUME NEW s \in Slot, OverviewArrives(s) \/ OverviewFails(s) PROVE IInv'
  <2>1. request[s] \in Request /\ request[s] # Unused /\ Shown(s) \in View
    BY <1>8, <1>a, Running, Apart DEF OverviewArrives, OverviewFails, Shown, View
  <2>2. selected # NoEvent
    BY <1>a, <2>1 DEF Unselected
  <2>3. /\ UNCHANGED <<apiVars, listVars, selected>>
        /\ request' \in [Slot -> Request \cup {Unused}]
    BY <1>8, <1>a DEF OverviewArrives, OverviewFails, TypeOK
  <2>4. error' \in BOOLEAN
    <3>1. request[s].active \in BOOLEAN /\ error \in BOOLEAN
      BY <2>1, <1>a DEF Request, TypeOK
    <3> QED
      BY <1>8, <3>1 DEF OverviewArrives, OverviewFails
  <2>5. CASE OverviewArrives(s)
    <3>1. /\ overview' = Shown(s) /\ previous' = Fingerprint(Shown(s))
          /\ noticed' \in BOOLEAN /\ latest' \in 0..MaxVersion
      <4>1. UpdateTime(Shown(s)) \in 0..MaxVersion /\ latest \in 0..MaxVersion
        BY <2>1, <1>a DEF UpdateTime, View, TypeOK
      <4> QED
        BY <2>5, <4>1 DEF OverviewArrives, Notice
    <3>2. TypeOK'
      BY <2>1, <2>3, <2>4, <3>1, <1>a, FingerprintTyped DEF TypeOK, apiVars, listVars
    <3>3. Kept'
      BY <3>1 DEF Kept, Fingerprint
    <3> QED
      BY <2>2, <2>3, <3>1, <3>2, <3>3 DEF IInv, Unselected
  <2>6. CASE OverviewFails(s)
    <3>1. UNCHANGED viewVars
      BY <2>6 DEF OverviewFails
    <3>2. TypeOK'
      BY <2>3, <2>4, <3>1, <1>a DEF TypeOK, apiVars, listVars, viewVars
    <3> QED
      BY <2>2, <2>3, <3>1, <3>2, <1>a DEF IInv, Kept, Fingerprint, Unselected, viewVars
  <2> QED
    BY <1>8, <2>5, <2>6
<1>9. CASE UNCHANGED vars
  BY <1>9, <1>a DEF IInv, TypeOK, Kept, Fingerprint, Unselected, vars, apiVars, listVars, viewVars
<1> QED
  BY <1>1, <1>2, <1>3, <1>4, <1>5, <1>6, <1>7, <1>8, <1>9 DEF Next, Tick, Registered

LEMMA Invariance == Spec => []IInv
<1>1. Init => IInv
  BY InitIInv
<1>2. IInv /\ [Next]_vars => IInv'
  BY NextIInv
<1> QED
  BY <1>1, <1>2, PTL DEF Spec

\* What one step may do to the change detection.
Noticing ==
    (/\ overview.event = selected /\ overview # Nothing
     /\ overview'.event = selected
     /\ Fingerprint(overview') # Fingerprint(overview))
    => noticed'

\* Only an arriving overview replaces what is shown, and it is compared with
\* the fingerprint of what was shown.
LEMMA StepNotices == IInv /\ [Next]_vars => [Noticing]_vars
<1> SUFFICES ASSUME IInv, [Next]_vars,
                    overview.event = selected, overview # Nothing,
                    Fingerprint(overview') # Fingerprint(overview)
             PROVE  noticed'
  BY DEF Noticing
<1>1. overview' # overview
  OBVIOUS
<1>2. previous = Fingerprint(overview) /\ overview \in View
  BY DEF IInv, Kept, TypeOK
<1>3. PICK s \in Slot : OverviewArrives(s)
  BY <1>1 DEF Next, vars, viewVars, CreateEvent, ChangeData, Select, GoDown, ComeUp, AnswerList,
              PollEvents, Retry, EventsArrive, EventsFail, Tick, Registered, Ask,
              AnswerOverview, OverviewFails
<1>4. overview' = Shown(s) /\ previous # NoFingerprint
  BY <1>2, <1>3, FingerprintTyped DEF OverviewArrives
<1>5. previous # Fingerprint(Shown(s))
  BY <1>2, <1>4
<1> QED
  BY <1>3, <1>4, <1>5 DEF OverviewArrives, Notice

\* UnifiedDisasterDashboard.tsx:568-606 and :847: for any number of events,
\* requests in flight and outages, an overview of the selected event in which
\* a marker moved always lights up the markers.
THEOREM NoMoveMissed == Spec => MoveNoticed
<1>1. IInv /\ [Next]_vars => [Noticing]_vars
  BY StepNotices
<1>2. Spec => [][Noticing]_vars
  BY <1>1, Invariance, PTL DEF Spec
<1> QED
  BY <1>2 DEF MoveNoticed, Noticing

\* The variables always have their types.
THEOREM TypeCorrect == Spec => []TypeOK
<1>1. IInv => TypeOK
  BY DEF IInv
<1> QED
  BY <1>1, Invariance, PTL
==============================================================================
