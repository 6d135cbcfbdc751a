------------------------------ MODULE Dashboard ------------------------------
(***************************************************************************)
(* The situation board of forest-front-demo: it polls the list of events   *)
(* every 10 s and the overview of the selected event every second.  No     *)
(* request has a timeout or is cancelled, so answers overtake each other,  *)
(* come after the operator switched to another event, or come from before  *)
(* an outage.  React runs one callback at a time; an action is a callback  *)
(* with the state it sets and the effects that follow from it.             *)
(*                                                                         *)
(* What an overview says is a version of the event's data, which is also   *)
(* the newest timestamp in it; the timestamps of different events compare. *)
(* The overview is put together from 14 requests, taken here as one.       *)
(***************************************************************************)
EXTENDS Naturals, FiniteSets

CONSTANTS
    Event,
    NoEvent,
    Slot,       \* bound: overview requests in flight
    MaxVersion, \* bound: changes to an event's data
    Moves,      \* the versions that moved or altered a marker
    MaxOutages  \* bound: times the API goes down

ASSUME NoEventAssumption == NoEvent \notin Event
ASSUME BoundAssumption == MaxVersion \in Nat /\ MaxOutages \in Nat
ASSUME MovesAssumption == Moves \subseteq 1..MaxVersion

VARIABLES
    existing, version, apiUp, outages, \* the API
    events, eventsLoaded, \* the list the board knows
    listing,    \* the list request in flight
    selected,   \* selectedId
    overview,   \* what is shown: an event and the version of its data
    previous,   \* previousLocationsRef
    latest,     \* previousOverviewUpdateTimeRef, 0 without previous
    noticed,    \* the last overview lit up the changed markers
    error,      \* the banner
    request     \* overview requests in flight

apiVars == <<existing, version, apiUp, outages>>
listVars == <<events, eventsLoaded, listing>>
viewVars == <<overview, previous, latest, noticed>>
vars == <<apiVars, listVars, selected, viewVars, error, request>>

View == [event : Event, version : 0..MaxVersion]
Nothing == [event |-> NoEvent, version |-> 0]
Prints == [event : Event, moves : SUBSET Moves]
NoFingerprint == [event |-> NoEvent, moves |-> {}]
Unused == [event |-> NoEvent, active |-> FALSE, phase |-> "idle", version |-> 0]
Request == [event : Event, active : BOOLEAN,
            phase : {"asked", "answered", "failed"}, version : 0..MaxVersion]
NoListing == [why |-> "none", phase |-> "idle", events |-> {}]
Listing == [why : {"first", "poll", "retry"}, phase : {"asked", "answered", "failed"},
            events : SUBSET Event]

Init ==
    /\ existing \in SUBSET Event
    /\ version = [e \in Event |-> 0]
    /\ apiUp = TRUE /\ outages = 0
    /\ events = {} /\ eventsLoaded = FALSE
    /\ listing = [why |-> "first", phase |-> "asked", events |-> {}]
    /\ selected = NoEvent
    /\ overview = Nothing /\ previous = NoFingerprint /\ latest = 0 /\ noticed = FALSE
    /\ error = FALSE
    /\ request = [s \in Slot |-> Unused]

(***************************************************************************)
(* The API.                                                                *)
(***************************************************************************)
CreateEvent(e) ==
    /\ existing # {}
    /\ existing' = existing \cup {e}
    /\ UNCHANGED <<version, apiUp, outages, listVars, selected, viewVars, error, request>>

ChangeData(e) ==
    /\ version[e] < MaxVersion
    /\ version' = [version EXCEPT ![e] = @ + 1]
    /\ UNCHANGED <<existing, apiUp, outages, listVars, selected, viewVars, error, request>>

GoDown ==
    /\ apiUp /\ outages < MaxOutages
    /\ apiUp' = FALSE
    /\ outages' = outages + 1
    /\ UNCHANGED <<existing, version, listVars, selected, viewVars, error, request>>

ComeUp ==
    /\ ~apiUp
    /\ apiUp' = TRUE
    /\ UNCHANGED <<existing, version, outages, listVars, selected, viewVars, error, request>>

AnswerOverview(s) ==
    /\ request[s].phase = "asked"
    /\ request' = [request EXCEPT
         ![s].phase = IF apiUp THEN "answered" ELSE "failed",
         ![s].version = IF apiUp THEN version[request[s].event] ELSE 0]
    /\ UNCHANGED <<apiVars, listVars, selected, viewVars, error>>

AnswerList ==
    /\ listing.phase = "asked"
    /\ listing' = [listing EXCEPT
         !.phase = IF apiUp THEN "answered" ELSE "failed",
         !.events = IF apiUp THEN existing ELSE {}]
    /\ UNCHANGED <<apiVars, events, eventsLoaded, selected, viewVars, error, request>>

(***************************************************************************)
(* The list of events.                                                     *)
(***************************************************************************)
Inactive ==
    [s \in Slot |-> IF request[s] = Unused THEN Unused
                    ELSE [request[s] EXCEPT !.active = FALSE]]

StartIn(s, e) ==
    /\ request[s] = Unused
    /\ request' = [Inactive EXCEPT ![s] =
         [event |-> e, active |-> TRUE, phase |-> "asked", version |-> 0]]

\* The polling effect runs again: requests under way no longer touch the
\* banner, and a new one starts at once.
Restart(e) ==
    \/ e = NoEvent /\ request' = Inactive
    \/ e # NoEvent /\ \E s \in Slot : StartIn(s, e)

PollEvents ==
    /\ listing = NoListing
    /\ listing' = [why |-> "poll", phase |-> "asked", events |-> {}]
    /\ UNCHANGED <<apiVars, events, eventsLoaded, selected, viewVars, error, request>>

\* The retry button of the screen that has no overview to show.
Retry ==
    /\ listing = NoListing
    /\ error /\ overview = Nothing
    /\ error' = FALSE
    /\ listing' = [why |-> "retry", phase |-> "asked", events |-> {}]
    /\ UNCHANGED <<apiVars, events, eventsLoaded, selected, viewVars, request>>

\* The first event of the sorted list is chosen when none is selected.
EventsArrive ==
    /\ listing.phase = "answered"
    /\ events' = listing.events
    /\ IF selected # NoEvent \/ listing.events = {}
         THEN UNCHANGED selected
         ELSE selected' \in listing.events
    /\ Restart(selected')
    /\ listing' = NoListing
    /\ eventsLoaded' = (eventsLoaded \/ listing.why # "poll")
    /\ UNCHANGED <<apiVars, viewVars, error>>

\* A poll that fails is ignored; the first load and a retry show it.
EventsFail ==
    /\ listing.phase = "failed"
    /\ error' = (error \/ listing.why # "poll")
    /\ listing' = NoListing
    /\ eventsLoaded' = (eventsLoaded \/ listing.why # "poll")
    /\ UNCHANGED <<apiVars, events, selected, viewVars, request>>

(***************************************************************************)
(* The overview.                                                           *)
(***************************************************************************)
MaySelectAlways == TRUE                          \* mutant
\* The selector is disabled while the board still shows another event.
MaySelect == overview.event = selected

Select(e) ==
    /\ overview # Nothing
    /\ MaySelect
    /\ e \in events \ {selected}
    /\ selected' = e
    /\ previous' = NoFingerprint /\ latest' = 0
    /\ Restart(e)
    /\ UNCHANGED <<apiVars, listVars, overview, noticed, error>>

Ask(s, banner) ==
    /\ selected \in events
    /\ request[s] = Unused
    /\ request' = [request EXCEPT ![s] =
         [event |-> selected, active |-> banner, phase |-> "asked", version |-> 0]]
    /\ UNCHANGED <<apiVars, listVars, selected, viewVars, error>>

\* The one-second timer of the polling effect.
Tick == \E s \in Slot : Ask(s, TRUE)

\* The registration dialog; its refresh never touches the banner.
Registered == \E s \in Slot : Ask(s, FALSE)

\* refreshOverview after its await: whatever event was asked for is shown.
Shown(s) == [event |-> request[s].event, version |-> request[s].version]

\* The markers of an overview, by key, with what of them counts as a change.
Fingerprint(view) ==
    [event |-> view.event, moves |-> {m \in Moves : m <= view.version}]

\* overviewLatestUpdateTime: the newest timestamp anywhere in the overview.
UpdateTime(view) == view.version

\* Markers light up when the overview is newer than all before it, or when
\* their fingerprint differs from the one kept.
Notice(s) ==
    /\ noticed' = /\ previous # NoFingerprint
                  /\ \/ UpdateTime(Shown(s)) > latest
                     \/ previous # Fingerprint(Shown(s))
    /\ previous' = Fingerprint(Shown(s))
    /\ latest' = IF UpdateTime(Shown(s)) > latest THEN UpdateTime(Shown(s)) ELSE latest

OverviewArrivesOnce(s) ==                        \* mutant: first one stays
    /\ request[s].phase = "answered"
    /\ request' = [request EXCEPT ![s] = Unused]
    /\ Notice(s)
    /\ overview' = IF overview.event = request[s].event THEN overview ELSE Shown(s)
    /\ error' = (error /\ ~request[s].active)
    /\ UNCHANGED <<apiVars, listVars, selected>>

OverviewArrivesWithError(s) ==                   \* mutant: banner not cleared
    /\ request[s].phase = "answered"
    /\ request' = [request EXCEPT ![s] = Unused]
    /\ Notice(s)
    /\ overview' = Shown(s)
    /\ UNCHANGED <<apiVars, listVars, selected, error>>

OverviewArrives(s) ==
    /\ request[s].phase = "answered"
    /\ request' = [request EXCEPT ![s] = Unused]
    /\ Notice(s)
    /\ overview' = Shown(s)
    /\ error' = (error /\ ~request[s].active)
    /\ UNCHANGED <<apiVars, listVars, selected>>

OverviewFails(s) ==
    /\ request[s].phase = "failed"
    /\ request' = [request EXCEPT ![s] = Unused]
    /\ error' = (error \/ request[s].active)
    /\ UNCHANGED <<apiVars, listVars, selected, viewVars>>

Next ==
    \/ \E e \in Event : CreateEvent(e) \/ ChangeData(e) \/ Select(e)
    \/ GoDown \/ ComeUp
    \/ AnswerList \/ PollEvents \/ Retry \/ EventsArrive \/ EventsFail
    \/ Tick \/ Registered
    \/ \E s \in Slot : AnswerOverview(s) \/ OverviewArrives(s) \/ OverviewFails(s)

Spec == Init /\ [][Next]_vars

\* The timers fire, every request is answered and every answer arrives, and
\* the API comes up again.  The strong fairness says two things more.  A
\* timer does not wait for a free slot: the slots are a bound of the model.
\* And the list is asked for ten times less often than the overview, so now
\* and then an overview is answered, and arrives, before the next list makes
\* the effect run again.
Fairness ==
    /\ SF_vars(Tick) /\ WF_vars(PollEvents) /\ WF_vars(ComeUp)
    /\ WF_vars(AnswerList) /\ SF_vars(EventsArrive \/ EventsFail)
    /\ \A s \in Slot :
         /\ WF_vars(AnswerOverview(s))
         /\ WF_vars(OverviewArrives(s) \/ OverviewFails(s))
    /\ SF_vars(\E s \in Slot : request[s].active /\ AnswerOverview(s))
    /\ SF_vars(\E s \in Slot : request[s].active /\ OverviewArrives(s))

FairSpec == Spec /\ Fairness

-----------------------------------------------------------------------------
(***************************************************************************)
(* Properties.                                                             *)
(***************************************************************************)
\* The variables always have their types (the state and refs of
\* UnifiedDisasterDashboard.tsx:520-549).
TypeOK ==
    /\ existing \subseteq Event /\ version \in [Event -> 0..MaxVersion]
    /\ apiUp \in BOOLEAN /\ outages \in 0..MaxOutages
    /\ events \subseteq Event /\ eventsLoaded \in BOOLEAN
    /\ listing \in Listing \cup {NoListing}
    /\ selected \in Event \cup {NoEvent}
    /\ overview \in View \cup {Nothing} /\ previous \in Prints \cup {NoFingerprint}
    /\ latest \in 0..MaxVersion
    /\ noticed \in BOOLEAN /\ error \in BOOLEAN
    /\ request \in [Slot -> Request \cup {Unused}]

\* forest-front-demo/README.md:27, for the fingerprint: when an overview of the
\* selected event is followed by one of the same event in which a marker moved,
\* the markers light up, whatever late answers or switches came before.
MoveNoticed ==
    [][ (/\ overview.event = selected /\ overview # Nothing
         /\ overview'.event = selected
         /\ Fingerprint(overview') # Fingerprint(overview))
        => noticed']_vars

\* UI-005: however often answers overtake each other, once the operator stays
\* with an event the board shows that event, and in the end its last version.
BoardCatchesUp ==
    \A e \in Event :
        <>[](selected = e) => <>[](overview = [event |-> e, version |-> version[e]])

\* UI-004: after an outage the banner goes away by itself, when there is an
\* event whose overview can be shown.
ErrorClears == (error /\ existing # {}) ~> ~error
=============================================================================
