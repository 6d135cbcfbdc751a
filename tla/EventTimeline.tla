---------------------------- MODULE EventTimeline ----------------------------
(***************************************************************************)
(* The time player of the situation board: GET /events/:eventId/timeline   *)
(* (forest-back-demo, routes/resources.ts), the fallback to the latest     *)
(* rows (forest-front-demo, http-api/forest-api.ts), the snapshots built   *)
(* from them and the player that steps through them                        *)
(* (UnifiedDisasterDashboard.tsx).  Assets and persons go the same way,    *)
(* both are Things.  Time is counted in ticks, TicksPerMinute to a minute. *)
(* A query is read in the step that hears its answer; what is stored while  *)
(* an answer travels is as good as stored after it.                        *)
(*                                                                         *)
(* When an event may be selected is in Dashboard; here it may be any time. *)
(***************************************************************************)
EXTENDS Integers, FiniteSets

CONSTANTS
    Event, NoEvent,
    Thing,          \* assets and persons with positions
    Slot,           \* bound: timeline requests in flight
    TicksPerMinute,
    Window,         \* minutes the player goes back
    Limit,          \* rows the timeline query returns at most
    LatestLimit,    \* rows the latest query returns at most
    MaxTick, MaxRows \* bounds: time, and rows in the database

ASSUME NoEventAssumption == NoEvent \notin Event
ASSUME TickAssumption == TicksPerMinute \in Nat \ {0} /\ Window \in Nat
ASSUME LimitAssumption == Limit \in Nat /\ LatestLimit \in Nat
ASSUME TickBoundAssumption == MaxTick \in Nat /\ MaxRows \in Nat

VARIABLES
    now,
    history,   \* asset_status and personnel_position rows
    selected,
    timeline,  \* what the last refresh left: an answer, or None
    loading,
    index,     \* the snapshot shown, or Live
    playing,
    request    \* timeline requests in flight

playerVars == <<index, playing>>
vars == <<now, history, selected, timeline, loading, playerVars, request>>

Start == Window * TicksPerMinute
Tick == 0..(Start + MaxTick)
Row == [event : Event, thing : Thing, at : Tick]

Answer == [event : Event, to : Tick, rows : SUBSET Row]
None == [event |-> NoEvent, to |-> 0, rows |-> {}]
Live == -1

Unused == [phase |-> "idle", active |-> FALSE, event |-> NoEvent, to |-> 0]
Request == [phase : {"timeline", "latest"}, active : BOOLEAN,
            event : Event, to : Tick]

Asked(e) == [phase |-> "timeline", active |-> TRUE, event |-> e, to |-> now]

\* The event chosen when the list arrived is already asked for.
Init ==
    /\ now = Start /\ history = {}
    /\ selected \in Event
    /\ timeline = None /\ loading = TRUE
    /\ index = Live /\ playing = FALSE
    /\ \E s \in Slot :
         request = [t \in Slot |-> IF t = s THEN Asked(selected) ELSE Unused]

(***************************************************************************)
(* The world: time passes, positions are stored, also late ones.           *)
(***************************************************************************)
Pass ==
    /\ now < Start + MaxTick
    /\ now' = now + 1
    /\ UNCHANGED <<history, selected, timeline, loading, playerVars, request>>

Report(e, t) ==
    /\ Cardinality(history) < MaxRows
    /\ \E at \in 0..now :
         history' = history \cup {[event |-> e, thing |-> t, at |-> at]}
    /\ UNCHANGED <<now, selected, timeline, loading, playerVars, request>>

(***************************************************************************)
(* The queries.                                                            *)
(***************************************************************************)
\* A query with ascending order: the oldest rows within the limit.
OldestOf(rows, n) ==                             \* mutant
    {some \in SUBSET rows :
        /\ Cardinality(some) <= n
        /\ some = rows \/ Cardinality(some) = n
        /\ \A r \in some, q \in rows \ some : r.at <= q.at}

\* order("observed_at", descending).limit(n); rows of one time in any order.
NewestOf(rows, n) ==
    {some \in SUBSET rows :
        /\ Cardinality(some) <= n
        /\ some = rows \/ Cardinality(some) = n
        /\ \A r \in some, q \in rows \ some : r.at >= q.at}

RowsOf(e) == {r \in history : r.event = e}

\* GET /:eventId/timeline returns rows up to `to`, of any age; the latest
\* rows, which are asked for when it fails, know no `to`.
AnswersTo(s) ==
    LET all == RowsOf(request[s].event) IN
    IF request[s].phase = "timeline"
      THEN NewestOf({r \in all : r.at <= request[s].to}, Limit)
      ELSE NewestOf(all, LatestLimit)

(***************************************************************************)
(* The timeline effect.                                                    *)
(***************************************************************************)
\* Selecting clears the player; the effect's cleanup disowns what is under
\* way and the effect asks for the new event's timeline at once.
Select(e) ==
    /\ e # selected
    /\ selected' = e
    /\ timeline' = None /\ index' = Live /\ playing' = FALSE
    /\ loading' = TRUE
    /\ \E s \in Slot :
         /\ request[s] = Unused
         /\ request' = [t \in Slot |->
              IF t = s THEN Asked(e)
              ELSE IF request[t] = Unused THEN Unused
              ELSE [request[t] EXCEPT !.active = FALSE]]
    /\ UNCHANGED <<now, history>>

\* The 60 s timer.
Refresh(s) ==
    /\ request[s] = Unused
    /\ request' = [request EXCEPT ![s] = Asked(selected)]
    /\ loading' = TRUE
    /\ UNCHANGED <<now, history, selected, timeline, playerVars>>

ArrivesAnyway(s) ==                              \* mutant: `active` unchecked
    /\ request[s] # Unused
    /\ request' = [request EXCEPT ![s] = Unused]
    /\ \E rows \in AnswersTo(s) :
         timeline' = [event |-> request[s].event, to |-> request[s].to, rows |-> rows]
    /\ loading' = FALSE
    /\ UNCHANGED <<now, history, selected, playerVars>>

Arrives(s) ==
    /\ request[s] # Unused
    /\ request' = [request EXCEPT ![s] = Unused]
    /\ IF request[s].active
         THEN /\ \E rows \in AnswersTo(s) :
                   timeline' = [event |-> request[s].event, to |-> request[s].to,
                                rows |-> rows]
              /\ loading' = FALSE
         ELSE UNCHANGED <<timeline, loading>>
    /\ UNCHANGED <<now, history, selected, playerVars>>

\* loadEventTimeline asks for the latest rows when the timeline fails.
TimelineFails(s) ==
    /\ request[s].phase = "timeline"
    /\ request' = [request EXCEPT ![s].phase = "latest"]
    /\ UNCHANGED <<now, history, selected, timeline, loading, playerVars>>

\* A refresh that fails twice takes away the timeline that was there.
LatestFails(s) ==
    /\ request[s].phase = "latest"
    /\ request' = [request EXCEPT ![s] = Unused]
    /\ IF request[s].active
         THEN timeline' = None /\ loading' = FALSE
         ELSE UNCHANGED <<timeline, loading>>
    /\ UNCHANGED <<now, history, selected, playerVars>>

(***************************************************************************)
(* Snapshots, one a minute from an hour ago to now.                        *)
(***************************************************************************)
Snapshots == IF timeline = None THEN {} ELSE 0..Window
LastIndex == IF timeline = None THEN -1 ELSE Window

\* The last tick of the minute that snapshot i of an answer stands for.
EndOf(answer, i) ==
    ((answer.to - Start) \div TicksPerMinute + i + 1) * TicksPerMinute - 1

\* The sweep: the last row of a thing, in order of time, up to that tick.
Positions(answer, i) ==
    {r \in answer.rows :
        /\ r.at <= EndOf(answer, i)
        /\ \A q \in answer.rows :
              q.thing = r.thing /\ q.at <= EndOf(answer, i) => q.at <= r.at}

(***************************************************************************)
(* The player.                                                             *)
(***************************************************************************)
\* The button is disabled while a timeline is loading or there is none.
TogglePlay ==
    /\ ~loading /\ LastIndex >= 1
    /\ playing' = ~playing
    /\ index' = IF playing THEN index
                ELSE IF index = Live \/ index >= LastIndex THEN 0 ELSE index
    /\ UNCHANGED <<now, history, selected, timeline, loading, request>>

MoveTo(i) ==
    /\ ~loading /\ i \in Snapshots /\ LastIndex >= 1
    /\ index' = i /\ playing' = FALSE
    /\ UNCHANGED <<now, history, selected, timeline, loading, request>>

GoLive ==
    /\ ~loading
    /\ index' = Live /\ playing' = FALSE
    /\ UNCHANGED <<now, history, selected, timeline, loading, request>>

PlayOnAgain ==                                   \* mutant: starts over
    /\ playing /\ LastIndex >= 1
    /\ index' = IF index >= LastIndex THEN 0 ELSE index + 1
    /\ UNCHANGED <<now, history, selected, timeline, loading, playing, request>>

\* The playback effect: one snapshot a second, and no timer without two.
PlayOn ==
    /\ playing /\ LastIndex >= 1
    /\ IF index >= LastIndex
         THEN playing' = FALSE /\ UNCHANGED index
         ELSE index' = index + 1 /\ UNCHANGED playing
    /\ UNCHANGED <<now, history, selected, timeline, loading, request>>

Next ==
    \/ Pass
    \/ \E e \in Event : Select(e) \/ \E t \in Thing : Report(e, t)
    \/ \E s \in Slot :
         Refresh(s) \/ Arrives(s) \/ TimelineFails(s) \/ LatestFails(s)
    \/ TogglePlay \/ GoLive \/ PlayOn
    \/ \E i \in Snapshots : MoveTo(i)

Spec == Init /\ [][Next]_vars

\* Timers fire, requests end, and the API answers again and again.  A second
\* of playback passes between refreshes, which are a minute apart.
Fairness ==
    /\ SF_vars(PlayOn)
    /\ SF_vars(\E s \in Slot : Refresh(s))
    /\ \A s \in Slot : WF_vars(Arrives(s) \/ TimelineFails(s) \/ LatestFails(s))
    /\ SF_vars(\E s \in Slot : request[s].active /\ Arrives(s))

FairSpec == Spec /\ Fairness

-----------------------------------------------------------------------------
(***************************************************************************)
(* Properties.                                                             *)
(***************************************************************************)
\* The variables always have their types, and the player never stands on a
\* snapshot beyond the last (UnifiedDisasterDashboard.tsx:539-542).
TypeOK ==
    /\ now \in Tick /\ history \subseteq Row
    /\ selected \in Event
    /\ timeline \in Answer \cup {None}
    /\ loading \in BOOLEAN /\ playing \in BOOLEAN
    /\ index \in 0..Window \cup {Live}
    /\ request \in [Slot -> Request \cup {Unused}]

\* The player never steps through another event's history, whenever answers
\* arrive: the effect's `active` flag outlives its request.
TimelineOfSelected == timeline # None => timeline.event = selected

\* What a snapshot shows is what the database knew when it answered: whatever
\* the limits cut off and whichever query answered, a thing is shown where its
\* newest row up to that minute put it, or not at all, never where it was
\* before (resources.ts:109-126 and the sweep of buildTimelineSnapshots).
TrueTo(answer) ==
    \A i \in 0..Window : \A r \in Positions(answer, i) :
        /\ r \in RowsOf(answer.event)
        /\ \A q \in RowsOf(answer.event) :
             q.thing = r.thing /\ q.at <= EndOf(answer, i) /\ q.at <= answer.to
             => q.at <= r.at
HistoryIsTrue ==
    [][timeline' # timeline /\ timeline' # None => TrueTo(timeline')]_vars

\* UI-011: playback comes to its end, also when refreshes fail in between
\* and take the timeline away for a while.
PlaybackEnds == playing ~> ~playing
=============================================================================
