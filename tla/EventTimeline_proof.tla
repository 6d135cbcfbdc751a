------------------------- MODULE EventTimeline_proof -------------------------
(***************************************************************************)
(* Proofs about the time player.  That it never shows another event's      *)
(* history rests on ActiveOfSelected: a request that may still set the     *)
(* timeline was asked for the event that is selected.  That history is     *)
(* true rests on the queries alone: what a limit cuts off is older than    *)
(* everything that is left.                                                *)
(***************************************************************************)
EXTENDS EventTimeline, TLAPS

ActiveOfSelected == \A s \in Slot : request[s].active => request[s].event = selected

IInv == TypeOK /\ TimelineOfSelected /\ ActiveOfSelected

-----------------------------------------------------------------------------
\* A free slot is no request and no timeline is no answer.
LEMMA Apart == /\ Unused \notin Request /\ Unused.active = FALSE
               /\ None \notin Answer /\ None.event \notin Event
BY NoEventAssumption DEF Unused, Request, None, Answer

LEMMA StartIsNat == Start \in Nat /\ Window \in Nat
BY TickAssumption DEF Start

\* What the effect asks for is a request for that event.
LEMMA AskedIsRequest ==
    ASSUME TypeOK, NEW e \in Event
    PROVE  /\ Asked(e) \in Request
           /\ Asked(e).active /\ Asked(e).event = e
BY DEF Asked, Request, TypeOK

\* A request that runs is in one of its phases.
LEMMA Running ==
    ASSUME TypeOK, NEW s \in Slot, request[s] # Unused
    PROVE  request[s] \in Request /\ request[s].event \in Event
           /\ request[s].active \in BOOLEAN
BY DEF TypeOK, Request

\* An answer is made of rows of the event that was asked for.
LEMMA AnswersAreRows ==
    ASSUME TypeOK, NEW s \in Slot, NEW rows \in AnswersTo(s)
    PROVE  rows \subseteq RowsOf(request[s].event) /\ rows \subseteq Row
<1>1. RowsOf(request[s].event) \subseteq Row
  BY DEF TypeOK, RowsOf
<1>2. rows \subseteq RowsOf(request[s].event)
  BY DEF AnswersTo, NewestOf
<1> QED
  BY <1>1, <1>2

LEMMA InitIInv == Init => IInv
<1> SUFFICES ASSUME Init PROVE IInv
  OBVIOUS
<1>1. selected \in Event /\ timeline = None
  BY DEF Init
<1>2. Asked(selected) \in Request /\ Asked(selected).event = selected
  <2>1. now \in Tick
    BY StartIsNat, TickBoundAssumption DEF Init, Tick
  <2> QED
    BY <1>1, <2>1 DEF Asked, Request
<1>3. PICK s \in Slot :
        request = [t \in Slot |-> IF t = s THEN Asked(selected) ELSE Unused]
  BY DEF Init
<1>4. now \in Tick
  BY StartIsNat, TickBoundAssumption DEF Init, Tick
<1>5. TypeOK
  BY <1>1, <1>2, <1>3, <1>4 DEF Init, TypeOK
<1>6. ActiveOfSelected
  BY <1>2, <1>3, Apart DEF ActiveOfSelected
<1> QED
  BY <1>1, <1>5, <1>6 DEF IInv, TimelineOfSelected

-----------------------------------------------------------------------------
\* The world changes neither requests nor what is on screen.
LEMMA WorldKeeps ==
    ASSUME IInv, Pass \/ \E e \in Event, t \in Thing : Report(e, t)
    PROVE  IInv'
<1>1. UNCHANGED <<selected, timeline, loading, index, playing, request>>
  BY DEF Pass, Report, playerVars
<1>2. now' \in Tick /\ history' \subseteq Row
  <2>1. CASE Pass
    BY <2>1, StartIsNat, TickBoundAssumption DEF Pass, IInv, TypeOK, Tick
  <2>2. ASSUME NEW e \in Event, NEW t \in Thing, Report(e, t)
        PROVE  now' \in Tick /\ history' \subseteq Row
    <3>1. PICK at \in 0..now : history' = history \cup {[event |-> e, thing |-> t, at |-> at]}
      BY <2>2 DEF Report
    <3>2. at \in Tick
      BY <3>1, StartIsNat, TickBoundAssumption DEF IInv, TypeOK, Tick
    <3>3. [event |-> e, thing |-> t, at |-> at] \in Row
      BY <3>2 DEF Row
    <3> QED
      BY <2>2, <3>1, <3>3 DEF Report, IInv, TypeOK
  <2> QED
    BY <2>1, <2>2
<1> QED
  BY <1>1, <1>2 DEF IInv, TypeOK, TimelineOfSelected, ActiveOfSelected

\* Selecting disowns what runs and asks for the new event.
LEMMA SelectKeeps ==
    ASSUME IInv, NEW e \in Event, Select(e)
    PROVE  IInv'
<1>a. TypeOK
  BY DEF IInv
<1>1. PICK s \in Slot : request' = [t \in Slot |->
        IF t = s THEN Asked(e)
        ELSE IF request[t] = Unused THEN Unused
        ELSE [request[t] EXCEPT !.active = FALSE]]
  BY DEF Select
<1>2. \A t \in Slot : /\ request'[t] \in Request \cup {Unused}
                      /\ request'[t].active => request'[t].event = e
  <2> SUFFICES ASSUME NEW t \in Slot
               PROVE  /\ request'[t] \in Request \cup {Unused}
                      /\ request'[t].active => request'[t].event = e
    OBVIOUS
  <2>1. CASE t = s
    BY <1>a, <1>1, <2>1, AskedIsRequest
  <2>2. CASE t # s /\ request[t] = Unused
    BY <1>1, <2>2, Apart
  <2>3. CASE t # s /\ request[t] # Unused
    <3>1. request[t] \in Request
      BY <1>a, <2>3, Running
    <3>2. request'[t] = [request[t] EXCEPT !.active = FALSE]
      BY <1>1, <2>3
    <3> QED
      BY <3>1, <3>2 DEF Request
  <2> QED
    BY <2>1, <2>2, <2>3
<1>3. TypeOK'
  BY <1>a, <1>1, <1>2 DEF Select, TypeOK
<1> QED
  BY <1>2, <1>3 DEF Select, IInv, TimelineOfSelected, ActiveOfSelected

\* The refresh timer asks for the selected event.
LEMMA RefreshKeeps ==
    ASSUME IInv, NEW s \in Slot, Refresh(s)
    PROVE  IInv'
<1>a. TypeOK
  BY DEF IInv
<1>1. Asked(selected) \in Request /\ Asked(selected).event = selected
  BY <1>a, AskedIsRequest DEF TypeOK
<1>2. TypeOK'
  BY <1>a, <1>1 DEF Refresh, TypeOK, playerVars
<1>3. \A t \in Slot : request'[t] = request[t] \/ request'[t] = Asked(selected)
  BY <1>a DEF Refresh, TypeOK
<1> QED
  BY <1>1, <1>2, <1>3 DEF Refresh, IInv, TimelineOfSelected, ActiveOfSelected, playerVars

\* An answer or a failure frees its slot; only an active one touches the
\* timeline.
LEMMA RequestKeeps ==
    ASSUME IInv, NEW s \in Slot, Arrives(s) \/ TimelineFails(s) \/ LatestFails(s)
    PROVE  IInv'
<1>a. TypeOK /\ TimelineOfSelected /\ ActiveOfSelected
  BY DEF IInv
<1>1. request[s] # Unused /\ UNCHANGED <<now, history, selected, index, playing>>
  BY DEF Arrives, TimelineFails, LatestFails, playerVars, Unused
<1>2. request[s] \in Request /\ request[s].event \in Event /\ request[s].active \in BOOLEAN
  BY <1>a, <1>1, Running
<1>3. /\ request' \in [Slot -> Request \cup {Unused}]
      /\ \A t \in Slot : request'[t].active => request[t].active /\ request'[t].event = request[t].event
  <2>1. CASE request' = [request EXCEPT ![s] = Unused]
    BY <1>a, <2>1, Apart DEF TypeOK
  <2>2. CASE request' = [request EXCEPT ![s].phase = "latest"]
    <3>1. [request[s] EXCEPT !.phase = "latest"] \in Request
      BY <1>2 DEF Request
    <3>2. /\ [request[s] EXCEPT !.phase = "latest"].active = request[s].active
          /\ [request[s] EXCEPT !.phase = "latest"].event = request[s].event
      BY <1>2 DEF Request
    <3>3. /\ request' \in [Slot -> Request \cup {Unused}]
          /\ request'[s] = [request[s] EXCEPT !.phase = "latest"]
          /\ \A t \in Slot : t # s => request'[t] = request[t]
      BY <1>a, <2>2, <3>1 DEF TypeOK
    <3> QED
      BY <3>2, <3>3
  <2> QED
    BY <2>1, <2>2 DEF Arrives, TimelineFails, LatestFails
<1>4. ActiveOfSelected'
  BY <1>a, <1>1, <1>3 DEF ActiveOfSelected
<1>5. /\ loading' \in BOOLEAN
      /\ \/ timeline' = timeline \/ timeline' = None
         \/ timeline' \in Answer /\ timeline'.event = selected
  <2>1. CASE Arrives(s) /\ request[s].active
    <3>1. PICK rows \in AnswersTo(s) :
            timeline' = [event |-> request[s].event, to |-> request[s].to, rows |-> rows]
      BY <2>1 DEF Arrives
    <3>2. rows \subseteq Row
      BY <1>a, <3>1, AnswersAreRows
    <3>3. request[s].to \in Tick
      BY <1>2 DEF Request
    <3>4. timeline' \in Answer
      BY <1>2, <3>1, <3>2, <3>3 DEF Answer
    <3>5. timeline'.event = selected
      BY <1>a, <2>1, <3>1 DEF ActiveOfSelected
    <3> QED
      BY <2>1, <3>4, <3>5 DEF Arrives
  <2>2. CASE Arrives(s) /\ ~request[s].active
    BY <1>a, <2>2 DEF Arrives, TypeOK
  <2>3. CASE TimelineFails(s) \/ LatestFails(s)
    BY <1>a, <2>3 DEF TimelineFails, LatestFails, TypeOK
  <2> QED
    BY <2>1, <2>2, <2>3
<1>6. TypeOK'
  BY <1>a, <1>1, <1>3, <1>5 DEF TypeOK
<1>7. TimelineOfSelected'
  BY <1>a, <1>1, <1>5 DEF TimelineOfSelected
<1> QED
  BY <1>4, <1>6, <1>7 DEF IInv

\* The player moves within the snapshots.
LEMMA PlayerKeeps ==
    ASSUME IInv, TogglePlay \/ GoLive \/ PlayOn \/ \E i \in Snapshots : MoveTo(i)
    PROVE  IInv'
<1>a. TypeOK
  BY DEF IInv
<1>1. UNCHANGED <<now, history, selected, timeline, loading, request>>
  BY DEF TogglePlay, GoLive, PlayOn, MoveTo
<1>2. index' \in 0..Window \cup {Live}
  <2>1. CASE TogglePlay
    BY <1>a, <2>1, StartIsNat DEF TogglePlay, TypeOK
  <2>2. CASE GoLive
    BY <2>2 DEF GoLive
  <2>3. CASE PlayOn
    <3>1. LastIndex = Window
      BY <2>3 DEF PlayOn, LastIndex
    <3>2. index \in 0..Window \/ index = -1
      BY <1>a DEF TypeOK, Live
    <3>3. CASE index >= Window
      BY <1>a, <2>3, <3>1, <3>3 DEF PlayOn, TypeOK
    <3>4. CASE ~(index >= Window)
      <4>1. index' = index + 1
        BY <2>3, <3>1, <3>4 DEF PlayOn
      <4>2. index + 1 \in 0..Window
        BY <3>2, <3>4, StartIsNat
      <4> QED
        BY <4>1, <4>2
    <3> QED
      BY <3>3, <3>4
  <2>4. ASSUME NEW i \in Snapshots, MoveTo(i) PROVE index' \in 0..Window \cup {Live}
    BY <2>4 DEF MoveTo, Snapshots
  <2> QED
    BY <2>1, <2>2, <2>3, <2>4
<1>3. playing' \in BOOLEAN
  BY <1>a DEF TogglePlay, GoLive, PlayOn, MoveTo, TypeOK
<1> QED
  BY <1>a, <1>1, <1>2, <1>3 DEF IInv, TypeOK, TimelineOfSelected, ActiveOfSelected

LEMMA NextIInv == IInv /\ [Next]_vars => IInv'
<1> SUFFICES ASSUME IInv, [Next]_vars PROVE IInv'
  OBVIOUS
<1>1. CASE UNCHANGED vars
  BY <1>1 DEF IInv, TypeOK, TimelineOfSelected, ActiveOfSelected, vars, playerVars
<1>2. CASE Pass \/ \E e \in Event, t \in Thing : Report(e, t)
  BY <1>2, WorldKeeps
<1>3. ASSUME NEW e \in Event, Select(e) PROVE IInv'
  BY <1>3, SelectKeeps
<1>4. ASSUME NEW s \in Slot, Refresh(s) PROVE IInv'
  BY <1>4, RefreshKeeps
<1>5. ASSUME NEW s \in Slot, Arrives(s) \/ TimelineFails(s) \/ LatestFails(s) PROVE IInv'
  BY <1>5, RequestKeeps
<1>6. CASE TogglePlay \/ GoLive \/ PlayOn \/ \E i \in Snapshots : MoveTo(i)
  BY <1>6, PlayerKeeps
<1> QED
  BY <1>1, <1>2, <1>3, <1>4, <1>5, <1>6 DEF Next

LEMMA Invariance == Spec => []IInv
<1>1. Init => IInv
  BY InitIInv
<1>2. IInv /\ [Next]_vars => IInv'
  BY NextIInv
<1> QED
  BY <1>1, <1>2, PTL DEF Spec

\* UnifiedDisasterDashboard.tsx:539-542: whatever the window, the limits and
\* the requests in flight, the variables have their types and the player
\* stands on a snapshot that exists.
THEOREM TypeCorrect == Spec => []TypeOK
<1>1. IInv => TypeOK
  BY DEF IInv
<1> QED
  BY <1>1, Invariance, PTL

\* UnifiedDisasterDashboard.tsx:662-681: however many refreshes overlap and
\* whichever of them fail, the timeline is the selected event's.
THEOREM OwnHistory == Spec => []TimelineOfSelected
<1>1. IInv => TimelineOfSelected
  BY DEF IInv
<1> QED
  BY <1>1, Invariance, PTL

-----------------------------------------------------------------------------
\* A limit keeps the newest: no row of the table is newer than a row of the
\* answer and missing in it.
LEMMA CutIsOlder ==
    ASSUME NEW rows, NEW n, NEW some \in NewestOf(rows, n), NEW r \in some, NEW q \in rows \ some
    PROVE  r.at >= q.at
BY DEF NewestOf

\* The rows of an answer place things where their newest rows do.
LEMMA AnswerIsTrue ==
    ASSUME TypeOK, NEW s \in Slot, NEW rows \in AnswersTo(s), request[s] # Unused,
           NEW answer, answer = [event |-> request[s].event, to |-> request[s].to, rows |-> rows]
    PROVE  TrueTo(answer)
<1>1. answer.rows = rows /\ answer.event = request[s].event /\ answer.to = request[s].to
  OBVIOUS
<1>2. rows \subseteq RowsOf(answer.event)
  BY <1>1, AnswersAreRows
<1> SUFFICES ASSUME NEW i \in 0..Window, NEW r \in Positions(answer, i),
                    NEW q \in RowsOf(answer.event),
                    q.thing = r.thing, q.at <= EndOf(answer, i), q.at <= answer.to
             PROVE  q.at <= r.at
  BY <1>1, <1>2 DEF TrueTo, Positions
<1>3. r \in rows
  BY <1>1 DEF Positions
<1>4. CASE q \in rows
  BY <1>1, <1>4 DEF Positions
<1>5. CASE q \notin rows
  <2>1. q.at \in Int /\ r.at \in Int
    BY <1>2, <1>3 DEF TypeOK, RowsOf, Row, Tick
  <2>2. CASE request[s].phase = "timeline"
    <3> DEFINE until == {p \in RowsOf(request[s].event) : p.at <= request[s].to}
    <3>1. rows \in NewestOf(until, Limit)
      BY <2>2 DEF AnswersTo
    <3>2. q \in until \ rows
      BY <1>1, <1>5
    <3>3. r.at >= q.at
      BY <1>3, <3>1, <3>2, CutIsOlder
    <3> QED
      BY <2>1, <3>3
  <2>3. CASE request[s].phase # "timeline"
    <3>1. rows \in NewestOf(RowsOf(request[s].event), LatestLimit)
      BY <2>3 DEF AnswersTo
    <3>2. q \in RowsOf(request[s].event) \ rows
      BY <1>1, <1>5
    <3>3. r.at >= q.at
      BY <1>3, <3>1, <3>2, CutIsOlder
    <3> QED
      BY <2>1, <3>3
  <2> QED
    BY <2>2, <2>3
<1> QED
  BY <1>4, <1>5

\* Only an answer that arrives gives the board a new timeline.
LEMMA StepIsTrue ==
    TypeOK /\ [Next]_vars => [timeline' # timeline /\ timeline' # None => TrueTo(timeline')]_vars
<1> SUFFICES ASSUME TypeOK, [Next]_vars, timeline' # timeline, timeline' # None
             PROVE  TrueTo(timeline')
  OBVIOUS
<1>1. PICK s \in Slot : Arrives(s)
  BY DEF Next, vars, playerVars, Pass, Report, Select, Refresh, TimelineFails, LatestFails,
         TogglePlay, GoLive, PlayOn, MoveTo
<1>2. PICK rows \in AnswersTo(s) :
        timeline' = [event |-> request[s].event, to |-> request[s].to, rows |-> rows]
  BY <1>1 DEF Arrives
<1>3. request[s] # Unused
  BY <1>1 DEF Arrives
<1> QED
  BY <1>2, <1>3, AnswerIsTrue

\* resources.ts:109-126: for any limits, any rows however late and any window,
\* no snapshot of an answer shows a thing where it no longer was.
THEOREM NoOutdatedPosition == Spec => HistoryIsTrue
<1>1. Spec => []TypeOK
  BY TypeCorrect
<1>2. TypeOK /\ [Next]_vars => [timeline' # timeline /\ timeline' # None => TrueTo(timeline')]_vars
  BY StepIsTrue
<1>3. Spec => [][timeline' # timeline /\ timeline' # None => TrueTo(timeline')]_vars
  BY <1>1, <1>2, PTL DEF Spec
<1> QED
  BY <1>3 DEF HistoryIsTrue
==============================================================================
