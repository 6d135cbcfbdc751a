------------------------------- MODULE MapView -------------------------------
(***************************************************************************)
(* The live map of the situation board (LivePositionMap.tsx).  The board   *)
(* keeps what is to be shown; MapLibre keeps sources, layers and paints of *)
(* its own, which React effects bring up to date.  An action is one commit *)
(* of React with the effects it runs, in the order of the file, or one     *)
(* callback of the browser.                                                *)
(*                                                                         *)
(* An effect draws at once when isStyleLoaded() says so and otherwise      *)
(* leaves its drawing to the event "load".  MapLibre (external) fires      *)
(* "load" once in the life of the map, and isStyleLoaded() is false again  *)
(* whenever tiles are fetched or a source was just given new data: what an *)
(* effect defers after "load" is drawn only when that effect runs again.   *)
(***************************************************************************)
CONSTANTS
    Event, NoEvent,
    Located,            \* the events with coordinates
    Overview, NoView,   \* overviews the board may be shown, one after another
    EventOf,            \* [Overview -> Event]
    Layer,              \* the domain layers (domainLayerStyle)
    LayersOf            \* [Overview -> SUBSET Layer]: those it carries

\* The markers' own switch among visibleLayerIds.
Resources == "resources"

ASSUME MapAssumption ==
    /\ NoEvent \notin Event /\ Located \subseteq Event
    /\ NoView \notin Overview /\ EventOf \in [Overview -> Event]
    /\ LayersOf \in [Overview -> SUBSET Layer]
    /\ Resources \notin Layer

VARIABLES
    view,       \* the overview the board shows
    visible,    \* visibleLayerIds
    lit,        \* changedUntil has a marker in it
    style,      \* mutedBasemap, as the style it asks for
    loaded,     \* the event "load" has been fired
    ready,      \* isStyleLoaded()
    waiting,    \* the drawings left to "load"
    base,       \* the style the base map is drawn in
    layers,     \* the data each domain layer was last given
    on,         \* the domain layers that are switched on
    field,      \* what the markers, event point and links were drawn from
    above,      \* the domain layers that lie above the markers
    camera,     \* selectedEventRef
    panned,     \* the operator moved the map since it last moved itself
    frame,      \* an animation frame is requested
    paint       \* how markers are painted

boardVars == <<view, visible, lit, style>>
drawnVars == <<layers, on, field, above>>
vars == <<boardVars, loaded, ready, waiting, base, drawnVars, camera, panned,
          frame, paint>>

Shown == SUBSET (Layer \cup {Resources})
Style == {"normal", "muted"}
LayerDrawing == [view : Overview, visible : Shown]
FieldDrawing == [view : Overview, shown : BOOLEAN]
NoStyle == "none"
NoLayers == [view |-> NoView, visible |-> {}]
NoField == [view |-> NoView, shown |-> FALSE]

TypeOK ==
    /\ view \in Overview /\ visible \in Shown
    /\ {lit, loaded, ready, panned, frame} \subseteq BOOLEAN
    /\ style \in Style /\ base \in Style
    /\ waiting \in [base : Style \cup {NoStyle}, layers : LayerDrawing \cup {NoLayers},
                   field : FieldDrawing \cup {NoField}]
    /\ layers \in [Layer -> Overview \cup {NoView}]
    /\ on \subseteq Layer
    /\ field \in FieldDrawing \cup {NoField}
    /\ above \subseteq {l \in Layer : layers[l] # NoView}
    /\ camera \in Event \cup {NoEvent}
    /\ paint \in {"plain", "pulsing"}

LayersOn(v, vis) == [view |-> v, visible |-> vis]
FieldOn(v, vis) == [view |-> v, shown |-> Resources \in vis]

\* The map is mounted with the first overview, and no effect can draw yet.
\* (Every layer starts visible but the communication coverage.)
Init ==
    /\ view \in Overview /\ visible = Layer \cup {Resources} /\ lit = FALSE
    /\ style = "normal" /\ base = "normal"
    /\ loaded = FALSE /\ ready = FALSE
    /\ waiting = [base |-> "normal", layers |-> LayersOn(view, visible),
                  field |-> FieldOn(view, visible)]
    /\ layers = [l \in Layer |-> NoView] /\ on = {} /\ field = NoField /\ above = {}
    /\ camera = IF EventOf[view] \in Located THEN EventOf[view] ELSE NoEvent
    /\ panned = FALSE /\ frame = FALSE /\ paint = "plain"

------------------------------------------------------------------------------
(* The effects.                                                             *)

\* The camera goes to an event with coordinates when the one it went to last
\* is another.
CameraFollowsAlways(v) ==                       \* mutant: no selectedEventRef
    IF EventOf[v] \in Located
    THEN camera' = EventOf[v] /\ panned' = FALSE
    ELSE UNCHANGED <<camera, panned>>
CameraEffect(v) ==
    IF EventOf[v] \in Located \ {camera}
    THEN camera' = EventOf[v] /\ panned' = FALSE
    ELSE UNCHANGED <<camera, panned>>

\* What a drawing of the domain layers leaves: only the layers of this
\* overview are touched, and a new layer goes on top of all others.
DrawLayers(d) ==
    LET mine == LayersOf[d.view]
    IN  /\ layers' = [l \in Layer |-> IF l \in mine THEN d.view ELSE layers[l]]
        /\ on' = (on \ mine) \cup (mine \cap d.visible)
Raised(d) ==
    IF field = NoField THEN {}
    ELSE above \cup {l \in LayersOf[d.view] : layers[l] = NoView}

\* The dependencies of the effects: domainLayers is new with every overview,
\* and every commit of the live board (playback is EventTimeline) brings the
\* markers a new reference time.
LayersRerunOnOverview(fresh, v, vis) == fresh   \* mutant: without visibleLayerIds
LayersRerunOnChange(fresh, v, vis) == v # view \/ vis # visible    \* mutant: compared by value
LayersRerun(fresh, v, vis) == fresh \/ vis # visible
FieldReruns(fresh) == TRUE

\* The markers' drawing ends by moving all domain layers below itself.
AfterFieldUnordered(raised) == raised           \* mutant: no moveLayer
AfterField(raised) == {}

\* A source that was given data may be loading for a while.
After(r, drew) == IF drew THEN BOOLEAN ELSE {r}

\* Domain layers, then markers; the first may make the map unready for the
\* second.  The cleanups have withdrawn what these effects had left to "load".
DrawingEffects(fresh, v, vis) ==
    LET layersRun == LayersRerun(fresh, v, vis)
        layersDraw == layersRun /\ ready
        raised == IF layersDraw THEN Raised(LayersOn(v, vis)) ELSE above
    IN  /\ IF layersDraw THEN DrawLayers(LayersOn(v, vis)) ELSE UNCHANGED <<layers, on>>
        /\ \E r \in After(ready, layersDraw /\ LayersOf[v] # {}) :
             LET fieldDraws == FieldReruns(fresh) /\ r
             IN  /\ field' = IF fieldDraws THEN FieldOn(v, vis) ELSE field
                 /\ above' = IF fieldDraws THEN AfterField(raised) ELSE raised
                 /\ ready' \in After(r, fieldDraws)
                 /\ waiting' = [waiting EXCEPT
                      !.layers = IF ~layersRun THEN @
                                 ELSE IF ready THEN NoLayers ELSE LayersOn(v, vis),
                      !.field = IF ~FieldReruns(fresh) THEN @
                                ELSE IF r THEN NoField ELSE FieldOn(v, vis)]

\* The pulse is repainted frame by frame while a marker is lit, and painted
\* over when none is.  Nothing is painted while the markers are hidden.
PulseRerunsOnLit(fresh, vis, l) == fresh \/ l # lit                \* mutant
PulseReruns(fresh, vis, l) ==
    fresh \/ l # lit \/ (Resources \in vis) # (Resources \in visible)
PulseEffect(fresh, vis, l) ==
    IF PulseReruns(fresh, vis, l)
    THEN /\ frame' = (l /\ Resources \in vis)
         /\ paint' = IF ~l /\ Resources \in vis /\ field' # NoField THEN "plain" ELSE paint
    ELSE UNCHANGED <<frame, paint>>

\* A commit of the board; fresh when it brings an overview.
Commit(fresh, v, vis, l) ==
    /\ view' = v /\ visible' = vis /\ lit' = l
    /\ CameraEffect(v)
    /\ DrawingEffects(fresh, v, vis)
    /\ PulseEffect(fresh, vis, l)
    /\ UNCHANGED <<style, loaded, base>>

------------------------------------------------------------------------------
(* The board.                                                               *)

\* Any overview may arrive, an older one or one of another event too (see
\* Dashboard), and light up markers or not.
ShowOverview(v) == \E l \in BOOLEAN : Commit(TRUE, v, visible, l)

\* toggleLayer: the switches of the layers panel.
Toggle(x) ==
    LET vis == IF x \in visible THEN visible \ {x} ELSE visible \cup {x}
    IN  Commit(FALSE, view, vis, lit)

\* The timer that ends a pulse, or the choice of another event.
Unlight == lit /\ Commit(FALSE, view, visible, FALSE)

\* Whatever else re-renders the board: its list of events, the timeline, a
\* marker that is chosen.
Rerender == Commit(FALSE, view, visible, lit)

\* The switch of the base map is the map's own state: nothing else re-runs.
SwitchBase ==
    /\ style' \in Style \ {style}
    /\ IF ready
       THEN base' = style' /\ waiting' = [waiting EXCEPT !.base = NoStyle]
       ELSE waiting' = [waiting EXCEPT !.base = style'] /\ UNCHANGED base
    /\ UNCHANGED <<view, visible, lit, loaded, ready, drawnVars, camera, panned, frame, paint>>

------------------------------------------------------------------------------
(* The operator, the map and the browser.                                   *)

Pan ==
    /\ panned' = TRUE
    /\ UNCHANGED <<boardVars, loaded, ready, waiting, base, drawnVars, camera, frame, paint>>

\* Tiles or sources are being fetched; they have arrived.
FetchTiles ==
    /\ ready' = FALSE
    /\ UNCHANGED <<boardVars, loaded, waiting, base, drawnVars, camera, panned, frame, paint>>
TilesArrive ==
    /\ ~ready /\ ready' = TRUE
    /\ UNCHANGED <<boardVars, loaded, waiting, base, drawnVars, camera, panned, frame, paint>>

\* "load" runs what waits for it, in the order of the effects, once.
FireLoad ==
    /\ ready /\ ~loaded
    /\ loaded' = TRUE
    /\ waiting' = [base |-> NoStyle, layers |-> NoLayers, field |-> NoField]
    /\ base' = IF waiting.base = NoStyle THEN base ELSE waiting.base
    /\ IF waiting.layers = NoLayers THEN UNCHANGED <<layers, on>> ELSE DrawLayers(waiting.layers)
    /\ field' = IF waiting.field = NoField THEN field ELSE waiting.field
    /\ LET raised == IF waiting.layers = NoLayers THEN above ELSE Raised(waiting.layers)
       IN  above' = IF waiting.field = NoField THEN raised ELSE AfterField(raised)
    /\ ready' \in BOOLEAN
    /\ UNCHANGED <<boardVars, camera, panned, frame, paint>>

Animate ==
    /\ frame
    /\ paint' = IF field # NoField THEN "pulsing" ELSE paint
    /\ frame' \in BOOLEAN
    /\ UNCHANGED <<boardVars, loaded, ready, waiting, base, drawnVars, camera, panned>>

Next ==
    \/ \E v \in Overview : ShowOverview(v)
    \/ \E x \in Layer \cup {Resources} : Toggle(x)
    \/ Unlight \/ Rerender \/ SwitchBase
    \/ Pan \/ FetchTiles \/ TilesArrive \/ FireLoad \/ Animate

Spec == Init /\ [][Next]_vars

\* What is fetched arrives.  The board polls its events every 10 s and its
\* timeline every minute, the overview every second; of so many re-renders
\* and overviews some find the map idle.
Fairness ==
    /\ WF_vars(TilesArrive)
    /\ SF_vars(ready /\ Rerender)
    /\ SF_vars(ready /\ ShowOverview(view))

FairSpec == Spec /\ Fairness

------------------------------------------------------------------------------
(* Properties                                                               *)

\* Nothing is drawn from an old value unless the drawing of the present one
\* waits for "load": no effect misses a change of what it draws
\* (LivePositionMap.tsx:285, 331, 526), and no drawing that waits is out of
\* date: "load" never takes the map back to an older picture.
DrawnOrWaiting ==
    /\ base = style \/ waiting.base = style
    /\ field = FieldOn(view, visible) \/ waiting.field = FieldOn(view, visible)
    /\ \/ waiting.layers = LayersOn(view, visible)
       \/ \A l \in LayersOf[view] : layers[l] = view /\ (l \in on <=> l \in visible)
    /\ waiting.base \in {NoStyle, style}
    /\ waiting.field \in {NoField, FieldOn(view, visible)}
    /\ waiting.layers \in {NoLayers, LayersOn(view, visible)}

\* The fixed order of LivePositionMap.tsx:480, as far as it holds: a domain
\* layer drawn first while the markers' drawing is deferred, or by "load" after
\* the markers were drawn, covers them, but not for ever.
OrderRestored == []<>(above = {})

\* A marker that is seen pulsing has changed: no pulse outlives the change,
\* also when the markers were hidden, or not drawn yet, while it ended.
PulseEnds == paint = "pulsing" /\ Resources \in visible => lit

\* UX-COM-004: the map moves by itself only when the event shown is another;
\* refreshes, late drawings and switches never take the operator's view away.
PanKept == [][panned /\ ~panned' => EventOf[view'] # EventOf[view]]_vars

\* However often drawings are deferred, once the overview shown stays the same
\* the map comes to show it and keeps showing it, its markers and the domain
\* layers of its event alike, as long as the board goes on polling.
MapCatchesUp ==
    \A v \in Overview :
        <>[](view = v) =>
            <>[](field.view = v /\ \A l \in LayersOf[v] : layers[l] = v)
==============================================================================
